---------------------------- MODULE Outbox_proofs ----------------------------
(***************************************************************************)
(* Theorems about Outbox for every set of events, handlers and workers and *)
(* every bound.                                                            *)
(***************************************************************************)
EXTENDS Outbox, FiniteSetTheorems, TLAPS

Ran(e, h) == runs[<<e, h>>] >= 1

\* A worker without a transaction holds nothing; one with a transaction has
\* locked only rows that are still pending.
LocksArePending ==
    \A w \in Workers :
        /\ tx[w].open \/ tx[w] = NoTick
        /\ \A e \in Locked(w) : row[e] = "pending"

\* How far a tick has got with its current row, its published rows and its
\* claims, told by what is committed in the handlers' own transactions.
TickHasRun ==
    \A w \in Workers :
        /\ tx[w].running => tx[w].cur # None /\ tx[w].next <= Count(tx[w].cur)
        /\ tx[w].cur # None =>
              /\ tx[w].next >= 1
              /\ \A i \in 1..Count(tx[w].cur) :
                    i < tx[w].next => Ran(tx[w].cur, HandlersOf[tx[w].cur][i])
        /\ \A e \in tx[w].published : \A h \in Required[e] : Ran(e, h)
        /\ \A e \in Events, h \in Handlers : <<e, h>> \in tx[w].ran => Ran(e, h)

LoggedHasRun == \A e \in Events, h \in Handlers : <<e, h>> \in log => Ran(e, h)

IInv ==
    /\ TypeOK
    /\ LocksArePending
    /\ RowsHeldOnce
    /\ TickHasRun
    /\ LoggedHasRun
    /\ PublishedOnlyAfterHandlers

-----------------------------------------------------------------------------

\* A handler index within Count names a handler that the event requires.
LEMMA HandlerIsRequired ==
    ASSUME NEW e \in Events, NEW i \in Nat, i >= 1, i <= Count(e)
    PROVE  HandlersOf[e][i] \in Required[e] /\ HandlersOf[e][i] \in Handlers
<1>1. Count(e) = Len(HandlersOf[e])
  BY HandlersAssumption DEF Count
<1>2. HandlersOf[e] \in Seq(Handlers)
  BY HandlersAssumption
<1>3. i \in 1..Count(e) /\ i \in 1..Len(HandlersOf[e])
  BY <1>1, <1>2
<1> QED BY <1>2, <1>3 DEF Required

\* The executions counted at the next handler of a running row.
LEMMA CurrentIsPair ==
    ASSUME TypeOK, NEW w \in Workers, tx[w].cur # None, tx[w].next >= 1,
           tx[w].next <= Count(tx[w].cur)
    PROVE  /\ tx[w].cur \in Events
           /\ Handler(w) \in Required[tx[w].cur]
           /\ Handler(w) \in Handlers
           /\ Current(w) \in Pairs
<1>1. tx[w].cur \in Events /\ tx[w].next \in Nat
  BY DEF TypeOK, Tick
<1> QED BY <1>1, HandlerIsRequired DEF Handler, Current, Pairs

LEMMA InitIInv == Init => IInv
<1> SUFFICES ASSUME Init PROVE IInv
  OBVIOUS
<1>1. TypeOK
  <2>1. NoTick \in Tick
    BY DEF NoTick, Tick
  <2> QED BY <2>1 DEF TypeOK, Init
<1>2. LocksArePending /\ RowsHeldOnce
  BY DEF Init, NoTick, LocksArePending, RowsHeldOnce, Locked, CurSet
<1>3. TickHasRun /\ LoggedHasRun /\ PublishedOnlyAfterHandlers
  BY DEF Init, NoTick, TickHasRun, LoggedHasRun, PublishedOnlyAfterHandlers
<1> QED BY <1>1, <1>2, <1>3 DEF IInv

\* The handler that worker w is running commits its effect.
Runs(w) == runs' = [runs EXCEPT ![Current(w)] = @ + 1]

\* Only a handler's own commit counts an execution: it then returns, or raises
\* all the same.
LEMMA OnlyHandlersRun ==
    ASSUME [Next]_vars, ~UNCHANGED runs
    PROVE  \E w \in Workers : Runs(w) /\ (HandlerSucceeds(w) \/ HandlerFails(w))
  BY DEF Next, vars, WorkerStep, AddEvent, CommitUow, RollbackUow, BackoffElapses,
     BeginTick, SkipRow, TakeRow, ShortCircuit, Claim, HandlerSucceeds, HandlerFails,
     RaisesBeforeCommit, RaisesAfterCommit, FinishRow, CommitTick, LoseTick, RaiseOnRow,
     RollBackTick, Runs

\* A committed execution is never uncommitted.
LEMMA RunsGrow ==
    ASSUME IInv, [Next]_vars, NEW e \in Events, NEW h \in Handlers, Ran(e, h)
    PROVE  Ran(e, h)'
<1>1. runs \in [Pairs -> Nat] /\ <<e, h>> \in Pairs
  BY DEF IInv, TypeOK, Pairs
<1>2. CASE UNCHANGED runs
  BY <1>2 DEF Ran
<1>3. ASSUME NEW w \in Workers, Runs(w) PROVE Ran(e, h)'
  BY <1>1, <1>3 DEF Runs, Ran
<1> QED BY <1>2, <1>3, OnlyHandlersRun

-----------------------------------------------------------------------------

(* Every step of a worker changes its own transaction only, and, BeginTick *)
(* apart, locks no row it had not locked.                                  *)

LEMMA StepTypes ==
    ASSUME IInv, [Next]_vars
    PROVE  TypeOK'
<1> USE DEF TypeOK
<1>0. NoTick \in Tick
  BY DEF NoTick, Tick
<1>1. CASE UNCHANGED vars
  BY <1>1 DEF IInv, vars
<1>2. ASSUME NEW e \in Events,
             AddEvent(e) \/ CommitUow(e) \/ RollbackUow(e) \/ BackoffElapses(e)
      PROVE  TypeOK'
  BY <1>2 DEF IInv, AddEvent, CommitUow, RollbackUow, BackoffElapses
<1>3. ASSUME NEW w \in Workers, WorkerStep(w) \/ HandlerFails(w) \/ LoseTick(w)
      PROVE  TypeOK'
  <2>0. /\ TypeOK /\ tx[w] \in Tick /\ tx \in [Workers -> Tick]
        /\ tx[w].cur # None => tx[w].cur \in Events
    BY DEF IInv, Tick
  <2>1. CASE BeginTick(w)
    <3>1. PICK S \in SUBSET Eligible :
              tx' = [tx EXCEPT ![w] = [NoTick EXCEPT !.open = TRUE, !.todo = S]]
      BY <2>1 DEF BeginTick
    <3>2. S \subseteq Events
      BY DEF Eligible
    <3>3. [NoTick EXCEPT !.open = TRUE, !.todo = S] \in Tick
      BY <3>2, <1>0 DEF Tick
    <3> QED BY <2>0, <2>1, <3>1, <3>3 DEF BeginTick
  <2>2. CASE SkipRow(w)
    <3>1. PICK e \in Events :
             tx' = [tx EXCEPT ![w].todo = @ \ {e}, ![w].published = @ \cup {e}]
      BY <2>2 DEF SkipRow
    <3>2. tx' \in [Workers -> Tick]
      BY <2>0, <3>1 DEF Tick
    <3> QED BY <2>0, <2>2, <3>2 DEF SkipRow
  <2>3. CASE TakeRow(w)
    <3>1. PICK e \in Events :
             tx' = [tx EXCEPT ![w].todo = @ \ {e}, ![w].cur = e, ![w].next = 1]
      BY <2>3 DEF TakeRow
    <3>2. tx' \in [Workers -> Tick]
      BY <2>0, <3>1 DEF Tick
    <3> QED BY <2>0, <2>3, <3>2 DEF TakeRow
  <2>4. CASE ShortCircuit(w)
    BY <2>0, <2>4 DEF ShortCircuit, Tick
  <2>5. CASE Claim(w)
    BY <2>0, <2>5 DEF Claim, Tick
  <2>6. CASE HandlerSucceeds(w)
    <3>1. Current(w) \in Pairs
      BY <2>6, CurrentIsPair DEF HandlerSucceeds, IInv, TickHasRun
    <3>2. runs' \in [Pairs -> Nat]
      BY <2>0, <2>6, <3>1 DEF HandlerSucceeds
    <3>3. tx' \in [Workers -> Tick]
      BY <2>0, <2>6, <3>1 DEF HandlerSucceeds, Tick
    <3> QED BY <2>0, <2>6, <3>2, <3>3 DEF HandlerSucceeds
  <2>7. CASE HandlerFails(w)
    <3>1. tx[w].cur \in Events /\ Current(w) \in Pairs
      BY <2>0, <2>7, CurrentIsPair DEF HandlerFails, IInv, TickHasRun
    <3>2. runs' \in [Pairs -> Nat] /\ wasted' \in [Pairs -> Nat]
      BY <2>0, <2>7, <3>1 DEF HandlerFails, RaisesBeforeCommit, RaisesAfterCommit
    <3>3. tx' \in [Workers -> Tick]
      BY <2>0, <2>7, <3>1 DEF HandlerFails, Tick
    <3> QED BY <2>0, <2>7, <3>2, <3>3 DEF HandlerFails
  <2>8. CASE FinishRow(w)
    BY <2>0, <2>8 DEF FinishRow, Tick
  <2>9. CASE CommitTick(w)
    <3>1. log' \subseteq Pairs /\ tx' \in [Workers -> Tick]
      BY <1>0, <2>0, <2>9 DEF CommitTick, Tick
    <3>2. /\ row' \in [Events -> {"none", "buffered", "pending", "published"}]
          /\ attempts' \in [Events -> Nat]
      BY <2>0, <2>9 DEF CommitTick
    <3>3. due' \in [Events -> BOOLEAN]
      <4>1. PICK waiting \in SUBSET tx[w].failed :
               due' = [e \in Events |-> IF e \in tx[w].failed THEN e \notin waiting
                                                             ELSE due[e]]
        BY <2>9 DEF CommitTick
      <4>2. \A e \in Events : (IF e \in tx[w].failed THEN e \notin waiting
                                                    ELSE due[e]) \in BOOLEAN
        BY <2>0
      <4> QED BY <4>1, <4>2, Zenon
    <3> QED BY <2>0, <2>9, <3>1, <3>2, <3>3 DEF CommitTick
  <2>10. CASE LoseTick(w)
    BY <1>0, <2>0, <2>10 DEF LoseTick, RollBackTick
  <2>11. CASE RaiseOnRow(w)
    BY <1>0, <2>0, <2>11 DEF RaiseOnRow, RollBackTick
  <2> QED BY <1>3, <2>1, <2>2, <2>3, <2>4, <2>5, <2>6, <2>7, <2>8, <2>9, <2>10,
             <2>11 DEF WorkerStep
<1> QED BY <1>1, <1>2, <1>3 DEF Next

Others(w) == \A v \in Workers : v # w => tx'[v] = tx[v]

\* BeginTick apart, a step of worker w locks no row it had not locked.
LEMMA LocksShrink ==
    ASSUME IInv, NEW w \in Workers, WorkerStep(w) \/ HandlerFails(w) \/ LoseTick(w),
           ~BeginTick(w)
    PROVE  Others(w) /\ Locked(w)' \subseteq Locked(w) /\ (tx[w].open)' \in BOOLEAN
           /\ ((tx[w].open)' \/ (tx[w] = NoTick)')
<1>0. tx \in [Workers -> Tick] /\ tx[w] \in Tick /\ (tx[w].open \/ tx[w] = NoTick)
  BY DEF IInv, TypeOK, LocksArePending
<1>1. CASE SkipRow(w)
  <2>1. PICK e \in Events :
           /\ e \in tx[w].todo
           /\ tx' = [tx EXCEPT ![w].todo = @ \ {e}, ![w].published = @ \cup {e}]
    BY <1>1 DEF SkipRow, IsFirst
  <2> QED BY <1>0, <1>1, <2>1 DEF SkipRow, Idle, Others, Locked, CurSet, Tick
<1>2. CASE TakeRow(w)
  <2>1. PICK e \in Events :
           /\ e \in tx[w].todo
           /\ tx' = [tx EXCEPT ![w].todo = @ \ {e}, ![w].cur = e, ![w].next = 1]
    BY <1>2 DEF TakeRow, IsFirst
  <2> QED BY <1>0, <1>2, <2>1 DEF TakeRow, Idle, Others, Locked, CurSet, Tick
<1>3. CASE ShortCircuit(w)
  BY <1>0, <1>3 DEF ShortCircuit, Dispatching, Others, Locked, CurSet, Tick
<1>4. CASE Claim(w)
  BY <1>0, <1>4 DEF Claim, Dispatching, Others, Locked, CurSet, Tick
<1>5. CASE HandlerSucceeds(w)
  BY <1>0, <1>5 DEF HandlerSucceeds, Others, Locked, CurSet, Tick, NoTick
<1>6. CASE HandlerFails(w)
  BY <1>0, <1>6 DEF HandlerFails, Others, Locked, CurSet, Tick, NoTick, IInv, TickHasRun
<1>7. CASE FinishRow(w)
  BY <1>0, <1>7 DEF FinishRow, Others, Locked, CurSet, Tick
<1>8. CASE tx' = [tx EXCEPT ![w] = NoTick]
  BY <1>0, <1>8 DEF Others, Locked, CurSet, NoTick
<1> QED BY <1>1, <1>2, <1>3, <1>4, <1>5, <1>6, <1>7, <1>8
        DEF WorkerStep, CommitTick, LoseTick, RaiseOnRow, RollBackTick

LEMMA StepLocks ==
    ASSUME IInv, [Next]_vars
    PROVE  LocksArePending' /\ RowsHeldOnce'
<1>0. /\ TypeOK /\ LocksArePending /\ RowsHeldOnce
      /\ \A v \in Workers : Locked(v) \subseteq Events
  BY DEF IInv, TypeOK, Tick, Locked, CurSet
<1>1. CASE UNCHANGED vars
  BY <1>0, <1>1 DEF vars, LocksArePending, RowsHeldOnce, Locked, CurSet
<1>2. ASSUME NEW e \in Events,
             AddEvent(e) \/ CommitUow(e) \/ RollbackUow(e) \/ BackoffElapses(e)
      PROVE  LocksArePending' /\ RowsHeldOnce'
  <2>1. UNCHANGED tx /\ \A f \in Events : row[f] = "pending" => row'[f] = row[f]
    BY <1>0, <1>2
       DEF AddEvent, CommitUow, RollbackUow, BackoffElapses, TypeOK
  <2> QED BY <1>0, <2>1 DEF LocksArePending, RowsHeldOnce, Locked, CurSet
<1>3. ASSUME NEW w \in Workers, WorkerStep(w) \/ HandlerFails(w) \/ LoseTick(w)
      PROVE  LocksArePending' /\ RowsHeldOnce'
  <2>1. CASE BeginTick(w)
    <3>1. PICK S \in SUBSET Eligible :
              tx' = [tx EXCEPT ![w] = [NoTick EXCEPT !.open = TRUE, !.todo = S]]
      BY <2>1 DEF BeginTick
    <3>2. /\ Others(w) /\ Locked(w)' = S /\ tx'[w].open
          /\ UNCHANGED row
      BY <1>0, <2>1, <3>1 DEF BeginTick, Others, Locked, CurSet, NoTick, TypeOK
    <3>3. \A v \in Workers : v # w => Locked(v)' = Locked(v)
      BY <3>2 DEF Others, Locked, CurSet
    <3>4. S \subseteq Events
          /\ \A f \in S : row[f] = "pending" /\ \A v \in Workers : f \notin Locked(v)
      BY DEF Eligible
    <3> QED BY <1>0, <3>2, <3>3, <3>4 DEF LocksArePending, RowsHeldOnce, Others
  <2>2. CASE ~BeginTick(w)
    <3>1. /\ Others(w) /\ Locked(w)' \subseteq Locked(w)
          /\ (tx[w].open)' \/ (tx[w] = NoTick)'
      BY <1>3, <2>2, LocksShrink
    <3>2. \A v \in Workers : v # w => Locked(v)' = Locked(v)
      BY <3>1 DEF Others, Locked, CurSet
    <3>3. RowsHeldOnce'
      BY <1>0, <3>1, <3>2 DEF RowsHeldOnce
    <3>4. \A v \in Workers : \A f \in Locked(v)' : row'[f] = "pending"
      <4>1. CASE CommitTick(w)
        <5>1. Locked(w)' = {}
          BY <1>0, <4>1 DEF CommitTick, Locked, CurSet, NoTick, TypeOK
        <5>2. \A f \in Events : f \notin Locked(w) => row'[f] = row[f]
          BY <4>1 DEF CommitTick, Locked
        <5> QED BY <1>0, <3>2, <5>1, <5>2 DEF LocksArePending, RowsHeldOnce
      <4>2. CASE ~CommitTick(w)
        <5>1. UNCHANGED row
          BY <1>3, <2>2, <4>2
             DEF WorkerStep, SkipRow, TakeRow, ShortCircuit, Claim, HandlerSucceeds,
                 HandlerFails, FinishRow, LoseTick, RaiseOnRow, RollBackTick
        <5> QED BY <1>0, <3>1, <3>2, <5>1 DEF LocksArePending
      <4> QED BY <4>1, <4>2
    <3> QED BY <1>0, <3>1, <3>3, <3>4 DEF LocksArePending, Others
  <2> QED BY <2>1, <2>2
<1> QED BY <1>1, <1>2, <1>3 DEF Next

-----------------------------------------------------------------------------

\* TickHasRun for one worker.
HasRun(w) ==
    /\ tx[w].running => tx[w].cur # None /\ tx[w].next <= Count(tx[w].cur)
    /\ tx[w].cur # None =>
          /\ tx[w].next >= 1
          /\ \A i \in 1..Count(tx[w].cur) :
                i < tx[w].next => Ran(tx[w].cur, HandlersOf[tx[w].cur][i])
    /\ \A e \in tx[w].published : \A h \in Required[e] : Ran(e, h)
    /\ \A e \in Events, h \in Handlers : <<e, h>> \in tx[w].ran => Ran(e, h)

LEMMA RequiredAreHandlers ==
    ASSUME NEW e \in Events, NEW h \in Required[e]
    PROVE  h \in Handlers
<1>1. PICK i \in 1..Count(e) : h = HandlersOf[e][i]
  BY DEF Required
<1>2. Count(e) \in Nat
  BY HandlersAssumption DEF Count
<1> QED BY <1>1, <1>2, HandlerIsRequired

\* A transaction that is left as it was keeps what it knows.
LEMMA HasRunStays ==
    ASSUME IInv, [Next]_vars, NEW w \in Workers, tx'[w] = tx[w]
    PROVE  HasRun(w)'
<1>0. /\ HasRun(w) /\ tx[w] \in Tick
      /\ \A e \in Events, h \in Handlers : Ran(e, h) => Ran(e, h)'
  BY RunsGrow DEF IInv, TypeOK, TickHasRun, HasRun
<1>1. tx[w].cur # None =>
          \A i \in 1..Count(tx[w].cur) :
             i < tx[w].next => Ran(tx[w].cur, HandlersOf[tx[w].cur][i])'
  <2> SUFFICES ASSUME tx[w].cur # None, NEW i \in 1..Count(tx[w].cur), i < tx[w].next
               PROVE  Ran(tx[w].cur, HandlersOf[tx[w].cur][i])'
    OBVIOUS
  <2>1. tx[w].cur \in Events /\ i \in Nat /\ i >= 1 /\ i <= Count(tx[w].cur)
    BY <1>0, HandlersAssumption DEF Tick, Count
  <2> QED BY <1>0, <2>1, HandlerIsRequired DEF HasRun
<1>2. \A e \in tx[w].published : \A h \in Required[e] : Ran(e, h)'
  BY <1>0, RequiredAreHandlers DEF HasRun, Tick
<1> QED BY <1>0, <1>1, <1>2 DEF HasRun, Required, Count

\* Ran in the next state, of an event and a handler named in this one.
RanNext(e, h) == runs'[<<e, h>>] >= 1

\* A tick that gets past its current handler has run one handler more.
LEMMA OneMoreHasRun ==
    ASSUME IInv, [Next]_vars, NEW w \in Workers, tx[w].cur \in Events,
           HasRun(w), tx[w].next \in Nat, RanNext(tx[w].cur, Handler(w))
    PROVE  \A i \in 1..Count(tx[w].cur) :
              i < tx[w].next + 1 => RanNext(tx[w].cur, HandlersOf[tx[w].cur][i])
<1> SUFFICES ASSUME NEW i \in 1..Count(tx[w].cur), i < tx[w].next + 1
             PROVE  RanNext(tx[w].cur, HandlersOf[tx[w].cur][i])
  OBVIOUS
<1>1. Count(tx[w].cur) \in Nat
  BY HandlersAssumption DEF Count
<1>2. CASE i = tx[w].next
  BY <1>2 DEF Handler
<1>3. CASE i # tx[w].next
  <2>1. i \in Nat /\ i >= 1 /\ i <= Count(tx[w].cur) /\ i < tx[w].next
    BY <1>1, <1>3
  <2>2. Ran(tx[w].cur, HandlersOf[tx[w].cur][i])
    BY <2>1, EventsAssumption DEF HasRun
  <2>3. \A e \in Events, h \in Handlers : Ran(e, h) => RanNext(e, h)
    BY RunsGrow DEF Ran, RanNext
  <2> QED BY <2>1, <2>2, <2>3, HandlerIsRequired
<1> QED BY <1>2, <1>3

LEMMA StepRuns ==
    ASSUME IInv, [Next]_vars
    PROVE  TickHasRun'
<1>0. /\ TypeOK
      /\ \A e \in Events, h \in Handlers : Ran(e, h) => Ran(e, h)'
      /\ \A v \in Workers : tx'[v] = tx[v] => HasRun(v)'
  BY RunsGrow, HasRunStays DEF IInv
<1> SUFFICES \A v \in Workers : HasRun(v)'
  BY DEF TickHasRun, HasRun
<1>1. CASE UNCHANGED vars
  BY <1>0, <1>1 DEF vars
<1>2. ASSUME NEW e \in Events,
             AddEvent(e) \/ CommitUow(e) \/ RollbackUow(e) \/ BackoffElapses(e)
      PROVE  \A v \in Workers : HasRun(v)'
  BY <1>0, <1>2 DEF AddEvent, CommitUow, RollbackUow, BackoffElapses
<1>3. ASSUME NEW w \in Workers, WorkerStep(w) \/ HandlerFails(w) \/ LoseTick(w)
      PROVE  \A v \in Workers : HasRun(v)'
  <2>0. /\ tx \in [Workers -> Tick] /\ tx[w] \in Tick /\ HasRun(w)
        /\ tx[w].cur # None => tx[w].cur \in Events
    BY DEF IInv, TypeOK, TickHasRun, HasRun, Tick
  <2>1. Others(w)
    <3>1. CASE BeginTick(w)
      BY <2>0, <3>1 DEF BeginTick, Others
    <3> QED BY <1>3, <3>1, LocksShrink
  <2>2. SUFFICES HasRun(w)'
    BY <1>0, <2>1 DEF Others
  <2>3. CASE BeginTick(w)
    <3>1. PICK S : tx' = [tx EXCEPT ![w] = [NoTick EXCEPT !.open = TRUE, !.todo = S]]
      BY <2>3 DEF BeginTick
    <3> QED BY <2>0, <3>1 DEF HasRun, NoTick
  <2>4. CASE SkipRow(w)
    <3>1. PICK e \in Events :
             /\ Count(e) = 0
             /\ tx' = [tx EXCEPT ![w].todo = @ \ {e}, ![w].published = @ \cup {e}]
      BY <2>4 DEF SkipRow
    <3>2. Required[e] = {}
      BY <3>1 DEF Required
    <3> QED BY <1>0, <2>0, <2>4, <3>1, <3>2, RequiredAreHandlers
            DEF HasRun, SkipRow, Idle, Tick, Ran
  <2>5. CASE TakeRow(w)
    <3>1. PICK e \in Events :
             tx' = [tx EXCEPT ![w].todo = @ \ {e}, ![w].cur = e, ![w].next = 1]
      BY <2>5 DEF TakeRow
    <3>2. e # None /\ Count(e) \in Nat
      BY EventsAssumption, HandlersAssumption DEF Count
    <3>3. UNCHANGED runs
      BY <2>5 DEF TakeRow
    <3>4. /\ tx'[w].cur = e /\ tx'[w].next = 1 /\ ~tx'[w].running
          /\ tx'[w].published = tx[w].published /\ tx'[w].ran = tx[w].ran
      BY <2>0, <2>5, <3>1 DEF TakeRow, Idle, HasRun, Tick
    <3> QED BY <2>0, <3>2, <3>3, <3>4 DEF HasRun, Ran, Required, Count
  <2>6. CASE CommitTick(w) \/ LoseTick(w) \/ RaiseOnRow(w)
    BY <2>0, <2>6 DEF CommitTick, LoseTick, RaiseOnRow, RollBackTick, HasRun, NoTick
  <2>7. CASE ShortCircuit(w)
    <3>1. /\ tx[w].cur \in Events /\ tx[w].next <= Count(tx[w].cur)
          /\ Ran(tx[w].cur, Handler(w)) /\ UNCHANGED runs
      BY <2>0, <2>7, CurrentIsPair
         DEF ShortCircuit, Dispatching, IInv, LoggedHasRun, TickHasRun, Current
    <3>2. /\ tx'[w].cur = tx[w].cur /\ tx'[w].next = tx[w].next + 1 /\ ~tx'[w].running
          /\ tx'[w].published = tx[w].published /\ tx'[w].ran = tx[w].ran
      BY <2>0, <2>7 DEF ShortCircuit, Dispatching, Tick
    <3>3. tx[w].next \in Nat /\ tx[w].next >= 1 /\ tx[w].cur # None
      BY <2>0, <2>7 DEF Tick, ShortCircuit, Dispatching, HasRun
    <3>4. \A i \in 1..Count(tx[w].cur) :
             i < tx[w].next + 1 => RanNext(tx[w].cur, HandlersOf[tx[w].cur][i])
      BY <2>0, <3>1, <3>3, OneMoreHasRun DEF Ran, RanNext
    <3>5. (tx[w].cur # None)' => /\ (tx[w].next >= 1)'
                                /\ (\A i \in 1..Count(tx[w].cur) : i < tx[w].next =>
                                      Ran(tx[w].cur, HandlersOf[tx[w].cur][i]))'
      BY <3>2, <3>3, <3>4 DEF Ran, RanNext, Count
    <3> QED BY <2>0, <3>1, <3>2, <3>5 DEF HasRun, Ran, Required, Count
  <2>8. CASE Claim(w)
    <3>1. UNCHANGED runs
      BY <2>8 DEF Claim
    <3>2. /\ tx'[w].cur = tx[w].cur /\ tx'[w].next = tx[w].next /\ tx[w].cur # None
          /\ tx[w].next <= Count(tx[w].cur)
          /\ tx'[w].published = tx[w].published /\ tx'[w].ran = tx[w].ran
      BY <2>0, <2>8 DEF Claim, Dispatching, Tick
    <3> QED BY <2>0, <3>1, <3>2 DEF HasRun, Ran, Required, Count
  <2>9. CASE HandlerSucceeds(w)
    <3>0. /\ tx[w].cur # None /\ tx[w].cur \in Events /\ tx[w].next \in Nat
          /\ tx[w].next >= 1 /\ tx[w].next <= Count(tx[w].cur)
      BY <2>0, <2>9 DEF HandlerSucceeds, HasRun, Tick
    <3>1. /\ Handler(w) \in Handlers /\ Current(w) \in Pairs
          /\ Current(w) = <<tx[w].cur, Handler(w)>>
      BY <1>0, <3>0, CurrentIsPair DEF Current
    <3>2. RanNext(tx[w].cur, Handler(w))
      BY <1>0, <2>9, <3>1 DEF HandlerSucceeds, TypeOK, RanNext
    <3>3. /\ tx'[w].cur = tx[w].cur /\ tx'[w].next = tx[w].next + 1 /\ ~tx'[w].running
          /\ tx'[w].published = tx[w].published
          /\ tx'[w].ran = tx[w].ran \cup {Current(w)}
      BY <2>0, <2>9 DEF HandlerSucceeds, Tick
    <3>4. \A i \in 1..Count(tx[w].cur) :
             i < tx[w].next + 1 => RanNext(tx[w].cur, HandlersOf[tx[w].cur][i])
      BY <2>0, <3>0, <3>2, OneMoreHasRun
    <3>5. \A e \in tx[w].published : \A h \in Required[e] : RanNext(e, h)
      BY <1>0, <2>0, RequiredAreHandlers DEF HasRun, Tick, Ran, RanNext
    <3>6. \A e \in Events, h \in Handlers :
             <<e, h>> \in tx[w].ran \cup {Current(w)} => RanNext(e, h)
      BY <1>0, <2>0, <3>1, <3>2 DEF HasRun, Ran, RanNext
    <3>7. (tx[w].cur # None)' => /\ (tx[w].next >= 1)'
                                /\ (\A i \in 1..Count(tx[w].cur) : i < tx[w].next =>
                                      Ran(tx[w].cur, HandlersOf[tx[w].cur][i]))'
      BY <3>0, <3>3, <3>4 DEF Ran, RanNext, Count
    <3> QED BY <3>3, <3>5, <3>6, <3>7 DEF HasRun, Ran, RanNext, Required, Count
  <2>10. CASE HandlerFails(w)
    <3>1. /\ tx'[w].cur = None /\ ~tx'[w].running
          /\ tx'[w].published = tx[w].published /\ tx'[w].ran = tx[w].ran
      BY <2>0, <2>10 DEF HandlerFails, Tick
    <3>2. \A e \in tx[w].published : \A h \in Required[e] : RanNext(e, h)
      BY <1>0, <2>0, RequiredAreHandlers DEF HasRun, Tick, Ran, RanNext
    <3>3. \A e \in Events, h \in Handlers : <<e, h>> \in tx[w].ran => RanNext(e, h)
      BY <1>0, <2>0 DEF HasRun, Ran, RanNext
    <3> QED BY <3>1, <3>2, <3>3 DEF HasRun, Ran, RanNext, Required, Count
  <2>11. CASE FinishRow(w)
    <3>1. /\ tx'[w].cur = None /\ ~tx'[w].running /\ UNCHANGED runs
          /\ tx'[w].published = tx[w].published \cup {tx[w].cur}
          /\ tx'[w].ran = tx[w].ran
          /\ tx[w].cur \in Events /\ tx[w].next > Count(tx[w].cur)
          /\ tx[w].next \in Nat /\ tx[w].cur # None
      BY <2>0, <2>11 DEF FinishRow, Tick
    <3>2. \A h \in Required[tx[w].cur] : Ran(tx[w].cur, h)
      <4> TAKE h \in Required[tx[w].cur]
      <4>1. PICK i \in 1..Count(tx[w].cur) : h = HandlersOf[tx[w].cur][i]
        BY <3>1 DEF Required
      <4>2. Count(tx[w].cur) \in Nat
        BY <3>1, HandlersAssumption DEF Count
      <4>3. i < tx[w].next
        BY <3>1, <4>1, <4>2
      <4> QED BY <2>0, <3>1, <4>1, <4>3 DEF HasRun
    <3> QED BY <2>0, <3>1, <3>2 DEF HasRun, Ran, Required, Count
  <2> QED BY <1>3, <2>3, <2>4, <2>5, <2>6, <2>7, <2>8, <2>9, <2>10, <2>11
          DEF WorkerStep
<1> QED BY <1>1, <1>2, <1>3 DEF Next

LEMMA StepCommitted ==
    ASSUME IInv, [Next]_vars
    PROVE  LoggedHasRun' /\ PublishedOnlyAfterHandlers'
<1>0. /\ TypeOK /\ TickHasRun /\ LoggedHasRun /\ PublishedOnlyAfterHandlers
      /\ \A e \in Events, h \in Handlers : Ran(e, h) => Ran(e, h)'
  BY RunsGrow DEF IInv
<1>1. CASE \E w \in Workers : CommitTick(w)
  <2>1. PICK w \in Workers : CommitTick(w)
    BY <1>1
  <2>2. LoggedHasRun'
    BY <1>0, <2>1 DEF CommitTick, LoggedHasRun, TickHasRun
  <2>3. ASSUME NEW e \in Events, row'[e] = "published", NEW h \in Required[e]
        PROVE  Ran(e, h)
    <3>1. CASE e \in tx[w].published
      BY <1>0, <2>3, <3>1 DEF TickHasRun
    <3>2. CASE e \notin tx[w].published
      BY <1>0, <2>1, <2>3, <3>2 DEF CommitTick, PublishedOnlyAfterHandlers, Ran
    <3> QED BY <3>1, <3>2
  <2>4. PublishedOnlyAfterHandlers'
    BY <1>0, <2>3, RequiredAreHandlers DEF PublishedOnlyAfterHandlers, Ran, Required, Count
  <2> QED BY <2>2, <2>4
<1>2. CASE ~\E w \in Workers : CommitTick(w)
  <2>1. /\ UNCHANGED log
        /\ \A e \in Events : row'[e] = "published" => row[e] = "published"
    BY <1>0, <1>2 DEF Next, vars, WorkerStep, AddEvent, CommitUow, RollbackUow,
       BackoffElapses, BeginTick, SkipRow, TakeRow, ShortCircuit, Claim, HandlerSucceeds,
       HandlerFails, FinishRow, LoseTick, RaiseOnRow, RollBackTick, TypeOK
  <2>2. LoggedHasRun'
    BY <1>0, <2>1 DEF LoggedHasRun
  <2>3. PublishedOnlyAfterHandlers'
    BY <1>0, <2>1, RequiredAreHandlers DEF PublishedOnlyAfterHandlers, Ran, Required, Count
  <2> QED BY <2>2, <2>3
<1> QED BY <1>1, <1>2

LEMMA StepIInv == IInv /\ [Next]_vars => IInv'
  BY StepTypes, StepLocks, StepRuns, StepCommitted DEF IInv

-----------------------------------------------------------------------------

\* IInv, the strengthening the theorems below rest on, is an invariant of the
\* outbox.
THEOREM Inductive == Spec => []IInv
<1>1. Init => IInv
  BY InitIInv
<1>2. IInv /\ [Next]_vars => IInv'
  BY StepIInv
<1> QED BY <1>1, <1>2, PTL DEF Spec

\* The state of the outbox keeps its types: in particular a row that a tick
\* holds is always one of the events, and the pair it dispatches exists.
THEOREM TypeCorrect == Spec => []TypeOK
<1>1. IInv => TypeOK
  BY DEF IInv
<1> QED BY <1>1, Inductive, PTL

\* Mutual exclusion of the candidate query: two workers never hold one row.
THEOREM HeldOnce == Spec => []RowsHeldOnce
<1>1. IInv => RowsHeldOnce
  BY DEF IInv
<1> QED BY <1>1, Inductive, PTL

\* At-least-once: tick_once never publishes a row whose handlers have not all
\* committed, whatever fails, is retried or is lost.
THEOREM AtLeastOnce == Spec => []PublishedOnlyAfterHandlers
<1>1. IInv => PublishedOnlyAfterHandlers
  BY DEF IInv
<1> QED BY <1>1, Inductive, PTL

-----------------------------------------------------------------------------

PublishedUntouched ==
    \A e \in Events : row[e] = "published" =>
        /\ row'[e] = "published" /\ attempts'[e] = attempts[e]
        /\ \A h \in Handlers : runs'[<<e, h>>] = runs[<<e, h>>]

LEMMA StepPublished == IInv /\ [Next]_vars => PublishedUntouched
<1> SUFFICES ASSUME IInv, [Next]_vars, NEW e \in Events, row[e] = "published"
             PROVE  /\ row'[e] = "published" /\ attempts'[e] = attempts[e]
                    /\ \A h \in Handlers : runs'[<<e, h>>] = runs[<<e, h>>]
  BY DEF PublishedUntouched
<1>0. /\ TypeOK /\ TickHasRun
      /\ \A w \in Workers : e \notin Locked(w)
  BY DEF IInv, LocksArePending
<1>1. \A h \in Handlers : runs'[<<e, h>>] = runs[<<e, h>>]
  <2>1. CASE UNCHANGED runs
    BY <2>1
  <2>2. ASSUME NEW w \in Workers, Runs(w), HandlerSucceeds(w) \/ HandlerFails(w)
        PROVE  \A h \in Handlers : runs'[<<e, h>>] = runs[<<e, h>>]
    <3>1. tx[w].cur # None /\ tx[w].cur # e
      BY <1>0, <2>2 DEF HandlerSucceeds, HandlerFails, TickHasRun, Locked, CurSet
    <3>2. \A h \in Handlers : <<e, h>> # Current(w) /\ <<e, h>> \in Pairs
      BY <3>1 DEF Current, Pairs
    <3> QED BY <1>0, <2>2, <3>2 DEF Runs, TypeOK
  <2> QED BY <2>1, <2>2, OnlyHandlersRun
<1>2. CASE \E w \in Workers : CommitTick(w)
  BY <1>0, <1>1, <1>2 DEF CommitTick, Locked
<1>3. CASE ~\E w \in Workers : CommitTick(w)
  BY <1>0, <1>1, <1>3 DEF Next, vars, WorkerStep, AddEvent, CommitUow, RollbackUow,
     BackoffElapses, BeginTick, SkipRow, TakeRow, ShortCircuit, Claim, HandlerSucceeds,
     HandlerFails, FinishRow, LoseTick, RaiseOnRow, RollBackTick, TypeOK
<1> QED BY <1>2, <1>3

\* Once published, an event is out of the publisher's reach: no later tick
\* dispatches it, counts an attempt against it or takes it back.
THEOREM PublishedForGood == Spec => PublishedIsFinal
<1>1. IInv /\ [Next]_vars => [PublishedUntouched]_vars
  BY StepPublished
<1>2. [PublishedUntouched]_vars =>
         [\A e \in Events : row[e] = "published" =>
             /\ row'[e] = "published" /\ attempts'[e] = attempts[e]
             /\ \A h \in Handlers : runs'[<<e, h>>] = runs[<<e, h>>]]_vars
  BY DEF PublishedUntouched
<1> QED BY <1>1, <1>2, Inductive, PTL DEF Spec, PublishedIsFinal

-----------------------------------------------------------------------------

captured  == {e \in Events : row[e] \in {"pending", "published"}}
delivered == {p \in Pairs : runs[p] > 0}
retired   == {e \in Events : row[e] = "published"}

LEMMA InitContract == Init => Contract!Init
<1> SUFFICES ASSUME Init PROVE Contract!Init
  OBVIOUS
<1>1. captured = {} /\ delivered = {} /\ retired = {}
  BY DEF Init, captured, delivered, retired
<1> QED BY <1>1 DEF Contract!Init, captured, delivered, retired

LEMMA StepContract ==
    IInv /\ [Next]_vars => [Contract!Next]_(Contract!contractVars)
<1> SUFFICES ASSUME IInv, [Next]_vars
             PROVE  Contract!Next \/ UNCHANGED <<captured, delivered, retired>>
  BY DEF Contract!contractVars, captured, delivered, retired
<1>0. TypeOK /\ TickHasRun /\ LocksArePending
  BY DEF IInv
<1>1. CASE UNCHANGED vars
  BY <1>1 DEF vars, captured, delivered, retired
<1>2. ASSUME NEW e \in Events, CommitUow(e)
      PROVE  Contract!Capture(e)
  <2>1. e \notin captured /\ captured' = captured \cup {e}
    BY <1>0, <1>2 DEF CommitUow, captured, TypeOK
  <2>2. retired' = retired /\ delivered' = delivered
    BY <1>0, <1>2 DEF CommitUow, retired, delivered, TypeOK
  <2> QED BY <2>1, <2>2 DEF Contract!Capture, captured, delivered, retired
<1>3. ASSUME NEW e \in Events, AddEvent(e) \/ RollbackUow(e) \/ BackoffElapses(e)
      PROVE  UNCHANGED <<captured, delivered, retired>>
  BY <1>0, <1>3 DEF AddEvent, RollbackUow, BackoffElapses, captured, delivered, retired,
                    TypeOK
<1>4. ASSUME NEW w \in Workers, Runs(w), HandlerSucceeds(w) \/ HandlerFails(w)
      PROVE  Contract!Next
  <2>1. /\ tx[w].cur # None /\ tx[w].cur \in Events
        /\ Handler(w) \in Required[tx[w].cur] /\ Handler(w) \in Handlers
        /\ Current(w) \in Pairs /\ Current(w) = <<tx[w].cur, Handler(w)>>
    BY <1>0, <1>4, CurrentIsPair DEF HandlerSucceeds, HandlerFails, TickHasRun, Current
  <2>2. row[tx[w].cur] = "pending"
    BY <1>0, <2>1 DEF LocksArePending, Locked, CurSet
  <2>3. tx[w].cur \in captured \ retired
    BY <2>1, <2>2 DEF captured, retired
  <2>4. delivered' = delivered \cup {Current(w)}
    BY <1>0, <1>4, <2>1 DEF Runs, delivered, TypeOK
  <2>5. captured' = captured /\ retired' = retired
    BY <1>4 DEF HandlerSucceeds, HandlerFails, captured, retired
  <2>6. PICK e \in Events, h \in Handlers : e = tx[w].cur /\ h = Handler(w)
    BY <2>1
  <2>7. Contract!Deliver(e, h)
    BY <2>1, <2>3, <2>4, <2>5, <2>6 DEF Contract!Deliver, captured, delivered, retired
  <2> QED BY <2>7 DEF Contract!Next
<1>5. ASSUME NEW w \in Workers, CommitTick(w)
      PROVE  Contract!Next
  <2>1. /\ tx[w].published \subseteq Events
        /\ \A e \in tx[w].published : row[e] = "pending"
    BY <1>0 DEF TypeOK, Tick, LocksArePending, Locked
  <2>2. tx[w].published \subseteq captured
    BY <2>1 DEF captured
  <2>3. captured' = captured /\ retired' = retired \cup tx[w].published
    BY <1>0, <1>5, <2>1 DEF CommitTick, captured, retired, TypeOK
  <2>4. delivered' = delivered
    BY <1>5 DEF CommitTick, delivered
  <2>5. \A e \in tx[w].published : \A h \in Required[e] : <<e, h>> \in delivered
    <3> SUFFICES ASSUME NEW e \in tx[w].published, NEW h \in Required[e]
                 PROVE  <<e, h>> \in delivered
      OBVIOUS
    <3>1. Ran(e, h) /\ <<e, h>> \in Pairs
      BY <1>0, <2>1, RequiredAreHandlers DEF TickHasRun, Pairs
    <3> QED BY <1>0, <3>1 DEF Ran, delivered, TypeOK
  <2>6. PICK S \in SUBSET Events : S = tx[w].published
    BY <2>1
  <2>7. Contract!Retire(S)
    BY <2>2, <2>3, <2>4, <2>5, <2>6 DEF Contract!Retire, captured, delivered, retired
  <2> QED BY <2>7 DEF Contract!Next
<1>6. ASSUME NEW w \in Workers, WorkerStep(w) \/ HandlerFails(w) \/ LoseTick(w),
             UNCHANGED runs, ~CommitTick(w)
      PROVE  UNCHANGED <<captured, delivered, retired>>
  <2>1. UNCHANGED row
    BY <1>6 DEF WorkerStep, BeginTick, SkipRow, TakeRow, ShortCircuit, Claim,
       HandlerSucceeds, HandlerFails, FinishRow, LoseTick, RaiseOnRow, RollBackTick
  <2> QED BY <1>6, <2>1 DEF captured, delivered, retired
<1>7. (\E e \in Events : Contract!Capture(e)) => Contract!Next
  BY DEF Contract!Next
<1> QED BY <1>1, <1>2, <1>3, <1>4, <1>5, <1>6, <1>7, OnlyHandlersRun DEF Next

\* The publisher implements the outbox contract: every step of the code is a
\* step the contract allows, or one it does not see.
THEOREM Implements == Spec => ImplementsContract
<1>1. Init => Contract!Init
  BY InitContract
<1>2. IInv /\ [Next]_vars => [Contract!Next]_(Contract!contractVars)
  BY StepContract
<1> QED BY <1>1, <1>2, Inductive, PTL DEF Spec, ImplementsContract, Contract!Spec

-----------------------------------------------------------------------------

(* Redelivery: what event_handler_log is for, and what it cannot do. *)

RanBy(w, p) == p \in tx[w].ran

\* What the claims of a tick's transaction are worth: they are for rows the
\* tick holds and has reached, nobody logged them before, and of the current
\* row they cover handlers already passed.
ClaimsAreNew ==
    \A w \in Workers :
        /\ tx[w].cur \notin tx[w].todo
        /\ tx[w].running => Current(w) \notin log
        /\ \A e \in Events, h \in Handlers : RanBy(w, <<e, h>>) =>
              /\ e \in Locked(w) \ tx[w].todo
              /\ <<e, h>> \notin log
              /\ e = tx[w].cur =>
                    \E i \in 1..Count(e) : i < tx[w].next /\ h = HandlersOf[e][i]

\* Of the executions of a pair all but one lost their claim, and that one is still
\* claimed or logged.
Accounted ==
    \A p \in Pairs :
        /\ runs[p] <= 1 + wasted[p]
        /\ p \notin log /\ (\A w \in Workers : ~RanBy(w, p)) => runs[p] <= wasted[p]

RInv == IInv /\ ClaimsAreNew /\ Accounted

-----------------------------------------------------------------------------

\* ClaimsAreNew for one worker.
NewClaims(w) ==
    /\ tx[w].cur \notin tx[w].todo
    /\ tx[w].running => Current(w) \notin log
    /\ \A e \in Events, h \in Handlers : RanBy(w, <<e, h>>) =>
          /\ e \in Locked(w) \ tx[w].todo
          /\ <<e, h>> \notin log
          /\ e = tx[w].cur =>
                \E i \in 1..Count(e) : i < tx[w].next /\ h = HandlersOf[e][i]

LEMMA RInvTypes ==
    ASSUME RInv, NEW w \in Workers
    PROVE  /\ TypeOK /\ tx \in [Workers -> Tick] /\ tx[w] \in Tick
           /\ NewClaims(w) /\ HasRun(w)
           /\ tx[w].cur # None => tx[w].cur \in Events
           /\ tx[w].cur \in Events => tx[w].cur # None
           /\ tx[w].cur \in Events => Count(tx[w].cur) \in Nat
<1>1. TypeOK /\ tx \in [Workers -> Tick] /\ tx[w] \in Tick
  BY DEF RInv, IInv, TypeOK
<1>2. NewClaims(w) /\ HasRun(w)
  BY DEF RInv, ClaimsAreNew, NewClaims, IInv, TickHasRun, HasRun
<1> QED BY <1>1, <1>2, EventsAssumption, HandlersAssumption DEF Tick, Count

\* A worker that is left as it was keeps its claims, even if another commits.
LEMMA OthersKeepClaims ==
    ASSUME RInv, NEW v \in Workers, NEW w \in Workers, v # w, tx'[v] = tx[v],
           log' = log \/ log' = log \cup tx[w].ran
    PROVE  NewClaims(v)'
<1>1. NewClaims(v) /\ NewClaims(w) /\ HasRun(v) /\ tx[w] \in Tick
      /\ (tx[v].cur # None => tx[v].cur \in Events)
  BY RInvTypes
<1>2. Locked(v) \cap Locked(w) = {}
  BY DEF RInv, IInv, RowsHeldOnce
<1>3. \A e \in Events, h \in Handlers : e \in Locked(v) => <<e, h>> \notin tx[w].ran
  BY <1>1, <1>2 DEF NewClaims, RanBy
<1>4. tx[v].running => Current(v) \notin log'
  <2> SUFFICES ASSUME tx[v].running PROVE Current(v) \notin log'
    OBVIOUS
  <2>1. /\ tx[v].cur \in Events /\ tx[v].cur \in Locked(v) /\ Current(v) \notin log
        /\ Handler(v) \in Handlers /\ Current(v) = <<tx[v].cur, Handler(v)>>
    BY <1>1, CurrentIsPair, RInvTypes DEF HasRun, NewClaims, Locked, CurSet, Current
  <2> QED BY <1>3, <2>1
<1>5. \A e \in Events, h \in Handlers : <<e, h>> \in tx[v].ran => <<e, h>> \notin log'
  BY <1>1, <1>3 DEF NewClaims, RanBy
<1> QED BY <1>1, <1>4, <1>5 DEF NewClaims, RanBy, Current, Handler, Locked, CurSet, Count

LEMMA WorkerClaims ==
    ASSUME RInv, NEW w \in Workers, WorkerStep(w) \/ HandlerFails(w) \/ LoseTick(w)
    PROVE  NewClaims(w)'
<1>0. /\ TypeOK /\ tx \in [Workers -> Tick] /\ tx[w] \in Tick
      /\ NewClaims(w) /\ HasRun(w)
      /\ tx[w].cur # None => tx[w].cur \in Events
      /\ tx[w].cur \in Events => Count(tx[w].cur) \in Nat
      /\ None \notin Events
  BY RInvTypes, EventsAssumption
<1> USE DEF RanBy
<1>1. CASE BeginTick(w)
  <2>1. PICK S \in SUBSET Eligible :
           tx' = [tx EXCEPT ![w] = [NoTick EXCEPT !.open = TRUE, !.todo = S]]
    BY <1>1 DEF BeginTick
  <2>2. None \notin S
    BY <1>0 DEF Eligible
  <2> QED BY <1>0, <2>1, <2>2 DEF NewClaims, NoTick
<1>2. CASE SkipRow(w)
  <2>1. PICK e \in Events :
           tx' = [tx EXCEPT ![w].todo = @ \ {e}, ![w].published = @ \cup {e}]
    BY <1>2 DEF SkipRow
  <2>2. /\ tx'[w].todo = tx[w].todo \ {e} /\ tx'[w].published = tx[w].published \cup {e}
        /\ tx[w].cur = None /\ tx'[w].cur = None /\ ~tx'[w].running
        /\ tx'[w].failed = tx[w].failed /\ tx'[w].ran = tx[w].ran /\ log' = log
    BY <1>0, <1>2, <2>1 DEF SkipRow, Idle, Tick, HasRun
  <2> QED BY <1>0, <2>2 DEF NewClaims, Locked, CurSet
<1>3. CASE TakeRow(w)
  <2>1. PICK e \in Events :
           /\ e \in tx[w].todo
           /\ tx' = [tx EXCEPT ![w].todo = @ \ {e}, ![w].cur = e, ![w].next = 1]
    BY <1>3 DEF TakeRow, IsFirst
  <2>2. /\ tx'[w].todo = tx[w].todo \ {e} /\ tx'[w].published = tx[w].published
        /\ tx[w].cur = None /\ tx'[w].cur = e /\ ~tx'[w].running
        /\ tx'[w].failed = tx[w].failed /\ tx'[w].ran = tx[w].ran /\ log' = log
    BY <1>0, <1>3, <2>1 DEF TakeRow, Idle, Tick, HasRun
  <2>3. \A h \in Handlers : <<e, h>> \notin tx[w].ran
    BY <1>0, <2>1 DEF NewClaims
  <2> QED BY <1>0, <2>2, <2>3 DEF NewClaims, Locked, CurSet
<1>4. CASE ShortCircuit(w)
  <2>1. /\ tx'[w].todo = tx[w].todo /\ tx'[w].published = tx[w].published
        /\ tx'[w].cur = tx[w].cur /\ ~tx'[w].running /\ tx'[w].next = tx[w].next + 1
        /\ tx'[w].failed = tx[w].failed /\ tx'[w].ran = tx[w].ran /\ log' = log
        /\ tx[w].next \in Nat
    BY <1>0, <1>4 DEF ShortCircuit, Dispatching, Tick
  <2> QED BY <1>0, <2>1 DEF NewClaims, Locked, CurSet, Count
<1>5. CASE Claim(w)
  <2>1. /\ tx'[w].todo = tx[w].todo /\ tx'[w].published = tx[w].published
        /\ tx'[w].cur = tx[w].cur /\ tx'[w].next = tx[w].next
        /\ tx'[w].failed = tx[w].failed /\ tx'[w].ran = tx[w].ran /\ log' = log
        /\ Current(w) \notin log
    BY <1>0, <1>5 DEF Claim, Dispatching, Tick
  <2> QED BY <1>0, <2>1 DEF NewClaims, Locked, CurSet, Count, Current, Handler
<1>6. CASE HandlerSucceeds(w)
  <2>1. /\ tx'[w].todo = tx[w].todo /\ tx'[w].published = tx[w].published
        /\ tx'[w].cur = tx[w].cur /\ ~tx'[w].running /\ tx'[w].next = tx[w].next + 1
        /\ tx'[w].failed = tx[w].failed /\ log' = log
        /\ tx'[w].ran = tx[w].ran \cup {Current(w)}
        /\ tx[w].next \in Nat /\ tx[w].cur # None /\ tx[w].cur \in Events
        /\ tx[w].next >= 1 /\ tx[w].next <= Count(tx[w].cur)
        /\ Current(w) \notin log
    BY <1>0, <1>6 DEF HandlerSucceeds, Tick, HasRun, NewClaims
  <2>2. tx[w].cur \in Locked(w) \ tx[w].todo
    BY <1>0, <2>1 DEF NewClaims, Locked, CurSet
  <2>3. tx[w].next \in 1..Count(tx[w].cur) /\ tx[w].next < tx[w].next + 1
    BY <1>0, <2>1
  <2>4. Locked(w)' = Locked(w)
    BY <2>1 DEF Locked, CurSet
  <2>5. ASSUME NEW e \in Events, NEW h \in Handlers, <<e, h>> \in tx'[w].ran
        PROVE  /\ e \in Locked(w) \ tx[w].todo
               /\ <<e, h>> \notin log
               /\ e = tx[w].cur =>
                     \E i \in 1..Count(e) : i < tx[w].next + 1 /\ h = HandlersOf[e][i]
    <3>1. CASE <<e, h>> \in tx[w].ran
      BY <1>0, <2>1, <3>1 DEF NewClaims
    <3>2. CASE <<e, h>> = Current(w)
      <4>1. e = tx[w].cur /\ h = HandlersOf[tx[w].cur][tx[w].next]
        BY <3>2 DEF Current, Handler
      <4> QED BY <2>1, <2>2, <2>3, <3>2, <4>1
    <3> QED BY <2>1, <2>5, <3>1, <3>2
  <2> QED BY <1>0, <2>1, <2>4, <2>5 DEF NewClaims, Count
<1>7. CASE HandlerFails(w)
  <2>1. /\ tx'[w].todo = tx[w].todo /\ tx'[w].published = tx[w].published
        /\ tx'[w].cur = None /\ ~tx'[w].running /\ log' = log
        /\ tx'[w].failed = tx[w].failed \cup {tx[w].cur} /\ tx'[w].ran = tx[w].ran
    BY <1>0, <1>7 DEF HandlerFails, Tick
  <2> QED BY <1>0, <2>1 DEF NewClaims, Locked, CurSet, Tick
<1>8. CASE FinishRow(w)
  <2>1. /\ tx'[w].todo = tx[w].todo /\ tx'[w].published = tx[w].published \cup {tx[w].cur}
        /\ tx'[w].cur = None /\ ~tx'[w].running /\ log' = log
        /\ tx'[w].failed = tx[w].failed /\ tx'[w].ran = tx[w].ran
    BY <1>0, <1>8 DEF FinishRow, Tick
  <2> QED BY <1>0, <2>1 DEF NewClaims, Locked, CurSet, Tick
<1>9. CASE CommitTick(w) \/ LoseTick(w) \/ RaiseOnRow(w)
  BY <1>0, <1>9 DEF CommitTick, LoseTick, RaiseOnRow, RollBackTick, NewClaims, NoTick
<1> QED BY <1>1, <1>2, <1>3, <1>4, <1>5, <1>6, <1>7, <1>8, <1>9 DEF WorkerStep

LEMMA WorkerKeepsOthers ==
    ASSUME RInv, NEW w \in Workers, WorkerStep(w) \/ HandlerFails(w) \/ LoseTick(w)
    PROVE  Others(w) /\ (log' = log \/ log' = log \cup tx[w].ran)
<1>1. Others(w)
  <2>1. CASE BeginTick(w)
    BY <2>1, RInvTypes DEF BeginTick, Others
  <2> QED BY <2>1, LocksShrink DEF RInv
<1>2. log' = log \/ log' = log \cup tx[w].ran
  BY DEF WorkerStep, BeginTick, SkipRow, TakeRow, ShortCircuit, Claim, HandlerSucceeds,
     HandlerFails, FinishRow, CommitTick, LoseTick, RaiseOnRow, RollBackTick
<1> QED BY <1>1, <1>2

LEMMA StepClaims ==
    ASSUME RInv, [Next]_vars
    PROVE  ClaimsAreNew'
<1> SUFFICES ASSUME NEW v \in Workers PROVE NewClaims(v)'
  BY DEF ClaimsAreNew, NewClaims
<1>1. CASE UNCHANGED <<tx, log>>
  BY <1>1, RInvTypes DEF NewClaims, RanBy, Current, Handler, Locked, CurSet, Count
<1>2. ASSUME NEW w \in Workers, WorkerStep(w) \/ HandlerFails(w) \/ LoseTick(w)
      PROVE  NewClaims(v)'
  <2>1. CASE v = w
    BY <1>2, <2>1, WorkerClaims
  <2>2. CASE v # w
    <3>1. tx'[v] = tx[v] /\ (log' = log \/ log' = log \cup tx[w].ran)
      BY <1>2, <2>2, WorkerKeepsOthers DEF Others
    <3> QED BY <2>2, <3>1, OthersKeepClaims
  <2> QED BY <2>1, <2>2
<1> QED BY <1>1, <1>2
        DEF Next, vars, AddEvent, CommitUow, RollbackUow, BackoffElapses

LEMMA StepAccounted ==
    ASSUME RInv, [Next]_vars
    PROVE  Accounted'
<1>0. /\ TypeOK /\ Accounted
      /\ runs \in [Pairs -> Nat] /\ wasted \in [Pairs -> Nat]
  BY DEF RInv, IInv, TypeOK
<1> SUFFICES ASSUME NEW p \in Pairs
             PROVE  /\ runs'[p] <= 1 + wasted'[p]
                    /\ p \notin log' /\ (\A v \in Workers : p \notin tx'[v].ran)
                          => runs'[p] <= wasted'[p]
  BY DEF Accounted, RanBy
<1>1. CASE UNCHANGED <<tx, log, runs, wasted>>
  BY <1>0, <1>1 DEF Accounted, RanBy
<1>2. ASSUME NEW w \in Workers, WorkerStep(w) \/ HandlerFails(w) \/ LoseTick(w)
      PROVE  /\ runs'[p] <= 1 + wasted'[p]
             /\ p \notin log' /\ (\A v \in Workers : p \notin tx'[v].ran)
                   => runs'[p] <= wasted'[p]
  <2>0. /\ tx \in [Workers -> Tick] /\ tx[w] \in Tick
        /\ \A v \in Workers : v # w => tx'[v].ran = tx[v].ran
    BY <1>2, RInvTypes, WorkerKeepsOthers DEF Others
  <2>1. CASE HandlerSucceeds(w) \/ (HandlerFails(w) /\ Runs(w))
    <3>1. /\ tx[w].running /\ tx[w].cur # None /\ tx[w].cur \in Events
          /\ tx[w].next \in Nat /\ tx[w].next <= Count(tx[w].cur)
          /\ Current(w) \in Pairs /\ Handler(w) \in Handlers
          /\ Current(w) = <<tx[w].cur, Handler(w)>> /\ Current(w) \notin log
      BY <2>0, <2>1, RInvTypes, CurrentIsPair
         DEF HandlerSucceeds, HandlerFails, HasRun, NewClaims, Tick, Current
    <3>2. Current(w) \notin tx[w].ran
      <4> SUFFICES ASSUME Current(w) \in tx[w].ran PROVE FALSE
        OBVIOUS
      <4>1. PICK i \in 1..Count(tx[w].cur) :
               i < tx[w].next /\ Handler(w) = HandlersOf[tx[w].cur][i]
        BY <3>1, RInvTypes DEF NewClaims, RanBy
      <4>2. Count(tx[w].cur) = Len(HandlersOf[tx[w].cur]) /\ Count(tx[w].cur) \in Nat
        BY <3>1, HandlersAssumption DEF Count
      <4>3. tx[w].next \in 1..Count(tx[w].cur)
        BY <3>1, <4>1, <4>2
      <4>4. i = tx[w].next
        BY <3>1, <4>1, <4>2, <4>3, HandlersAssumption DEF Handler
      <4> QED BY <3>1, <4>1, <4>2, <4>4
    <3>3. ASSUME NEW v \in Workers, v # w PROVE Current(w) \notin tx[v].ran
      <4>1. tx[w].cur \in Locked(w) /\ tx[w].cur \notin Locked(v)
        BY <3>1, <3>3 DEF Locked, CurSet, RInv, IInv, RowsHeldOnce
      <4> QED BY <3>1, <4>1, RInvTypes DEF NewClaims, RanBy
    <3>4. runs[Current(w)] <= wasted[Current(w)]
      BY <1>0, <3>1, <3>2, <3>3 DEF Accounted, RanBy
    <3>5. /\ runs' = [runs EXCEPT ![Current(w)] = @ + 1] /\ log' = log
          /\ \/ /\ wasted' = wasted
                /\ tx'[w].ran = tx[w].ran \cup {Current(w)}
             \/ /\ wasted' = [wasted EXCEPT ![Current(w)] = @ + 1]
                /\ tx'[w].ran = tx[w].ran
      <4>1. CASE HandlerSucceeds(w)
        BY <2>0, <4>1 DEF HandlerSucceeds, Tick
      <4>2. CASE HandlerFails(w) /\ Runs(w)
        <5>1. runs' # runs
          BY <1>0, <3>1, <4>2 DEF Runs
        <5> QED BY <2>0, <4>2, <5>1
                DEF HandlerFails, RaisesBeforeCommit, RaisesAfterCommit, Runs, Tick
      <4> QED BY <2>1, <4>1, <4>2
    <3>6. CASE p = Current(w)
      BY <1>0, <3>1, <3>4, <3>5, <3>6
    <3>7. CASE p # Current(w)
      <4>1. runs'[p] = runs[p] /\ wasted'[p] = wasted[p]
        BY <1>0, <3>5, <3>7
      <4> QED BY <1>0, <2>0, <3>5, <3>7, <4>1 DEF Accounted, RanBy
    <3> QED BY <3>6, <3>7
  <2>2. CASE CommitTick(w)
    <3>1. log' = log \cup tx[w].ran /\ UNCHANGED <<runs, wasted>>
      BY <2>2 DEF CommitTick
    <3> QED BY <1>0, <2>0, <3>1 DEF Accounted, RanBy
  <2>3. CASE LoseTick(w) \/ RaiseOnRow(w)
    <3>1. /\ UNCHANGED <<runs, log>>
          /\ wasted'[p] = IF p \in tx[w].ran THEN wasted[p] + 1 ELSE wasted[p]
      BY <2>3 DEF LoseTick, RaiseOnRow, RollBackTick
    <3> QED BY <1>0, <2>0, <3>1 DEF Accounted, RanBy
  <2>4. CASE /\ ~HandlerSucceeds(w) /\ ~(HandlerFails(w) /\ Runs(w))
             /\ ~CommitTick(w) /\ ~LoseTick(w) /\ ~RaiseOnRow(w)
    <3>1. UNCHANGED <<log, runs, wasted>>
      BY <1>2, <2>4 DEF WorkerStep, BeginTick, SkipRow, TakeRow, ShortCircuit, Claim,
         HandlerFails, RaisesBeforeCommit, RaisesAfterCommit, Runs, FinishRow
    <3>2. tx'[w].ran = tx[w].ran \/ tx[w].ran = {}
      <4>1. CASE BeginTick(w)
        BY <4>1 DEF BeginTick, RInv, IInv, LocksArePending, NoTick
      <4>2. CASE ~BeginTick(w)
        <5>1. CASE SkipRow(w)
          BY <2>0, <5>1 DEF SkipRow, Tick
        <5>2. CASE TakeRow(w)
          BY <2>0, <5>2 DEF TakeRow, Tick
        <5>3. CASE ShortCircuit(w) \/ Claim(w) \/ HandlerFails(w) \/ FinishRow(w)
          BY <2>0, <5>3 DEF ShortCircuit, Claim, HandlerFails, FinishRow, Tick
        <5> QED BY <1>2, <2>4, <4>2, <5>1, <5>2, <5>3 DEF WorkerStep
      <4> QED BY <4>1, <4>2
    <3> QED BY <1>0, <2>0, <3>1, <3>2 DEF Accounted, RanBy
  <2> QED BY <2>1, <2>2, <2>3, <2>4
<1> QED BY <1>1, <1>2
        DEF Next, vars, AddEvent, CommitUow, RollbackUow, BackoffElapses

-----------------------------------------------------------------------------

LEMMA InitRInv == Init => RInv
<1> SUFFICES ASSUME Init PROVE RInv
  OBVIOUS
<1>1. IInv
  BY InitIInv
<1>2. ClaimsAreNew /\ Accounted
  BY DEF Init, NoTick, ClaimsAreNew, RanBy, Accounted
<1> QED BY <1>1, <1>2 DEF RInv

LEMMA StepRInv == RInv /\ [Next]_vars => RInv'
  BY StepIInv, StepClaims, StepAccounted DEF RInv

\* Redelivery is bounded: a handler's effect is committed again for an event only
\* as often as an earlier execution of it lost its claim, because the tick that
\* held it ended before its commit or because the handler raised after its own.
THEOREM RepeatsBounded == Spec => []RepeatsAreUnclaimed
<1>1. Init => RInv
  BY InitRInv
<1>2. RInv /\ [Next]_vars => RInv'
  BY StepRInv
<1>3. RInv => RepeatsAreUnclaimed
  BY DEF RInv, Accounted, RepeatsAreUnclaimed
<1> QED BY <1>1, <1>2, <1>3, PTL DEF Spec

-----------------------------------------------------------------------------

(* A tick ends: the part of PublishedUnlessBlocked that needs no fairness. *)

\* What is left to do for the current row: to start and to end each handler,
\* and to finish.
StepsLeft(w) ==
    IF tx[w].cur = None THEN 0
    ELSE 2 * (Count(tx[w].cur) + 1 - tx[w].next) + (IF tx[w].running THEN 0 ELSE 1)

BatchBounded ==
    \A w \in Workers : IsFiniteSet(Locked(w)) /\ Cardinality(Locked(w)) <= BatchLimit

NextInRange ==
    \A w \in Workers : tx[w].cur # None => tx[w].next <= Count(tx[w].cur) + 1

TInv == IInv /\ BatchBounded /\ NextInRange

\* An open tick has a step to take: the handler that runs ends, the next one is
\* looked up, the row is finished, the first row left is taken, skipped or
\* raised on, or the tick commits.
GoesOn(w) ==
    \/ tx[w].running /\ tx[w].cur # None
    \/ Dispatching(w)
    \/ tx[w].cur # None /\ ~tx[w].running /\ tx[w].next > Count(tx[w].cur)
    \/ Idle(w) /\ tx[w].todo = {}
    \/ Idle(w) /\ \E e \in Events : IsFirst(w, e)

\* Fewer rows to reach, or as many and less to do for the current one.
Shrinks(w) ==
    \/ Cardinality(tx'[w].todo) < Cardinality(tx[w].todo)
    \/ tx'[w].todo = tx[w].todo /\ StepsLeft(w)' < StepsLeft(w)

Below(S, e) == {f \in S : f < e}

\* Rows that are finitely many have an oldest one.
LEMMA FirstExists ==
    ASSUME NEW S \in SUBSET Nat, IsFiniteSet(S), S # {}
    PROVE  \E e \in S : \A f \in S : e <= f
<1>0. \A g \in S : g \in Nat
  OBVIOUS
<1>1. PICK Belows : Belows = {Below(S, e) : e \in S}
  OBVIOUS
<1>2. Belows # {} /\ Belows \subseteq SUBSET S
  BY <1>1 DEF Below
<1>3. Belows \subseteq FiniteSubsetsOf(S)
  BY <1>2, FS_FiniteSubsetsOfFinite
<1>4. PICK B \in Belows : \A C \in Belows : ~(<<C, B>> \in StrictSubsetOrdering(S))
  BY <1>2, <1>3, FS_StrictSubsetOrderingWellFounded, WFMin
<1>5. PICK e \in S : B = Below(S, e)
  BY <1>1, <1>4
<1>6. ASSUME NEW f \in S, f < e PROVE FALSE
  <2>1. PICK C : C = Below(S, f)
    OBVIOUS
  <2>2. e \in Nat /\ f \in Nat
    BY <1>0
  <2>3. C \subseteq B
    <3>1. \A g \in S : g < f => g < e
      BY <1>0, <1>6, <2>2
    <3> QED BY <1>5, <2>1, <3>1, Zenon DEF Below
  <2>4. f \in B /\ f \notin C
    <3>1. ~(f < f)
      BY <2>2
    <3> QED BY <1>5, <1>6, <2>1, <3>1, Zenon DEF Below
  <2>5. C \in Belows /\ C \in SUBSET S /\ B \in SUBSET S
    BY <1>1, <1>2, <1>4, <2>1
  <2>6. <<C, B>> \in StrictSubsetOrdering(S)
    BY <2>3, <2>4, <2>5 DEF StrictSubsetOrdering
  <2> QED BY <1>4, <2>5, <2>6
<1> QED BY <1>0, <1>6

LEMMA CountIsNat == \A e \in Events : Count(e) \in Nat
  BY HandlersAssumption DEF Count

LEMMA InitTInv == Init => TInv
<1> SUFFICES ASSUME Init PROVE TInv
  OBVIOUS
<1>1. \A w \in Workers : Locked(w) = {}
  BY DEF Init, NoTick, Locked, CurSet
<1>2. BatchBounded
  BY <1>1, FS_EmptySet, BoundsAssumption DEF BatchBounded
<1>3. NextInRange
  BY DEF Init, NoTick, NextInRange
<1> QED BY <1>2, <1>3, InitIInv DEF TInv

\* What a tick holds is never more than the batch it began with.
LEMMA StepBatch == ASSUME TInv, [Next]_vars PROVE BatchBounded'
<1>0. IInv /\ TypeOK /\ BatchBounded
  BY DEF TInv, IInv
<1>1. CASE UNCHANGED tx
  BY <1>0, <1>1 DEF BatchBounded, Locked, CurSet
<1>2. ASSUME NEW w \in Workers, BeginTick(w) PROVE BatchBounded'
  <2>1. PICK S \in SUBSET Eligible :
            /\ IsBatch(S)
            /\ tx' = [tx EXCEPT ![w] = [NoTick EXCEPT !.open = TRUE, !.todo = S]]
    BY <1>2 DEF BeginTick
  <2>2. Locked(w)' = S /\ Others(w)
    BY <1>0, <2>1 DEF Locked, CurSet, NoTick, Others, TypeOK
  <2>3. IsFiniteSet(S) /\ Cardinality(S) <= BatchLimit
    BY <2>1 DEF IsBatch
  <2>4. \A v \in Workers : v # w => Locked(v)' = Locked(v)
    BY <2>2 DEF Others, Locked, CurSet
  <2> QED BY <1>0, <2>2, <2>3, <2>4 DEF BatchBounded
<1>3. ASSUME NEW w \in Workers, WorkerStep(w) \/ HandlerFails(w) \/ LoseTick(w),
             ~BeginTick(w)
      PROVE  BatchBounded'
  <2>1. Others(w) /\ Locked(w)' \subseteq Locked(w)
    BY <1>0, <1>3, LocksShrink
  <2>2. \A v \in Workers : v # w => Locked(v)' = Locked(v)
    BY <2>1 DEF Others, Locked, CurSet
  <2>3. PICK S, T : S = Locked(w) /\ T = Locked(w)'
    OBVIOUS
  <2>4. IsFiniteSet(S) /\ Cardinality(S) <= BatchLimit /\ T \in SUBSET S
    BY <1>0, <2>1, <2>3 DEF BatchBounded
  <2>5. IsFiniteSet(T) /\ Cardinality(T) <= Cardinality(S)
    BY <2>4, FS_Subset
  <2>6. Cardinality(S) \in Nat /\ Cardinality(T) \in Nat
    BY <2>4, <2>5, FS_CardinalityType
  <2>7. Cardinality(T) <= BatchLimit
    BY <2>4, <2>5, <2>6, BoundsAssumption
  <2> QED BY <1>0, <2>2, <2>3, <2>5, <2>7 DEF BatchBounded
<1> QED BY <1>1, <1>2, <1>3
        DEF Next, vars, AddEvent, CommitUow, RollbackUow, BackoffElapses

\* A tick is never past the end of its row by more than one.
LEMMA StepNext == ASSUME TInv, [Next]_vars PROVE NextInRange'
<1>0. IInv /\ TypeOK /\ NextInRange
  BY DEF TInv, IInv
<1>1. CASE UNCHANGED tx
  BY <1>0, <1>1 DEF NextInRange
<1>2. ASSUME NEW w \in Workers, WorkerStep(w) \/ HandlerFails(w) \/ LoseTick(w)
      PROVE  NextInRange'
  <2>0. tx \in [Workers -> Tick] /\ tx[w] \in Tick /\ tx[w].next \in Nat
    BY <1>0 DEF TypeOK, Tick
  <2>2. CASE BeginTick(w) \/ CommitTick(w) \/ LoseTick(w) \/ RaiseOnRow(w)
    <3>1. tx'[w].cur = None
      <4>1. CASE BeginTick(w)
        BY <2>0, <4>1 DEF BeginTick, NoTick
      <4>2. CASE tx' = [tx EXCEPT ![w] = NoTick]
        BY <2>0, <4>2 DEF NoTick
      <4> QED BY <2>2, <4>1, <4>2 DEF CommitTick, LoseTick, RaiseOnRow, RollBackTick
    <3>2. Others(w)
      BY <2>0, <2>2 DEF BeginTick, CommitTick, LoseTick, RaiseOnRow, RollBackTick, Others
    <3> QED BY <1>0, <3>1, <3>2 DEF NextInRange, Others
  <2>3. CASE SkipRow(w) \/ HandlerFails(w) \/ FinishRow(w) \/ Claim(w)
    <3>1. CASE SkipRow(w)
      <4>1. PICK e \in Events :
               tx' = [tx EXCEPT ![w].todo = @ \ {e}, ![w].published = @ \cup {e}]
        BY <3>1 DEF SkipRow
      <4> QED BY <1>0, <2>0, <4>1 DEF NextInRange, Tick
    <3>2. CASE HandlerFails(w)
      BY <1>0, <2>0, <3>2 DEF HandlerFails, NextInRange, Tick
    <3>3. CASE FinishRow(w)
      BY <1>0, <2>0, <3>3 DEF FinishRow, NextInRange, Tick
    <3>4. CASE Claim(w)
      BY <1>0, <2>0, <3>4 DEF Claim, NextInRange, Tick
    <3> QED BY <2>3, <3>1, <3>2, <3>3, <3>4
  <2>4. CASE TakeRow(w)
    <3>1. PICK e \in Events :
             tx' = [tx EXCEPT ![w].todo = @ \ {e}, ![w].cur = e, ![w].next = 1]
      BY <2>4 DEF TakeRow
    <3>2. 1 <= Count(e) + 1
      BY CountIsNat
    <3> QED BY <1>0, <2>0, <3>1, <3>2 DEF NextInRange, Tick
  <2>5. CASE ShortCircuit(w) \/ HandlerSucceeds(w)
    <3>1. tx[w].cur # None /\ tx[w].next <= Count(tx[w].cur)
      BY <1>0, <2>5 DEF ShortCircuit, HandlerSucceeds, Dispatching, IInv, TickHasRun
    <3>2. Count(tx[w].cur) \in Nat /\ tx[w].next + 1 <= Count(tx[w].cur) + 1
      BY <2>0, <3>1, CountIsNat DEF Tick
    <3>3. tx'[w].cur = tx[w].cur /\ tx'[w].next = tx[w].next + 1 /\ Others(w)
      BY <2>0, <2>5 DEF ShortCircuit, HandlerSucceeds, Others, Tick
    <3> QED BY <1>0, <3>2, <3>3 DEF NextInRange, Others
  <2> QED BY <1>2, <2>2, <2>3, <2>4, <2>5 DEF WorkerStep
<1> QED BY <1>1, <1>2
        DEF Next, vars, AddEvent, CommitUow, RollbackUow, BackoffElapses

LEMMA StepTInv == TInv /\ [Next]_vars => TInv'
  BY StepIInv, StepBatch, StepNext DEF TInv

LEMMA OpenGoesOn == ASSUME TInv, NEW w \in Workers, tx[w].open PROVE GoesOn(w)
<1>0. /\ tx[w] \in Tick /\ TickHasRun
      /\ tx[w].cur # None => tx[w].cur \in Events
  BY DEF TInv, IInv, TypeOK, Tick
<1>1. CASE tx[w].cur # None
  BY <1>0, <1>1, CountIsNat DEF GoesOn, Dispatching, TickHasRun, Tick
<1>2. CASE tx[w].cur = None /\ tx[w].todo # {}
  <2>1. PICK S, L : S = tx[w].todo /\ L = Locked(w)
    OBVIOUS
  <2>2. IsFiniteSet(L) /\ S \in SUBSET L
    BY <2>1 DEF TInv, BatchBounded, Locked
  <2>3. IsFiniteSet(S)
    BY <2>2, FS_Subset
  <2>4. S \in SUBSET Events /\ S \in SUBSET Nat
    BY <1>0, <2>1, EventsAssumption DEF Tick
  <2>5. PICK e \in S : \A f \in S : e <= f
    BY <1>2, <2>1, <2>3, <2>4, FirstExists
  <2> QED BY <1>2, <2>1, <2>4, <2>5 DEF GoesOn, Idle, IsFirst
<1>3. CASE tx[w].cur = None /\ tx[w].todo = {}
  BY <1>3 DEF GoesOn, Idle
<1> QED BY <1>1, <1>2, <1>3

LEMMA StepsLeftIsNat == ASSUME TInv, NEW w \in Workers PROVE StepsLeft(w) \in Nat
<1>0. /\ tx[w] \in Tick /\ NextInRange
      /\ tx[w].cur # None => tx[w].cur \in Events
  BY DEF TInv, IInv, TypeOK, Tick
<1>1. CASE tx[w].cur # None
  <2>1. PICK c, n : c = Count(tx[w].cur) /\ n = tx[w].next
    OBVIOUS
  <2>2. c \in Nat /\ n \in Nat /\ n <= c + 1
    BY <1>0, <1>1, <2>1, CountIsNat DEF Tick, NextInRange
  <2>3. 2 * (c + 1 - n) \in Nat /\ 2 * (c + 1 - n) + 1 \in Nat
    BY <2>2
  <2> QED BY <1>1, <2>1, <2>3 DEF StepsLeft
<1>2. CASE tx[w].cur = None
  BY <1>2 DEF StepsLeft
<1> QED BY <1>1, <1>2

\* Removing the row that is taken or skipped leaves fewer.
LEMMA FewerRows ==
    ASSUME TInv, NEW w \in Workers, NEW e \in tx[w].todo, tx'[w].todo = tx[w].todo \ {e}
    PROVE  Shrinks(w)
<1>1. PICK S, T, L : S = tx[w].todo /\ T = tx'[w].todo /\ L = Locked(w)
  OBVIOUS
<1>2. IsFiniteSet(L) /\ S \in SUBSET L
  BY <1>1 DEF TInv, BatchBounded, Locked
<1>3. IsFiniteSet(S) /\ e \in S /\ T = S \ {e}
  BY <1>1, <1>2, FS_Subset
<1>4. Cardinality(S) \in Nat
  BY <1>3, FS_CardinalityType
<1>5. Cardinality(T) = Cardinality(S) - 1
  BY <1>3, FS_RemoveElement
<1>6. Cardinality(T) < Cardinality(S)
  BY <1>4, <1>5
<1> QED BY <1>1, <1>6 DEF Shrinks

LEMMA StepShrinksTick ==
    ASSUME TInv, [Next]_vars, NEW w \in Workers, tx[w].open, tx'[w].open, tx'[w] # tx[w]
    PROVE  Shrinks(w)
<1>0. /\ tx \in [Workers -> Tick] /\ tx[w] \in Tick /\ tx[w].next \in Nat
      /\ TickHasRun /\ IInv /\ NextInRange
      /\ tx[w].cur # None => tx[w].cur \in Events /\ Count(tx[w].cur) \in Nat
  BY CountIsNat DEF TInv, IInv, TypeOK, Tick
<1>1. tx' # tx
  OBVIOUS
<1>2. PICK v \in Workers : WorkerStep(v) \/ HandlerFails(v) \/ LoseTick(v)
  BY <1>1 DEF Next, vars, AddEvent, CommitUow, RollbackUow, BackoffElapses
<1>3. v = w /\ ~BeginTick(w)
  <2>1. CASE BeginTick(v)
    BY <1>0, <2>1 DEF BeginTick
  <2>2. CASE ~BeginTick(v)
    BY <1>0, <1>2, <2>2, LocksShrink DEF Others
  <2> QED BY <2>1, <2>2
<1>4. CASE SkipRow(w) \/ TakeRow(w)
  <2>1. PICK e \in tx[w].todo :
           \/ tx' = [tx EXCEPT ![w].todo = @ \ {e}, ![w].published = @ \cup {e}]
           \/ tx' = [tx EXCEPT ![w].todo = @ \ {e}, ![w].cur = e, ![w].next = 1]
    BY <1>4 DEF SkipRow, TakeRow, IsFirst
  <2>2. tx'[w].todo = tx[w].todo \ {e}
    BY <1>0, <2>1 DEF Tick
  <2> QED BY <2>2, FewerRows
<1>5. CASE ShortCircuit(w) \/ Claim(w) \/ HandlerSucceeds(w)
  <2>1. PICK c, n : c = Count(tx[w].cur) /\ n = tx[w].next
    OBVIOUS
  <2>2. tx[w].cur # None /\ c \in Nat /\ n \in Nat /\ n <= c
    BY <1>0, <1>5, <2>1 DEF ShortCircuit, Claim, HandlerSucceeds, Dispatching, TickHasRun
  <2>3. tx'[w].todo = tx[w].todo /\ tx'[w].cur = tx[w].cur /\ Count(tx[w].cur)' = c
    BY <1>0, <1>5, <2>1 DEF ShortCircuit, Claim, HandlerSucceeds, Tick, Count
  <2>4. \/ ~tx[w].running /\ ~tx'[w].running /\ tx'[w].next = n + 1
        \/ ~tx[w].running /\ tx'[w].running /\ tx'[w].next = n
        \/ tx[w].running /\ ~tx'[w].running /\ tx'[w].next = n + 1
    BY <1>0, <1>5, <2>1 DEF ShortCircuit, Claim, HandlerSucceeds, Dispatching, Tick
  <2>5. StepsLeft(w) = 2 * (c + 1 - n) + (IF tx[w].running THEN 0 ELSE 1)
    BY <2>1, <2>2 DEF StepsLeft
  <2>6. StepsLeft(w)' = 2 * (c + 1 - tx'[w].next) + (IF tx'[w].running THEN 0 ELSE 1)
    BY <2>2, <2>3 DEF StepsLeft
  <2>7. StepsLeft(w)' < StepsLeft(w)
    BY <2>2, <2>4, <2>5, <2>6
  <2> QED BY <2>3, <2>7 DEF Shrinks
<1>6. CASE HandlerFails(w) \/ FinishRow(w)
  <2>1. PICK c, n : c = Count(tx[w].cur) /\ n = tx[w].next
    OBVIOUS
  <2>2. /\ tx[w].cur # None /\ c \in Nat /\ n \in Nat
        /\ n <= c \/ (n <= c + 1 /\ ~tx[w].running)
    BY <1>0, <1>6, <2>1 DEF HandlerFails, FinishRow, TickHasRun, NextInRange
  <2>3. tx'[w].todo = tx[w].todo /\ tx'[w].cur = None
    BY <1>0, <1>6 DEF HandlerFails, FinishRow, Tick
  <2>4. StepsLeft(w) = 2 * (c + 1 - n) + (IF tx[w].running THEN 0 ELSE 1)
    BY <2>1, <2>2 DEF StepsLeft
  <2>5. StepsLeft(w) > 0
    BY <2>2, <2>4
  <2>6. StepsLeft(w)' = 0
    BY <2>3 DEF StepsLeft
  <2>7. StepsLeft(w)' < StepsLeft(w)
    BY <2>2, <2>4, <2>5, <2>6
  <2> QED BY <2>3, <2>7 DEF Shrinks
<1>7. CASE CommitTick(w) \/ LoseTick(w) \/ RaiseOnRow(w)
  BY <1>0, <1>7 DEF CommitTick, LoseTick, RaiseOnRow, RollBackTick, NoTick
<1> QED BY <1>2, <1>3, <1>4, <1>5, <1>6, <1>7 DEF WorkerStep

TicksGoOn ==
    \A w \in Workers : tx[w].open => StepsLeft(w) \in Nat /\ GoesOn(w)

TicksShrink ==
    \A w \in Workers : tx[w].open /\ tx'[w].open /\ tx'[w] # tx[w] => Shrinks(w)

\* tick_once comes to its end: it holds at most POLL_LIMIT rows, has always a step
\* to take until it commits, and each step of it leaves fewer rows to reach or less
\* to do for the current one, whatever handlers fail and whatever is in the log.
THEOREM TickEnds == Spec => [](BatchBounded /\ TicksGoOn) /\ [][TicksShrink]_vars
<1>1. Init => TInv
  BY InitTInv
<1>2. TInv /\ [Next]_vars => TInv'
  BY StepTInv
<1>3. TInv => BatchBounded /\ TicksGoOn
  BY OpenGoesOn, StepsLeftIsNat DEF TInv, TicksGoOn
<1>4. TInv /\ [Next]_vars => [TicksShrink]_vars
  BY StepShrinksTick DEF TicksShrink
<1> QED BY <1>1, <1>2, <1>3, <1>4, PTL DEF Spec
=============================================================================
