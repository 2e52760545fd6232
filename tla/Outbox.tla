------------------------------- MODULE Outbox -------------------------------
(***************************************************************************)
(* The transactional outbox: SqlAlchemyUnitOfWork writes event rows with   *)
(* the aggregate, and every second the arq worker runs tick_once, which    *)
(* locks a batch of unpublished rows, dispatches each to the handlers of   *)
(* its type and commits all its bookkeeping in ONE transaction, while each *)
(* handler commits its own effect in its own unit of work.                 *)
(*                                                                         *)
(* Time is abstracted to one bit per row, due[e]: whether the row's        *)
(* backoff window, counted from occurred_at, has elapsed.  An event is its *)
(* position in occurred_at order.                                          *)
(***************************************************************************)
EXTENDS Naturals, Sequences, FiniteSets

CONSTANTS
    Events,         \* the events, numbered in occurred_at order
    Handlers,       \* handler names (__qualname__)
    Workers,        \* worker processes running the cron job
    None,           \* no current row
    KindOf,         \* KindOf[e]: how _reconstruct_event fares with the row
    HandlersOf,     \* HandlersOf[e]: OutboxEventBus.handlers_for, in order
    BatchLimit,     \* POLL_LIMIT
    PowerLimit,     \* least attempts at which SQL POWER(factor, attempts) overflows
    MaxFailures,    \* bound: failed dispatches of one event
    MaxLost         \* bound: ticks that die before their commit, and times a raise
                    \* wastes an execution of the same pair

Kinds == {"known", "unknown", "incompatible"}

ASSUME EventsAssumption   == Events \subseteq Nat /\ None \notin Events
ASSUME KindAssumption     == KindOf \in [Events -> Kinds]
ASSUME HandlersAssumption ==
    /\ HandlersOf \in [Events -> Seq(Handlers)]
    \* OutboxEventBus.subscribe keeps a handler once per event type.
    /\ \A e \in Events : \A i, j \in 1..Len(HandlersOf[e]) :
          HandlersOf[e][i] = HandlersOf[e][j] => i = j
ASSUME BoundsAssumption   ==
    /\ BatchLimit \in Nat \ {0}
    /\ PowerLimit \in Nat /\ MaxFailures \in Nat /\ MaxLost \in Nat

VARIABLES
    row,        \* row[e]: the event as the database and the producer's UoW see it
    attempts,   \* attempts[e]: domain_events.attempts
    due,        \* due[e]: occurred_at + backoff(attempts) has passed
    log,        \* committed event_handler_log rows, as <<event, handler>>
    tx,         \* tx[w]: the open transaction of worker w's tick
    runs,       \* history: committed executions of each handler per event
    wasted,     \* history: executions whose claim did not outlive them: rolled back
                \* with the tick, or deleted because the handler raised afterwards
    lost        \* number of ticks lost so far

vars == <<row, attempts, due, log, tx, runs, wasted, lost>>

Pairs == Events \X Handlers

(***************************************************************************)
(* A tick's transaction: the rows it has locked and not reached, the row   *)
(* it is dispatching and the index of the next handler, whether a claim is *)
(* inserted and its handler running, the pairs it ran to success, and the  *)
(* rows it has marked published or failed.                                 *)
(***************************************************************************)
Tick == [open : BOOLEAN, todo : SUBSET Events, cur : Events \cup {None},
         next : Nat, running : BOOLEAN, ran : SUBSET Pairs,
         published : SUBSET Events, failed : SUBSET Events]

NoTick == [open |-> FALSE, todo |-> {}, cur |-> None, next |-> 1,
           running |-> FALSE, ran |-> {}, published |-> {}, failed |-> {}]

CurSet(w) == {tx[w].cur} \ {None}
Locked(w) == tx[w].todo \cup CurSet(w) \cup tx[w].published \cup tx[w].failed

\* Handlers that tick_once will call for e: none if the type is unknown.
Count(e)    == IF KindOf[e] = "known" THEN Len(HandlersOf[e]) ELSE 0
Required    == [e \in Events |-> {HandlersOf[e][i] : i \in 1..Count(e)}]

Init ==
    /\ row = [e \in Events |-> "none"]
    /\ attempts = [e \in Events |-> 0]
    /\ due = [e \in Events |-> TRUE]
    /\ log = {}
    /\ tx = [w \in Workers |-> NoTick]
    /\ runs = [p \in Pairs |-> 0]
    /\ wasted = [p \in Pairs |-> 0]
    /\ lost = 0

-----------------------------------------------------------------------------
(* The producers' unit of work. *)

\* SqlAlchemyUnitOfWork.add_event: the event is buffered in memory.
AddEvent(e) ==
    /\ row[e] = "none"
    /\ row' = [row EXCEPT ![e] = "buffered"]
    /\ UNCHANGED <<attempts, due, log, tx, runs, wasted, lost>>

\* commit: the row is inserted and committed with the aggregate's write.
CommitUow(e) ==
    /\ row[e] = "buffered"
    /\ row' = [row EXCEPT ![e] = "pending"]
    /\ UNCHANGED <<attempts, due, log, tx, runs, wasted, lost>>

\* rollback, __aexit__ with an exception, or an exit without commit: the
\* buffer goes with the session.
RollbackUow(e) ==
    /\ row[e] = "buffered"
    /\ row' = [row EXCEPT ![e] = "none"]
    /\ UNCHANGED <<attempts, due, log, tx, runs, wasted, lost>>

-----------------------------------------------------------------------------
(* The candidate query. *)

BackoffElapses(e) ==
    /\ row[e] = "pending" /\ ~due[e]
    /\ due' = [due EXCEPT ![e] = TRUE]
    /\ UNCHANGED <<row, attempts, log, tx, runs, wasted, lost>>

\* Faulty variants of Eligible: without SKIP LOCKED, and without the clause
\* that lets a failed row come back.
EligibleLocked == {e \in Events : row[e] = "pending" /\ (attempts[e] = 0 \/ due[e])}

EligibleOnce ==
    {e \in Events : /\ row[e] = "pending" /\ attempts[e] = 0
                    /\ \A v \in Workers : e \notin Locked(v)}

\* FOR UPDATE SKIP LOCKED passes over the rows another tick holds.
Eligible ==
    {e \in Events : /\ row[e] = "pending"
                    /\ attempts[e] = 0 \/ due[e]
                    /\ \A v \in Workers : e \notin Locked(v)}

\* ORDER BY occurred_at LIMIT n
IsBatch(S) ==
    /\ S # {} /\ IsFiniteSet(S) /\ Cardinality(S) <= BatchLimit
    /\ \A e \in S, f \in Eligible \ S : e < f
    /\ S # Eligible => Cardinality(S) = BatchLimit

\* The WHERE clause computes POWER for every retried unpublished row; one
\* overflow is an error of the whole query.
QueryEvaluates == \A e \in Events : row[e] = "pending" => attempts[e] < PowerLimit

BeginTick(w) ==
    /\ ~tx[w].open
    /\ QueryEvaluates
    /\ \E S \in SUBSET Eligible :
          /\ IsBatch(S)
          /\ tx' = [tx EXCEPT ![w] = [NoTick EXCEPT !.open = TRUE, !.todo = S]]
    /\ UNCHANGED <<row, attempts, due, log, runs, wasted, lost>>

-----------------------------------------------------------------------------
(* The body of tick_once, one row after the other. *)

IsFirst(w, e) == e \in tx[w].todo /\ \A f \in tx[w].todo : e <= f
Idle(w)       == tx[w].open /\ tx[w].cur = None

\* Unknown type or no handler: the row is marked published and left.
SkipRow(w) ==
    /\ Idle(w)
    /\ \E e \in Events :
          /\ IsFirst(w, e)
          /\ KindOf[e] # "incompatible" /\ Count(e) = 0
          /\ tx' = [tx EXCEPT ![w].todo = @ \ {e}, ![w].published = @ \cup {e}]
    /\ UNCHANGED <<row, attempts, due, log, runs, wasted, lost>>

TakeRow(w) ==
    /\ Idle(w)
    /\ \E e \in Events :
          /\ IsFirst(w, e)
          /\ Count(e) > 0
          /\ tx' = [tx EXCEPT ![w].todo = @ \ {e}, ![w].cur = e, ![w].next = 1]
    /\ UNCHANGED <<row, attempts, due, log, runs, wasted, lost>>

Handler(w)  == HandlersOf[tx[w].cur][tx[w].next]
Current(w)  == <<tx[w].cur, Handler(w)>>
Dispatching(w) ==
    tx[w].open /\ tx[w].cur # None /\ ~tx[w].running
        /\ tx[w].next <= Count(tx[w].cur)

\* _claim_handler returned FALSE: an earlier tick ran this handler.
ShortCircuit(w) ==
    /\ Dispatching(w) /\ Current(w) \in log
    /\ tx' = [tx EXCEPT ![w].next = @ + 1]
    /\ UNCHANGED <<row, attempts, due, log, runs, wasted, lost>>

\* Faulty variant of Claim: the unique constraint of the log is missing.
ClaimAgain(w) ==
    /\ Dispatching(w)
    /\ tx' = [tx EXCEPT ![w].running = TRUE]
    /\ UNCHANGED <<row, attempts, due, log, runs, wasted, lost>>

\* _claim_handler inserted its row, uncommitted; the handler starts.
Claim(w) ==
    /\ Dispatching(w) /\ Current(w) \notin log
    /\ tx' = [tx EXCEPT ![w].running = TRUE]
    /\ UNCHANGED <<row, attempts, due, log, runs, wasted, lost>>

\* The handler committed its own unit of work and returned.
HandlerSucceeds(w) ==
    /\ tx[w].running
    /\ runs' = [runs EXCEPT ![Current(w)] = @ + 1]
    /\ tx' = [tx EXCEPT ![w].running = FALSE, ![w].next = @ + 1,
                        ![w].ran = @ \cup {Current(w)}]
    /\ UNCHANGED <<row, attempts, due, log, wasted, lost>>

\* What the handler had done when it raised: nothing that lasts, or all of it,
\* its own unit of work committed before something after the commit (or the
\* answer to the commit itself) failed.
RaisesBeforeCommit   == UNCHANGED <<runs, wasted>>
RaisesAfterCommit(w) ==
    /\ wasted[Current(w)] < MaxLost
    /\ runs' = [runs EXCEPT ![Current(w)] = @ + 1]
    /\ wasted' = [wasted EXCEPT ![Current(w)] = @ + 1]

\* The handler raised, which tick_once cannot tell apart: its claim is deleted
\* either way, the attempt is counted, and the event's remaining handlers wait
\* for the retry.
HandlerFails(w) ==
    /\ tx[w].running
    /\ attempts[tx[w].cur] < MaxFailures
    /\ tx' = [tx EXCEPT ![w].running = FALSE, ![w].failed = @ \cup {tx[w].cur},
                        ![w].cur = None]
    /\ RaisesBeforeCommit \/ RaisesAfterCommit(w)
    /\ UNCHANGED <<row, attempts, due, log, lost>>

\* Faulty variant of FinishRow: off by one, the last handler is skipped.
FinishRowEarly(w) ==
    /\ tx[w].open /\ tx[w].cur # None /\ ~tx[w].running
    /\ tx[w].next >= Count(tx[w].cur)
    /\ tx' = [tx EXCEPT ![w].published = @ \cup {tx[w].cur}, ![w].cur = None]
    /\ UNCHANGED <<row, attempts, due, log, runs, wasted, lost>>

FinishRow(w) ==
    /\ tx[w].open /\ tx[w].cur # None /\ ~tx[w].running
    /\ tx[w].next > Count(tx[w].cur)
    /\ tx' = [tx EXCEPT ![w].published = @ \cup {tx[w].cur}, ![w].cur = None]
    /\ UNCHANGED <<row, attempts, due, log, runs, wasted, lost>>

\* Faulty variants of CommitTick: failed rows are published too; the log is
\* keyed by the handler alone.
CommitTickFailed(w) ==
    /\ Idle(w) /\ tx[w].todo = {}
    /\ row' = [e \in Events |-> IF e \in tx[w].published \cup tx[w].failed
                                THEN "published" ELSE row[e]]
    /\ log' = log \cup tx[w].ran
    /\ tx' = [tx EXCEPT ![w] = NoTick]
    /\ UNCHANGED <<attempts, due, runs, wasted, lost>>

CommitTickByHandler(w) ==
    /\ Idle(w) /\ tx[w].todo = {}
    /\ row' = [e \in Events |-> IF e \in tx[w].published THEN "published" ELSE row[e]]
    /\ log' = log \cup {p[2] : p \in tx[w].ran}
    /\ tx' = [tx EXCEPT ![w] = NoTick]
    /\ UNCHANGED <<attempts, due, runs, wasted, lost>>

\* session.commit() at the end of tick_once.  A failed row may already be
\* past its next window, which counts from occurred_at.
CommitTick(w) ==
    /\ Idle(w) /\ tx[w].todo = {}
    /\ row' = [e \in Events |-> IF e \in tx[w].published THEN "published" ELSE row[e]]
    /\ attempts' = [e \in Events |-> IF e \in tx[w].failed THEN attempts[e] + 1
                                                           ELSE attempts[e]]
    /\ \E waiting \in SUBSET tx[w].failed :
          due' = [e \in Events |-> IF e \in tx[w].failed THEN e \notin waiting ELSE due[e]]
    /\ log' = log \cup tx[w].ran
    /\ tx' = [tx EXCEPT ![w] = NoTick]
    /\ UNCHANGED <<runs, wasted, lost>>

\* Everything the transaction wrote is rolled back; what the handlers
\* committed stays.
RollBackTick(w) ==
    /\ wasted' = [p \in Pairs |-> IF p \in tx[w].ran THEN wasted[p] + 1 ELSE wasted[p]]
    /\ tx' = [tx EXCEPT ![w] = NoTick]
    /\ UNCHANGED <<row, attempts, due, log, runs>>

\* The worker dies, the job is cancelled, or the connection drops, before or
\* after the handler it is running commits (HandlerSucceeds is that commit).
LoseTick(w) ==
    /\ tx[w].open /\ lost < MaxLost
    /\ lost' = lost + 1
    /\ RollBackTick(w)

\* _reconstruct_event raises on a payload its class does not accept; nothing
\* in tick_once catches it.
RaiseOnRow(w) ==
    /\ Idle(w)
    /\ \E e \in Events : IsFirst(w, e) /\ KindOf[e] = "incompatible"
    /\ \A p \in tx[w].ran : wasted[p] < MaxLost
    /\ RollBackTick(w)
    /\ UNCHANGED lost

WorkerStep(w) ==
    \/ BeginTick(w) \/ SkipRow(w) \/ TakeRow(w) \/ ShortCircuit(w) \/ Claim(w)
    \/ HandlerSucceeds(w) \/ FinishRow(w) \/ CommitTick(w) \/ RaiseOnRow(w)

Next ==
    \/ \E e \in Events : AddEvent(e) \/ CommitUow(e) \/ RollbackUow(e) \/ BackoffElapses(e)
    \/ \E w \in Workers : WorkerStep(w) \/ HandlerFails(w) \/ LoseTick(w)

Spec == Init /\ [][Next]_vars

(***************************************************************************)
(* arq fires the cron job every second, and a tick that is not lost runs   *)
(* to its end; windows elapse.  Nothing obliges a producer to commit.      *)
(***************************************************************************)
Fairness ==
    /\ \A w \in Workers : WF_vars(WorkerStep(w))
    /\ \A e \in Events : WF_vars(BackoffElapses(e))

FairSpec == Spec /\ Fairness

-----------------------------------------------------------------------------
(* Properties. *)

TypeOK ==
    /\ row \in [Events -> {"none", "buffered", "pending", "published"}]
    /\ attempts \in [Events -> Nat]
    /\ due \in [Events -> BOOLEAN]
    /\ log \subseteq Pairs
    /\ tx \in [Workers -> Tick]
    /\ runs \in [Pairs -> Nat]
    /\ wasted \in [Pairs -> Nat]
    /\ lost \in Nat

\* Two workers polling at the same time never hold the same row, so no event
\* is dispatched twice at once (FOR UPDATE SKIP LOCKED held to the commit).
RowsHeldOnce ==
    \A v, w \in Workers : v # w => Locked(v) \cap Locked(w) = {}

\* At-least-once: a row is published only when every handler of its event
\* has committed its effect, through any failures, retries and lost ticks.
PublishedOnlyAfterHandlers ==
    \A e \in Events : row[e] = "published" =>
        \A h \in Required[e] : runs[<<e, h>>] >= 1

\* event_handler_log bounds redelivery: a handler commits its effect again for
\* an event only as often as an earlier execution lost its claim, with a tick
\* that ended before its commit or by raising after its own commit.
RepeatsAreUnclaimed ==
    \A p \in Pairs : runs[p] <= 1 + wasted[p]

\* A published row is never dispatched, retried or counted again.
PublishedIsFinal ==
    [][\A e \in Events : row[e] = "published" =>
          /\ row'[e] = "published" /\ attempts'[e] = attempts[e]
          /\ \A h \in Handlers : runs'[<<e, h>>] = runs[<<e, h>>]]_vars

\* The publisher implements the outbox contract.
Contract == INSTANCE OutboxContract WITH
    captured  <- {e \in Events : row[e] \in {"pending", "published"}},
    delivered <- {p \in Pairs : runs[p] > 0},
    retired   <- {e \in Events : row[e] = "published"}

ImplementsContract == Contract!Spec

\* Every committed event the worker can decode is eventually published,
\* whatever finite number of handler failures and lost ticks it meets.
EventuallyPublished ==
    \A e \in Events : KindOf[e] # "incompatible" =>
        ((row[e] = "pending") ~> (row[e] = "published"))

\* Nothing but a row it cannot decode holds the worker up: until one is pending,
\* every other committed event is published in the end, also when more rows are
\* waiting than a batch takes.
PublishedUnlessBlocked ==
    \A e \in Events : KindOf[e] # "incompatible" =>
        ((row[e] = "pending")
            ~> \/ row[e] = "published"
               \/ \E f \in Events : KindOf[f] = "incompatible" /\ row[f] = "pending")
=============================================================================
