------------------------- MODULE Idempotency_proofs -------------------------
(***************************************************************************)
(* Theorems about the idempotency middleware, for every client, every set  *)
(* of requests, keys and bodies and every number of expiries.              *)
(***************************************************************************)
EXTENDS Idempotency, FiniteSetTheorems, TLAPS

\* A request past its handler keeps its key, its body and its result.
Finishing == {"complete", "replied"}

\* A request that has not decided has run no handler; an answer is stored only
\* by a claimant; what is not replied has no answer.
InPhase(r) ==
    /\ req[r].pc \in {"idle", "claim", "lookup"} => req[r].ran = "no"
    /\ req[r].pc = "complete" => req[r].ran = "claimed"
    /\ req[r].pc # "replied" => req[r].reply = None

Phases == \A r \in Requests : InPhase(r)

\* Answer a is what a handler of key k and body b gave request a.by.
Given(a, k, b) ==
    /\ a \in Answer /\ a.by \in Requests
    /\ req[a.by].pc \in Finishing
    /\ req[a.by].key = k /\ req[a.by].body = b /\ req[a.by].result = a.status

\* What an entry stores was given to a claimant of its key.
Stored ==
    \A k \in Keys : entry[k] # None /\ entry[k].state = "done" =>
        /\ Given(entry[k].answer, k, entry[k].body)
        /\ req[entry[k].answer.by].ran = "claimed"

\* So was what a request is answered with, unless it failed open.
Answered ==
    \A r \in Requests : HasAnswer(r) =>
        /\ Given(req[r].reply, req[r].key, req[r].body)
        /\ req[r].ran # "open" => req[req[r].reply.by].ran = "claimed"

Owned(k) == IF entry[k] = None THEN 0 ELSE 1

\* Every claimant but the owner of the present entry has lost it to an expiry.
Counted == \A k \in Keys : Cardinality(Claimants(k)) <= expired[k] + Owned(k)

IInv == TypeOK /\ Phases /\ Stored /\ Answered /\ Counted

-----------------------------------------------------------------------------

LEMMA Typing ==
    ASSUME TypeOK, NEW r \in Requests
    PROVE  /\ req[r] \in Request /\ entry \in [Keys -> Entry \cup {None}]
           /\ req \in [Requests -> Request] /\ expired \in [Keys -> Nat]
           /\ req[r].pc # "idle" => req[r].key \in Keys /\ req[r].body \in Bodies
           /\ req[r].pc = "complete" => req[r].result \in Outcomes
           /\ \A k \in Keys : entry[k] \in Entry \cup {None} /\ expired[k] \in Nat
BY DEF TypeOK

LEMMA InitIInv == ServerInit => IInv
<1> SUFFICES ASSUME ServerInit PROVE IInv
  OBVIOUS
<1> USE DEF ServerInit, NotSent
<1>1. TypeOK
  BY DEF TypeOK, Request
<1>2. Phases /\ Stored /\ Answered
  BY DEF Phases, InPhase, Stored, Answered, HasAnswer
<1>3. \A k \in Keys : Claimants(k) = {}
  BY DEF Claimants
<1>4. Counted
  BY <1>1, <1>3, FS_EmptySet DEF Counted, Owned, TypeOK
<1> QED BY <1>1, <1>2, <1>4 DEF IInv

\* A step changes one request, and keeps its type.
LEMMA OneRequest ==
    ASSUME TypeOK, NEW r \in Requests, NEW q, q \in Request,
           req' = [req EXCEPT ![r] = q],
           q.pc # "idle" => q.key \in Keys /\ q.body \in Bodies,
           q.pc = "complete" => q.result \in Outcomes,
           entry' \in [Keys -> Entry \cup {None}], expired' \in [Keys -> Nat]
    PROVE  TypeOK'
BY DEF TypeOK

LEMMA Values ==
    ASSUME TypeOK, NEW r \in Requests, req[r].pc # "idle"
    PROVE  /\ InFlight(r) \in Entry /\ InFlight(r) # None
           /\ req[r].pc = "complete" => Finished(r) \in Entry /\ Finished(r) # None
BY Typing, NoneIsNoEntry DEF InFlight, Finished, Entry, Answer

LEMMA TypeStep ==
    ASSUME IInv, [ServerNext]_serverVars
    PROVE  TypeOK'
<1>0. TypeOK
  BY DEF IInv
<1> USE DEF Go, Start, Reply
<1>1. ASSUME NEW r \in Requests, NEW k \in Keys, NEW b \in Bodies, Receive(r, k, b)
      PROVE  TypeOK'
  <2> DEFINE q == [req[r] EXCEPT !.pc = "claim", !.key = k, !.body = b]
  <2>1. q \in Request /\ q.key \in Keys /\ q.body \in Bodies /\ q.pc = "claim"
    BY <1>0, Typing DEF Request
  <2>2. req' = [req EXCEPT ![r] = q] /\ entry' = entry /\ expired' = expired
    BY <1>1 DEF Receive
  <2> HIDE DEF q
  <2> QED BY <1>0, <2>1, <2>2, Typing, OneRequest
<1>2. ASSUME NEW r \in Requests, Claim(r) \/ ClaimUnavailable(r) \/ LookupFails(r)
      PROVE  TypeOK'
  <2>1. PICK as \in {"claimed", "open"} : req' = [req EXCEPT ![r] = [req[r] EXCEPT !.pc = "run", !.ran = as]]
    BY <1>2 DEF Claim, ClaimUnavailable, LookupFails
  <2>2. req[r].pc # "idle" /\ expired' = expired
        /\ (entry' = entry \/ entry' = [entry EXCEPT ![req[r].key] = InFlight(r)])
    BY <1>2 DEF Claim, ClaimUnavailable, LookupFails
  <2> DEFINE q == [req[r] EXCEPT !.pc = "run", !.ran = as]
  <2>3. q \in Request /\ q.key \in Keys /\ q.body \in Bodies /\ q.pc = "run"
    <3>1. req[r].pc # "idle"
      BY <2>2
    <3> QED BY <1>0, <3>1, Typing DEF Request
  <2>4. entry' \in [Keys -> Entry \cup {None}]
    BY <1>0, <2>2, Values, Typing
  <2>5. req' = [req EXCEPT ![r] = q]
    BY <2>1
  <2> HIDE DEF q
  <2> QED BY <1>0, <2>2, <2>3, <2>4, <2>5, Typing, OneRequest
<1>3. ASSUME NEW r \in Requests, ClaimTaken(r)
      PROVE  TypeOK'
  <2>1. PICK pc \in {"lookup"} : req' = [req EXCEPT ![r].pc = pc]
    BY <1>3 DEF ClaimTaken
  <2>2. req[r].pc # "idle" /\ entry' = entry /\ expired' = expired
    BY <1>3 DEF ClaimTaken
  <2> DEFINE q == [req[r] EXCEPT !.pc = pc]
  <2>3. q \in Request /\ q.key \in Keys /\ q.body \in Bodies /\ q.pc # "complete"
    BY <1>0, <2>2, Typing DEF Request
  <2>4. req' = [req EXCEPT ![r] = q]
    BY <2>1
  <2> HIDE DEF q
  <2> QED BY <1>0, <2>2, <2>3, <2>4, Typing, OneRequest
<1>4. ASSUME NEW r \in Requests, RefuseExisting(r) \/ ReplayExisting(r) \/ Complete(r)
      PROVE  TypeOK'
  <2>1. PICK a \in Answer \cup {None} :
           req' = [req EXCEPT ![r] = [req[r] EXCEPT !.pc = "replied", !.reply = a]]
    <3>1. CASE RefuseExisting(r)
      BY <3>1 DEF RefuseExisting, Answer, Outcomes
    <3>2. CASE ReplayExisting(r)
      BY <1>0, <3>2, Typing DEF ReplayExisting, Entry
    <3>3. CASE Complete(r)
      BY <1>0, <3>3, Typing DEF Complete, Finished, Answer
    <3> QED BY <1>4, <3>1, <3>2, <3>3
  <2>2. /\ req[r].pc # "idle" /\ expired' = expired
        /\ \/ entry' = entry
           \/ req[r].pc = "complete" /\ entry' = [entry EXCEPT ![req[r].key] = Finished(r)]
    BY <1>4 DEF RefuseExisting, ReplayExisting, Complete
  <2> DEFINE q == [req[r] EXCEPT !.pc = "replied", !.reply = a]
  <2>3. q \in Request /\ q.key \in Keys /\ q.body \in Bodies /\ q.pc = "replied"
    <3>1. req[r].pc # "idle"
      BY <2>2
    <3> QED BY <1>0, <3>1, Typing DEF Request
  <2>4. entry' \in [Keys -> Entry \cup {None}]
    BY <1>0, <2>2, Values, Typing
  <2>5. req' = [req EXCEPT ![r] = q]
    BY <2>1
  <2> HIDE DEF q
  <2> QED BY <1>0, <2>2, <2>3, <2>4, <2>5, Typing, OneRequest
<1>5. ASSUME NEW r \in Requests, RunHandler(r) PROVE TypeOK'
  <2>1. PICK outcome \in Outcomes :
           req' = [req EXCEPT ![r] = [req[r] EXCEPT !.pc = "complete", !.result = outcome]]
    BY <1>5 DEF RunHandler
  <2>2. req[r].pc = "run" /\ entry' = entry /\ expired' = expired
    BY <1>5 DEF RunHandler
  <2> DEFINE q == [req[r] EXCEPT !.pc = "complete", !.result = outcome]
  <2>3. q \in Request /\ q.key \in Keys /\ q.body \in Bodies /\ q.result \in Outcomes
    BY <1>0, <2>2, Typing DEF Request
  <2>4. req' = [req EXCEPT ![r] = q]
    BY <2>1
  <2> HIDE DEF q
  <2> QED BY <1>0, <2>2, <2>3, <2>4, Typing, OneRequest
<1>6. ASSUME NEW r \in Requests, RunOpen(r) PROVE TypeOK'
  <2>1. PICK outcome \in Outcomes :
           req' = [req EXCEPT ![r] = [req[r] EXCEPT !.pc = "replied", !.result = outcome,
                                                    !.reply = [status |-> outcome, by |-> r]]]
    BY <1>6 DEF RunOpen
  <2>2. req[r].pc = "run" /\ entry' = entry /\ expired' = expired
    BY <1>6 DEF RunOpen
  <2> DEFINE a == [status |-> outcome, by |-> r]
             q == [req[r] EXCEPT !.pc = "replied", !.result = outcome, !.reply = a]
  <2>3. a \in Answer
    BY DEF Answer
  <2>4. req' = [req EXCEPT ![r] = q]
    BY <2>1
  <2> HIDE DEF a
  <2>5. q \in Request /\ q.key \in Keys /\ q.body \in Bodies /\ q.pc = "replied"
    BY <1>0, <2>2, <2>3, Typing DEF Request
  <2> HIDE DEF q
  <2> QED BY <1>0, <2>2, <2>4, <2>5, Typing, OneRequest
<1>7. ASSUME NEW k \in Keys, Expire(k) PROVE TypeOK'
  BY <1>0, <1>7 DEF TypeOK, Expire
<1>8. CASE UNCHANGED serverVars
  BY <1>0, <1>8 DEF TypeOK, serverVars
<1> QED BY <1>1, <1>2, <1>3, <1>4, <1>5, <1>6, <1>7, <1>8 DEF ServerNext, Serve

-----------------------------------------------------------------------------

\* A request keeps its key and its body once it has arrived, what it ran and
\* what came of it past its handler, and everything once it is replied.
Kept(r) ==
    /\ req[r].pc # "idle" => req'[r].key = req[r].key /\ req'[r].body = req[r].body
    /\ req[r].pc \in Finishing =>
          /\ req'[r].pc \in Finishing
          /\ req'[r].ran = req[r].ran /\ req'[r].result = req[r].result
    /\ req[r].pc = "replied" => req'[r] = req[r]

LEMMA RequestStep ==
    ASSUME TypeOK, Phases, [ServerNext]_serverVars, NEW q \in Requests
    PROVE  Kept(q) /\ InPhase(q)'
<1>1. req[q] \in Request /\ req \in [Requests -> Request] /\ InPhase(q)
  BY Typing DEF Phases
<1> USE DEF Kept, InPhase, Finishing, Request
<1>2. CASE \E r \in Requests, k \in Keys, b \in Bodies : Receive(r, k, b)
  BY <1>1, <1>2 DEF Receive
<1>3. CASE \E r \in Requests : Claim(r) \/ ClaimUnavailable(r) \/ LookupFails(r)
  <2>1. PICK r \in Requests, as \in {"claimed", "open"} :
           /\ req[r].pc \notin Finishing /\ req[r].pc # "idle"
           /\ req' = [req EXCEPT ![r] = [req[r] EXCEPT !.pc = "run", !.ran = as]]
    BY <1>3 DEF Claim, ClaimUnavailable, LookupFails, Start
  <2> QED BY <1>1, <2>1
<1>4. CASE \E r \in Requests : ClaimTaken(r)
  BY <1>1, <1>4 DEF ClaimTaken, Go
<1>5. CASE \E r \in Requests : RefuseExisting(r) \/ ReplayExisting(r) \/ Complete(r)
  <2>1. PICK r \in Requests : RefuseExisting(r) \/ ReplayExisting(r) \/ Complete(r)
    BY <1>5
  <2>2. req[r].pc \in {"lookup", "complete"}
    BY <2>1 DEF RefuseExisting, ReplayExisting, Complete
  <2>3. \E a : req' = [req EXCEPT ![r] = [req[r] EXCEPT !.pc = "replied", !.reply = a]]
    BY <2>1 DEF RefuseExisting, ReplayExisting, Complete, Reply
  <2> QED BY <1>1, <2>2, <2>3
<1>6. CASE \E r \in Requests : RunHandler(r)
  BY <1>1, <1>6 DEF RunHandler
<1>7. CASE \E r \in Requests : RunOpen(r)
  BY <1>1, <1>7 DEF RunOpen
<1>8. CASE UNCHANGED req
  BY <1>1, <1>8
<1> QED
  BY <1>2, <1>3, <1>4, <1>5, <1>6, <1>7, <1>8 DEF ServerNext, Serve, Expire, serverVars

\* What was given stays given.
LEMMA GivenStep ==
    ASSUME TypeOK, Phases, [ServerNext]_serverVars, NEW a, NEW k, NEW b, Given(a, k, b)
    PROVE  /\ a \in Answer /\ a.by \in Requests /\ req'[a.by].pc \in Finishing
           /\ req'[a.by].key = k /\ req'[a.by].body = b /\ req'[a.by].result = a.status
           /\ req'[a.by].ran = req[a.by].ran
<1>1. a \in Answer /\ a.by \in Requests /\ req[a.by].pc \in Finishing
  BY DEF Given
<1>2. Kept(a.by)
  BY <1>1, RequestStep
<1> QED BY <1>1, <1>2 DEF Kept, Given, Finishing

\* What a step makes of the entry of a key.
LEMMA EntryStep ==
    ASSUME IInv, [ServerNext]_serverVars, NEW k \in Keys
    PROVE  \/ entry'[k] = entry[k]
           \/ entry'[k] = None /\ expired'[k] # expired[k]
           \/ entry'[k] # None /\ entry'[k].state = "in_flight"
           \/ \E r \in Requests :
                 /\ req[r].pc = "complete" /\ req[r].key = k /\ req'[r].pc = "replied"
                 /\ entry'[k] = Finished(r)
<1>1. TypeOK /\ entry \in [Keys -> Entry \cup {None}]
  BY DEF IInv, TypeOK
<1>2. ASSUME NEW r \in Requests, Claim(r) \/ ClaimUnavailable(r)
      PROVE  entry'[k] = entry[k] \/ (entry'[k] # None /\ entry'[k].state = "in_flight")
  <2>1. req[r].pc # "idle"
    BY <1>2 DEF Claim, ClaimUnavailable
  <2>2. InFlight(r) # None /\ InFlight(r).state = "in_flight"
    BY <1>1, <2>1, Values DEF InFlight
  <2>3. entry' = entry \/ entry' = [entry EXCEPT ![req[r].key] = InFlight(r)]
    BY <1>2 DEF Claim, ClaimUnavailable
  <2> QED BY <1>1, <2>2, <2>3
<1>3. ASSUME NEW r \in Requests, Complete(r)
      PROVE  \/ entry'[k] = entry[k]
             \/ /\ req[r].pc = "complete" /\ req[r].key = k /\ req'[r].pc = "replied"
                /\ entry'[k] = Finished(r)
  <2>1. req'[r].pc = "replied"
    BY <1>1, <1>3, Typing DEF Complete, Reply, Request
  <2>2. entry' = entry \/ entry' = [entry EXCEPT ![req[r].key] = Finished(r)]
    BY <1>3 DEF Complete
  <2>3. req[r].pc = "complete"
    BY <1>3 DEF Complete
  <2> QED BY <1>1, <2>1, <2>2, <2>3
<1>4. ASSUME NEW j \in Keys, Expire(j)
      PROVE  \/ entry'[k] = entry[k]
             \/ entry'[k] = None /\ expired'[k] # expired[k]
  BY <1>1, <1>4 DEF Expire, TypeOK
<1>5. CASE UNCHANGED entry
  BY <1>5
<1> QED
  BY <1>2, <1>3, <1>4, <1>5 DEF ServerNext, Serve, Receive, ClaimTaken, RefuseExisting,
     ReplayExisting, LookupFails, RunHandler, RunOpen, serverVars

LEMMA StoredStep ==
    ASSUME IInv, [ServerNext]_serverVars
    PROVE  Stored'
<1>0. TypeOK /\ Phases /\ Stored
  BY DEF IInv
<1> SUFFICES ASSUME NEW k \in Keys, entry'[k] # None, entry'[k].state = "done"
             PROVE  /\ Given(entry[k].answer, k, entry[k].body)'
                    /\ req'[entry'[k].answer.by].ran = "claimed"
  BY DEF Stored
<1>1. CASE entry'[k] = entry[k]
  <2>1. Given(entry[k].answer, k, entry[k].body) /\ req[entry[k].answer.by].ran = "claimed"
    BY <1>0, <1>1 DEF Stored
  <2> QED BY <1>0, <1>1, <2>1, GivenStep DEF Given
<1>2. ASSUME NEW r \in Requests, req[r].pc = "complete", req[r].key = k,
             req'[r].pc = "replied", entry'[k] = Finished(r)
      PROVE  /\ Given(entry[k].answer, k, entry[k].body)'
             /\ req'[entry'[k].answer.by].ran = "claimed"
  <2>1. Kept(r) /\ req[r].ran = "claimed"
    BY <1>0, <1>2, RequestStep DEF Phases, InPhase
  <2>2. /\ entry'[k].body = req[r].body
        /\ entry'[k].answer = [status |-> req[r].result, by |-> r]
    BY <1>2 DEF Finished
  <2>3. [status |-> req[r].result, by |-> r] \in Answer
    BY <1>0, <1>2, Typing DEF Answer
  <2> QED BY <1>2, <2>1, <2>2, <2>3 DEF Given, Kept, Finishing
<1> QED BY <1>1, <1>2, EntryStep

\* The three ways to be answered by a handler.
LEMMA ReplyStep ==
    ASSUME TypeOK, Phases, [ServerNext]_serverVars, NEW q \in Requests,
           req[q].pc # "replied", HasAnswer(q)'
    PROVE  ReplayExisting(q) \/ RunOpen(q) \/ Complete(q)
<1>1. req[q] \in Request /\ req \in [Requests -> Request] /\ req[q].reply = None
  BY Typing DEF Phases, InPhase
<1>2. req'[q].reply # None /\ req'[q].reply.by # None
  BY DEF HasAnswer
<1>3. ASSUME NEW r \in Requests, r # q, Serve(r) PROVE req'[q] = req[q]
  <2>1. \E v : req' = [req EXCEPT ![r] = v]
    BY <1>3 DEF Serve, Claim, ClaimTaken, ClaimUnavailable, RefuseExisting, ReplayExisting,
       LookupFails, RunHandler, RunOpen, Complete, Start, Go, Reply
  <2> QED BY <1>1, <1>3, <2>1
<1>4. CASE Claim(q) \/ ClaimUnavailable(q) \/ LookupFails(q)
  <2>1. \E as : req' = [req EXCEPT ![q] = [req[q] EXCEPT !.pc = "run", !.ran = as]]
    BY <1>4 DEF Claim, ClaimUnavailable, LookupFails, Start
  <2> QED BY <1>1, <1>2, <2>1 DEF Request
<1>5. CASE ClaimTaken(q) \/ RunHandler(q)
  <2>1. req'[q].reply = req[q].reply
    <3>1. CASE ClaimTaken(q)
      BY <1>1, <3>1 DEF ClaimTaken, Go, Request
    <3>2. CASE RunHandler(q)
      BY <1>1, <3>2 DEF RunHandler, Request
    <3> QED BY <1>5, <3>1, <3>2
  <2> QED BY <1>1, <1>2, <2>1
<1>6. CASE RefuseExisting(q)
  BY <1>1, <1>2, <1>6 DEF RefuseExisting, Reply, Request
<1>7. CASE \E r \in Requests, k \in Keys, b \in Bodies : Receive(r, k, b)
  BY <1>1, <1>2, <1>7 DEF Receive, Request
<1>8. CASE UNCHANGED req
  BY <1>1, <1>2, <1>8
<1> QED
  BY <1>1, <1>2, <1>3, <1>4, <1>5, <1>6, <1>7, <1>8 DEF ServerNext, Serve, Expire, serverVars

LEMMA AnsweredStep ==
    ASSUME IInv, [ServerNext]_serverVars
    PROVE  Answered'
<1>0. TypeOK /\ Phases /\ Stored /\ Answered
  BY DEF IInv
<1> SUFFICES ASSUME NEW q \in Requests, HasAnswer(q)'
             PROVE  /\ Given(req[q].reply, req[q].key, req[q].body)'
                    /\ req'[q].ran # "open" => req'[req'[q].reply.by].ran = "claimed"
  BY DEF Answered
<1>1. Kept(q) /\ req[q] \in Request /\ req \in [Requests -> Request] /\ InPhase(q)
  BY <1>0, RequestStep, Typing DEF Phases
<1>2. CASE req[q].pc = "replied"
  <2>1. req'[q] = req[q] /\ HasAnswer(q)
    BY <1>1, <1>2 DEF Kept, HasAnswer
  <2>2. Given(req[q].reply, req[q].key, req[q].body)
    BY <1>0, <2>1 DEF Answered
  <2>3. req[q].ran # "open" => req[req[q].reply.by].ran = "claimed"
    BY <1>0, <2>1 DEF Answered
  <2> QED BY <1>0, <2>1, <2>2, <2>3, GivenStep DEF Given
<1>3. CASE ReplayExisting(q)
  <2> DEFINE k == req[q].key
             a == entry[k].answer
  <2>1. /\ k \in Keys /\ entry[k] # None /\ entry[k].state = "done"
        /\ entry[k].body = req[q].body
    BY <1>0, <1>3, Typing DEF ReplayExisting
  <2>2. Given(a, k, req[q].body) /\ req[a.by].ran = "claimed"
    BY <1>0, <2>1 DEF Stored
  <2>3. req'[q].reply = a /\ req'[q].key = k /\ req'[q].body = req[q].body
    BY <1>1, <1>3 DEF ReplayExisting, Reply, Request
  <2> HIDE DEF k, a
  <2> QED BY <1>0, <2>2, <2>3, GivenStep DEF Given
<1>4. CASE RunOpen(q)
  <2>1. PICK outcome \in Outcomes :
           req' = [req EXCEPT ![q] = [req[q] EXCEPT !.pc = "replied", !.result = outcome,
                                                    !.reply = [status |-> outcome, by |-> q]]]
    BY <1>4 DEF RunOpen
  <2>2. req[q].ran = "open"
    BY <1>4 DEF RunOpen
  <2> QED BY <1>1, <2>1, <2>2 DEF Given, Finishing, Answer, Request
<1>5. CASE Complete(q)
  <2>1. /\ req[q].pc = "complete" /\ req[q].ran = "claimed" /\ req[q].result \in Outcomes
    BY <1>0, <1>1, <1>5, Typing DEF Complete, InPhase
  <2>2. req' = [req EXCEPT ![q] = [req[q] EXCEPT !.pc = "replied",
                                                 !.reply = [status |-> req[q].result, by |-> q]]]
    BY <1>5 DEF Complete, Reply, Finished
  <2> QED BY <1>1, <2>1, <2>2 DEF Given, Finishing, Answer, Request
<1> QED BY <1>0, <1>2, <1>3, <1>4, <1>5, ReplyStep

-----------------------------------------------------------------------------

LEMMA ClaimantsFinite == \A k : IsFiniteSet(Claimants(k))
BY RequestsAssumption, FS_Subset DEF Claimants

\* Only Claim makes a claimant, and only of the key it claims.
LEMMA ClaimantsStep ==
    ASSUME IInv, [ServerNext]_serverVars, NEW k \in Keys
    PROVE  \/ Claimants(k)' = Claimants(k)
           \/ \E r \in Requests : /\ Claim(r) /\ req[r].key = k
                                   /\ Claimants(k)' = Claimants(k) \cup {r}
<1>0. TypeOK /\ Phases /\ req \in [Requests -> Request]
  BY DEF IInv, TypeOK
<1>1. ASSUME NEW r \in Requests, Claim(r)
      PROVE  IF req[r].key = k THEN Claimants(k)' = Claimants(k) \cup {r}
                               ELSE Claimants(k)' = Claimants(k)
  <2>1. req' = [req EXCEPT ![r] = [req[r] EXCEPT !.pc = "run", !.ran = "claimed"]]
    BY <1>1 DEF Claim, Start
  <2>2. req[r].ran = "no"
    BY <1>0, <1>1 DEF Claim, Phases, InPhase
  <2> QED BY <1>0, <2>1, <2>2 DEF Claimants, Request
<1>2. ASSUME NEW r \in Requests, NEW j \in Keys, NEW b \in Bodies, Receive(r, j, b)
      PROVE  Claimants(k)' = Claimants(k)
  <2>1. req[r].ran = "no"
    BY <1>0, <1>2 DEF Receive, Phases, InPhase
  <2> QED BY <1>0, <1>2, <2>1 DEF Receive, Claimants, Request
<1>3. ASSUME NEW r \in Requests, ClaimUnavailable(r) \/ LookupFails(r)
      PROVE  Claimants(k)' = Claimants(k)
  <2>1. req[r].ran = "no"
    BY <1>0, <1>3 DEF ClaimUnavailable, LookupFails, Phases, InPhase
  <2>2. req' = [req EXCEPT ![r] = [req[r] EXCEPT !.pc = "run", !.ran = "open"]]
    BY <1>3 DEF ClaimUnavailable, LookupFails, Start
  <2> QED BY <1>0, <2>1, <2>2 DEF Claimants, Request
<1>4. ASSUME NEW r \in Requests,
             \/ ClaimTaken(r) \/ RefuseExisting(r) \/ ReplayExisting(r)
             \/ Complete(r) \/ RunHandler(r) \/ RunOpen(r)
      PROVE  Claimants(k)' = Claimants(k)
  <2>1. \A q \in Requests : req'[q].key = req[q].key /\ req'[q].ran = req[q].ran
    <3>1. CASE ClaimTaken(r)
      BY <1>0, <3>1 DEF ClaimTaken, Go, Request
    <3>2. CASE RefuseExisting(r) \/ ReplayExisting(r) \/ Complete(r)
      <4>1. \E a : req' = [req EXCEPT ![r] = [req[r] EXCEPT !.pc = "replied", !.reply = a]]
        BY <3>2 DEF RefuseExisting, ReplayExisting, Complete, Reply
      <4> QED BY <1>0, <4>1 DEF Request
    <3>3. CASE RunHandler(r)
      BY <1>0, <3>3 DEF RunHandler, Request
    <3>4. CASE RunOpen(r)
      BY <1>0, <3>4 DEF RunOpen, Request
    <3> QED BY <1>4, <3>1, <3>2, <3>3, <3>4
  <2> QED BY <2>1 DEF Claimants
<1>5. CASE UNCHANGED req
  BY <1>5 DEF Claimants
<1> QED BY <1>1, <1>2, <1>3, <1>4, <1>5 DEF ServerNext, Serve, Expire, serverVars

\* An entry is given up only to an expiry.
LEMMA OwnedStep ==
    ASSUME IInv, [ServerNext]_serverVars, NEW k \in Keys
    PROVE  /\ expired'[k] \in Nat /\ expired[k] \in Nat
           /\ expired'[k] + Owned(k)' >= expired[k] + Owned(k)
<1>1. TypeOK /\ entry \in [Keys -> Entry \cup {None}] /\ expired \in [Keys -> Nat]
  BY DEF IInv, TypeOK
<1> USE DEF Owned
<1>2. CASE \E r \in Requests : Claim(r) \/ ClaimUnavailable(r) \/ Complete(r)
  <2>1. expired' = expired
    BY <1>2 DEF Claim, ClaimUnavailable, Complete
  <2>2. entry[k] # None => entry'[k] # None
    BY <1>1, <1>2, <2>1, EntryStep, Values
  <2> QED BY <1>1, <2>1, <2>2
<1>3. CASE \E j \in Keys : Expire(j)
  BY <1>1, <1>3 DEF Expire
<1>4. CASE UNCHANGED <<entry, expired>>
  BY <1>1, <1>4
<1> QED
  BY <1>2, <1>3, <1>4 DEF ServerNext, Serve, Receive, ClaimTaken, RefuseExisting,
     ReplayExisting, LookupFails, RunHandler, RunOpen, serverVars

LEMMA CountedStep ==
    ASSUME IInv, [ServerNext]_serverVars
    PROVE  Counted'
<1>1. TypeOK /\ Counted
  BY DEF IInv
<1> SUFFICES ASSUME NEW k \in Keys
             PROVE  Cardinality(Claimants(k)') <= expired'[k] + Owned(k)'
  BY DEF Counted
<1>2. Cardinality(Claimants(k)) \in Nat /\ Cardinality(Claimants(k)) <= expired[k] + Owned(k)
  BY <1>1, ClaimantsFinite, FS_CardinalityType DEF Counted
<1>3. CASE Claimants(k)' = Claimants(k)
  BY <1>2, <1>3, OwnedStep DEF Owned
<1>4. ASSUME NEW r \in Requests, Claim(r), req[r].key = k,
             Claimants(k)' = Claimants(k) \cup {r}
      PROVE  Cardinality(Claimants(k)') <= expired'[k] + Owned(k)'
  <2>1. Cardinality(Claimants(k)') <= Cardinality(Claimants(k)) + 1
    <3>1. IsFiniteSet(Claimants(k))
      BY ClaimantsFinite
    <3>2. Cardinality(Claimants(k) \cup {r})
            = IF r \in Claimants(k) THEN Cardinality(Claimants(k))
                                    ELSE Cardinality(Claimants(k)) + 1
      BY <3>1, FS_AddElement, Zenon
    <3> QED BY <1>2, <1>4, <3>2
  <2>2. Owned(k) = 0 /\ expired' = expired /\ entry' = [entry EXCEPT ![k] = InFlight(r)]
    BY <1>4 DEF Claim, Owned
  <2>3. entry'[k] # None
    <3>1. InFlight(r) # None
      BY <1>1, <1>4, Values DEF Claim
    <3> QED BY <1>1, <2>2, <3>1, Typing
  <2>4. Owned(k)' = 1 /\ expired[k] \in Nat
    BY <1>1, <2>3 DEF Owned, TypeOK
  <2>5. Cardinality(Claimants(k)') \in Nat
    BY <1>4, ClaimantsFinite, FS_AddElement, FS_CardinalityType
  <2> QED BY <1>2, <2>1, <2>2, <2>4, <2>5
<1> QED BY <1>3, <1>4, ClaimantsStep

-----------------------------------------------------------------------------

LEMMA InductiveStep == IInv /\ [ServerNext]_serverVars => IInv'
<1> SUFFICES ASSUME IInv, [ServerNext]_serverVars PROVE IInv'
  OBVIOUS
<1>1. TypeOK /\ Phases
  BY DEF IInv
<1>2. Phases'
  BY <1>1, RequestStep DEF Phases
<1> QED BY <1>2, TypeStep, StoredStep, AnsweredStep, CountedStep DEF IInv

\* The inductive invariant, for any client of the middleware.
LEMMA Inductive == ServerSpec => []IInv
BY InitIInv, InductiveStep, PTL DEF ServerSpec

\* A handler runs under the protection of a key at most once more than the
\* key's entry has expired, whichever requests race, die or complete late
\* (IdempotencyMiddleware.__call__, RedisIdempotencyStore.set_if_absent).
THEOREM HandlersRunOncePerClaim == ServerSpec => []RunsAreExpiries
<1>1. ASSUME IInv PROVE RunsAreExpiries
  <2>1. \A k \in Keys : /\ Cardinality(Claimants(k)) \in Nat /\ expired[k] \in Nat
                         /\ Cardinality(Claimants(k)) <= expired[k] + Owned(k)
                         /\ Owned(k) \in {0, 1}
    BY <1>1, ClaimantsFinite, FS_CardinalityType DEF IInv, TypeOK, Counted, Owned
  <2> QED BY <2>1 DEF RunsAreExpiries
<1> QED BY <1>1, Inductive, PTL

\* Every answer that was not refused or lost is what a handler gave for the same
\* key and body, with the same status (_handle_existing, _send_cached_response).
THEOREM AnswersComeFromTheirHandlers == ServerSpec => []AnswersAreGenuine
<1>1. ASSUME IInv PROVE AnswersAreGenuine
  BY <1>1 DEF IInv, Answered, Given, AnswersAreGenuine
<1> QED BY <1>1, Inductive, PTL

\* Until the entry of a key expires, every request under the key that does not
\* fail open gets the answer of one and the same handler.
THEOREM OneHandlerAnswers == ServerSpec => []OneAnswerPerKey
<1>1. ASSUME IInv PROVE OneAnswerPerKey
  <2> SUFFICES ASSUME NEW r \in Requests, NEW q \in Requests,
                      req[r].key = req[q].key, HasAnswer(r), HasAnswer(q),
                      req[r].ran # "open", req[q].ran # "open", expired[req[r].key] = 0,
                      req[r].reply.by # req[q].reply.by
               PROVE  FALSE
    BY DEF OneAnswerPerKey
  <2> DEFINE k == req[r].key
             a == req[r].reply.by
             b == req[q].reply.by
  <2>1. k \in Keys
    BY <1>1, Typing DEF IInv, Phases, InPhase, HasAnswer
  <2>2. a \in Claimants(k) /\ b \in Claimants(k)
    BY <1>1 DEF IInv, Answered, Given, Claimants
  <2>3. Cardinality(Claimants(k)) <= 1 /\ IsFiniteSet(Claimants(k))
    <3>1. Cardinality(Claimants(k)) <= expired[k] + Owned(k)
      BY <1>1, <2>1 DEF IInv, Counted
    <3>2. expired[k] = 0 /\ Owned(k) \in {0, 1}
      BY DEF Owned
    <3>3. IsFiniteSet(Claimants(k))
      BY ClaimantsFinite
    <3>4. Cardinality(Claimants(k)) \in Nat
      BY <3>3, FS_CardinalityType
    <3> HIDE DEF k
    <3> QED BY <3>1, <3>2, <3>3, <3>4
  <2>4. Cardinality({a} \cup {b}) = 2
    <3>1. IsFiniteSet({a}) /\ Cardinality({a}) = 1 /\ b \notin {a}
      BY FS_Singleton
    <3> HIDE DEF a, b
    <3>2. Cardinality({a} \cup {b})
            = IF b \in {a} THEN Cardinality({a}) ELSE Cardinality({a}) + 1
      BY <3>1, FS_AddElement, Zenon
    <3> QED BY <3>1, <3>2
  <2>5. Cardinality({a} \cup {b}) <= Cardinality(Claimants(k))
    BY <2>2, <2>3, FS_Subset
  <2>6. Cardinality(Claimants(k)) \in Nat
    BY <2>3, FS_CardinalityType
  <2> HIDE DEF k, a, b
  <2> QED BY <2>3, <2>4, <2>5, <2>6
<1> QED BY <1>1, Inductive, PTL

-----------------------------------------------------------------------------

(* The middleware implements IdempotencyContract. *)

keyOf      == [r \in Requests |-> req[r].key]
bodyOf     == [r \in Requests |-> req[r].body]
executedOf == [r \in Requests |-> req[r].ran]
outcomeOf  == [r \in Requests |-> req[r].result]
answerOf   == [r \in Requests |-> req[r].reply]
takenKeys  == {k \in Keys : entry[k] # None}

\* A request asks for nothing before it is sent, and its execution has come to
\* nothing before it is over.
Undecided ==
    \A r \in Requests : /\ req[r].pc = "idle" => req[r].key = None
                        /\ req[r].pc \in {"idle", "claim", "lookup", "run"} =>
                              req[r].result = None

DInv == IInv /\ Undecided

LEMMA InitDInv == ServerInit => DInv
BY InitIInv DEF DInv, ServerInit, NotSent, Undecided

LEMMA UndecidedStep == ASSUME DInv, [ServerNext]_serverVars PROVE Undecided'
<1>0. TypeOK /\ Undecided
  BY DEF DInv, IInv
<1> SUFFICES ASSUME NEW q \in Requests
             PROVE  /\ req'[q].pc = "idle" => req'[q].key = None
                    /\ req'[q].pc \in {"idle", "claim", "lookup", "run"} =>
                          req'[q].result = None
  BY DEF Undecided
<1>1. req[q] \in Request /\ req \in [Requests -> Request]
  BY <1>0, Typing
<1>2. /\ req[q].pc = "idle" => req[q].key = None
      /\ req[q].pc \in {"idle", "claim", "lookup", "run"} => req[q].result = None
  BY <1>0 DEF Undecided
<1> USE DEF Request
<1>3. CASE \E r \in Requests, k \in Keys, b \in Bodies : Receive(r, k, b)
  BY <1>1, <1>2, <1>3 DEF Receive
<1>4. CASE \E r \in Requests : Claim(r) \/ ClaimUnavailable(r) \/ LookupFails(r)
  <2>1. PICK r \in Requests, as \in {"claimed", "open"} :
           /\ req[r].pc \in {"claim", "lookup"}
           /\ req' = [req EXCEPT ![r] = [req[r] EXCEPT !.pc = "run", !.ran = as]]
    BY <1>4 DEF Claim, ClaimUnavailable, LookupFails, Start
  <2> QED BY <1>1, <1>2, <2>1
<1>5. CASE \E r \in Requests : ClaimTaken(r)
  BY <1>1, <1>2, <1>5 DEF ClaimTaken, Go
<1>6. CASE \E r \in Requests : RefuseExisting(r) \/ ReplayExisting(r) \/ Complete(r)
  <2>1. PICK r \in Requests : \E a :
           req' = [req EXCEPT ![r] = [req[r] EXCEPT !.pc = "replied", !.reply = a]]
    BY <1>6 DEF RefuseExisting, ReplayExisting, Complete, Reply
  <2> QED BY <1>1, <1>2, <2>1
<1>7. CASE \E r \in Requests : RunHandler(r)
  BY <1>1, <1>2, <1>7 DEF RunHandler
<1>8. CASE \E r \in Requests : RunOpen(r)
  BY <1>1, <1>2, <1>8 DEF RunOpen
<1>9. CASE UNCHANGED req
  BY <1>2, <1>9
<1> QED
  BY <1>3, <1>4, <1>5, <1>6, <1>7, <1>8, <1>9 DEF ServerNext, Serve, Expire, serverVars

\* What becoming q makes of the contract's view of request r.
LEMMA ViewOf ==
    ASSUME req \in [Requests -> Request], NEW r \in Requests, NEW q,
           req' = [req EXCEPT ![r] = q]
    PROVE  /\ keyOf' = [keyOf EXCEPT ![r] = q.key]
           /\ bodyOf' = [bodyOf EXCEPT ![r] = q.body]
           /\ executedOf' = [executedOf EXCEPT ![r] = q.ran]
           /\ outcomeOf' = [outcomeOf EXCEPT ![r] = q.result]
           /\ answerOf' = [answerOf EXCEPT ![r] = q.reply]
           /\ q.key = req[r].key => keyOf' = keyOf
           /\ q.body = req[r].body => bodyOf' = bodyOf
           /\ q.ran = req[r].ran => executedOf' = executedOf
           /\ q.result = req[r].result => outcomeOf' = outcomeOf
           /\ q.reply = req[r].reply => answerOf' = answerOf
<1> USE DEF keyOf, bodyOf, executedOf, outcomeOf, answerOf
<1>1. keyOf' = [keyOf EXCEPT ![r] = q.key] /\ bodyOf' = [bodyOf EXCEPT ![r] = q.body]
  OBVIOUS
<1>2. executedOf' = [executedOf EXCEPT ![r] = q.ran]
  OBVIOUS
<1>3. outcomeOf' = [outcomeOf EXCEPT ![r] = q.result]
  OBVIOUS
<1>4. answerOf' = [answerOf EXCEPT ![r] = q.reply]
  OBVIOUS
<1>5. /\ q.key = req[r].key => keyOf' = keyOf
      /\ q.body = req[r].body => bodyOf' = bodyOf
  OBVIOUS
<1>6. q.ran = req[r].ran => executedOf' = executedOf
  OBVIOUS
<1>7. q.result = req[r].result => outcomeOf' = outcomeOf
  OBVIOUS
<1>8. q.reply = req[r].reply => answerOf' = answerOf
  OBVIOUS
<1> QED BY <1>1, <1>2, <1>3, <1>4, <1>5, <1>6, <1>7, <1>8

\* A key is taken as long as it has an entry.
LEMMA TakenStep ==
    ASSUME TypeOK, NEW k \in Keys, NEW v, v # None, entry' = [entry EXCEPT ![k] = v]
    PROVE  takenKeys' = takenKeys \cup {k}
<1>1. entry \in [Keys -> Entry \cup {None}]
  BY DEF TypeOK
<1> QED BY <1>1 DEF takenKeys

LEMMA InitOfContract == ServerInit => Contract!Init
BY DEF ServerInit, NotSent, Contract!Init

LEMMA StepOfContract ==
    ASSUME DInv, [ServerNext]_serverVars
    PROVE  [Contract!Next]_(Contract!contractVars)
<1>0. TypeOK /\ Phases /\ Stored /\ Undecided /\ req \in [Requests -> Request]
  BY DEF DInv, IInv, TypeOK
<1>1. CASE UNCHANGED serverVars
  BY <1>1 DEF serverVars, Contract!contractVars
<1>2. ASSUME NEW r \in Requests, NEW k \in Keys, NEW b \in Bodies, Receive(r, k, b)
      PROVE  Contract!Next
  <2>1. PICK q : q = [req[r] EXCEPT !.pc = "claim", !.key = k, !.body = b]
    OBVIOUS
  <2>2. req' = [req EXCEPT ![r] = q] /\ entry' = entry /\ req[r].pc = "idle"
    BY <1>2, <2>1 DEF Receive
  <2>3. /\ q.key = k /\ q.body = b /\ q.ran = req[r].ran /\ q.result = req[r].result
        /\ q.reply = req[r].reply /\ req[r].key = None
    BY <1>0, <2>1, <2>2 DEF Request, Undecided
  <2>4. /\ keyOf' = [keyOf EXCEPT ![r] = k] /\ bodyOf' = [bodyOf EXCEPT ![r] = b]
        /\ executedOf' = executedOf /\ outcomeOf' = outcomeOf /\ answerOf' = answerOf
    BY <1>0, <2>2, <2>3, ViewOf
  <2>5. keyOf[r] = None /\ takenKeys' = takenKeys
    BY <2>2, <2>3 DEF keyOf, takenKeys
  <2>6. Contract!Ask(r)
    BY <2>4, <2>5 DEF Contract!Ask, keyOf, bodyOf, executedOf, outcomeOf, answerOf, takenKeys
  <2> QED BY <2>6 DEF Contract!Next
<1>3. ASSUME NEW r \in Requests, req[r].pc \in {"claim", "lookup"}
      PROVE  /\ Contract!Waiting(r) /\ req[r].key \in Keys /\ req[r].ran = "no"
             /\ req[r].result = None /\ req[r].reply = None
  <2>1. req[r].key \in Keys /\ req[r].ran = "no" /\ req[r].reply = None
    BY <1>0, <1>3, Typing DEF Phases, InPhase
  <2>2. req[r].result = None
    BY <1>0, <1>3 DEF Undecided
  <2> QED BY <2>1, <2>2, NoneAssumption DEF Contract!Waiting
<1>4. ASSUME NEW r \in Requests, Claim(r) PROVE Contract!Next
  <2>1. PICK q : q = [req[r] EXCEPT !.pc = "run", !.ran = "claimed"]
    OBVIOUS
  <2>2. /\ req' = [req EXCEPT ![r] = q] /\ entry' = [entry EXCEPT ![req[r].key] = InFlight(r)]
        /\ req[r].pc = "claim" /\ entry[req[r].key] = None
    BY <1>4, <2>1 DEF Claim, Start
  <2>3. /\ q.ran = "claimed" /\ q.key = req[r].key /\ q.body = req[r].body
        /\ q.result = req[r].result /\ q.reply = req[r].reply
    BY <1>0, <2>1 DEF Request
  <2>4. /\ executedOf' = [executedOf EXCEPT ![r] = "claimed"]
        /\ keyOf' = keyOf /\ bodyOf' = bodyOf /\ outcomeOf' = outcomeOf /\ answerOf' = answerOf
    <3>1. executedOf' = [executedOf EXCEPT ![r] = q.ran]
      BY <1>0, <2>2, ViewOf
    <3>2. keyOf' = keyOf /\ bodyOf' = bodyOf /\ outcomeOf' = outcomeOf /\ answerOf' = answerOf
      BY <1>0, <2>2, <2>3, ViewOf
    <3> QED BY <2>3, <3>1, <3>2
  <2>5. Contract!Waiting(r) /\ req[r].key \in Keys /\ keyOf[r] = req[r].key
    BY <1>3, <2>2 DEF keyOf
  <2>6. takenKeys' = takenKeys \cup {keyOf[r]} /\ keyOf[r] \notin takenKeys
    <3>1. InFlight(r) # None
      BY <1>0, <2>2, Values
    <3>2. keyOf[r] \notin takenKeys
      BY <2>2, <2>5 DEF takenKeys
    <3> QED BY <1>0, <2>2, <2>5, <3>1, <3>2, TakenStep
  <2>7. Contract!Execute(r)
    BY <2>4, <2>6 DEF Contract!Execute, keyOf, bodyOf, executedOf, outcomeOf, answerOf, takenKeys
  <2> QED BY <2>5, <2>7 DEF Contract!Next
<1>5. ASSUME NEW r \in Requests, ClaimUnavailable(r) \/ LookupFails(r)
      PROVE  Contract!Next
  <2>1. PICK q : q = [req[r] EXCEPT !.pc = "run", !.ran = "open"]
    OBVIOUS
  <2>2. /\ req' = [req EXCEPT ![r] = q] /\ req[r].pc \in {"claim", "lookup"}
        /\ entry' = entry \/ entry' = [entry EXCEPT ![req[r].key] = InFlight(r)]
    BY <1>5, <2>1 DEF ClaimUnavailable, LookupFails, Start
  <2>3. /\ q.ran = "open" /\ q.key = req[r].key /\ q.body = req[r].body
        /\ q.result = req[r].result /\ q.reply = req[r].reply
    BY <1>0, <2>1 DEF Request
  <2>4. /\ executedOf' = [executedOf EXCEPT ![r] = "open"]
        /\ keyOf' = keyOf /\ bodyOf' = bodyOf /\ outcomeOf' = outcomeOf /\ answerOf' = answerOf
    <3>1. executedOf' = [executedOf EXCEPT ![r] = q.ran]
      BY <1>0, <2>2, ViewOf
    <3>2. keyOf' = keyOf /\ bodyOf' = bodyOf /\ outcomeOf' = outcomeOf /\ answerOf' = answerOf
      BY <1>0, <2>2, <2>3, ViewOf
    <3> QED BY <2>3, <3>1, <3>2
  <2>5. Contract!Waiting(r) /\ req[r].key \in Keys /\ keyOf[r] = req[r].key
    BY <1>3, <2>2 DEF keyOf
  <2>6. takenKeys' \in {takenKeys, takenKeys \cup {keyOf[r]}}
    <3>1. InFlight(r) # None
      BY <1>0, <2>2, Values
    <3>2. CASE entry' = entry
      BY <3>2 DEF takenKeys
    <3>3. CASE entry' = [entry EXCEPT ![req[r].key] = InFlight(r)]
      BY <1>0, <2>5, <3>1, <3>3, TakenStep
    <3> QED BY <2>2, <3>2, <3>3
  <2>7. Contract!ExecuteUnprotected(r)
    BY <2>4, <2>6 DEF Contract!ExecuteUnprotected, keyOf, bodyOf, executedOf, outcomeOf,
       answerOf, takenKeys
  <2> QED BY <2>5, <2>7 DEF Contract!Next
<1>6. ASSUME NEW r \in Requests, ClaimTaken(r)
      PROVE  UNCHANGED Contract!contractVars
  <2>1. PICK pc : req' = [req EXCEPT ![r].pc = pc]
    BY <1>6 DEF ClaimTaken, Go
  <2>2. PICK q : q = [req[r] EXCEPT !.pc = pc]
    OBVIOUS
  <2>3. req' = [req EXCEPT ![r] = q] /\ entry' = entry
    BY <1>6, <2>1, <2>2 DEF ClaimTaken
  <2>4. /\ q.ran = req[r].ran /\ q.key = req[r].key /\ q.body = req[r].body
        /\ q.result = req[r].result /\ q.reply = req[r].reply
    BY <1>0, <2>2 DEF Request
  <2>5. /\ keyOf' = keyOf /\ bodyOf' = bodyOf /\ executedOf' = executedOf
        /\ outcomeOf' = outcomeOf /\ answerOf' = answerOf /\ takenKeys' = takenKeys
    BY <1>0, <2>3, <2>4, ViewOf DEF takenKeys
  <2> QED BY <2>5 DEF Contract!contractVars, keyOf, bodyOf, executedOf, outcomeOf, answerOf,
             takenKeys
<1>7. ASSUME NEW r \in Requests, RefuseExisting(r) \/ ReplayExisting(r) PROVE Contract!Next
  <2>1. PICK a : /\ a = [status |-> "final", by |-> None] \/ a = entry[req[r].key].answer
                 /\ RefuseExisting(r) => a = [status |-> "final", by |-> None]
                 /\ ReplayExisting(r) => a = entry[req[r].key].answer
                 /\ req' = [req EXCEPT ![r] = [req[r] EXCEPT !.pc = "replied", !.reply = a]]
    <3>1. CASE RefuseExisting(r)
      <4>1. ~ReplayExisting(r)
        BY <3>1 DEF RefuseExisting, ReplayExisting
      <4> QED BY <3>1, <4>1 DEF RefuseExisting, Reply
    <3>2. CASE ReplayExisting(r)
      <4>1. ~RefuseExisting(r)
        BY <3>2 DEF RefuseExisting, ReplayExisting
      <4> QED BY <3>2, <4>1 DEF ReplayExisting, Reply
    <3> QED BY <1>7, <3>1, <3>2
  <2>2. PICK q : q = [req[r] EXCEPT !.pc = "replied", !.reply = a]
    OBVIOUS
  <2>3. /\ req' = [req EXCEPT ![r] = q] /\ entry' = entry
        /\ req[r].pc = "lookup" /\ entry[req[r].key] # None
    BY <1>7, <2>1, <2>2 DEF RefuseExisting, ReplayExisting
  <2>4. /\ q.reply = a /\ q.key = req[r].key /\ q.body = req[r].body
        /\ q.ran = req[r].ran /\ q.result = req[r].result
    BY <1>0, <2>2 DEF Request
  <2>5. /\ answerOf' = [answerOf EXCEPT ![r] = a]
        /\ keyOf' = keyOf /\ bodyOf' = bodyOf /\ executedOf' = executedOf
        /\ outcomeOf' = outcomeOf /\ takenKeys' = takenKeys
    BY <1>0, <2>3, <2>4, ViewOf DEF takenKeys
  <2>6. Contract!Waiting(r) /\ req[r].key \in Keys /\ keyOf[r] = req[r].key
    BY <1>3, <2>3 DEF keyOf
  <2>7. keyOf[r] \in takenKeys
    BY <2>3, <2>6 DEF takenKeys
  <2>8. CASE RefuseExisting(r)
    <3>1. Contract!Refuse(r)
      BY <2>1, <2>5, <2>7, <2>8 DEF Contract!Refuse, Contract!Send, keyOf, bodyOf, executedOf,
         outcomeOf, answerOf, takenKeys
    <3> QED BY <2>6, <3>1 DEF Contract!Next
  <2>9. CASE ReplayExisting(r)
    <3>1. /\ entry[req[r].key].state = "done" /\ entry[req[r].key].body = req[r].body
          /\ a = entry[req[r].key].answer
      BY <2>1, <2>9 DEF ReplayExisting
    <3>2. Given(a, req[r].key, req[r].body) /\ req[a.by].ran = "claimed"
      BY <1>0, <2>3, <2>6, <3>1 DEF Stored
    <3>3. PICK p \in Requests : p = a.by
      BY <3>2 DEF Given
    <3>4. /\ req[p].key = req[r].key /\ req[p].body = req[r].body /\ req[p].ran = "claimed"
          /\ req[p].result \in Outcomes /\ a = [status |-> req[p].result, by |-> p]
      BY <3>2, <3>3 DEF Given, Answer
    <3>5. /\ keyOf[p] = keyOf[r] /\ bodyOf[p] = bodyOf[r] /\ executedOf[p] = "claimed"
          /\ outcomeOf[p] \in Outcomes /\ a = [status |-> outcomeOf[p], by |-> p]
      BY <3>4 DEF keyOf, bodyOf, executedOf, outcomeOf
    <3>6. Contract!Repeat(r)
      BY <2>5, <2>7, <3>5 DEF Contract!Repeat, Contract!Send, keyOf, bodyOf, executedOf,
         outcomeOf, answerOf, takenKeys
    <3> QED BY <2>6, <3>6 DEF Contract!Next
  <2> QED BY <1>7, <2>8, <2>9
<1>8. ASSUME NEW r \in Requests, RunHandler(r) PROVE Contract!Next
  <2>1. PICK o \in Outcomes :
           req' = [req EXCEPT ![r] = [req[r] EXCEPT !.pc = "complete", !.result = o]]
    BY <1>8 DEF RunHandler
  <2>2. PICK q : q = [req[r] EXCEPT !.pc = "complete", !.result = o]
    OBVIOUS
  <2>3. /\ req' = [req EXCEPT ![r] = q] /\ entry' = entry
        /\ req[r].pc = "run" /\ req[r].ran = "claimed" /\ req[r].result = None
    BY <1>0, <1>8, <2>1, <2>2 DEF RunHandler, Undecided
  <2>4. /\ q.result = o /\ q.key = req[r].key /\ q.body = req[r].body
        /\ q.ran = req[r].ran /\ q.reply = req[r].reply
    BY <1>0, <2>2 DEF Request
  <2>5. /\ outcomeOf' = [outcomeOf EXCEPT ![r] = o]
        /\ keyOf' = keyOf /\ bodyOf' = bodyOf /\ executedOf' = executedOf
        /\ answerOf' = answerOf /\ takenKeys' = takenKeys
    BY <1>0, <2>3, <2>4, ViewOf DEF takenKeys
  <2>6. executedOf[r] = "claimed" /\ outcomeOf[r] = None
    BY <2>3 DEF executedOf, outcomeOf
  <2>7. Contract!Finish(r)
    BY <2>5, <2>6 DEF Contract!Finish, keyOf, bodyOf, executedOf, outcomeOf, answerOf, takenKeys
  <2> QED BY <2>7 DEF Contract!Next
<1>9. ASSUME NEW r \in Requests, RunOpen(r) PROVE Contract!Next
  <2>1. PICK o \in Outcomes :
           req' = [req EXCEPT ![r] = [req[r] EXCEPT !.pc = "replied", !.result = o,
                                                    !.reply = [status |-> o, by |-> r]]]
    BY <1>9 DEF RunOpen
  <2>2. PICK q : q = [req[r] EXCEPT !.pc = "replied", !.result = o,
                                    !.reply = [status |-> o, by |-> r]]
    OBVIOUS
  <2>3. /\ req' = [req EXCEPT ![r] = q] /\ entry' = entry
        /\ req[r].pc = "run" /\ req[r].ran = "open" /\ req[r].result = None
        /\ req[r].reply = None
    BY <1>0, <1>9, <2>1, <2>2 DEF RunOpen, Undecided, Phases, InPhase
  <2>4. /\ q.result = o /\ q.key = req[r].key /\ q.body = req[r].body
        /\ q.ran = req[r].ran /\ q.reply = [status |-> o, by |-> r]
    BY <1>0, <2>2 DEF Request
  <2>5. /\ outcomeOf' = [outcomeOf EXCEPT ![r] = o]
        /\ answerOf' = [answerOf EXCEPT ![r] = [status |-> o, by |-> r]]
        /\ keyOf' = keyOf /\ bodyOf' = bodyOf /\ executedOf' = executedOf
        /\ takenKeys' = takenKeys
    <3>1. /\ outcomeOf' = [outcomeOf EXCEPT ![r] = q.result]
          /\ answerOf' = [answerOf EXCEPT ![r] = q.reply]
      BY <1>0, <2>3, ViewOf
    <3>2. keyOf' = keyOf /\ bodyOf' = bodyOf /\ executedOf' = executedOf
      BY <1>0, <2>3, <2>4, ViewOf
    <3>3. takenKeys' = takenKeys
      BY <2>3 DEF takenKeys
    <3> QED BY <2>4, <3>1, <3>2, <3>3
  <2>6. executedOf[r] = "open" /\ outcomeOf[r] = None /\ answerOf[r] = None
    BY <2>3 DEF executedOf, outcomeOf, answerOf
  <2>7. Contract!FinishUnprotected(r)
    BY <2>5, <2>6 DEF Contract!FinishUnprotected, Contract!Send, keyOf, bodyOf, executedOf,
       outcomeOf, answerOf, takenKeys
  <2> QED BY <2>7 DEF Contract!Next
<1>10. ASSUME NEW r \in Requests, Complete(r) PROVE Contract!Next
  <2>1. PICK q : q = [req[r] EXCEPT !.pc = "replied",
                                    !.reply = [status |-> req[r].result, by |-> r]]
    OBVIOUS
  <2>2. /\ req' = [req EXCEPT ![r] = q] /\ req[r].pc = "complete"
        /\ entry' = entry \/ entry' = [entry EXCEPT ![req[r].key] = Finished(r)]
    BY <1>10, <2>1 DEF Complete, Reply, Finished
  <2>3. /\ req[r].ran = "claimed" /\ req[r].reply = None /\ req[r].result \in Outcomes
        /\ req[r].key \in Keys
    BY <1>0, <2>2, Typing DEF Phases, InPhase
  <2>4. /\ q.reply = [status |-> req[r].result, by |-> r] /\ q.key = req[r].key
        /\ q.body = req[r].body /\ q.ran = req[r].ran /\ q.result = req[r].result
    BY <1>0, <2>1 DEF Request
  <2>5. /\ answerOf' = [answerOf EXCEPT ![r] = [status |-> outcomeOf[r], by |-> r]]
        /\ keyOf' = keyOf /\ bodyOf' = bodyOf /\ executedOf' = executedOf
        /\ outcomeOf' = outcomeOf
    <3>1. outcomeOf[r] = req[r].result
      BY DEF outcomeOf
    <3>2. answerOf' = [answerOf EXCEPT ![r] = q.reply]
      BY <1>0, <2>2, ViewOf
    <3>3. keyOf' = keyOf /\ bodyOf' = bodyOf /\ executedOf' = executedOf /\ outcomeOf' = outcomeOf
      BY <1>0, <2>2, <2>4, ViewOf
    <3> QED BY <2>4, <3>1, <3>2, <3>3
  <2>6. /\ executedOf[r] = "claimed" /\ outcomeOf[r] \in Outcomes /\ answerOf[r] = None
        /\ keyOf[r] = req[r].key
    BY <2>3 DEF executedOf, outcomeOf, answerOf, keyOf
  <2>7. takenKeys' \in {takenKeys, takenKeys \cup {keyOf[r]}}
    <3>1. Finished(r) # None
      BY <1>0, <2>2, Values
    <3>2. CASE entry' = entry
      BY <3>2 DEF takenKeys
    <3>3. CASE entry' = [entry EXCEPT ![req[r].key] = Finished(r)]
      BY <1>0, <2>3, <2>6, <3>1, <3>3, TakenStep
    <3> QED BY <2>2, <3>2, <3>3
  <2>8. Contract!AnswerOwn(r)
    BY <2>5, <2>6, <2>7 DEF Contract!AnswerOwn, Contract!Send, keyOf, bodyOf, executedOf,
       outcomeOf, answerOf, takenKeys
  <2> QED BY <2>8 DEF Contract!Next
<1>11. ASSUME NEW k \in Keys, Expire(k) PROVE Contract!Next
  <2>1. req' = req /\ entry' = [entry EXCEPT ![k] = None]
    BY <1>11 DEF Expire
  <2>2. takenKeys' \subseteq takenKeys
    BY <1>0, <2>1 DEF takenKeys, TypeOK
  <2>3. Contract!Expire
    BY <2>1, <2>2 DEF Contract!Expire, takenKeys
  <2> QED BY <2>3 DEF Contract!Next
<1> QED
  BY <1>1, <1>2, <1>4, <1>5, <1>6, <1>7, <1>8, <1>9, <1>10, <1>11 DEF ServerNext, Serve

\* IdempotencyMiddleware keeps the promise of IdempotencyContract to any client:
\* whatever expires, dies or completes late, a request is executed once at most,
\* without protection or when its key has no entry; its answer is its own, or that of
\* an execution of the same key and body; and one that is refused never ran.
THEOREM MiddlewareImplements == ServerSpec => ImplementsContract
<1>1. DInv /\ [ServerNext]_serverVars => DInv'
  BY InductiveStep, UndecidedStep DEF DInv
<1>2. DInv /\ [ServerNext]_serverVars => [Contract!Next]_(Contract!contractVars)
  BY StepOfContract
<1> QED BY InitDInv, InitOfContract, <1>1, <1>2, PTL DEF ServerSpec, ImplementsContract, Contract!Spec
=============================================================================
