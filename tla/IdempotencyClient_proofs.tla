---------------------- MODULE IdempotencyClient_proofs ----------------------
(***************************************************************************)
(* The web client is one of the clients the middleware is proved for, so   *)
(* what holds for every client holds end to end.  And the client sends no  *)
(* more UUIDs from a record than it has lost, each from so many addresses, *)
(* which bounds how often the handler of a submission runs.                *)
(***************************************************************************)
EXTENDS IdempotencyClient, Idempotency_proofs

\* A call that has begun has a key and a body to send.
Began == \A r \in Requests : call[r].pc # "idle" =>
            call[r].key \in Uuids /\ call[r].body \in Bodies

CInv == IInv /\ ClientTypeOK /\ Began

LEMMA InitCInv == Init => CInv
<1> SUFFICES ASSUME Init PROVE CInv
  OBVIOUS
<1>1. IInv
  BY InitIInv DEF Init
<1>2. ClientTypeOK /\ Began
  BY <1>1 DEF Init, ClientTypeOK, Began, IInv, NoCall, Call
<1> QED BY <1>1, <1>2 DEF CInv

\* Each step of client and middleware together is a step of the middleware
\* with some client, or leaves the middleware alone.
LEMMA ServerStep == CInv /\ [Next]_vars => [ServerNext]_serverVars
<1> SUFFICES ASSUME CInv, [Next]_vars PROVE [ServerNext]_serverVars
  OBVIOUS
<1>1. ASSUME NEW r \in Requests, Fetch(r) PROVE [ServerNext]_serverVars
  <2>1. CASE Send(r)
    <3>1. call[r].key \in Uuids /\ call[r].body \in Bodies
      BY <2>1 DEF Send, CInv, Began
    <3>2. \A a \in Addresses : CacheKey(call[r].key, a) \in Keys
      BY <3>1, KeysAssumption DEF CacheKey
    <3> QED BY <2>1, <3>1, <3>2 DEF Send, ServerNext
  <2>2. CASE ~Send(r)
    BY <1>1, <2>2 DEF Fetch, SubmitAgain, SubmitFresh, SaveKey, ReceiveReply, Evict
  <2> QED BY <2>1, <2>2
<1>2. ASSUME NEW r \in Requests, Serve(r) PROVE ServerNext
  BY <1>2 DEF ServerNext
<1>3. ASSUME NEW k \in Keys, Expire(k) PROVE ServerNext
  BY <1>3 DEF ServerNext
<1>4. CASE UNCHANGED vars
  BY <1>4 DEF vars
<1> QED BY <1>1, <1>2, <1>3, <1>4 DEF Next

LEMMA ClientStep ==
    ASSUME CInv, [Next]_vars, IInv'
    PROVE  ClientTypeOK' /\ Began'
<1>1. /\ ClientTypeOK /\ Began /\ TypeOK'
      /\ digest \in [Bodies -> Slots] /\ store \in [Slots -> Uuids \cup {None}]
      /\ call \in [Requests -> Call] /\ minted \subseteq Uuids
      /\ overwritten \in [Slots -> Nat]
  BY DEF CInv, IInv, ClientTypeOK
<1> DEFINE Good == /\ digest' \in [Bodies -> Slots] /\ store' \in [Slots -> Uuids \cup {None}]
                   /\ minted' \subseteq Uuids /\ call' \in [Requests -> Call]
                   /\ overwritten' \in [Slots -> Nat] /\ Began'
<1> SUFFICES Good
  BY <1>1 DEF ClientTypeOK
<1>2. ASSUME NEW r \in Requests, NEW b \in Bodies, SubmitAgain(r, b) \/ SubmitFresh(r, b)
      PROVE  Good
  <2>1. PICK k \in Uuids, pc \in {"send", "save"} :
           call' = [call EXCEPT ![r] = [NoCall EXCEPT !.pc = pc, !.body = b, !.key = k]]
    BY <1>1, <1>2 DEF SubmitAgain, SubmitFresh
  <2> DEFINE c == [NoCall EXCEPT !.pc = pc, !.body = b, !.key = k]
  <2>2. c \in Call /\ c.key \in Uuids /\ c.body \in Bodies
    BY DEF NoCall, Call
  <2>3. call' = [call EXCEPT ![r] = c]
    BY <2>1
  <2> HIDE DEF c
  <2>4. call' \in [Requests -> Call] /\ Began'
    BY <1>1, <2>2, <2>3 DEF Began
  <2>5. digest' = digest /\ store' = store /\ overwritten' = overwritten /\ minted' \subseteq Uuids
    BY <1>1, <1>2 DEF SubmitAgain, SubmitFresh
  <2> QED BY <1>1, <2>4, <2>5
<1>3. ASSUME NEW r \in Requests,
             SaveKey(r) \/ Send(r) \/ ReceiveReply(r) \/ Evict(r)
      PROVE  Good
  <2>1. call[r].pc # "idle" /\ digest' = digest /\ minted' = minted
    BY <1>3 DEF SaveKey, Send, ReceiveReply, Evict
  <2>2. call[r] \in Call /\ call[r].key \in Uuids /\ call[r].body \in Bodies
    BY <1>1, <2>1 DEF Began
  <2>3. \E c \in Call : /\ call' = [call EXCEPT ![r] = c]
                        /\ c.key = call[r].key /\ c.body = call[r].body
    <3>1. CASE Evict(r)
      <4> DEFINE c == [call[r] EXCEPT !.pc = "over", !.evicted = TRUE]
      <4>1. c \in Call /\ c.key = call[r].key /\ c.body = call[r].body
        BY <2>2 DEF Call
      <4> QED BY <3>1, <4>1 DEF Evict
    <3>2. CASE SaveKey(r) \/ Send(r) \/ ReceiveReply(r)
      <4>1. PICK pc \in {"send", "wait", "over", "evict"} : call' = [call EXCEPT ![r].pc = pc]
        BY <3>2 DEF SaveKey, Send, ReceiveReply
      <4> DEFINE c == [call[r] EXCEPT !.pc = pc]
      <4>2. c \in Call /\ c.key = call[r].key /\ c.body = call[r].body
        BY <2>2 DEF Call
      <4> QED BY <4>1, <4>2
    <3> QED BY <1>3, <3>1, <3>2
  <2>4. call' \in [Requests -> Call] /\ Began'
    BY <1>1, <2>2, <2>3 DEF Began
  <2>5. store' \in [Slots -> Uuids \cup {None}] /\ overwritten' \in [Slots -> Nat]
    <3>1. CASE SaveKey(r)
      <4>1. overwritten' = overwritten \/ overwritten' = [overwritten EXCEPT ![Slot(r)] = @ + 1]
        BY <3>1 DEF SaveKey
      <4>2. store' = [store EXCEPT ![Slot(r)] = call[r].key]
        BY <3>1 DEF SaveKey
      <4>3. overwritten' \in [Slots -> Nat]
        BY <1>1, <4>1
      <4>4. store' \in [Slots -> Uuids \cup {None}]
        BY <1>1, <2>2, <4>2
      <4> QED BY <4>3, <4>4
    <3>2. CASE Send(r) \/ ReceiveReply(r) \/ Evict(r)
      BY <1>1, <3>2 DEF Send, ReceiveReply, Evict
    <3> QED BY <1>3, <3>1, <3>2
  <2> QED BY <1>1, <2>1, <2>4, <2>5
<1>4. CASE UNCHANGED clientVars
  BY <1>1, <1>4 DEF clientVars, Began
<1> HIDE DEF Good
<1> QED BY <1>2, <1>3, <1>4 DEF Next, Fetch, vars

\* The invariant of client and middleware together.
LEMMA ClientInductive == Spec => []CInv
<1>1. Init => CInv
  BY InitCInv
<1>2. IInv /\ [ServerNext]_serverVars => IInv'
  BY InductiveStep
<1>3. CInv /\ [Next]_vars => CInv'
  <2> SUFFICES ASSUME CInv, [Next]_vars PROVE CInv'
    OBVIOUS
  <2>1. IInv'
    BY <1>2, ServerStep DEF CInv
  <2> QED BY <2>1, ClientStep DEF CInv
<1> QED BY <1>1, <1>3, PTL DEF Spec

\* The web client is a client of the middleware (api-fetch.ts and idempotency.ts
\* against IdempotencyMiddleware): each call sends one request, under the key
\* and with the body it has.
THEOREM ClientIsAClient == Spec => ServerSpec
<1>1. Init => ServerInit
  BY DEF Init
<1>2. CInv /\ [Next]_vars => [ServerNext]_serverVars
  BY ServerStep
<1> QED BY <1>1, <1>2, ClientInductive, PTL DEF Spec, ServerSpec

\* Types of client and middleware, so also that a call never sends a key or a
\* body that is none (getOrCreateIdempotencyKey, apiFetch).
THEOREM ClientTypeCorrect == Spec => []ClientTypeOK
<1>1. CInv => ClientTypeOK
  BY DEF CInv
<1> QED BY <1>1, ClientInductive, PTL

\* End to end, through retries, races and lost answers of the web client: a
\* handler runs under a key once per claim, an answer is that of a handler for
\* the same submission, and one handler answers until the entry expires.
THEOREM EndToEnd == Spec => [](RunsAreExpiries /\ AnswersAreGenuine /\ OneAnswerPerKey)
BY ClientIsAClient, HandlersRunOncePerClaim, AnswersComeFromTheirHandlers,
   OneHandlerAnswers, PTL

\* So the contract holds for the web client's own submissions.
THEOREM EndToEndContract == Spec => ImplementsContract
BY ClientIsAClient, MiddlewareImplements, PTL

-----------------------------------------------------------------------------

(* How often a handler runs for the submissions of one record. *)

\* The UUIDs that were sent from slot s, are about to be, or are recorded in it.
HeldBy(s) ==
    UuidsOf(s) \cup {call[r].key : r \in {q \in CallsOf(s) : call[q].pc = "send"}}
              \cup ({store[s]} \ {None})
Dropping(s) == {r \in CallsOf(s) : call[r].evicted}
Full(s)     == IF store[s] = None THEN 0 ELSE 1

\* Each key but the recorded one was replaced in the record or dropped from it.
KeysCounted ==
    \A s \in Slots : Cardinality(HeldBy(s)) <= overwritten[s] + Cardinality(Dropping(s)) + Full(s)

Unsent ==
    \A r \in Requests : /\ call[r].pc \in {"idle", "save", "send"} => req[r] = NotSent
                        /\ call[r].evicted => call[r].pc = "over"
Replied == \A r \in Requests : req[r].pc = "replied" => req[r].reply \in Answer
Dropped ==
    \A r \in Requests : call[r].pc = "evict" \/ call[r].evicted =>
        req[r].pc = "replied" /\ req[r].reply.status = "final"
Capped == \A k \in Keys : expired[k] <= MaxExpiries

EInv == CInv /\ Unsent /\ Replied /\ Dropped /\ Capped /\ KeysCounted

LEMMA FiniteSets ==
    ASSUME NEW s
    PROVE  /\ IsFiniteSet(CallsOf(s)) /\ IsFiniteSet(SentOf(s)) /\ IsFiniteSet(UuidsOf(s))
           /\ IsFiniteSet(HeldBy(s)) /\ IsFiniteSet(Dropping(s))
           /\ Cardinality(HeldBy(s)) \in Nat /\ Cardinality(Dropping(s)) \in Nat
<1>1. \A C : C \subseteq Requests => IsFiniteSet(C)
  BY RequestsAssumption, FS_Subset
<1>2. CallsOf(s) \subseteq Requests /\ Dropping(s) \subseteq Requests
  BY DEF CallsOf, Dropping
<1>3. ASSUME NEW C, C \subseteq Requests, NEW g
      PROVE  IsFiniteSet({g[r].key : r \in C})
  <2>1. PICK f : f = [r \in C |-> g[r].key]
    OBVIOUS
  <2>2. PICK T : T = {g[r].key : r \in C}
    OBVIOUS
  <2>3. f \in Surjection(C, T)
    BY <2>1, <2>2 DEF Surjection
  <2>4. IsFiniteSet(C)
    BY <1>1, <1>3
  <2>5. IsFiniteSet(T)
    BY <2>3, <2>4, FS_Surjection
  <2> QED BY <2>2, <2>5
<1>4. IsFiniteSet(SentOf(s))
  <2>1. IsFiniteSet({req[r].key : r \in CallsOf(s)})
    BY <1>2, <1>3
  <2> QED BY <2>1, FS_Difference DEF SentOf
<1>5. IsFiniteSet({call[r].key : r \in {q \in CallsOf(s) : call[q].pc = "send"}})
  <2>1. {q \in CallsOf(s) : call[q].pc = "send"} \subseteq Requests
    BY <1>2
  <2> QED BY <1>3, <2>1
<1>6. IsFiniteSet({store[s]} \ {None})
  BY FS_Singleton, FS_Difference
<1>7. IsFiniteSet(UuidsOf(s))
  <2>1. PICK S : S = SentOf(s)
    OBVIOUS
  <2>2. PICK f, T : f = [k \in S |-> k[1]] /\ T = {k[1] : k \in S}
    OBVIOUS
  <2>3. f \in Surjection(S, T)
    BY <2>2 DEF Surjection
  <2>4. IsFiniteSet(T)
    BY <1>4, <2>1, <2>3, FS_Surjection
  <2> QED BY <2>1, <2>2, <2>4 DEF UuidsOf
<1>8. IsFiniteSet(HeldBy(s))
  BY <1>5, <1>6, <1>7, FS_Union DEF HeldBy
<1> QED BY <1>1, <1>2, <1>4, <1>7, <1>8, FS_CardinalityType

LEMMA FiniteSetsNext ==
    ASSUME NEW s
    PROVE  /\ IsFiniteSet(CallsOf(s)') /\ IsFiniteSet(SentOf(s)') /\ IsFiniteSet(UuidsOf(s)')
           /\ IsFiniteSet(HeldBy(s)') /\ IsFiniteSet(Dropping(s)')
           /\ Cardinality(HeldBy(s)') \in Nat /\ Cardinality(Dropping(s)') \in Nat
<1>1. \A C : C \subseteq Requests => IsFiniteSet(C)
  BY RequestsAssumption, FS_Subset
<1>2. CallsOf(s)' \subseteq Requests /\ Dropping(s)' \subseteq Requests
  BY DEF CallsOf, Dropping
<1>3. ASSUME NEW C, C \subseteq Requests, NEW g
      PROVE  IsFiniteSet({g[r].key : r \in C})
  <2>1. PICK f : f = [r \in C |-> g[r].key]
    OBVIOUS
  <2>2. PICK T : T = {g[r].key : r \in C}
    OBVIOUS
  <2>3. f \in Surjection(C, T)
    BY <2>1, <2>2 DEF Surjection
  <2>4. IsFiniteSet(C)
    BY <1>1, <1>3
  <2>5. IsFiniteSet(T)
    BY <2>3, <2>4, FS_Surjection
  <2> QED BY <2>2, <2>5
<1>4. IsFiniteSet(SentOf(s)')
  <2>1. IsFiniteSet({req'[r].key : r \in CallsOf(s)'})
    BY <1>2, <1>3
  <2> QED BY <2>1, FS_Difference DEF SentOf
<1>5. IsFiniteSet({call'[r].key : r \in {q \in CallsOf(s)' : call'[q].pc = "send"}})
  <2>1. {q \in CallsOf(s)' : call'[q].pc = "send"} \subseteq Requests
    BY <1>2
  <2> QED BY <1>3, <2>1
<1>6. IsFiniteSet({store'[s]} \ {None})
  BY FS_Singleton, FS_Difference
<1>7. IsFiniteSet(UuidsOf(s)')
  <2>1. PICK S : S = SentOf(s)'
    OBVIOUS
  <2>2. PICK f, T : f = [k \in S |-> k[1]] /\ T = {k[1] : k \in S}
    OBVIOUS
  <2>3. f \in Surjection(S, T)
    BY <2>2 DEF Surjection
  <2>4. IsFiniteSet(T)
    BY <1>4, <2>1, <2>3, FS_Surjection
  <2> QED BY <2>1, <2>2, <2>4 DEF UuidsOf
<1>8. IsFiniteSet(HeldBy(s)')
  BY <1>5, <1>6, <1>7, FS_Union DEF HeldBy
<1> QED BY <1>1, <1>2, <1>4, <1>7, <1>8, FS_CardinalityType

\* A slot whose keys have not grown in number.
LEMMA NoNewKey ==
    ASSUME EInv, NEW s \in Slots,
           HeldBy(s)' \subseteq HeldBy(s), Dropping(s) \subseteq Dropping(s)',
           store'[s] = store[s], overwritten'[s] = overwritten[s]
    PROVE  Cardinality(HeldBy(s)') <= overwritten'[s] + Cardinality(Dropping(s)') + Full(s)'
<1>1. Cardinality(HeldBy(s)') <= Cardinality(HeldBy(s))
  BY FiniteSets, FS_Subset
<1>2. Cardinality(Dropping(s)) <= Cardinality(Dropping(s)')
  BY FiniteSetsNext, FS_Subset
<1>3. Full(s)' = Full(s) /\ Full(s) \in Nat
  BY DEF Full
<1>4. Cardinality(HeldBy(s)) <= overwritten[s] + Cardinality(Dropping(s)) + Full(s)
  BY DEF EInv, KeysCounted
<1>5. overwritten[s] \in Nat
  BY DEF EInv, CInv, ClientTypeOK
<1> QED BY <1>1, <1>2, <1>3, <1>4, <1>5, FiniteSets, FiniteSetsNext

\* The middleware changes no key, and nothing of a request that was not sent
\* or is over.
LEMMA ServeKeeps ==
    ASSUME EInv, NEW r \in Requests, Serve(r)
    PROVE  /\ \A q \in Requests : req'[q].key = req[q].key
           /\ \A q \in Requests \ {r} : req'[q] = req[q]
           /\ req[r].pc \notin {"idle", "replied"}
           /\ expired' = expired
           /\ req'[r].pc = "replied" => req'[r].reply \in Answer
<1>1. req \in [Requests -> Request]
  BY DEF EInv, CInv, IInv, TypeOK
<1> USE DEF Go, Start, Reply
<1>2. CASE Claim(r) \/ ClaimTaken(r) \/ ClaimUnavailable(r) \/ LookupFails(r)
  <2>1. PICK as \in {"claimed", "open"} : Start(r, as) \/ Go(r, "lookup")
    BY <1>2 DEF Claim, ClaimTaken, ClaimUnavailable, LookupFails
  <2>2. req[r].pc \in {"claim", "lookup"} /\ expired' = expired
    BY <1>2 DEF Claim, ClaimTaken, ClaimUnavailable, LookupFails
  <2>3. CASE Start(r, as)
    <3>1. PICK q : q = [req[r] EXCEPT !.pc = "run", !.ran = as]
      OBVIOUS
    <3>2. q.pc = "run" /\ q.key = req[r].key
      BY <1>1, <3>1 DEF Request
    <3>3. req' = [req EXCEPT ![r] = q]
      BY <2>3, <3>1
    <3> QED BY <1>1, <2>2, <3>2, <3>3
  <2>4. CASE Go(r, "lookup")
    <3>1. PICK q : q = [req[r] EXCEPT !.pc = "lookup"]
      OBVIOUS
    <3>2. q.pc = "lookup" /\ q.key = req[r].key
      BY <1>1, <3>1 DEF Request
    <3>3. req' = [req EXCEPT ![r] = q]
      BY <2>4, <3>1
    <3> QED BY <1>1, <2>2, <3>2, <3>3
  <2> QED BY <2>1, <2>3, <2>4
<1>3. CASE RefuseExisting(r)
  BY <1>1, <1>3 DEF RefuseExisting, Request, Answer, Outcomes
<1>4. CASE ReplayExisting(r)
  <2>1. PICK e : e = entry[req[r].key]
    OBVIOUS
  <2>2. /\ req[r].pc = "lookup" /\ e # None /\ e.state = "done" /\ expired' = expired
        /\ req' = [req EXCEPT ![r] = [req[r] EXCEPT !.pc = "replied", !.reply = e.answer]]
    BY <1>4, <2>1 DEF ReplayExisting
  <2>3. req[r].key \in Keys
    BY <2>2 DEF EInv, CInv, IInv, TypeOK
  <2>4. e.answer \in Answer
    BY <2>1, <2>2, <2>3 DEF EInv, CInv, IInv, Stored, Given
  <2> QED BY <1>1, <2>2, <2>4 DEF Request
<1>5. CASE RunHandler(r)
  BY <1>1, <1>5 DEF RunHandler, Request
<1>6. CASE RunOpen(r)
  <2>1. PICK o \in Outcomes :
           req' = [req EXCEPT ![r] = [req[r] EXCEPT !.pc = "replied", !.result = o,
                                                    !.reply = [status |-> o, by |-> r]]]
    BY <1>6 DEF RunOpen
  <2>2. req[r].pc = "run" /\ expired' = expired /\ [status |-> o, by |-> r] \in Answer
    BY <1>6 DEF RunOpen, Answer
  <2> QED BY <1>1, <2>1, <2>2 DEF Request
<1>7. CASE Complete(r)
  <2>1. /\ req[r].pc = "complete" /\ expired' = expired
        /\ req' = [req EXCEPT ![r] = [req[r] EXCEPT !.pc = "replied",
                                                    !.reply = Finished(r).answer]]
    BY <1>7 DEF Complete
  <2>2. Finished(r).answer \in Answer
    BY <2>1 DEF EInv, CInv, IInv, TypeOK, Finished, Answer
  <2> QED BY <1>1, <2>1, <2>2 DEF Request
<1> QED BY <1>2, <1>3, <1>4, <1>5, <1>6, <1>7 DEF Serve

\* No key is sent or recorded.
LEMMA CountsRest ==
    ASSUME EInv, UNCHANGED clientVars, \A q \in Requests : req'[q].key = req[q].key
    PROVE  KeysCounted'
<1> SUFFICES ASSUME NEW s \in Slots
             PROVE  Cardinality(HeldBy(s)') <= overwritten'[s] + Cardinality(Dropping(s)') + Full(s)'
  BY DEF KeysCounted, clientVars
<1>1. CallsOf(s)' = CallsOf(s) /\ CallsOf(s) \subseteq Requests
  BY DEF CallsOf, Slot, clientVars
<1>2. UuidsOf(s)' = UuidsOf(s)
  BY <1>1 DEF SentOf, UuidsOf
<1>3. HeldBy(s)' = HeldBy(s) /\ Dropping(s)' = Dropping(s)
  BY <1>1, <1>2 DEF HeldBy, Dropping, clientVars
<1> QED BY <1>3, NoNewKey DEF clientVars

LEMMA SubmitCounts ==
    ASSUME EInv, NEW r \in Requests, NEW b \in Bodies, SubmitAgain(r, b) \/ SubmitFresh(r, b)
    PROVE  Unsent' /\ Dropped' /\ KeysCounted'
<1>1. PICK c : /\ call' = [call EXCEPT ![r] = c] /\ ~c.evicted /\ c.body = b
               /\ c.pc = "save" \/ (c.pc = "send" /\ c.key = store[digest[b]] /\ c.key # None)
  <2>1. CASE SubmitAgain(r, b)
    <3> DEFINE d == [NoCall EXCEPT !.pc = "send", !.body = b, !.key = store[digest[b]]]
    <3>1. d.pc = "send" /\ d.key = store[digest[b]] /\ ~d.evicted /\ d.body = b
      BY DEF NoCall
    <3>2. call' = [call EXCEPT ![r] = d] /\ store[digest[b]] # None
      BY <2>1 DEF SubmitAgain
    <3> HIDE DEF d
    <3> QED BY <3>1, <3>2
  <2>2. CASE SubmitFresh(r, b)
    <3>1. PICK k \in Uuids :
             call' = [call EXCEPT ![r] = [NoCall EXCEPT !.pc = "save", !.body = b, !.key = k]]
      BY <2>2 DEF SubmitFresh
    <3> DEFINE d == [NoCall EXCEPT !.pc = "save", !.body = b, !.key = k]
    <3>2. d.pc = "save" /\ ~d.evicted /\ d.body = b
      BY DEF NoCall
    <3>3. call' = [call EXCEPT ![r] = d]
      BY <3>1
    <3> HIDE DEF d
    <3> QED BY <3>2, <3>3
  <2> QED BY <2>1, <2>2
<1>2. /\ call[r].pc = "idle" /\ UNCHANGED <<serverVars, digest, store, overwritten>>
      /\ req' = req
  BY DEF SubmitAgain, SubmitFresh, serverVars
<1>3. call'[r] = c /\ \A q \in Requests \ {r} : call'[q] = call[q]
  BY <1>1 DEF EInv, CInv, ClientTypeOK
<1>4. req[r] = NotSent /\ req[r].key = None /\ ~call[r].evicted
  <2>1. req[r] = NotSent /\ ~call[r].evicted
    BY <1>2 DEF EInv, Unsent
  <2> QED BY <2>1 DEF NotSent
<1>5. Unsent' /\ Dropped'
  BY <1>1, <1>2, <1>3, <1>4 DEF EInv, Unsent, Dropped
<1>6. ASSUME NEW s \in Slots
      PROVE  Cardinality(HeldBy(s)') <= overwritten'[s] + Cardinality(Dropping(s)') + Full(s)'
  <2>1. \A q \in Requests : q \in CallsOf(s)' <=> q \in CallsOf(s) \/ (q = r /\ s = digest[b])
    BY <1>1, <1>2, <1>3 DEF CallsOf, Slot
  <2>2. CallsOf(s) \subseteq Requests /\ r \notin CallsOf(s) /\ CallsOf(s)' \subseteq Requests
    BY <1>2 DEF CallsOf
  <2>3. UuidsOf(s)' = UuidsOf(s)
    <3>1. SentOf(s)' = SentOf(s)
      BY <1>2, <1>4, <2>1, <2>2 DEF SentOf
    <3> QED BY <3>1 DEF UuidsOf
  <2>4. HeldBy(s)' \subseteq HeldBy(s)
    <3> SUFFICES ASSUME NEW q \in CallsOf(s)', call'[q].pc = "send"
                 PROVE  call'[q].key \in HeldBy(s)
      BY <1>2, <2>3 DEF HeldBy
    <3>1. CASE q = r
      BY <1>1, <1>3, <2>1, <2>2, <3>1 DEF HeldBy
    <3>2. CASE q # r
      BY <1>3, <2>1, <2>2, <3>2 DEF HeldBy
    <3> QED BY <3>1, <3>2
  <2>5. Dropping(s) \subseteq Dropping(s)'
    BY <1>3, <2>1, <2>2 DEF Dropping
  <2> QED BY <1>2, <2>4, <2>5, NoNewKey
<1> QED BY <1>5, <1>6 DEF KeysCounted

\* A call goes on with its body and its key.
LEMMA GoesOn ==
    ASSUME EInv, NEW r \in Requests, NEW pc \in {"send", "wait", "over", "evict"}, NEW e \in BOOLEAN,
           call[r].pc # "idle",
           call' = [call EXCEPT ![r] = [call[r] EXCEPT !.pc = pc, !.evicted = e]],
           digest' = digest
    PROVE  /\ call'[r].pc = pc /\ call'[r].evicted = e /\ call'[r].key = call[r].key
           /\ \A q \in Requests \ {r} : call'[q] = call[q]
           /\ \A s : CallsOf(s)' = CallsOf(s)
<1>1. call \in [Requests -> Call] /\ call[r] \in Call
  BY DEF EInv, CInv, ClientTypeOK
<1>2. PICK c : c = [call[r] EXCEPT !.pc = pc, !.evicted = e]
  OBVIOUS
<1>3. c.pc = pc /\ c.evicted = e /\ c.key = call[r].key /\ c.body = call[r].body
  BY <1>1, <1>2 DEF Call
<1>4. call' = [call EXCEPT ![r] = c]
  BY <1>2
<1>5. call'[r] = c /\ \A q \in Requests \ {r} : call'[q] = call[q]
  BY <1>1, <1>4
<1>6. ASSUME NEW s PROVE CallsOf(s)' = CallsOf(s)
  <2>1. \A q \in Requests : /\ call'[q].pc # "idle" <=> call[q].pc # "idle"
                            /\ call'[q].body = call[q].body
    BY <1>3, <1>5
  <2> QED BY <2>1 DEF CallsOf, Slot
<1> QED BY <1>3, <1>5, <1>6

LEMMA SaveCounts ==
    ASSUME EInv, NEW r \in Requests, SaveKey(r)
    PROVE  Unsent' /\ Dropped' /\ KeysCounted'
<1>1. PICK s0 \in Slots, k \in Uuids : s0 = Slot(r) /\ k = call[r].key
  <2>1. call[r].key \in Uuids /\ call[r].body \in Bodies
    BY DEF SaveKey, EInv, CInv, Began
  <2>2. Slot(r) \in Slots
    BY <2>1 DEF Slot, EInv, CInv, ClientTypeOK
  <2> QED BY <2>1, <2>2
<1>2. /\ call[r].pc = "save" /\ req' = req /\ digest' = digest
      /\ store' = [store EXCEPT ![s0] = k]
      /\ overwritten' = IF store[s0] = None THEN overwritten
                        ELSE [overwritten EXCEPT ![s0] = overwritten[s0] + 1]
  BY <1>1 DEF SaveKey, serverVars
<1>3. ~call[r].evicted /\ req[r] = NotSent /\ k # None
  BY <1>1, <1>2, KeysAssumption DEF EInv, Unsent
<1>4. call[r] \in Call /\ call[r].evicted = FALSE
  BY <1>3 DEF EInv, CInv, ClientTypeOK, Call
<1>5. call' = [call EXCEPT ![r] = [call[r] EXCEPT !.pc = "send", !.evicted = FALSE]]
  <2>1. [call[r] EXCEPT !.pc = "send"] = [call[r] EXCEPT !.pc = "send", !.evicted = FALSE]
    BY <1>4 DEF Call
  <2>2. call' = [call EXCEPT ![r] = [call[r] EXCEPT !.pc = "send"]]
    BY DEF SaveKey
  <2> QED BY <2>1, <2>2
<1>6. /\ call'[r].pc = "send" /\ call'[r].evicted = FALSE /\ call'[r].key = k
      /\ \A q \in Requests \ {r} : call'[q] = call[q]
      /\ \A s : CallsOf(s)' = CallsOf(s)
  BY <1>1, <1>2, <1>5, GoesOn
<1>7. Unsent' /\ Dropped'
  BY <1>2, <1>3, <1>6 DEF EInv, Unsent, Dropped
<1>8. \A s : CallsOf(s) \subseteq Requests /\ UuidsOf(s)' = UuidsOf(s) /\ Dropping(s)' = Dropping(s)
  <2> SUFFICES ASSUME NEW s
               PROVE  CallsOf(s) \subseteq Requests /\ UuidsOf(s)' = UuidsOf(s) /\ Dropping(s)' = Dropping(s)
    OBVIOUS
  <2>1. CallsOf(s)' = CallsOf(s) /\ CallsOf(s) \subseteq Requests
    BY <1>6 DEF CallsOf
  <2>2. \A q \in Requests : call'[q].evicted = call[q].evicted
    BY <1>4, <1>6
  <2>3. SentOf(s)' = SentOf(s)
    BY <1>2, <2>1 DEF SentOf
  <2> QED BY <2>1, <2>2, <2>3 DEF UuidsOf, Dropping
<1>9. /\ store \in [Slots -> Uuids \cup {None}] /\ overwritten \in [Slots -> Nat]
  BY DEF EInv, CInv, ClientTypeOK
<1>10. ASSUME NEW s \in Slots
       PROVE  Cardinality(HeldBy(s)') <= overwritten'[s] + Cardinality(Dropping(s)') + Full(s)'
  <2>1. CASE s # s0
    <3>1. r \notin CallsOf(s) /\ store'[s] = store[s] /\ overwritten'[s] = overwritten[s]
      BY <1>1, <1>2, <1>9, <2>1 DEF CallsOf
    <3>2. HeldBy(s)' \subseteq HeldBy(s)
      BY <1>6, <1>8, <3>1 DEF HeldBy
    <3> QED BY <1>8, <3>1, <3>2, NoNewKey
  <2>2. CASE s = s0
    <3>1. HeldBy(s)' \subseteq HeldBy(s) \cup {k}
      <4>1. store'[s] = k
        BY <1>2, <1>9, <2>2
      <4>2. ASSUME NEW q \in CallsOf(s)', call'[q].pc = "send"
            PROVE  call'[q].key \in HeldBy(s) \cup {k}
        <5>1. CASE q = r
          BY <1>6, <5>1
        <5>2. CASE q # r
          BY <1>6, <1>8, <4>2, <5>2 DEF HeldBy
        <5> QED BY <5>1, <5>2
      <4> QED BY <1>8, <4>1, <4>2 DEF HeldBy
    <3>2. Cardinality(HeldBy(s)') <= Cardinality(HeldBy(s)) + 1
      <4>1. IsFiniteSet(HeldBy(s) \cup {k}) /\ Cardinality(HeldBy(s) \cup {k}) <= Cardinality(HeldBy(s)) + 1
        <5>1. IsFiniteSet(HeldBy(s)) /\ Cardinality(HeldBy(s)) \in Nat
          BY FiniteSets
        <5>2. PICK H : H = HeldBy(s)
          OBVIOUS
        <5>3. IsFiniteSet(H \cup {k})
          BY <5>1, <5>2, FS_AddElement
        <5>4. Cardinality(H \cup {k}) = IF k \in H THEN Cardinality(H) ELSE Cardinality(H) + 1
          BY <5>1, <5>2, FS_AddElement
        <5>5. Cardinality(H \cup {k}) <= Cardinality(H) + 1
          BY <5>1, <5>2, <5>4
        <5> QED BY <5>2, <5>3, <5>5
      <4>2. Cardinality(HeldBy(s)') <= Cardinality(HeldBy(s) \cup {k})
        BY <3>1, <4>1, FS_Subset
      <4>3. Cardinality(HeldBy(s) \cup {k}) \in Nat
        BY <4>1, FS_CardinalityType
      <4> QED BY <4>1, <4>2, <4>3, FiniteSets, FiniteSetsNext
    <3>3. Cardinality(HeldBy(s)) <= overwritten[s] + Cardinality(Dropping(s)) + Full(s)
      BY DEF EInv, KeysCounted
    <3>4. Full(s)' = 1
      BY <1>2, <1>3, <1>9, <2>2 DEF Full
    <3>5. overwritten'[s] + 1 = overwritten[s] + Full(s) + 1
      <4>1. overwritten[s] \in Nat
        BY <1>9
      <4> QED BY <1>2, <1>9, <2>2, <4>1 DEF Full
    <3>6. overwritten[s] \in Nat /\ Full(s) \in Nat /\ overwritten'[s] \in Nat
      BY <1>2, <1>9, <2>2 DEF Full
    <3> QED BY <1>8, <3>2, <3>3, <3>4, <3>5, <3>6, FiniteSets, FiniteSetsNext
  <2> QED BY <2>1, <2>2
<1> QED BY <1>7, <1>10 DEF KeysCounted

\* Steps after which the record is as it was: Send, ReceiveReply.
LEMMA PassCounts ==
    ASSUME EInv, CInv', NEW r \in Requests, Send(r) \/ ReceiveReply(r)
    PROVE  Unsent' /\ Dropped' /\ KeysCounted'
<1>1. /\ call[r].pc \notin {"idle", "over"} /\ UNCHANGED <<digest, store, overwritten>>
      /\ req \in [Requests -> Request] /\ call[r] \in Call
  BY DEF Send, ReceiveReply, EInv, CInv, IInv, TypeOK, ClientTypeOK
<1>2. call[r].evicted = FALSE
  BY <1>1 DEF EInv, Unsent, Call
<1>3. PICK pc \in {"wait", "over", "evict"} :
         /\ call' = [call EXCEPT ![r] = [call[r] EXCEPT !.pc = pc]]
         /\ pc = "evict" => /\ req[r].pc = "replied" /\ req[r].reply.status # "5xx"
                            /\ req' = req
  <2>1. CASE Send(r)
    BY <2>1 DEF Send
  <2>2. CASE ReceiveReply(r)
    <3>1. PICK pc : pc = IF req[r].reply.status = "5xx" THEN "over" ELSE "evict"
      OBVIOUS
    <3>2. call' = [call EXCEPT ![r] = [call[r] EXCEPT !.pc = pc]]
      BY <2>2, <3>1 DEF ReceiveReply
    <3> QED BY <2>2, <3>1, <3>2 DEF ReceiveReply, serverVars
  <2> QED BY <2>1, <2>2
<1>4. call' = [call EXCEPT ![r] = [call[r] EXCEPT !.pc = pc, !.evicted = FALSE]]
  <2>1. [call[r] EXCEPT !.pc = pc] = [call[r] EXCEPT !.pc = pc, !.evicted = FALSE]
    BY <1>1, <1>2 DEF Call
  <2> QED BY <1>3, <2>1
<1>5. /\ call'[r].pc = pc /\ call'[r].evicted = FALSE /\ call'[r].key = call[r].key
      /\ \A q \in Requests \ {r} : call'[q] = call[q]
      /\ \A s : CallsOf(s)' = CallsOf(s)
  BY <1>1, <1>4, GoesOn
<1>6. /\ \A q \in Requests \ {r} : req'[q] = req[q]
      /\ Send(r) \/ req' = req
      /\ Send(r) => /\ call[r].pc = "send" /\ req'[r].key[1] = call[r].key
                    /\ pc = "wait"
  <2>1. CASE Send(r)
    <3>1. PICK a, q :
             /\ q = [req[r] EXCEPT !.pc = "claim", !.key = CacheKey(call[r].key, a),
                                   !.body = call[r].body]
             /\ req' = [req EXCEPT ![r] = q]
      BY <2>1 DEF Send, Receive
    <3>2. q.key = <<call[r].key, a>>
      BY <1>1, <3>1 DEF Request, CacheKey
    <3>3. req'[r].key[1] = call[r].key
      BY <1>1, <3>1, <3>2
    <3>4. call[r].pc = "send"
      BY <2>1 DEF Send
    <3>5. call'[r].pc = "wait"
      BY <1>1, <2>1 DEF Send, EInv, CInv, ClientTypeOK, Call
    <3> QED BY <1>1, <1>5, <2>1, <3>1, <3>3, <3>4, <3>5
  <2>2. CASE ReceiveReply(r)
    <3>1. req' = req
      BY <2>2 DEF ReceiveReply, serverVars
    <3>2. ~Send(r) \/ Send(r)
      OBVIOUS
    <3> QED BY <2>1, <3>1, <3>2
  <2> QED BY <2>1, <2>2
<1>7. Unsent'
  BY <1>5, <1>6 DEF EInv, Unsent
<1>8. Dropped'
  <2>1. pc = "evict" => req'[r].pc = "replied" /\ req'[r].reply.status = "final"
    BY <1>3 DEF EInv, Replied, Answer, Outcomes
  <2> QED BY <1>5, <1>6, <2>1 DEF EInv, Dropped
<1>9. ASSUME NEW s \in Slots
      PROVE  Cardinality(HeldBy(s)') <= overwritten'[s] + Cardinality(Dropping(s)') + Full(s)'
  <2>1. CallsOf(s)' = CallsOf(s) /\ CallsOf(s) \subseteq Requests
    BY <1>5 DEF CallsOf
  <2>2. UuidsOf(s)' \subseteq HeldBy(s)
    <3> SUFFICES ASSUME NEW q \in CallsOf(s), req'[q].key # None
                 PROVE  req'[q].key[1] \in HeldBy(s)
      BY <2>1 DEF SentOf, UuidsOf
    <3>1. CASE req'[q] = req[q]
      BY <3>1 DEF HeldBy, SentOf, UuidsOf
    <3>2. CASE q = r /\ Send(r)
      BY <1>6, <3>2 DEF HeldBy
    <3> QED BY <1>6, <2>1, <3>1, <3>2
  <2>3. HeldBy(s)' \subseteq HeldBy(s)
    <3>1. ASSUME NEW q \in CallsOf(s)', call'[q].pc = "send" PROVE call'[q].key \in HeldBy(s)
      BY <1>5, <2>1, <3>1 DEF HeldBy
    <3>2. {store'[s]} \ {None} \subseteq HeldBy(s)
      BY <1>1 DEF HeldBy
    <3> QED BY <2>2, <3>1, <3>2 DEF HeldBy
  <2>4. \A q \in Requests : call'[q].evicted = call[q].evicted
    BY <1>2, <1>5
  <2>5. Dropping(s)' = Dropping(s)
    BY <2>1, <2>4 DEF Dropping
  <2> QED BY <1>1, <2>3, <2>5, NoNewKey
<1> QED BY <1>7, <1>8, <1>9 DEF KeysCounted

LEMMA EvictCounts ==
    ASSUME EInv, NEW r \in Requests, Evict(r)
    PROVE  Unsent' /\ Dropped' /\ KeysCounted'
<1>1. PICK s0 \in Slots : s0 = Slot(r)
  <2>1. call[r].body \in Bodies
    BY DEF Evict, EInv, CInv, Began
  <2> QED BY <2>1 DEF Slot, EInv, CInv, ClientTypeOK
<1>2. /\ call[r].pc = "evict" /\ req' = req /\ digest' = digest /\ overwritten' = overwritten
      /\ store' = [store EXCEPT ![s0] = None]
      /\ call' = [call EXCEPT ![r] = [call[r] EXCEPT !.pc = "over", !.evicted = TRUE]]
  BY <1>1 DEF Evict, serverVars
<1>3. /\ call'[r].pc = "over" /\ call'[r].evicted = TRUE /\ call'[r].key = call[r].key
      /\ \A q \in Requests \ {r} : call'[q] = call[q]
      /\ \A s : CallsOf(s)' = CallsOf(s)
  BY <1>2, GoesOn
<1>4. Unsent' /\ Dropped' /\ ~call[r].evicted
  BY <1>2, <1>3 DEF EInv, Unsent, Dropped
<1>5. store \in [Slots -> Uuids \cup {None}] /\ overwritten \in [Slots -> Nat]
  BY DEF EInv, CInv, ClientTypeOK
<1>6. ASSUME NEW s \in Slots
      PROVE  Cardinality(HeldBy(s)') <= overwritten'[s] + Cardinality(Dropping(s)') + Full(s)'
  <2>1. CallsOf(s)' = CallsOf(s) /\ CallsOf(s) \subseteq Requests /\ UuidsOf(s)' = UuidsOf(s)
    <3>1. CallsOf(s)' = CallsOf(s) /\ CallsOf(s) \subseteq Requests
      BY <1>3 DEF CallsOf
    <3>2. SentOf(s)' = SentOf(s)
      BY <1>2, <3>1 DEF SentOf
    <3> QED BY <3>1, <3>2 DEF UuidsOf
  <2>2. HeldBy(s)' \subseteq HeldBy(s)
    <3>1. ASSUME NEW q \in CallsOf(s)', call'[q].pc = "send" PROVE call'[q].key \in HeldBy(s)
      BY <1>3, <2>1, <3>1 DEF HeldBy
    <3>2. {store'[s]} \ {None} \subseteq HeldBy(s)
      BY <1>2, <1>5 DEF HeldBy
    <3> QED BY <2>1, <3>1, <3>2 DEF HeldBy
  <2>3. CASE s # s0
    <3>1. r \notin CallsOf(s) /\ store'[s] = store[s]
      BY <1>1, <1>2, <1>5, <2>3 DEF CallsOf
    <3>2. Dropping(s)' = Dropping(s)
      BY <1>3, <2>1, <3>1 DEF Dropping
    <3> QED BY <1>2, <2>2, <3>1, <3>2, NoNewKey
  <2>4. CASE s = s0
    <3>1. r \in CallsOf(s)
      BY <1>1, <1>2, <2>4 DEF CallsOf
    <3>2. Dropping(s)' = Dropping(s) \cup {r} /\ r \notin Dropping(s)
      BY <1>3, <1>4, <2>1, <3>1 DEF Dropping
    <3>3. Cardinality(Dropping(s)') = Cardinality(Dropping(s)) + 1
      BY <3>2, FiniteSets, FS_AddElement
    <3>4. Cardinality(HeldBy(s)') <= Cardinality(HeldBy(s))
      BY <2>2, FiniteSets, FS_Subset
    <3>5. Cardinality(HeldBy(s)) <= overwritten[s] + Cardinality(Dropping(s)) + Full(s)
      BY DEF EInv, KeysCounted
    <3>6. Full(s) \in 0..1 /\ Full(s)' = 0 /\ overwritten'[s] = overwritten[s] /\ overwritten[s] \in Nat
      BY <1>2, <1>5, <2>4 DEF Full
    <3> QED BY <3>3, <3>4, <3>5, <3>6, FiniteSets, FiniteSetsNext
  <2> QED BY <2>3, <2>4
<1> QED BY <1>4, <1>6 DEF KeysCounted

LEMMA InitEInv == Init => EInv
<1> SUFFICES ASSUME Init PROVE EInv
  OBVIOUS
<1>1. /\ CInv /\ \A r \in Requests : call[r] = NoCall /\ req[r] = NotSent
  BY InitCInv DEF Init, ServerInit
<1>2. Unsent /\ Replied /\ Dropped
  BY <1>1 DEF Unsent, Replied, Dropped, NoCall, NotSent
<1>3. Capped
  BY BoundsAssumption DEF Init, ServerInit, Capped
<1>4. KeysCounted
  <2> SUFFICES ASSUME NEW s \in Slots
               PROVE  Cardinality(HeldBy(s)) <= overwritten[s] + Cardinality(Dropping(s)) + Full(s)
    BY DEF KeysCounted
  <2>1. CallsOf(s) = {}
    BY <1>1 DEF CallsOf, NoCall
  <2>2. store[s] = None /\ overwritten[s] = 0
    BY DEF Init
  <2>3. HeldBy(s) = {} /\ Dropping(s) = {}
    BY <2>1, <2>2 DEF HeldBy, SentOf, UuidsOf, Dropping
  <2> QED BY <2>2, <2>3, FS_EmptySet DEF Full
<1> QED BY <1>1, <1>2, <1>3, <1>4 DEF EInv

LEMMA StepEInv == EInv /\ CInv' /\ [Next]_vars => EInv'
<1> SUFFICES ASSUME EInv, CInv', [Next]_vars PROVE EInv'
  OBVIOUS
<1>1. ASSUME NEW r \in Requests, Fetch(r) PROVE EInv'
  <2>1. /\ expired' = expired
        /\ \A q \in Requests : req'[q].pc = "replied" => req'[q] = req[q]
    <3>1. CASE Send(r)
      <4>1. req \in [Requests -> Request]
        BY DEF EInv, CInv, IInv, TypeOK
      <4>2. PICK k, b : req' = [req EXCEPT ![r] = [req[r] EXCEPT !.pc = "claim", !.key = k, !.body = b]]
                        /\ expired' = expired
        BY <3>1 DEF Send, Receive
      <4> QED BY <4>1, <4>2 DEF Request
    <3>2. CASE ~Send(r)
      BY <1>1, <3>2 DEF Fetch, SubmitAgain, SubmitFresh, SaveKey, ReceiveReply, Evict,
                        serverVars
    <3> QED BY <3>1, <3>2
  <2>2. Replied' /\ Capped'
    BY <2>1 DEF EInv, Replied, Capped
  <2>3. Unsent' /\ Dropped' /\ KeysCounted'
    BY <1>1, SubmitCounts, SaveCounts, PassCounts, EvictCounts DEF Fetch
  <2> QED BY <2>2, <2>3 DEF EInv
<1>2. ASSUME NEW r \in Requests, Serve(r), UNCHANGED clientVars PROVE EInv'
  <2>1. /\ \A q \in Requests : req'[q].key = req[q].key
        /\ \A q \in Requests \ {r} : req'[q] = req[q]
        /\ req[r].pc \notin {"idle", "replied"} /\ expired' = expired
        /\ req'[r].pc = "replied" => req'[r].reply \in Answer
    BY <1>2, ServeKeeps
  <2>2. KeysCounted'
    BY <1>2, <2>1, CountsRest
  <2>3. call' = call /\ req[r] # NotSent
    BY <1>2, <2>1 DEF clientVars, NotSent
  <2>4. Unsent' /\ Replied' /\ Dropped' /\ Capped'
    BY <2>1, <2>3 DEF EInv, Unsent, Replied, Dropped, Capped
  <2> QED BY <2>2, <2>4 DEF EInv
<1>3. ASSUME NEW k \in Keys, Expire(k), UNCHANGED clientVars PROVE EInv'
  <2>1. KeysCounted'
    BY <1>3, CountsRest DEF Expire
  <2>2. req' = req /\ call' = call
    BY <1>3 DEF Expire, clientVars
  <2>3. Unsent' /\ Replied' /\ Dropped'
    BY <2>2 DEF EInv, Unsent, Replied, Dropped
  <2>4. Capped'
    <3>1. expired \in [Keys -> Nat] /\ MaxExpiries \in Nat
      BY BoundsAssumption DEF EInv, CInv, IInv, TypeOK
    <3>2. expired[k] < MaxExpiries /\ expired' = [expired EXCEPT ![k] = expired[k] + 1]
      BY <1>3 DEF Expire
    <3> QED BY <3>1, <3>2 DEF EInv, Capped
  <2> QED BY <2>1, <2>3, <2>4 DEF EInv
<1>4. CASE UNCHANGED vars
  <2>1. KeysCounted'
    BY <1>4, CountsRest DEF vars, serverVars
  <2>2. req' = req /\ call' = call /\ expired' = expired
    BY <1>4 DEF vars, serverVars, clientVars
  <2> QED BY <2>1, <2>2 DEF EInv, Unsent, Replied, Dropped, Capped
<1> QED BY <1>1, <1>2, <1>3, <1>4 DEF Next

\* The claimants of the keys sent from s, numbered under each key.
LEMMA ClaimsAreCounted ==
    ASSUME EInv, NEW s \in Slots
    PROVE  Cardinality({r \in CallsOf(s) : req[r].ran = "claimed"}) <=
               Cardinality(SentOf(s))
                 + Cardinality({x \in SentOf(s) \X (1..MaxExpiries) : x[2] <= expired[x[1]]})
<1> DEFINE C  == {r \in CallsOf(s) : req[r].ran = "claimed"}
           P  == {x \in SentOf(s) \X (0..MaxExpiries) : x[2] <= expired[x[1]]}
           P1 == {x \in SentOf(s) \X (1..MaxExpiries) : x[2] <= expired[x[1]]}
           Z  == {x \in P : x[2] = 0}
<1>1. MaxExpiries \in Nat /\ expired \in [Keys -> Nat] /\ IsFiniteSet(SentOf(s))
  BY BoundsAssumption, FiniteSets DEF EInv, CInv, IInv, TypeOK
<1>2. \A r \in C : r \in Requests /\ req[r].key \in Keys /\ req[r].key \in SentOf(s)
  <2> SUFFICES ASSUME NEW r \in C
               PROVE  r \in Requests /\ req[r].key \in Keys /\ req[r].key \in SentOf(s)
    OBVIOUS
  <2>1. r \in Requests /\ r \in CallsOf(s) /\ req[r].ran = "claimed"
    BY DEF CallsOf
  <2>2. req[r].pc # "idle"
    BY <2>1 DEF EInv, CInv, IInv, Phases, InPhase
  <2>3. req[r].key \in Keys
    BY <2>1, <2>2 DEF EInv, CInv, IInv, TypeOK
  <2> QED BY <2>1, <2>3, NoneAssumption DEF SentOf
<1>3. ASSUME NEW k \in Keys
      PROVE  \E g : g \in Injection(Claimants(k), 0..expired[k])
  <2>1. PICK n : n = Cardinality(Claimants(k))
    OBVIOUS
  <2>2. IsFiniteSet(Claimants(k))
    BY RequestsAssumption, FS_Subset DEF Claimants
  <2>3. n \in Nat /\ ExistsBijection(1..n, Claimants(k))
    BY <2>1, <2>2, FS_CardinalityType
  <2>4. n <= expired[k] + 1 /\ expired[k] \in Nat
    <3>1. n <= expired[k] + Owned(k)
      BY <2>1 DEF EInv, CInv, IInv, Counted
    <3> QED BY <1>1, <2>3, <3>1 DEF Owned
  <2>5. PICK f : f \in Bijection(1..n, Claimants(k))
    BY <2>3 DEF ExistsBijection
  <2>6. /\ f \in [1..n -> Claimants(k)]
        /\ \A i, j \in 1..n : f[i] = f[j] => i = j
        /\ \A q \in Claimants(k) : \E i \in 1..n : f[i] = q
    BY <2>5 DEF Bijection, Injection, Surjection, IsInjective
  <2>7. PICK g : g = [q \in Claimants(k) |-> (CHOOSE i \in 1..n : f[i] = q) - 1]
    OBVIOUS
  <2>8. ASSUME NEW q \in Claimants(k)
        PROVE  g[q] \in 0..expired[k] /\ f[g[q] + 1] = q
    <3>1. PICK i : i = CHOOSE j \in 1..n : f[j] = q
      OBVIOUS
    <3>2. i \in 1..n /\ f[i] = q
      BY <2>6, <3>1
    <3>3. g[q] = i - 1
      BY <2>7, <3>1
    <3>4. i \in Nat /\ i - 1 \in 0..expired[k] /\ (i - 1) + 1 = i
      BY <2>3, <2>4, <3>2
    <3> QED BY <3>2, <3>3, <3>4
  <2>9. g \in [Claimants(k) -> 0..expired[k]]
    BY <2>7, <2>8
  <2>10. \A p, q \in Claimants(k) : g[p] = g[q] => p = q
    BY <2>8
  <2> QED BY <2>9, <2>10 DEF Injection, IsInjective
<1>4. PICK rank : rank = [k \in Keys |-> CHOOSE g : g \in Injection(Claimants(k), 0..expired[k])]
  OBVIOUS
<1>5. \A k \in Keys : rank[k] \in Injection(Claimants(k), 0..expired[k])
  BY <1>3, <1>4
<1>6. PICK f : f = [r \in C |-> <<req[r].key, rank[req[r].key][r]>>]
  OBVIOUS
<1>7. ASSUME NEW r \in C
      PROVE  /\ rank[req[r].key][r] \in 0..expired[req[r].key] /\ f[r] \in P
             /\ f[r][1] = req[r].key /\ f[r][2] = rank[req[r].key][r]
  <2>1. r \in Claimants(req[r].key)
    BY <1>2 DEF Claimants
  <2>2. rank[req[r].key][r] \in 0..expired[req[r].key]
    BY <1>2, <1>5, <2>1 DEF Injection
  <2>3. expired[req[r].key] \in Nat /\ expired[req[r].key] <= MaxExpiries
    BY <1>1, <1>2 DEF EInv, Capped
  <2>4. rank[req[r].key][r] \in 0..MaxExpiries /\ rank[req[r].key][r] <= expired[req[r].key]
    BY <1>1, <2>2, <2>3
  <2>5. f[r] = <<req[r].key, rank[req[r].key][r]>>
    BY <1>6
  <2> QED BY <1>2, <2>2, <2>4, <2>5
<1>8. f \in Injection(C, P)
  <2>1. f \in [C -> P]
    BY <1>6, <1>7
  <2>2. ASSUME NEW p \in C, NEW q \in C, f[p] = f[q] PROVE p = q
    <3>1. PICK k \in Keys : k = req[p].key /\ k = req[q].key
      BY <1>2, <1>7, <2>2
    <3>2. rank[k][p] = rank[k][q]
      BY <1>7, <2>2, <3>1
    <3>3. p \in Claimants(k) /\ q \in Claimants(k)
      BY <1>2, <3>1 DEF Claimants
    <3> QED BY <1>5, <3>2, <3>3 DEF Injection, IsInjective
  <2> QED BY <2>1, <2>2 DEF Injection, IsInjective
<1>9. IsFiniteSet(P) /\ IsFiniteSet(P1) /\ IsFiniteSet(Z)
  <2>1. IsFiniteSet(0..MaxExpiries)
    BY <1>1, FS_Interval
  <2>2. IsFiniteSet(SentOf(s) \X (0..MaxExpiries))
    BY <1>1, <2>1, FS_Product
  <2>3. P \in SUBSET (SentOf(s) \X (0..MaxExpiries)) /\ P1 \in SUBSET (SentOf(s) \X (0..MaxExpiries))
        /\ Z \in SUBSET (SentOf(s) \X (0..MaxExpiries))
    BY <1>1
  <2> QED BY <2>2, <2>3, FS_Subset
<1>10. Cardinality(C) <= Cardinality(P)
  BY <1>8, <1>9, FS_Injection
<1>11. P = P1 \cup Z
  BY <1>1
<1>12. Cardinality(Z) <= Cardinality(SentOf(s))
  <2>1. PICK g : g = [x \in Z |-> x[1]]
    OBVIOUS
  <2>2. \A x \in Z : g[x] = x[1] /\ x[1] \in SentOf(s) /\ x = <<x[1], 0>>
    BY <2>1
  <2>3. g \in Injection(Z, SentOf(s))
    BY <2>1, <2>2 DEF Injection, IsInjective
  <2> QED BY <1>1, <2>3, FS_Injection
<1>13. Cardinality(P) <= Cardinality(P1) + Cardinality(Z)
  <2>1. Cardinality(P1 \cup Z) = Cardinality(P1) + Cardinality(Z) - Cardinality(P1 \cap Z)
    BY <1>9, FS_Union
  <2>2. IsFiniteSet(P1 \cap Z)
    BY <1>9, FS_Intersection
  <2>3. Cardinality(P1 \cap Z) \in Nat /\ Cardinality(P1) \in Nat /\ Cardinality(Z) \in Nat
    BY <1>9, <2>2, FS_CardinalityType
  <2> HIDE DEF P, P1, Z
  <2> QED BY <1>11, <2>1, <2>3
<1>14. IsFiniteSet(C)
  BY <1>8, <1>9, FS_Injection
<1>15. /\ Cardinality(C) \in Nat /\ Cardinality(P) \in Nat /\ Cardinality(P1) \in Nat
       /\ Cardinality(Z) \in Nat /\ Cardinality(SentOf(s)) \in Nat
  BY <1>1, <1>9, <1>14, FS_CardinalityType
<1>16. Cardinality(C) <= Cardinality(SentOf(s)) + Cardinality(P1)
  BY <1>10, <1>12, <1>13, <1>15
<1> QED BY <1>16

LEMMA ExcusesSuffice == EInv => RepeatsAreExcused
<1> SUFFICES ASSUME EInv, NEW s \in Slots
             PROVE  Cardinality({r \in CallsOf(s) : req[r].ran # "no"}) <= 1 + Excuses(s)
  BY DEF RepeatsAreExcused
<1> DEFINE E == {r \in CallsOf(s) : req[r].ran # "no"}
           C == {r \in CallsOf(s) : req[r].ran = "claimed"}
           O == {r \in CallsOf(s) : req[r].ran = "open"}
           D == {r \in CallsOf(s) : call[r].evicted /\ req[r].reply.status = "final"}
           X == {x \in SentOf(s) \X (1..MaxExpiries) : x[2] <= expired[x[1]]}
<1>1. \A r \in CallsOf(s) : req[r].ran \in {"no", "claimed", "open"} /\ r \in Requests
  BY DEF CallsOf, EInv, CInv, IInv, TypeOK, Request
<1>2. E = C \cup O
  BY <1>1
<1>3. IsFiniteSet(C) /\ IsFiniteSet(O) /\ IsFiniteSet(E) /\ IsFiniteSet(X)
  <2>1. C \in SUBSET CallsOf(s) /\ O \in SUBSET CallsOf(s) /\ E \in SUBSET CallsOf(s)
    OBVIOUS
  <2>2. IsFiniteSet(C) /\ IsFiniteSet(O) /\ IsFiniteSet(E)
    BY <2>1, FiniteSets, FS_Subset
  <2>3. IsFiniteSet(1..MaxExpiries)
    BY BoundsAssumption, FS_Interval
  <2>4. IsFiniteSet(SentOf(s) \X (1..MaxExpiries))
    BY <2>3, FiniteSets, FS_Product
  <2>5. X \in SUBSET (SentOf(s) \X (1..MaxExpiries))
    OBVIOUS
  <2>6. IsFiniteSet(X)
    BY <2>4, <2>5, FS_Subset
  <2> QED BY <2>2, <2>6
<1>4. /\ Cardinality(C) \in Nat /\ Cardinality(O) \in Nat /\ Cardinality(E) \in Nat
      /\ Cardinality(X) \in Nat /\ Cardinality(SentOf(s)) \in Nat
  BY <1>3, FiniteSets, FS_CardinalityType
<1>5. Cardinality(E) <= Cardinality(C) + Cardinality(O)
  <2>1. Cardinality(C \cup O) = Cardinality(C) + Cardinality(O) - Cardinality(C \cap O)
    BY <1>3, FS_Union
  <2>2. IsFiniteSet(C \cap O)
    BY <1>3, FS_Intersection
  <2>3. Cardinality(C \cap O) \in Nat
    BY <2>2, FS_CardinalityType
  <2> HIDE DEF E, C, O, D, X
  <2> QED BY <1>2, <1>4, <2>1, <2>3
<1>6. Cardinality(C) <= Cardinality(SentOf(s)) + Cardinality(X)
  BY ClaimsAreCounted
<1>7. D = Dropping(s)
  BY <1>1 DEF Dropping, EInv, Dropped
<1>8. Cardinality(UuidsOf(s)) <= Cardinality(HeldBy(s))
  <2>1. UuidsOf(s) \in SUBSET HeldBy(s)
    BY DEF HeldBy
  <2> QED BY <2>1, FiniteSets, FS_Subset
<1>9. Cardinality(HeldBy(s)) <= overwritten[s] + Cardinality(Dropping(s)) + Full(s)
  BY DEF EInv, KeysCounted
<1>10. overwritten[s] \in Nat /\ Full(s) \in 0..1
  BY DEF EInv, CInv, ClientTypeOK, Full
<1>11. Excuses(s) = Cardinality(D) + overwritten[s]
                       + (Cardinality(SentOf(s)) - Cardinality(UuidsOf(s)))
                       + Cardinality(O) + Cardinality(X)
  BY DEF Excuses
<1>12. Cardinality(HeldBy(s)) \in Nat /\ Cardinality(D) \in Nat /\ Cardinality(UuidsOf(s)) \in Nat
  BY <1>7, FiniteSets, FS_CardinalityType
<1> HIDE DEF E, C, O, D, X
<1>13. Cardinality(E) <= 1 + Excuses(s)
  BY <1>4, <1>5, <1>6, <1>7, <1>8, <1>9, <1>10, <1>11, <1>12
<1> QED BY <1>13 DEF E

\* The handler of the submissions that share a record of the key store runs
\* once, and again only for a reason: a final answer that made the client drop
\* its key, a race of two first attempts, a key sent from a further address
\* (_build_cache_key), an expiry or an outage of Redis.
THEOREM RepeatsHaveReasons == Spec => []RepeatsAreExcused
<1>1. Spec => []CInv
  BY ClientInductive
<1>2. []CInv /\ Spec => []EInv
  <2>1. EInv /\ CInv' /\ [Next]_vars => EInv'
    BY StepEInv
  <2>2. Init => EInv
    BY InitEInv
  <2> QED BY <2>1, <2>2, PTL DEF Spec
<1>3. EInv => RepeatsAreExcused
  BY ExcusesSuffice
<1> QED BY <1>1, <1>2, <1>3, PTL
=============================================================================
