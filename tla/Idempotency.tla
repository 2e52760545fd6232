---------------------------- MODULE Idempotency -----------------------------
(***************************************************************************)
(* IdempotencyMiddleware around the mutating routes, and the entries it    *)
(* keeps in Redis: a request claims its key with SET NX EX, runs the       *)
(* handler, overwrites the entry with the answer (SET EX, unconditionally) *)
(* and sends it; a request that finds the key claimed reads the entry and  *)
(* answers from it.  When Redis does not answer it "fails open": it runs   *)
(* the handler without protection.                                         *)
(*                                                                         *)
(* Nothing obliges a request to go on.  One whose process dies or whose    *)
(* task is cancelled takes no more steps, and its claim stays until it     *)
(* expires: no code of the middleware runs on either.                      *)
(*                                                                         *)
(* A key stands for actor, path and Idempotency-Key, a body for its hash,  *)
(* an answer for its status and the request whose handler produced it.     *)
(***************************************************************************)
EXTENDS Naturals, FiniteSets

CONSTANTS
    Requests,   \* HTTP requests, each handled once
    Keys,
    Bodies,
    None,       \* no entry, no key, no request
    MaxExpiries \* bound: when the entry of a key has expired this often, none does
                \* any more

ASSUME RequestsAssumption == IsFiniteSet(Requests)
ASSUME NoneAssumption == None \notin Requests /\ None \notin Keys /\ None \notin Bodies
ASSUME BoundsAssumption == MaxExpiries \in Nat

VARIABLES
    entry,      \* entry[k]: the value of the key in Redis, None if it has none
    req,        \* req[r]: request r
    expired     \* history: how often the entry of each key has expired

serverVars == <<entry, req, expired>>

\* "final": any 2xx or 4xx.
Outcomes == {"final", "5xx"}
Answer   == [status : Outcomes, by : Requests \cup {None}]

Entry == [state : {"in_flight", "done"}, body : Bodies, answer : Answer \cup {None}]

ASSUME NoneIsNoEntry == None \notin Entry /\ None \notin Answer

(* pc: "claim" and "lookup" wait for Redis, "run" for the handler,          *)
(* "complete" to store the answer; ran: whether its handler was started,    *)
(* under the claim of its key or failing open; reply: the answer sent.      *)
Request == [pc : {"idle", "claim", "lookup", "run", "complete", "replied"},
            key : Keys \cup {None}, body : Bodies \cup {None},
            ran : {"no", "claimed", "open"}, result : Outcomes \cup {None},
            reply : Answer \cup {None}]

NotSent == [pc |-> "idle", key |-> None, body |-> None, ran |-> "no",
            result |-> None, reply |-> None]

ServerInit ==
    /\ entry = [k \in Keys |-> None]
    /\ req = [r \in Requests |-> NotSent]
    /\ expired = [k \in Keys |-> 0]

InFlight(r)  == [state |-> "in_flight", body |-> req[r].body, answer |-> None]
Finished(r)  == [state |-> "done", body |-> req[r].body,
                 answer |-> [status |-> req[r].result, by |-> r]]
Go(r, pc)    == req' = [req EXCEPT ![r].pc = pc]
Start(r, as) == req' = [req EXCEPT ![r] = [@ EXCEPT !.pc = "run", !.ran = as]]
Reply(r, a)  == req' = [req EXCEPT ![r] = [@ EXCEPT !.pc = "replied", !.reply = a]]

-----------------------------------------------------------------------------

\* A mutating request with a key arrives.
Receive(r, k, b) ==
    /\ req[r].pc = "idle"
    /\ req' = [req EXCEPT ![r] = [@ EXCEPT !.pc = "claim", !.key = k, !.body = b]]
    /\ UNCHANGED <<entry, expired>>

\* Faulty variant of Claim: SET without NX.
ClaimPlainSet(r) ==
    /\ req[r].pc = "claim"
    /\ entry' = [entry EXCEPT ![req[r].key] = InFlight(r)]
    /\ Start(r, "claimed")
    /\ UNCHANGED expired

\* SET NX EX succeeds: this request runs the handler.
Claim(r) ==
    /\ req[r].pc = "claim" /\ entry[req[r].key] = None
    /\ entry' = [entry EXCEPT ![req[r].key] = InFlight(r)]
    /\ Start(r, "claimed")
    /\ UNCHANGED expired

ClaimTaken(r) ==
    /\ req[r].pc = "claim" /\ entry[req[r].key] # None
    /\ Go(r, "lookup")
    /\ UNCHANGED <<entry, expired>>

\* StoreUnavailable: the SET may have reached Redis all the same.
ClaimUnavailable(r) ==
    /\ req[r].pc = "claim"
    /\ \/ UNCHANGED entry
       \/ /\ entry[req[r].key] = None
          /\ entry' = [entry EXCEPT ![req[r].key] = InFlight(r)]
    /\ Start(r, "open")
    /\ UNCHANGED expired

\* _handle_existing: 409 while in flight, whatever the body; 422 for another
\* body.  Neither is the answer of any handler.
RefuseExisting(r) ==
    /\ req[r].pc = "lookup"
    /\ LET e == entry[req[r].key]
       IN  e # None /\ (e.state = "in_flight" \/ e.body # req[r].body)
    /\ Reply(r, [status |-> "final", by |-> None])
    /\ UNCHANGED <<entry, expired>>

\* Faulty variant of ReplayExisting: the body is not compared.
ReplayAnyBody(r) ==
    /\ req[r].pc = "lookup"
    /\ LET e == entry[req[r].key]
       IN  e # None /\ e.state = "done" /\ Reply(r, e.answer)
    /\ UNCHANGED <<entry, expired>>

ReplayExisting(r) ==
    /\ req[r].pc = "lookup"
    /\ LET e == entry[req[r].key]
       IN  e # None /\ e.state = "done" /\ e.body = req[r].body /\ Reply(r, e.answer)
    /\ UNCHANGED <<entry, expired>>

\* The entry expired between SET NX and GET, or the GET fails.
LookupFails(r) ==
    /\ req[r].pc = "lookup"
    /\ Start(r, "open")
    /\ UNCHANGED <<entry, expired>>

\* The handler returns, or raises and becomes a 500.
RunHandler(r) ==
    /\ req[r].pc = "run" /\ req[r].ran = "claimed"
    /\ \E outcome \in Outcomes :
          req' = [req EXCEPT ![r] = [@ EXCEPT !.pc = "complete", !.result = outcome]]
    /\ UNCHANGED <<entry, expired>>

\* Its answer goes out and is not stored.
RunOpen(r) ==
    /\ req[r].pc = "run" /\ req[r].ran = "open"
    /\ \E outcome \in Outcomes :
          req' = [req EXCEPT ![r] =
                    [@ EXCEPT !.pc = "replied", !.result = outcome,
                              !.reply = [status |-> outcome, by |-> r]]]
    /\ UNCHANGED <<entry, expired>>

\* Faulty variant of Complete: a 500 releases the key instead of being stored.
CompleteReleasing(r) ==
    /\ req[r].pc = "complete"
    /\ entry' = [entry EXCEPT ![req[r].key] =
                    IF req[r].result = "5xx" THEN None ELSE Finished(r)]
    /\ Reply(r, Finished(r).answer)
    /\ UNCHANGED expired

\* complete, then the answer goes out; StoreUnavailable is logged only, and
\* the SET may or may not have reached Redis.
Complete(r) ==
    /\ req[r].pc = "complete"
    /\ \/ entry' = [entry EXCEPT ![req[r].key] = Finished(r)]
       \/ UNCHANGED entry
    /\ Reply(r, Finished(r).answer)
    /\ UNCHANGED expired

\* The time to live, 24 hours, of a claim or of an answer ends.
Expire(k) ==
    /\ entry[k] # None /\ \A j \in Keys : expired[j] < MaxExpiries
    /\ entry' = [entry EXCEPT ![k] = None]
    /\ expired' = [expired EXCEPT ![k] = @ + 1]
    /\ UNCHANGED req

-----------------------------------------------------------------------------

Serve(r) ==
    \/ Claim(r) \/ ClaimTaken(r) \/ ClaimUnavailable(r)
    \/ RefuseExisting(r) \/ ReplayExisting(r) \/ LookupFails(r)
    \/ RunHandler(r) \/ RunOpen(r) \/ Complete(r)

ServerNext ==
    \/ \E r \in Requests, k \in Keys, b \in Bodies : Receive(r, k, b)
    \/ \E r \in Requests : Serve(r)
    \/ \E k \in Keys : Expire(k)

\* Any client: keys and bodies come in every combination.
ServerSpec == ServerInit /\ [][ServerNext]_serverVars

-----------------------------------------------------------------------------
(* Properties of the middleware. *)

TypeOK ==
    /\ entry \in [Keys -> Entry \cup {None}]
    /\ req \in [Requests -> Request]
    /\ \A r \in Requests : req[r].pc # "idle" => req[r].key \in Keys /\ req[r].body \in Bodies
    /\ \A r \in Requests : req[r].pc = "complete" => req[r].result \in Outcomes
    /\ expired \in [Keys -> Nat]

Claimants(k) == {r \in Requests : req[r].key = k /\ req[r].ran = "claimed"}

\* A handler runs under the protection of one key once, and again only after
\* the key's entry has expired, whichever requests race, die or complete late.
RunsAreExpiries == \A k \in Keys : Cardinality(Claimants(k)) <= 1 + expired[k]

HasAnswer(r) == req[r].reply # None /\ req[r].reply.by # None

\* An answer that names a handler's request was produced by a handler for the
\* same key and the same body, with the status it was given then, also when a
\* late complete overwrites the entry of a later claim.
AnswersAreGenuine ==
    \A r \in Requests : HasAnswer(r) =>
        LET q == req[r].reply.by
        IN  /\ req[q].key = req[r].key /\ req[q].body = req[r].body
            /\ req[q].result = req[r].reply.status

\* Until its entry expires, all requests under one key that are answered by
\* a handler are answered by the same one, unless they failed open.
OneAnswerPerKey ==
    \A r, q \in Requests :
        /\ req[r].key = req[q].key
        /\ HasAnswer(r) /\ HasAnswer(q) /\ req[r].ran # "open" /\ req[q].ran # "open"
        /\ expired[req[r].key] = 0
        => req[r].reply.by = req[q].reply.by

\* The middleware implements its contract: its answers are those of executions
\* of the same key and body, a refused request never ran, and a protected
\* execution starts only when no entry is there.
Contract == INSTANCE IdempotencyContract WITH
    key      <- [r \in Requests |-> req[r].key],
    body     <- [r \in Requests |-> req[r].body],
    executed <- [r \in Requests |-> req[r].ran],
    outcome  <- [r \in Requests |-> req[r].result],
    answer   <- [r \in Requests |-> req[r].reply],
    taken    <- {k \in Keys : entry[k] # None}

ImplementsContract == Contract!Spec
=============================================================================
