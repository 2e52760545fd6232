------------------------- MODULE IdempotencyClient --------------------------
(***************************************************************************)
(* The web client in front of the idempotency middleware.  apiFetch looks  *)
(* the key of a submission up in IndexedDB under method, path and a 32-bit *)
(* hash of the body, mints one if there is none, sends the request, and    *)
(* drops the record when it is answered by any 2xx or 4xx; a 5xx leaves it *)
(* for the next attempt.  So does a fetch that rejects, before or after    *)
(* the request arrived, and a closed tab: such a call takes no more steps. *)
(*                                                                         *)
(* Every call of apiFetch is one request r of the middleware, which files  *)
(* it under the client's key and the address the request came from.        *)
(***************************************************************************)
EXTENDS Idempotency

CONSTANTS
    Slots,      \* records of IndexedDB: the values the hash of a body takes
    Uuids,      \* the keys a client mints
    Addresses   \* the addresses its requests can come from

ASSUME KeysAssumption == Keys = Uuids \X Addresses /\ None \notin Uuids

VARIABLES
    digest,     \* digest[b]: the slot of body b; two bodies may share one
    store,      \* store[s]: the key recorded in slot s
    minted,     \* the keys handed out so far
    call,       \* call[r]: where call r is in apiFetch
    overwritten \* history: records that a racing call replaced, per slot

clientVars == <<digest, store, minted, call, overwritten>>
vars == <<serverVars, clientVars>>

Call == [pc : {"idle", "save", "send", "wait", "evict", "over"},
         body : Bodies \cup {None}, key : Uuids \cup {None}, evicted : BOOLEAN]

NoCall == [pc |-> "idle", body |-> None, key |-> None, evicted |-> FALSE]

Slot(r) == digest[call[r].body]

Init ==
    /\ ServerInit
    /\ digest \in [Bodies -> Slots]
    /\ store = [s \in Slots |-> None]
    /\ minted = {}
    /\ call = [r \in Requests |-> NoCall]
    /\ overwritten = [s \in Slots |-> 0]

-----------------------------------------------------------------------------

\* getOrCreateIdempotencyKey finds a record.
SubmitAgain(r, b) ==
    /\ call[r].pc = "idle" /\ store[digest[b]] # None
    /\ call' = [call EXCEPT ![r] = [NoCall EXCEPT !.pc = "send", !.body = b,
                                                  !.key = store[digest[b]]]]
    /\ UNCHANGED <<serverVars, digest, store, minted, overwritten>>

\* It finds none and mints a UUID; the record is written a step later.
SubmitFresh(r, b) ==
    /\ call[r].pc = "idle" /\ store[digest[b]] = None
    /\ \E k \in Uuids \ minted :
          /\ minted' = minted \cup {k}
          /\ call' = [call EXCEPT ![r] = [NoCall EXCEPT !.pc = "save", !.body = b,
                                                        !.key = k]]
    /\ UNCHANGED <<serverVars, digest, store, overwritten>>

SaveKey(r) ==
    /\ call[r].pc = "save"
    /\ store' = [store EXCEPT ![Slot(r)] = call[r].key]
    /\ overwritten' = IF store[Slot(r)] = None THEN overwritten
                      ELSE [overwritten EXCEPT ![Slot(r)] = @ + 1]
    /\ call' = [call EXCEPT ![r].pc = "send"]
    /\ UNCHANGED <<serverVars, digest, minted>>

\* _build_cache_key; the path is the one the key was minted for.
CacheKey(k, address) == <<k, address>>

\* fetch: the request reaches the middleware, from the address the client has now.
Send(r) ==
    /\ call[r].pc = "send"
    /\ \E a \in Addresses : Receive(r, CacheKey(call[r].key, a), call[r].body)
    /\ call' = [call EXCEPT ![r].pc = "wait"]
    /\ UNCHANGED <<digest, store, minted, overwritten>>

\* Faulty variant of ReceiveReply: a 5xx drops the record as well.
ReceiveAnyReply(r) ==
    /\ call[r].pc = "wait" /\ req[r].pc = "replied"
    /\ call' = [call EXCEPT ![r].pc = "evict"]
    /\ UNCHANGED <<serverVars, digest, store, minted, overwritten>>

\* The answer arrives; a 5xx ends the call at once.
ReceiveReply(r) ==
    /\ call[r].pc = "wait" /\ req[r].pc = "replied"
    /\ call' = [call EXCEPT ![r].pc = IF req[r].reply.status = "5xx" THEN "over" ELSE "evict"]
    /\ UNCHANGED <<serverVars, digest, store, minted, overwritten>>

\* Faulty variant of Evict: the record is marked and not deleted.
EvictMarking(r) ==
    /\ call[r].pc = "evict"
    /\ store' = [store EXCEPT ![Slot(r)] = "resolved"]
    /\ call' = [call EXCEPT ![r] = [@ EXCEPT !.pc = "over", !.evicted = TRUE]]
    /\ UNCHANGED <<serverVars, digest, minted, overwritten>>

\* evictIdempotencyKey deletes whatever key the slot holds by now.
Evict(r) ==
    /\ call[r].pc = "evict"
    /\ store' = [store EXCEPT ![Slot(r)] = None]
    /\ call' = [call EXCEPT ![r] = [@ EXCEPT !.pc = "over", !.evicted = TRUE]]
    /\ UNCHANGED <<serverVars, digest, minted, overwritten>>

-----------------------------------------------------------------------------

Fetch(r) ==
    \/ \E b \in Bodies : SubmitAgain(r, b) \/ SubmitFresh(r, b)
    \/ SaveKey(r) \/ Send(r) \/ ReceiveReply(r) \/ Evict(r)

Next ==
    \/ \E r \in Requests : Fetch(r) \/ (Serve(r) /\ UNCHANGED clientVars)
    \/ \E k \in Keys : Expire(k) /\ UNCHANGED clientVars

Spec == Init /\ [][Next]_vars

-----------------------------------------------------------------------------
(* Properties. *)

ClientTypeOK ==
    /\ TypeOK
    /\ digest \in [Bodies -> Slots]
    /\ store \in [Slots -> Uuids \cup {None}]
    /\ minted \subseteq Uuids
    /\ call \in [Requests -> Call]
    /\ overwritten \in [Slots -> Nat]

CallsOf(s) == {r \in Requests : call[r].pc # "idle" /\ Slot(r) = s}

SentOf(s)  == {req[r].key : r \in CallsOf(s)} \ {None}
UuidsOf(s) == {k[1] : k \in SentOf(s)}

\* How often a final answer dropped the record of slot s, a racing call
\* replaced it, its key was sent from a further address, a request failed open,
\* the entry of a key sent from it expired.
Excuses(s) ==
    Cardinality({r \in CallsOf(s) : call[r].evicted /\ req[r].reply.status = "final"})
      + overwritten[s]
      + (Cardinality(SentOf(s)) - Cardinality(UuidsOf(s)))
      + Cardinality({r \in CallsOf(s) : req[r].ran = "open"})
      + Cardinality({x \in SentOf(s) \X (1..MaxExpiries) : x[2] <= expired[x[1]]})

\* End to end, however often and in whatever order the user submits, retries,
\* loses answers, moves between networks and closes tabs: the handler runs once
\* for a submission, and again only for an answer that dropped its record, a race
\* of two first attempts, a retry from another address, an expiry or an outage of
\* Redis.
RepeatsAreExcused ==
    \A s \in Slots :
        Cardinality({r \in CallsOf(s) : req[r].ran # "no"}) <= 1 + Excuses(s)
=============================================================================
