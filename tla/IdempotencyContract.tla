------------------------ MODULE IdempotencyContract -------------------------
(***************************************************************************)
(* What the idempotency middleware promises to whoever sends a mutating    *)
(* request with a key, with nothing of Redis or of how far a request has   *)
(* got: a request is executed at most once; under protection only if its   *)
(* key is not taken, and then takes it; and it is answered by its own      *)
(* execution, by an earlier one of the same key and body, or refused, in   *)
(* which case it never was executed.  A key is free again when it expires. *)
(***************************************************************************)
CONSTANTS Requests, Keys, Bodies, Outcomes,
          None      \* no key, no outcome, no answer; nobody

VARIABLES key, body,    \* what each request asks for
          executed,     \* "no", "claimed" or, without protection, "open"
          outcome,      \* what its execution came to
          answer,       \* the answer it was sent
          taken         \* the keys that are taken

contractVars == <<key, body, executed, outcome, answer, taken>>

Waiting(r) == key[r] # None /\ executed[r] = "no" /\ answer[r] = None
Send(r, status, by) == answer' = [answer EXCEPT ![r] = [status |-> status, by |-> by]]

Init ==
    /\ key = [r \in Requests |-> None] /\ body = [r \in Requests |-> None]
    /\ executed = [r \in Requests |-> "no"]
    /\ outcome = [r \in Requests |-> None] /\ answer = [r \in Requests |-> None]
    /\ taken = {}

Ask(r) ==
    /\ key[r] = None
    /\ \E k \in Keys, b \in Bodies :
          key' = [key EXCEPT ![r] = k] /\ body' = [body EXCEPT ![r] = b]
    /\ UNCHANGED <<executed, outcome, answer, taken>>

Execute(r) ==
    /\ key[r] \notin taken
    /\ executed' = [executed EXCEPT ![r] = "claimed"]
    /\ taken' = taken \cup {key[r]}
    /\ UNCHANGED <<key, body, outcome, answer>>

Finish(r) ==
    /\ executed[r] = "claimed" /\ outcome[r] = None
    /\ \E o \in Outcomes : outcome' = [outcome EXCEPT ![r] = o]
    /\ UNCHANGED <<key, body, executed, answer, taken>>

\* The answer is kept for those who ask again, and so is the key, also when it
\* had expired meanwhile.
AnswerOwn(r) ==
    /\ executed[r] = "claimed" /\ outcome[r] \in Outcomes /\ answer[r] = None
    /\ Send(r, outcome[r], r)
    /\ taken' \in {taken, taken \cup {key[r]}}
    /\ UNCHANGED <<key, body, executed, outcome>>

\* The same request again, in the eyes of the client.
Repeat(r) ==
    /\ key[r] \in taken
    /\ \E q \in Requests :
          /\ key[q] = key[r] /\ body[q] = body[r]
          /\ executed[q] = "claimed" /\ outcome[q] \in Outcomes
          /\ Send(r, outcome[q], q)
    /\ UNCHANGED <<key, body, executed, outcome, taken>>

Refuse(r) ==
    /\ key[r] \in taken
    /\ Send(r, "final", None)
    /\ UNCHANGED <<key, body, executed, outcome, taken>>

\* No promise without Redis, but that of one execution and its answer.
ExecuteUnprotected(r) ==
    /\ executed' = [executed EXCEPT ![r] = "open"]
    /\ taken' \in {taken, taken \cup {key[r]}}
    /\ UNCHANGED <<key, body, outcome, answer>>

FinishUnprotected(r) ==
    /\ executed[r] = "open" /\ outcome[r] = None /\ answer[r] = None
    /\ \E o \in Outcomes : outcome' = [outcome EXCEPT ![r] = o] /\ Send(r, o, r)
    /\ UNCHANGED <<key, body, executed, taken>>

Expire ==
    /\ taken' \subseteq taken
    /\ UNCHANGED <<key, body, executed, outcome, answer>>

Next ==
    \/ Expire
    \/ \E r \in Requests :
          \/ Ask(r)
          \/ Waiting(r) /\ (Execute(r) \/ Repeat(r) \/ Refuse(r) \/ ExecuteUnprotected(r))
          \/ Finish(r) \/ AnswerOwn(r) \/ FinishUnprotected(r)

Spec == Init /\ [][Next]_contractVars
=============================================================================
