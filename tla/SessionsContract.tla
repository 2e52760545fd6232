--------------------------- MODULE SessionsContract -------------------------
(***************************************************************************)
(* What the sessions of a user promise, with nothing of versions, of Redis *)
(* commands or of how far a request has got: a session is created, is      *)
(* refreshed while it is active and is revoked for good; each creation and *)
(* refresh mints one access token and owes its publication, which happens  *)
(* at most once; and no token is usable that was not published, though any *)
(* may cease to be.  A token that is owed when its session is revoked may  *)
(* still be published: that much the code leaves to the time to live.      *)
(***************************************************************************)
EXTENDS Naturals

CONSTANT Sessions

VARIABLES
    state,      \* state[s]: "none", "active" or "revoked"
    minted,     \* minted[s]: tokens minted for s, which are <<s, 0>>, <<s, 1>>, ...
    owed,       \* tokens minted and not published yet
    usable      \* tokens get_current_user accepts

contractVars == <<state, minted, owed, usable>>

Init ==
    /\ state = [s \in Sessions |-> "none"]
    /\ minted = [s \in Sessions |-> 0]
    /\ owed = {} /\ usable = {}

Create(s) ==
    /\ state[s] = "none"
    /\ state' = [state EXCEPT ![s] = "active"]
    /\ minted' = [minted EXCEPT ![s] = 1]
    /\ owed' = owed \cup {<<s, 0>>}
    /\ UNCHANGED usable

Refresh(s) ==
    /\ state[s] = "active"
    /\ minted' = [minted EXCEPT ![s] = @ + 1]
    /\ owed' = owed \cup {<<s, minted[s]>>}
    /\ UNCHANGED <<state, usable>>

\* One session, or all that were found active: together.
Revoke(S) ==
    /\ \A s \in S : state[s] = "active"
    /\ state' = [s \in Sessions |-> IF s \in S THEN "revoked" ELSE state[s]]
    /\ UNCHANGED <<minted, owed, usable>>

\* Older tokens may be evicted with it.
Publish(t) ==
    /\ t \in owed
    /\ owed' = owed \ {t}
    /\ t \in usable' /\ usable' \subseteq usable \cup {t}
    /\ UNCHANGED <<state, minted>>

\* Evicted, expired, or never published because its request died.
Fade ==
    /\ usable' \subseteq usable /\ owed' \subseteq owed
    /\ UNCHANGED <<state, minted>>

Next ==
    \/ \E s \in Sessions : Create(s) \/ Refresh(s)
    \/ \E S \in SUBSET Sessions : Revoke(S)
    \/ \E t \in owed : Publish(t)
    \/ Fade

Spec == Init /\ [][Next]_contractVars
=============================================================================
