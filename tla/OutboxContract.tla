--------------------------- MODULE OutboxContract ---------------------------
(***************************************************************************)
(* What the outbox promises to the code that records events and to the     *)
(* handlers that subscribe to them, with nothing of how it keeps the       *)
(* promise: an event is captured with the aggregate change, each handler   *)
(* that must see it sees it at least once, and only then is it retired.    *)
(***************************************************************************)
CONSTANTS Events, Handlers,
          Required      \* Required[e]: the handlers that must see event e

VARIABLES captured,     \* events whose unit of work committed
          delivered,    \* <<event, handler>> pairs whose effect is committed
          retired       \* events the publisher will never look at again

contractVars == <<captured, delivered, retired>>

Init == captured = {} /\ delivered = {} /\ retired = {}

Capture(e) ==
    /\ e \notin captured
    /\ captured' = captured \cup {e}
    /\ UNCHANGED <<delivered, retired>>

Deliver(e, h) ==
    /\ e \in captured \ retired
    /\ h \in Required[e]
    /\ delivered' = delivered \cup {<<e, h>>}
    /\ UNCHANGED <<captured, retired>>

Retire(S) ==
    /\ S \subseteq captured
    /\ \A e \in S : \A h \in Required[e] : <<e, h>> \in delivered
    /\ retired' = retired \cup S
    /\ UNCHANGED <<captured, delivered>>

Next ==
    \/ \E e \in Events : Capture(e)
    \/ \E e \in Events, h \in Handlers : Deliver(e, h)
    \/ \E S \in SUBSET Events : Retire(S)

Spec == Init /\ [][Next]_contractVars
=============================================================================
