------------------------------ MODULE MCOutbox ------------------------------
EXTENDS Outbox, TLC

CONSTANTS w1, w2, lockout, verify

MCEvents   == 1..4
MCHandlers == {lockout, verify}
MCWorkers  == {w1, w2}

\* Event 1 has no subscriber and event 2 two; nobody knows event 3, and event 4
\* is a row whose payload its class refuses.  A batch takes two of them.
MCKindOf     == <<"known", "known", "unknown", "incompatible">>
MCHandlersOf == <<<<>>, <<lockout, verify>>, <<>>, <<lockout>>>>

\* Two decodable events.
TwoEvents     == 1..2
TwoKindOf     == <<"known", "known">>
TwoHandlersOf == <<<<lockout, verify>>, <<lockout>>>>

\* The older of the two rows has a payload its class refuses.
OldIncompatible == <<"incompatible", "known">>
=============================================================================
