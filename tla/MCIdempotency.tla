--------------------------- MODULE MCIdempotency ----------------------------
EXTENDS IdempotencyClient, TLC

CONSTANTS q1, q2, q3, k1, k2, a1, a2, b1, b2, x

MCRequests == {q1, q2, q3}
MCUuids    == {k1, k2}
MCAddresses == {a1, a2}
MCKeys     == MCUuids \X MCAddresses
MCBodies   == {b1, b2}
MCSlots    == {x}

IdempotencySymmetry ==
    Permutations(MCRequests) \cup Permutations(MCUuids) \cup Permutations(MCAddresses)
        \cup Permutations(MCBodies)
=============================================================================
