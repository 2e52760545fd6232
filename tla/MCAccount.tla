------------------------------ MODULE MCAccount -----------------------------
EXTENDS Account, TLC

CONSTANTS r1, r2, d1

MCRequests   == {r1, r2}
MCDeliveries == {d1}

OneRequest == {r1}

=============================================================================
