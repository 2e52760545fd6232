---------------------------- MODULE MCLoginFlow -----------------------------
EXTENDS LoginFlow, TLC

CONSTANTS r1, r2, l1, l2, t1, t2, c1

MCRequests == {r1, r2}
MCLinks    == {l1, l2}
MCTokens   == {t1, t2}
MCCodes    == {c1}

LoginSymmetry ==
    Permutations(MCRequests) \cup Permutations(MCLinks) \cup Permutations(MCTokens)
        \cup Permutations(MCCodes)
=============================================================================
