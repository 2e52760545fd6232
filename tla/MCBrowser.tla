------------------------------ MODULE MCBrowser -----------------------------
EXTENDS Browser, TLC

CONSTANTS s1, a1, c1, c2

MCSessions == {s1, a1}
MCAdmins   == {a1}
MCCalls    == {c1, c2}
MCSymmetry == Permutations(MCCalls)

\* A login and two refreshes of s1, which can overlap each other and a logout.
MCMaxMint == (s1 :> 3) @@ (a1 :> 1)
=============================================================================
