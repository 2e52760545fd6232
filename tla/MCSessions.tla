----------------------------- MODULE MCSessions -----------------------------
EXTENDS Sessions, TLC

CONSTANTS s1, s2, p1, p2

MCSessions == {s1, s2}
MCRequests == {p1, p2}

\* One session is refreshed, the other only created and revoked.
MCMaxMint == (s1 :> 2) @@ (s2 :> 1)

OneSession == {s1}
OneMaxMint == s1 :> 2
=============================================================================
