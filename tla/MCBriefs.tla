------------------------------ MODULE MCBriefs ------------------------------
EXTENDS Briefs, TLC

CONSTANTS b1, b2, b3, p1, p2, j1, j2

MCBriefs  == {b1, b2, b3}
MCChanges == {p1, p2}

\* Every dependency on b2 is lost, because its number ends in a letter; b1 and b3
\* are each one edit away from half a cycle, and b2 reaches either on two ways if the
\* other depends on it; b3 has no usable state.
MCStatus == (b1 :> [state |-> "review", deps |-> {b2}])
         @@ (b2 :> [state |-> "ready", deps |-> {b1, b3}])
         @@ (b3 :> [state |-> "done", deps |-> {}])

MCJobs == {j1, j2}

MCWritten == {"ready", "merged"}

MCDependsOn == {{b1}, {b3}}

MCSuffixed == {b2}
=============================================================================
