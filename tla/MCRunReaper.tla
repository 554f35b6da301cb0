---------------------------- MODULE MCRunReaper ----------------------------
\* The instances of RunReaper that TLC checks.
EXTENDS RunReaper, TLC

\* One pool of workers of one kind.
OwnAll == [w \in Workers |-> Ords]

\* Nothing tells the runs apart.
Symmetric == Permutations(Runs)
=============================================================================
