-------------------------- MODULE MCAerialDispatch --------------------------
\* The instances of AerialDispatch that TLC checks.
EXTENDS AerialDispatch, TLC
CONSTANTS m1

OneMission == [r \in Requests |-> m1]
=============================================================================
