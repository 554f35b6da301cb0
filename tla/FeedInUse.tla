----------------------------- MODULE FeedInUse -----------------------------
(***************************************************************************)
(* What a transit feed promises to whoever reads it: at every moment it is *)
(* one version with all of its derived rows, or nothing at all; it changes *)
(* to another complete version in one step, and never shows a part of one. *)
(***************************************************************************)
CONSTANTS Versions, None, Complete

VARIABLES
    inUse,     \* the version readers are given, or None
    shown      \* the rows they find for it, or None

Init == inUse = None /\ shown = None

Adopt(v) == inUse' = v /\ shown' = Complete
Remove == inUse # None /\ inUse' = None /\ shown' = None

Next == Remove \/ \E v \in Versions : Adopt(v)
Spec == Init /\ [][Next]_<<inUse, shown>>
=============================================================================
