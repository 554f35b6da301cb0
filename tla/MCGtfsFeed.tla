----------------------------- MODULE MCGtfsFeed -----------------------------
\* The instances of GtfsFeed that TLC checks.
EXTENDS GtfsFeed, TLC
CONSTANTS first, refetch

\* The refetch is a third smaller.
SizeOf == first :> 6 @@ refetch :> 4
=============================================================================
