----------------------------- MODULE MCUpdates -----------------------------
(* Three releases, the last of them a prerelease; the first is installed.   *)
EXTENDS Updates

MCVersions == 1..3
MCBetas == {3}
MCFirstReleases == {1, 2}

\* Bound: after the second fault, what one request leads to is explored further.
Bound == faults > 1 => requests <= 1
=============================================================================
