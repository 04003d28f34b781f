---------------------------- MODULE MCCloudSync ----------------------------
(***************************************************************************)
(* CloudSync with two browsers.                                            *)
(***************************************************************************)
EXTENDS CloudSync, TLC

CONSTANTS d1, d2

Devices == {d1, d2}
Swap    == Permutations(Devices)

\* A bound on what is explored: until a grace period has passed one browser
\* works at a time.
TakingTurns == day = 0 => Cardinality({d \in Device : ~At(d, "idle")}) <= 1
============================================================================
