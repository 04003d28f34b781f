---------------------------- MODULE MCOpfsStore -----------------------------
(***************************************************************************)
(* OpfsStore on small instances.  The tabs, the base files and the values  *)
(* are interchangeable.                                                    *)
(***************************************************************************)
EXTENDS OpfsStore, TLC

CONSTANTS t1, t2, k1, k2, v1, v2

OneTab  == {t1}
TwoTabs == {t1, t2}
NoTabs  == {}
Files   == {k1, k2}
OneValue  == {v1}
TwoValues == {v1, v2}

SyncedOps  == {"commit", "download", "ack"}
BareOps    == {"bare"}
WriteOps   == {"commit", "import", "clear"}

Symmetry == Permutations({t1, t2}) \cup Permutations(Files) \cup Permutations(TwoValues)
OneTabSymmetry == Permutations(Files) \cup Permutations(TwoValues)

\* A bound of the run that checks no compare-and-set: what a write leaves does not
\* depend on whether it compared the head, so only writes that did are followed.
OnlyCompared ==
    \A t \in Tab : task[t] # Idle /\ manifest # None /\ task[t].rev # manifest.head
                      => task[t].expected # None
=============================================================================
