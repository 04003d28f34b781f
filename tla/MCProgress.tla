----------------------------- MODULE MCProgress -----------------------------
(***************************************************************************)
(* The components of which something must eventually happen, each on a     *)
(* small instance and under its fairness.  They share no state in these    *)
(* models: the initial state chooses the one that moves.                   *)
(***************************************************************************)
EXTENDS HistoryRollback, AutoExtraction, BackgroundWork

CONSTANTS a, r1

Readers == {r1}

VARIABLE focus

ProgressInit ==
    /\ focus \in {"history", "extraction", "work"}
    /\ Init /\ ExtractionInit /\ WorkInit

HistoryMoves ==
    /\ focus = "history" /\ Next
    /\ UNCHANGED <<focus, extractionVars, workVars>>

ExtractionMoves ==
    /\ focus = "extraction" /\ ExtractionNext
    /\ UNCHANGED <<focus, vars, workVars>>

WorkMoves ==
    /\ focus = "work" /\ WorkNext
    /\ UNCHANGED <<focus, vars, extractionVars>>

ProgressNext == \/ HistoryMoves
                \/ ExtractionMoves
                \/ WorkMoves

ProgressSpec == /\ ProgressInit
                /\ [][ProgressNext]_<<focus, vars, extractionVars, workVars>>
                /\ Fairness /\ ExtractionFairness /\ WorkFairness
=============================================================================
