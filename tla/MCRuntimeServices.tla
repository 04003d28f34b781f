-------------------------- MODULE MCRuntimeServices --------------------------
(***************************************************************************)
(* Five components that share no state in these models, each on a small    *)
(* instance.  The initial state chooses the one that moves; a product of    *)
(* their interleavings would say nothing more about any of them.           *)
(***************************************************************************)
EXTENDS GraphPersistence, ConversationRepository, MemoryLedger,
        RecallGeneration, HistoryRollback

CONSTANTS a, b, e1, e2, x1, f1, k1, v1, r1

BothChats == {a, b}
TwoEdits  == {e1, e2}
OneBatch  == {x1}
OneOther  == {f1}
OneReader == {r1}
AllInA    == [i \in {e1, e2, x1, f1} |-> a]

VARIABLE focus

services == <<persistVars, repositoryVars, ledgerVars, recallVars, vars>>

\* What only differs in name is explored once: the edit made first is e1, and the
\* first commit of the ledger has the key k1 and the payload v1.
EditsInOrder == e2 \in used => e1 \in used

CommitsInOrder == ledger # <<>> => ledger[1].key = k1 /\ ledger[1].payload = v1

\* A bound: the restore lock is used before the chat is left. The next visit starts
\* without it, and would only repeat what it does.
LockedBeforeLeaving == ps.locked => lease = 1

\* A bound: either the store refuses a write or another context commits, not both in
\* one behaviour.
RefusedOrRaced == f1 \in used => count.fails = 0

\* A bound: in the chat entered second one request is made; the first visit and the
\* Progress run have requests that meet each other.
OneRequestLater == visit > 1 => coord.asked <= 1

ServicesInit ==
    /\ focus \in {"persistence", "repository", "ledger", "recall", "history"}
    /\ PersistInit /\ RepositoryInit /\ LedgerInit /\ RecallInit /\ Init
    /\ chat = a /\ home[1] = a
    /\ focus # "persistence" => auto = FALSE

PersistenceMoves ==
    /\ focus = "persistence" /\ PersistNext
    /\ EditsInOrder' /\ LockedBeforeLeaving' /\ RefusedOrRaced'
    /\ UNCHANGED <<focus, repositoryVars, ledgerVars, recallVars, vars>>

RepositoryMoves ==
    /\ focus = "repository" /\ RepositoryNext
    /\ UNCHANGED <<focus, persistVars, ledgerVars, recallVars, vars>>

LedgerMoves ==
    /\ focus = "ledger" /\ LedgerNext /\ CommitsInOrder'
    /\ UNCHANGED <<focus, persistVars, repositoryVars, recallVars, vars>>

RecallMoves ==
    /\ focus = "recall" /\ RecallNext
    /\ UNCHANGED <<focus, persistVars, repositoryVars, ledgerVars, vars>>

HistoryMoves ==
    /\ focus = "history" /\ Next /\ OneRequestLater'
    /\ UNCHANGED <<focus, persistVars, repositoryVars, ledgerVars, recallVars>>

ServicesNext == \/ PersistenceMoves
                \/ RepositoryMoves
                \/ LedgerMoves
                \/ RecallMoves
                \/ HistoryMoves

ServicesSpec == ServicesInit /\ [][ServicesNext]_<<focus, services>>
=============================================================================
