------------------------ MODULE HistoryRollbackProofs ------------------------
(***************************************************************************)
(* Safety of HistoryRollback for any chats, readers, timers and bounds.    *)
(*                                                                         *)
(* TypeOK is proved first.  LockExact, StaleAttemptsStopped and            *)
(* PendingWatched hold together: which attempt the one controller slot     *)
(* reaches (SlotExact) and which request the timers can settle             *)
(* (ChecksKnown) complete them to an inductive invariant.  That a clean    *)
(* graph reflects what was announced (CleanReflects) then gives the read   *)
(* barrier.                                                                *)
(***************************************************************************)
EXTENDS HistoryRollback, TLAPS

\* The slot holds the controller of the running attempt of the current
\* visit, if there is one, and never that of a finished attempt.
SlotExact ==
    /\ slot # None => Running(slot)
    /\ Running(visit) => slot = visit
    /\ \A v \in Visit : v > visit => ~Running(v) /\ v \notin restoring

\* The recheck timers belong to the newest request that came from an event.
ChecksKnown ==
    ~coord.draining /\ coord.pending # None
        => recovery \/ (checks # None /\ checks.request = coord.pending)

\* A drain that has nothing pending has an attempt running.
DrainBusy ==
    /\ coord.draining /\ coord.pending = None => Running(visit)
    /\ Running(visit) => coord.draining

\* A clean graph reflects every deep mutation announced while it was in use.
CleanReflects ==
    /\ graph # None /\ ~graph.dirty => graph.of >= owed
    /\ graph = None => owed = 0
    /\ owed <= deep[Here]
    /\ \A c \in Chat : deep[c] <= structure[c]

\* Readers wait only for a drain that goes on, and never for a later visit.
WaitersDrained ==
    \A r \in Reader :
        /\ reader[r].visit <= visit
        /\ reader[r].at = "waiting" /\ reader[r].visit = visit => coord.draining

Control == /\ LockExact /\ StaleAttemptsStopped
           /\ SlotExact /\ DrainBusy /\ ChecksKnown

IInv == TypeOK /\ Control /\ CleanReflects /\ WaitersDrained

-----------------------------------------------------------------------------
(***************************************************************************)
(* Types.                                                                  *)
(***************************************************************************)

\* Marking and inspecting a graph yields a graph; only a graph is dirty.
LEMMA GraphType ==
    ASSUME NEW g \in Graph \cup {None}
    PROVE  /\ MarkDirty(g) \in Graph \cup {None}
           /\ Inspected(g) \in Graph \cup {None}
           /\ Dirty(g) => g \in Graph
  BY DEF MarkDirty, Inspected, Dirty, Graph

\* A reader's state stays one when a drain is resolved.
LEMMA ResolvedType ==
    ASSUME NEW readers \in [Reader -> ReaderState], NEW v, NEW ok, NEW g, NEW owners
    PROVE  Resolved(readers, v, ok, g, owners) \in [Reader -> ReaderState]
  BY ConstantsOK DEF Resolved, ReaderState, Away, Visit

\* The coordinator's bookkeeping keeps its type.
LEMMA CoordinatorType ==
    ASSUME NEW co \in Coordinator, NEW request \in Request, NEW ok \in BOOLEAN
    PROVE  /\ Finished(co, request, ok) \in Coordinator
           /\ Coord(co.asked, co.done, None, TRUE, co.ok) \in Coordinator
  BY ConstantsOK DEF Finished, Coord, Later, Coordinator, Request

\* A coordinator that may request has a request once it did.
LEMMA RequestedType ==
    ASSUME coord \in Coordinator, CanRequest
    PROVE  Requested(coord) \in Coordinator /\ Requested(coord).pending \in Request
  BY ConstantsOK DEF Requested, CanRequest, Coord, Coordinator, Request

\* Aborting the controller in the slot keeps the attempts' type.
LEMMA AbortingType ==
    ASSUME TypeOK PROVE Aborting \in [Visit -> Attempt \cup {NoAttempt}]
  <1>1. ASSUME NEW w \in Visit PROVE [attempt[w] EXCEPT !.aborted = TRUE] \in Attempt \cup {NoAttempt}
    <2>1. CASE attempt[w] \in Attempt
      BY <2>1 DEF Attempt
    <2>2. CASE attempt[w] = NoAttempt
      BY <2>2 DEF NoAttempt
    <2> QED BY <2>1, <2>2 DEF TypeOK
  <1> QED BY <1>1 DEF Aborting, TypeOK

\* What the parts of an attempt's steps assign.
Assigned == /\ graph' \in Graph \cup {None}
            /\ lock' \in SUBSET Owner
            /\ slot' \in Visit \cup {None}
            /\ attempt' \in [Visit -> Attempt \cup {NoAttempt}]
            /\ coord' \in Coordinator
            /\ reader' \in [Reader -> ReaderState]

\* Assigning nothing keeps the types.
LEMMA UnassignedType ==
    ASSUME TypeOK, UNCHANGED <<graph, lock, slot, attempt, coord, reader>>
    PROVE  Assigned
  BY DEF TypeOK, Assigned

\* Starting an attempt keeps the types.
LEMMA RunAttemptType ==
    ASSUME TypeOK, NEW co \in Coordinator, co.pending \in Request,
           NEW readers \in [Reader -> ReaderState], RunAttempt(co, readers)
    PROVE  Assigned
  <1> DEFINE g == Inspected(graph)
             next == Coord(co.asked, co.done, None, TRUE, co.ok)
             job == [pc |-> "checkpoint", request |-> co.pending,
                     print |-> structure[Here], start |-> g, aborted |-> FALSE]
  <1>1. g \in Graph \cup {None} /\ (Dirty(g) => g \in Graph)
    BY GraphType DEF TypeOK
  <1>2. next \in Coordinator
    BY CoordinatorType
  <1>3. \A ok \in BOOLEAN : Finished(next, co.pending, ok) \in Coordinator
    BY <1>2, CoordinatorType
  <1>4. \A ok \in BOOLEAN :
           Resolved(readers, visit, ok, g, lock) \in [Reader -> ReaderState]
    BY ResolvedType
  <1>5. Rollback(visit) \in Owner /\ visit \in Visit
    BY DEF TypeOK, Rollback, Owner
  <1>6. Dirty(g) => job \in Attempt
    BY <1>1 DEF TypeOK, Attempt, Here
  <1>7. attempt \in [Visit -> Attempt \cup {NoAttempt}] /\ lock \in SUBSET Owner
        /\ slot \in Visit \cup {None}
    BY DEF TypeOK
  <1>8. \/ \E ok \in BOOLEAN :
             /\ graph' = g /\ coord' = Finished(next, co.pending, ok)
             /\ reader' = Resolved(readers, visit, ok, g, lock)
             /\ UNCHANGED <<lock, slot, attempt>>
        \/ /\ Dirty(g) /\ graph' = g /\ lock' = {Rollback(visit)} /\ slot' = visit
           /\ attempt' = [attempt EXCEPT ![visit] = job]
           /\ coord' = next /\ reader' = readers
    BY DEF RunAttempt
  <1> HIDE DEF g, next, job
  <1> QED BY <1>1, <1>2, <1>3, <1>4, <1>5, <1>6, <1>7, <1>8 DEF Assigned

\* Ending an attempt keeps the types.
LEMMA EndType ==
    ASSUME TypeOK, NEW v \in Visit, Running(v), NEW ok \in BOOLEAN,
           NEW g \in Graph \cup {None}, End(v, ok, g)
    PROVE  Assigned
  <1>1. attempt[v] \in Attempt /\ attempt[v].request \in Request
    BY DEF TypeOK, Running, NoAttempt, Attempt
  <1>2. Finished(coord, attempt[v].request, ok) \in Coordinator
    BY <1>1, CoordinatorType DEF TypeOK
  <1>3. Resolved(reader, v, ok, g, Leave(lock, Rollback(v))) \in [Reader -> ReaderState]
    BY ResolvedType DEF TypeOK
  <1>4. reader \in [Reader -> ReaderState] /\ coord \in Coordinator
        /\ lock \in SUBSET Owner /\ slot \in Visit \cup {None}
        /\ attempt \in [Visit -> Attempt \cup {NoAttempt}]
    BY DEF TypeOK
  <1> QED BY <1>2, <1>3, <1>4 DEF End, Assigned, Leave, FreedSlot

\* Moving an attempt on to its next await keeps the types.
LEMMA GotoType ==
    ASSUME TypeOK, NEW v \in Visit, Running(v),
           NEW pc \in {"candidate", "compensation", "report"},
           NEW g \in Graph \cup {None}, Goto(v, pc, g)
    PROVE  Assigned
  <1>1. attempt[v] \in Attempt
    BY DEF TypeOK, Running, NoAttempt
  <1>2. [attempt[v] EXCEPT !.pc = pc] \in Attempt
    BY <1>1 DEF Attempt
  <1> QED BY <1>2 DEF Goto, Assigned, TypeOK

\* Every step of an attempt keeps the types.
LEMMA SavedType ==
    ASSUME TypeOK, NEW v \in Visit, Saved(v) PROVE Assigned
  <1>1. Running(v)
    BY DEF Saved, CheckpointSaved, CandidateSaved, CompensationSaved, Unavailable,
           Reported, Await, Running
  <1>2. graph \in Graph \cup {None} /\ MarkDirty(graph) \in Graph \cup {None}
        /\ Inspected(graph) \in Graph \cup {None}
    BY GraphType DEF TypeOK
  <1>3. attempt[v] \in Attempt
    BY <1>1 DEF TypeOK, Running, NoAttempt
  <1>4. MarkDirty(attempt[v].start) \in Graph \cup {None}
        /\ [of |-> attempt[v].print, dirty |-> FALSE] \in Graph \cup {None}
    BY <1>3, GraphType DEF Attempt, Graph
  <1>5. ASSUME NEW accepted \in BOOLEAN, NEW g \in Graph \cup {None},
               Compensate(v, accepted, g)
        PROVE  Assigned
    <2>1. MarkDirty(g) \in Graph \cup {None}
      BY GraphType
    <2> QED BY <1>1, <1>2, <1>5, <2>1, EndType, GotoType DEF Compensate
  <1>6. ASSUME NEW accepted \in BOOLEAN, CheckpointSaved(v, accepted) PROVE Assigned
    BY <1>1, <1>2, <1>5, <1>6, EndType, GotoType DEF CheckpointSaved
  <1>7. ASSUME NEW accepted \in BOOLEAN, CandidateSaved(v, accepted) PROVE Assigned
    BY <1>1, <1>2, <1>4, <1>5, <1>7, EndType DEF CandidateSaved
  <1>8. ASSUME NEW accepted \in BOOLEAN, CompensationSaved(v, accepted) PROVE Assigned
    BY <1>1, <1>2, <1>4, <1>8, EndType, GotoType DEF CompensationSaved
  <1>9. CASE Unavailable(v)
    BY <1>1, <1>2, <1>9, GotoType DEF Unavailable
  <1>10. CASE Reported(v)
    BY <1>1, <1>2, <1>10, EndType DEF Reported
  <1> QED BY <1>6, <1>7, <1>8, <1>9, <1>10 DEF Saved

\* What the steps of attempts and readers leave alone.
Others == <<visit, home, chats, timers, restoring, owed>>

\* A step of an attempt or a reader that assigns by type keeps the types.
LEMMA OthersType ==
    ASSUME TypeOK, Assigned, UNCHANGED Others PROVE TypeOK'
  BY DEF TypeOK, Assigned, Others, chats, timers

\* Every step keeps the types.
LEMMA NextType ==
    ASSUME TypeOK, [Next]_vars PROVE TypeOK'
  <1>1. CASE NextAttempt
    <2>1. coord.pending \in Request /\ coord \in Coordinator
          /\ reader \in [Reader -> ReaderState]
      BY <1>1 DEF NextAttempt, TypeOK, Coordinator
    <2>2. Assigned /\ UNCHANGED Others
      BY <1>1, <2>1, RunAttemptType DEF NextAttempt, Others
    <2> QED BY <2>2, OthersType
  <1>2. ASSUME NEW v \in Visit, Saved(v) PROVE TypeOK'
    <2>1. UNCHANGED Others
      BY <1>2 DEF Saved, CheckpointSaved, CandidateSaved, CompensationSaved,
                  Unavailable, Reported, Others
    <2> QED BY <1>2, <2>1, SavedType, OthersType
  <1>3. CASE StopStage
    BY <1>3, AbortingType DEF StopStage, TypeOK, chats, timers
  <1>4. CASE RecheckTimer
    <2>1. Inspected(graph) \in Graph \cup {None}
      BY GraphType DEF TypeOK
    <2>2. Remaining(Inspected(graph)) \in Checks \cup {None}
      BY <1>4, ConstantsOK DEF RecheckTimer, Remaining, TypeOK, Checks
    <2>3. coord' \in Coordinator
      BY <1>4, ConstantsOK
      DEF RecheckTimer, TypeOK, Checks, Coordinator, Coord, Later, Request
    <2>4. recovery' \in BOOLEAN
      BY <1>4, ZenonT(20) DEF RecheckTimer, TypeOK, Dirty
    <2> QED BY <1>4, <2>1, <2>2, <2>3, <2>4 DEF RecheckTimer, TypeOK, chats
  <1>5. ASSUME Recheck PROVE coord' \in Coordinator /\ checks' \in Checks \cup {None}
                             /\ attempt' \in [Visit -> Attempt \cup {NoAttempt}]
                             /\ recovery' = FALSE
    <2>1. coord' \in Coordinator /\ checks' \in Checks
      BY <1>5, ConstantsOK
      DEF Recheck, TypeOK, Coordinator, Coord, Checks, Request
    <2>2. attempt' \in [Visit -> Attempt \cup {NoAttempt}]
      BY <1>5, AbortingType DEF Recheck, TypeOK
    <2> QED BY <1>5, <2>1, <2>2 DEF Recheck
  <1>6. CASE DeferredRecheck
    BY <1>5, <1>6 DEF DeferredRecheck, TypeOK, chats
  <1>7. CASE RecoveryTimer
    <2>1. Assigned
      <3>1. CASE coord.draining
        BY <1>7, <3>1, UnassignedType DEF RecoveryTimer
      <3>2. CASE ~coord.draining
        BY <1>7, <3>2, RunAttemptType, RequestedType DEF RecoveryTimer, TypeOK
      <3> QED BY <3>1, <3>2
    <2> QED BY <1>7, <2>1 DEF RecoveryTimer, TypeOK, Assigned, chats
  <1>8. CASE BeginRestore
    BY <1>8 DEF BeginRestore, TypeOK, chats, timers, Owner, Restore
  <1>9. ASSUME NEW v \in Visit, EndRestore(v) PROVE TypeOK'
    BY <1>9 DEF EndRestore, TypeOK, chats, timers, Leave
  <1>10. ASSUME NEW isDeep \in BOOLEAN, Mutate(isDeep) PROVE TypeOK'
    <2>1. structure' \in [Chat -> Structure] /\ deep' \in [Chat -> Structure]
      BY <1>10, ConstantsOK DEF Mutate, TypeOK, Structure, Here
    <2> QED BY <1>10, <2>1 DEF Mutate, TypeOK, timers
  <1>11. ASSUME NEW later \in BOOLEAN, Hear(later) PROVE TypeOK'
    <2>1. Inspected(graph) \in Graph \cup {None}
      BY GraphType DEF TypeOK
    <2>2. /\ coord' \in Coordinator /\ checks' \in Checks \cup {None}
          /\ attempt' \in [Visit -> Attempt \cup {NoAttempt}]
          /\ recovery' \in BOOLEAN /\ deferred' \in BOOLEAN
      BY <1>5, <1>11 DEF Hear, TypeOK
    <2>3. heard' \in [Chat -> Structure] /\ owed' \in Structure
      BY <1>11 DEF Hear, TypeOK, Here
    <2> QED BY <1>11, <2>1, <2>2, <2>3 DEF Hear, TypeOK
  <1>12. ASSUME NEW r \in Reader, NEW kind \in {"recall", "recover"}, Read(r, kind)
         PROVE  TypeOK'
    <2>1. Arrived(r, kind) \in [Reader -> ReaderState]
      BY DEF Arrived, TypeOK, ReaderState
    <2>2. \A ok : Resolved(Arrived(r, kind), visit, ok, graph, lock)
             \in [Reader -> ReaderState]
      BY <2>1, ResolvedType
    <2>3. Assigned
      <3>1. CASE CanRequest /\ RunAttempt(Requested(coord), Arrived(r, kind))
        BY <2>1, <3>1, RunAttemptType, RequestedType DEF TypeOK
      <3>2. CASE UNCHANGED <<graph, lock, slot, attempt, coord>>
                 /\ reader' \in [Reader -> ReaderState]
        BY <3>2 DEF Assigned, TypeOK
      <3> QED BY <1>12, <2>1, <2>2, <3>1, <3>2 DEF Read
    <2> QED BY <1>12, <2>3, OthersType DEF Read, Others
  <1>13. ASSUME NEW r \in Reader, Leaves(r) PROVE TypeOK'
    BY <1>13, ConstantsOK DEF Leaves, TypeOK, chats, timers, ReaderState, Away, Visit
  <1>14. ASSUME NEW c \in Chat, EnterChat(c) PROVE TypeOK'
    <2>1. NoCoordinator \in Coordinator
      BY ConstantsOK DEF NoCoordinator, Coord, Coordinator
    <2>2. visit' \in Visit /\ home' \in [Visit -> Chat] /\ owed' \in Structure
      BY <1>14, ConstantsOK DEF EnterChat, TypeOK, Visit, Structure
    <2> QED BY <1>14, <2>1, <2>2, AbortingType DEF EnterChat, TypeOK, chats
  <1>15. ASSUME NEW g \in Graph, LoadGraph(g) PROVE TypeOK'
    BY <1>15 DEF LoadGraph, TypeOK, chats, timers
  <1>16. CASE UNCHANGED vars
    BY <1>16 DEF vars, TypeOK, chats, timers
  <1> QED BY <1>1, <1>2, <1>3, <1>4, <1>6, <1>7, <1>8, <1>9, <1>10, <1>11, <1>12,
             <1>13, <1>14, <1>15, <1>16 DEF Next, Timer

\* The initial state is typed.
LEMMA InitType == Init => TypeOK
  <1> SUFFICES ASSUME Init PROVE TypeOK
    OBVIOUS
  <1>1. 1 \in Visit /\ 0 \in Structure
    BY ConstantsOK DEF Visit, Structure
  <1>2. NoCoordinator \in Coordinator /\ Away \in ReaderState
    BY <1>1, ConstantsOK DEF NoCoordinator, Coord, Coordinator, Away, ReaderState
  <1>3. home \in [Visit -> Chat] /\ visit \in Visit
    BY <1>1 DEF Init
  <1>4. /\ structure \in [Chat -> Structure] /\ deep \in [Chat -> Structure]
        /\ heard \in [Chat -> Structure] /\ owed \in Structure
    BY <1>1 DEF Init
  <1>5. /\ graph = None /\ lock = {} /\ slot = None /\ checks = None /\ restoring = {}
        /\ deferred = FALSE /\ recovery = FALSE /\ coord \in Coordinator
        /\ attempt \in [Visit -> Attempt \cup {NoAttempt}]
        /\ reader \in [Reader -> ReaderState]
    BY <1>2 DEF Init
  <1> QED BY <1>3, <1>4, <1>5 DEF TypeOK

\* TypeOK is an invariant, for any chats, readers and bounds.
THEOREM TypeCorrect == Spec => []TypeOK
  BY InitType, NextType, PTL DEF Spec

-----------------------------------------------------------------------------
(***************************************************************************)
(* Control: lock, slot, attempts, coordinator and timers.                  *)
(***************************************************************************)
\* Aborting stops the attempt in the slot and disturbs nothing else.
LEMMA AbortingRunning ==
    ASSUME TypeOK, SlotExact
    PROVE  /\ \A v \in Visit : Aborting[v].pc = attempt[v].pc
           /\ \A v \in Visit : Running(v) /\ attempt[v].aborted => Aborting[v].aborted
           /\ slot # None => Aborting[slot].aborted
  <1>1. slot # None => slot \in Visit /\ attempt[slot] \in Attempt
    BY DEF TypeOK, SlotExact, Running, NoAttempt
  <1>2. \A w \in Visit : attempt[w] \in Attempt
           => /\ [attempt[w] EXCEPT !.aborted = TRUE].pc = attempt[w].pc
              /\ [attempt[w] EXCEPT !.aborted = TRUE].aborted = TRUE
    BY DEF Attempt
  <1> QED BY <1>1, <1>2 DEF Aborting, TypeOK

\* Starting an attempt: it takes the lock, the slot and the drain.
LEMMA RunAttemptControl ==
    ASSUME TypeOK, Control, ~Running(visit),
           NEW co \in Coordinator, NEW readers, RunAttempt(co, readers),
           UNCHANGED <<visit, restoring>>
    PROVE  Control'
  <1> USE DEF Coord
  <1>1. CASE UNCHANGED <<lock, slot, attempt>> /\ ~coord'.draining /\ coord'.pending = None
    BY <1>1 DEF Control, LockExact, StaleAttemptsStopped, SlotExact, DrainBusy,
                ChecksKnown, Running
  <1>2. CASE /\ lock = {} /\ lock' = {Rollback(visit)} /\ slot' = visit
             /\ attempt' = [attempt EXCEPT ![visit] =
                   [pc |-> "checkpoint", request |-> co.pending,
                    print |-> structure[Here], start |-> Inspected(graph),
                    aborted |-> FALSE]]
             /\ coord'.draining /\ coord'.pending = None
    <2>1. visit \in Visit /\ Rollback(visit) \in Owner /\ Restore(visit) \in Owner
          /\ Rollback(visit) # Restore(visit)
      BY DEF TypeOK, Rollback, Restore, Owner
    <2>2. visit \notin restoring
      BY <1>2, <2>1 DEF Control, LockExact
    <2>3. Running(visit)' /\ (\A v \in Visit : v # visit => attempt'[v] = attempt[v])
      BY <1>2, <2>1 DEF TypeOK, Running
    <2>4. LockExact'
      BY <1>2, <2>1, <2>2, <2>3 DEF LockExact, Rollback, Restore
    <2>5. StaleAttemptsStopped'
      BY <2>1, <2>3 DEF Control, StaleAttemptsStopped, Running, TypeOK, Visit
    <2>6. SlotExact'
      BY <1>2, <2>1, <2>3 DEF Control, SlotExact, Running, Visit
    <2> QED BY <1>2, <2>3, <2>4, <2>5, <2>6 DEF Control, DrainBusy, ChecksKnown
  <1>3. \A ok : LET c == Finished(Coord(co.asked, co.done, None, TRUE, co.ok), co.pending, ok)
                IN  ~c.draining /\ c.pending = None
    BY DEF Finished
  <1>4. Coord(co.asked, co.done, None, TRUE, co.ok).draining
        /\ Coord(co.asked, co.done, None, TRUE, co.ok).pending = None
    OBVIOUS
  <1> QED BY <1>1, <1>2, <1>3, <1>4 DEF RunAttempt

\* Ending an attempt: it leaves the lock and the slot if they are its own.
LEMMA EndControl ==
    ASSUME TypeOK, Control, NEW v \in Visit, Running(v), NEW ok, NEW g, End(v, ok, g),
           UNCHANGED <<visit, restoring, checks, recovery>>
    PROVE  Control'
  <1>1. visit \in Visit /\ v <= visit
    BY DEF TypeOK, Control, SlotExact, Visit
  <1>2. ~Running(v)' /\ (\A w \in Visit : w # v => attempt'[w] = attempt[w])
    BY DEF End, TypeOK, Running, NoAttempt
  <1>3. /\ \A w \in Visit : w # v => Running(w)' = Running(w)
        /\ Rollback(v) # Restore(visit) /\ (v # visit => Rollback(v) # Rollback(visit))
    BY <1>2 DEF Running, Rollback, Restore
  <1>4. LockExact'
    <2>1. lock' = lock \ {Rollback(v)}
      BY DEF End, Leave
    <2> QED BY <1>1, <1>2, <1>3, <2>1 DEF Control, LockExact, Rollback, Restore
  <1>5. StaleAttemptsStopped'
    BY <1>1, <1>2, <1>3 DEF Control, StaleAttemptsStopped
  <1>6. SlotExact'
    BY <1>1, <1>2, <1>3, ConstantsOK DEF Control, SlotExact, End, FreedSlot, TypeOK
  <1>7. DrainBusy' /\ ChecksKnown'
    <2>1. CASE v = visit
      BY <1>2, <2>1 DEF End, Finished, Coord, DrainBusy, ChecksKnown
    <2>2. CASE v # visit
      BY <1>1, <1>3, <2>2 DEF End, Control, DrainBusy, ChecksKnown
    <2> QED BY <2>1, <2>2
  <1> QED BY <1>4, <1>5, <1>6, <1>7 DEF Control

\* A step that keeps who runs, and aborts at most more, keeps the control.
LEMMA QuietControl ==
    ASSUME TypeOK, Control,
           attempt' \in [Visit -> Attempt \cup {NoAttempt}],
           \A v \in Visit : attempt'[v].pc = attempt[v].pc
                             \/ (Running(v) /\ attempt'[v].pc # "none"),
           \A v \in Visit : Running(v) /\ attempt[v].aborted => attempt'[v].aborted,
           UNCHANGED <<visit, lock, slot, restoring>>,
           (DrainBusy /\ ChecksKnown)'
    PROVE  Control'
  <1>1. \A v \in Visit : Running(v)' = Running(v)
    BY DEF Running
  <1>2. visit \in Visit
    BY DEF TypeOK
  <1>3. LockExact' /\ SlotExact'
    BY <1>1, <1>2 DEF Control, LockExact, SlotExact, TypeOK
  <1>4. StaleAttemptsStopped'
    BY <1>1 DEF Control, StaleAttemptsStopped
  <1> QED BY <1>3, <1>4 DEF Control

\* A new request: the drain's attempt, if any, is told to stop.
LEMMA RecheckControl ==
    ASSUME TypeOK, Control, Recheck, UNCHANGED <<visit, lock, slot, restoring>>
    PROVE  Control'
  <1>1. attempt' \in [Visit -> Attempt \cup {NoAttempt}]
    BY AbortingType DEF Recheck, TypeOK
  <1>2. \A v \in Visit : attempt'[v].pc = attempt[v].pc
                        /\ (Running(v) /\ attempt[v].aborted => attempt'[v].aborted)
    BY AbortingRunning DEF Recheck, Control
  <1>3. coord'.draining = coord.draining /\ coord'.pending = coord.asked + 1
        /\ checks' = [request |-> coord.asked + 1, left |-> Rechecks]
    BY DEF Recheck, Coord
  <1>4. coord.asked + 1 \in Nat /\ coord.asked + 1 # None /\ checks' # None
    <2>1. coord.asked \in Nat
      BY ConstantsOK DEF TypeOK, Coordinator
    <2>2. checks' \in Checks
      BY <1>3, <2>1, ConstantsOK DEF Recheck, Checks, Request, TypeOK, Coordinator
    <2> QED BY <2>1, <2>2, ConstantsOK, NoneIsNoRecord
  <1>5. visit \in Visit /\ (Running(visit)' <=> Running(visit))
    BY <1>2 DEF TypeOK, Running
  <1>6. DrainBusy' /\ ChecksKnown'
    BY <1>3, <1>4, <1>5 DEF Control, DrainBusy, ChecksKnown
  <1> QED BY <1>1, <1>2, <1>6, QuietControl

\* Every step of an attempt keeps the control.
LEMMA SavedControl ==
    ASSUME TypeOK, Control, NEW v \in Visit, Saved(v), UNCHANGED Others
    PROVE  Control'
  <1>1. Running(v)
    BY DEF Saved, CheckpointSaved, CandidateSaved, CompensationSaved, Unavailable,
           Reported, Await, Running
  <1>2. ASSUME NEW ok, NEW g, End(v, ok, g) PROVE Control'
    BY <1>1, <1>2, EndControl DEF Others, timers
  <1>3. ASSUME NEW pc \in {"candidate", "compensation", "report"}, NEW g, Goto(v, pc, g)
        PROVE  Control'
    <2>1. attempt[v] \in Attempt
      BY <1>1 DEF TypeOK, Running, NoAttempt
    <2>2. [attempt[v] EXCEPT !.pc = pc] \in Attempt
      BY <2>1 DEF Attempt
    <2>3. attempt' \in [Visit -> Attempt \cup {NoAttempt}]
      BY <1>3, <2>2 DEF Goto, TypeOK
    <2>4. [attempt[v] EXCEPT !.pc = pc].pc = pc
          /\ [attempt[v] EXCEPT !.pc = pc].aborted = attempt[v].aborted
      BY <2>1 DEF Attempt
    <2>5. \A w \in Visit : /\ attempt'[w].pc = attempt[w].pc
                                \/ (Running(w) /\ attempt'[w].pc # "none")
                           /\ attempt'[w].aborted = attempt[w].aborted
      BY <1>1, <1>3, <2>4 DEF Goto, TypeOK
    <2>6. visit \in Visit /\ (Running(visit)' <=> Running(visit))
      BY <2>5 DEF Others, TypeOK, Running
    <2>7. DrainBusy' /\ ChecksKnown'
      BY <1>3, <2>6 DEF Goto, Others, timers, Control, DrainBusy, ChecksKnown
    <2> QED BY <1>3, <2>3, <2>5, <2>7, QuietControl DEF Goto, Others
  <1>4. ASSUME NEW accepted, NEW g, Compensate(v, accepted, g) PROVE Control'
    BY <1>2, <1>3, <1>4 DEF Compensate
  <1> QED BY <1>2, <1>3, <1>4 DEF Saved, CheckpointSaved, CandidateSaved,
             CompensationSaved, Unavailable, Reported

\* Every step keeps the control.
LEMMA NextControl ==
    ASSUME TypeOK, TypeOK', Control, [Next]_vars PROVE Control'
  <1>1. CASE NextAttempt
    BY <1>1, RunAttemptControl DEF NextAttempt, Continuing, TypeOK
  <1>2. ASSUME NEW v \in Visit, Saved(v) PROVE Control'
    <2>1. UNCHANGED Others
      BY <1>2 DEF Saved, CheckpointSaved, CandidateSaved, CompensationSaved,
                  Unavailable, Reported, Others
    <2> QED BY <1>2, <2>1, SavedControl
  <1>3. CASE StopStage
    <2>1. \A v \in Visit : attempt'[v].pc = attempt[v].pc
                          /\ (Running(v) /\ attempt[v].aborted => attempt'[v].aborted)
      BY <1>3, AbortingRunning DEF StopStage, Control
    <2>2. visit \in Visit /\ (Running(visit)' <=> Running(visit))
      BY <1>3, <2>1 DEF StopStage, TypeOK, Running
    <2>3. DrainBusy' /\ ChecksKnown'
      BY <1>3, <2>2 DEF StopStage, timers, Control, DrainBusy, ChecksKnown
    <2> QED BY <1>3, <2>1, <2>3, QuietControl DEF StopStage, TypeOK
  <1>4. CASE RecheckTimer
    <2>1. Running(visit)' = Running(visit)
      BY <1>4 DEF RecheckTimer, Running
    <2>2. DrainBusy'
      BY <1>4, <2>1 DEF RecheckTimer, Continuing, Control, DrainBusy, Coord
    <2>3. ChecksKnown'
      <3>1. CASE Dirty(Inspected(graph))
        BY <1>4, <3>1 DEF RecheckTimer, ChecksKnown
      <3>2. CASE ~Dirty(Inspected(graph)) /\ checks.left = 1
        BY <1>4, <3>2, ConstantsOK
        DEF RecheckTimer, Control, ChecksKnown, Coord, TypeOK
      <3>3. CASE ~Dirty(Inspected(graph)) /\ checks.left # 1
        <4>1. checks \in Checks /\ checks' = [checks EXCEPT !.left = @ - 1]
          BY <1>4, <3>3 DEF RecheckTimer, Remaining, TypeOK
        <4>2. checks'.request = checks.request /\ checks' # None
          <5>1. checks' \in Checks
            BY <3>3, <4>1, ConstantsOK DEF Checks
          <5> QED BY <4>1, <5>1, NoneIsNoRecord DEF Checks
        <4> QED BY <1>4, <3>3, <4>2 DEF RecheckTimer, Control, ChecksKnown
      <3> QED BY <3>1, <3>2, <3>3
    <2> QED BY <1>4, <2>2, <2>3, QuietControl DEF RecheckTimer, TypeOK
  <1>5. CASE DeferredRecheck
    BY <1>5, RecheckControl DEF DeferredRecheck
  <1>6. CASE RecoveryTimer
    <2>1. CASE coord.draining
      <3>1. DrainBusy' /\ ChecksKnown'
        BY <1>6, <2>1 DEF RecoveryTimer, Running, Control, DrainBusy, ChecksKnown
      <3> QED BY <1>6, <2>1, <3>1, QuietControl DEF RecoveryTimer, TypeOK
    <2>2. CASE ~coord.draining
      <3>1. ~Running(visit)
        BY <2>2 DEF Control, DrainBusy
      <3> QED BY <1>6, <2>2, <3>1, RunAttemptControl, RequestedType
              DEF RecoveryTimer, TypeOK
    <2> QED BY <2>1, <2>2
  <1>7. CASE BeginRestore
    <2>1. visit \in Visit /\ Restore(visit) \in Owner /\ Restore(visit) # Rollback(visit)
      BY DEF TypeOK, Owner, Restore, Rollback
    <2>2. LockExact'
      BY <1>7, <2>1 DEF BeginRestore, Control, LockExact, Running
    <2> QED BY <1>7, <2>1, <2>2 DEF BeginRestore, timers, Control, StaleAttemptsStopped,
               SlotExact, DrainBusy, ChecksKnown, Running, Visit
  <1>8. ASSUME NEW v \in Visit, EndRestore(v) PROVE Control'
    <2>1. visit \in Visit /\ Restore(v) # Rollback(visit)
          /\ (v # visit => Restore(v) # Restore(visit))
      BY DEF TypeOK, Restore, Rollback
    <2>2. LockExact'
      BY <1>8, <2>1 DEF EndRestore, Leave, Control, LockExact, Running
    <2> QED BY <1>8, <2>2 DEF EndRestore, timers, Control, StaleAttemptsStopped,
               SlotExact, DrainBusy, ChecksKnown, Running
  <1>9. CASE UNCHANGED <<visit, lock, slot, attempt, coord, checks, recovery, restoring>>
    BY <1>9 DEF Control, LockExact, StaleAttemptsStopped, SlotExact, DrainBusy,
                ChecksKnown, Running
  <1>10. ASSUME NEW later \in BOOLEAN, Hear(later) PROVE Control'
    BY <1>9, <1>10, RecheckControl DEF Hear
  <1>11. ASSUME NEW r \in Reader, NEW kind \in {"recall", "recover"}, Read(r, kind)
         PROVE  Control'
    <2>1. CASE ~coord.draining /\ CanRequest
               /\ RunAttempt(Requested(coord), Arrived(r, kind))
      <3>1. ~Running(visit)
        BY <2>1 DEF Control, DrainBusy
      <3> QED BY <1>11, <2>1, <3>1, RunAttemptControl, RequestedType DEF Read, TypeOK
    <2>2. CASE UNCHANGED <<graph, lock, slot, attempt, coord>>
      BY <1>9, <1>11, <2>2 DEF Read, timers
    <2> QED BY <1>11, <2>1, <2>2 DEF Read
  <1>12. ASSUME NEW c \in Chat, EnterChat(c) PROVE Control'
    <2>1. visit \in Visit /\ visit + 1 \in Visit /\ visit' = visit + 1
          /\ ~Running(visit + 1) /\ visit + 1 \notin restoring
      BY <1>12, ConstantsOK DEF EnterChat, TypeOK, Visit, Control, SlotExact
    <2>2. \A w \in Visit : Running(w)' = Running(w)
      BY <1>12, AbortingRunning DEF EnterChat, Control, Running
    <2>3. LockExact'
      BY <1>12, <2>1, <2>2 DEF EnterChat, LockExact
    <2>4. StaleAttemptsStopped'
      <3>1. attempt' = Aborting
        BY <1>12 DEF EnterChat
      <3>2. ASSUME NEW w \in Visit, w < visit, Running(w) PROVE attempt'[w].aborted
        BY <3>1, <3>2, AbortingRunning DEF Control, StaleAttemptsStopped
      <3>3. ASSUME Running(visit) PROVE attempt'[visit].aborted
        <4>1. slot = visit /\ slot # None
          BY <2>1, <3>3, ConstantsOK DEF Control, SlotExact, Visit
        <4> QED BY <3>1, <4>1, AbortingRunning DEF Control
      <3>4. \A w \in Visit : w < visit + 1 => w < visit \/ w = visit
        BY <2>1 DEF Visit
      <3> QED BY <2>1, <2>2, <3>2, <3>3, <3>4 DEF StaleAttemptsStopped
    <2>5. SlotExact'
      BY <1>12, <2>1, <2>2 DEF EnterChat, Control, SlotExact, Visit, TypeOK
    <2>6. DrainBusy' /\ ChecksKnown'
      BY <1>12, <2>1, <2>2 DEF EnterChat, NoCoordinator, Coord, DrainBusy, ChecksKnown
    <2> QED BY <2>3, <2>4, <2>5, <2>6 DEF Control
  <1>13. ASSUME NEW isDeep \in BOOLEAN, Mutate(isDeep) PROVE Control'
    BY <1>9, <1>13 DEF Mutate, timers
  <1>14. ASSUME NEW r \in Reader, Leaves(r) PROVE Control'
    BY <1>9, <1>14 DEF Leaves, timers
  <1>15. ASSUME NEW g \in Graph, LoadGraph(g) PROVE Control'
    BY <1>9, <1>15 DEF LoadGraph, timers
  <1>16. CASE UNCHANGED vars
    BY <1>9, <1>16 DEF vars, timers
  <1> QED BY <1>1, <1>2, <1>3, <1>4, <1>5, <1>6, <1>7, <1>8, <1>10, <1>11, <1>12,
             <1>13, <1>14, <1>15, <1>16 DEF Next, Timer

-----------------------------------------------------------------------------
(***************************************************************************)
(* Clean graphs.                                                           *)
(***************************************************************************)

\* An inspected graph that is clean covers every deep mutation of the chat;
\* inspecting and marking never make a graph appear, vanish or clean.
LEMMA InspectedClean ==
    ASSUME TypeOK, NEW g \in Graph \cup {None}
    PROVE  /\ Inspected(g) = None <=> g = None
           /\ MarkDirty(g) = None <=> g = None
           /\ g # None => MarkDirty(g).dirty
           /\ g # None /\ ~Inspected(g).dirty
                 => Inspected(g) = g /\ g.of >= deep[Here]
  <1>1. g # None => [g EXCEPT !.dirty = TRUE] \in Graph /\ [g EXCEPT !.dirty = TRUE].dirty
    BY DEF Graph
  <1>2. g # None => g.of \in Nat /\ deep[Here] \in Nat
    BY ConstantsOK DEF TypeOK, Graph, Structure, Here
  <1>3. g # None => MarkDirty(g) \in Graph /\ MarkDirty(g).dirty /\ MarkDirty(g) # None
    BY <1>1, NoneIsNoRecord DEF MarkDirty
  <1>4. g = None => MarkDirty(g) = None /\ Inspected(g) = None
    BY DEF MarkDirty, Inspected
  <1>5. g # None /\ g.of < deep[Here] => Inspected(g) = MarkDirty(g)
    BY DEF Inspected
  <1>6. g # None /\ ~(g.of < deep[Here]) => Inspected(g) = g /\ g.of >= deep[Here]
    BY <1>2 DEF Inspected
  <1> QED BY <1>3, <1>4, <1>5, <1>6

\* A step that announces nothing and only marks, inspects or replaces the
\* graph by one that covers what was announced keeps clean graphs covering.
LEMMA KeptReflects ==
    ASSUME TypeOK, CleanReflects, UNCHANGED <<visit, home, chats, owed>>,
           graph' = None => graph = None,
           graph' # None /\ ~graph'.dirty => graph' = graph \/ graph'.of >= owed
    PROVE  CleanReflects'
  BY DEF CleanReflects, chats, Here

\* Every step of an attempt keeps clean graphs covering: only a rollback to
\* the structure its chat still has yields a clean graph.
LEMMA SavedReflects ==
    ASSUME TypeOK, CleanReflects, NEW v \in Visit, Saved(v), UNCHANGED Others
    PROVE  CleanReflects'
  <1>1. Running(v)
    BY DEF Saved, CheckpointSaved, CandidateSaved, CompensationSaved, Unavailable,
           Reported, Await, Running
  <1>2. attempt[v] \in Attempt
    BY <1>1 DEF TypeOK, Running, NoAttempt
  <1>3. graph \in Graph \cup {None} /\ Inspected(graph) \in Graph \cup {None}
    BY GraphType DEF TypeOK
  <1>4. graph' \in {graph, Inspected(graph), MarkDirty(graph),
                    MarkDirty(Inspected(graph)), MarkDirty(attempt[v].start)}
        \/ (~Interrupted(v) /\ graph' = [of |-> attempt[v].print, dirty |-> FALSE])
    <2>1. ASSUME NEW accepted, NEW g \in {graph, Inspected(graph)},
                 Compensate(v, accepted, g)
          PROVE  graph' \in {graph, g, MarkDirty(g)}
      BY <2>1 DEF Compensate, End, Goto
    <2> QED BY <2>1 DEF Saved, CheckpointSaved, CandidateSaved, CompensationSaved,
               Unavailable, Reported, End, Goto
  <1>5. attempt[v].start # None /\ MarkDirty(attempt[v].start).dirty
        /\ MarkDirty(attempt[v].start) # None
    BY <1>2, InspectedClean, NoneIsNoRecord DEF Attempt
  <1>6. ASSUME ~Interrupted(v), graph' = [of |-> attempt[v].print, dirty |-> FALSE]
        PROVE  graph' # None /\ graph'.of >= owed
    <2>1. graph' \in Graph /\ graph'.of = structure[Here]
      BY <1>2, <1>6 DEF Graph, Attempt, Interrupted
    <2>2. owed <= deep[Here] /\ deep[Here] <= structure[Here]
      BY DEF CleanReflects, TypeOK, Here
    <2>3. owed \in Nat /\ deep[Here] \in Nat /\ structure[Here] \in Nat
      BY ConstantsOK DEF TypeOK, Structure, Here
    <2> QED BY <2>1, <2>2, <2>3, NoneIsNoRecord
  <1>7. UNCHANGED <<visit, home, chats, owed>>
    BY DEF Others
  <1>8. /\ graph' = None => graph = None
        /\ graph' # None /\ ~graph'.dirty => graph' = graph \/ graph'.of >= owed
    BY <1>3, <1>4, <1>5, <1>6, InspectedClean
  <1> QED BY <1>7, <1>8, KeptReflects

\* Starting an attempt only inspects the graph.
LEMMA RunAttemptReflects ==
    ASSUME TypeOK, CleanReflects, NEW co, NEW readers, RunAttempt(co, readers),
           UNCHANGED <<visit, home, chats, owed>>
    PROVE  CleanReflects'
  <1>1. graph' = Inspected(graph) /\ graph \in Graph \cup {None}
    BY DEF RunAttempt, TypeOK
  <1> QED BY <1>1, InspectedClean, KeptReflects

\* Every step keeps clean graphs covering what was announced.
LEMMA NextReflects ==
    ASSUME TypeOK, CleanReflects, [Next]_vars PROVE CleanReflects'
  <1>1. graph \in Graph \cup {None}
    BY DEF TypeOK
  <1>2. CASE NextAttempt
    BY <1>2, RunAttemptReflects DEF NextAttempt
  <1>3. ASSUME NEW v \in Visit, Saved(v) PROVE CleanReflects'
    <2>1. UNCHANGED Others
      BY <1>3 DEF Saved, CheckpointSaved, CandidateSaved, CompensationSaved,
                  Unavailable, Reported, Others
    <2> QED BY <1>3, <2>1, SavedReflects
  <1>4. CASE UNCHANGED <<visit, home, chats, owed, graph>>
    BY <1>4, KeptReflects
  <1>5. CASE StopStage \/ DeferredRecheck \/ BeginRestore
    BY <1>4, <1>5 DEF StopStage, DeferredRecheck, BeginRestore
  <1>6. CASE RecheckTimer
    BY <1>1, <1>6, InspectedClean, KeptReflects DEF RecheckTimer
  <1>7. CASE RecoveryTimer
    BY <1>4, <1>7, RunAttemptReflects DEF RecoveryTimer
  <1>8. ASSUME NEW v \in Visit, EndRestore(v) PROVE CleanReflects'
    BY <1>4, <1>8 DEF EndRestore
  <1>9. ASSUME NEW isDeep \in BOOLEAN, Mutate(isDeep) PROVE CleanReflects'
    <2>1. Here \in Chat /\ Here' = Here
      BY <1>9 DEF Mutate, TypeOK, Here
    <2>2. \A c \in Chat : structure[c] \in Nat /\ deep[c] \in Nat /\ deep[c] <= structure[c]
      BY ConstantsOK DEF TypeOK, Structure, CleanReflects
    <2>3. \A c \in Chat : deep[c] <= deep'[c] /\ deep'[c] <= structure'[c] /\ deep'[c] \in Nat
      BY <1>9, <2>1, <2>2 DEF Mutate, TypeOK
    <2>4. owed \in Nat
      BY ConstantsOK DEF TypeOK, Structure
    <2> QED BY <1>9, <2>1, <2>2, <2>3, <2>4 DEF Mutate, CleanReflects
  <1>10. ASSUME NEW later \in BOOLEAN, Hear(later) PROVE CleanReflects'
    <2>1. Here \in Chat /\ Here' = Here /\ UNCHANGED <<structure, deep>>
      BY <1>10 DEF Hear, TypeOK, Here
    <2>2. graph' = Inspected(graph) /\ deep[Here] \in Nat
          /\ (graph = None => owed' = owed) /\ (graph # None => owed' = deep[Here])
      BY <1>10, <2>1, ConstantsOK DEF Hear, TypeOK, Structure
    <2> QED BY <1>1, <2>1, <2>2, InspectedClean DEF CleanReflects
  <1>11. ASSUME NEW r \in Reader, NEW kind \in {"recall", "recover"}, Read(r, kind)
         PROVE  CleanReflects'
    BY <1>4, <1>11, RunAttemptReflects DEF Read
  <1>12. ASSUME NEW r \in Reader, Leaves(r) PROVE CleanReflects'
    BY <1>4, <1>12 DEF Leaves
  <1>13. ASSUME NEW c \in Chat, EnterChat(c) PROVE CleanReflects'
    <2>1. visit + 1 \in Visit /\ Here' = c /\ UNCHANGED <<structure, deep>>
      BY <1>13, ConstantsOK DEF EnterChat, TypeOK, Visit, Here, chats
    <2>2. deep[c] \in Nat
      BY ConstantsOK DEF TypeOK, Structure
    <2> QED BY <1>13, <2>1, <2>2 DEF EnterChat, CleanReflects
  <1>14. ASSUME NEW g \in Graph, LoadGraph(g) PROVE CleanReflects'
    <2>1. owed = 0 /\ graph' = g /\ g.of \in Nat
      BY <1>14, ConstantsOK DEF LoadGraph, CleanReflects, Graph, Structure
    <2> QED BY <1>14, <2>1, NoneIsNoRecord DEF LoadGraph, CleanReflects, chats, Here
  <1>15. CASE UNCHANGED vars
    BY <1>4, <1>15 DEF vars
  <1> QED BY <1>2, <1>3, <1>5, <1>6, <1>7, <1>8, <1>9, <1>10, <1>11, <1>12, <1>13,
             <1>14, <1>15 DEF Next, Timer

-----------------------------------------------------------------------------
(***************************************************************************)
(* The barrier.                                                            *)
(***************************************************************************)

\* Resolving a drain leaves no reader of its visit waiting, moves no reader to
\* another visit ahead, and lets through only those of its own visit.
LEMMA ResolvedReaders ==
    ASSUME NEW readers \in [Reader -> ReaderState], NEW v \in Visit,
           NEW ok, NEW g, NEW owners, NEW r \in Reader,
           NEW s, s = Resolved(readers, v, ok, g, owners)[r]
    PROVE  /\ s = readers[r] \/ s = Away
              \/ (/\ s.at = "through" /\ s.visit = v
                  /\ readers[r].at = "waiting" /\ readers[r].visit = v
                  /\ Through(readers[r].kind, ok, g, owners))
           /\ s.at = "waiting" => s = readers[r] /\ s.visit # v
  <1>1. readers[r] \in ReaderState
    OBVIOUS
  <1>2. [readers[r] EXCEPT !.at = "through"].at = "through"
        /\ [readers[r] EXCEPT !.at = "through"].visit = readers[r].visit
    BY <1>1 DEF ReaderState
  <1>3. Away.at = "away"
    BY DEF Away
  <1> QED BY <1>2, <1>3 DEF Resolved

\* Starting an attempt resolves the readers it does not keep in the drain.
LEMMA RunAttemptReaders ==
    ASSUME TypeOK, NEW co \in Coordinator, NEW readers \in [Reader -> ReaderState],
           RunAttempt(co, readers), UNCHANGED visit,
           \A r \in Reader : readers[r].visit <= visit
    PROVE  WaitersDrained'
  <1>1. CASE reader' = readers /\ coord' = Coord(co.asked, co.done, None, TRUE, co.ok)
    BY <1>1 DEF WaitersDrained, Coord
  <1>2. CASE \E ok, g : reader' = Resolved(readers, visit, ok, g, lock)
    <2>1. PICK ok, g : reader' = Resolved(readers, visit, ok, g, lock)
      BY <1>2
    <2>2. visit \in Visit /\ Away.visit <= visit /\ Away.at = "away"
      BY DEF TypeOK, Visit, Away
    <2>3. ASSUME NEW r \in Reader
          PROVE  /\ reader'[r] = readers[r] \/ reader'[r] = Away \/ reader'[r].visit = visit
                 /\ reader'[r].at = "waiting" => reader'[r].visit # visit
      BY <2>1, <2>2, ResolvedReaders
    <2>4. visit <= visit
      BY <2>2 DEF Visit
    <2> QED BY <2>2, <2>3, <2>4 DEF WaitersDrained
  <1> QED BY <1>1, <1>2 DEF RunAttempt

\* Every step keeps readers waiting only for a drain that goes on.
LEMMA NextDrained ==
    ASSUME TypeOK, Control, WaitersDrained, [Next]_vars PROVE WaitersDrained'
  <1>1. reader \in [Reader -> ReaderState] /\ coord \in Coordinator /\ visit \in Visit
    BY DEF TypeOK
  <1>2. CASE NextAttempt
    BY <1>1, <1>2, RunAttemptReaders DEF NextAttempt, WaitersDrained
  <1>3. CASE UNCHANGED <<visit, reader>> /\ coord'.draining = coord.draining
    BY <1>3 DEF WaitersDrained
  <1>4. ASSUME NEW v \in Visit, Saved(v) PROVE WaitersDrained'
    <2>1. UNCHANGED <<visit, home>>
      BY <1>4 DEF Saved, CheckpointSaved, CandidateSaved, CompensationSaved,
                  Unavailable, Reported
    <2>2. ASSUME NEW ok, NEW g, End(v, ok, g) PROVE WaitersDrained'
      <3>1. CASE v = visit /\ coord.pending # None
        BY <2>1, <2>2, <3>1 DEF End, Finished, Coord, WaitersDrained
      <3>2. CASE ~(v = visit /\ coord.pending # None)
        <4>1. reader' = Resolved(reader, v, ok, g, Leave(lock, Rollback(v)))
              /\ (v # visit => coord' = coord)
          BY <2>2, <3>2 DEF End
        <4>2. Away.visit <= visit /\ Away.at = "away"
          BY <1>1 DEF Visit, Away
        <4>3. ASSUME NEW r \in Reader
              PROVE  /\ reader'[r] = reader[r] \/ reader'[r] = Away
                        \/ (reader'[r].visit = reader[r].visit /\ reader'[r].at = "through")
                     /\ reader'[r].at = "waiting"
                           => reader'[r] = reader[r] /\ reader[r].visit # v
          BY <1>1, <4>1, <4>2, ResolvedReaders
        <4> QED BY <2>1, <4>1, <4>2, <4>3 DEF WaitersDrained
      <3> QED BY <3>1, <3>2
    <2>3. ASSUME NEW pc, NEW g, Goto(v, pc, g) PROVE WaitersDrained'
      BY <1>3, <2>1, <2>3 DEF Goto
    <2> QED BY <1>4, <2>2, <2>3 DEF Saved, CheckpointSaved, CandidateSaved,
            CompensationSaved, Unavailable, Reported, Compensate
  <1>5. CASE StopStage \/ BeginRestore
    BY <1>3, <1>5 DEF StopStage, BeginRestore
  <1>6. CASE RecheckTimer
    BY <1>3, <1>6 DEF RecheckTimer, Coord
  <1>7. CASE DeferredRecheck
    BY <1>3, <1>7 DEF DeferredRecheck, Recheck, Coord
  <1>8. CASE RecoveryTimer
    <2>1. CASE coord.draining
      BY <1>3, <1>8, <2>1 DEF RecoveryTimer
    <2>2. CASE ~coord.draining
      BY <1>1, <1>8, <2>2, RequestedType, RunAttemptReaders
      DEF RecoveryTimer, WaitersDrained
    <2> QED BY <2>1, <2>2
  <1>9. ASSUME NEW v \in Visit, EndRestore(v) PROVE WaitersDrained'
    BY <1>3, <1>9 DEF EndRestore
  <1>10. ASSUME NEW isDeep \in BOOLEAN, Mutate(isDeep) PROVE WaitersDrained'
    BY <1>3, <1>10 DEF Mutate
  <1>11. ASSUME NEW later \in BOOLEAN, Hear(later) PROVE WaitersDrained'
    BY <1>3, <1>11 DEF Hear, Recheck, Coord
  <1>12. ASSUME NEW r \in Reader, NEW kind \in {"recall", "recover"}, Read(r, kind)
         PROVE  WaitersDrained'
    <2>1. Arrived(r, kind) \in [Reader -> ReaderState]
      BY DEF Arrived, TypeOK, ReaderState
    <2>2. \A q \in Reader : /\ Arrived(r, kind)[q] = reader[q]
                               \/ Arrived(r, kind)[q].visit = visit
                            /\ Arrived(r, kind)[q].visit <= visit
      BY <1>1 DEF Arrived, WaitersDrained, Visit
    <2>3. CASE CanRequest /\ RunAttempt(Requested(coord), Arrived(r, kind))
      BY <1>12, <2>1, <2>2, <2>3, RequestedType, RunAttemptReaders DEF Read, TypeOK
    <2>4. CASE coord.draining /\ reader' = Arrived(r, kind) /\ UNCHANGED coord
      BY <1>12, <2>2, <2>4 DEF Read, WaitersDrained
    <2>5. ASSUME NEW ok, reader' = Resolved(Arrived(r, kind), visit, ok, graph, lock)
          PROVE  WaitersDrained'
      <3>1. Away.visit <= visit /\ Away.at = "away" /\ visit <= visit
        BY <1>1 DEF Visit, Away
      <3>2. ASSUME NEW q \in Reader
            PROVE  /\ reader'[q] = Arrived(r, kind)[q] \/ reader'[q] = Away
                      \/ reader'[q].visit = visit
                   /\ reader'[q].at = "waiting" => reader'[q].visit # visit
        BY <1>1, <2>1, <2>5, ResolvedReaders
      <3> QED BY <1>12, <2>2, <3>1, <3>2 DEF Read, WaitersDrained
    <2> QED BY <1>12, <2>3, <2>4, <2>5 DEF Read
  <1>13. ASSUME NEW r \in Reader, Leaves(r) PROVE WaitersDrained'
    <2>1. Away.visit <= visit /\ Away.at = "away"
      BY <1>1 DEF Visit, Away
    <2> QED BY <1>1, <1>13, <2>1 DEF Leaves, WaitersDrained
  <1>14. ASSUME NEW c \in Chat, EnterChat(c) PROVE WaitersDrained'
    <2>1. \A r \in Reader : reader[r].visit \in Nat /\ reader[r].visit <= visit
      BY <1>1, ConstantsOK DEF WaitersDrained, ReaderState, Visit
    <2>2. visit \in Nat /\ visit' = visit + 1 /\ reader' = reader
      BY <1>1, <1>14, ConstantsOK DEF EnterChat, Visit
    <2>3. \A r \in Reader : reader'[r].visit <= visit' /\ reader'[r].visit # visit'
      BY <2>1, <2>2
    <2> QED BY <2>3 DEF WaitersDrained
  <1>15. ASSUME NEW g \in Graph, LoadGraph(g) PROVE WaitersDrained'
    BY <1>3, <1>15 DEF LoadGraph
  <1>16. CASE UNCHANGED vars
    BY <1>3, <1>16 DEF vars
  <1> QED BY <1>2, <1>4, <1>5, <1>6, <1>7, <1>8, <1>9, <1>10, <1>11, <1>12, <1>13,
             <1>14, <1>15, <1>16 DEF Next, Timer

-----------------------------------------------------------------------------
(***************************************************************************)
(* The invariant and what follows from it.                                 *)
(***************************************************************************)

\* IInv holds initially.
LEMMA InitIInv == Init => IInv
  <1> SUFFICES ASSUME Init PROVE IInv
    OBVIOUS
  <1>1. TypeOK
    BY InitType
  <1>2. \A v \in Visit : ~Running(v)
    BY DEF Init, Running, NoAttempt
  <1>3. visit \in Visit /\ visit = 1 /\ slot = None /\ restoring = {} /\ lock = {}
    BY <1>1 DEF Init, TypeOK
  <1>4. LockExact /\ StaleAttemptsStopped /\ SlotExact
    BY <1>2, <1>3 DEF LockExact, StaleAttemptsStopped, SlotExact
  <1>5. DrainBusy /\ ChecksKnown
    BY <1>2, <1>3 DEF Init, NoCoordinator, Coord, DrainBusy, ChecksKnown
  <1>6. CleanReflects
    BY <1>1 DEF Init, CleanReflects, TypeOK, Here
  <1>7. WaitersDrained
    BY <1>3 DEF Init, Away, WaitersDrained
  <1> QED BY <1>1, <1>4, <1>5, <1>6, <1>7 DEF IInv, Control

\* Every step keeps IInv.
LEMMA NextIInv == IInv /\ [Next]_vars => IInv'
  BY NextType, NextControl, NextReflects, NextDrained DEF IInv

\* IInv is an invariant.
LEMMA Invariance == Spec => []IInv
  BY InitIInv, NextIInv, PTL DEF Spec

\* The restore lock is held by exactly the tasks of the current visit.
THEOREM LockCorrect == Spec => []LockExact
  <1>1. IInv => LockExact
    BY DEF IInv, Control
  <1> QED BY <1>1, Invariance, PTL

\* Whatever attempt outlives its visit has been told to stop.
THEOREM StaleStoppedCorrect == Spec => []StaleAttemptsStopped
  <1>1. IInv => StaleAttemptsStopped
    BY DEF IInv, Control
  <1> QED BY <1>1, Invariance, PTL

\* A drain or a timer will come to every pending request.
THEOREM PendingWatchedCorrect == Spec => []PendingWatched
  <1>1. IInv => PendingWatched
    BY DEF IInv, Control, ChecksKnown, PendingWatched
  <1> QED BY <1>1, Invariance, PTL

-----------------------------------------------------------------------------
(***************************************************************************)
(* What the barrier lets through.                                          *)
(***************************************************************************)

\* A reader let through by the drain that an attempt starts sees a clean graph.
LEMMA RunAttemptThrough ==
    ASSUME TypeOK, NEW co, NEW readers \in [Reader -> ReaderState],
           RunAttempt(co, readers), NEW r \in Reader,
           readers[r].at # "through", reader'[r].at = "through"
    PROVE  ~Dirty(graph')
  <1>1. CASE reader' = readers
    BY <1>1
  <1>2. ASSUME NEW ok \in BOOLEAN, NEW g,
               reader' = Resolved(readers, visit, ok, g, lock)
        PROVE  ok
    <2>1. reader'[r] # Away /\ visit \in Visit
      BY DEF Away, TypeOK
    <2>2. Through(readers[r].kind, ok, g, lock)
      BY <1>2, <2>1, ResolvedReaders
    <2> QED BY <2>2 DEF Through
  <1> QED BY <1>1, <1>2 DEF RunAttempt

\* Only an attempt that ends with a clean graph lets readers through.
LEMMA EndThrough ==
    ASSUME TypeOK, NEW v \in Visit, NEW ok \in BOOLEAN, NEW g, End(v, ok, g),
           NEW r \in Reader, reader[r].at # "through", reader'[r].at = "through"
    PROVE  ok
  <1>1. reader' = Resolved(reader, v, ok, g, Leave(lock, Rollback(v)))
    BY DEF End
  <1>2. reader'[r] # Away /\ reader \in [Reader -> ReaderState]
    BY DEF Away, TypeOK
  <1>3. Through(reader[r].kind, ok, g, Leave(lock, Rollback(v)))
    BY <1>1, <1>2, ResolvedReaders
  <1> QED BY <1>3 DEF Through

\* A step that lets a reader of the current visit through leaves a clean
\* graph, if any, and announces nothing.
LEMMA ThroughClean ==
    ASSUME TypeOK, WaitersDrained, [Next]_vars, NEW r \in Reader,
           reader[r].at # "through", reader'[r].at = "through"
    PROVE  ~Dirty(graph') /\ UNCHANGED owed
  <1>1. reader \in [Reader -> ReaderState] /\ reader' # reader
    BY DEF TypeOK
  <1>2. CASE NextAttempt
    BY <1>1, <1>2, RunAttemptThrough DEF NextAttempt
  <1>3. ASSUME NEW v \in Visit, Saved(v) PROVE ~Dirty(graph') /\ UNCHANGED owed
    <2>1. ASSUME NEW g, End(v, FALSE, g) PROVE FALSE
      BY <2>1, EndThrough
    <2>2. ASSUME NEW pc, NEW g, Goto(v, pc, g) PROVE FALSE
      BY <1>1, <2>2 DEF Goto
    <2>3. ASSUME NEW accepted, NEW g, Compensate(v, accepted, g) PROVE FALSE
      BY <2>1, <2>2, <2>3 DEF Compensate
    <2>4. End(v, TRUE, [of |-> attempt[v].print, dirty |-> FALSE]) /\ UNCHANGED owed
      BY <1>3, <2>1, <2>2, <2>3 DEF Saved, CheckpointSaved, CandidateSaved,
         CompensationSaved, Unavailable, Reported
    <2> QED BY <2>4 DEF End, Dirty
  <1>4. CASE RecoveryTimer
    BY <1>1, <1>4, RunAttemptThrough DEF RecoveryTimer
  <1>5. ASSUME NEW q \in Reader, NEW kind \in {"recall", "recover"}, Read(q, kind)
        PROVE  ~Dirty(graph') /\ UNCHANGED owed
    <2>1. Arrived(q, kind) \in [Reader -> ReaderState]
          /\ Arrived(q, kind)[r].at # "through"
      BY <1>1 DEF Arrived, TypeOK, ReaderState
    <2>2. CASE RunAttempt(Requested(coord), Arrived(q, kind))
      BY <1>5, <2>1, <2>2, RunAttemptThrough DEF Read
    <2>3. ASSUME NEW ok, ~coord.draining, kind = "recall", UNCHANGED graph,
                 reader' = Resolved(Arrived(q, kind), visit, ok, graph, lock)
          PROVE  ~Dirty(graph') /\ UNCHANGED owed
      <3>1. reader'[r] # Away /\ visit \in Visit
        BY DEF Away, TypeOK
      <3>2. /\ Arrived(q, kind)[r].at = "waiting" /\ Arrived(q, kind)[r].visit = visit
            /\ Through(Arrived(q, kind)[r].kind, ok, graph, lock)
        BY <2>1, <2>3, <3>1, ResolvedReaders
      <3>3. Arrived(q, kind)[r].kind = "recall"
        BY <1>1, <2>3, <3>2 DEF Arrived, WaitersDrained
      <3> QED BY <1>5, <2>3, <3>2, <3>3 DEF Through, Read
    <2>4. CASE reader' = Arrived(q, kind)
      BY <2>1, <2>4
    <2> QED BY <1>5, <2>2, <2>3, <2>4 DEF Read
  <1>6. ASSUME NEW q \in Reader, Leaves(q) PROVE FALSE
    BY <1>1, <1>6 DEF Leaves, Away
  <1>7. reader' = reader => FALSE
    BY <1>1
  <1> QED BY <1>2, <1>3, <1>4, <1>5, <1>6, <1>7
          DEF Next, Timer, StopStage, BeginRestore, EndRestore, Mutate, Hear,
              RecheckTimer, DeferredRecheck, EnterChat, LoadGraph, vars

\* A reader that the barrier lets through sees a clean graph that reflects
\* every mutation its visit was told of.
THEOREM ReadsSettledCorrect == Spec => ReadsSettled
  <1> DEFINE Settles == \A r \in Reader :
          (/\ reader[r].at # "through" /\ reader'[r].at = "through"
           /\ reader'[r].visit = visit /\ graph' # None)
          => ~graph'.dirty /\ graph'.of >= owed
  <1>1. IInv /\ [Next]_vars => [Settles]_vars
    <2> SUFFICES ASSUME IInv, [Next]_vars, NEW r \in Reader,
                        reader[r].at # "through", reader'[r].at = "through",
                        graph' # None
                 PROVE  ~graph'.dirty /\ graph'.of >= owed
      OBVIOUS
    <2>1. ~Dirty(graph') /\ UNCHANGED owed
      BY ThroughClean DEF IInv
    <2>2. CleanReflects'
      BY NextReflects DEF IInv
    <2> QED BY <2>1, <2>2 DEF Dirty, CleanReflects
  <1> QED BY <1>1, Invariance, PTL DEF Spec, ReadsSettled
=============================================================================
