--------------------------- MODULE HistoryRollback ---------------------------
(***************************************************************************)
(* Rolling the memory graph back when messages of the chat are deleted or  *)
(* swiped: one coordinator per visit of a chat (src/runtime/               *)
(* history-recovery-coordinator.js) serializes the attempts of             *)
(* src/maintenance/reroll-recovery-controller.js; timers, the abort        *)
(* controller of the stage and the wiring are those of src/index.js, the   *)
(* restore lock is src/runtime/restore-lock-controller.js.                 *)
(*                                                                         *)
(* A visit is one epoch of the conversation workspace (src/runtime/        *)
(* conversation-workspace.js).  Entering a chat resets the workspace; what *)
(* an earlier visit still awaits goes on.                                  *)
(***************************************************************************)
EXTENDS Naturals

CONSTANTS Chat, Reader, None,
          Rechecks,      \* length of HISTORY_MUTATION_RETRY_DELAYS_MS
          MaxVisit,      \* bound on visits
          MaxMutation,   \* bound on the mutations of one chat
          MaxRequest     \* bound on the requests of one visit

ASSUME ConstantsOK ==
    /\ Rechecks \in Nat \ {0} /\ MaxVisit \in Nat \ {0}
    /\ MaxMutation \in Nat /\ MaxRequest \in Nat
    /\ None \notin Nat

Visit     == 1..MaxVisit
Structure == 0..MaxMutation
Request   == 1..MaxRequest

VARIABLES
    visit,      \* the current visit
    home,       \* the chat of each visit
    structure,  \* structure fingerprint of each chat: its mutations so far
    deep,       \* the last mutation of each chat that hit processed floors
    heard,      \* the last mutation of each chat an event told of
    graph,      \* the workspace graph, None until loaded
    lock,       \* owners of the restore lock
    slot,       \* visit whose AbortController is in the stage slot "history"
    attempt,    \* the rollback attempt of each visit
    coord,      \* the coordinator of the current visit
    checks,     \* pending recheck timers and the request they may settle
    deferred,   \* is the timer of a deferred recheck set?
    recovery,   \* is the recovery timer set?
    restoring,  \* visits whose restore task still runs
    reader,     \* readers behind the barrier
    owed        \* auxiliary: deep mutation announced while this graph was in use

chats  == <<structure, deep, heard>>
timers == <<checks, deferred, recovery>>
vars   == <<visit, home, chats, graph, lock, slot, attempt, coord, timers,
            restoring, reader, owed>>

Graph == [of : Structure, dirty : BOOLEAN]

NoAttempt == [pc |-> "none"]

\* An attempt awaits, in turn: the save of its checkpoint, the save of the
\* rolled-back candidate, the save that compensates it, a last save.
Attempt == [pc : {"checkpoint", "candidate", "compensation", "report"},
            request : Request,
            print : Structure,       \* historyFingerprint
            start : Graph,           \* recoveryStartGraph
            aborted : BOOLEAN]       \* historySignal

Coordinator == [asked : 0..MaxRequest, done : 0..MaxRequest,
                pending : Request \cup {None}, draining : BOOLEAN,
                ok : BOOLEAN]        \* lastResult

Coord(asked, done, pending, draining, ok) ==
    [asked |-> asked, done |-> done, pending |-> pending,
     draining |-> draining, ok |-> ok]

NoCoordinator == Coord(0, 0, None, FALSE, TRUE)

ReaderState == [at : {"away", "waiting", "through"}, visit : Visit,
                kind : {"recall", "recover"}]

Checks == [request : Request, left : 1..Rechecks]

Away == [at |-> "away", visit |-> 1, kind |-> "recall"]

ASSUME NoneIsNoRecord == None \notin Graph \cup Checks

Owner == {"rollback", "restore"} \X Visit

TypeOK ==
    /\ visit \in Visit /\ home \in [Visit -> Chat]
    /\ structure \in [Chat -> Structure] /\ deep \in [Chat -> Structure]
    /\ heard \in [Chat -> Structure]
    /\ graph \in Graph \cup {None}
    /\ lock \in SUBSET Owner
    /\ slot \in Visit \cup {None}
    /\ attempt \in [Visit -> Attempt \cup {NoAttempt}]
    /\ coord \in Coordinator
    /\ checks \in Checks \cup {None}
    /\ deferred \in BOOLEAN /\ recovery \in BOOLEAN
    /\ restoring \in SUBSET Visit
    /\ reader \in [Reader -> ReaderState]
    /\ owed \in Structure

Init ==
    /\ visit = 1 /\ home \in {[v \in Visit |-> c] : c \in Chat}
    /\ structure = [c \in Chat |-> 0] /\ deep = structure /\ heard = structure
    /\ graph = None
    /\ lock = {} /\ slot = None
    /\ attempt = [v \in Visit |-> NoAttempt]
    /\ coord = NoCoordinator
    /\ checks = None /\ deferred = FALSE /\ recovery = FALSE
    /\ restoring = {}
    /\ reader = [r \in Reader |-> Away]
    /\ owed = 0

Here       == home[visit]
Running(v) == attempt[v].pc # "none"
Rollback(v) == <<"rollback", v>>
Restore(v)  == <<"restore", v>>

-----------------------------------------------------------------------------
(***************************************************************************)
(* Parts of the handlers.                                                  *)
(***************************************************************************)
Dirty(g) == g # None /\ g.dirty

MarkDirty(g) == IF g = None THEN None ELSE [g EXCEPT !.dirty = TRUE]

\* inspectHistoryMutation: a graph whose processed floors no longer match
\* the chat is marked dirty.
Inspected(g) == IF g # None /\ g.of < deep[Here] THEN MarkDirty(g) ELSE g

\* Seeded fault: leaving empties the lock, whoever holds it.
LeaveAll(owners, token) == {}

Leave(owners, token) == owners \ {token}

\* Seeded fault: the controller in the slot is not aborted.
NotAborting == attempt

\* abortStage("history"): the signal of the controller now in the slot.
Aborting == IF slot = None THEN attempt
            ELSE [attempt EXCEPT ![slot].aborted = TRUE]

FreedSlot(v) == IF slot = v THEN None ELSE slot

\* Readers that joined the drain of visit v get its result.  Recall checks
\* the dirty flag and the lock once more.
Through(kind, ok, g, owners) ==
    ok /\ (kind = "recall" => ~Dirty(g) /\ owners = {})

Resolved(readers, v, ok, g, owners) ==
    [r \in Reader |->
        IF readers[r].at = "waiting" /\ readers[r].visit = v
        THEN IF Through(readers[r].kind, ok, g, owners)
             THEN [readers[r] EXCEPT !.at = "through"] ELSE Away
        ELSE readers[r]]

-----------------------------------------------------------------------------
(***************************************************************************)
(* The drain of the coordinator.  An attempt runs to its first await in    *)
(* the step that starts it; one that has nothing to roll back or finds the *)
(* restore lock taken ends there.                                          *)
(***************************************************************************)
Later(m, n) == IF m > n THEN m ELSE n

\* Seeded fault: the drain stops although a request came in meanwhile.
Unlooped(co, request, ok) ==
    Coord(co.asked, Later(request, co.done), co.pending, FALSE, ok)

Finished(co, request, ok) ==
    Coord(co.asked, Later(request, co.done), co.pending, co.pending # None, ok)

RunAttempt(co, readers) ==
    LET g    == Inspected(graph)
        next == Coord(co.asked, co.done, None, TRUE, co.ok)
        Return(ok) ==
            /\ graph' = g
            /\ coord' = Finished(next, co.pending, ok)
            /\ reader' = Resolved(readers, visit, ok, g, lock)
            /\ UNCHANGED <<lock, slot, attempt>>
    IN
    \/ ~Dirty(g) /\ Return(TRUE)
    \/ Dirty(g) /\ lock # {} /\ Return(FALSE)
    \/ /\ Dirty(g) /\ lock = {}
       /\ graph' = g
       /\ lock' = {Rollback(visit)}
       /\ slot' = visit
       /\ attempt' = [attempt EXCEPT ![visit] =
             [pc |-> "checkpoint", request |-> co.pending,
              print |-> structure[Here], start |-> g, aborted |-> FALSE]]
       /\ coord' = next
       /\ reader' = readers

\* recover(): what is pending, or else a new request.
Requested(co) ==
    IF co.pending # None THEN co
    ELSE Coord(co.asked + 1, co.done, co.asked + 1, co.draining, co.ok)

CanRequest == coord.pending = None => coord.asked < MaxRequest

\* Between two attempts the drain waits for a promise only, so no timer
\* fires then.
Continuing == coord.draining /\ ~Running(visit)

\* The drain goes on with the request that arrived meanwhile.
NextAttempt ==
    /\ Continuing /\ coord.pending # None
    /\ RunAttempt(coord, reader)
    /\ UNCHANGED <<visit, home, chats, timers, restoring, owed>>

\* The end of an attempt, its finally included.  Only the coordinator of the
\* current visit goes on.
End(v, ok, g) ==
    LET more   == v = visit /\ coord.pending # None
        owners == Leave(lock, Rollback(v))
    IN
    /\ graph' = g
    /\ lock' = owners
    /\ slot' = FreedSlot(v)
    /\ attempt' = [attempt EXCEPT ![v] = NoAttempt]
    /\ coord' = IF v = visit THEN Finished(coord, attempt[v].request, ok) ELSE coord
    /\ reader' = IF more THEN reader ELSE Resolved(reader, v, ok, g, owners)

Goto(v, pc, g) ==
    /\ graph' = g
    /\ attempt' = [attempt EXCEPT ![v].pc = pc]
    /\ UNCHANGED <<lock, slot, coord, reader>>

-----------------------------------------------------------------------------
(***************************************************************************)
(* The steps of an attempt after each await.                               *)
(***************************************************************************)
SameChat(v) == home[v] = Here

\* Seeded fault: only the signal is checked, not the structure.
Signalled(v) == attempt[v].aborted \/ ~SameChat(v)

Interrupted(v) ==
    attempt[v].aborted \/ ~SameChat(v) \/ structure[Here] # attempt[v].print

\* Before the candidate was accepted, compensating is to mark the graph that
\* is current by now; afterwards, to save the graph of the start again.
Compensate(v, accepted, g) ==
    IF ~SameChat(v) THEN End(v, FALSE, graph)
    ELSE IF accepted THEN Goto(v, "compensation", g)
    ELSE IF g = None THEN End(v, FALSE, g)
    ELSE Goto(v, "report", MarkDirty(g))

Await(v, pc) == attempt[v].pc = pc

CheckpointSaved(v, accepted) ==
    /\ Await(v, "checkpoint")
    /\ \/ Interrupted(v) /\ Compensate(v, FALSE, Inspected(graph))
       \/ ~Interrupted(v) /\ ~accepted /\ End(v, FALSE, graph)
       \/ ~Interrupted(v) /\ accepted /\ Goto(v, "candidate", graph)
    /\ UNCHANGED <<visit, home, chats, timers, restoring, owed>>

\* No journal covers the floor, or its plan is invalid.
Unavailable(v) ==
    /\ Await(v, "checkpoint") /\ ~Interrupted(v)
    /\ Goto(v, "report", MarkDirty(graph))
    /\ UNCHANGED <<visit, home, chats, timers, restoring, owed>>

CandidateSaved(v, accepted) ==
    /\ Await(v, "candidate")
    /\ \/ ~accepted /\ End(v, FALSE, MarkDirty(graph))
       \/ accepted /\ Interrupted(v)
          /\ Compensate(v, TRUE, IF SameChat(v) THEN Inspected(graph) ELSE graph)
       \/ accepted /\ ~Interrupted(v)
          /\ End(v, TRUE, [of |-> attempt[v].print, dirty |-> FALSE])
    /\ UNCHANGED <<visit, home, chats, timers, restoring, owed>>

CompensationSaved(v, accepted) ==
    /\ Await(v, "compensation")
    /\ \/ accepted /\ End(v, FALSE, MarkDirty(attempt[v].start))
       \/ ~accepted /\ graph # None /\ Goto(v, "report", MarkDirty(graph))
       \/ ~accepted /\ graph = None /\ End(v, FALSE, graph)
    /\ UNCHANGED <<visit, home, chats, timers, restoring, owed>>

Reported(v) ==
    /\ Await(v, "report")
    /\ End(v, FALSE, graph)
    /\ UNCHANGED <<visit, home, chats, timers, restoring, owed>>

\* The user stops the stage from its notice.
StopStage ==
    /\ slot # None /\ ~attempt[slot].aborted
    /\ attempt' = Aborting
    /\ UNCHANGED <<visit, home, chats, graph, lock, slot, coord, timers,
                   restoring, reader, owed>>

-----------------------------------------------------------------------------
(***************************************************************************)
(* Mutations of the chat, the events that tell of them, and the timers.    *)
(***************************************************************************)
Mutate(isDeep) ==
    /\ structure[Here] < MaxMutation
    /\ structure' = [structure EXCEPT ![Here] = @ + 1]
    /\ deep' = IF isDeep THEN [deep EXCEPT ![Here] = structure'[Here]] ELSE deep
    /\ UNCHANGED <<visit, home, heard, graph, lock, slot, attempt, coord, timers,
                   restoring, reader, owed>>

\* scheduleHistoryMutationRecheck: a new request supersedes the running
\* attempt, the timers start over.
Recheck ==
    /\ coord.asked < MaxRequest
    /\ coord' = Coord(coord.asked + 1, coord.done, coord.asked + 1,
                      coord.draining, coord.ok)
    /\ attempt' = IF coord.draining THEN Aborting ELSE attempt
    /\ checks' = [request |-> coord.asked + 1, left |-> Rechecks]
    /\ recovery' = FALSE

\* The event of a deletion or a swipe.  The deletion of the last assistant
\* message only marks the graph and defers the recheck.
Hear(later) ==
    /\ heard[Here] < structure[Here]
    /\ heard' = [heard EXCEPT ![Here] = structure[Here]]
    /\ graph' = Inspected(graph)
    /\ owed' = IF graph = None THEN owed ELSE deep[Here]
    /\ IF later THEN /\ deferred' = TRUE
                     /\ UNCHANGED <<coord, attempt, checks, recovery>>
                ELSE Recheck /\ UNCHANGED deferred
    /\ UNCHANGED <<visit, home, structure, deep, lock, slot, restoring, reader>>

\* The deferred timer, or the end of the generation.
DeferredRecheck ==
    /\ deferred /\ ~Continuing
    /\ deferred' = FALSE
    /\ Recheck
    /\ UNCHANGED <<visit, home, chats, graph, lock, slot, restoring, reader, owed>>

\* Seeded fault: the last timer is not seen to be the last.
Rearmed(g) == IF Dirty(g) THEN None ELSE [checks EXCEPT !.left = @ - 1]

Remaining(g) == IF Dirty(g) \/ checks.left = 1 THEN None
                ELSE [checks EXCEPT !.left = @ - 1]

\* One of the recheck timers.  The last one that finds the graph clean
\* settles the request.
RecheckTimer ==
    LET g == Inspected(graph) IN
    /\ checks # None /\ ~Continuing
    /\ graph' = g
    /\ checks' = Remaining(g)
    /\ recovery' = (recovery \/ Dirty(g))
    /\ coord' = IF ~Dirty(g) /\ checks.left = 1 /\ coord.pending = checks.request
                THEN Coord(coord.asked, Later(checks.request, coord.done), None,
                           coord.draining, TRUE)
                ELSE coord
    /\ UNCHANGED <<visit, home, chats, lock, slot, attempt, deferred, restoring,
                   reader, owed>>

RecoveryTimer ==
    /\ recovery /\ ~Continuing /\ (~coord.draining => CanRequest)
    /\ recovery' = FALSE
    /\ IF coord.draining
       THEN UNCHANGED <<graph, lock, slot, attempt, coord, reader>>
       ELSE RunAttempt(Requested(coord), reader)
    /\ UNCHANGED <<visit, home, chats, checks, deferred, restoring, owed>>

-----------------------------------------------------------------------------
(***************************************************************************)
(* Readers.  Extraction and the planner call recover(), recall calls       *)
(* waitForBarrier(), which starts only what is pending and else gives the  *)
(* last result; where the graph may not be written it is not called.       *)
(***************************************************************************)
Arrived(r, kind) ==
    [reader EXCEPT ![r] = [at |-> "waiting", visit |-> visit, kind |-> kind]]

Read(r, kind) ==
    LET readers == Arrived(r, kind) IN
    /\ reader[r].at = "away"
    /\ \/ /\ coord.draining
          /\ reader' = readers
          /\ UNCHANGED <<graph, lock, slot, attempt, coord>>
       \/ /\ ~coord.draining
          /\ kind = "recall" => coord.pending # None
          /\ CanRequest
          /\ RunAttempt(Requested(coord), readers)
       \/ /\ ~coord.draining /\ kind = "recall" /\ coord.pending = None
          /\ \E ok \in {coord.ok, TRUE} : reader' = Resolved(readers, visit, ok, graph, lock)
          /\ UNCHANGED <<graph, lock, slot, attempt, coord>>
    /\ UNCHANGED <<visit, home, chats, timers, restoring, owed>>

Leaves(r) ==
    /\ reader[r].at = "through"
    /\ reader' = [reader EXCEPT ![r] = Away]
    /\ UNCHANGED <<visit, home, chats, graph, lock, slot, attempt, coord, timers,
                   restoring, owed>>

-----------------------------------------------------------------------------
(***************************************************************************)
(* The workspace: entering a chat, loading its graph, restore tasks.       *)
(***************************************************************************)
EnterChat(c) ==
    /\ visit < MaxVisit
    /\ visit' = visit + 1
    /\ home' = [home EXCEPT ![visit + 1] = c]
    /\ graph' = None /\ lock' = {} /\ owed' = 0
    /\ attempt' = Aborting
    /\ coord' = NoCoordinator
    /\ checks' = None /\ deferred' = FALSE /\ recovery' = FALSE
    /\ UNCHANGED <<chats, slot, restoring, reader>>

LoadGraph(g) ==
    /\ graph = None /\ g.of <= structure[Here]
    /\ graph' = g
    /\ UNCHANGED <<visit, home, chats, lock, slot, attempt, coord, timers,
                   restoring, reader, owed>>

\* runWithRestoreLock
BeginRestore ==
    /\ visit \notin restoring
    /\ restoring' = restoring \cup {visit}
    /\ lock' = lock \cup {Restore(visit)}
    /\ UNCHANGED <<visit, home, chats, graph, slot, attempt, coord, timers,
                   reader, owed>>

EndRestore(v) ==
    /\ v \in restoring
    /\ restoring' = restoring \ {v}
    /\ lock' = Leave(lock, Restore(v))
    /\ UNCHANGED <<visit, home, chats, graph, slot, attempt, coord, timers,
                   reader, owed>>

-----------------------------------------------------------------------------
Saved(v) == \/ \E accepted \in BOOLEAN :
                  \/ CheckpointSaved(v, accepted)
                  \/ CandidateSaved(v, accepted)
                  \/ CompensationSaved(v, accepted)
            \/ Unavailable(v) \/ Reported(v)

Timer == RecheckTimer \/ DeferredRecheck \/ RecoveryTimer

Next ==
    \/ NextAttempt \/ Timer \/ StopStage \/ BeginRestore
    \/ \E v \in Visit : Saved(v) \/ EndRestore(v)
    \/ \E isDeep \in BOOLEAN : Mutate(isDeep)
    \/ \E later \in BOOLEAN : Hear(later)
    \/ \E r \in Reader, kind \in {"recall", "recover"} : Read(r, kind)
    \/ \E r \in Reader : Leaves(r)
    \/ \E c \in Chat : EnterChat(c)
    \/ \E g \in Graph : LoadGraph(g)

\* Awaited saves settle, timers fire, promises continue.
Fairness ==
    /\ WF_vars(NextAttempt)
    /\ WF_vars(RecheckTimer) /\ WF_vars(RecoveryTimer)
    /\ \A v \in Visit : WF_vars(Saved(v))

Spec == Init /\ [][Next]_vars

FairSpec == Spec /\ Fairness

-----------------------------------------------------------------------------
(***************************************************************************)
(* Properties.                                                             *)
(***************************************************************************)

\* The restore lock is held by exactly the tasks of the current visit: no
\* late finally of an earlier visit releases it, none leaks into the next.
LockExact ==
    lock = {o \in Owner : \/ o = Rollback(visit) /\ Running(visit)
                          \/ o = Restore(visit) /\ visit \in restoring}

\* An attempt of an earlier visit has been told to stop: the one controller
\* slot always reaches the attempt that runs when the chat changes.
StaleAttemptsStopped ==
    \A v \in Visit : v < visit /\ Running(v) => attempt[v].aborted

\* A pending request is never forgotten: a drain or a timer will come to it.
PendingWatched ==
    coord.pending # None => coord.draining \/ checks # None \/ recovery

\* Every request is served by an attempt, or settled, or its visit is over.
RequestsServed ==
    \A v \in Visit, n \in Request :
        (visit = v /\ coord.pending = n) ~> (visit > v \/ coord.done >= n)

\* A reader that the barrier lets through sees a clean graph that reflects
\* every mutation its visit was told of.
ReadsSettled ==
    [][\A r \in Reader :
          (/\ reader[r].at # "through" /\ reader'[r].at = "through"
           /\ reader'[r].visit = visit /\ graph' # None)
          => ~graph'.dirty /\ graph'.of >= owed]_vars

\* An attempt that outlives its visit leaves the graph of another chat alone.
OtherChatsUntouched ==
    [][\A v \in Visit :
          ~SameChat(v) /\ attempt'[v] # attempt[v] /\ visit' = visit
             => graph' = graph]_vars
=============================================================================
