---------------------------- MODULE BackgroundWork ----------------------------
(***************************************************************************)
(* Work that follows an accepted batch: the bounded maintenance queue that  *)
(* runs one item at a time with retries (src/runtime/concurrency.js), the   *)
(* coalescer of vector tasks (src/runtime/vector-sync-coalescer.js), the    *)
(* item that ties them together (scheduleBackgroundVectorSync of           *)
(* src/index.js) and what a sync makes of the index of the graph           *)
(* (src/vector/vector-sync-controller.js, src/vector/vector-index.js).     *)
(*                                                                         *)
(* Each batch brings one node, and so may the post-process of a batch.  A   *)
(* range is the set of its nodes; the scope of a task stands for chat, host *)
(* branch, history and embedding model.                                     *)
(* An idle queue starts its next item at once (Resting).                   *)
(***************************************************************************)
EXTENDS Naturals, Sequences

CONSTANTS
    MaxItems,    \* the option of that name
    MaxRetries,  \* the option of that name
    MaxNodes,    \* bound: nodes
    MaxScopes,   \* bound: changes of the scope
    MaxOthers    \* bound: items that are not vector tasks

ASSUME WorkAssumption ==
    /\ MaxItems \in Nat \ {0} /\ MaxRetries \in Nat
    /\ {MaxNodes, MaxScopes, MaxOthers} \subseteq Nat

VARIABLES
    nodes,      \* the nodes of the graph
    quiet,      \* auxiliary: those no sync was asked for, nor a rebuild has taken in
    indexed,    \* those its vector index holds
    dirty,      \* vectorIndexState.dirty
    scope,      \* the scope a new task gets
    tasks,      \* the vector tasks made so far
    pending,    \* the coalescer's pending task, 0 if none
    active,     \* the coalescer's active task, 0 if none
    queue,      \* the items that wait: a vector task, or 0 for a post-process or a
                \* consolidation
    running,    \* the item that runs
    others,     \* how many items of the latter kinds there have been
    ours        \* how many of those that wait were made for the graph in memory

index == <<nodes, quiet, indexed, dirty>>
coalescer == <<tasks, pending, active>>
post == <<others, ours>>
workVars == <<index, scope, coalescer, queue, running, post>>

Node == 1..MaxNodes

\* An item runs ("sync" while its sync awaits) or waits for its next attempt.
\* "read" is the range its sync took, "plan" what that sync will index, "mine"
\* whether the graph the item works on is still the one in memory.
NotRunning == [phase |-> "none", task |-> 0, attempts |-> 0, read |-> {},
               plan |-> {}, mine |-> FALSE]

Resting == running.phase # "none" \/ queue = <<>>

Occupied == Len(queue) + (IF running.phase = "none" THEN 0 ELSE 1)

Refuses == Occupied >= MaxItems

Fresh(n) == n \notin nodes /\ \A l \in Node \ nodes : n <= l

-----------------------------------------------------------------------------
(* The coalescer                                                            *)

Live(t) == t # 0 /\ ~tasks[t].stale

Mergeable(t) == Live(t) /\ tasks[t].scope = scope

Stale(t, ts) == IF t = 0 THEN ts ELSE [ts EXCEPT ![t].stale = TRUE]

\* Seeded fault: a task of the same scope is joined even if it runs.
Twin == IF Mergeable(active) THEN active ELSE pending

\* The task a request joins: only one that has not started.
Joinable == pending

\* Seeded fault: a refused task stays pending.
KeepsRefused(t) == pending' = t

\* A task the queue refuses is dropped.
Drops(t) == pending' = 0

\* scheduleBackgroundVectorSync for a node: the request joins the pending task of
\* its scope or replaces it; a new task gets an item of the queue, if there is room.
Schedule(n) ==
    LET t    == Len(tasks) + 1
        new(stale) == Append(Stale(pending, tasks),
                             [range |-> {n}, scope |-> scope, stale |-> stale])
    IN  IF Mergeable(Joinable)
        THEN /\ tasks' = [tasks EXCEPT ![Joinable].range = @ \cup {n}]
             /\ UNCHANGED <<pending, queue>>
        ELSE IF Refuses
        THEN /\ tasks' = new(TRUE)
             /\ Drops(t)
             /\ UNCHANGED queue
        ELSE /\ tasks' = new(FALSE)
             /\ pending' = t
             /\ queue' = Append(queue, t)

-----------------------------------------------------------------------------
(* What happens to the graph                                                *)

\* What a batch and a consolidation say of the index before they are saved.
MarksIndex == dirty' = TRUE

\* A batch or a consolidation publishes a clone of the graph, whose index is
\* dirty, and asks for a sync.
PublishBatch ==
    /\ Resting
    /\ \E n \in Node :
          /\ Fresh(n)
          /\ nodes' = nodes \cup {n}
          /\ Schedule(n)
    /\ MarksIndex
    /\ running' = [running EXCEPT !.mine = FALSE] /\ ours' = 0
    /\ UNCHANGED <<quiet, indexed, scope, active, others>>

\* A confirmed save replaces the graph by a clone and asks for nothing.
ReplaceGraph ==
    /\ Resting /\ (running.mine \/ ours > 0)
    /\ running' = [running EXCEPT !.mine = FALSE] /\ ours' = 0
    /\ UNCHANGED <<index, scope, coalescer, queue, others>>

\* A new message changes the scope; deleted or swiped messages and another chat
\* also clear the coalescer.
NewMessage ==
    /\ Resting /\ scope < MaxScopes
    /\ scope' = scope + 1
    /\ UNCHANGED <<index, coalescer, queue, running, post>>

ClearTasks ==
    /\ Resting /\ scope < MaxScopes
    /\ scope' = scope + 1
    /\ tasks' = Stale(pending, Stale(active, tasks))
    /\ pending' = 0 /\ active' = 0
    /\ UNCHANGED <<index, queue, running, post>>

\* A post-process (summaries, a reflection, a compression) or a consolidation is
\* scheduled for the graph in memory.
SchedulePostProcess ==
    /\ Resting /\ others < MaxOthers /\ ~Refuses
    /\ others' = others + 1 /\ ours' = ours + 1
    /\ queue' = Append(queue, 0)
    /\ UNCHANGED <<index, scope, coalescer, running>>

-----------------------------------------------------------------------------
(* The queue                                                                *)

Outdated(t) == tasks[t].stale \/ tasks[t].scope # scope

\* Seeded fault: a dirty index is synced for the range only.
PlannedRange(range) == range

\* A range of a dirty index is widened to the whole graph.
Planned(range) == IF dirty THEN nodes ELSE range

\* An attempt starts: the task leaves the pending place; an outdated one is
\* skipped, any other reads its range and takes the embeddings out of a dirty index,
\* which is rebuilt for every node there is.
Try(t, attempts) ==
    /\ pending' = IF t = pending /\ ~tasks[t].stale THEN 0 ELSE pending
    /\ IF Outdated(t)
       THEN /\ running' = NotRunning
            /\ active' = IF tasks[t].stale THEN active ELSE 0
            /\ UNCHANGED <<indexed, quiet>>
       ELSE /\ running' = [phase |-> "sync", task |-> t, attempts |-> attempts,
                           read |-> tasks[t].range, plan |-> Planned(tasks[t].range),
                           mine |-> TRUE]
            /\ active' = t
            /\ indexed' = IF dirty THEN {} ELSE indexed
            /\ quiet' = IF dirty THEN {} ELSE quiet

\* Those for the graph in memory were made last, and wait behind the others.
HeadIsOurs == ours = Len(SelectSeq(queue, LAMBDA item : item = 0))

StartItem ==
    /\ running.phase = "none" /\ queue # <<>>
    /\ queue' = Tail(queue)
    /\ IF Head(queue) = 0
       THEN /\ running' = [NotRunning EXCEPT !.phase = "post", !.mine = HeadIsOurs]
            /\ ours' = IF HeadIsOurs THEN ours - 1 ELSE ours
            /\ UNCHANGED <<indexed, quiet, pending, active>>
       ELSE Try(Head(queue), 1) /\ UNCHANGED ours
    /\ UNCHANGED <<nodes, dirty, scope, tasks, others>>

\* The plan of a post-process is committed to the graph it was made for, a node of
\* its own at most: no mark on the index, no request for a sync.  A consolidation has
\* published its clone (PublishBatch), or ends without.
PostProcessEnds ==
    /\ running.phase = "post"
    /\ running' = NotRunning
    /\ \/ UNCHANGED <<nodes, quiet>>
       \/ \E n \in Node :
             /\ running.mine /\ Fresh(n)
             /\ nodes' = nodes \cup {n} /\ quiet' = quiet \cup {n}
    /\ UNCHANGED <<indexed, dirty, scope, coalescer, queue, post>>

\* complete, whatever came of the run.
Completed == IF active = running.task THEN 0 ELSE active

Missing == running.plan \ indexed

\* The embeddings have arrived, perhaps not all of them. A graph that is no longer
\* in memory is not touched.
SyncEnds(found) ==
    /\ running.phase = "sync"
    /\ IF running.mine
       THEN /\ indexed' = indexed \cup found
            /\ dirty' = (found # Missing)
       ELSE UNCHANGED <<indexed, dirty>>
    /\ active' = Completed
    /\ running' = NotRunning
    /\ UNCHANGED <<nodes, quiet, scope, tasks, pending, queue, post>>

\* The sync fails: the index is dirty and the item is tried again, unless it is
\* outdated, its graph was replaced or its attempts are spent.
SyncFails ==
    /\ running.phase = "sync"
    /\ dirty' = (dirty \/ running.mine)
    /\ active' = Completed
    /\ running' = IF ~running.mine \/ Outdated(running.task) \/ running.attempts > MaxRetries
                  THEN NotRunning
                  ELSE [running EXCEPT !.phase = "delay", !.mine = FALSE]
    /\ UNCHANGED <<nodes, quiet, indexed, scope, tasks, pending, queue, post>>

\* Seeded fault: an attempt that failed is not counted.
SameTry == running.attempts

NextTry == running.attempts + 1

RetryItem ==
    /\ running.phase = "delay"
    /\ Try(running.task, NextTry)
    /\ UNCHANGED <<nodes, dirty, scope, tasks, queue, post>>

-----------------------------------------------------------------------------
(* Specification                                                            *)

WorkInit ==
    /\ nodes = {} /\ quiet = {} /\ indexed = {} /\ dirty = FALSE
    /\ scope = 0
    /\ tasks = <<>> /\ pending = 0 /\ active = 0
    /\ queue = <<>> /\ running = NotRunning /\ others = 0 /\ ours = 0

WorkNext ==
    \/ PublishBatch
    \/ ReplaceGraph
    \/ NewMessage
    \/ ClearTasks
    \/ SchedulePostProcess
    \/ StartItem
    \/ PostProcessEnds
    \/ \E found \in SUBSET Missing : SyncEnds(found)
    \/ SyncFails
    \/ RetryItem

\* Promises settle and delays end: an embedding request has a timeout.
WorkFairness ==
    /\ WF_workVars(StartItem)
    /\ WF_workVars(PostProcessEnds)
    /\ WF_workVars(SyncFails \/ \E found \in SUBSET Missing : SyncEnds(found))
    /\ WF_workVars(RetryItem)

WorkSpec == WorkInit /\ [][WorkNext]_workVars /\ WorkFairness

-----------------------------------------------------------------------------
(* Properties                                                               *)

\* An index that is not marked dirty holds every node a sync was ever asked for or a
\* rebuild found: whatever task was dropped, outdated or given up, a later sync
\* rebuilds what it left out.  The nodes of a post-process are asked for by nobody and
\* may be missing from a clean index until the next batch or failure marks it.
IndexedOrDirty == dirty \/ nodes \ quiet \subseteq indexed

\* The pending task has an item that waits, so that a request that joins it is not
\* lost with a task that was refused, replaced or has run.
PendingIsQueued ==
    pending # 0 => /\ ~tasks[pending].stale
                   /\ \E n \in DOMAIN queue : queue[n] = pending

\* The range of a run does not grow behind its back.
ReadRangeIsFinal ==
    running.phase = "sync" => tasks[running.task].range = running.read

\* A pending task does not wait for ever behind items that fail: once no more
\* batches come, it starts or is dropped, however often the items before it are
\* tried again.
PendingIsStarted == pending # 0 ~> pending = 0
=============================================================================
