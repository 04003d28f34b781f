------------------------- MODULE BackgroundWorkProofs -------------------------
(***************************************************************************)
(* Theorems about the work on the graph that runs beside the chat: about    *)
(* BackgroundWork, for every length of the queue, number of retries,        *)
(* nodes, changes of the scope and items of other kinds; and about        *)
(* AutoExtraction, for all runs, messages, generations and steps.           *)
(*                                                                         *)
(* An extraction plans, awaits, reads the chat, awaits and publishes, while  *)
(* floors change and a rollback takes back what was published.  Its         *)
(* invariant says what hashes and journal of a graph say of one another,    *)
(* and what a run or a rollback may still rely on after its awaits.         *)
(***************************************************************************)
EXTENDS BackgroundWork, AutoExtraction, SequenceTheorems, WellFoundedInduction, TLAPS

Task == [range : SUBSET Node, scope : Nat, stale : BOOLEAN]

Run == [phase : {"none", "post", "sync", "delay"}, task : Nat, attempts : Nat,
        read : SUBSET Node, plan : SUBSET Node, mine : BOOLEAN]

WorkTypes ==
    /\ nodes \in SUBSET Node /\ quiet \in SUBSET Node
    /\ indexed \in SUBSET Node /\ dirty \in BOOLEAN
    /\ scope \in Nat
    /\ tasks \in Seq(Task)
    /\ pending \in 0..Len(tasks) /\ active \in 0..Len(tasks)
    /\ queue \in Seq(Nat)
    /\ running \in Run
    /\ others \in Nat

\* What waits or runs is one of the tasks made so far.
TasksKnown ==
    /\ \A i \in 1..Len(queue) : queue[i] <= Len(tasks)
    /\ running.phase \in {"sync", "delay"} => running.task \in 1..Len(tasks)

\* A task asks for nodes of the graph only.
RangesAreNodes == \A t \in 1..Len(tasks) : tasks[t].range \subseteq nodes

\* A task whose sync runs is no longer pending.
RunIsNotPending == running.phase = "sync" => running.task # pending

\* A sync of the graph in memory plans whatever the index of that graph lacks.
PlanCompletes ==
    running.phase = "sync" /\ running.mine => nodes \ quiet \subseteq indexed \cup running.plan

WorkInv == /\ WorkTypes
           /\ TasksKnown
           /\ RangesAreNodes
           /\ RunIsNotPending
           /\ PlanCompletes
           /\ IndexedOrDirty
           /\ PendingIsQueued
           /\ ReadRangeIsFinal

-----------------------------------------------------------------------------
(* The coalescer                                                            *)

\* A task that becomes stale keeps its range and its scope.
LEMMA StaleKeepsRanges ==
    ASSUME NEW ts \in Seq(Task), NEW t \in 0..Len(ts)
    PROVE  /\ Stale(t, ts) \in Seq(Task)
           /\ Len(Stale(t, ts)) = Len(ts)
           /\ \A i \in 1..Len(ts) : /\ Stale(t, ts)[i].range = ts[i].range
                                    /\ i # t => Stale(t, ts)[i] = ts[i]
<1>1. CASE t = 0
  BY <1>1 DEF Stale
<1>2. CASE t # 0
  <2> DEFINE old == [ts[t] EXCEPT !.stale = TRUE]
  <2>1. t \in 1..Len(ts)
    BY <1>2, LenProperties
  <2>2. ts[t] \in Task
    BY <2>1, ElementOfSeq
  <2>3. old \in Task /\ old.range = ts[t].range
    BY <2>2 DEF Task
  <2>4. Stale(t, ts) = [ts EXCEPT ![t] = old]
    BY <1>2 DEF Stale
  <2> HIDE DEF old
  <2> QED
    BY <2>1, <2>3, <2>4, ExceptSeq
<1> QED
  BY <1>1, <1>2

\* What a request for a node does: other tasks keep their ranges, the new range is
\* one of the new graph, and the pending task waits in the queue.
LEMMA ScheduleKeeps ==
    ASSUME WorkInv, NEW n \in Node, nodes' = nodes \cup {n}, Schedule(n)
    PROVE  /\ tasks' \in Seq(Task) /\ Len(tasks) <= Len(tasks')
           /\ \A t \in 1..Len(tasks) : t # pending => tasks'[t].range = tasks[t].range
           /\ \A t \in 1..Len(tasks') : tasks'[t].range \subseteq nodes'
           /\ pending' \in {0, pending, Len(tasks) + 1}
           /\ pending' \in 0..Len(tasks')
           /\ queue' \in Seq(Nat)
           /\ \A i \in 1..Len(queue') : queue'[i] <= Len(tasks')
           /\ PendingIsQueued'
<1> DEFINE t == Len(tasks) + 1
           fresh(stale) == [range |-> {n}, scope |-> scope, stale |-> stale]
           old == Stale(pending, tasks)
<1>1. /\ tasks \in Seq(Task) /\ Len(tasks) \in Nat /\ pending \in 0..Len(tasks)
      /\ queue \in Seq(Nat) /\ Len(queue) \in Nat /\ DOMAIN queue = 1..Len(queue)
      /\ scope \in Nat
      /\ TasksKnown /\ RangesAreNodes /\ PendingIsQueued
  BY LenProperties DEF WorkInv, WorkTypes
<1>2. CASE Mergeable(Joinable)
  <2> DEFINE joined == [tasks[pending] EXCEPT !.range = @ \cup {n}]
  <2>1. /\ tasks' = [tasks EXCEPT ![pending] = joined]
        /\ UNCHANGED <<pending, queue>>
    BY <1>2 DEF Schedule, Joinable
  <2>2. pending \in 1..Len(tasks)
    BY <1>1, <1>2 DEF Mergeable, Live, Joinable
  <2>3. tasks[pending] \in Task
    BY <2>2, <1>1, ElementOfSeq
  <2>4. joined \in Task /\ joined.stale = tasks[pending].stale
        /\ joined.range = tasks[pending].range \cup {n}
    BY <2>3 DEF Task
  <2> HIDE DEF joined
  <2>5. /\ tasks' \in Seq(Task) /\ Len(tasks') = Len(tasks)
        /\ \A i \in 1..Len(tasks) : tasks'[i] = IF i = pending THEN joined ELSE tasks[i]
    BY <2>1, <2>2, <2>4, <1>1, ExceptSeq
  <2>6. \A i \in 1..Len(tasks') : tasks'[i].range \subseteq nodes'
    BY <2>4, <2>5, <2>2, <1>1 DEF RangesAreNodes
  <2>7. PendingIsQueued'
    BY <2>1, <2>2, <2>4, <2>5, <1>1 DEF PendingIsQueued
  <2> QED
    BY <2>1, <2>2, <2>5, <2>6, <2>7, <1>1 DEF TasksKnown
<1>3. CASE ~Mergeable(Joinable)
  <2>1. /\ old \in Seq(Task) /\ Len(old) = Len(tasks)
        /\ \A i \in 1..Len(tasks) : old[i].range = tasks[i].range
    BY <1>1, StaleKeepsRanges
  <2>2. \A stale \in BOOLEAN : fresh(stale) \in Task
    BY <1>1 DEF Task
  <2> HIDE DEF fresh, old
  <2>3. \A stale \in BOOLEAN : tasks' = Append(old, fresh(stale)) =>
           /\ tasks' \in Seq(Task) /\ Len(tasks') = Len(tasks) + 1
           /\ \A i \in 1..Len(tasks) : tasks'[i].range = tasks[i].range
           /\ \A i \in 1..Len(tasks') : tasks'[i].range \subseteq nodes'
           /\ tasks'[Len(tasks) + 1].stale = stale
    <3> TAKE stale \in BOOLEAN
    <3> HAVE tasks' = Append(old, fresh(stale))
    <3>1. /\ tasks' \in Seq(Task) /\ Len(tasks') = Len(tasks) + 1
          /\ \A i \in 1..Len(tasks) : tasks'[i] = old[i]
          /\ tasks'[Len(tasks) + 1] = fresh(stale)
      BY <2>1, <2>2, AppendProperties
    <3>2. \A i \in 1..Len(tasks) : tasks'[i].range = tasks[i].range
      BY <3>1, <2>1
    <3>3. /\ tasks'[Len(tasks) + 1].range = {n}
          /\ tasks'[Len(tasks) + 1].stale = stale
      BY <3>1 DEF fresh
    <3>4. \A i \in 1..Len(tasks') : tasks'[i].range \subseteq nodes'
      <4> TAKE i \in 1..Len(tasks')
      <4>1. CASE i \in 1..Len(tasks)
        BY <3>2, <1>1, <4>1 DEF RangesAreNodes
      <4>2. CASE i = Len(tasks) + 1
        BY <3>3, <1>1, <4>2
      <4>3. i \in 1..Len(tasks) \/ i = Len(tasks) + 1
        BY <3>1, <1>1
      <4> QED
        BY <4>1, <4>2, <4>3
    <3> QED
      BY <3>1, <3>2, <3>3, <3>4
  <2>4. CASE Refuses
    <3>1. tasks' = Append(old, fresh(TRUE)) /\ pending' = 0 /\ queue' = queue
      BY <1>3, <2>4 DEF Schedule, Drops, old, fresh
    <3>2. PendingIsQueued'
      BY <3>1 DEF PendingIsQueued
    <3>3. /\ tasks' \in Seq(Task) /\ Len(tasks') = Len(tasks) + 1
          /\ \A i \in 1..Len(tasks) : tasks'[i].range = tasks[i].range
          /\ \A i \in 1..Len(tasks') : tasks'[i].range \subseteq nodes'
      BY <2>3, <3>1
    <3>4. \A i \in 1..Len(queue) : queue[i] \in Nat /\ queue[i] <= Len(tasks)
      BY <1>1, ElementOfSeq DEF TasksKnown
    <3>5. /\ pending' = 0 /\ Len(tasks') \in Nat /\ Len(tasks) <= Len(tasks')
          /\ queue' = queue /\ Len(queue') = Len(queue)
      BY <3>1, <3>3, <1>1
    <3>6. \A i \in 1..Len(queue') : queue'[i] <= Len(tasks')
      BY <3>3, <3>4, <3>5, <1>1
    <3>7. pending' \in {0, pending, Len(tasks) + 1} /\ pending' \in 0..Len(tasks')
      BY <3>5
    <3> QED
      BY <3>2, <3>3, <3>5, <3>6, <3>7, <1>1
  <2>5. CASE ~Refuses
    <3>1. tasks' = Append(old, fresh(FALSE)) /\ pending' = t /\ queue' = Append(queue, t)
      BY <1>3, <2>5 DEF Schedule, old, fresh
    <3>2. /\ queue' \in Seq(Nat) /\ Len(queue') = Len(queue) + 1
          /\ \A i \in 1..Len(queue) : queue'[i] = queue[i]
          /\ queue'[Len(queue) + 1] = t
          /\ DOMAIN queue' = 1..Len(queue')
      BY <3>1, <1>1, AppendProperties, LenProperties
    <3>3. /\ tasks' \in Seq(Task) /\ Len(tasks') = t
          /\ \A i \in 1..Len(tasks) : tasks'[i].range = tasks[i].range
          /\ \A i \in 1..Len(tasks') : tasks'[i].range \subseteq nodes'
          /\ tasks'[t].stale = FALSE
      BY <2>3, <3>1
    <3>4. PendingIsQueued'
      <4>1. Len(queue) + 1 \in DOMAIN queue'
        BY <3>2, <1>1
      <4>2. queue'[Len(queue) + 1] = pending' /\ ~tasks'[pending'].stale
        BY <3>1, <3>2, <3>3
      <4> QED
        BY <4>1, <4>2 DEF PendingIsQueued
    <3>5. \A i \in 1..Len(queue') : queue'[i] <= Len(tasks')
      <4>1. \A i \in 1..Len(queue) : queue[i] \in Nat /\ queue[i] <= Len(tasks)
        BY <1>1, ElementOfSeq DEF TasksKnown
      <4>2. ASSUME NEW i \in 1..Len(queue')
            PROVE  i \in 1..Len(queue) \/ i = Len(queue) + 1
        BY <3>2, <1>1
      <4> QED
        BY <4>1, <4>2, <3>2, <3>3, <1>1
    <3>6. pending' = t /\ t \in Nat /\ Len(tasks) <= t
      BY <3>1, <1>1
    <3> QED
      BY <3>6, <3>2, <3>3, <3>4, <3>5
  <2> QED
    BY <2>4, <2>5
<1> QED
  BY <1>2, <1>3

-----------------------------------------------------------------------------
(* The queue                                                                *)

\* An attempt of a task takes it out of the pending place; whatever else is pending
\* must still wait in the queue.
LEMMA AttemptKeeps ==
    ASSUME WorkInv, NEW t \in 1..Len(tasks), NEW k \in Nat, Try(t, k),
           UNCHANGED <<nodes, dirty, scope, tasks, others>>,
           queue' \in Seq(Nat), \A i \in 1..Len(queue') : queue'[i] <= Len(tasks),
           pending \notin {0, t} => \E i \in DOMAIN queue' : queue'[i] = pending
    PROVE  WorkInv'
<1>1. /\ nodes \in SUBSET Node /\ quiet \in SUBSET Node
      /\ indexed \in SUBSET Node /\ dirty \in BOOLEAN
      /\ tasks \in Seq(Task) /\ Len(tasks) \in Nat /\ tasks[t] \in Task
      /\ pending \in 0..Len(tasks) /\ active \in 0..Len(tasks)
      /\ tasks[t].range \in SUBSET Node /\ tasks[t].range \subseteq nodes
  BY LenProperties, ElementOfSeq DEF WorkInv, WorkTypes, Task, RangesAreNodes
<1>2. pending' = IF t = pending THEN 0 ELSE pending
  BY <1>1 DEF Try, WorkInv, PendingIsQueued
<1>3. PendingIsQueued'
  BY <1>2 DEF PendingIsQueued, WorkInv
<1>4. pending' \in 0..Len(tasks) /\ pending' # t
  BY <1>1, <1>2
<1>5. CASE Outdated(t)
  <2>1. /\ running' = NotRunning /\ active' \in 0..Len(tasks)
        /\ indexed' = indexed /\ quiet' = quiet
    BY <1>1, <1>5 DEF Try
  <2>2. running' \in Run /\ running'.phase = "none"
    BY <2>1 DEF NotRunning, Run
  <2>3. WorkTypes'
    BY <1>1, <1>4, <2>1, <2>2 DEF WorkTypes, WorkInv
  <2>4. TasksKnown' /\ RunIsNotPending' /\ PlanCompletes' /\ ReadRangeIsFinal'
    BY <2>2 DEF TasksKnown, RunIsNotPending, PlanCompletes, ReadRangeIsFinal
  <2>5. RangesAreNodes' /\ IndexedOrDirty'
    BY <2>1 DEF RangesAreNodes, IndexedOrDirty, WorkInv
  <2> QED
    BY <1>3, <2>3, <2>4, <2>5 DEF WorkInv
<1>6. CASE ~Outdated(t)
  <2>1. /\ running' = [phase |-> "sync", task |-> t, attempts |-> k,
                       read |-> tasks[t].range, plan |-> Planned(tasks[t].range),
                       mine |-> TRUE]
        /\ active' = t
        /\ indexed' = IF dirty THEN {} ELSE indexed
        /\ quiet' = IF dirty THEN {} ELSE quiet
    BY <1>6 DEF Try
  <2>2. Planned(tasks[t].range) \in SUBSET Node
    BY <1>1 DEF Planned
  <2>3. /\ running' \in Run /\ running'.phase = "sync" /\ running'.task = t
        /\ running'.read = tasks[t].range /\ running'.plan = Planned(tasks[t].range)
    BY <1>1, <2>1, <2>2 DEF Run
  <2>4. WorkTypes'
    BY <1>1, <1>4, <2>1, <2>3 DEF WorkTypes, WorkInv
  <2>5. TasksKnown' /\ RunIsNotPending' /\ ReadRangeIsFinal'
    BY <1>4, <2>3 DEF TasksKnown, RunIsNotPending, ReadRangeIsFinal
  <2>6. PlanCompletes'
    BY <1>1, <2>1, <2>3 DEF PlanCompletes, Planned, WorkInv, IndexedOrDirty
  <2>7. RangesAreNodes' /\ IndexedOrDirty'
    BY <2>1 DEF RangesAreNodes, IndexedOrDirty, WorkInv
  <2> QED
    BY <1>3, <2>4, <2>5, <2>6, <2>7 DEF WorkInv
<1> QED
  BY <1>5, <1>6

\* The item at the head of the queue leaves it; the others move up.
LEMMA HeadLeaves ==
    ASSUME WorkInv, queue # <<>>, queue' = Tail(queue)
    PROVE  /\ Head(queue) \in 0..Len(tasks)
           /\ queue' \in Seq(Nat)
           /\ \A i \in 1..Len(queue') : queue'[i] <= Len(tasks)
           /\ pending \notin {0, Head(queue)} =>
                \E i \in DOMAIN queue' : queue'[i] = pending
<1>1. /\ queue \in Seq(Nat) /\ Len(queue) \in Nat \ {0} /\ DOMAIN queue = 1..Len(queue)
      /\ tasks \in Seq(Task) /\ Len(tasks) \in Nat
      /\ \A i \in 1..Len(queue) : queue[i] \in Nat /\ queue[i] <= Len(tasks)
  BY EmptySeq, LenProperties, ElementOfSeq DEF WorkInv, WorkTypes, TasksKnown
<1>2. /\ queue' \in Seq(Nat) /\ Len(queue') = Len(queue) - 1
      /\ DOMAIN queue' = 1..Len(queue')
      /\ \A i \in 1..Len(queue') : queue'[i] = queue[i + 1]
  BY <1>1, HeadTailProperties, LenProperties
<1>3. Head(queue) = queue[1]
  BY <1>1
<1>4. \A i \in 1..Len(queue') : queue'[i] <= Len(tasks)
  BY <1>1, <1>2
<1>5. ASSUME pending \notin {0, Head(queue)}
      PROVE  \E i \in DOMAIN queue' : queue'[i] = pending
  <2>1. PICK i \in 1..Len(queue) : queue[i] = pending
    BY <1>1, <1>5 DEF WorkInv, PendingIsQueued
  <2>2. i # 1
    BY <1>3, <1>5, <2>1
  <2>3. i - 1 \in DOMAIN queue' /\ queue'[i - 1] = pending
    BY <1>1, <1>2, <2>1, <2>2
  <2> QED
    BY <2>3
<1> QED
  BY <1>1, <1>2, <1>3, <1>4, <1>5

-----------------------------------------------------------------------------
(* The inductive invariant                                                  *)

\* Nothing is asked for at first.
LEMMA WorkInvInit == WorkInit => WorkInv
<1> SUFFICES ASSUME WorkInit PROVE WorkInv
  OBVIOUS
<1>1. tasks = <<>> /\ <<>> \in Seq(Task) /\ Len(tasks) = 0
      /\ queue = <<>> /\ <<>> \in Seq(Nat) /\ Len(queue) = 0
  BY EmptySeq DEF WorkInit
<1>2. running \in Run /\ running.phase = "none"
  BY DEF WorkInit, NotRunning, Run
<1>3. /\ nodes \in SUBSET Node /\ quiet \in SUBSET Node
      /\ indexed \in SUBSET Node /\ dirty \in BOOLEAN
      /\ scope \in Nat /\ others \in Nat /\ pending = 0 /\ active = 0
  BY DEF WorkInit
<1>4. tasks \in Seq(Task) /\ queue \in Seq(Nat) /\ 0 \in 0..Len(tasks)
  BY <1>1
<1>5. WorkTypes
  BY <1>2, <1>3, <1>4 DEF WorkTypes
<1> QED
  BY <1>1, <1>2, <1>5 DEF WorkInit, WorkInv, TasksKnown, RangesAreNodes,
     RunIsNotPending, PlanCompletes, IndexedOrDirty, PendingIsQueued, ReadRangeIsFinal

\* A batch takes the graph from the sync that runs, and its task joins none that runs.
LEMMA PublishKeeps == WorkInv /\ PublishBatch => WorkInv'
<1> SUFFICES ASSUME WorkInv, PublishBatch PROVE WorkInv'
  OBVIOUS
<1>1. PICK n \in Node : nodes' = nodes \cup {n} /\ Schedule(n)
  BY DEF PublishBatch
<1>2. /\ tasks' \in Seq(Task) /\ Len(tasks) <= Len(tasks')
      /\ \A t \in 1..Len(tasks) : t # pending => tasks'[t].range = tasks[t].range
      /\ \A t \in 1..Len(tasks') : tasks'[t].range \subseteq nodes'
      /\ pending' \in {0, pending, Len(tasks) + 1}
      /\ pending' \in 0..Len(tasks')
      /\ queue' \in Seq(Nat)
      /\ \A i \in 1..Len(queue') : queue'[i] <= Len(tasks')
      /\ PendingIsQueued'
  BY <1>1, ScheduleKeeps
<1>3. Len(tasks) \in Nat /\ Len(tasks') \in Nat
  BY <1>2, LenProperties DEF WorkInv, WorkTypes
<1>4. /\ running' \in Run /\ ~running'.mine
      /\ running'.phase = running.phase /\ running'.task = running.task
      /\ running'.read = running.read
  BY DEF PublishBatch, WorkInv, WorkTypes, Run
<1>5. dirty' = TRUE /\ UNCHANGED <<quiet, indexed, scope, active, others>>
  BY DEF PublishBatch, MarksIndex
<1>6. nodes' \in SUBSET Node /\ active \in 0..Len(tasks')
  BY <1>1, <1>2, <1>3 DEF WorkInv, WorkTypes
<1>7. WorkTypes'
  BY <1>2, <1>4, <1>5, <1>6 DEF WorkTypes, WorkInv
<1>8. TasksKnown'
  BY <1>2, <1>3, <1>4 DEF TasksKnown, WorkInv
<1>9. RunIsNotPending' /\ ReadRangeIsFinal'
  <2> SUFFICES ASSUME running.phase = "sync"
               PROVE  /\ running.task # pending'
                      /\ tasks'[running.task].range = running.read
    BY <1>4 DEF RunIsNotPending, ReadRangeIsFinal
  <2>1. running.task \in 1..Len(tasks) /\ running.task # pending
        /\ tasks[running.task].range = running.read
    BY DEF WorkInv, TasksKnown, RunIsNotPending, ReadRangeIsFinal
  <2> QED
    BY <1>2, <1>3, <2>1
<1> QED
  BY <1>2, <1>4, <1>5, <1>7, <1>8, <1>9
     DEF WorkInv, RangesAreNodes, PlanCompletes, IndexedOrDirty

\* Stale tasks keep their ranges, and none is pending.
LEMMA ClearKeeps == WorkInv /\ ClearTasks => WorkInv'
<1> SUFFICES ASSUME WorkInv, ClearTasks PROVE WorkInv'
  OBVIOUS
<1>1. /\ tasks \in Seq(Task) /\ Len(tasks) \in Nat
      /\ pending \in 0..Len(tasks) /\ active \in 0..Len(tasks)
  BY LenProperties DEF WorkInv, WorkTypes
<1> DEFINE inner == Stale(active, tasks)
<1>2. /\ inner \in Seq(Task) /\ Len(inner) = Len(tasks)
      /\ \A i \in 1..Len(tasks) : inner[i].range = tasks[i].range
  BY <1>1, StaleKeepsRanges
<1>3. tasks' = Stale(pending, inner)
  BY DEF ClearTasks
<1> HIDE DEF inner
<1>4. /\ tasks' \in Seq(Task) /\ Len(tasks') = Len(tasks)
      /\ \A i \in 1..Len(tasks) : tasks'[i].range = tasks[i].range
  BY <1>1, <1>2, <1>3, StaleKeepsRanges
<1>5. /\ pending' = 0 /\ active' = 0 /\ scope' = scope + 1
      /\ UNCHANGED <<index, queue, running, post>>
  BY DEF ClearTasks
<1>6. WorkTypes'
  BY <1>1, <1>4, <1>5 DEF WorkTypes, WorkInv, index, post
<1>7. TasksKnown' /\ RangesAreNodes' /\ ReadRangeIsFinal'
  BY <1>1, <1>4, <1>5 DEF TasksKnown, RangesAreNodes, ReadRangeIsFinal, WorkInv, index
<1>8. RunIsNotPending'
  BY <1>1, <1>5 DEF RunIsNotPending, TasksKnown, WorkInv
<1> QED
  BY <1>5, <1>6, <1>7, <1>8 DEF WorkInv, PlanCompletes, IndexedOrDirty, PendingIsQueued, index

\* Another item goes behind the one of the pending task.
LEMMA PostProcessKeeps == WorkInv /\ SchedulePostProcess => WorkInv'
<1> SUFFICES ASSUME WorkInv, SchedulePostProcess PROVE WorkInv'
  OBVIOUS
<1>1. /\ queue \in Seq(Nat) /\ Len(queue) \in Nat /\ DOMAIN queue = 1..Len(queue)
      /\ tasks \in Seq(Task) /\ Len(tasks) \in Nat
      /\ \A i \in 1..Len(queue) : queue[i] <= Len(tasks)
  BY LenProperties DEF WorkInv, WorkTypes, TasksKnown
<1>2. /\ queue' = Append(queue, 0) /\ others' = others + 1
      /\ UNCHANGED <<index, scope, coalescer, running>>
  BY DEF SchedulePostProcess
<1>3. /\ queue' \in Seq(Nat) /\ Len(queue') = Len(queue) + 1
      /\ DOMAIN queue' = 1..Len(queue')
      /\ \A i \in 1..Len(queue) : queue'[i] = queue[i]
      /\ queue'[Len(queue) + 1] = 0
  BY <1>1, <1>2, AppendProperties, LenProperties
<1>4. \A i \in 1..Len(queue') : queue'[i] <= Len(tasks)
  <2> TAKE i \in 1..Len(queue')
  <2>1. i \in 1..Len(queue) \/ i = Len(queue) + 1
    BY <1>1, <1>3
  <2> QED
    BY <1>1, <1>3, <2>1
<1>5. PendingIsQueued'
  BY <1>1, <1>2, <1>3 DEF PendingIsQueued, WorkInv, coalescer
<1>6. WorkTypes' /\ TasksKnown'
  BY <1>1, <1>2, <1>3, <1>4 DEF WorkTypes, TasksKnown, WorkInv, index, coalescer, post
<1> QED
  BY <1>2, <1>5, <1>6 DEF WorkInv, RangesAreNodes, RunIsNotPending, PlanCompletes,
     IndexedOrDirty, ReadRangeIsFinal, index, coalescer, post

\* The first item of the queue starts.
LEMMA StartKeeps == WorkInv /\ StartItem => WorkInv'
<1> SUFFICES ASSUME WorkInv, StartItem PROVE WorkInv'
  OBVIOUS
<1>1. queue # <<>> /\ queue' = Tail(queue) /\ UNCHANGED <<nodes, dirty, scope, tasks, others>>
  BY DEF StartItem
<1>2. /\ Head(queue) \in 0..Len(tasks)
      /\ queue' \in Seq(Nat)
      /\ \A i \in 1..Len(queue') : queue'[i] <= Len(tasks)
      /\ pending \notin {0, Head(queue)} =>
           \E i \in DOMAIN queue' : queue'[i] = pending
  BY <1>1, HeadLeaves
<1>3. CASE Head(queue) = 0
  <2>1. running' = [NotRunning EXCEPT !.phase = "post", !.mine = HeadIsOurs]
        /\ UNCHANGED <<indexed, quiet, pending, active>>
    BY <1>3 DEF StartItem
  <2>2. running' \in Run /\ running'.phase = "post"
    <3>1. HeadIsOurs \in BOOLEAN
      BY DEF HeadIsOurs
    <3> QED
      BY <2>1, <3>1 DEF NotRunning, Run
  <2>3. WorkTypes'
    BY <1>1, <1>2, <2>1, <2>2 DEF WorkTypes, WorkInv
  <2>4. PendingIsQueued'
    BY <1>1, <1>2, <1>3, <2>1 DEF PendingIsQueued, WorkInv
  <2>5. TasksKnown' /\ RunIsNotPending' /\ PlanCompletes' /\ ReadRangeIsFinal'
    BY <1>1, <1>2, <2>2 DEF TasksKnown, RunIsNotPending, PlanCompletes, ReadRangeIsFinal
  <2> QED
    BY <1>1, <2>1, <2>3, <2>4, <2>5 DEF WorkInv, RangesAreNodes, IndexedOrDirty
<1>4. CASE Head(queue) # 0
  <2>1. Head(queue) \in 1..Len(tasks)
    BY <1>2, <1>4, LenProperties DEF WorkInv, WorkTypes
  <2>2. Try(Head(queue), 1)
    BY <1>4 DEF StartItem
  <2> QED
    BY <1>1, <1>2, <2>1, <2>2, AttemptKeeps
<1> QED
  BY <1>3, <1>4

\* An item that failed is attempted again.
LEMMA RetryKeeps == WorkInv /\ RetryItem => WorkInv'
<1> SUFFICES ASSUME WorkInv, RetryItem PROVE WorkInv'
  OBVIOUS
<1>1. Try(running.task, NextTry)
      /\ UNCHANGED <<nodes, dirty, scope, tasks, queue, others>>
  BY DEF RetryItem, post
<1>2. running.task \in 1..Len(tasks) /\ NextTry \in Nat
  BY DEF RetryItem, NextTry, WorkInv, WorkTypes, TasksKnown, Run
<1>3. /\ queue' \in Seq(Nat)
      /\ \A i \in 1..Len(queue') : queue'[i] <= Len(tasks)
      /\ pending \notin {0, running.task} => \E i \in DOMAIN queue' : queue'[i] = pending
  BY <1>1 DEF WorkInv, WorkTypes, TasksKnown, PendingIsQueued
<1> QED
  BY <1>1, <1>2, <1>3, AttemptKeeps

\* A step that leaves the coalescer's tasks and the queue alone, and after which no
\* sync runs.
LEMMA RunEndsKeeps ==
    ASSUME WorkInv, UNCHANGED <<scope, tasks, pending, queue, others>>,
           nodes \subseteq nodes', nodes' \in SUBSET Node, quiet' \in SUBSET Node,
           running' \in Run, running'.phase # "sync",
           running'.phase = "delay" => running'.task \in 1..Len(tasks),
           active' \in 0..Len(tasks), indexed' \in SUBSET Node, dirty' \in BOOLEAN,
           dirty' \/ nodes' \ quiet' \subseteq indexed'
    PROVE  WorkInv'
<1>1. WorkTypes' /\ TasksKnown'
  BY DEF WorkInv, WorkTypes, TasksKnown
<1> QED
  BY <1>1 DEF WorkInv, RangesAreNodes, RunIsNotPending, PlanCompletes, IndexedOrDirty,
     PendingIsQueued, ReadRangeIsFinal

\* The node of a post-process is one nobody asked for.
LEMMA PostProcessEndsKeeps == WorkInv /\ PostProcessEnds => WorkInv'
<1> SUFFICES ASSUME WorkInv, PostProcessEnds PROVE WorkInv'
  OBVIOUS
<1>1. /\ running' = NotRunning
      /\ UNCHANGED <<indexed, dirty, scope, tasks, pending, active, queue, others>>
  BY DEF PostProcessEnds, coalescer, post
<1>2. running' \in Run /\ running'.phase = "none"
  BY <1>1 DEF NotRunning, Run
<1>3. PICK added \in SUBSET Node : nodes' = nodes \cup added /\ quiet' = quiet \cup added
  <2>1. CASE UNCHANGED <<nodes, quiet>>
    <3>1. {} \in SUBSET Node /\ nodes' = nodes \cup {} /\ quiet' = quiet \cup {}
      BY <2>1
    <3> QED
      BY <3>1
  <2>2. CASE \E n \in Node : nodes' = nodes \cup {n} /\ quiet' = quiet \cup {n}
    BY <2>2
  <2> QED
    BY <2>1, <2>2 DEF PostProcessEnds
<1>4. /\ nodes \subseteq nodes' /\ nodes' \in SUBSET Node /\ quiet' \in SUBSET Node
      /\ nodes' \ quiet' \subseteq nodes \ quiet
  BY <1>3 DEF WorkInv, WorkTypes
<1>5. /\ active' \in 0..Len(tasks) /\ indexed' \in SUBSET Node /\ dirty' \in BOOLEAN
      /\ (dirty' \/ nodes' \ quiet' \subseteq indexed')
  BY <1>1, <1>4 DEF WorkInv, WorkTypes, IndexedOrDirty
<1> QED
  BY <1>1, <1>2, <1>4, <1>5, RunEndsKeeps

\* A sync that has found all it planned leaves an index of every node asked for.
LEMMA SyncEndsKeeps ==
    ASSUME WorkInv, NEW found \in SUBSET Missing, SyncEnds(found)
    PROVE  WorkInv'
<1>1. Missing = running.plan \ indexed /\ Missing \in SUBSET Node
  BY DEF Missing, WorkInv, WorkTypes, Run
<1>2. running' = NotRunning /\ running' \in Run /\ running'.phase = "none"
  BY DEF SyncEnds, NotRunning, Run
<1>3. active' \in 0..Len(tasks)
  BY LenProperties DEF SyncEnds, Completed, WorkInv, WorkTypes
<1>4. indexed' \in SUBSET Node /\ dirty' \in BOOLEAN
      /\ (dirty' \/ nodes \ quiet \subseteq indexed')
  <2>1. CASE running.mine
    <3>1. indexed' = indexed \cup found /\ dirty' = (found # Missing)
      BY <2>1 DEF SyncEnds
    <3>2. nodes \ quiet \subseteq indexed \cup running.plan
      BY <2>1 DEF SyncEnds, WorkInv, PlanCompletes
    <3>3. found = Missing => nodes \ quiet \subseteq indexed'
      BY <1>1, <3>1, <3>2
    <3> QED
      BY <1>1, <3>1, <3>3 DEF WorkInv, WorkTypes
  <2>2. CASE ~running.mine
    BY <2>2 DEF SyncEnds, WorkInv, WorkTypes, IndexedOrDirty
  <2> QED
    BY <2>1, <2>2
<1>5. /\ UNCHANGED <<nodes, quiet, scope, tasks, pending, queue, others>>
      /\ nodes' \in SUBSET Node /\ quiet' \in SUBSET Node
  BY DEF SyncEnds, post, WorkInv, WorkTypes
<1> QED
  BY <1>2, <1>3, <1>4, <1>5, RunEndsKeeps

\* A sync that fails leaves a dirty index, or a graph that is not the current one.
LEMMA SyncFailsKeeps == WorkInv /\ SyncFails => WorkInv'
<1> SUFFICES ASSUME WorkInv, SyncFails PROVE WorkInv'
  OBVIOUS
<1>1. running \in Run /\ running.task \in 1..Len(tasks) /\ indexed \in SUBSET Node
      /\ dirty \in BOOLEAN
  BY DEF SyncFails, WorkInv, WorkTypes, TasksKnown
<1>2. running' \in Run /\ running'.phase # "sync"
      /\ (running'.phase = "delay" => running'.task \in 1..Len(tasks))
  <2>1. CASE running' = NotRunning
    BY <2>1 DEF NotRunning, Run
  <2>2. CASE running' = [running EXCEPT !.phase = "delay", !.mine = FALSE]
    BY <1>1, <2>2 DEF Run
  <2> QED
    BY <2>1, <2>2 DEF SyncFails
<1>3. active' \in 0..Len(tasks)
  BY LenProperties DEF SyncFails, Completed, WorkInv, WorkTypes
<1>4. indexed' = indexed /\ dirty' = (dirty \/ running.mine)
      /\ UNCHANGED <<nodes, quiet, scope, tasks, pending, queue, others>>
      /\ nodes' \in SUBSET Node /\ quiet' \in SUBSET Node
  BY DEF SyncFails, post, WorkInv, WorkTypes
<1>5. running.mine \in BOOLEAN
  BY <1>1 DEF Run
<1>6. dirty' \in BOOLEAN /\ (dirty' \/ nodes' \ quiet' \subseteq indexed')
  BY <1>4, <1>5, <1>1 DEF WorkInv, IndexedOrDirty
<1> QED
  BY <1>1, <1>2, <1>3, <1>4, <1>6, RunEndsKeeps

\* Every step keeps the invariant.
LEMMA WorkInvNext == WorkInv /\ [WorkNext]_workVars => WorkInv'
<1> SUFFICES ASSUME WorkInv, [WorkNext]_workVars PROVE WorkInv'
  OBVIOUS
<1>1. CASE PublishBatch
  BY <1>1, PublishKeeps
<1>2. CASE ReplaceGraph
  <2>1. running' \in Run /\ running' = [running EXCEPT !.mine = FALSE]
        /\ UNCHANGED <<index, scope, coalescer, queue, others>>
    BY <1>2 DEF ReplaceGraph, WorkInv, WorkTypes, Run
  <2>2. /\ ~running'.mine /\ running'.phase = running.phase
        /\ running'.task = running.task /\ running'.read = running.read
    BY <2>1 DEF WorkInv, WorkTypes, Run
  <2>3. WorkTypes'
    BY <2>1 DEF WorkTypes, WorkInv, index, coalescer, post
  <2> QED
    BY <2>1, <2>2, <2>3 DEF WorkInv, TasksKnown, RangesAreNodes, RunIsNotPending,
       PlanCompletes, IndexedOrDirty, PendingIsQueued, ReadRangeIsFinal, index, coalescer, post
<1>3. CASE NewMessage
  <2>1. scope' = scope + 1 /\ UNCHANGED <<index, coalescer, queue, running, post>>
    BY <1>3 DEF NewMessage
  <2>2. WorkTypes'
    BY <2>1 DEF WorkTypes, WorkInv, index, coalescer, post
  <2> QED
    BY <2>1, <2>2 DEF WorkInv, TasksKnown, RangesAreNodes, RunIsNotPending,
       PlanCompletes, IndexedOrDirty, PendingIsQueued, ReadRangeIsFinal, index, coalescer, post
<1>4. CASE ClearTasks
  BY <1>4, ClearKeeps
<1>5. CASE SchedulePostProcess
  BY <1>5, PostProcessKeeps
<1>6. CASE StartItem
  BY <1>6, StartKeeps
<1>7. CASE PostProcessEnds
  BY <1>7, PostProcessEndsKeeps
<1>8. CASE \E found \in SUBSET Missing : SyncEnds(found)
  BY <1>8, SyncEndsKeeps
<1>9. CASE SyncFails
  BY <1>9, SyncFailsKeeps
<1>10. CASE RetryItem
  BY <1>10, RetryKeeps
<1>11. CASE UNCHANGED workVars
  BY <1>11 DEF workVars, index, coalescer, post, WorkInv, WorkTypes, TasksKnown, RangesAreNodes,
     RunIsNotPending, PlanCompletes, IndexedOrDirty, PendingIsQueued, ReadRangeIsFinal
<1> QED
  BY <1>1, <1>2, <1>3, <1>4, <1>5, <1>6, <1>7, <1>8, <1>9, <1>10, <1>11 DEF WorkNext

-----------------------------------------------------------------------------
(* Theorems                                                                 *)

\* The inductive invariant holds of every run of the queue.
THEOREM WorkInvariant == WorkSpec => []WorkInv
BY WorkInvInit, WorkInvNext, PTL DEF WorkSpec

\* The pending task of the coalescer is live and has an item in the queue, for any
\* number of batches: no request joins a task that was refused, replaced or has run.
THEOREM PendingCorrect == WorkSpec => []PendingIsQueued
<1>1. WorkInv => PendingIsQueued
  BY DEF WorkInv
<1> QED
  BY <1>1, WorkInvariant, PTL

\* A sync indexes the range it has read: no later request joins its task.
THEOREM RangeCorrect == WorkSpec => []ReadRangeIsFinal
<1>1. WorkInv => ReadRangeIsFinal
  BY DEF WorkInv
<1> QED
  BY <1>1, WorkInvariant, PTL

\* Whatever tasks were dropped or failed, an index that lacks a node a sync was asked
\* for, or a rebuild has found, is dirty.
THEOREM IndexCorrect == WorkSpec => []IndexedOrDirty
<1>1. WorkInv => IndexedOrDirty
  BY DEF WorkInv
<1> QED
  BY <1>1, WorkInvariant, PTL

-----------------------------------------------------------------------------
(* AutoExtraction: types                                                    *)

Batch == [to : Nat, before : Nat, items : SUBSET Message]

Graph == [processed : Nat, hashes : Seq(Message), journal : Seq(Batch), dirty : Nat]

Pcs == {"idle", "gate", "recover", "joined", "go", "working", "saving"}

Extraction == [pc : Pcs, from : Nat, to : Nat, target : Nat, mine : BOOLEAN,
               read : Seq(Message), aborted : BOOLEAN]

Rollback == [on : BOOLEAN, from : Nat, read : Seq(Message), base : Graph]

Deferral == [on : BOOLEAN, target : Nat, timer : BOOLEAN]

HostTyped == /\ floors \in Seq(Message) /\ messages \in 0..MaxMessage
             /\ generation \in Nat

StageHeld == \A r \in stage : r \in Runs /\ run[r].pc \in {"working", "saving"}

ExtractionTyped ==
    /\ HostTyped
    /\ memory \in Graph
    /\ run \in [Runs -> Extraction]
    /\ rollback \in Rollback
    /\ deferral \in Deferral
    /\ StageHeld

-----------------------------------------------------------------------------
(* AutoExtraction: the invariant                                            *)

\* The batches of a graph follow on one another up to the last processed floor.
Chained(g) ==
    /\ g.processed = IF g.journal = <<>> THEN 0 ELSE g.journal[Len(g.journal)].to
    /\ \A n \in DOMAIN g.journal :
          /\ g.journal[n].before < g.journal[n].to
          /\ g.journal[n].before = IF n = 1 THEN 0 ELSE g.journal[n - 1].to

Ordered(g) ==
    \A n \in DOMAIN g.journal : /\ g.journal[n].to <= g.processed
                                /\ \A m \in 1..n - 1 : g.journal[m].to <= g.journal[n].before

ReadBefore(g, n) == UNION {g.journal[m].items : m \in 1..n - 1}

\* A hashed message was read by a batch, and if its floor lies before a batch, by
\* one before that: what is left after a rollback has been read too.
HashesRead(g) ==
    /\ Len(g.hashes) <= g.processed
    /\ \A f \in DOMAIN g.hashes : g.hashes[f] \in ReadBefore(g, Len(g.journal) + 1)
    /\ \A n \in DOMAIN g.journal : \A f \in DOMAIN g.hashes :
          f <= g.journal[n].before => g.hashes[f] \in ReadBefore(g, n)

\* What a batch read is hashed at a floor that the batch reaches.
ReadHashed(g) ==
    \A n \in DOMAIN g.journal : \A x \in g.journal[n].items :
       \E f \in DOMAIN g.hashes : f <= g.journal[n].to /\ g.hashes[f] = x

Sound(g) == Chained(g) /\ Ordered(g) /\ HashesRead(g) /\ ReadHashed(g)

Agree(g, read, f) == f \in DOMAIN g.hashes /\ f \in DOMAIN read /\ g.hashes[f] = read[f]

\* A rollback's graph and chat agree before the floor it goes back to.
RollbackKnows == rollback.on =>
    /\ rollback.from >= 1
    /\ Sound(rollback.base)
    /\ \A f \in 1..rollback.base.processed :
          f < rollback.from => Agree(rollback.base, rollback.read, f)

\* A run that is about to begin has just checked the history.
GoClean == (\E r \in Runs : run[r].pc = "go") => DirtyFloor = {}

\* A batch at work whose graph was not replaced starts behind the last processed
\* floor, and the chat it read agrees with that graph up to there.
WorkKnows == \A r \in Runs : run[r].pc \in {"working", "saving"} /\ run[r].mine =>
    /\ run[r].from = memory.processed + 1
    /\ \A f \in 1..memory.processed : Agree(memory, run[r].read, f)

\* A plan is not empty, and only runs with a plan work.
PlanMade(b) == /\ b.to # 0 => 1 <= b.from /\ b.from <= b.to
               /\ b.pc \in {"working", "saving"} => b.to # 0

PlansMade == \A r \in Runs : PlanMade(run[r])

Kept == ~overtaken => Sound(memory) /\ RollbackKnows /\ GoClean /\ WorkKnows

ExtractionInv == ExtractionTyped /\ PlansMade /\ Kept

-----------------------------------------------------------------------------
(* AutoExtraction: calls                                                    *)

\* A run is left as it was or, if it was idle, called.
CalledOr(b, c) == c = b \/ /\ b.pc = "idle" /\ c.pc \in {"gate", "recover"}
                           /\ c.mine = FALSE /\ PlanMade(c) /\ c \in Extraction

\* All that a call or a resume does to the runs and the deferral.
OnlyCalls(rs) == /\ deferral' \in Deferral
                 /\ run' \in [Runs -> Extraction]
                 /\ \A q \in Runs : CalledOr(rs[q], run'[q])

LEMMA IdleTyped == Idle \in Extraction /\ Idle.pc = "idle" /\ PlanMade(Idle) /\ Idle.to = 0
  <1>1. <<>> \in Seq(Message)
    BY EmptySeq
  <1> QED
    BY <1>1 DEF Idle, Extraction, PlanMade, Pcs

\* What a call makes of an idle run.
CalledRun(p, f, e, t) == [Idle EXCEPT !.pc = p, !.from = f, !.to = e, !.target = t]

LEMMA PlanTyped ==
  ASSUME memory.processed \in Nat, NEW fs \in Seq(Message), NEW t \in Nat
  PROVE  /\ PlannedEnd(fs, t) \in Nat
         /\ PlannedEnd(fs, t) # 0 => PlannedEnd(fs, t) >= memory.processed + 1
  BY ExtractionAssumption DEF PlannedEnd

LEMMA DeferTyped ==
  ASSUME deferral \in Deferral, NEW t \in Nat, Defer(t)
  PROVE  deferral' \in Deferral
  BY DEF Defer, Deferral, Higher

LEMMA Calls ==
  ASSUME memory.processed \in Nat, deferral \in Deferral,
         NEW rs \in [Runs -> Extraction], NEW r \in Runs, rs[r].pc = "idle",
         NEW d \in Deferral, NEW fs \in Seq(Message), NEW t \in Nat,
         Call(r, rs, d, fs, t)
  PROVE  OnlyCalls(rs)
  <1>1. PlannedEnd(fs, t) \in Nat
        /\ (PlannedEnd(fs, t) # 0 => PlannedEnd(fs, t) >= memory.processed + 1)
    BY PlanTyped
  <1>2. Chosen(PlannedEnd(fs, t), t) \in Nat
    BY <1>1 DEF Chosen
  <1>3. CASE extracting \/ rollback.on
    <2>1. Defer(Chosen(PlannedEnd(fs, t), t)) /\ run' = rs
      BY <1>3 DEF Call
    <2> QED
      BY <2>1, <1>2, DeferTyped DEF OnlyCalls, CalledOr
  <1>4. CASE ~(extracting \/ rollback.on)
    <2> DEFINE f0 == IF PlannedEnd(fs, t) = 0 THEN 0 ELSE memory.processed + 1
    <2>1. /\ run' = [rs EXCEPT ![r] =
               CalledRun(IF unsaved THEN "gate" ELSE "recover", f0, PlannedEnd(fs, t),
                         Chosen(PlannedEnd(fs, t), t))]
          /\ deferral' = d
      BY <1>4 DEF Call, CalledRun
    <2>2. PICK p \in {"gate", "recover"} : p = IF unsaved THEN "gate" ELSE "recover"
      OBVIOUS
    <2>3. /\ f0 \in Nat
          /\ PlannedEnd(fs, t) # 0 => 1 <= f0 /\ f0 <= PlannedEnd(fs, t)
      BY <1>1
    <2>4. PICK f \in Nat, e \in Nat, g \in Nat :
            /\ e # 0 => 1 <= f /\ f <= e
            /\ run' = [rs EXCEPT ![r] = CalledRun(p, f, e, g)]
      <3> HIDE DEF f0
      <3> QED
        BY <1>1, <1>2, <2>1, <2>2, <2>3
    <2>5. p \in Pcs
      BY DEF Pcs
    <2>6. /\ CalledRun(p, f, e, g) \in Extraction
          /\ CalledRun(p, f, e, g).pc = p
          /\ CalledRun(p, f, e, g).mine = FALSE
          /\ PlanMade(CalledRun(p, f, e, g))
      <3>1. Idle \in Extraction /\ Idle.mine = FALSE
        BY IdleTyped DEF Idle
      <3> QED
        BY <2>4, <2>5, <3>1 DEF CalledRun, Extraction, PlanMade
    <2> QED
      BY <2>1, <2>4, <2>6 DEF OnlyCalls, CalledOr
  <1> QED
    BY <1>3, <1>4

LEMMA Resumes ==
  ASSUME memory.processed \in Nat, deferral \in Deferral, floors \in Seq(Message),
         NEW rs \in [Runs -> Extraction], \A q \in Runs : rs[q].pc = run[q].pc,
         NEW d \in Deferral, NEW busy, Resume(rs, d, busy)
  PROVE  OnlyCalls(rs)
  <1>1. NotDeferred \in Deferral /\ Again(d) \in Deferral
    BY DEF NotDeferred, Again, Deferral
  <1>2. CASE run' = rs /\ deferral' \in {d, Again(d), NotDeferred}
    BY <1>1, <1>2 DEF OnlyCalls, CalledOr
  <1>3. CASE \E r \in Runs : FreeRun(r) /\ Call(r, rs, NotDeferred, floors, ResumeTarget(d))
    <2>1. PICK r \in Runs : FreeRun(r) /\ Call(r, rs, NotDeferred, floors, ResumeTarget(d))
      BY <1>3
    <2>2. ResumeTarget(d) \in Nat
      BY PlanTyped DEF ResumeTarget, Deferral
    <2> QED
      BY <2>1, <2>2, <1>1, Calls DEF FreeRun
  <1> QED
    BY <1>2, <1>3 DEF Resume

-----------------------------------------------------------------------------
(* AutoExtraction: the steps that leave the batches of the graph alone      *)

\* A run goes on no further than to a check, or stays where it was.
Harmless(b, c) ==
    \/ c.pc \notin {"go", "working", "saving"}
    \/ c.pc = b.pc /\ c.from = b.from /\ c.to = b.to /\ c.read = b.read /\ (c.mine => b.mine)

SameBatches(g, h) == /\ h.processed = g.processed /\ h.hashes = g.hashes
                     /\ h.journal = g.journal

LEMMA SoundSame ==
  ASSUME NEW g, NEW h, SameBatches(g, h), Sound(g)
  PROVE  Sound(h)
  <1> USE DEF SameBatches
  <1>1. \A n : ReadBefore(h, n) = ReadBefore(g, n)
    BY DEF ReadBefore
  <1>2. Chained(h)
    BY DEF Sound, Chained
  <1>3. Ordered(h)
    BY DEF Sound, Ordered
  <1>4. HashesRead(h)
    BY <1>1 DEF Sound, HashesRead
  <1>5. ReadHashed(h)
    BY DEF Sound, ReadHashed
  <1> QED
    BY <1>2, <1>3, <1>4, <1>5 DEF Sound

LEMMA QuietStep ==
  ASSUME Kept, overtaken' = overtaken, SameBatches(memory, memory'),
         UNCHANGED rollback \/ (~overtaken => RollbackKnows'),
         UNCHANGED <<floors, memory>> \/ overtaken \/ \A q \in Runs : run'[q].pc # "go",
         \A q \in Runs : Harmless(run[q], run'[q])
  PROVE  Kept'
  <1> SUFFICES ASSUME ~overtaken PROVE (Sound(memory) /\ RollbackKnows /\ GoClean /\ WorkKnows)'
    BY DEF Kept
  <1>0. Sound(memory) /\ RollbackKnows /\ GoClean /\ WorkKnows
    BY DEF Kept
  <1>1. Sound(memory')
    BY <1>0, SoundSame
  <1>2. RollbackKnows'
    BY <1>0 DEF RollbackKnows
  <1>3. GoClean'
    <2>1. CASE \A q \in Runs : run'[q].pc # "go"
      BY <2>1 DEF GoClean
    <2>2. CASE UNCHANGED <<floors, memory>>
      BY <2>2, <1>0 DEF GoClean, Harmless, DirtyFloor, Altered
    <2> QED
      BY <2>1, <2>2
  <1>4. WorkKnows'
    BY <1>0 DEF WorkKnows, Harmless, SameBatches, Agree
  <1> QED
    BY <1>1, <1>2, <1>3, <1>4

\* The runs before a call: as they are, or with the graph in memory replaced.
BeforeCall(rs) == /\ rs \in [Runs -> Extraction]
                  /\ \A q \in Runs : \/ rs[q] = run[q]
                                      \/ rs[q] = [run[q] EXCEPT !.mine = FALSE]

LEMMA BeforeCalls ==
  ASSUME run \in [Runs -> Extraction]
  PROVE  BeforeCall(run) /\ BeforeCall(Replaced(run))
  BY DEF BeforeCall, Replaced, Extraction

LEMMA BeforeCallSame ==
  ASSUME run \in [Runs -> Extraction], NEW rs, BeforeCall(rs), NEW q \in Runs
  PROVE  /\ rs[q].pc = run[q].pc /\ rs[q].from = run[q].from /\ rs[q].to = run[q].to
         /\ rs[q].read = run[q].read /\ (rs[q].mine => run[q].mine)
  BY DEF BeforeCall, Extraction

\* A step of the host or of a timer that at most calls a run.
LEMMA CallStep ==
  ASSUME ExtractionInv, Settled, HostTyped',
         UNCHANGED <<memory, stage, rollback, overtaken>>,
         NEW rs, BeforeCall(rs), OnlyCalls(rs)
  PROVE  ExtractionInv'
  <1> USE DEF ExtractionInv
  <1>1. \A q \in Runs : \/ run'[q] = rs[q]
                        \/ /\ run[q].pc = "idle" /\ run'[q].pc \in {"gate", "recover"}
                           /\ PlanMade(run'[q])
    BY BeforeCallSame DEF OnlyCalls, CalledOr, ExtractionTyped
  <1>2. ExtractionTyped'
    <2>1. StageHeld'
      BY <1>1, BeforeCallSame DEF StageHeld, ExtractionTyped
    <2> QED
      BY <2>1 DEF ExtractionTyped, OnlyCalls
  <1>3. PlansMade'
    BY <1>1, BeforeCallSame DEF PlansMade, PlanMade, ExtractionTyped
  <1>4. \A q \in Runs : Harmless(run[q], run'[q]) /\ run'[q].pc # "go"
    BY <1>1, BeforeCallSame DEF Harmless, ExtractionTyped, Settled
  <1>5. Kept'
    BY <1>4, QuietStep DEF SameBatches
  <1> QED
    BY <1>2, <1>3, <1>5

\* A step that changes one run and nothing of the graph but its mark.
LEMMA RunChanges ==
  ASSUME ExtractionInv, NEW r \in Runs, NEW b \in Extraction,
         run' = [run EXCEPT ![r] = b], PlanMade(b), Harmless(run[r], b),
         UNCHANGED <<floors, messages, generation, overtaken>>,
         deferral' \in Deferral, memory' \in Graph, SameBatches(memory, memory'),
         UNCHANGED rollback \/ (rollback' \in Rollback /\ (~overtaken => RollbackKnows')),
         UNCHANGED memory \/ overtaken \/ \A q \in Runs : run'[q].pc # "go",
         stage' \subseteq stage, b.pc \in {"working", "saving"} \/ r \notin stage'
  PROVE  ExtractionInv'
  <1> USE DEF ExtractionInv
  <1>1. \A q \in Runs : run'[q] = IF q = r THEN b ELSE run[q]
    BY DEF ExtractionTyped
  <1>2. ExtractionTyped'
    <2>1. StageHeld'
      BY <1>1 DEF StageHeld, ExtractionTyped
    <2> QED
      BY <2>1 DEF ExtractionTyped, HostTyped
  <1>3. PlansMade'
    BY <1>1 DEF PlansMade
  <1>4. \A q \in Runs : Harmless(run[q], run'[q])
    BY <1>1 DEF Harmless
  <1>5. Kept'
    BY <1>4, QuietStep
  <1> QED
    BY <1>2, <1>3, <1>5

-----------------------------------------------------------------------------
(* AutoExtraction: the host                                                 *)

LEMMA ReceiveStep == ASSUME ExtractionInv, Receive PROVE ExtractionInv'
  <1> DEFINE fs == Append(floors, messages + 1)
             target == Chosen(PlannedEnd(fs, 0), Len(fs))
  <1>1. /\ Settled /\ messages < MaxMessage /\ floors' = fs /\ messages' = messages + 1
        /\ UNCHANGED <<generation, memory, stage, rollback, overtaken>>
    BY DEF Receive
  <1>2. messages + 1 \in Message /\ messages + 1 \in 0..MaxMessage
    BY <1>1, ExtractionAssumption DEF ExtractionInv, ExtractionTyped, HostTyped, Message
  <1>3. fs \in Seq(Message) /\ Len(fs) \in Nat
    BY <1>2, AppendProperties, LenProperties DEF ExtractionInv, ExtractionTyped, HostTyped
  <1>4. HostTyped'
    BY <1>1, <1>2, <1>3 DEF ExtractionInv, ExtractionTyped, HostTyped
  <1>5. /\ memory.processed \in Nat /\ deferral \in Deferral /\ run \in [Runs -> Extraction]
    BY DEF ExtractionInv, ExtractionTyped, Graph
  <1>6. target \in Nat
    <2> HIDE DEF fs
    <2> QED
      BY <1>3, <1>5, PlanTyped DEF Chosen
  <1>7. OnlyCalls(run)
    <2>1. CASE UNCHANGED <<run, deferral>>
      BY <2>1, <1>5 DEF OnlyCalls, CalledOr
    <2>2. CASE Defer(target) /\ UNCHANGED run
      <3> HIDE DEF target
      <3> QED
        BY <2>2, <1>5, <1>6, DeferTyped DEF OnlyCalls, CalledOr
    <2>3. CASE \E r \in Runs : FreeRun(r) /\ Call(r, run, deferral, fs, target)
      <3> HIDE DEF target, fs
      <3> QED
        BY <2>3, <1>3, <1>5, <1>6, Calls DEF FreeRun
    <2> QED
      BY <2>1, <2>2, <2>3 DEF Receive
  <1> QED
    BY <1>1, <1>4, <1>5, <1>7, BeforeCalls, CallStep

\* A step of the host, a timer or a retry that resumes what was deferred.
LEMMA ResumeStep ==
  ASSUME ExtractionInv, Settled, HostTyped',
         UNCHANGED <<memory, stage, rollback, overtaken>>,
         NEW rs, BeforeCall(rs), NEW d \in Deferral, NEW busy, Resume(rs, d, busy)
  PROVE  ExtractionInv'
  <1>1. /\ memory.processed \in Nat /\ deferral \in Deferral /\ floors \in Seq(Message)
        /\ run \in [Runs -> Extraction]
    BY DEF ExtractionInv, ExtractionTyped, HostTyped, Graph
  <1>2. rs \in [Runs -> Extraction] /\ \A q \in Runs : rs[q].pc = run[q].pc
    BY <1>1, BeforeCallSame DEF BeforeCall
  <1>3. OnlyCalls(rs)
    BY <1>1, <1>2, Resumes
  <1> QED
    BY <1>3, CallStep

LEMMA ResumingSteps ==
  ASSUME ExtractionInv, GenerationEnds \/ Rendered \/ TimerFires \/ RetryAccepted
  PROVE  ExtractionInv'
  <1>1. /\ deferral \in Deferral /\ [deferral EXCEPT !.timer = FALSE] \in Deferral
        /\ BeforeCall(run) /\ BeforeCall(Replaced(run))
    BY BeforeCalls DEF ExtractionInv, ExtractionTyped, Deferral
  <1>2. HostTyped'
    <2>1. HostTyped
      BY DEF ExtractionInv, ExtractionTyped
    <2>2. CASE GenerationEnds
      BY <2>1, <2>2 DEF GenerationEnds, HostTyped
    <2>3. CASE Rendered \/ TimerFires \/ RetryAccepted
      <3>1. UNCHANGED <<floors, messages, generation>>
        BY <2>3, Zenon DEF Rendered, TimerFires, RetryAccepted, host
      <3> QED
        BY <2>1, <3>1 DEF HostTyped
    <2> QED
      BY <2>2, <2>3
  <1>3. CASE GenerationEnds
    BY <1>1, <1>2, <1>3, ResumeStep DEF GenerationEnds
  <1>4. CASE Rendered
    BY <1>1, <1>2, <1>4, ResumeStep DEF Rendered
  <1>5. CASE TimerFires
    BY <1>1, <1>2, <1>5, ResumeStep DEF TimerFires
  <1>6. CASE RetryAccepted
    BY <1>1, <1>2, <1>6, ResumeStep DEF RetryAccepted
  <1> QED
    BY <1>3, <1>4, <1>5, <1>6

LEMMA GenerationStartsStep == ASSUME ExtractionInv, GenerationStarts PROVE ExtractionInv'
  <1>1. HostTyped' /\ OnlyCalls(run) /\ BeforeCall(run)
    BY BeforeCalls DEF GenerationStarts, ExtractionInv, ExtractionTyped, HostTyped, OnlyCalls, CalledOr
  <1> QED
    BY <1>1, CallStep DEF GenerationStarts

LEMMA RecheckedStep ==
  ASSUME ExtractionInv, Settled, HostTyped', Rechecked
  PROVE  ExtractionInv'
  <1> USE DEF ExtractionInv, Rechecked
  <1>1. \A q \in Runs : run'[q] = run[q] \/ run'[q] = [run[q] EXCEPT !.aborted = TRUE]
    BY DEF ExtractionTyped
  <1>2. ExtractionTyped'
    <2>1. run' \in [Runs -> Extraction]
      BY DEF ExtractionTyped, Extraction
    <2> QED
      BY <2>1 DEF ExtractionTyped, StageHeld, NotDeferred, Deferral
  <1>3. \A q \in Runs : /\ run'[q].pc = run[q].pc /\ run'[q].from = run[q].from
                        /\ run'[q].to = run[q].to /\ run'[q].read = run[q].read
                        /\ run'[q].mine = run[q].mine
    BY <1>1 DEF ExtractionTyped, Extraction
  <1>4. PlansMade'
    BY <1>3 DEF PlansMade, PlanMade
  <1>5. \A q \in Runs : Harmless(run[q], run'[q]) /\ run'[q].pc # "go"
    BY <1>3 DEF Harmless, Settled
  <1>6. Kept'
    BY <1>5, QuietStep DEF SameBatches
  <1> QED
    BY <1>2, <1>4, <1>6

LEMMA SwipeStep == ASSUME ExtractionInv, Swipe PROVE ExtractionInv'
  <1>1. /\ floors \in Seq(Message) /\ messages \in 0..MaxMessage /\ generation \in Nat
        /\ messages + 1 \in Message
    BY ExtractionAssumption DEF Swipe, ExtractionInv, ExtractionTyped, HostTyped, Message
  <1>2. Len(floors) \in 1..Len(floors)
    BY <1>1, EmptySeq DEF Swipe
  <1>3. floors' \in Seq(Message)
    BY <1>1, <1>2, ExceptSeq DEF Swipe
  <1>4. HostTyped'
    BY <1>1, <1>3, ExtractionAssumption DEF Swipe, Rechecked, HostTyped, Message
  <1> QED
    BY <1>4, RecheckedStep DEF Swipe

LEMMA DeleteStep ==
  ASSUME ExtractionInv, NEW f \in DOMAIN floors, Delete(f)
  PROVE  ExtractionInv'
  <1>1. /\ floors \in Seq(Message) /\ f \in 1..Len(floors) /\ Len(floors) \in Nat
        /\ messages \in 0..MaxMessage /\ generation \in Nat
    BY LenProperties DEF ExtractionInv, ExtractionTyped, HostTyped
  <1>2. SubSeq(floors, 1, f - 1) \in Seq(Message)
    <2>1. \A i \in 1..f - 1 : floors[i] \in Message
      BY <1>1, ElementOfSeq
    <2> QED
      BY <1>1, <2>1, SubSeqProperties
  <1>3. SubSeq(floors, f + 1, Len(floors)) \in Seq(Message)
    <2>1. \A i \in f + 1..Len(floors) : floors[i] \in Message
      BY <1>1, ElementOfSeq
    <2> QED
      BY <1>1, <2>1, SubSeqProperties
  <1>4. floors' \in Seq(Message)
    BY <1>2, <1>3, ConcatProperties DEF Delete
  <1>5. HostTyped'
    BY <1>1, <1>4 DEF Delete, Rechecked, HostTyped
  <1> QED
    BY <1>5, RecheckedStep DEF Delete

-----------------------------------------------------------------------------
(* AutoExtraction: runs and the start of a rollback                         *)

LEMMA LowestExists ==
  ASSUME NEW S \in SUBSET Nat, S # {}
  PROVE  \E f \in S : \A g \in S : f <= g
  <1>1. PICK f \in S : \A g \in S : <<g, f>> \notin OpToRel(<, Nat)
    BY NatLessThanWellFounded, WFMin
  <1>2. \A g \in S : ~(g < f)
    BY <1>1 DEF OpToRel
  <1> QED
    BY <1>2

LEMMA DirtyFromLowest ==
  ASSUME memory \in Graph, DirtyFloor # {}
  PROVE  /\ DirtyFrom \in Nat /\ DirtyFrom >= 1
         /\ \A f \in DirtyFloor : DirtyFrom <= f
  <1>1. DirtyFloor \in SUBSET Nat /\ \A f \in DirtyFloor : f >= 1
    BY DEF DirtyFloor, Altered, Graph
  <1>2. \E f \in DirtyFloor : \A g \in DirtyFloor : f <= g
    BY <1>1, LowestExists
  <1>3. DirtyFrom \in DirtyFloor /\ \A g \in DirtyFloor : DirtyFrom <= g
    BY <1>2 DEF DirtyFrom
  <1> QED
    BY <1>1, <1>3

\* Before the first altered floor the graph and the chat agree.
LEMMA CleanAgrees ==
  ASSUME memory \in Graph, floors \in Seq(Message), NEW f \in 1..memory.processed,
         f \notin DirtyFloor
  PROVE  Agree(memory, floors, f)
  <1>1. /\ DOMAIN memory.hashes = 1..Len(memory.hashes) /\ Len(memory.hashes) \in Nat
        /\ DOMAIN floors = 1..Len(floors) /\ Len(floors) \in Nat
    BY LenProperties DEF Graph
  <1>2. /\ ~(f > Len(memory.hashes)) /\ ~(f > Len(floors)) /\ memory.hashes[f] = floors[f]
    BY DEF DirtyFloor, Altered
  <1> QED
    BY <1>1, <1>2 DEF Agree, Graph

LEMMA RollbackBegun ==
  ASSUME ExtractionInv, DirtyFloor # {}, StartRollback, UNCHANGED overtaken
  PROVE  /\ rollback' \in Rollback /\ (~overtaken => RollbackKnows')
         /\ memory' \in Graph /\ SameBatches(memory, memory')
  <1>1. memory \in Graph /\ floors \in Seq(Message)
    BY DEF ExtractionInv, ExtractionTyped, HostTyped
  <1>2. /\ DirtyFrom \in Nat /\ DirtyFrom >= 1
        /\ \A f \in DirtyFloor : DirtyFrom <= f
    BY <1>1, DirtyFromLowest
  <1>3. rollback' \in Rollback /\ memory' \in Graph /\ SameBatches(memory, memory')
    BY <1>1, <1>2 DEF StartRollback, Rollback, Graph, SameBatches
  <1>4. ASSUME ~overtaken PROVE RollbackKnows'
    <2>1. Sound(memory)
      BY <1>4 DEF ExtractionInv, Kept
    <2>2. \A f \in 1..memory.processed : f < DirtyFrom => Agree(memory, floors, f)
      <3> TAKE f \in 1..memory.processed
      <3> HAVE f < DirtyFrom
      <3>1. f \notin DirtyFloor
        BY <1>1, <1>2 DEF Graph
      <3> QED
        BY <1>1, <3>1, CleanAgrees
    <2> QED
      BY <1>2, <2>1, <2>2 DEF StartRollback, RollbackKnows
  <1> QED
    BY <1>3, <1>4

LEMMA RollbackStartsStep == ASSUME ExtractionInv, RollbackStarts PROVE ExtractionInv'
  <1>1. /\ rollback' \in Rollback /\ (~overtaken => RollbackKnows')
        /\ memory' \in Graph /\ SameBatches(memory, memory')
    BY RollbackBegun DEF RollbackStarts
  <1>2. ExtractionTyped'
    BY <1>1 DEF RollbackStarts, ExtractionInv, ExtractionTyped, HostTyped, StageHeld, host
  <1>3. PlansMade'
    BY DEF RollbackStarts, ExtractionInv, PlansMade
  <1>4. Kept'
    BY <1>1, QuietStep DEF RollbackStarts, Settled, ExtractionInv, Harmless
  <1> QED
    BY <1>2, <1>3, <1>4 DEF ExtractionInv

LEMMA PassGateStep ==
  ASSUME ExtractionInv, NEW r \in Runs, PassGate(r)
  PROVE  ExtractionInv'
  <1> DEFINE b == [run[r] EXCEPT !.pc = "recover"]
  <1>1. run[r] \in Extraction /\ PlanMade(run[r])
    BY DEF ExtractionInv, ExtractionTyped, PlansMade
  <1>2. b \in Extraction /\ b.pc = "recover" /\ PlanMade(b)
    BY <1>1 DEF Extraction, Pcs, PlanMade
  <1>3. r \notin stage
    BY DEF PassGate, ExtractionInv, ExtractionTyped, StageHeld
  <1>4. Harmless(run[r], b)
    BY <1>2 DEF Harmless
  <1>5. /\ run' = [run EXCEPT ![r] = b]
        /\ UNCHANGED <<floors, messages, generation, memory, overtaken, deferral, rollback, stage>>
        /\ deferral' \in Deferral /\ memory' \in Graph
    BY DEF PassGate, host, ExtractionInv, ExtractionTyped
  <1> QED
    <2> HIDE DEF b
    <2> QED
      BY <1>2, <1>3, <1>4, <1>5, RunChanges DEF SameBatches

LEMMA StopAtGateStep ==
  ASSUME ExtractionInv, NEW r \in Runs, StopAtGate(r)
  PROVE  ExtractionInv'
  <1>1. run[r] \in Extraction /\ deferral \in Deferral
    BY DEF ExtractionInv, ExtractionTyped
  <1>2. deferral' \in Deferral
    BY <1>1, DeferTyped DEF StopAtGate, Extraction
  <1>3. r \notin stage
    BY DEF StopAtGate, ExtractionInv, ExtractionTyped, StageHeld
  <1>4. /\ run' = [run EXCEPT ![r] = Idle]
        /\ UNCHANGED <<floors, messages, generation, memory, overtaken, rollback, stage>>
        /\ memory' \in Graph
    BY DEF StopAtGate, host, ExtractionInv, ExtractionTyped
  <1>5. Harmless(run[r], Idle)
    BY IdleTyped DEF Harmless
  <1> QED
    BY <1>2, <1>3, <1>4, <1>5, IdleTyped, RunChanges DEF SameBatches

LEMMA RecoverStep ==
  ASSUME ExtractionInv, NEW r \in Runs, Recover(r)
  PROVE  ExtractionInv'
  <1>1. PICK p \in {"joined", "go"} :
          /\ run' = [run EXCEPT ![r].pc = p]
          /\ \/ UNCHANGED <<rollback, memory>>
             \/ p = "joined" /\ DirtyFloor # {} /\ StartRollback
          /\ p = "go" => DirtyFloor = {} /\ UNCHANGED <<rollback, memory>>
    BY DEF Recover
  <1> DEFINE b == [run[r] EXCEPT !.pc = p]
  <1>2. run[r] \in Extraction /\ PlanMade(run[r]) /\ run[r].pc = "recover"
    BY DEF ExtractionInv, ExtractionTyped, PlansMade, Recover
  <1>3. b \in Extraction /\ b.pc = p /\ PlanMade(b)
    BY <1>2 DEF Extraction, Pcs, PlanMade
  <1>4. r \notin stage
    BY <1>2 DEF ExtractionInv, ExtractionTyped, StageHeld
  <1>5. /\ run' = [run EXCEPT ![r] = b]
        /\ UNCHANGED <<floors, messages, generation, overtaken, deferral, stage>>
        /\ deferral' \in Deferral /\ memory \in Graph
    BY <1>1 DEF Recover, host, ExtractionInv, ExtractionTyped
  <1>6. CASE p = "joined"
    <2>1. /\ memory' \in Graph /\ SameBatches(memory, memory')
          /\ UNCHANGED rollback \/ (rollback' \in Rollback /\ (~overtaken => RollbackKnows'))
          /\ UNCHANGED memory \/ (DirtyFloor # {} /\ StartRollback)
      BY <1>1, <1>5, <1>6, RollbackBegun DEF SameBatches
    <2>2. Harmless(run[r], b)
      BY <1>3, <1>6 DEF Harmless
    <2>3. UNCHANGED memory \/ overtaken \/ \A q \in Runs : run'[q].pc # "go"
      <3> SUFFICES ASSUME DirtyFloor # {}, ~overtaken, NEW q \in Runs
                   PROVE  run'[q].pc # "go"
        BY <2>1
      <3>1. run[q].pc # "go"
        BY DEF ExtractionInv, Kept, GoClean
      <3> QED
        BY <3>1, <1>3, <1>5, <1>6 DEF ExtractionInv, ExtractionTyped
    <2> HIDE DEF b
    <2> QED
      BY <1>3, <1>4, <1>5, <1>6, <2>1, <2>2, <2>3, RunChanges
  <1>7. CASE p = "go"
    <2>1. \A q \in Runs : run'[q] = IF q = r THEN b ELSE run[q]
      BY <1>5 DEF ExtractionInv, ExtractionTyped
    <2>2. ExtractionTyped'
      <3> HIDE DEF b
      <3>1. StageHeld'
        BY <1>4, <1>5, <2>1 DEF StageHeld, ExtractionInv, ExtractionTyped
      <3> QED
        BY <1>1, <1>3, <1>5, <1>7, <3>1 DEF ExtractionInv, ExtractionTyped, HostTyped
    <2>3. PlansMade'
      <3> HIDE DEF b
      <3> QED
        BY <1>3, <2>1 DEF PlansMade, ExtractionInv
    <2>4. Kept'
      <3> SUFFICES ASSUME ~overtaken PROVE (Sound(memory) /\ RollbackKnows /\ GoClean /\ WorkKnows)'
        BY <1>5 DEF Kept
      <3>1. Sound(memory) /\ RollbackKnows /\ WorkKnows
        BY DEF ExtractionInv, Kept
      <3>2. UNCHANGED <<rollback, memory, floors>>
        BY <1>1, <1>5, <1>7
      <3>3. Sound(memory)' /\ RollbackKnows'
        BY <3>1, <3>2 DEF RollbackKnows
      <3>4. GoClean'
        BY <1>1, <1>7, <3>2 DEF GoClean, DirtyFloor, Altered
      <3>5. WorkKnows'
        <4> HIDE DEF b
        <4> QED
          BY <1>3, <1>7, <2>1, <3>1, <3>2 DEF WorkKnows, Agree
      <3> QED
        BY <3>3, <3>4, <3>5
    <2> QED
      BY <2>2, <2>3, <2>4 DEF ExtractionInv
  <1> QED
    BY <1>6, <1>7

LEMMA BeginStep ==
  ASSUME ExtractionInv, NEW r \in Runs, Begin(r)
  PROVE  ExtractionInv'
  <1>1. /\ run[r] \in Extraction /\ PlanMade(run[r]) /\ run[r].pc = "go"
        /\ floors \in Seq(Message) /\ memory \in Graph /\ r \notin stage
        /\ UNCHANGED <<floors, messages, generation, memory, rollback, deferral>>
    BY DEF ExtractionInv, ExtractionTyped, PlansMade, Begin, HostTyped, StageHeld, host
  <1>2. CASE run[r].to = 0
    <2>1. /\ run' = [run EXCEPT ![r] = Idle] /\ UNCHANGED <<stage, overtaken>>
          /\ deferral' \in Deferral /\ memory' \in Graph
      BY <1>1, <1>2 DEF Begin, ExtractionInv, ExtractionTyped
    <2>2. Harmless(run[r], Idle)
      BY IdleTyped DEF Harmless
    <2> QED
      BY <1>1, <2>1, <2>2, IdleTyped, RunChanges DEF SameBatches
  <1>3. CASE run[r].to # 0
    <2> DEFINE b == [run[r] EXCEPT !.pc = "working", !.mine = TRUE, !.read = floors]
    <2>1. /\ b \in Extraction /\ b.pc = "working" /\ b.from = run[r].from
          /\ b.to = run[r].to /\ b.read = floors /\ PlanMade(b)
      BY <1>1, <1>3 DEF Extraction, Pcs, PlanMade
    <2>2. /\ run' = [run EXCEPT ![r] = b] /\ stage' = {r}
          /\ overtaken' = (overtaken \/ run[r].from # memory.processed + 1)
      BY <1>3 DEF Begin
    <2> HIDE DEF b
    <2>3. \A q \in Runs : run'[q] = IF q = r THEN b ELSE run[q]
      BY <2>2 DEF ExtractionInv, ExtractionTyped
    <2>4. ExtractionTyped'
      <3>1. StageHeld'
        BY <2>1, <2>2, <2>3 DEF StageHeld
      <3> QED
        BY <1>1, <2>1, <2>2, <3>1 DEF ExtractionInv, ExtractionTyped, HostTyped
    <2>5. PlansMade'
      BY <2>1, <2>3 DEF PlansMade, ExtractionInv
    <2>6. Kept'
      <3> SUFFICES ASSUME ~overtaken, run[r].from = memory.processed + 1
                   PROVE  (Sound(memory) /\ RollbackKnows /\ GoClean /\ WorkKnows)'
        BY <2>2 DEF Kept
      <3>1. Sound(memory) /\ RollbackKnows /\ GoClean /\ WorkKnows
        BY DEF ExtractionInv, Kept
      <3>2. DirtyFloor = {}
        BY <1>1, <3>1 DEF GoClean
      <3>3. \A f \in 1..memory.processed : Agree(memory, floors, f)
        BY <1>1, <3>2, CleanAgrees
      <3>4. Sound(memory)' /\ RollbackKnows' /\ GoClean'
        BY <1>1, <3>1, <3>2 DEF RollbackKnows, GoClean, DirtyFloor, Altered
      <3>5. WorkKnows'
        BY <1>1, <2>1, <2>3, <3>1, <3>3 DEF WorkKnows, Agree
      <3> QED
        BY <3>4, <3>5
    <2> QED
      BY <2>4, <2>5, <2>6 DEF ExtractionInv
  <1> QED
    BY <1>2, <1>3

LEMMA ExtractedStep ==
  ASSUME ExtractionInv, NEW r \in Runs, Extracted(r)
  PROVE  ExtractionInv'
  <1>1. /\ run[r] \in Extraction /\ PlanMade(run[r]) /\ run[r].pc = "working" /\ Settled
        /\ UNCHANGED <<floors, messages, generation, memory, rollback, deferral, overtaken>>
        /\ deferral' \in Deferral /\ memory' \in Graph
    BY DEF ExtractionInv, ExtractionTyped, PlansMade, Extracted, host
  <1>2. CASE run' = [run EXCEPT ![r].pc = "saving"] /\ UNCHANGED stage
    <2> DEFINE b == [run[r] EXCEPT !.pc = "saving"]
    <2>1. /\ b \in Extraction /\ b.pc = "saving" /\ b.from = run[r].from
          /\ b.to = run[r].to /\ b.read = run[r].read /\ b.mine = run[r].mine /\ PlanMade(b)
      BY <1>1 DEF Extraction, Pcs, PlanMade
    <2>2. run' = [run EXCEPT ![r] = b]
      BY <1>2
    <2> HIDE DEF b
    <2>3. \A q \in Runs : run'[q] = IF q = r THEN b ELSE run[q]
      BY <2>2 DEF ExtractionInv, ExtractionTyped
    <2>4. ExtractionTyped'
      <3>1. StageHeld'
        BY <1>2, <2>1, <2>3 DEF StageHeld, ExtractionInv, ExtractionTyped
      <3> QED
        BY <1>1, <2>1, <2>2, <3>1 DEF ExtractionInv, ExtractionTyped, HostTyped
    <2>5. PlansMade'
      BY <2>1, <2>3 DEF PlansMade, ExtractionInv
    <2>6. Kept'
      <3> SUFFICES ASSUME ~overtaken
                   PROVE  (Sound(memory) /\ RollbackKnows /\ GoClean /\ WorkKnows)'
        BY <1>1 DEF Kept
      <3>1. Sound(memory) /\ RollbackKnows /\ WorkKnows
        BY DEF ExtractionInv, Kept
      <3>2. Sound(memory)' /\ RollbackKnows'
        BY <1>1, <3>1 DEF RollbackKnows
      <3>3. GoClean'
        BY <1>1, <2>1, <2>3 DEF GoClean, Settled
      <3>4. WorkKnows'
        BY <1>1, <2>1, <2>3, <3>1 DEF WorkKnows
      <3> QED
        BY <3>2, <3>3, <3>4
    <2> QED
      BY <2>4, <2>5, <2>6 DEF ExtractionInv
  <1>3. CASE run' = [run EXCEPT ![r] = Idle] /\ Ended(r)
    <2>1. Harmless(run[r], Idle)
      BY IdleTyped DEF Harmless
    <2> QED
      BY <1>1, <1>3, <2>1, IdleTyped, RunChanges DEF SameBatches, Ended
  <1> QED
    BY <1>2, <1>3 DEF Extracted

-----------------------------------------------------------------------------
(* AutoExtraction: the batch of a run                                       *)

LEMMA Prefix ==
  ASSUME NEW S, NEW s \in Seq(S), NEW n \in 0..Len(s)
  PROVE  /\ SubSeq(s, 1, n) \in Seq(S) /\ Len(SubSeq(s, 1, n)) = n
         /\ DOMAIN SubSeq(s, 1, n) = 1..n
         /\ \A f \in 1..n : SubSeq(s, 1, n)[f] = s[f]
  <1>1. Len(s) \in Nat /\ n \in Int /\ 1 \in Int
    BY LenProperties
  <1>2. \A f \in 1..n : s[f] \in S
    BY <1>1, ElementOfSeq
  <1>3. /\ SubSeq(s, 1, n) \in Seq(S)
        /\ Len(SubSeq(s, 1, n)) = IF 1 <= n THEN n - 1 + 1 ELSE 0
        /\ \A f \in 1..n - 1 + 1 : SubSeq(s, 1, n)[f] = s[1 + f - 1]
    BY <1>1, <1>2, SubSeqProperties
  <1> QED
    BY <1>1, <1>3, LenProperties

LEMMA GraphParts ==
  ASSUME NEW g \in Graph
  PROVE  /\ g.processed \in Nat /\ g.hashes \in Seq(Message) /\ g.journal \in Seq(Batch)
         /\ Len(g.hashes) \in Nat /\ DOMAIN g.hashes = 1..Len(g.hashes)
         /\ Len(g.journal) \in Nat /\ DOMAIN g.journal = 1..Len(g.journal)
         /\ \A n \in 1..Len(g.journal) :
               /\ g.journal[n] \in Batch
               /\ g.journal[n].to \in Nat /\ g.journal[n].before \in Nat
               /\ g.journal[n].items \in SUBSET Message
  <1>1. g.processed \in Nat /\ g.hashes \in Seq(Message) /\ g.journal \in Seq(Batch)
    BY DEF Graph
  <1>2. \A n \in 1..Len(g.journal) : g.journal[n] \in Batch
    BY <1>1, ElementOfSeq
  <1> QED
    BY <1>1, <1>2, LenProperties DEF Batch

\* h is g with the batch e: what was read of a chat behind the last processed floor.
Adds(g, read, e, h) ==
    /\ g.processed < e.to /\ e.before = g.processed /\ h.processed = e.to
    /\ e.items = {read[f] : f \in g.processed + 1..Lower(e.to, Len(read))}
    /\ h.hashes = SubSeq(read, 1, Lower(e.to, Len(read)))
    /\ h.journal = Append(g.journal, e)

LEMMA BatchAdded ==
  ASSUME NEW g \in Graph, Sound(g), NEW read \in Seq(Message),
         \A f \in 1..g.processed : Agree(g, read, f),
         NEW e \in Batch, NEW h \in Graph, Adds(g, read, e, h)
  PROVE  Sound(h)
  <1> DEFINE to == e.to
             top == Lower(to, Len(read))
  <1>0. /\ g.processed \in Nat /\ g.hashes \in Seq(Message) /\ g.journal \in Seq(Batch)
        /\ Len(g.hashes) \in Nat /\ DOMAIN g.hashes = 1..Len(g.hashes)
        /\ Len(g.journal) \in Nat /\ DOMAIN g.journal = 1..Len(g.journal)
        /\ \A n \in 1..Len(g.journal) : /\ g.journal[n].to \in Nat
                                        /\ g.journal[n].before \in Nat
    BY GraphParts
  <1>g. /\ to \in Nat /\ g.processed < to /\ e.before = g.processed /\ h.processed = to
        /\ h.journal = Append(g.journal, e)
    BY DEF Adds, Batch
  <1>1. /\ Len(read) \in Nat /\ DOMAIN read = 1..Len(read)
        /\ top \in 0..Len(read) /\ top <= to
        /\ \A f \in 1..to : f \in DOMAIN read => f <= top
    BY <1>g, LenProperties DEF Lower
  <1>2. DOMAIN h.hashes = 1..top /\ Len(h.hashes) = top /\ \A f \in 1..top : h.hashes[f] = read[f]
    <2> HIDE DEF top
    <2> QED
      BY <1>1, Prefix DEF top, Adds
  <1>h. \A f \in g.processed + 1..top : read[f] \in e.items
    BY DEF Adds
  <1>i. \A x \in e.items : \E f \in g.processed + 1..top : x = read[f]
    BY DEF Adds
  <1> HIDE DEF top, to
  <1>3. /\ Len(h.journal) = Len(g.journal) + 1 /\ h.journal # <<>>
        /\ \A n \in 1..Len(g.journal) : h.journal[n] = g.journal[n]
        /\ h.journal[Len(g.journal) + 1] = e
        /\ DOMAIN h.journal = 1..Len(g.journal) + 1
    BY <1>0, <1>g, AppendProperties, LenProperties
  <1>4. \A f \in 1..g.processed :
           /\ f \in DOMAIN g.hashes /\ f \in DOMAIN h.hashes /\ h.hashes[f] = g.hashes[f]
    <2> TAKE f \in 1..g.processed
    <2>1. f \in DOMAIN g.hashes /\ f \in DOMAIN read /\ g.hashes[f] = read[f]
      BY DEF Agree
    <2>2. f \in 1..to
      BY <1>0, <1>g
    <2>3. f \in 1..top
      BY <1>0, <1>1, <2>1, <2>2
    <2> QED
      BY <1>2, <2>1, <2>3
  <1>a. \A n \in 1..Len(g.journal) :
          /\ g.journal[n].before < g.journal[n].to
          /\ g.journal[n].before = IF n = 1 THEN 0 ELSE g.journal[n - 1].to
    BY <1>0 DEF Sound, Chained
  <1>b. \A n \in 1..Len(g.journal) : /\ g.journal[n].to <= g.processed
                                     /\ \A m \in 1..n - 1 : g.journal[m].to <= g.journal[n].before
    BY <1>0 DEF Sound, Ordered
  <1>c. /\ \A f \in DOMAIN g.hashes : g.hashes[f] \in ReadBefore(g, Len(g.journal) + 1)
        /\ \A n \in 1..Len(g.journal) : \A f \in DOMAIN g.hashes :
              f <= g.journal[n].before => g.hashes[f] \in ReadBefore(g, n)
    BY <1>0 DEF Sound, HashesRead
  <1>d. \A n \in 1..Len(g.journal) : \A x \in g.journal[n].items :
          \E f \in DOMAIN g.hashes : f <= g.journal[n].to /\ g.hashes[f] = x
    BY <1>0 DEF Sound, ReadHashed
  <1>5. \A n \in 1..Len(g.journal) + 1 : ReadBefore(h, n) = ReadBefore(g, n)
    <2> TAKE n \in 1..Len(g.journal) + 1
    <2>1. \A m \in 1..n - 1 : h.journal[m].items = g.journal[m].items
      <3> TAKE m \in 1..n - 1
      <3>1. m \in 1..Len(g.journal)
        BY <1>0
      <3> QED
        BY <1>3, <3>1
    <2> QED
      BY <2>1 DEF ReadBefore
  <1>e. /\ Len(g.journal) + 1 \in 1..Len(g.journal) + 1
        /\ ReadBefore(h, Len(g.journal) + 1) = ReadBefore(g, Len(g.journal) + 1)
    BY <1>0, <1>5
  <1>j. \A n, x : x \in ReadBefore(h, n) <=> \E m \in 1..n - 1 : x \in h.journal[m].items
    BY DEF ReadBefore
  <1>f. top \in Nat /\ top <= to /\ top <= Len(read)
    BY <1>1, <1>g
  <1>6. Chained(h)
    <2>1. h.processed = h.journal[Len(h.journal)].to
      BY <1>3, <1>g DEF to
    <2>2. ASSUME NEW n \in 1..Len(g.journal)
          PROVE  /\ h.journal[n].before < h.journal[n].to
                 /\ h.journal[n].before = IF n = 1 THEN 0 ELSE h.journal[n - 1].to
      <3>1. n # 1 => n - 1 \in 1..Len(g.journal)
        BY <1>0
      <3>2. n # 1 => h.journal[n - 1] = g.journal[n - 1]
        BY <1>3, <3>1
      <3> QED
        BY <1>3, <1>a, <3>2
    <2>3. e.before = IF Len(g.journal) + 1 = 1 THEN 0 ELSE h.journal[Len(g.journal)].to
      BY <1>3, <1>0, <1>g, EmptySeq DEF Sound, Chained
    <2>4. \A n \in 1..Len(g.journal) + 1 :
             /\ h.journal[n].before < h.journal[n].to
             /\ h.journal[n].before = IF n = 1 THEN 0 ELSE h.journal[n - 1].to
      BY <1>3, <1>g, <2>2, <2>3, <1>0 DEF to
    <2> QED
      BY <1>3, <2>1, <2>4 DEF Chained
  <1>7. Ordered(h)
    <2>1. ASSUME NEW n \in 1..Len(g.journal)
          PROVE  /\ h.journal[n].to <= g.processed
                 /\ \A m \in 1..n - 1 : h.journal[m].to <= h.journal[n].before
      <3>1. \A m \in 1..n - 1 : m \in 1..Len(g.journal)
        BY <1>0
      <3>2. h.journal[n] = g.journal[n] /\ \A m \in 1..n - 1 : h.journal[m] = g.journal[m]
        BY <1>3, <3>1
      <3> QED
        BY <1>b, <3>2
    <2>2. \A n \in 1..Len(g.journal) : h.journal[n].to <= h.processed
      <3> TAKE n \in 1..Len(g.journal)
      <3>1. h.journal[n].to = g.journal[n].to /\ g.journal[n].to <= g.processed
        BY <1>3, <1>b
      <3> QED
        BY <3>1, <1>0, <1>g
    <2> QED
      BY <1>3, <1>g, <2>1, <2>2, <1>0 DEF Ordered, to
  <1>8. HashesRead(h)
    <2>1. \A f \in 1..top : f <= g.processed => h.hashes[f] \in ReadBefore(g, Len(g.journal) + 1)
      <3> TAKE f \in 1..top
      <3> HAVE f <= g.processed
      <3>1. f \in 1..g.processed
        BY <1>0
      <3> QED
        BY <1>4, <1>c, <3>1
    <2>2. \A f \in 1..top : h.hashes[f] \in ReadBefore(h, Len(h.journal) + 1)
      <3> TAKE f \in 1..top
      <3>1. CASE f <= g.processed
        <4>1. h.hashes[f] \in ReadBefore(h, Len(g.journal) + 1)
          BY <1>e, <2>1, <3>1
        <4>2. PICK m \in 1..Len(g.journal) + 1 - 1 : h.hashes[f] \in h.journal[m].items
          BY <4>1, <1>j
        <4>3. m \in 1..Len(h.journal) + 1 - 1
          BY <1>0, <1>3, <4>2
        <4> QED
          BY <4>2, <4>3, <1>j
      <3>2. CASE f > g.processed
        <4>1. f \in g.processed + 1..top
          BY <1>0, <1>f, <3>2
        <4>2. h.hashes[f] \in e.items
          BY <1>0, <1>2, <1>f, <1>h, <4>1
        <4>3. Len(g.journal) + 1 \in 1..Len(h.journal) + 1 - 1
          BY <1>0, <1>3
        <4>4. h.hashes[f] \in h.journal[Len(g.journal) + 1].items
          BY <1>3, <4>2
        <4> QED
          BY <4>3, <4>4, <1>j
      <3> QED
        BY <1>0, <1>f, <3>1, <3>2
    <2>3. ASSUME NEW n \in 1..Len(g.journal) + 1, NEW f \in 1..top, f <= h.journal[n].before
          PROVE  h.hashes[f] \in ReadBefore(h, n)
      <3>1. CASE n = Len(g.journal) + 1
        <4>1. f <= g.processed
          BY <1>3, <1>g, <2>3, <3>1
        <4> QED
          BY <1>e, <2>1, <3>1, <4>1
      <3>2. CASE n \in 1..Len(g.journal)
        <4>1. h.journal[n] = g.journal[n] /\ g.journal[n].before < g.journal[n].to
              /\ g.journal[n].to <= g.processed
          BY <1>3, <1>a, <1>b, <3>2
        <4>2. f <= g.journal[n].before
          BY <2>3, <4>1
        <4>3. f \in 1..g.processed
          BY <1>0, <3>2, <4>1, <4>2
        <4>4. g.hashes[f] \in ReadBefore(g, n) /\ h.hashes[f] = g.hashes[f]
          BY <1>4, <1>c, <3>2, <4>2, <4>3
        <4> QED
          BY <1>5, <4>4
      <3>3. n \in 1..Len(g.journal) \/ n = Len(g.journal) + 1
        BY <1>0
      <3> QED
        BY <3>1, <3>2, <3>3
    <2> QED
      BY <1>2, <1>3, <1>f, <1>g, <2>2, <2>3 DEF HashesRead
  <1>9. ReadHashed(h)
    <2>1. ASSUME NEW n \in 1..Len(g.journal), NEW x \in h.journal[n].items
          PROVE  \E f \in DOMAIN h.hashes : f <= h.journal[n].to /\ h.hashes[f] = x
      <3>1. h.journal[n] = g.journal[n] /\ g.journal[n].to <= g.processed
        BY <1>3, <1>b
      <3>2. PICK f \in DOMAIN g.hashes : f <= g.journal[n].to /\ g.hashes[f] = x
        BY <2>1, <3>1, <1>d
      <3>3. f \in 1..g.processed
        BY <3>1, <3>2, <1>0
      <3> QED
        BY <1>4, <3>1, <3>2, <3>3
    <2>2. ASSUME NEW x \in e.items
          PROVE  \E f \in DOMAIN h.hashes : f <= to /\ h.hashes[f] = x
      <3>1. PICK f \in g.processed + 1..top : x = read[f]
        BY <2>2, <1>i
      <3>2. f \in 1..top /\ f <= to
        BY <1>f, <1>g, <3>1, <1>0
      <3> QED
        BY <1>2, <3>1, <3>2
    <2> QED
      <3>1. ASSUME NEW n \in 1..Len(g.journal) + 1, NEW x \in h.journal[n].items
            PROVE  \E f \in DOMAIN h.hashes : f <= h.journal[n].to /\ h.hashes[f] = x
        <4>1. CASE n \in 1..Len(g.journal)
          BY <2>1, <3>1, <4>1
        <4>2. CASE n = Len(g.journal) + 1
          BY <1>3, <2>2, <3>1, <4>2 DEF to
        <4> QED
          BY <1>0, <4>1, <4>2
      <3> QED
        BY <1>3, <3>1 DEF ReadHashed
  <1> QED
    BY <1>6, <1>7, <1>8, <1>9 DEF Sound

\* h is g before its nth batch, with the hashes of a chat.
CutsOff(g, read, n, h) ==
    /\ h.processed = g.journal[n].before
    /\ h.hashes = SubSeq(read, 1, g.journal[n].before)
    /\ h.journal = SubSeq(g.journal, 1, n - 1)

LEMMA BatchesCutOff ==
  ASSUME NEW g \in Graph, Sound(g), NEW read \in Seq(Message), NEW n \in 1..Len(g.journal),
         g.journal[n].before <= Len(read),
         \A f \in 1..g.journal[n].before : Agree(g, read, f),
         NEW h \in Graph, CutsOff(g, read, n, h)
  PROVE  Sound(h)
  <1> DEFINE kept == g.journal[n].before
  <1>0. /\ g.hashes \in Seq(Message) /\ g.journal \in Seq(Batch)
        /\ Len(g.hashes) \in Nat /\ DOMAIN g.hashes = 1..Len(g.hashes)
        /\ Len(g.journal) \in Nat /\ DOMAIN g.journal = 1..Len(g.journal)
        /\ \A m \in 1..Len(g.journal) : /\ g.journal[m].to \in Nat
                                        /\ g.journal[m].before \in Nat
    BY GraphParts
  <1>1. kept \in Nat /\ kept \in 0..Len(read) /\ n - 1 \in 0..Len(g.journal)
    BY <1>0, LenProperties
  <1>2. DOMAIN h.hashes = 1..kept /\ Len(h.hashes) = kept /\ \A f \in 1..kept : h.hashes[f] = read[f]
    <2> HIDE DEF kept
    <2> QED
      BY <1>1, Prefix DEF kept, CutsOff
  <1>3. /\ Len(h.journal) = n - 1 /\ DOMAIN h.journal = 1..n - 1
        /\ \A m \in 1..n - 1 : h.journal[m] = g.journal[m]
    BY <1>0, <1>1, Prefix DEF CutsOff
  <1>4. \A f \in 1..kept : f \in DOMAIN g.hashes /\ h.hashes[f] = g.hashes[f]
    BY <1>2 DEF Agree
  <1>5. h.processed = kept /\ \A m \in 1..n - 1 : m \in 1..Len(g.journal)
    BY <1>0 DEF CutsOff
  <1>a. \A m \in 1..Len(g.journal) :
          /\ g.journal[m].before < g.journal[m].to
          /\ g.journal[m].before = IF m = 1 THEN 0 ELSE g.journal[m - 1].to
    BY <1>0 DEF Sound, Chained
  <1>b. \A m \in 1..Len(g.journal) : \A k \in 1..m - 1 : g.journal[k].to <= g.journal[m].before
    BY <1>0 DEF Sound, Ordered
  <1>c. \A m \in 1..Len(g.journal) : \A f \in DOMAIN g.hashes :
              f <= g.journal[m].before => g.hashes[f] \in ReadBefore(g, m)
    BY <1>0 DEF Sound, HashesRead
  <1>d. \A m \in 1..Len(g.journal) : \A x \in g.journal[m].items :
          \E f \in DOMAIN g.hashes : f <= g.journal[m].to /\ g.hashes[f] = x
    BY <1>0 DEF Sound, ReadHashed
  <1>6. \A m \in 1..n : ReadBefore(h, m) = ReadBefore(g, m)
    <2> TAKE m \in 1..n
    <2>1. \A k \in 1..m - 1 : h.journal[k].items = g.journal[k].items
      <3> TAKE k \in 1..m - 1
      <3>1. k \in 1..n - 1
        BY <1>0
      <3> QED
        BY <1>3, <3>1
    <2> QED
      BY <2>1 DEF ReadBefore
  <1> HIDE DEF kept
  <1>7. Chained(h)
    <2>1. CASE n = 1
      <3>1. kept = 0 /\ h.journal = <<>> /\ DOMAIN h.journal = {}
        BY <1>0, <1>3, <1>a, <2>1, SubSeqEmpty DEF kept, CutsOff
      <3> QED
        BY <1>5, <3>1 DEF Chained
    <2>2. CASE n # 1
      <3>1. n - 1 \in 1..n - 1 /\ h.journal # <<>>
        BY <1>0, <1>3, <2>2, EmptySeq
      <3>2. h.processed = h.journal[Len(h.journal)].to
        BY <1>3, <1>5, <1>a, <2>2, <3>1 DEF kept
      <3>3. ASSUME NEW m \in 1..n - 1
            PROVE  /\ h.journal[m].before < h.journal[m].to
                   /\ h.journal[m].before = IF m = 1 THEN 0 ELSE h.journal[m - 1].to
        <4>1. h.journal[m] = g.journal[m] /\ m \in 1..Len(g.journal)
          BY <1>3, <1>5
        <4>2. m # 1 => h.journal[m - 1] = g.journal[m - 1]
          <5> SUFFICES ASSUME m # 1 PROVE h.journal[m - 1] = g.journal[m - 1]
            OBVIOUS
          <5>1. m - 1 \in 1..n - 1
            BY <1>0
          <5> QED
            BY <1>3, <5>1
        <4> QED
          BY <1>a, <4>1, <4>2
      <3> QED
        BY <1>3, <3>1, <3>2, <3>3 DEF Chained
    <2> QED
      BY <2>1, <2>2
  <1>8. Ordered(h)
    <2>1. ASSUME NEW m \in 1..n - 1
          PROVE  /\ h.journal[m].to <= h.processed
                 /\ \A k \in 1..m - 1 : h.journal[k].to <= h.journal[m].before
      <3>1. h.journal[m].to <= h.processed
        BY <1>3, <1>5, <1>b DEF kept
      <3>2. ASSUME NEW k \in 1..m - 1 PROVE h.journal[k].to <= h.journal[m].before
        <4>1. k \in 1..n - 1 /\ m \in 1..Len(g.journal)
          BY <1>0
        <4> QED
          BY <1>3, <1>b, <4>1
      <3> QED
        BY <3>1, <3>2
    <2> QED
      BY <1>3, <2>1 DEF Ordered
  <1>9. HashesRead(h)
    <2>1. \A f \in 1..kept : h.hashes[f] \in ReadBefore(h, n)
      <3> TAKE f \in 1..kept
      <3>1. f <= g.journal[n].before
        BY <1>1 DEF kept
      <3>2. h.hashes[f] = g.hashes[f] /\ g.hashes[f] \in ReadBefore(g, n)
        BY <1>4, <1>c, <3>1
      <3>3. n \in 1..n
        BY <1>0
      <3> QED
        BY <1>6, <3>2, <3>3
    <2>2. ASSUME NEW m \in 1..n - 1, NEW f \in 1..kept, f <= h.journal[m].before
          PROVE  h.hashes[f] \in ReadBefore(h, m)
      <3>1. m \in 1..n /\ m \in 1..Len(g.journal)
        BY <1>0
      <3>2. g.hashes[f] \in ReadBefore(g, m)
        BY <1>3, <1>4, <1>c, <2>2, <3>1
      <3> QED
        BY <1>4, <1>6, <3>1, <3>2
    <2>3. Len(h.journal) + 1 = n
      BY <1>0, <1>3
    <2>4. kept <= kept
      BY <1>1
    <2> QED
      BY <1>2, <1>3, <1>5, <2>1, <2>2, <2>3, <2>4 DEF HashesRead
  <1>10. ReadHashed(h)
    <2>1. ASSUME NEW m \in 1..n - 1, NEW x \in h.journal[m].items
          PROVE  \E f \in DOMAIN h.hashes : f <= h.journal[m].to /\ h.hashes[f] = x
      <3>1. /\ h.journal[m] = g.journal[m] /\ m \in 1..Len(g.journal)
            /\ g.journal[m].to <= kept
        BY <1>3, <1>5, <1>b DEF kept
      <3>2. PICK f \in DOMAIN g.hashes : f <= g.journal[m].to /\ g.hashes[f] = x
        BY <2>1, <3>1, <1>d
      <3>3. f \in 1..kept
        BY <1>0, <1>1, <3>1, <3>2
      <3> QED
        BY <1>2, <1>4, <3>1, <3>2, <3>3
    <2> QED
      BY <1>3, <2>1 DEF ReadHashed
  <1> QED
    BY <1>7, <1>8, <1>9, <1>10 DEF Sound

\* A run that learns that the graph was replaced keeps its plan.
LEMMA NotMine ==
  ASSUME NEW b \in Extraction, PlanMade(b), NEW c, c = [b EXCEPT !.mine = FALSE]
  PROVE  c \in Extraction /\ PlanMade(c) /\ c.mine = FALSE /\ c.pc = b.pc
  <1>1. c \in Extraction /\ c.mine = FALSE /\ c.pc = b.pc /\ c.from = b.from /\ c.to = b.to
    BY DEF Extraction
  <1> QED
    BY <1>1 DEF PlanMade

LEMMA PlanAtWork ==
  ASSUME NEW b \in Extraction, PlanMade(b), b.pc = "saving"
  PROVE  /\ b.read \in Seq(Message) /\ b.to \in Nat /\ b.from \in Nat
         /\ 1 <= b.from /\ b.from <= b.to
  <1>1. b.read \in Seq(Message) /\ b.to \in Nat /\ b.from \in Nat
    BY DEF Extraction
  <1>2. b.to # 0
    BY DEF PlanMade
  <1> QED
    BY <1>1, <1>2 DEF PlanMade

LEMMA LowerOfOrdered == ASSUME NEW m \in Nat, NEW n \in Nat, m <= n PROVE Lower(m, n) = m
  BY DEF Lower

LEMMA PublishStep ==
  ASSUME ExtractionInv, NEW r \in Runs, Settled, run[r].pc = "saving", Current(r),
         Ended(r), memory' = WithBatch(run[r]), run' = [Replaced(run) EXCEPT ![r] = Idle],
         UNCHANGED <<floors, messages, generation, rollback, deferral, overtaken>>
  PROVE  ExtractionInv'
  <1> DEFINE b == run[r]
             top == Lower(b.to, Len(b.read))
             e == [to |-> b.to, before |-> memory.processed,
                   items |-> {b.read[f] : f \in b.from..top}]
  <1>1. /\ b \in Extraction /\ PlanMade(b) /\ b.pc = "saving" /\ b.mine = TRUE
        /\ memory \in Graph /\ run \in [Runs -> Extraction]
        /\ HostTyped /\ deferral \in Deferral /\ rollback \in Rollback
    BY DEF ExtractionInv, ExtractionTyped, PlansMade, Current, Extraction
  <1>2. /\ b.read \in Seq(Message) /\ b.to \in Nat /\ b.from \in Nat
        /\ 1 <= b.from /\ b.from <= b.to
    <2> HIDE DEF b
    <2> QED
      BY <1>1, PlanAtWork
  <1> HIDE DEF b
  <1>3. Len(b.read) \in Nat /\ top \in 0..Len(b.read)
    BY <1>2, LenProperties DEF Lower
  <1>4. SubSeq(b.read, 1, top) \in Seq(Message)
    <2> HIDE DEF top
    <2> QED
      BY <1>2, <1>3, Prefix
  <1>5. e \in Batch /\ e.to = b.to /\ e.before = memory.processed
        /\ e.items = {b.read[f] : f \in b.from..top}
    <2>1. \A f \in b.from..top : b.read[f] \in Message
      <3> TAKE f \in b.from..top
      <3>1. f \in 1..Len(b.read)
        BY <1>2, <1>3
      <3> QED
        BY <1>2, <3>1, ElementOfSeq
    <2>2. memory.processed \in Nat
      BY <1>1 DEF Graph
    <2> HIDE DEF top
    <2> QED
      BY <1>2, <2>1, <2>2 DEF Batch
  <1>6. memory' = [processed |-> b.to, dirty |-> 0, hashes |-> SubSeq(b.read, 1, top),
                   journal |-> Append(memory.journal, e)]
    BY DEF WithBatch, b
  <1>7. /\ memory' \in Graph /\ memory'.processed = b.to
        /\ memory'.hashes = SubSeq(b.read, 1, top) /\ memory'.journal = Append(memory.journal, e)
    <2>1. Append(memory.journal, e) \in Seq(Batch)
      <3> HIDE DEF e
      <3> QED
        BY <1>1, <1>5, AppendProperties DEF Graph
    <2> HIDE DEF e, top
    <2> QED
      BY <1>2, <1>4, <1>6, <2>1 DEF Graph
  <1>8. \A q \in Runs : run'[q] = IF q = r THEN Idle ELSE [run[q] EXCEPT !.mine = FALSE]
    BY DEF Replaced
  <1>9. \A q \in Runs : /\ run'[q] \in Extraction /\ PlanMade(run'[q]) /\ run'[q].mine = FALSE
                        /\ run'[q].pc = IF q = r THEN "idle" ELSE run[q].pc
    <2> TAKE q \in Runs
    <2>1. CASE q = r
      <3>1. Idle.mine = FALSE
        BY DEF Idle
      <3> QED
        BY <1>8, <2>1, <3>1, IdleTyped
    <2>2. CASE q # r
      <3>1. run[q] \in Extraction /\ PlanMade(run[q])
        BY DEF ExtractionInv, ExtractionTyped, PlansMade
      <3>2. run'[q] = [run[q] EXCEPT !.mine = FALSE]
        BY <1>8, <2>2
      <3> QED
        BY <2>2, <3>1, <3>2, NotMine
    <2> QED
      BY <2>1, <2>2
  <1>10. ExtractionTyped'
    <2>1. StageHeld'
      BY <1>9 DEF StageHeld, Ended, ExtractionInv, ExtractionTyped
    <2>2. run' \in [Runs -> Extraction]
      <3>1. run' = [q \in Runs |-> run'[q]]
        BY DEF Replaced
      <3> QED
        BY <1>9, <3>1
    <2> QED
      BY <1>1, <1>7, <2>1, <2>2 DEF ExtractionTyped, HostTyped
  <1>11. PlansMade'
    BY <1>9 DEF PlansMade
  <1>12. Kept'
    <2> SUFFICES ASSUME ~overtaken
                 PROVE  (Sound(memory) /\ RollbackKnows /\ GoClean /\ WorkKnows)'
      BY DEF Kept
    <2>1. Sound(memory) /\ RollbackKnows /\ WorkKnows
      BY DEF ExtractionInv, Kept
    <2>2. /\ b.from = memory.processed + 1
          /\ \A f \in 1..memory.processed : Agree(memory, b.read, f)
      BY <1>1, <2>1 DEF WorkKnows, b
    <2>3. Adds(memory, b.read, e, memory')
      <3>1. memory.processed < b.to
        BY <1>1, <1>2, <2>2 DEF Graph
      <3>2. e.items = {b.read[f] : f \in memory.processed + 1..Lower(e.to, Len(b.read))}
        BY <1>5, <2>2
      <3> HIDE DEF e
      <3> QED
        BY <1>5, <1>7, <3>1, <3>2 DEF Adds
    <2>4. Sound(memory')
      <3> HIDE DEF e
      <3> QED
        BY <1>1, <1>2, <1>5, <1>7, <2>1, <2>2, <2>3, BatchAdded
    <2>5. RollbackKnows'
      BY <2>1 DEF RollbackKnows
    <2>6. GoClean'
      BY <1>9 DEF GoClean, Settled
    <2>7. WorkKnows'
      BY <1>9 DEF WorkKnows
    <2> QED
      BY <2>4, <2>5, <2>6, <2>7
  <1> QED
    BY <1>10, <1>11, <1>12 DEF ExtractionInv

LEMMA SaveEndsStep ==
  ASSUME ExtractionInv, NEW r \in Runs, NEW accepted \in BOOLEAN, SaveEnds(r, accepted)
  PROVE  ExtractionInv'
  <1>1. /\ Settled /\ run[r].pc = "saving" /\ Ended(r)
        /\ UNCHANGED <<floors, messages, generation, rollback, deferral, overtaken>>
    BY DEF SaveEnds, host
  <1>2. CASE accepted /\ Current(r)
    BY <1>1, <1>2, PublishStep DEF SaveEnds
  <1>3. CASE ~(accepted /\ Current(r))
    <2>1. /\ run' = [run EXCEPT ![r] = Idle]
          /\ memory' = memory \/ memory' = [memory EXCEPT !.dirty = 1]
      BY <1>3 DEF SaveEnds
    <2>2. memory' \in Graph /\ SameBatches(memory, memory') /\ deferral' \in Deferral
      BY <1>1, <2>1 DEF ExtractionInv, ExtractionTyped, Graph, SameBatches
    <2>3. \A q \in Runs : run'[q].pc # "go"
      BY <2>1, IdleTyped, <1>1 DEF Settled, ExtractionInv, ExtractionTyped
    <2>4. Harmless(run[r], Idle)
      BY IdleTyped DEF Harmless
    <2>5. stage' \subseteq stage /\ r \notin stage'
      BY <1>1 DEF Ended
    <2> QED
      BY <1>1, <2>1, <2>2, <2>3, <2>4, <2>5, IdleTyped, RunChanges
  <1> QED
    BY <1>2, <1>3

-----------------------------------------------------------------------------
(* AutoExtraction: the end of a rollback                                    *)

LEMMA ReleasedTyped ==
  ASSUME run \in [Runs -> Extraction], PlansMade, NEW p \in {"idle", "go"}
  PROVE  /\ Released(p) \in [Runs -> Extraction]
         /\ \A q \in Runs : /\ PlanMade(Released(p)[q])
                            /\ run[q].pc # "joined" => Released(p)[q] = run[q]
                            /\ run[q].pc = "joined" => Released(p)[q].pc = p
  <1> SUFFICES ASSUME NEW q \in Runs
               PROVE  /\ Released(p)[q] \in Extraction
                      /\ PlanMade(Released(p)[q])
                      /\ run[q].pc # "joined" => Released(p)[q] = run[q]
                      /\ run[q].pc = "joined" => Released(p)[q].pc = p
    <2>1. Released(p) = [q \in Runs |-> Released(p)[q]]
      BY DEF Released
    <2> QED
      BY <2>1
  <1>1. run[q] \in Extraction /\ PlanMade(run[q])
    BY DEF PlansMade
  <1>2. Released(p)[q] = IF run[q].pc # "joined" THEN run[q]
                         ELSE IF p = "idle" THEN Idle ELSE [run[q] EXCEPT !.pc = p]
    BY DEF Released
  <1>3. CASE run[q].pc # "joined"
    BY <1>1, <1>2, <1>3
  <1>4. CASE run[q].pc = "joined" /\ p = "idle"
    BY <1>2, <1>4, IdleTyped
  <1>5. CASE run[q].pc = "joined" /\ p = "go"
    BY <1>1, <1>2, <1>5 DEF Extraction, Pcs, PlanMade
  <1> QED
    BY <1>3, <1>4, <1>5

LEMMA RollbackFailsStep == ASSUME ExtractionInv, RollbackFails PROVE ExtractionInv'
  <1>1. /\ run \in [Runs -> Extraction] /\ PlansMade /\ rollback \in Rollback
        /\ memory \in Graph /\ Settled /\ run' = Released("idle") /\ rollback' = NoRollback
        /\ UNCHANGED <<floors, messages, generation, deferral, stage, overtaken>>
    BY DEF ExtractionInv, ExtractionTyped, RollbackFails, host
  <1>2. /\ run' \in [Runs -> Extraction]
        /\ \A q \in Runs : /\ PlanMade(run'[q])
                           /\ run[q].pc # "joined" => run'[q] = run[q]
                           /\ run[q].pc = "joined" => run'[q].pc = "idle"
    BY <1>1, ReleasedTyped
  <1>3. memory' \in Graph /\ SameBatches(memory, memory')
    BY <1>1 DEF RollbackFails, Graph, Rollback, SameBatches
  <1>4. EmptyGraph \in Graph /\ NoRollback \in Rollback
    <2>1. <<>> \in Seq(Message) /\ <<>> \in Seq(Batch)
      BY EmptySeq
    <2> QED
      BY <2>1 DEF EmptyGraph, NoRollback, Graph, Rollback
  <1>5. ExtractionTyped'
    <2>1. StageHeld'
      BY <1>1, <1>2 DEF StageHeld, ExtractionInv, ExtractionTyped
    <2> QED
      BY <1>1, <1>2, <1>3, <1>4, <2>1 DEF ExtractionInv, ExtractionTyped, HostTyped
  <1>6. PlansMade'
    BY <1>2 DEF PlansMade
  <1>7. \A q \in Runs : Harmless(run[q], run'[q]) /\ run'[q].pc # "go"
    BY <1>1, <1>2 DEF Harmless, Settled
  <1>8. RollbackKnows'
    BY <1>1 DEF RollbackKnows, NoRollback
  <1>9. Kept'
    BY <1>1, <1>3, <1>7, <1>8, QuietStep DEF ExtractionInv
  <1> QED
    BY <1>5, <1>6, <1>9 DEF ExtractionInv

\* The first batch that a floor affects.
FirstAffected(g, f) == CHOOSE n \in Affected(g, f) : \A m \in Affected(g, f) : n <= m

LEMMA FirstAffectedIs ==
  ASSUME NEW g \in Graph, NEW f \in Nat, Affected(g, f) # {}
  PROVE  /\ FirstAffected(g, f) \in 1..Len(g.journal)
         /\ \A m \in 1..Len(g.journal) : m < FirstAffected(g, f) => g.journal[m].to < f
  <1>0. /\ Len(g.journal) \in Nat /\ DOMAIN g.journal = 1..Len(g.journal)
        /\ \A m \in 1..Len(g.journal) : g.journal[m].to \in Nat
    BY GraphParts
  <1>1. Affected(g, f) \in SUBSET Nat
    BY <1>0 DEF Affected
  <1>2. \E n \in Affected(g, f) : \A m \in Affected(g, f) : n <= m
    BY <1>1, LowestExists
  <1>3. /\ FirstAffected(g, f) \in Affected(g, f)
        /\ \A m \in Affected(g, f) : FirstAffected(g, f) <= m
    BY <1>2 DEF FirstAffected
  <1>4. FirstAffected(g, f) \in 1..Len(g.journal)
    BY <1>0, <1>3 DEF Affected
  <1>5. ASSUME NEW m \in 1..Len(g.journal), m < FirstAffected(g, f)
        PROVE  g.journal[m].to < f
    <2>1. m \notin Affected(g, f)
      BY <1>0, <1>3, <1>4, <1>5
    <2>2. ~(g.journal[m].to >= f)
      BY <1>0, <2>1 DEF Affected
    <2> QED
      BY <1>0, <2>2
  <1> QED
    BY <1>4, <1>5

LEMMA RolledBackTyped ==
  ASSUME NEW g \in Graph, NEW f \in Nat, NEW read \in Seq(Message), Affected(g, f) # {}
  PROVE  LET n == FirstAffected(g, f)
             kept == g.journal[n].before
             h == RolledBack(g, f, read)
         IN  /\ h \in Graph /\ h.processed = kept /\ h.dirty = 0
             /\ h.hashes = SubSeq(read, 1, Lower(kept, Len(read)))
             /\ h.journal = SubSeq(g.journal, 1, n - 1)
  <1> DEFINE n == FirstAffected(g, f)
             kept == g.journal[n].before
             h == RolledBack(g, f, read)
             hs == SubSeq(read, 1, Lower(kept, Len(read)))
             j == SubSeq(g.journal, 1, n - 1)
  <1>1. /\ Len(g.journal) \in Nat /\ g.journal \in Seq(Batch) /\ n \in 1..Len(g.journal)
    BY GraphParts, FirstAffectedIs
  <1>2. kept \in Nat
    <2> HIDE DEF n
    <2> QED
      BY <1>1, GraphParts
  <1>3. Lower(kept, Len(read)) \in 0..Len(read)
    <2> HIDE DEF kept
    <2> QED
      BY <1>2, LenProperties DEF Lower
  <1>4. hs \in Seq(Message)
    BY <1>3, Prefix
  <1>5. j \in Seq(Batch)
    <2> HIDE DEF n
    <2>1. n - 1 \in 0..Len(g.journal)
      BY <1>1
    <2> QED
      BY <1>1, <2>1, Prefix
  <1>6. h = [processed |-> kept, dirty |-> 0, hashes |-> hs, journal |-> j]
    BY DEF RolledBack, FirstAffected
  <1>7. h \in Graph /\ h.processed = kept /\ h.dirty = 0 /\ h.hashes = hs /\ h.journal = j
    <2> HIDE DEF n, kept, h, hs, j
    <2> QED
      BY <1>2, <1>4, <1>5, <1>6 DEF Graph
  <1> QED
    BY <1>7

LEMMA RollbackCommitsStep == ASSUME ExtractionInv, RollbackCommits PROVE ExtractionInv'
  <1> DEFINE g == rollback.base
             f == rollback.from
             n == FirstAffected(g, f)
             kept == g.journal[n].before
             rs == Released("go")
  <1>1. /\ run \in [Runs -> Extraction] /\ PlansMade /\ rollback \in Rollback /\ HostTyped
        /\ Settled /\ run' = Replaced(rs) /\ rollback' = NoRollback /\ rollback.on
        /\ rollback.read = floors /\ Affected(g, f) # {}
        /\ memory' = RolledBack(g, f, floors)
        /\ UNCHANGED <<floors, messages, generation, deferral, stage, overtaken>>
    BY DEF ExtractionInv, ExtractionTyped, RollbackCommits, host
  <1>2. g \in Graph /\ f \in Nat /\ floors \in Seq(Message)
    BY <1>1 DEF Rollback, HostTyped
  <1>3. /\ rs \in [Runs -> Extraction]
        /\ \A q \in Runs : /\ PlanMade(rs[q])
                           /\ run[q].pc # "joined" => rs[q] = run[q]
                           /\ run[q].pc = "joined" => rs[q].pc = "go"
    BY <1>1, ReleasedTyped
  <1> HIDE DEF g, f, rs
  <1>4. \A q \in Runs : /\ run'[q] \in Extraction /\ PlanMade(run'[q])
                        /\ run'[q].mine = FALSE /\ run'[q].pc = rs[q].pc
    <2> TAKE q \in Runs
    <2>1. rs[q] \in Extraction /\ PlanMade(rs[q]) /\ run'[q] = [rs[q] EXCEPT !.mine = FALSE]
      BY <1>1, <1>3 DEF Replaced
    <2> QED
      BY <2>1, NotMine
  <1>5. /\ memory' \in Graph /\ memory'.processed = kept /\ memory'.dirty = 0
        /\ memory'.hashes = SubSeq(floors, 1, Lower(kept, Len(floors)))
        /\ memory'.journal = SubSeq(g.journal, 1, n - 1)
    BY <1>1, <1>2, RolledBackTyped
  <1>6. ExtractionTyped'
    <2>1. StageHeld'
      BY <1>1, <1>3, <1>4 DEF StageHeld, ExtractionInv, ExtractionTyped
    <2>2. run' \in [Runs -> Extraction]
      <3>1. run' = [q \in Runs |-> run'[q]]
        BY <1>1 DEF Replaced
      <3> QED
        BY <1>4, <3>1
    <2>3. NoRollback \in Rollback
      <3>1. <<>> \in Seq(Message) /\ <<>> \in Seq(Batch)
        BY EmptySeq
      <3> QED
        BY <3>1 DEF EmptyGraph, NoRollback, Graph, Rollback
    <2> QED
      BY <1>1, <1>5, <2>1, <2>2, <2>3 DEF ExtractionInv, ExtractionTyped, HostTyped
  <1>7. PlansMade'
    BY <1>4 DEF PlansMade
  <1>8. Kept'
    <2> SUFFICES ASSUME ~overtaken
                 PROVE  (Sound(memory) /\ RollbackKnows /\ GoClean /\ WorkKnows)'
      BY <1>1 DEF Kept
    <2>1. /\ f >= 1 /\ Sound(g)
          /\ \A k \in 1..g.processed : k < f => Agree(g, floors, k)
      BY <1>1 DEF ExtractionInv, Kept, RollbackKnows, g, f
    <2>2. /\ g.processed \in Nat /\ Len(g.journal) \in Nat
          /\ DOMAIN g.journal = 1..Len(g.journal)
          /\ \A m \in 1..Len(g.journal) : g.journal[m].to \in Nat /\ g.journal[m].before \in Nat
      BY <1>2, GraphParts
    <2>3. /\ n \in 1..Len(g.journal)
          /\ \A m \in 1..Len(g.journal) : m < n => g.journal[m].to < f
      BY <1>1, <1>2, FirstAffectedIs
    <2> HIDE DEF n
    <2>4. kept < f
      <3>1. kept = IF n = 1 THEN 0 ELSE g.journal[n - 1].to
        BY <2>1, <2>2, <2>3 DEF Sound, Chained
      <3>2. CASE n = 1
        BY <1>2, <2>1, <3>1, <3>2
      <3>3. CASE n # 1
        <4>1. n - 1 \in 1..Len(g.journal) /\ n - 1 < n
          BY <2>2, <2>3, <3>3
        <4> QED
          BY <2>3, <3>1, <3>3, <4>1
      <3> QED
        BY <3>2, <3>3
    <2>5. kept \in Nat /\ kept <= g.processed
      <3>1. kept < g.journal[n].to /\ g.journal[n].to <= g.processed
        BY <2>1, <2>2, <2>3 DEF Sound, Chained, Ordered
      <3> QED
        BY <2>2, <2>3, <3>1
    <2> HIDE DEF kept
    <2>6. \A k \in 1..kept : Agree(g, floors, k)
      <3> TAKE k \in 1..kept
      <3>1. k \in 1..g.processed /\ k < f
        BY <1>2, <2>2, <2>4, <2>5
      <3> QED
        BY <2>1, <3>1
    <2>7. Len(floors) \in Nat /\ kept <= Len(floors) /\ Lower(kept, Len(floors)) = kept
      <3>1. Len(floors) \in Nat /\ DOMAIN floors = 1..Len(floors)
        BY <1>2, LenProperties
      <3>2. kept <= Len(floors)
        <4>1. CASE kept = 0
          BY <3>1, <4>1
        <4>2. CASE kept # 0
          <5>1. kept \in 1..kept
            BY <2>5, <4>2
          <5>2. kept \in DOMAIN floors
            BY <2>6, <5>1 DEF Agree
          <5> QED
            BY <3>1, <5>2
        <4> QED
          BY <4>1, <4>2
      <3>3. Lower(kept, Len(floors)) = kept
        BY <2>5, <3>1, <3>2, LowerOfOrdered
      <3> QED
        BY <3>1, <3>2, <3>3
    <2>8. CutsOff(g, floors, n, memory')
      BY <1>5, <2>7 DEF CutsOff, kept
    <2>9. Sound(memory')
      BY <1>2, <1>5, <2>1, <2>3, <2>6, <2>7, <2>8, BatchesCutOff DEF kept
    <2>10. RollbackKnows'
      BY <1>1 DEF RollbackKnows, NoRollback
    <2>11. DirtyFloor' = {}
      <3>1. /\ Len(memory'.hashes) = kept
            /\ \A k \in 1..kept : memory'.hashes[k] = floors[k]
        BY <1>2, <1>5, <2>5, <2>7, Prefix
      <3>2. Altered' = {}
        <4> SUFFICES ASSUME NEW k \in Altered' PROVE FALSE
          OBVIOUS
        <4>1. k \in 1..kept /\ (k > kept \/ k > Len(floors) \/ memory'.hashes[k] # floors[k])
          BY <1>1, <1>5, <3>1 DEF Altered
        <4> QED
          BY <2>5, <2>7, <3>1, <4>1
      <3> QED
        BY <1>5, <3>2 DEF DirtyFloor
    <2>12. GoClean'
      BY <2>11 DEF GoClean
    <2>13. WorkKnows'
      BY <1>4 DEF WorkKnows
    <2> QED
      BY <2>9, <2>10, <2>12, <2>13
  <1> QED
    BY <1>6, <1>7, <1>8 DEF ExtractionInv

-----------------------------------------------------------------------------
(* AutoExtraction: the theorems                                             *)

LEMMA ExtractionBegins == ExtractionInit => ExtractionInv
  <1> SUFFICES ASSUME ExtractionInit PROVE ExtractionInv
    OBVIOUS
  <1> USE DEF ExtractionInit
  <1>1. <<>> \in Seq(Message) /\ <<>> \in Seq(Batch) /\ Len(<<>>) = 0
    BY EmptySeq
  <1>2. EmptyGraph \in Graph /\ NoRollback \in Rollback /\ NotDeferred \in Deferral
    BY <1>1 DEF EmptyGraph, NoRollback, Graph, Rollback, NotDeferred, Deferral
  <1>3. \A q \in Runs : run[q] = Idle /\ run[q].pc = "idle" /\ PlanMade(run[q])
    BY IdleTyped
  <1>4. ExtractionTyped
    BY <1>1, <1>2, IdleTyped, ExtractionAssumption DEF ExtractionTyped, HostTyped, StageHeld
  <1>5. Sound(memory)
    BY <1>1 DEF EmptyGraph, Sound, Chained, Ordered, HashesRead, ReadHashed
  <1>6. RollbackKnows /\ GoClean /\ WorkKnows
    BY <1>3 DEF RollbackKnows, NoRollback, GoClean, WorkKnows
  <1> QED
    BY <1>3, <1>4, <1>5, <1>6 DEF ExtractionInv, PlansMade, Kept

LEMMA ExtractionKept == ExtractionInv /\ [ExtractionNext]_extractionVars => ExtractionInv'
  <1> SUFFICES ASSUME ExtractionInv, [ExtractionNext]_extractionVars PROVE ExtractionInv'
    OBVIOUS
  <1>1. CASE Receive
    BY <1>1, ReceiveStep
  <1>2. CASE GenerationStarts
    BY <1>2, GenerationStartsStep
  <1>3. CASE GenerationEnds \/ Rendered \/ TimerFires \/ RetryAccepted
    BY <1>3, ResumingSteps
  <1>4. CASE Swipe
    BY <1>4, SwipeStep
  <1>5. CASE \E f \in DOMAIN floors : Delete(f)
    BY <1>5, DeleteStep
  <1>6. CASE \E r \in Runs : RunStep(r)
    <2>1. PICK r \in Runs : RunStep(r)
      BY <1>6
    <2> QED
      BY <2>1, PassGateStep, StopAtGateStep, RecoverStep, BeginStep, ExtractedStep, SaveEndsStep
         DEF RunStep
  <1>7. CASE RollbackStarts
    BY <1>7, RollbackStartsStep
  <1>8. CASE RollbackCommits
    BY <1>8, RollbackCommitsStep
  <1>9. CASE RollbackFails
    BY <1>9, RollbackFailsStep
  <1>10. CASE UNCHANGED extractionVars
    BY <1>10 DEF extractionVars, host, ExtractionInv, ExtractionTyped, HostTyped, StageHeld,
                 PlansMade, Kept, RollbackKnows, GoClean, DirtyFloor, Altered, WorkKnows
  <1> QED
    BY <1>1, <1>2, <1>3, <1>4, <1>5, <1>6, <1>7, <1>8, <1>9, <1>10 DEF ExtractionNext

LEMMA ExtractionHolds == ExtractionSpec => []ExtractionInv
  <1>1. ExtractionInit => ExtractionInv
    BY ExtractionBegins
  <1>2. ExtractionInv /\ [ExtractionNext]_extractionVars => ExtractionInv'
    BY ExtractionKept
  <1> QED
    BY <1>1, <1>2, PTL DEF ExtractionSpec

\* The types hold, and only a batch at work has its abort controller in the stage slot
\* (runExtraction, finishStageAbortController).
THEOREM ExtractionTypeCorrect == ExtractionSpec => []ExtractionTypeOK
  <1>1. ExtractionInv => ExtractionTypeOK
    <2> SUFFICES ASSUME ExtractionInv PROVE ExtractionTypeOK
      OBVIOUS
    <2>1. floors \in Seq(Message) /\ memory \in Graph /\ StageHeld
      BY DEF ExtractionInv, ExtractionTyped, HostTyped
    <2>2. MessagesOf(floors) \subseteq Message
      BY <2>1, ElementOfSeq, LenProperties DEF MessagesOf
    <2>3. memory.hashes \in Seq(Message) /\ memory.processed \in Nat
      BY <2>1 DEF Graph
    <2>4. MessagesOf(memory.hashes) \subseteq Message
      BY <2>3, ElementOfSeq, LenProperties DEF MessagesOf
    <2> QED
      BY <2>1, <2>2, <2>3, <2>4 DEF ExtractionTypeOK, StageHeld
  <1> QED
    BY <1>1, ExtractionHolds, PTL

\* What the graph remembers of a message that was swiped or deleted is noticed by the
\* next check of the history (detectHistoryMutation), whatever runs, saves and
\* rollbacks overlapped, unless a batch began on an outdated plan.
THEOREM StaleNoticed == ExtractionSpec => []StaleIsSeen
  <1>1. ExtractionInv => StaleIsSeen
    <2> SUFFICES ASSUME ExtractionInv, ~overtaken, DirtyFloor = {}, NEW x \in Remembered
                 PROVE  x \in MessagesOf(floors)
      BY DEF StaleIsSeen
    <2>1. memory \in Graph /\ floors \in Seq(Message) /\ ReadHashed(memory) /\ HashesRead(memory)
      BY DEF ExtractionInv, ExtractionTyped, HostTyped, Kept, Sound
    <2>2. PICK n \in DOMAIN memory.journal : x \in memory.journal[n].items
      BY DEF Remembered
    <2>3. PICK f \in DOMAIN memory.hashes : memory.hashes[f] = x
      BY <2>1, <2>2 DEF ReadHashed
    <2>4. /\ memory.processed \in Nat /\ Len(memory.hashes) \in Nat
          /\ DOMAIN memory.hashes = 1..Len(memory.hashes)
      BY <2>1, GraphParts
    <2>5. f \in 1..memory.processed
      BY <2>1, <2>3, <2>4 DEF HashesRead
    <2>6. Agree(memory, floors, f)
      BY <2>1, <2>5, CleanAgrees
    <2> QED
      BY <2>3, <2>6 DEF Agree, MessagesOf
  <1> QED
    BY <1>1, ExtractionHolds, PTL

\* A message whose hash says it was processed was read by a batch of the journal: the
\* rollback trims hashes and journal to the same floor (findJournalRecoveryPoint,
\* applyProcessedHistorySnapshot); with the same exception.
THEOREM HashedIsRead == ExtractionSpec => []FloorsComplete
  <1>1. ExtractionInv => FloorsComplete
    <2> SUFFICES ASSUME ExtractionInv, ~overtaken, NEW f \in DOMAIN memory.hashes
                 PROVE  memory.hashes[f] \in Remembered
      BY DEF FloorsComplete
    <2>1. memory \in Graph /\ HashesRead(memory)
      BY DEF ExtractionInv, ExtractionTyped, Kept, Sound
    <2>2. Len(memory.journal) \in Nat /\ DOMAIN memory.journal = 1..Len(memory.journal)
      BY <2>1, GraphParts
    <2>3. memory.hashes[f] \in ReadBefore(memory, Len(memory.journal) + 1)
      BY <2>1 DEF HashesRead
    <2>4. PICK n \in 1..Len(memory.journal) + 1 - 1 : memory.hashes[f] \in memory.journal[n].items
      BY <2>3 DEF ReadBefore
    <2>5. n \in DOMAIN memory.journal
      BY <2>2, <2>4
    <2> QED
      BY <2>4, <2>5 DEF Remembered
  <1> QED
    BY <1>1, ExtractionHolds, PTL
===============================================================================
