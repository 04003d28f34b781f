-------------------------- MODULE OpfsStoreProofs ---------------------------
(***************************************************************************)
(* Theorems about OpfsStore, for every set of tabs, records and values: its*)
(* invariants, and that it implements DurableGraph.                        *)
(***************************************************************************)
EXTENDS OpfsStore, WellFoundedInduction, TLAPS

-----------------------------------------------------------------------------
(***************************************************************************)
(* What the operators of the model return.                                 *)
(***************************************************************************)

\* A bootstrapped directory starts at revision 0.
LEMMA ZeroRev == 0 \in Rev
BY ConstantsOK DEF Rev

\* The graph of a fresh directory is a graph.
LEMMA EmptyType == Empty \in Content
BY DEF Empty, Content, Entry

\* applyOpfsV2DeltaToSnapshot maps graphs to graphs.
LEMMA ApplyType == ASSUME NEW c \in Content, NEW d \in Delta
                   PROVE  Apply(c, d) \in Content
BY DEF Apply, Content, Entry, Delta

\* Of the WAL files that touch a record one is the last.
LEMMA LatestExists == ASSUME NEW S \in SUBSET Rev, S # {}
                      PROVE  Latest(S) \in S /\ \A q \in S : q <= Latest(S)
<1>1. MaxRev \in Nat /\ \A r \in S : r \in Nat /\ r <= MaxRev
  BY ConstantsOK DEF Rev
<1>2. \A r \in S : MaxRev - r \in Nat
  BY <1>1
<1> DEFINE T == {MaxRev - r : r \in S}
<1>3. T \subseteq Nat /\ T # {}
  BY <1>2
<1>4. PICK x \in T : \A y \in T : <<y, x>> \notin OpToRel(<, Nat)
  <2> HIDE DEF T
  <2> QED BY <1>3, NatLessThanWellFounded, WFMin
<1>5. \A y \in T : ~(y < x)
  <2> HIDE DEF T
  <2> QED BY <1>3, <1>4 DEF OpToRel
<1>6. PICK r \in S : x = MaxRev - r
  OBVIOUS
<1>7. \A q \in S : ~(MaxRev - q < MaxRev - r)
  BY <1>5, <1>6
<1>8. \A q \in S : q <= r
  BY <1>1, <1>7
<1> QED
  BY <1>8 DEF Latest

\* Replaying a WAL over base files yields a graph.
LEMMA ReplayType == ASSUME TypeOK, NEW files \in Content, NEW m \in Manifest
                    PROVE  Replay(files, m) \in Content
<1> DEFINE Touching(k) == {r \in PendingLog(m) : wal[r] # None /\ wal[r][k] # Keep}
<1>1. ASSUME NEW k \in Key, Touching(k) # {}
      PROVE  wal[Latest(Touching(k))][k] \in Entry
  <2>1. Touching(k) \subseteq Rev
    BY DEF PendingLog
  <2>2. Latest(Touching(k)) \in Touching(k)
    BY <1>1, <2>1, LatestExists
  <2> QED
    BY <2>1, <2>2 DEF TypeOK, Delta
<1>2. \A k \in Key : files[k] \in Entry
  BY DEF Content
<1> QED
  BY <1>1, <1>2 DEF Replay, Content

\* The manifest of a rewritten base is one.
LEMMA EmptyManifestType ==
    ASSUME NEW r \in Rev, NEW isDirty \in BOOLEAN, NEW s \in Rev
    PROVE  EmptyManifest(r, isDirty, s) \in Manifest
BY ConstantsOK DEF EmptyManifest, Manifest, Rev

\* The manifest of a commit is one.
LEMMA CommittedType == ASSUME NEW m \in Manifest, NEW r \in Rev
                       PROVE  Committed(m, r) \in Manifest
BY ConstantsOK DEF Committed, Manifest, Rev

\* The manifest after an acknowledged upload is one.
LEMMA AcknowledgedType == ASSUME NEW m \in Manifest, NEW r \in Rev
                          PROVE  Acknowledged(m, r) \in Manifest
<1>1. (IF m.edited <= r THEN 0 ELSE m.edited) \in Rev /\ (r # m.head) \in BOOLEAN
  BY ZeroRev DEF Manifest
<1> QED
  BY <1>1 DEF Acknowledged, Manifest

\* A rewrite of the base is a rewrite task.
LEMMA RewriteType ==
    ASSUME NEW r \in Rev, NEW e \in Rev \cup {None}, NEW target \in Content,
           NEW isDirty \in BOOLEAN, NEW s \in Rev, NEW before \in Content
    PROVE  Rewrite(r, e, target, isDirty, s, before) \in RewriteTask
BY DEF Rewrite, RewriteTask

\* A tab between two tasks, in a commit, or in a rewrite of the base.
LEMMA TaskCases ==
    ASSUME TypeOK, NEW t \in Tab
    PROVE  /\ task[t] # Idle <=> task[t].pc # "idle"
           /\ task[t].pc \in {"wal", "publish"} <=> task[t] \in CommitTask
           /\ Rewriting(t) <=> task[t] \in RewriteTask
           /\ task[t].pc \in {"idle", "wal", "publish", "files", "drop"}
BY DEF TypeOK, Idle, CommitTask, RewriteTask, Rewriting

-----------------------------------------------------------------------------
(***************************************************************************)
(* The inductive invariant.                                                *)
(***************************************************************************)
\* The Web Lock has one holder, the tab whose task runs.
Serialized == \A t \in Tab : lock = t <=> task[t] # Idle

\* Before the first manifest, an open tab is bootstrapping and no
\* compaction is due.
Bootstrapping == manifest = None => due = {} /\ \A t \in isOpen : Rewriting(t)

\* A running commit knows the manifest on disk and has checked its base
\* revision; before it publishes, its WAL file is there.
CommitConsistent ==
    \A t \in Tab : task[t].pc \in {"wal", "publish"} =>
        /\ manifest # None /\ mcache[t] = manifest
        /\ task[t].rev > manifest.head
        /\ task[t].expected \in {None, manifest.head}
        /\ task[t].pc = "publish" => wal[task[t].rev] = task[t].delta

\* A running rewrite has written the base files it no longer owes.  It ends
\* at the head (a compaction, which keeps the graph) or past it.
RewriteConsistent ==
    \A t \in Tab : Rewriting(t) =>
        /\ \A k \in Key \ task[t].todo : base[k] = task[t].target[k]
        /\ task[t].pc = "drop" => task[t].todo = {}
        /\ task[t].dirty \/ task[t].edited = 0
        /\ task[t].edited <= task[t].rev
        /\ manifest = None => /\ task[t].rev = 0 /\ task[t].expected = None
                              /\ task[t].target = Empty
                              /\ task[t].before = Empty
        /\ manifest # None =>
              /\ task[t].expected \in {None, manifest.head}
              /\ task[t].rev >= manifest.head
              /\ task[t].rev = manifest.head => task[t].target = task[t].before

\* The local changes Cloud Sync was not given end at the head or before, and
\* a store that has one is dirty.
EditRecorded == manifest # None => /\ manifest.edited <= manifest.head
                                   /\ manifest.dirty \/ manifest.edited = 0

Consistent == /\ Serialized
              /\ Bootstrapping
              /\ CommitConsistent
              /\ RewriteConsistent
              /\ EditRecorded

IInv == TypeOK /\ Consistent

-----------------------------------------------------------------------------
(***************************************************************************)
(* TypeOK.                                                                 *)
(***************************************************************************)
LEMMA InitType == Init => TypeOK
BY EmptyType DEF Init, TypeOK

\* While the lock is free no task runs, and an open tab finds a manifest.
LEMMA LockFree ==
    ASSUME IInv, NEW t \in Tab, Acquire(t)
    PROVE  /\ \A u \in Tab : task[u] = Idle
           /\ t \in isOpen \cup due => manifest \in Manifest
<1>1. \A u \in Tab : task[u] = Idle
  BY ConstantsOK DEF IInv, Consistent, Serialized, Acquire
<1>2. ~Rewriting(t)
  BY <1>1 DEF Rewriting, Idle
<1> QED
  BY <1>1, <1>2 DEF IInv, TypeOK, Consistent, Bootstrapping

\* Every step keeps the types.
LEMMA NextType == IInv /\ [Next]_vars => TypeOK'
<1> SUFFICES ASSUME IInv, [Next]_vars PROVE TypeOK'
  OBVIOUS
<1> USE DEF IInv, Consistent
<1>1. CASE UNCHANGED vars
  BY <1>1 DEF TypeOK, vars, disk, caches
<1> SUFFICES ASSUME NEW t \in Tab, Begin(t) \/ Step(t) \/ Read(t) \/ Fail(t) \/ Crash(t)
             PROVE  TypeOK'
  BY <1>1 DEF Next
<1>2. CASE Open(t)
  BY <1>2 DEF Open, TypeOK, disk
<1>3. CASE Bootstrap(t)
  <2>1. Rewrite(0, None, Empty, FALSE, 0, Empty) \in RewriteTask
    BY ZeroRev, EmptyType, RewriteType
  <2> QED
    BY <1>3, <2>1 DEF Bootstrap, Run, Refresh, FreshHead, TypeOK, disk
<1>4. ASSUME NEW d \in Delta, NEW e \in Rev \cup {None}, NEW r \in Rev,
             NEW op \in {"commit", "bare"}, CommitDelta(t, d, e, r, op)
      PROVE  TypeOK'
  <2> DEFINE c == IF op = "commit" THEN Apply(Replay(base, manifest), d) ELSE None
             job == [pc |-> "wal", rev |-> r, expected |-> e, delta |-> d, snapshot |-> c]
  <2>1. manifest \in Manifest
    BY <1>4, LockFree DEF CommitDelta, Writable
  <2>2. Replay(base, manifest) \in Content
    BY <2>1, ReplayType DEF TypeOK
  <2>3. c \in Content \cup {None}
    BY <2>2, ApplyType
  <2>4. job \in CommitTask
    BY <2>3 DEF CommitTask
  <2>5. task' = [task EXCEPT ![t] = job]
    BY <1>4 DEF CommitDelta, Run, FreshHead
  <2> HIDE DEF c, job
  <2> QED
    BY <1>4, <2>4, <2>5 DEF CommitDelta, Run, Refresh, FreshHead, TypeOK, disk
<1>5. ASSUME NEW op, Conflict(t, op) PROVE TypeOK'
  BY <1>5 DEF Conflict, Refresh, FreshHead, TypeOK, disk
<1>6. ASSUME NEW c \in Content, NEW e \in Rev \cup {None}, NEW r \in Rev,
             NEW op \in {"import", "download"}, ImportSnapshot(t, c, e, r, op)
      PROVE  TypeOK'
  <2>1. manifest \in Manifest
    BY <1>6, LockFree DEF ImportSnapshot, Writable
  <2>2. Replay(base, manifest) \in Content
    BY <2>1, ReplayType DEF TypeOK
  <2>3. \A edit \in {0, r} :
            Rewrite(r, e, c, op # "download", edit, Replay(base, manifest)) \in RewriteTask
    BY <2>2, RewriteType, ZeroRev
  <2> QED
    BY <1>6, <2>3 DEF ImportSnapshot, Run, Refresh, FreshHead, TypeOK, disk
<1>7. CASE ClearAll(t)
  <2>1. manifest \in Manifest
    BY <1>7, LockFree DEF ClearAll, Writable
  <2>2. Replay(base, manifest) \in Content
    BY <2>1, ReplayType DEF TypeOK
  <2>3. Rewrite(manifest.head + 1, None, Empty, TRUE, manifest.head + 1,
                     Replay(base, manifest))
            \in RewriteTask
    BY <1>7, <2>2, EmptyType, RewriteType, ZeroRev DEF ClearAll, FreshHead
  <2> QED
    BY <1>7, <2>3 DEF ClearAll, Run, Refresh, FreshHead, TypeOK, disk
<1>8. CASE CompactNow(t)
  <2>1. manifest \in Manifest
    BY <1>8, LockFree DEF CompactNow
  <2>2. Replay(base, manifest) \in Content
    BY <2>1, ReplayType DEF TypeOK
  <2>3. /\ manifest.head \in Rev /\ manifest.dirty \in BOOLEAN
        /\ manifest.edited \in Rev
    BY <2>1 DEF Manifest
  <2> DEFINE c == Replay(base, manifest)
             job == Rewrite(manifest.head, None, c, manifest.dirty, manifest.edited, c)
             snapshot == [rev |-> manifest.head, content |-> c]
  <2>4. job \in RewriteTask
    BY <2>2, <2>3, RewriteType
  <2>5. snapshot \in Snapshot
    BY <2>2, <2>3 DEF Snapshot
  <2>6. /\ task' = [task EXCEPT ![t] = job]
        /\ scache' = [scache EXCEPT ![t] = snapshot]
    BY <1>8 DEF CompactNow, Run, Refresh, FreshHead
  <2> HIDE DEF job, snapshot
  <2> QED
    BY <1>8, <2>4, <2>5, <2>6 DEF CompactNow, Run, Refresh, FreshHead, TypeOK, disk
<1>9. CASE SkipCompaction(t)
  BY <1>9 DEF SkipCompaction, Refresh, FreshHead, TypeOK, disk
<1>10. ASSUME NEW r \in Rev, PatchMetaIfRevision(t, r) PROVE TypeOK'
  <2>1. manifest \in Manifest
    BY <1>10, LockFree DEF PatchMetaIfRevision, Writable
  <2>2. Acknowledged(manifest, r) \in Manifest
    BY <2>1, AcknowledgedType
  <2> QED
    BY <1>10, <2>2 DEF PatchMetaIfRevision, FreshHead, TypeOK
<1>11. CASE WriteWal(t)
  <2>1. task[t] \in CommitTask
    BY <1>11, TaskCases DEF WriteWal
  <2>2. [task[t] EXCEPT !.pc = "publish"] \in CommitTask
    BY <2>1 DEF CommitTask
  <2>3. task[t].rev \in Rev /\ task[t].delta \in Delta
    BY <2>1 DEF CommitTask
  <2> QED
    BY <1>11, <2>2, <2>3 DEF WriteWal, TypeOK, caches
<1>12. CASE PublishCommit(t)
  <2>1. task[t] \in CommitTask /\ mcache[t] \in Manifest
    BY <1>12, TaskCases DEF PublishCommit, CommitConsistent, TypeOK
  <2>2. Committed(mcache[t], task[t].rev) \in Manifest
    BY <2>1, CommittedType DEF CommitTask
  <2>3. scache[t] # None => Apply(scache[t].content, task[t].delta) \in Content
    BY <2>1, ApplyType DEF CommitTask, TypeOK, Snapshot
  <2>4. CommittedSnapshot(t) \in Snapshot \cup {None}
    BY <2>1, <2>3 DEF CommittedSnapshot, CommitTask, Snapshot
  <2> QED
    BY <1>12, <2>2, <2>4 DEF PublishCommit, Release, TypeOK
<1>13. ASSUME NEW k \in Key, RewriteFile(t, k) PROVE TypeOK'
  <2>1. task[t] \in RewriteTask
    BY <1>13, TaskCases DEF RewriteFile, Rewriting
  <2>2. [task[t] EXCEPT !.todo = @ \ {k}] \in RewriteTask
    BY <2>1 DEF RewriteTask
  <2>3. task[t].target[k] \in Entry
    BY <2>1 DEF RewriteTask, Content
  <2> QED
    BY <1>13, <2>2, <2>3 DEF RewriteFile, TypeOK, Content, caches
<1>14. CASE ListWal(t)
  <2>1. task[t] \in RewriteTask
    BY <1>14, TaskCases DEF ListWal, Rewriting
  <2>2. [task[t] EXCEPT !.pc = "drop", !.stale = {r \in Rev : wal[r] # None}]
            \in RewriteTask
    BY <2>1 DEF RewriteTask
  <2> QED
    BY <1>14, <2>2 DEF ListWal, TypeOK, disk, caches
<1>15. ASSUME NEW r \in Rev, NEW deleted \in BOOLEAN, DropWal(t, r, deleted)
       PROVE  TypeOK'
  <2>1. task[t] \in RewriteTask
    BY <1>15, TaskCases DEF DropWal, Rewriting
  <2>2. [task[t] EXCEPT !.stale = @ \ {r}] \in RewriteTask
    BY <2>1 DEF RewriteTask
  <2> QED
    BY <1>15, <2>2 DEF DropWal, TypeOK, caches
<1>16. CASE PublishBase(t)
  <2>1. task[t] \in RewriteTask
    BY <1>16, TaskCases DEF PublishBase, Rewriting
  <2>2. EmptyManifest(task[t].rev, task[t].dirty, task[t].edited) \in Manifest
    BY <2>1, EmptyManifestType DEF RewriteTask
  <2>3. [rev |-> task[t].rev, content |-> task[t].target] \in Snapshot
    BY <2>1 DEF RewriteTask, Snapshot
  <2> QED
    BY <1>16, <2>2, <2>3 DEF PublishBase, Release, TypeOK
<1>17. CASE LoadSnapshot(t)
  <2> DEFINE m == KnownHead(t)
             load == [pc |-> "read", m |-> m, files |-> [k \in Key |-> None],
                      owed |-> IF m = manifest THEN Owed ELSE None]
  <2>1. m \in Manifest
    BY <1>17 DEF LoadSnapshot, KnownHead, TypeOK
  <2>2. Owed \in Content
    <3>1. manifest # None => Replay(base, manifest) \in Content
      BY ReplayType DEF TypeOK
    <3>2. lock # None /\ Rewriting(lock) => task[lock].before \in Content
      BY TaskCases DEF TypeOK, RewriteTask
    <3> QED
      BY <3>1, <3>2, EmptyType DEF Owed
  <2>3. load \in Load
    BY <2>1, <2>2 DEF Load
  <2>4. /\ mcache' = [mcache EXCEPT ![t] = m]
        /\ reading' = [reading EXCEPT ![t] = load]
    BY <1>17 DEF LoadSnapshot
  <2> HIDE DEF m, load
  <2> QED
    BY <1>17, <2>1, <2>3, <2>4 DEF LoadSnapshot, TypeOK, disk
<1>18. ASSUME NEW k \in Key, ReadFile(t, k) PROVE TypeOK'
  <2>1. reading[t] \in Load
    BY <1>18 DEF ReadFile, TypeOK
  <2>2. base[k] \in Entry
    BY DEF TypeOK, Content
  <2>3. [reading[t] EXCEPT !.files[k] = base[k]] \in Load
    BY <2>1, <2>2 DEF Load
  <2> QED
    BY <1>18, <2>3 DEF ReadFile, TypeOK, disk, caches
<1>19. CASE ReadWal(t)
  <2>1. reading[t] \in Load
    BY <1>19 DEF ReadWal, TypeOK
  <2>2. reading[t].files \in Content /\ reading[t].m \in Manifest
    BY <1>19, <2>1 DEF ReadWal, Load, Content
  <2>3. [rev |-> reading[t].m.head, content |-> Replay(reading[t].files, reading[t].m)]
            \in Snapshot
    BY <2>2, ReplayType DEF Snapshot, Manifest
  <2> QED
    BY <1>19, <2>3 DEF ReadWal, TypeOK, disk
<1>20. CASE Fail(t)
  BY <1>20 DEF Fail, Release, TypeOK, disk, caches
<1>21. CASE Crash(t)
  BY <1>21 DEF Crash, TypeOK, disk
<1> QED
  BY <1>2, <1>3, <1>4, <1>5, <1>6, <1>7, <1>8, <1>9, <1>10, <1>11, <1>12, <1>13,
     <1>14, <1>15, <1>16, <1>17, <1>18, <1>19, <1>20, <1>21 DEF Begin, Step, Read

-----------------------------------------------------------------------------
(***************************************************************************)
(* The other parts of the invariant.                                       *)
(***************************************************************************)
LEMMA InitInv == Init => IInv
<1> SUFFICES ASSUME Init PROVE IInv
  OBVIOUS
<1>1. TypeOK
  BY InitType
<1>2. \A t \in Tab : task[t] = Idle /\ task[t].pc = "idle"
  BY DEF Init, Idle
<1>3. Serialized
  BY <1>2, ConstantsOK DEF Serialized, Init
<1> QED
  BY <1>1, <1>2, <1>3 DEF IInv, Consistent, Init, Bootstrapping, CommitConsistent,
     RewriteConsistent, Rewriting, EditRecorded

\* The tab that runs a task holds the lock, and no other tab runs one.
LEMMA Exclusive ==
    ASSUME IInv, NEW t \in Tab, task[t] # Idle
    PROVE  lock = t /\ \A u \in Tab : u # t => task[u] = Idle
BY DEF IInv, Consistent, Serialized

\* A task that starts is described by the invariant from the outset.
LEMMA StartConsistent ==
    ASSUME IInv, NEW t \in Tab, NEW job, Acquire(t), Run(t, job),
           job \in CommitTask \cup RewriteTask, job.pc \in {"wal", "files"},
           UNCHANGED disk, isOpen' \in {isOpen, isOpen \cup {t}}, due' = due,
           mcache'[t] = manifest, t \in isOpen' \cup due,
           manifest # None => /\ job.expected \in {None, manifest.head}
                              /\ job.rev >= manifest.head,
           job.pc = "wal" => manifest # None /\ job.rev > manifest.head,
           job.pc = "files" =>
              /\ job.todo = Key
              /\ (job.dirty \/ job.edited = 0) /\ job.edited <= job.rev
              /\ manifest = None => /\ job.rev = 0 /\ job.expected = None
                                    /\ job.target = Empty /\ job.before = Empty
              /\ manifest # None /\ job.rev = manifest.head => job.target = job.before
    PROVE  Consistent'
<1>1. \A u \in Tab : task[u] = Idle
  BY LockFree
<1>2. /\ \A u \in Tab : u # t => task'[u] = Idle
      /\ task'[t] = job /\ lock' = t
  BY <1>1 DEF Run, IInv, TypeOK
<1>3. Idle.pc = "idle" /\ job # Idle
  BY DEF Idle
<1>4. Serialized'
  BY <1>2, <1>3 DEF Serialized
<1>5. CommitConsistent'
  BY <1>2, <1>3 DEF CommitConsistent, disk
<1>6. RewriteConsistent'
  BY <1>2, <1>3 DEF RewriteConsistent, Rewriting, disk
<1>7. Bootstrapping'
  <2>1. manifest = None => isOpen = {} /\ job.pc = "files"
    BY <1>1, <1>3 DEF IInv, Consistent, TypeOK, Bootstrapping, Rewriting
  <2> QED
    BY <2>1, <1>2 DEF IInv, Consistent, TypeOK, Bootstrapping, Rewriting, disk
<1> QED
  BY <1>4, <1>5, <1>6, <1>7 DEF IInv, Consistent, EditRecorded, disk

\* A step that leaves the directory, the lock and the tasks alone disturbs
\* nothing, as long as it does not touch the manifest of a running commit.
LEMMA QuietConsistent ==
    ASSUME IInv, UNCHANGED <<disk, lock, task>>,
           due' \subseteq due, manifest = None => isOpen' \subseteq isOpen,
           \A t \in Tab : task[t] = Idle \/ mcache'[t] = mcache[t] \/ mcache'[t] = manifest
    PROVE  Consistent'
<1>1. \A t \in Tab : task[t].pc \in {"wal", "publish"} => task[t] # Idle
  BY DEF Idle
<1> QED
  BY <1>1 DEF IInv, Consistent, Serialized, Bootstrapping, CommitConsistent,
     RewriteConsistent, EditRecorded, Rewriting, disk

\* A step after which no task runs.
LEMMA EndConsistent ==
    ASSUME IInv, lock' = None, \A u \in Tab : task'[u] = Idle,
           manifest' = None => due' = {} /\ isOpen' = {},
           EditRecorded'
    PROVE  Consistent'
<1>1. Idle.pc = "idle" /\ None \notin Tab
  BY ConstantsOK DEF Idle
<1> QED
  BY <1>1 DEF Consistent, Serialized, Bootstrapping, CommitConsistent,
     RewriteConsistent, Rewriting

\* A rewrite goes on.
LEMMA RewriteStepConsistent ==
    ASSUME IInv, NEW t \in Tab, Rewriting(t), task'[t].pc \in {"files", "drop"},
           UNCHANGED <<manifest, lock, isOpen, due, mcache>>,
           \A u \in Tab : u # t => task'[u] = task[u],
           /\ task'[t].rev = task[t].rev /\ task'[t].expected = task[t].expected
           /\ task'[t].target = task[t].target /\ task'[t].before = task[t].before
           /\ task'[t].dirty = task[t].dirty /\ task'[t].edited = task[t].edited,
           \A k \in Key \ task'[t].todo : base'[k] = task[t].target[k],
           task'[t].pc = "drop" => task'[t].todo = {}
    PROVE  Consistent'
<1>1. task[t] # Idle /\ task'[t] # Idle /\ Idle.pc = "idle"
  BY DEF Rewriting, Idle
<1>2. lock = t /\ \A u \in Tab : u # t => task[u] = Idle
  BY <1>1, Exclusive
<1>3. Serialized' /\ Bootstrapping' /\ EditRecorded'
  BY <1>1, <1>2 DEF IInv, TypeOK, Consistent, Serialized, Bootstrapping, Rewriting,
     EditRecorded
<1>4. CommitConsistent'
  BY <1>1, <1>2 DEF CommitConsistent
<1>5. RewriteConsistent'
  BY <1>1, <1>2 DEF IInv, Consistent, RewriteConsistent, Rewriting
<1> QED
  BY <1>3, <1>4, <1>5 DEF Consistent

\* Every step keeps manifest, caches and tasks consistent.
LEMMA NextConsistent == IInv /\ [Next]_vars => Consistent'
<1> SUFFICES ASSUME IInv, [Next]_vars PROVE Consistent'
  OBVIOUS
<1> TypeOK /\ TypeOK'
  BY NextType DEF IInv
<1>1. CASE UNCHANGED vars
  BY <1>1, QuietConsistent DEF vars, caches
<1> SUFFICES ASSUME NEW t \in Tab, Begin(t) \/ Step(t) \/ Read(t) \/ Fail(t) \/ Crash(t)
             PROVE  Consistent'
  BY <1>1 DEF Next
<1>2. CASE Open(t)
  BY <1>2, QuietConsistent DEF Open, TypeOK
<1>3. CASE Bootstrap(t)
  <2> DEFINE job == Rewrite(0, None, Empty, FALSE, 0, Empty)
  <2>1. job \in RewriteTask
    BY ZeroRev, EmptyType, RewriteType
  <2>2. Acquire(t) /\ Run(t, job) /\ mcache'[t] = manifest
    BY <1>3 DEF Bootstrap, Refresh, FreshHead, TypeOK
  <2>3. /\ job.pc = "files" /\ job.rev = 0 /\ job.todo = Key
        /\ job.edited = 0 /\ job.edited <= job.rev
        /\ job.target = Empty /\ job.before = Empty /\ job.expected = None
    BY DEF Rewrite
  <2> HIDE DEF job
  <2> QED
    BY <1>3, <2>1, <2>2, <2>3, StartConsistent DEF Bootstrap
<1>4. ASSUME NEW d \in Delta, NEW e \in Rev \cup {None}, NEW r \in Rev,
             NEW op \in {"commit", "bare"}, CommitDelta(t, d, e, r, op)
      PROVE  Consistent'
  <2> DEFINE job == task'[t]
  <2>1. manifest \in Manifest /\ t \in isOpen
    BY <1>4, LockFree DEF CommitDelta, Writable
  <2>2. Acquire(t) /\ Run(t, job) /\ mcache'[t] = manifest
    BY <1>4 DEF CommitDelta, Writable, Run, Refresh, FreshHead, TypeOK
  <2>3. job.pc = "wal" /\ job.rev = r /\ job.expected = e
    BY <1>4 DEF CommitDelta, Run, TypeOK
  <2>4. job \in CommitTask
    BY <2>3 DEF TypeOK, Idle, CommitTask, RewriteTask
  <2>5. r > manifest.head /\ r >= manifest.head /\ e \in {None, manifest.head}
    BY <1>4, <2>1, ConstantsOK DEF CommitDelta, Granted, FreshHead, Manifest, Rev
  <2> HIDE DEF job
  <2> QED
    BY <1>4, <2>1, <2>2, <2>3, <2>4, <2>5, StartConsistent, NoneIsNoData DEF CommitDelta
<1>5. ASSUME NEW op, Conflict(t, op) PROVE Consistent'
  BY <1>5, QuietConsistent DEF Conflict, Refresh, FreshHead, TypeOK
<1>6. ASSUME NEW c \in Content, NEW e \in Rev \cup {None}, NEW r \in Rev,
             NEW op \in {"import", "download"}, ImportSnapshot(t, c, e, r, op)
      PROVE  Consistent'
  <2> DEFINE edit == IF op = "download" THEN 0 ELSE r
             job == Rewrite(r, e, c, op # "download", edit, Replay(base, manifest))
  <2>1. manifest \in Manifest /\ t \in isOpen
    BY <1>6, LockFree DEF ImportSnapshot, Writable
  <2>2. job \in RewriteTask
    <3>1. Replay(base, manifest) \in Content
      BY <2>1, ReplayType DEF TypeOK
    <3> QED
      BY <3>1, RewriteType, ZeroRev
  <2>3. Acquire(t) /\ Run(t, job) /\ mcache'[t] = manifest
    BY <1>6 DEF ImportSnapshot, Writable, Refresh, FreshHead, TypeOK
  <2>4. /\ job.pc = "files" /\ job.rev = r /\ job.expected = e /\ job.todo = Key
        /\ job.dirty \/ job.edited = 0
        /\ job.edited \in {0, r}
    BY DEF Rewrite
  <2>7. job.edited <= job.rev
    BY <2>4, ConstantsOK DEF Rev
  <2>5. r > manifest.head /\ e \in {None, manifest.head}
    BY <1>6, <2>1, ConstantsOK DEF ImportSnapshot, Granted, FreshHead, Manifest, Rev
  <2>6. r >= manifest.head /\ r # manifest.head
    BY <2>1, <2>5, ConstantsOK DEF Manifest, Rev
  <2> HIDE DEF job
  <2> QED
    BY <1>6, <2>1, <2>2, <2>3, <2>4, <2>5, <2>6, <2>7, StartConsistent, NoneIsNoData
       DEF ImportSnapshot
<1>7. CASE ClearAll(t)
  <2> DEFINE job == Rewrite(manifest.head + 1, None, Empty, TRUE, manifest.head + 1,
                     Replay(base, manifest))
  <2>1. manifest \in Manifest /\ t \in isOpen
    BY <1>7, LockFree DEF ClearAll, Writable
  <2>2. manifest.head + 1 \in Rev
    BY <1>7 DEF ClearAll, FreshHead
  <2>3. job \in RewriteTask
    <3>1. Replay(base, manifest) \in Content
      BY <2>1, ReplayType DEF TypeOK
    <3> QED
      BY <2>2, <3>1, EmptyType, RewriteType, ZeroRev
  <2>4. Acquire(t) /\ Run(t, job) /\ mcache'[t] = manifest
    BY <1>7 DEF ClearAll, Writable, Refresh, FreshHead, TypeOK
  <2>5. /\ job.pc = "files" /\ job.rev = manifest.head + 1 /\ job.expected = None
        /\ job.todo = Key /\ job.dirty /\ job.edited <= job.rev
    BY <2>2, ConstantsOK DEF Rewrite, Rev
  <2>6. manifest.head + 1 >= manifest.head /\ manifest.head + 1 # manifest.head
    BY <2>1, ConstantsOK DEF Manifest, Rev
  <2> HIDE DEF job
  <2> QED
    BY <1>7, <2>1, <2>3, <2>4, <2>5, <2>6, StartConsistent, NoneIsNoData DEF ClearAll
<1>8. CASE CompactNow(t)
  <2> DEFINE c == Replay(base, manifest)
             job == Rewrite(manifest.head, None, c, manifest.dirty, manifest.edited, c)
  <2>1. manifest \in Manifest /\ t \in due
    BY <1>8, LockFree DEF CompactNow
  <2>2. job \in RewriteTask
    <3>1. Replay(base, manifest) \in Content
      BY <2>1, ReplayType DEF TypeOK
    <3> QED
      BY <2>1, <3>1, RewriteType DEF Manifest
  <2>3. Acquire(t) /\ Run(t, job) /\ mcache'[t] = manifest
    BY <1>8 DEF CompactNow, Refresh, FreshHead, TypeOK
  <2>4. /\ job.pc = "files" /\ job.rev = manifest.head /\ job.expected = None
        /\ job.todo = Key /\ job.target = job.before
        /\ job.dirty = manifest.dirty /\ job.edited = manifest.edited
    BY DEF Rewrite
  <2>5. manifest.head >= manifest.head
    BY <2>1, ConstantsOK DEF Manifest, Rev
  <2>6. (job.dirty \/ job.edited = 0) /\ job.edited <= job.rev
    BY <2>1, <2>4, NoneIsNoData DEF IInv, Consistent, EditRecorded
  <2> HIDE DEF job
  <2> QED
    BY <1>8, <2>1, <2>2, <2>3, <2>4, <2>5, <2>6, StartConsistent, NoneIsNoData
       DEF CompactNow
<1>9. CASE SkipCompaction(t)
  BY <1>9, QuietConsistent DEF SkipCompaction, Refresh, FreshHead, TypeOK
<1>10. ASSUME NEW r \in Rev, PatchMetaIfRevision(t, r) PROVE Consistent'
  <2>1. manifest \in Manifest /\ \A u \in Tab : task'[u] = Idle
    BY <1>10, LockFree DEF PatchMetaIfRevision, Writable
  <2>2. manifest' = Acknowledged(manifest, r) /\ manifest' # None /\ lock' = None
    BY <1>10, <2>1, AcknowledgedType, NoneIsNoData
       DEF PatchMetaIfRevision, Writable, Acquire, FreshHead
  <2>3. /\ manifest'.head = manifest.head
        /\ r # manifest.head => manifest'.dirty
        /\ manifest'.edited = IF manifest.edited <= r THEN 0 ELSE manifest.edited
    BY <2>1, <2>2 DEF Acknowledged, Manifest
  <2>4. manifest.edited <= manifest.head /\ manifest.head \in Nat
    BY <2>1, NoneIsNoData, ConstantsOK DEF IInv, Consistent, EditRecorded, Manifest, Rev
  <2>5. manifest'.edited <= manifest'.head
    BY <2>3, <2>4
  <2>6. manifest'.dirty \/ manifest'.edited = 0
    <3>1. CASE r # manifest.head
      BY <2>3, <3>1
    <3>2. CASE r = manifest.head
      BY <2>3, <2>4, <3>2
    <3> QED
      BY <3>1, <3>2
  <2> QED
    BY <2>1, <2>2, <2>5, <2>6, EndConsistent DEF EditRecorded
<1>11. CASE WriteWal(t)
  <2>1. task[t] \in CommitTask /\ task[t] # Idle
    BY <1>11, TaskCases DEF WriteWal
  <2>2. /\ \A u \in Tab : u # t => task[u] = Idle /\ task'[u] = Idle
        /\ lock = t /\ lock' = t
    BY <1>11, <2>1, Exclusive DEF WriteWal, TypeOK
  <2>3. /\ task'[t].pc = "publish" /\ task'[t].rev = task[t].rev
        /\ task'[t].expected = task[t].expected /\ task'[t].delta = task[t].delta
    BY <1>11, <2>1 DEF WriteWal, TypeOK, CommitTask
  <2>4. wal'[task[t].rev] = task[t].delta
    BY <1>11, <2>1 DEF WriteWal, TypeOK, CommitTask
  <2> QED
    BY <1>11, <2>1, <2>2, <2>3, <2>4 DEF WriteWal, IInv, Consistent, Serialized,
       Bootstrapping, CommitConsistent, RewriteConsistent, Rewriting, EditRecorded,
       caches, Idle
<1>12. CASE PublishCommit(t)
  <2>1. task[t] \in CommitTask /\ task[t] # Idle /\ mcache[t] \in Manifest
    BY <1>12, TaskCases DEF PublishCommit, IInv, Consistent, CommitConsistent, TypeOK
  <2>2. \A u \in Tab : task'[u] = Idle
    BY <1>12, <2>1, Exclusive DEF PublishCommit, Release, TypeOK
  <2>3. manifest' = Committed(mcache[t], task[t].rev) /\ manifest' # None /\ lock' = None
    BY <1>12, <2>1, CommittedType, NoneIsNoData DEF PublishCommit, Release, CommitTask
  <2>4. manifest'.head = task[t].rev /\ manifest'.edited = task[t].rev /\ manifest'.dirty
    BY <2>3 DEF Committed
  <2>5. task[t].rev <= task[t].rev
    BY <2>1, ConstantsOK DEF CommitTask, Rev
  <2>6. EditRecorded'
    BY <2>4, <2>5 DEF EditRecorded
  <2> QED
    BY <2>2, <2>3, <2>6, EndConsistent
<1>13. ASSUME NEW k \in Key, RewriteFile(t, k) PROVE Consistent'
  <2>1. task[t] \in RewriteTask /\ Rewriting(t)
    BY <1>13, TaskCases DEF RewriteFile, Rewriting
  <2>2. task'[t] = [task[t] EXCEPT !.todo = task[t].todo \ {k}]
    BY <1>13 DEF RewriteFile, TypeOK
  <2>3. \A j \in Key \ (task[t].todo \ {k}) : base'[j] = task[t].target[j]
    BY <1>13, <2>1 DEF RewriteFile, TypeOK, Content, IInv, Consistent, RewriteConsistent
  <2> QED
    BY <1>13, <2>1, <2>2, <2>3, RewriteStepConsistent
       DEF RewriteFile, RewriteTask, TypeOK, caches
<1>14. CASE ListWal(t)
  <2>1. task[t] \in RewriteTask /\ Rewriting(t)
    BY <1>14, TaskCases DEF ListWal, Rewriting
  <2>2. task'[t] = [task[t] EXCEPT !.pc = "drop", !.stale = {r \in Rev : wal[r] # None}]
    BY <1>14 DEF ListWal, TypeOK
  <2>3. \A k \in Key \ task[t].todo : base[k] = task[t].target[k]
    BY <2>1 DEF IInv, Consistent, RewriteConsistent
  <2> QED
    BY <1>14, <2>1, <2>2, <2>3, RewriteStepConsistent
       DEF ListWal, RewriteTask, TypeOK, disk, caches
<1>15. ASSUME NEW r \in Rev, NEW deleted \in BOOLEAN, DropWal(t, r, deleted)
       PROVE  Consistent'
  <2>1. task[t] \in RewriteTask /\ Rewriting(t)
    BY <1>15, TaskCases DEF DropWal, Rewriting
  <2>2. task'[t] = [task[t] EXCEPT !.stale = task[t].stale \ {r}]
    BY <1>15 DEF DropWal, TypeOK
  <2>3. /\ \A k \in Key \ task[t].todo : base[k] = task[t].target[k]
        /\ task[t].todo = {}
    BY <1>15, <2>1 DEF DropWal, IInv, Consistent, RewriteConsistent
  <2> QED
    BY <1>15, <2>1, <2>2, <2>3, RewriteStepConsistent
       DEF DropWal, RewriteTask, TypeOK, caches
<1>16. CASE PublishBase(t)
  <2>1. task[t] \in RewriteTask /\ Rewriting(t) /\ task[t] # Idle
    BY <1>16, TaskCases DEF PublishBase, Rewriting
  <2>2. \A u \in Tab : task'[u] = Idle
    BY <1>16, <2>1, Exclusive DEF PublishBase, Release, TypeOK
  <2>3. /\ manifest' = EmptyManifest(task[t].rev, task[t].dirty, task[t].edited)
        /\ manifest' # None /\ lock' = None
    BY <1>16, <2>1, EmptyManifestType, NoneIsNoData DEF PublishBase, Release, RewriteTask
  <2>4. EditRecorded'
    BY <2>1, <2>3 DEF EditRecorded, EmptyManifest, IInv, Consistent, RewriteConsistent
  <2> QED
    BY <2>2, <2>3, <2>4, EndConsistent
<1>17. CASE LoadSnapshot(t)
  BY <1>17, QuietConsistent DEF LoadSnapshot, TypeOK
<1>18. ASSUME NEW k \in Key, ReadFile(t, k) PROVE Consistent'
  BY <1>18, QuietConsistent DEF ReadFile, caches
<1>19. CASE ReadWal(t)
  BY <1>19, QuietConsistent DEF ReadWal
<1>20. CASE Fail(t)
  <2>1. lock' = None /\ \A u \in Tab : task'[u] = Idle
    BY <1>20, Exclusive DEF Fail, Release, TypeOK
  <2>2. manifest = None => due = {} /\ isOpen \subseteq {t}
    <3>1. \A u \in Tab : u # t => ~Rewriting(u)
      BY <1>20, Exclusive DEF Fail, Rewriting, Idle
    <3> QED
      BY <3>1 DEF IInv, TypeOK, Consistent, Bootstrapping
  <2> QED
    BY <1>20, <2>1, <2>2, EndConsistent DEF Fail, disk, Consistent, IInv, EditRecorded
<1>21. CASE Crash(t)
  <2>1. CASE task[t] = Idle
    <3>1. lock # t /\ task' = task
      BY <1>21, <2>1 DEF Crash, IInv, TypeOK, Consistent, Serialized
    <3> QED
      BY <1>21, <2>1, <3>1, QuietConsistent DEF Crash, TypeOK
  <2>2. CASE task[t] # Idle
    <3>1. lock' = None /\ \A u \in Tab : task'[u] = Idle
      BY <1>21, <2>2, Exclusive DEF Crash, TypeOK
    <3>2. manifest = None => due = {} /\ isOpen \subseteq {t}
      <4>1. \A u \in Tab : u # t => ~Rewriting(u)
        BY <2>2, Exclusive DEF Rewriting, Idle
      <4> QED
        BY <4>1 DEF IInv, TypeOK, Consistent, Bootstrapping
    <3> QED
      BY <1>21, <3>1, <3>2, EndConsistent DEF Crash, disk, Consistent, IInv, EditRecorded
  <2> QED
    BY <2>1, <2>2
<1> QED
  BY <1>2, <1>3, <1>4, <1>5, <1>6, <1>7, <1>8, <1>9, <1>10, <1>11, <1>12, <1>13,
     <1>14, <1>15, <1>16, <1>17, <1>18, <1>19, <1>20, <1>21 DEF Begin, Step, Read

\* IInv is an invariant.
LEMMA Invariance == Spec => []IInv
<1>1. Init => IInv
  BY InitInv
<1>2. IInv /\ [Next]_vars => IInv'
  BY NextType, NextConsistent DEF IInv
<1> QED
  BY <1>1, <1>2, PTL DEF Spec

-----------------------------------------------------------------------------
(***************************************************************************)
(* The properties that hold whatever fails.                                *)
(***************************************************************************)
\* Every variable keeps its type.
THEOREM TypeCorrect == Spec => []TypeOK
BY Invariance, PTL DEF IInv

\* patchMetaIfRevision and the writes around it keep the dirty flag exact: a
\* clean store holds no local change that Cloud Sync was not given.
THEOREM CleanCorrect == Spec => []CleanIsSynced
<1>1. IInv => CleanIsSynced
  BY DEF IInv, Consistent, EditRecorded, CleanIsSynced
<1> QED
  BY <1>1, Invariance, PTL

\* A commit or an import that names a base revision replaces exactly that
\* revision, whichever tabs write.
THEOREM CompareAndSetCorrect == Spec => CompareAndSet
<1> DEFINE Cas == \A t \in Tab :
                     (lock = t /\ manifest' # manifest /\ task[t].expected # None)
                     => task[t].expected = manifest.head
<1>1. IInv /\ [Next]_vars => [Cas]_vars
  <2> SUFFICES ASSUME IInv, Next, NEW t \in Tab, lock = t, manifest' # manifest,
                      task[t].expected # None
               PROVE  task[t].expected = manifest.head
    OBVIOUS
  <2>1. task[t] # Idle /\ \A u \in Tab : u # t => task[u] = Idle
    BY Exclusive DEF IInv, Consistent, Serialized
  <2>2. task[t].pc # "idle" /\ Idle.pc = "idle"
    BY <2>1, TaskCases DEF IInv, Idle
  <2>3. PICK u \in Tab : Begin(u) \/ Step(u) \/ Read(u) \/ Fail(u) \/ Crash(u)
    BY DEF Next
  <2>4. ~Acquire(u)
    BY ConstantsOK DEF Acquire
  <2>5. PublishCommit(u) \/ PublishBase(u)
    BY <2>3, <2>4 DEF Begin, Step, Read, Open, Bootstrap, CompactNow, SkipCompaction,
       CommitDelta, Conflict, ImportSnapshot, ClearAll, PatchMetaIfRevision, Writable,
       WriteWal, RewriteFile, ListWal, DropWal, LoadSnapshot, ReadWal, ReadFile,
       Fail, Crash, disk
  <2>6. u = t
    BY <2>1, <2>2, <2>5 DEF PublishCommit, PublishBase
  <2>7. CASE PublishCommit(t)
    BY <2>7 DEF PublishCommit, IInv, Consistent, CommitConsistent
  <2>8. CASE PublishBase(t)
    <3>1. Rewriting(t)
      BY <2>8 DEF PublishBase, Rewriting
    <3> QED
      BY <3>1 DEF IInv, Consistent, RewriteConsistent
  <2> QED
    BY <2>5, <2>6, <2>7, <2>8
<1> QED
  BY <1>1, Invariance, PTL DEF Spec, CompareAndSet

-----------------------------------------------------------------------------
(***************************************************************************)
(* The store loses no graph and implements DurableGraph, as long as         *)
(* revisions are requested in order and no rewrite of the base is cut short.*)
(***************************************************************************)
Faultless == MaxSkip = 0 /\ RewriteFaults = FALSE

\* A running commit takes the revision after the head.
NextRevision ==
    \A t \in Tab : task[t].pc \in {"wal", "publish"} => task[t].rev = manifest.head + 1

\* The WAL is complete, except while a rewrite that has written the whole
\* base deletes it.
LogKept == manifest # None /\ (\A t \in Tab : task[t].pc # "drop") => Loadable(manifest)

-----------------------------------------------------------------------------
(***************************************************************************)
(* The pending WAL across the steps that change it.                        *)
(***************************************************************************)
\* A commit that follows the head adds its own revision to the log.
LEMMA CommittedLog ==
    ASSUME NEW m \in Manifest, NEW r \in Rev, r = m.head + 1
    PROVE  /\ \A q \in PendingLog(m) : q < r
           /\ PendingLog(Committed(m, r)) = PendingLog(m) \cup {r}
<1>1. m.head \in Nat /\ m.pending \in Nat /\ \A q \in Rev : q \in Nat
  BY ConstantsOK DEF Manifest, Rev
<1>2. /\ Committed(m, r).head = r
      /\ Committed(m, r).pending = IF m.pending <= m.head THEN m.pending ELSE r
  BY DEF Committed
<1>3. \A q \in PendingLog(m) : q < r
  BY <1>1 DEF PendingLog
<1>4. ASSUME NEW q \in Rev
      PROVE  q \in PendingLog(Committed(m, r)) <=> q \in PendingLog(m) \/ q = r
  BY <1>1, <1>2 DEF PendingLog
<1> QED
  BY <1>3, <1>4 DEF PendingLog

\* A rewritten base has no pending WAL.
LEMMA EmptyLog ==
    ASSUME NEW r \in Rev, NEW isDirty, NEW s
    PROVE  PendingLog(EmptyManifest(r, isDirty, s)) = {}
<1>1. r \in Nat /\ \A q \in Rev : q \in Nat
  BY ConstantsOK DEF Rev
<1>2. ASSUME NEW q \in Rev PROVE ~(r + 1 <= q /\ q <= r)
  BY <1>1
<1> QED
  BY <1>2 DEF PendingLog, EmptyManifest

\* A published commit overlays the graph with its delta.
LEMMA ReplayCommitted ==
    ASSUME NEW files, NEW m \in Manifest, NEW r \in Rev, r = m.head + 1, wal[r] \in Delta
    PROVE  Replay(files, Committed(m, r)) = Apply(Replay(files, m), wal[r])
<1> DEFINE Old(k) == {q \in PendingLog(m) : wal[q] # None /\ wal[q][k] # Keep}
           New(k) == {q \in PendingLog(Committed(m, r)) : wal[q] # None /\ wal[q][k] # Keep}
<1>1. wal[r] # None
  BY NoneIsNoData
<1>2. ASSUME NEW k \in Key, wal[r][k] = Keep PROVE New(k) = Old(k)
  BY <1>2, CommittedLog
<1>3. ASSUME NEW k \in Key, wal[r][k] # Keep PROVE New(k) # {} /\ Latest(New(k)) = r
  <2>1. r \in New(k) /\ \A q \in New(k) : q <= r
    <3>1. r <= r /\ \A q \in PendingLog(m) : q <= r
      BY CommittedLog, ConstantsOK DEF Rev, PendingLog
    <3> QED
      BY <1>1, <1>3, <3>1, CommittedLog
  <2>2. New(k) \subseteq Nat
    BY ConstantsOK DEF PendingLog, Rev
  <2>3. \A p \in New(k) : (\A q \in New(k) : q <= p) => p = r
    BY <2>1, <2>2
  <2> QED
    BY <2>1, <2>3 DEF Latest
<1>4. ASSUME NEW k \in Key
      PROVE  Replay(files, Committed(m, r))[k] = Apply(Replay(files, m), wal[r])[k]
  <2>1. Replay(files, Committed(m, r))[k]
            = IF New(k) = {} THEN files[k] ELSE wal[Latest(New(k))][k]
    BY DEF Replay
  <2>2. Replay(files, m)[k] = IF Old(k) = {} THEN files[k] ELSE wal[Latest(Old(k))][k]
    BY DEF Replay
  <2>3. Apply(Replay(files, m), wal[r])[k]
            = IF wal[r][k] = Keep THEN Replay(files, m)[k] ELSE wal[r][k]
    BY DEF Apply
  <2> HIDE DEF Old, New
  <2> QED
    BY <1>2, <1>3, <2>1, <2>2, <2>3
<1> HIDE DEF Old, New
<1> QED
  BY <1>4 DEF Replay, Apply

-----------------------------------------------------------------------------
\* Whatever fails or crashes, the WAL stays complete.
LEMMA NextLog ==
    Faultless /\ IInv /\ IInv' /\ NextRevision /\ LogKept /\ [Next]_vars
        => NextRevision' /\ LogKept'
<1> SUFFICES ASSUME Faultless, IInv, IInv', NextRevision, LogKept, [Next]_vars
             PROVE  NextRevision' /\ LogKept'
  OBVIOUS
<1> TypeOK /\ TypeOK' /\ Idle.pc = "idle"
  BY DEF IInv, Idle
<1>1. CASE UNCHANGED <<wal, manifest, task>>
  BY <1>1 DEF NextRevision, LogKept, Loadable, PendingLog
<1>2. CASE UNCHANGED vars
  BY <1>1, <1>2 DEF vars, disk
<1> SUFFICES ASSUME NEW t \in Tab, Begin(t) \/ Step(t) \/ Read(t) \/ Fail(t) \/ Crash(t)
             PROVE  NextRevision' /\ LogKept'
  BY <1>2 DEF Next
\* A task that starts finds the lock free and a store that loads.
<1>3. ASSUME Acquire(t), UNCHANGED disk, \A u \in Tab : u # t => task'[u] = task[u],
             \/ task'[t].pc = "files"
             \/ task'[t].pc = "wal" /\ task'[t].rev = manifest.head + 1
      PROVE  NextRevision' /\ LogKept'
  <2>1. \A u \in Tab : task[u] = Idle
    BY <1>3, LockFree
  <2> QED
    BY <1>3, <2>1 DEF NextRevision, LogKept, Loadable, PendingLog, disk
<1>4. CASE Open(t) \/ (\E op : Conflict(t, op)) \/ SkipCompaction(t) \/ Read(t)
  BY <1>1, <1>4 DEF Open, Conflict, SkipCompaction, Read, LoadSnapshot, ReadWal,
     ReadFile, disk
<1>5. CASE Bootstrap(t)
  BY <1>3, <1>5 DEF Bootstrap, Run, Rewrite, TypeOK
<1>6. ASSUME NEW d \in Delta, NEW e \in Rev \cup {None}, NEW r \in Rev,
             NEW op \in {"commit", "bare"}, CommitDelta(t, d, e, r, op)
      PROVE  NextRevision' /\ LogKept'
  <2>1. manifest \in Manifest
    BY <1>6, LockFree DEF CommitDelta, Writable
  <2>2. r = manifest.head + 1
    BY <1>6, <2>1, ConstantsOK DEF CommitDelta, Granted, FreshHead, Manifest, Rev, Faultless
  <2> QED
    BY <1>3, <1>6, <2>2 DEF CommitDelta, Writable, Run, TypeOK
<1>7. ASSUME NEW c, NEW e, NEW r, NEW op, ImportSnapshot(t, c, e, r, op)
      PROVE  NextRevision' /\ LogKept'
  BY <1>3, <1>7 DEF ImportSnapshot, Writable, Run, Rewrite, TypeOK
<1>8. CASE ClearAll(t)
  BY <1>3, <1>8 DEF ClearAll, Writable, Run, Rewrite, TypeOK
<1>9. CASE CompactNow(t)
  BY <1>3, <1>9 DEF CompactNow, Run, Rewrite, TypeOK
<1>10. ASSUME NEW r \in Rev, PatchMetaIfRevision(t, r) PROVE NextRevision' /\ LogKept'
  <2>1. manifest \in Manifest /\ \A u \in Tab : task[u] = Idle
    BY <1>10, LockFree DEF PatchMetaIfRevision, Writable
  <2>2. manifest' = Acknowledged(manifest, r) /\ wal' = wal /\ task' = task
    BY <1>10 DEF PatchMetaIfRevision, FreshHead
  <2>3. Loadable(manifest)
    BY <2>1, NoneIsNoData DEF LogKept
  <2>4. Loadable(manifest)'
    BY <2>1, <2>2, <2>3 DEF Loadable, PendingLog, Acknowledged, Manifest
  <2> QED
    BY <2>1, <2>2, <2>4 DEF NextRevision, LogKept
<1>11. CASE WriteWal(t)
  <2>1. task[t] \in CommitTask
    BY <1>11, TaskCases DEF WriteWal
  <2>2. /\ wal' = [wal EXCEPT ![task[t].rev] = task[t].delta] /\ task[t].delta # None
        /\ manifest' = manifest
    BY <1>11, <2>1, NoneIsNoData DEF WriteWal, CommitTask
  <2>3. /\ task'[t].pc = "publish" /\ task'[t].rev = task[t].rev
        /\ \A u \in Tab : u # t => task'[u] = task[u]
    BY <1>11, <2>1 DEF WriteWal, TypeOK, CommitTask
  <2>4. NextRevision'
    BY <1>11, <2>2, <2>3 DEF NextRevision, WriteWal
  <2>5. Loadable(manifest) => Loadable(manifest)'
    BY <2>2 DEF Loadable, PendingLog, TypeOK
  <2> QED
    BY <1>11, <2>2, <2>3, <2>4, <2>5 DEF LogKept, WriteWal
<1>12. CASE PublishCommit(t)
  <2> DEFINE r == task[t].rev
  <2>1. task[t] \in CommitTask /\ task[t] # Idle /\ task[t].pc = "publish"
    BY <1>12, TaskCases DEF PublishCommit
  <2>2. /\ manifest \in Manifest /\ mcache[t] = manifest /\ wal[r] = task[t].delta
        /\ r = manifest.head + 1 /\ r \in Rev /\ task[t].delta \in Delta
    BY <2>1 DEF IInv, Consistent, CommitConsistent, TypeOK, NextRevision, CommitTask
  <2>3. \A u \in Tab : task'[u] = Idle /\ task[u].pc # "drop"
    BY <1>12, <2>1, Exclusive DEF PublishCommit, Release, TypeOK
  <2>4. manifest' = Committed(manifest, r) /\ wal' = wal
    BY <1>12, <2>2 DEF PublishCommit
  <2>5. Loadable(manifest) /\ wal[r] # None
    BY <2>2, <2>3, NoneIsNoData DEF LogKept
  <2>6. \A q \in PendingLog(Committed(manifest, r)) : wal[q] # None
    BY <2>2, <2>5, CommittedLog DEF Loadable
  <2>7. Loadable(manifest)'
    BY <2>4, <2>6 DEF Loadable, PendingLog
  <2> QED
    BY <2>3, <2>7 DEF NextRevision, LogKept
<1>13. ASSUME NEW k \in Key, RewriteFile(t, k) PROVE NextRevision' /\ LogKept'
  <2>1. task[t] \in RewriteTask
    BY <1>13, TaskCases DEF RewriteFile, Rewriting
  <2>2. task'[t].pc = "files" /\ \A u \in Tab : u # t => task'[u] = task[u]
    BY <1>13, <2>1 DEF RewriteFile, TypeOK, RewriteTask
  <2> QED
    BY <1>13, <2>2 DEF RewriteFile, NextRevision, LogKept, Loadable, PendingLog
<1>14. ASSUME ListWal(t) \/ \E r \in Rev, deleted \in BOOLEAN : DropWal(t, r, deleted)
       PROVE  NextRevision' /\ LogKept'
  <2>1. task[t] \in RewriteTask
    BY <1>14, TaskCases DEF ListWal, DropWal, Rewriting
  <2>2. /\ task'[t].pc = "drop" /\ \A u \in Tab : u # t => task'[u] = task[u]
        /\ manifest' = manifest
    BY <1>14, <2>1 DEF ListWal, DropWal, TypeOK, RewriteTask, disk
  <2> QED
    BY <2>2 DEF NextRevision, LogKept
<1>15. CASE PublishBase(t)
  <2>1. task[t] \in RewriteTask /\ task[t] # Idle
    BY <1>15, TaskCases DEF PublishBase, Rewriting
  <2>2. \A u \in Tab : task'[u] = Idle
    BY <1>15, <2>1, Exclusive DEF PublishBase, Release, TypeOK
  <2>3. manifest' = EmptyManifest(task[t].rev, task[t].dirty, task[t].edited) /\ wal' = wal
    BY <1>15 DEF PublishBase
  <2>4. PendingLog(manifest)' = {}
    BY <2>1, <2>3, EmptyLog DEF RewriteTask, PendingLog
  <2> QED
    BY <2>2, <2>4 DEF NextRevision, LogKept, Loadable
<1>16. CASE Fail(t) \/ Crash(t)
  <2>1. \A u \in Tab : task'[u] = task[u] \/ task'[u] = Idle
    BY <1>16 DEF Fail, Crash, Release, TypeOK
  <2>2. manifest # None /\ task[t].pc = "drop" => FALSE
    BY <1>16 DEF Fail, Crash, Interruptible, Rewriting, Faultless
  <2>3. \A u \in Tab : u # t => task'[u] = task[u]
    BY <1>16 DEF Fail, Crash, Release, TypeOK
  <2> QED
    BY <1>16, <2>1, <2>2, <2>3 DEF Fail, Crash, disk, NextRevision, LogKept, Loadable,
       PendingLog
<1> QED
  BY <1>4, <1>5, <1>6, <1>7, <1>8, <1>9, <1>10, <1>11, <1>12, <1>13, <1>14, <1>15, <1>16
     DEF Begin, Step

\* The directory loads whenever no write runs: the checks of _readWalRecords
\* never throw.
THEOREM RecoverableCorrect == ASSUME Faultless PROVE Spec => []Recoverable
<1>1. Init => NextRevision /\ LogKept
  BY DEF Init, NextRevision, LogKept, Idle
<1>2. IInv /\ LogKept => Recoverable
  <2> SUFFICES ASSUME IInv, LogKept, lock = None, manifest # None PROVE Loadable(manifest)
    BY DEF Recoverable
  <2>1. \A t \in Tab : task[t] = Idle
    BY ConstantsOK DEF IInv, Consistent, Serialized
  <2> QED
    BY <2>1 DEF LogKept, Idle
<1>3. IInv /\ IInv' /\ NextRevision /\ LogKept /\ [Next]_vars => NextRevision' /\ LogKept'
  BY NextLog
<1> QED
  BY <1>1, <1>2, <1>3, Invariance, PTL DEF Spec

-----------------------------------------------------------------------------
(***************************************************************************)
(* What the steps of a running task do to the store.                       *)
(***************************************************************************)
\* Replay, for any WAL files.
Overlaid(w, files, m) ==
    [k \in Key |->
        LET touching == {r \in PendingLog(m) : w[r] # None /\ w[r][k] # Keep}
        IN  IF touching = {} THEN files[k] ELSE w[Latest(touching)][k]]

\* Replay is what the WAL files on disk make of the base.
LEMMA ReplayOverlaid ==
    ASSUME NEW files, NEW m
    PROVE  Replay(files, m) = Overlaid(wal, files, m)
BY DEF Replay, Overlaid

\* Only the pending WAL files matter.
LEMMA OverlaidSame ==
    ASSUME NEW w, NEW v, NEW files, NEW m, \A r \in PendingLog(m) : v[r] = w[r]
    PROVE  Overlaid(v, files, m) = Overlaid(w, files, m)
<1> DEFINE Old(k) == {q \in PendingLog(m) : w[q] # None /\ w[q][k] # Keep}
           New(k) == {q \in PendingLog(m) : v[q] # None /\ v[q][k] # Keep}
<1>1. \A k \in Key : New(k) = Old(k)
  OBVIOUS
<1>2. \A k \in Key : Old(k) # {} => Latest(Old(k)) \in PendingLog(m)
  <2> SUFFICES ASSUME NEW k \in Key, Old(k) # {} PROVE Latest(Old(k)) \in Old(k)
    OBVIOUS
  <2>1. Old(k) \subseteq Rev
    BY DEF PendingLog
  <2> HIDE DEF Old
  <2> QED
    BY <2>1, LatestExists
<1>3. Overlaid(v, files, m)
         = [k \in Key |-> IF New(k) = {} THEN files[k] ELSE v[Latest(New(k))][k]]
  BY DEF Overlaid
<1>4. Overlaid(w, files, m)
         = [k \in Key |-> IF Old(k) = {} THEN files[k] ELSE w[Latest(Old(k))][k]]
  BY DEF Overlaid
<1> HIDE DEF Old, New
<1> QED
  BY <1>1, <1>2, <1>3, <1>4

\* Outside a rewrite of the base the store owes what is on disk.
LEMMA OwedOnDisk ==
    ASSUME manifest # None, lock # None => ~Rewriting(lock)
    PROVE  Owed = Replay(base, manifest)
BY DEF Owed

\* A WAL file is written past the head, where the graph does not show it.
LEMMA WalWritten ==
    ASSUME IInv, IInv', NextRevision, NEW t \in Tab, WriteWal(t)
    PROVE  /\ manifest # None /\ UNCHANGED <<base, manifest, caches, reading>>
           /\ \A r \in Rev : r <= manifest.head => wal'[r] = wal[r]
           /\ \A u \in Tab : ~Rewriting(u) /\ ~Rewriting(u)'
           /\ Owed' = Owed
           /\ task[t].pc = "wal" /\ task'[t] = [task[t] EXCEPT !.pc = "publish"]
           /\ \A u \in Tab : u # t => task[u] = Idle /\ task'[u] = Idle
<1> TypeOK /\ TypeOK' /\ Idle.pc = "idle"
  BY DEF IInv, Idle
<1>1. /\ task[t] \in CommitTask /\ task[t] # Idle /\ task[t].pc = "wal"
      /\ task'[t] = [task[t] EXCEPT !.pc = "publish"]
  BY TaskCases DEF WriteWal, TypeOK
<1>2. /\ manifest \in Manifest /\ manifest # None /\ manifest.head \in Nat
      /\ task[t].rev = manifest.head + 1
  BY <1>1, ConstantsOK DEF IInv, Consistent, CommitConsistent, NextRevision, TypeOK,
     Manifest, Rev
<1>3. lock = t /\ \A u \in Tab : u # t => task[u] = Idle /\ task'[u] = Idle
  BY <1>1, Exclusive DEF WriteWal, TypeOK
<1>4. task'[t].pc = "publish"
  BY <1>1 DEF CommitTask
<1>5. \A u \in Tab : ~Rewriting(u) /\ ~Rewriting(u)'
  BY <1>1, <1>3, <1>4 DEF Rewriting
<1>6. UNCHANGED <<base, manifest, caches, reading, lock>>
  BY DEF WriteWal
<1>7. \A r \in Rev : r <= manifest.head => wal'[r] = wal[r]
  <2> SUFFICES ASSUME NEW r \in Rev, r <= manifest.head PROVE r # task[t].rev
    BY DEF WriteWal, TypeOK
  <2>1. r \in Nat
    BY ConstantsOK DEF Rev
  <2> QED
    BY <1>2, <2>1
<1>8. Owed' = Owed
  <2>1. Owed = Replay(base, manifest) /\ Owed' = Replay(base, manifest)'
    BY <1>2, <1>3, <1>5, <1>6 DEF Owed
  <2>2. Replay(base, manifest) = Overlaid(wal, base, manifest)
    BY ReplayOverlaid
  <2>3. Replay(base, manifest)' = Overlaid(wal', base, manifest)
    BY <1>6, ReplayOverlaid DEF Replay, Overlaid
  <2>4. \A r \in PendingLog(manifest) : wal'[r] = wal[r]
    BY <1>7 DEF PendingLog
  <2> QED
    BY <2>1, <2>2, <2>3, <2>4, OverlaidSame
<1> QED
  BY <1>1, <1>2, <1>3, <1>5, <1>6, <1>7, <1>8

\* The published commit overlays the graph with its delta.
LEMMA CommitPublished ==
    ASSUME IInv, IInv', NextRevision, NEW t \in Tab, PublishCommit(t)
    PROVE  /\ manifest \in Manifest /\ manifest # None
           /\ manifest' = Committed(manifest, manifest.head + 1)
           /\ manifest' \in Manifest /\ manifest' # None
           /\ UNCHANGED <<base, wal, reading>>
           /\ \A u \in Tab : task'[u] = Idle /\ ~Rewriting(u) /\ ~Rewriting(u)'
           /\ Owed' = Apply(Owed, task[t].delta)
           /\ task[t].pc = "publish" /\ task[t].rev = manifest.head + 1
<1> TypeOK /\ TypeOK' /\ Idle.pc = "idle" /\ None \notin Tab
  BY ConstantsOK DEF IInv, Idle
<1> DEFINE r == task[t].rev
<1>1. task[t] \in CommitTask /\ task[t] # Idle /\ task[t].pc = "publish"
  BY TaskCases DEF PublishCommit
<1>2. /\ manifest \in Manifest /\ manifest # None /\ mcache[t] = manifest
      /\ wal[r] = task[t].delta /\ task[t].delta \in Delta /\ r \in Rev
      /\ r = manifest.head + 1
  BY <1>1 DEF IInv, Consistent, CommitConsistent, TypeOK, NextRevision, CommitTask
<1>3. lock = t /\ ~Rewriting(t) /\ \A u \in Tab : u # t => task[u] = Idle
  BY <1>1, Exclusive DEF Rewriting
<1>4. /\ manifest' = Committed(manifest, r) /\ UNCHANGED <<base, wal, reading>>
      /\ lock' = None /\ \A u \in Tab : task'[u] = Idle
  BY <1>2, <1>3 DEF PublishCommit, Release, TypeOK
<1>5. manifest' \in Manifest /\ manifest' # None
  BY <1>2, <1>4, CommittedType, NoneIsNoData
<1>6. Owed = Replay(base, manifest)
  BY <1>2, <1>3, OwedOnDisk
<1>7. Owed' = Apply(Owed, task[t].delta)
  <2>1. Owed' = Replay(base, manifest)'
    BY <1>4, <1>5 DEF Owed
  <2>2. Replay(base, manifest)' = Replay(base, Committed(manifest, r))
    BY <1>4 DEF Replay, PendingLog
  <2> QED
    BY <1>2, <1>6, <2>1, <2>2, ReplayCommitted
<1>8. \A u \in Tab : ~Rewriting(u) /\ ~Rewriting(u)'
  BY <1>3, <1>4 DEF Rewriting
<1> QED
  BY <1>1, <1>2, <1>4, <1>5, <1>7, <1>8

\* The published base is the graph.
LEMMA BasePublished ==
    ASSUME IInv, IInv', NEW t \in Tab, PublishBase(t)
    PROVE  /\ Rewriting(t) /\ task[t] \in RewriteTask /\ task[t] # Idle
           /\ manifest' = EmptyManifest(task[t].rev, task[t].dirty, task[t].edited)
           /\ manifest' \in Manifest /\ manifest' # None
           /\ UNCHANGED <<base, wal, reading>> /\ lock = t
           /\ \A u \in Tab : u # t => task[u] = Idle
           /\ \A u \in Tab : task'[u] = Idle /\ ~Rewriting(u)'
           /\ Owed' = task[t].target /\ base = task[t].target
           /\ PendingLog(manifest') = {}
<1> TypeOK /\ TypeOK' /\ Idle.pc = "idle" /\ None \notin Tab
  BY ConstantsOK DEF IInv, Idle
<1>1. task[t] \in RewriteTask /\ Rewriting(t) /\ task[t] # Idle /\ task[t].pc = "drop"
  BY TaskCases DEF PublishBase, Rewriting
<1>2. lock = t /\ \A u \in Tab : u # t => task[u] = Idle
  BY <1>1, Exclusive
<1>3. /\ manifest' = EmptyManifest(task[t].rev, task[t].dirty, task[t].edited)
      /\ UNCHANGED <<base, wal, reading>> /\ lock' = None
      /\ \A u \in Tab : task'[u] = Idle
  BY <1>2 DEF PublishBase, Release, TypeOK
<1>4. manifest' \in Manifest /\ manifest' # None
  BY <1>1, <1>3, EmptyManifestType, NoneIsNoData DEF RewriteTask
<1>5. base = task[t].target
  <2>1. base \in Content /\ task[t].target \in Content
    BY <1>1 DEF TypeOK, RewriteTask
  <2>2. \A k \in Key : base[k] = task[t].target[k]
    BY <1>1 DEF IInv, Consistent, RewriteConsistent
  <2> QED
    BY <2>1, <2>2 DEF Content
<1>6. PendingLog(manifest') = {}
  BY <1>1, <1>3, EmptyLog DEF RewriteTask
<1>7. Owed' = task[t].target
  <2>1. Owed' = Replay(base, manifest)'
    BY <1>3, <1>4 DEF Owed
  <2>2. Replay(base, manifest)' = base
    BY <1>3, <1>6 DEF Replay, TypeOK, Content, PendingLog
  <2> QED
    BY <1>5, <2>1, <2>2
<1>8. \A u \in Tab : ~Rewriting(u)'
  BY <1>3 DEF Rewriting
<1> QED
  BY <1>1, <1>2, <1>3, <1>4, <1>5, <1>6, <1>7, <1>8

\* A rewrite that goes on keeps what is owed.
LEMMA RewriteGoesOn ==
    ASSUME IInv, IInv', NEW t \in Tab,
           \/ ListWal(t)
           \/ \E k \in Key : RewriteFile(t, k)
           \/ \E r \in Rev, deleted \in BOOLEAN : DropWal(t, r, deleted)
    PROVE  /\ Rewriting(t) /\ Rewriting(t)' /\ lock = t
           /\ UNCHANGED <<manifest, lock, caches, reading>>
           /\ \A u \in Tab : u # t => task[u] = Idle /\ task'[u] = Idle
           /\ task'[t].rev = task[t].rev /\ task'[t].target = task[t].target
           /\ task'[t].before = task[t].before
           /\ Owed' = Owed
           /\ \A k \in Key : base'[k] = base[k] \/ base'[k] = task[t].target[k]
           /\ \A r \in Rev : wal'[r] = wal[r] \/ wal'[r] = None
<1> TypeOK /\ TypeOK' /\ Idle.pc = "idle" /\ None \notin Tab
  BY ConstantsOK DEF IInv, Idle
<1>1. task[t] \in RewriteTask /\ Rewriting(t) /\ task[t] # Idle
  BY TaskCases DEF ListWal, RewriteFile, DropWal, Rewriting
<1>2. /\ task'[t].pc \in {"files", "drop"}
      /\ task'[t].rev = task[t].rev /\ task'[t].target = task[t].target
      /\ task'[t].before = task[t].before
      /\ UNCHANGED <<manifest, lock, caches, reading>>
      /\ \A u \in Tab : u # t => task'[u] = task[u]
  <2>1. /\ task'[t].pc \in {"files", "drop"}
        /\ task'[t].rev = task[t].rev /\ task'[t].target = task[t].target
        /\ task'[t].before = task[t].before
    <3>1. CASE ListWal(t)
      <4>1. task'[t] = [task[t] EXCEPT !.pc = "drop", !.stale = {r \in Rev : wal[r] # None}]
        BY <3>1 DEF ListWal, TypeOK
      <4> QED
        BY <1>1, <4>1 DEF RewriteTask
    <3>2. ASSUME NEW k \in Key, RewriteFile(t, k)
          PROVE  task'[t] = [task[t] EXCEPT !.todo = task[t].todo \ {k}]
      BY <3>2 DEF RewriteFile, TypeOK
    <3>3. ASSUME NEW r \in Rev, NEW deleted \in BOOLEAN, DropWal(t, r, deleted)
          PROVE  task'[t] = [task[t] EXCEPT !.stale = task[t].stale \ {r}]
      BY <3>3 DEF DropWal, TypeOK
    <3> QED
      BY <1>1, <3>1, <3>2, <3>3 DEF RewriteTask
  <2>2. /\ UNCHANGED <<manifest, lock, caches, reading>>
        /\ \A u \in Tab : u # t => task'[u] = task[u]
    BY DEF ListWal, RewriteFile, DropWal, TypeOK, disk, caches
  <2> QED
    BY <2>1, <2>2
<1>3. lock = t /\ \A u \in Tab : u # t => task[u] = Idle /\ task'[u] = Idle
  BY <1>1, <1>2, Exclusive
<1>4. Owed' = Owed
  <2>1. /\ manifest' = manifest /\ lock' = lock /\ task'[t].before = task[t].before
        /\ task'[t].pc \in {"files", "drop"}
    BY <1>2
  <2> QED
    BY <1>1, <1>3, <2>1 DEF Owed, Rewriting
<1>5. \A k \in Key : base'[k] = base[k] \/ base'[k] = task[t].target[k]
  BY DEF ListWal, RewriteFile, DropWal, TypeOK, Content, disk
<1>6. \A r \in Rev : wal'[r] = wal[r] \/ wal'[r] = None
  BY DEF ListWal, RewriteFile, DropWal, TypeOK, disk
<1> QED
  BY <1>1, <1>2, <1>3, <1>4, <1>5, <1>6 DEF Rewriting

\* A task that fails leaves the files as they are; only the first rewrite of a
\* directory is cut short.
LEMMA TaskStopped ==
    ASSUME IInv, IInv', Faultless, NEW t \in Tab, Fail(t) \/ Crash(t), task[t] # Idle
    PROVE  /\ UNCHANGED disk
           /\ \A u \in Tab : task'[u] = Idle /\ ~Rewriting(u)'
           /\ manifest # None => (Owed' = Owed /\ \A u \in Tab : ~Rewriting(u))
<1> TypeOK /\ TypeOK' /\ Idle.pc = "idle" /\ None \notin Tab
  BY ConstantsOK DEF IInv, Idle
<1>1. lock = t /\ \A u \in Tab : u # t => task[u] = Idle
  BY Exclusive
<1>2. UNCHANGED disk /\ lock' = None /\ \A u \in Tab : task'[u] = Idle
  BY <1>1 DEF Fail, Crash, Release, TypeOK
<1>3. manifest # None => ~Rewriting(t)
  BY DEF Fail, Crash, Interruptible, Faultless
<1>4. manifest # None => Owed' = Owed
  BY <1>1, <1>2, <1>3 DEF Owed, Replay, PendingLog, disk
<1> QED
  BY <1>1, <1>2, <1>3, <1>4 DEF Rewriting

-----------------------------------------------------------------------------
(***************************************************************************)
(* The refinement of DurableGraph.                                         *)
(***************************************************************************)
\* A tab that runs no task asks for nothing.
LEMMA AskedIdle == ASSUME NEW t \in Tab, task[t] = Idle PROVE Asked(t) = None
BY DEF Asked, Idle, Rewriting

\* While one tab runs a task, only its request can change.
LEMMA OnlyRequest ==
    ASSUME NEW t \in Tab, \A u \in Tab : u # t => task[u] = Idle /\ task'[u] = Idle
    PROVE  Requests' = [Requests EXCEPT ![t] = Asked(t)']
<1>1. \A u \in Tab : u # t => Asked(u) = None /\ Asked(u)' = None
  BY DEF Asked, Idle, Rewriting
<1> QED
  BY <1>1 DEF Requests

\* A request, and what it does to a graph, is the same in both modules.
LEMMA AbstractOperators ==
    /\ Durable!Delta = Delta /\ Durable!Content = Content /\ Durable!Empty = Empty
    /\ \A d \in Delta : [op |-> "commit", delta |-> d] \in Durable!Request
    /\ \A c \in Content : [op |-> "replace", graph |-> c] \in Durable!Request
    /\ \A c, d : Durable!Apply(c, d) = Apply(c, d)
<1>1. /\ Durable!Delta = Delta /\ Durable!Content = Content /\ Durable!Empty = Empty
      /\ \A c, d : Durable!Apply(c, d) = Apply(c, d)
  BY DEF Durable!Delta, Delta, Durable!Content, Content, Durable!Empty, Empty,
     Durable!Apply, Apply, Durable!Entry, Entry
<1> QED
  BY <1>1 DEF Durable!Request

\* Every step of the store is a step of the abstract one, or stutters.
LEMMA Simulation ==
    ASSUME Faultless, IInv, IInv', NextRevision, [Next]_vars
    PROVE  Durable!Next \/ UNCHANGED <<Owed, Revision, Requests>>
<1> TypeOK /\ TypeOK' /\ Idle.pc = "idle" /\ None \notin Tab
  BY ConstantsOK DEF IInv, Idle
<1> DEFINE Stutter == UNCHANGED <<Owed, Revision, Requests>>
\* A step that leaves the directory, the lock and the tasks alone is not seen.
<1>1. ASSUME UNCHANGED <<disk, lock, task>> PROVE Stutter
  BY <1>1 DEF Owed, Revision, Requests, Asked, Compacting, Rewriting, Replay,
     PendingLog, disk
<1>2. CASE UNCHANGED vars
  BY <1>1, <1>2 DEF vars
<1> SUFFICES ASSUME NEW t \in Tab, Begin(t) \/ Step(t) \/ Read(t) \/ Fail(t) \/ Crash(t)
             PROVE  Durable!Next \/ Stutter
  BY <1>2 DEF Next
<1> HIDE DEF Stutter
<1>3. CASE Open(t) \/ (\E op : Conflict(t, op)) \/ SkipCompaction(t) \/ Read(t)
  BY <1>1, <1>3 DEF Open, Conflict, SkipCompaction, Read, LoadSnapshot, ReadWal,
     ReadFile, disk
\* A task that starts and keeps the graph is an Ask, or not seen.
<1>4. ASSUME Acquire(t), task' = [task EXCEPT ![t] = task'[t]], lock' = t, UNCHANGED disk,
             Owed' = Owed, Asked(t)' \in Durable!Request \cup {None}
      PROVE  Durable!Next \/ Stutter
  <2>1. \A u \in Tab : task[u] = Idle
    BY <1>4, LockFree
  <2>2. \A u \in Tab : u # t => task'[u] = Idle
    BY <1>4, <2>1 DEF TypeOK
  <2>3. Requests' = [Requests EXCEPT ![t] = Asked(t)'] /\ Requests[t] = None
    BY <2>1, <2>2, OnlyRequest, AskedIdle DEF Requests
  <2>4. Revision' = Revision
    BY <1>4 DEF Revision, disk
  <2>5. CASE Asked(t)' \in Durable!Request
    <3>1. Durable!Ask(t, Asked(t)')
      BY <1>4, <2>3, <2>4 DEF Durable!Ask
    <3> QED
      BY <2>5, <3>1 DEF Durable!Next
  <2>6. CASE Asked(t)' = None
    <3>1. Requests' = Requests
      BY <2>3, <2>6 DEF Requests
    <3> QED
      BY <1>4, <2>4, <3>1 DEF Stutter
  <2> QED
    BY <1>4, <2>5, <2>6
<1>5. CASE Bootstrap(t)
  <2>1. /\ manifest = None /\ Acquire(t) /\ lock' = t /\ UNCHANGED disk
        /\ task' = [task EXCEPT ![t] = task'[t]]
    BY <1>5 DEF Bootstrap, Run, TypeOK
  <2>2. Asked(t)' = None
    BY <1>5, <2>1 DEF Asked, Bootstrap, Run, Rewrite, TypeOK, Rewriting, disk
  <2>3. Owed' = Owed
    BY <2>1 DEF Owed, disk
  <2> QED
    BY <1>4, <2>1, <2>2, <2>3
<1>6. ASSUME NEW d \in Delta, NEW e \in Rev \cup {None}, NEW r \in Rev,
             NEW op \in {"commit", "bare"}, CommitDelta(t, d, e, r, op)
      PROVE  Durable!Next \/ Stutter
  <2>1. /\ manifest \in Manifest /\ manifest # None /\ Acquire(t) /\ lock' = t
        /\ UNCHANGED disk /\ task' = [task EXCEPT ![t] = task'[t]]
    BY <1>6, LockFree, NoneIsNoData DEF CommitDelta, Writable, Run, TypeOK
  <2>2. task'[t].pc = "wal" /\ task'[t].delta = d
    BY <1>6 DEF CommitDelta, Run, TypeOK
  <2>3. Asked(t)' \in Durable!Request
    BY <2>2, AbstractOperators DEF Asked
  <2>4. Owed' = Replay(base, manifest) /\ Owed = Replay(base, manifest)
    BY <2>1, <2>2 DEF Owed, Replay, PendingLog, disk, Acquire, Rewriting
  <2> QED
    BY <1>4, <2>1, <2>3, <2>4
\* So is a rewrite of the base that starts from the graph on disk.
<1>7. ASSUME NEW target \in Content, manifest \in Manifest, Acquire(t), lock' = t,
             task' = [task EXCEPT ![t] = task'[t]], UNCHANGED disk,
             task'[t].pc = "files", task'[t].target = target,
             task'[t].before = Replay(base, manifest)
      PROVE  Durable!Next \/ Stutter
  <2>1. manifest # None
    BY <1>7, NoneIsNoData
  <2>2. Asked(t)' \in Durable!Request \cup {None}
    BY <1>7, AbstractOperators DEF Asked
  <2>3. Owed' = Replay(base, manifest) /\ Owed = Replay(base, manifest)
    BY <1>7, <2>1 DEF Owed, Acquire, Rewriting, disk
  <2> QED
    BY <1>4, <1>7, <2>2, <2>3
<1>8. ASSUME NEW c \in Content, NEW e, NEW r, NEW op, ImportSnapshot(t, c, e, r, op)
      PROVE  Durable!Next \/ Stutter
  <2>1. manifest \in Manifest
    BY <1>8, LockFree DEF ImportSnapshot, Writable
  <2> QED
    BY <1>7, <1>8, <2>1 DEF ImportSnapshot, Writable, Run, Rewrite, FreshHead, TypeOK
<1>9. CASE ClearAll(t)
  <2>1. manifest \in Manifest
    BY <1>9, LockFree DEF ClearAll, Writable
  <2> QED
    BY <1>7, <1>9, <2>1, EmptyType DEF ClearAll, Writable, Run, Rewrite, FreshHead, TypeOK
<1>10. CASE CompactNow(t)
  <2>1. manifest \in Manifest
    BY <1>10, LockFree DEF CompactNow
  <2>2. Replay(base, manifest) \in Content
    BY <2>1, ReplayType DEF TypeOK
  <2> QED
    BY <1>7, <1>10, <2>1, <2>2 DEF CompactNow, Run, Rewrite, FreshHead, TypeOK
<1>11. ASSUME NEW r \in Rev, PatchMetaIfRevision(t, r) PROVE Stutter
  <2>1. manifest \in Manifest /\ manifest # None /\ \A u \in Tab : task[u] = Idle
    BY <1>11, LockFree, NoneIsNoData DEF PatchMetaIfRevision, Writable
  <2>2. /\ manifest' = Acknowledged(manifest, r) /\ manifest' # None /\ lock = None
        /\ UNCHANGED <<base, wal, lock, task>>
    BY <1>11, <2>1, AcknowledgedType, NoneIsNoData
       DEF PatchMetaIfRevision, Writable, Acquire, FreshHead
  <2>3. manifest'.head = manifest.head /\ manifest'.pending = manifest.pending
    BY <2>1, <2>2 DEF Acknowledged, Manifest
  <2>4. Owed' = Owed
    BY <2>1, <2>2, <2>3 DEF Owed, Replay, PendingLog
  <2>5. Requests' = Requests
    BY <2>1, <2>2 DEF Requests, Asked, Rewriting
  <2> QED
    BY <2>1, <2>2, <2>3, <2>4, <2>5 DEF Stutter, Revision
<1>12. CASE WriteWal(t)
  <2>1. /\ manifest' = manifest /\ Owed' = Owed
        /\ task[t].pc = "wal" /\ task'[t] = [task[t] EXCEPT !.pc = "publish"]
        /\ \A u \in Tab : u # t => task[u] = Idle /\ task'[u] = Idle
    BY <1>12, WalWritten
  <2>2. task[t] \in CommitTask
    BY <2>1, TaskCases
  <2>3. task'[t].pc = "publish" /\ task'[t].delta = task[t].delta
    BY <2>1, <2>2 DEF CommitTask
  <2>4. Asked(t)' = Asked(t)
    BY <2>1, <2>3 DEF Asked
  <2>5. Requests' = Requests
    BY <2>1, <2>4, OnlyRequest DEF Requests
  <2> QED
    BY <2>1, <2>5 DEF Stutter, Revision
<1>13. CASE PublishCommit(t)
  <2>1. /\ manifest \in Manifest /\ manifest # None /\ manifest' # None
        /\ manifest' = Committed(manifest, manifest.head + 1)
        /\ \A u \in Tab : task'[u] = Idle
        /\ Owed' = Apply(Owed, task[t].delta) /\ task[t].pc = "publish"
    BY <1>13, CommitPublished
  <2>2. task[t] \in CommitTask /\ task[t] # Idle /\ task[t].delta \in Delta
    BY <2>1, TaskCases DEF CommitTask
  <2>3. \A u \in Tab : u # t => task[u] = Idle
    BY <2>2, Exclusive
  <2>4. Requests[t] = [op |-> "commit", delta |-> task[t].delta] /\ Requests[t] # None
    BY <2>1, <2>2, AbstractOperators, NoneIsNoRequest DEF Requests, Asked
  <2>5. Asked(t)' = None
    BY <2>1 DEF Asked, Rewriting
  <2>6. Requests' = [Requests EXCEPT ![t] = None]
    BY <2>1, <2>3, <2>5, OnlyRequest
  <2>7. Revision' \in Nat /\ Revision' > Revision
    BY <2>1, ConstantsOK DEF Revision, Committed, Manifest, Rev
  <2>8. Durable!Accept(t)
    BY <2>1, <2>4, <2>6, <2>7, AbstractOperators DEF Durable!Accept, Durable!Effect
  <2> QED
    BY <2>8 DEF Durable!Next
\* While the base is rewritten the graph from before is owed.
<1>14. CASE \/ ListWal(t)
            \/ \E k \in Key : RewriteFile(t, k)
            \/ \E r \in Rev, deleted \in BOOLEAN : DropWal(t, r, deleted)
  <2>1. /\ Rewriting(t) /\ Rewriting(t)' /\ manifest' = manifest /\ Owed' = Owed
        /\ \A u \in Tab : u # t => task[u] = Idle /\ task'[u] = Idle
        /\ task'[t].rev = task[t].rev /\ task'[t].target = task[t].target
    BY <1>14, RewriteGoesOn
  <2>2. Asked(t)' = Asked(t)
    BY <2>1 DEF Asked, Compacting, Rewriting
  <2>3. Requests' = Requests
    BY <2>1, <2>2, OnlyRequest DEF Requests
  <2> QED
    BY <2>1, <2>3 DEF Stutter, Revision
<1>15. CASE PublishBase(t)
  <2>1. /\ task[t] \in RewriteTask /\ Rewriting(t) /\ task[t] # Idle
        /\ manifest' = EmptyManifest(task[t].rev, task[t].dirty, task[t].edited)
        /\ manifest' # None /\ Owed' = task[t].target /\ task[t].pc = "drop"
    BY <1>15, BasePublished DEF PublishBase
  <2>2. lock = t /\ \A u \in Tab : (u # t => task[u] = Idle) /\ task'[u] = Idle
    BY <1>15, BasePublished
  <2>3. Asked(t)' = None
    BY <2>2 DEF Asked, Rewriting
  <2>4. Requests' = [Requests EXCEPT ![t] = None]
    BY <2>2, <2>3, OnlyRequest
  <2>5. Revision' = task[t].rev
    BY <2>1 DEF Revision, EmptyManifest
  <2>6. CASE manifest = None \/ task[t].rev = manifest.head
    <3>1. Asked(t) = None
      BY <2>1, <2>6 DEF Asked, Compacting
    <3>2. Requests' = Requests
      BY <2>4, <3>1 DEF Requests
    <3>3. Revision' = Revision
      BY <2>1, <2>5, <2>6 DEF Revision, IInv, Consistent, RewriteConsistent
    <3>4. Owed' = Owed
      BY <2>1, <2>2, <2>6 DEF Owed, IInv, Consistent, RewriteConsistent
    <3> QED
      BY <3>2, <3>3, <3>4 DEF Stutter
  <2>7. CASE manifest # None /\ task[t].rev # manifest.head
    <3>1. Requests[t] = [op |-> "replace", graph |-> task[t].target] /\ Requests[t] # None
      BY <2>1, <2>7, AbstractOperators, NoneIsNoRequest
         DEF Requests, Asked, Compacting, RewriteTask
    <3>2. task[t].rev \in Nat /\ task[t].rev > manifest.head
      <4>1. manifest.head \in Nat /\ task[t].rev \in Nat
        BY <2>1, <2>7, ConstantsOK DEF TypeOK, Manifest, RewriteTask, Rev
      <4> QED
        BY <2>1, <2>7, <4>1 DEF IInv, Consistent, RewriteConsistent
    <3>3. Revision' \in Nat /\ Revision' > Revision
      BY <2>5, <2>7, <3>2 DEF Revision
    <3>4. Durable!Accept(t)
      BY <2>1, <2>4, <3>1, <3>3 DEF Durable!Accept, Durable!Effect
    <3> QED
      BY <3>4 DEF Durable!Next
  <2> QED
    BY <2>6, <2>7
<1>16. CASE Fail(t) \/ Crash(t)
  <2>1. CASE task[t] = Idle
    <3>1. lock # t
      BY <2>1 DEF IInv, Consistent, Serialized
    <3>2. UNCHANGED <<disk, lock, task>>
      BY <1>16, <2>1, <3>1 DEF Fail, Crash, TypeOK
    <3> QED
      BY <1>1, <3>2
  <2>2. CASE task[t] # Idle
    <3>1. lock = t /\ \A u \in Tab : u # t => task[u] = Idle
      BY <2>2, Exclusive
    <3>2. /\ UNCHANGED disk /\ \A u \in Tab : task'[u] = Idle
          /\ manifest # None => Owed' = Owed
      BY <1>16, <2>2, TaskStopped
    <3>3. Owed' = Owed
      BY <3>2 DEF Owed, disk
    <3>4. Asked(t)' = None
      BY <3>2 DEF Asked, Rewriting
    <3>5. Requests' = [Requests EXCEPT ![t] = None] /\ Revision' = Revision
      BY <3>1, <3>2, <3>4, OnlyRequest DEF Revision, disk
    <3>6. CASE Requests[t] # None
      BY <3>3, <3>5, <3>6 DEF Durable!GiveUp, Durable!Next
    <3>7. CASE Requests[t] = None
      <4>1. Requests' = Requests
        BY <3>5, <3>7 DEF Requests
      <4> QED
        BY <3>3, <3>5, <4>1 DEF Stutter
    <3> QED
      BY <3>6, <3>7
  <2> QED
    BY <2>1, <2>2
<1> QED
  BY <1>3, <1>5, <1>6, <1>8, <1>9, <1>10, <1>11, <1>12, <1>13, <1>14, <1>15, <1>16
     DEF Begin, Step

\* The store is a DurableGraph: every change takes effect as a whole or not at
\* all, and what has been accepted stays.
THEOREM Refinement == ASSUME Faultless PROVE Spec => ImplementsDurableGraph
<1>1. Init => Durable!Init
  <2> SUFFICES ASSUME Init PROVE Durable!Init
    OBVIOUS
  <2>1. Owed = Durable!Empty /\ Revision = 0
    BY AbstractOperators DEF Init, Owed, Revision
  <2>2. Requests = [t \in Tab |-> None]
    BY AskedIdle DEF Init, Requests
  <2> QED
    BY <2>1, <2>2 DEF Durable!Init
<1>2. IInv /\ IInv' /\ NextRevision /\ [Next]_vars
        => [Durable!Next]_<<Owed, Revision, Requests>>
  BY Simulation
<1>3. Init => NextRevision /\ LogKept
  BY DEF Init, NextRevision, LogKept, Idle
<1>4. IInv /\ IInv' /\ NextRevision /\ LogKept /\ [Next]_vars => NextRevision' /\ LogKept'
  BY NextLog
<1> QED
  BY <1>1, <1>2, <1>3, <1>4, Invariance, PTL DEF Spec, ImplementsDurableGraph, Durable!Spec

-----------------------------------------------------------------------------
(***************************************************************************)
(* Caches and loads.  A load without the lock reads files of several        *)
(* revisions; the invariant says what it may find, as long as no rewrite    *)
(* that replaces the graph is under way.                                    *)
(***************************************************************************)
\* The files that a load of m has read show the graph that is owed, unless the
\* store has moved on or the load will throw.
Shows(w, m, man, owed, files) ==
    m.head = man.head /\ (\A r \in PendingLog(m) : w[r] # None) =>
        \A k \in Key : files[k] # None => Overlaid(w, files, m)[k] = owed[k]

\* No rewrite that replaces the graph is under way.
Calm == manifest # None /\ \A u \in Tab : Rewriting(u) => Compacting(u)

Behind(m, man) == man # None /\ m.head <= man.head /\ m.pending <= man.pending

\* No cache, and no load, is ahead of the store.
CachesBehind ==
    \A t \in Tab : /\ mcache[t] # None => Behind(mcache[t], manifest)
                   /\ reading[t] # Idle => Behind(reading[t].m, manifest)
                   /\ scache[t] # None => manifest # None /\ scache[t].rev <= manifest.head

\* A rewrite moves pendingLogFromRevision.
PendingKnown ==
    manifest # None => /\ manifest.pending <= manifest.head + 1
                       /\ manifest.count > 0 => manifest.pending <= manifest.head
                       /\ \A t \in Tab : Rewriting(t) => manifest.pending < task[t].rev + 1

\* Whatever manifest of the current revision a load uses, it finds the graph, and
\* the snapshots of the current revision are right.
ManifestFits(m) == Shows(wal, m, manifest, Owed, base)

LoadFits(t) ==
    reading[t] # Idle => /\ ManifestFits(reading[t].m)
                         /\ Shows(wal, reading[t].m, manifest, Owed, reading[t].files)

SnapshotFits(t) ==
    scache[t] # None /\ scache[t].rev = manifest.head => scache[t].content = Owed

CachesFit ==
    Calm => /\ ManifestFits(manifest)
            /\ \A t \in Tab : /\ mcache[t] # None => ManifestFits(mcache[t])
                             /\ LoadFits(t)
                             /\ SnapshotFits(t)

\* The snapshot that comes with a commit is the graph the commit leads to.
SnapshotsApplied ==
    \A t \in Tab : task[t].pc \in {"wal", "publish"} =>
        task[t].snapshot = Apply(Owed, task[t].delta)

\* What a load has read is the base it began with, as long as no rewrite came.
LoadsSteady ==
    \A t \in Tab :
        (/\ reading[t] # Idle /\ reading[t].owed # None
         /\ reading[t].m.pending = manifest.pending
         /\ \A u \in Tab : ~Rewriting(u))
        => /\ reading[t].owed = Overlaid(wal, base, reading[t].m)
           /\ \A k \in Key : reading[t].files[k] # None => reading[t].files[k] = base[k]

-----------------------------------------------------------------------------
\* What a load shows of a record depends on the file of that record alone.
LEMMA OverlaidAt ==
    ASSUME NEW w, NEW m, NEW k \in Key, NEW f, NEW g
    PROVE  /\ f[k] = g[k] => Overlaid(w, g, m)[k] = Overlaid(w, f, m)[k]
           /\ Overlaid(w, g, m)[k] = g[k] \/ Overlaid(w, g, m)[k] = Overlaid(w, f, m)[k]
BY DEF Overlaid

\* Files are read, rewritten with what is owed, and deleted.
LEMMA ShowsKept ==
    ASSUME NEW w, NEW v, NEW m, NEW man, NEW man2, NEW o, NEW f, NEW g,
           Shows(w, m, man, o, f), man2.head = man.head,
           \A r \in PendingLog(m) : v[r] = w[r] \/ v[r] = None,
           \A k \in Key : g[k] = f[k] \/ (g[k] = o[k] /\ f[k] # None)
    PROVE  Shows(v, m, man2, o, g)
<1> SUFFICES ASSUME m.head = man2.head, \A r \in PendingLog(m) : v[r] # None,
                    NEW k \in Key, g[k] # None
             PROVE  Overlaid(v, g, m)[k] = o[k]
  BY DEF Shows
<1>1. \A r \in PendingLog(m) : v[r] = w[r]
  OBVIOUS
<1>2. Overlaid(v, g, m) = Overlaid(w, g, m)
  BY <1>1, OverlaidSame
<1>3. f[k] # None
  OBVIOUS
<1>4. Overlaid(w, f, m)[k] = o[k]
  BY <1>1, <1>3 DEF Shows
<1>5. Overlaid(w, g, m)[k] = o[k]
  <2>1. CASE g[k] = f[k]
    BY <1>4, <2>1 DEF Overlaid
  <2>2. CASE g[k] = o[k]
    BY <1>4, <2>2, OverlaidAt
  <2> QED
    BY <2>1, <2>2
<1> QED
  BY <1>2, <1>5

\* Each file is taken from one of two bases that would do.
LEMMA ShowsMixed ==
    ASSUME NEW w, NEW m, NEW man, NEW o, NEW f, NEW h, NEW g,
           Shows(w, m, man, o, f), Shows(w, m, man, o, h),
           \A k \in Key : g[k] = f[k] \/ g[k] = h[k]
    PROVE  Shows(w, m, man, o, g)
<1> SUFFICES ASSUME m.head = man.head, \A r \in PendingLog(m) : w[r] # None,
                    NEW k \in Key, g[k] # None
             PROVE  Overlaid(w, g, m)[k] = o[k]
  BY DEF Shows
<1>1. CASE g[k] = f[k]
  <2>1. Overlaid(w, f, m)[k] = o[k]
    BY <1>1 DEF Shows
  <2> QED
    BY <1>1, <2>1 DEF Overlaid
<1>2. CASE g[k] = h[k]
  <2>1. Overlaid(w, h, m)[k] = o[k]
    BY <1>2 DEF Shows
  <2> QED
    BY <1>2, <2>1 DEF Overlaid
<1> QED
  BY <1>1, <1>2

\* On a store that nobody rewrites the manifest on disk shows the graph.
LEMMA ShowsItself ==
    ASSUME NEW w, NEW m, NEW man, NEW f
    PROVE  Shows(w, m, man, Overlaid(w, f, m), f)
BY DEF Shows

\* Shown from a manifest of an older revision, nothing is claimed.
LEMMA ShowsOlder ==
    ASSUME NEW w, NEW m, NEW man, NEW o, NEW f, m.head # man.head
    PROVE  Shows(w, m, man, o, f)
BY DEF Shows

-----------------------------------------------------------------------------
(***************************************************************************)
(* How tasks start, and acknowledgements.                                  *)
(***************************************************************************)
\* Only a rewrite keeps a store from being calm.
LEMMA CalmWithoutRewrite ==
    ASSUME manifest # None, \A u \in Tab : ~Rewriting(u)
    PROVE  Calm
BY DEF Calm

\* A commit starts from the graph on disk.
LEMMA CommitStarted ==
    ASSUME IInv, IInv', NEW t \in Tab, NEW d \in Delta, NEW e \in Rev \cup {None},
           NEW r \in Rev, NEW op \in {"commit", "bare"}, CommitDelta(t, d, e, r, op)
    PROVE  /\ manifest # None /\ UNCHANGED <<disk, reading>>
           /\ \A u \in Tab : task[u] = Idle /\ ~Rewriting(u) /\ ~Rewriting(u)'
           /\ \A u \in Tab : u # t => task'[u] = Idle
           /\ mcache' = [mcache EXCEPT ![t] = manifest]
           /\ scache' = [scache EXCEPT ![t] = None]
           /\ Owed' = Owed
           /\ task'[t].delta = d
           /\ op = "commit" => task'[t].snapshot = Apply(Owed, d)
<1> TypeOK /\ TypeOK' /\ Idle.pc = "idle" /\ None \notin Tab
  BY ConstantsOK DEF IInv, Idle
<1>1. /\ manifest # None /\ Acquire(t) /\ lock' = t /\ UNCHANGED <<disk, reading>>
      /\ mcache' = [mcache EXCEPT ![t] = manifest]
      /\ scache' = [scache EXCEPT ![t] = None]
  BY LockFree, NoneIsNoData DEF CommitDelta, Writable, Run, Refresh, FreshHead
<1>2. \A u \in Tab : task[u] = Idle
  BY <1>1, LockFree
<1>3. /\ task'[t].pc = "wal" /\ task'[t].delta = d
      /\ op = "commit" => task'[t].snapshot = Apply(Replay(base, manifest), d)
      /\ \A u \in Tab : u # t => task'[u] = Idle
  BY <1>2 DEF CommitDelta, Run, FreshHead, TypeOK
<1>4. \A u \in Tab : ~Rewriting(u) /\ ~Rewriting(u)'
  BY <1>2, <1>3 DEF Rewriting
<1>5. Owed = Replay(base, manifest) /\ Owed' = Replay(base, manifest)
  BY <1>1, <1>4 DEF Owed, Replay, PendingLog, disk, Acquire
<1> QED
  BY <1>1, <1>2, <1>3, <1>4, <1>5

\* An import, a clear and the first rewrite replace the graph.
LEMMA ReplacementStarted ==
    ASSUME IInv, IInv', NEW t \in Tab,
           \/ Bootstrap(t)
           \/ \E c \in Content, e \in Rev \cup {None}, r \in Rev, op \in {"import", "download"} :
                 ImportSnapshot(t, c, e, r, op)
           \/ ClearAll(t)
    PROVE  /\ UNCHANGED <<disk, reading>> /\ ~Calm'
           /\ \A u \in Tab : task[u] = Idle /\ ~Rewriting(u)
           /\ \A u \in Tab : u # t => task'[u] = Idle
           /\ task'[t].pc = "files"
           /\ mcache' = [mcache EXCEPT ![t] = manifest]
           /\ scache' = [scache EXCEPT ![t] = None]
           /\ manifest # None => task'[t].rev > manifest.head
<1> TypeOK /\ TypeOK' /\ Idle.pc = "idle"
  BY DEF IInv, Idle
<1>1. /\ Acquire(t) /\ UNCHANGED <<disk, reading>>
      /\ mcache' = [mcache EXCEPT ![t] = manifest]
      /\ scache' = [scache EXCEPT ![t] = None]
      /\ Bootstrap(t) => manifest = None
      /\ ~Bootstrap(t) => manifest \in Manifest
  BY LockFree DEF Bootstrap, ImportSnapshot, ClearAll, Writable, Refresh, FreshHead
<1>2. \A u \in Tab : task[u] = Idle
  BY <1>1, LockFree
<1>3. task'[t].pc = "files" /\ \A u \in Tab : u # t => task'[u] = Idle
  BY <1>2 DEF Bootstrap, ImportSnapshot, ClearAll, Run, Rewrite, TypeOK
<1>4. manifest # None => task'[t].rev > manifest.head
  <2>1. manifest # None => manifest.head \in Nat
    BY ConstantsOK DEF TypeOK, Manifest, Rev
  <2>2. ASSUME NEW c, NEW e, NEW r \in Rev, NEW op, ImportSnapshot(t, c, e, r, op),
               manifest # None
        PROVE  task'[t].rev > manifest.head
    <3>1. r > manifest.head
      BY <2>1, <2>2, ConstantsOK DEF ImportSnapshot, Granted, FreshHead, Rev
    <3>2. task'[t].rev = r
      BY <2>2 DEF ImportSnapshot, Run, Rewrite, TypeOK
    <3> QED
      BY <3>1, <3>2
  <2>3. ASSUME ClearAll(t), manifest # None PROVE task'[t].rev > manifest.head
    <3>1. task'[t].rev = manifest.head + 1
      BY <2>3 DEF ClearAll, Run, Rewrite, FreshHead, TypeOK
    <3> QED
      BY <2>1, <2>3, <3>1
  <2> QED
    BY <1>1, <2>2, <2>3
<1>5. ~Calm'
  <2>1. CASE manifest = None
    BY <1>1, <2>1 DEF Calm, disk
  <2>2. CASE manifest # None
    <3>1. manifest.head \in Nat /\ task'[t].rev > manifest.head
      BY <1>4, <2>2, ConstantsOK DEF TypeOK, Manifest, Rev
    <3>2. task'[t].rev # manifest.head
      BY <3>1
    <3> QED
      BY <1>1, <1>3, <3>2 DEF Calm, Compacting, Rewriting, disk
  <2> QED
    BY <2>1, <2>2
<1> QED
  BY <1>1, <1>2, <1>3, <1>4, <1>5 DEF Rewriting

\* A compaction keeps the graph.
LEMMA CompactionStarted ==
    ASSUME IInv, IInv', NEW t \in Tab, CompactNow(t)
    PROVE  /\ manifest # None /\ manifest.count > 0 /\ UNCHANGED <<disk, reading>>
           /\ \A u \in Tab : task[u] = Idle /\ ~Rewriting(u)
           /\ \A u \in Tab : u # t => task'[u] = Idle
           /\ task'[t].pc = "files" /\ task'[t].rev = manifest.head
           /\ mcache' = [mcache EXCEPT ![t] = manifest]
           /\ scache' = [scache EXCEPT ![t] = [rev |-> manifest.head, content |-> Owed]]
           /\ Owed' = Owed
<1> TypeOK /\ TypeOK' /\ Idle.pc = "idle" /\ None \notin Tab
  BY ConstantsOK DEF IInv, Idle
<1>1. /\ manifest \in Manifest /\ manifest # None
      /\ Acquire(t) /\ lock' = t /\ UNCHANGED <<disk, reading>>
      /\ mcache' = [mcache EXCEPT ![t] = manifest]
      /\ scache' = [scache EXCEPT ![t] = [rev |-> manifest.head,
                                          content |-> Replay(base, manifest)]]
  BY LockFree, NoneIsNoData DEF CompactNow, Run, Refresh, FreshHead
<1>2. \A u \in Tab : task[u] = Idle
  BY <1>1, LockFree
<1>3. /\ task'[t].pc = "files" /\ task'[t].rev = manifest.head
      /\ task'[t].before = Replay(base, manifest)
      /\ \A u \in Tab : u # t => task'[u] = Idle
  BY <1>2 DEF CompactNow, Run, Rewrite, FreshHead, TypeOK
<1>4. manifest.count > 0
  <2>1. manifest.count \in Nat /\ manifest.count >= CompactAt
    BY <1>1 DEF CompactNow, FreshHead, Manifest
  <2> QED
    BY <2>1, ConstantsOK
<1>5. Owed = Replay(base, manifest) /\ Owed' = Replay(base, manifest)
  BY <1>1, <1>2, <1>3 DEF Owed, Replay, PendingLog, disk, Acquire, Rewriting
<1> QED
  BY <1>1, <1>2, <1>3, <1>4, <1>5 DEF Rewriting

\* An acknowledgement keeps the log.
LEMMA AckPublished ==
    ASSUME IInv, IInv', NEW t \in Tab, NEW r \in Rev, PatchMetaIfRevision(t, r)
    PROVE  /\ manifest # None /\ manifest' # None
           /\ manifest'.head = manifest.head /\ manifest'.pending = manifest.pending
           /\ manifest'.count = manifest.count
           /\ PendingLog(manifest') = PendingLog(manifest)
           /\ UNCHANGED <<base, wal, task, lock, reading>>
           /\ \A u \in Tab : task[u] = Idle /\ ~Rewriting(u) /\ ~Rewriting(u)'
           /\ mcache' = [mcache EXCEPT ![t] = manifest']
           /\ scache' = [scache EXCEPT ![t] = None]
           /\ Owed' = Owed
<1> TypeOK /\ TypeOK' /\ Idle.pc = "idle" /\ None \notin Tab
  BY ConstantsOK DEF IInv, Idle
<1>1. manifest \in Manifest /\ manifest # None /\ \A u \in Tab : task[u] = Idle
  BY LockFree, NoneIsNoData DEF PatchMetaIfRevision, Writable
<1>2. /\ manifest' = Acknowledged(manifest, r) /\ UNCHANGED <<base, wal, task, lock, reading>>
      /\ mcache' = [mcache EXCEPT ![t] = manifest']
      /\ scache' = [scache EXCEPT ![t] = None] /\ lock = None
  BY DEF PatchMetaIfRevision, FreshHead, Writable, Acquire
<1>3. /\ manifest'.head = manifest.head /\ manifest'.pending = manifest.pending
      /\ manifest'.count = manifest.count /\ manifest' # None
  BY <1>1, <1>2, AcknowledgedType, NoneIsNoData DEF Acknowledged, Manifest
<1>4. PendingLog(manifest') = PendingLog(manifest)
  BY <1>3 DEF PendingLog
<1>5. \A u \in Tab : ~Rewriting(u) /\ ~Rewriting(u)'
  BY <1>1, <1>2 DEF Rewriting
<1>6. Owed' = Owed
  BY <1>1, <1>2, <1>3, <1>4 DEF Owed, Replay
<1> QED
  BY <1>1, <1>2, <1>3, <1>4, <1>5, <1>6

-----------------------------------------------------------------------------
(***************************************************************************)
(* Nothing a tab remembers is ahead of the store.                          *)
(***************************************************************************)
LEMMA BehindOrder ==
    /\ \A m \in Manifest : m # None => Behind(m, m)
    /\ \A m, n, o \in Manifest :
           Behind(m, n) /\ Behind(n, o) => Behind(m, o)
<1>1. \A m \in Manifest : m.head \in Nat /\ m.pending \in Nat
  BY ConstantsOK DEF Manifest, Rev
<1> QED
  BY <1>1 DEF Behind

\* Revisions only grow, and so does the start of the pending WAL.
LEMMA ManifestGrows ==
    ASSUME Faultless, IInv, IInv', NextRevision, PendingKnown, [Next]_vars, manifest # None
    PROVE  manifest' # None /\ Behind(manifest, manifest')
<1> TypeOK /\ TypeOK' /\ manifest \in Manifest
  BY DEF IInv, TypeOK
<1>1. /\ manifest.head \in Nat /\ manifest.pending \in Nat
      /\ manifest.pending <= manifest.head + 1
  BY ConstantsOK DEF Manifest, Rev, PendingKnown
<1>2. CASE manifest' = manifest
  BY <1>2, BehindOrder
<1>3. ASSUME NEW t \in Tab, PublishCommit(t) PROVE manifest' # None /\ Behind(manifest, manifest')
  <2>1. manifest' = Committed(manifest, manifest.head + 1) /\ manifest' # None
    BY <1>3, CommitPublished
  <2>2. /\ manifest'.head = manifest.head + 1
        /\ manifest'.pending = IF manifest.pending <= manifest.head THEN manifest.pending
                               ELSE manifest.head + 1
    BY <2>1 DEF Committed
  <2> QED
    BY <1>1, <2>1, <2>2 DEF Behind
<1>4. ASSUME NEW t \in Tab, PublishBase(t) PROVE manifest' # None /\ Behind(manifest, manifest')
  <2>1. /\ manifest'.head = task[t].rev /\ manifest'.pending = task[t].rev + 1
        /\ manifest' # None /\ Rewriting(t) /\ task[t] \in RewriteTask
    BY <1>4, BasePublished DEF EmptyManifest
  <2>2. task[t].rev >= manifest.head /\ manifest.pending < task[t].rev + 1
    BY <2>1 DEF IInv, Consistent, RewriteConsistent, PendingKnown
  <2>3. task[t].rev \in Nat
    BY <2>1, ConstantsOK DEF RewriteTask, Rev
  <2> QED
    BY <1>1, <2>1, <2>2, <2>3 DEF Behind
<1>5. ASSUME NEW t \in Tab, NEW r \in Rev, PatchMetaIfRevision(t, r)
      PROVE  manifest' # None /\ Behind(manifest, manifest')
  BY <1>1, <1>5, AckPublished DEF Behind
<1>6. ASSUME manifest' # manifest
      PROVE  \E t \in Tab : \/ PublishCommit(t) \/ PublishBase(t)
                            \/ \E r \in Rev : PatchMetaIfRevision(t, r)
  <2>1. PICK t \in Tab : Begin(t) \/ Step(t) \/ Read(t) \/ Fail(t) \/ Crash(t)
    BY <1>6 DEF Next, vars, disk
  <2> QED
    BY <1>6, <2>1 DEF Begin, Step, Read, Open, Bootstrap, CompactNow, SkipCompaction,
       CommitDelta, Conflict, ImportSnapshot, ClearAll, WriteWal, RewriteFile, ListWal,
       DropWal, LoadSnapshot, ReadWal, ReadFile, Fail, Crash, disk
<1> QED
  BY <1>2, <1>3, <1>4, <1>5, <1>6

\* What a tab takes up is the manifest on disk or what it had before.
LEMMA TakenUp ==
    ASSUME IInv, IInv', NextRevision, [Next]_vars, NEW t \in Tab
    PROVE  /\ mcache'[t] \in {None, mcache[t], manifest, manifest'}
           /\ \/ reading'[t] = Idle
              \/ reading[t] # Idle /\ reading'[t].m = reading[t].m
              \/ reading'[t].m # None /\ reading'[t].m \in {mcache[t], manifest}
           /\ \/ scache'[t] \in {None, scache[t]}
              \/ reading[t] # Idle /\ scache'[t].rev = reading[t].m.head
              \/ manifest' # None /\ scache'[t].rev \in {manifest'.head}
<1> TypeOK /\ TypeOK'
  BY DEF IInv
<1>1. CASE UNCHANGED vars
  BY <1>1 DEF vars, caches
<1> SUFFICES ASSUME NEW u \in Tab, Begin(u) \/ Step(u) \/ Read(u) \/ Fail(u) \/ Crash(u)
             PROVE  /\ mcache'[t] \in {None, mcache[t], manifest, manifest'}
                    /\ \/ reading'[t] = Idle
                       \/ reading[t] # Idle /\ reading'[t].m = reading[t].m
                       \/ reading'[t].m # None /\ reading'[t].m \in {mcache[t], manifest}
                    /\ \/ scache'[t] \in {None, scache[t]}
                       \/ reading[t] # Idle /\ scache'[t].rev = reading[t].m.head
                       \/ manifest' # None /\ scache'[t].rev \in {manifest'.head}
  BY <1>1 DEF Next
<1>2. mcache'[t] \in {None, mcache[t], manifest, manifest'}
  BY DEF Begin, Step, Read, Open, Bootstrap, CompactNow, SkipCompaction, CommitDelta,
     Conflict, ImportSnapshot, ClearAll, WriteWal, RewriteFile, ListWal, DropWal,
     LoadSnapshot, ReadWal, ReadFile, Fail, Crash, PublishCommit, PublishBase,
     PatchMetaIfRevision, Refresh, FreshHead, KnownHead, caches, TypeOK
<1>3. \/ reading'[t] = Idle
      \/ reading[t] # Idle /\ reading'[t].m = reading[t].m
      \/ reading'[t].m # None /\ reading'[t].m \in {mcache[t], manifest}
  <2>1. CASE reading'[t] = reading[t]
    BY <2>1
  <2>2. CASE LoadSnapshot(u)
    BY <2>2 DEF LoadSnapshot, KnownHead, TypeOK
  <2>3. ASSUME NEW k \in Key, ReadFile(u, k)
        PROVE  \/ reading'[t] = reading[t]
               \/ reading[t] # Idle /\ reading'[t].m = reading[t].m
    <3>1. CASE u = t
      <4>1. reading[t] \in Load /\ reading[t] # Idle
        BY <2>3, <3>1 DEF ReadFile, TypeOK
      <4>2. reading'[t] = [reading[t] EXCEPT !.files[k] = base[k]]
        BY <2>3, <3>1 DEF ReadFile, TypeOK
      <4> QED
        BY <4>1, <4>2 DEF Load
    <3> QED
      BY <2>3, <3>1 DEF ReadFile, TypeOK
  <2>4. CASE ReadWal(u) \/ Fail(u) \/ Crash(u)
    BY <2>4 DEF ReadWal, Fail, Crash, TypeOK
  <2>5. CASE Begin(u) \/ Step(u)
    BY <2>1, <2>5 DEF Begin, Step, Open, Bootstrap, CompactNow, SkipCompaction,
       CommitDelta, Conflict, ImportSnapshot, ClearAll, WriteWal, RewriteFile, ListWal,
       DropWal, PublishCommit, PublishBase, PatchMetaIfRevision
  <2> QED
    BY <2>1, <2>2, <2>3, <2>4, <2>5 DEF Read
<1>4. \/ scache'[t] \in {None, scache[t]}
      \/ reading[t] # Idle /\ scache'[t].rev = reading[t].m.head
      \/ manifest' # None /\ scache'[t].rev \in {manifest'.head}
  <2>1. CASE ReadWal(u)
    BY <2>1 DEF ReadWal, TypeOK
  <2>2. CASE CompactNow(u)
    BY <2>2, CompactionStarted DEF disk, TypeOK
  <2>3. CASE PublishCommit(u)
    <3>1. /\ manifest' = Committed(manifest, manifest.head + 1) /\ manifest' # None
          /\ task[u].rev = manifest.head + 1
      BY <2>3, CommitPublished
    <3>2. manifest'.head = task[u].rev
      BY <3>1 DEF Committed
    <3>3. CommittedSnapshot(u) = None \/ CommittedSnapshot(u).rev = task[u].rev
      BY DEF CommittedSnapshot
    <3> QED
      BY <2>3, <3>1, <3>2, <3>3 DEF PublishCommit, TypeOK
  <2>4. CASE PublishBase(u)
    <3>1. manifest'.head = task[u].rev /\ manifest' # None
      BY <2>4, BasePublished DEF EmptyManifest
    <3> QED
      BY <2>4, <3>1 DEF PublishBase, TypeOK
  <2>5. CASE ~(ReadWal(u) \/ CompactNow(u) \/ PublishCommit(u) \/ PublishBase(u))
    BY <2>5 DEF Begin, Step, Read, Open, Bootstrap, SkipCompaction, CommitDelta,
       Conflict, ImportSnapshot, ClearAll, WriteWal, RewriteFile, ListWal, DropWal,
       LoadSnapshot, ReadFile, Fail, Crash, PatchMetaIfRevision, Refresh, caches, TypeOK
  <2> QED
    BY <2>1, <2>2, <2>3, <2>4, <2>5
<1> QED
  BY <1>2, <1>3, <1>4

\* No step puts a cache or a load ahead of the store.
LEMMA NextBehind ==
    ASSUME Faultless, IInv, IInv', NextRevision, PendingKnown, CachesBehind, [Next]_vars
    PROVE  CachesBehind'
<1> SUFFICES ASSUME NEW t \in Tab
             PROVE  /\ mcache'[t] # None => Behind(mcache'[t], manifest')
                    /\ reading'[t] # Idle => Behind(reading'[t].m, manifest')
                    /\ scache'[t] # None => /\ manifest' # None
                                            /\ scache'[t].rev <= manifest'.head
  BY DEF CachesBehind
<1> TypeOK /\ TypeOK'
  BY DEF IInv
<1>1. manifest # None => Behind(manifest, manifest') /\ manifest' # None
  BY ManifestGrows
<1>2. manifest' # None => Behind(manifest', manifest')
  BY BehindOrder DEF TypeOK
<1>3. ASSUME NEW m \in Manifest, Behind(m, manifest) PROVE Behind(m, manifest')
  <2>1. manifest # None /\ manifest \in Manifest /\ manifest' \in Manifest
    BY <1>1, <1>3 DEF Behind, TypeOK
  <2> QED
    BY <1>1, <1>3, <2>1, BehindOrder
<1>4. mcache[t] # None => mcache[t] \in Manifest /\ Behind(mcache[t], manifest)
  BY DEF CachesBehind, TypeOK
<1>5. reading[t] # Idle => reading[t].m \in Manifest /\ Behind(reading[t].m, manifest)
  BY DEF CachesBehind, TypeOK, Load
<1>6. mcache'[t] # None => Behind(mcache'[t], manifest')
  BY <1>1, <1>2, <1>3, <1>4, TakenUp
<1>7. reading'[t] # Idle => Behind(reading'[t].m, manifest')
  BY <1>1, <1>3, <1>4, <1>5, TakenUp
<1>8. scache'[t] # None => manifest' # None /\ scache'[t].rev <= manifest'.head
  <2>1. CASE scache'[t] = scache[t] /\ scache[t] # None
    <3>1. /\ scache[t].rev \in Nat /\ manifest.head \in Nat /\ manifest'.head \in Nat
          /\ scache[t].rev <= manifest.head /\ manifest' # None
      BY <1>1, <2>1, ConstantsOK DEF CachesBehind, TypeOK, Snapshot, Manifest, Rev
    <3>2. manifest.head <= manifest'.head
      BY <1>1, <2>1 DEF Behind, CachesBehind
    <3> QED
      BY <2>1, <3>1, <3>2
  <2>2. CASE reading[t] # Idle /\ scache'[t].rev = reading[t].m.head
    BY <1>3, <1>5, <2>2 DEF Behind
  <2>3. CASE manifest' # None /\ scache'[t].rev = manifest'.head
    BY <1>2, <2>3 DEF Behind
  <2> QED
    BY <2>1, <2>2, <2>3, TakenUp
<1> QED
  BY <1>6, <1>7, <1>8

\* A rewrite always moves the start of the pending WAL.
LEMMA NextPending ==
    ASSUME IInv, IInv', NextRevision, PendingKnown, [Next]_vars
    PROVE  PendingKnown'
<1> TypeOK /\ TypeOK' /\ Idle.pc = "idle"
  BY DEF IInv, Idle
<1> /\ manifest # None => manifest.head \in Nat /\ manifest.pending \in Nat
    /\ manifest' # None => manifest'.head \in Nat /\ manifest'.pending \in Nat
  BY ConstantsOK DEF TypeOK, Manifest, Rev
\* A step that keeps the manifest and starts no rewrite.
<1>1. ASSUME manifest' = manifest,
             \A u \in Tab : Rewriting(u)' => Rewriting(u) /\ task'[u].rev = task[u].rev
      PROVE  PendingKnown'
  BY <1>1 DEF PendingKnown
<1>2. CASE UNCHANGED vars
  BY <1>1, <1>2 DEF vars, disk, Rewriting
<1> SUFFICES ASSUME NEW t \in Tab, Begin(t) \/ Step(t) \/ Read(t) \/ Fail(t) \/ Crash(t)
             PROVE  PendingKnown'
  BY <1>2 DEF Next
<1>3. CASE Open(t) \/ (\E op : Conflict(t, op)) \/ SkipCompaction(t) \/ Read(t)
  BY <1>1, <1>3 DEF Open, Conflict, SkipCompaction, Read, LoadSnapshot, ReadWal,
     ReadFile, disk, Rewriting
<1>4. CASE \/ Bootstrap(t) \/ ClearAll(t)
           \/ \E c \in Content, e \in Rev \cup {None}, r \in Rev, op \in {"import", "download"} :
                 ImportSnapshot(t, c, e, r, op)
  <2>1. /\ manifest' = manifest /\ task'[t].pc = "files"
        /\ manifest # None => task'[t].rev > manifest.head
        /\ \A u \in Tab : u # t => ~Rewriting(u)'
    BY <1>4, ReplacementStarted DEF disk, Rewriting
  <2>2. manifest # None => task'[t].rev \in Nat
    BY <2>1, ConstantsOK DEF TypeOK, CommitTask, RewriteTask, Rev
  <2> QED
    BY <2>1, <2>2 DEF PendingKnown
<1>5. CASE CompactNow(t)
  <2>1. /\ manifest' = manifest /\ task'[t].rev = manifest.head /\ manifest # None
        /\ manifest.count > 0 /\ \A u \in Tab : u # t => ~Rewriting(u)'
    BY <1>5, CompactionStarted DEF disk, Rewriting
  <2> QED
    BY <2>1 DEF PendingKnown
<1>6. ASSUME NEW d \in Delta, NEW e \in Rev \cup {None}, NEW r \in Rev,
             NEW op \in {"commit", "bare"}, CommitDelta(t, d, e, r, op)
      PROVE  PendingKnown'
  BY <1>1, <1>6, CommitStarted DEF disk
<1>7. CASE WriteWal(t)
  BY <1>1, <1>7, WalWritten
<1>8. CASE PublishCommit(t)
  <2>1. /\ manifest' = Committed(manifest, manifest.head + 1)
        /\ manifest # None /\ \A u \in Tab : ~Rewriting(u)'
    BY <1>8, CommitPublished
  <2>2. /\ manifest'.head = manifest.head + 1
        /\ manifest'.pending = IF manifest.pending <= manifest.head THEN manifest.pending
                               ELSE manifest.head + 1
    BY <2>1 DEF Committed
  <2> QED
    BY <2>1, <2>2 DEF PendingKnown
<1>9. CASE PublishBase(t)
  <2>1. /\ manifest'.pending = manifest'.head + 1 /\ manifest'.count = 0
        /\ \A u \in Tab : ~Rewriting(u)'
    BY <1>9, BasePublished DEF EmptyManifest
  <2>2. manifest' # None => manifest'.pending <= manifest'.head + 1
    BY <2>1
  <2> QED
    BY <2>1, <2>2 DEF PendingKnown
<1>10. ASSUME NEW r \in Rev, PatchMetaIfRevision(t, r) PROVE PendingKnown'
  BY <1>10, AckPublished DEF PendingKnown
<1>11. CASE \/ ListWal(t)
            \/ \E k \in Key : RewriteFile(t, k)
            \/ \E r \in Rev, deleted \in BOOLEAN : DropWal(t, r, deleted)
  <2>1. manifest' = manifest
    BY <1>11, RewriteGoesOn
  <2>2. \A u \in Tab : Rewriting(u)' => Rewriting(u) /\ task'[u].rev = task[u].rev
    BY <1>11, RewriteGoesOn DEF Rewriting
  <2> QED
    BY <1>1, <2>1, <2>2
<1>12. CASE Fail(t) \/ Crash(t)
  <2>1. manifest' = manifest /\ \A u \in Tab : task'[u] = task[u] \/ task'[u] = Idle
    BY <1>12 DEF Fail, Crash, Release, TypeOK, disk
  <2> QED
    BY <1>1, <2>1 DEF Rewriting
<1> QED
  BY <1>3, <1>4, <1>5, <1>6, <1>7, <1>8, <1>9, <1>10, <1>11, <1>12 DEF Begin, Step

\* A commit's snapshot stays the graph it leads to until it is published.
LEMMA NextSnapshots ==
    ASSUME "bare" \notin Ops, Faultless, IInv, IInv', NextRevision, SnapshotsApplied,
           [Next]_vars
    PROVE  SnapshotsApplied'
<1> TypeOK /\ TypeOK' /\ Idle.pc = "idle"
  BY DEF IInv, Idle
\* A step that leaves the disk, the lock and the tasks alone is not seen, nor is
\* one after which no commit runs.
<1>1. ASSUME UNCHANGED <<disk, lock, task>> PROVE SnapshotsApplied'
  <2>1. Owed' = Owed
    BY <1>1 DEF Owed, Replay, PendingLog, Rewriting, disk
  <2> QED
    BY <1>1, <2>1 DEF SnapshotsApplied
<1>2. ASSUME \A u \in Tab : task'[u] = Idle \/ Rewriting(u)' PROVE SnapshotsApplied'
  BY <1>2 DEF SnapshotsApplied, Rewriting
<1>3. CASE UNCHANGED vars
  BY <1>1, <1>3 DEF vars
<1> SUFFICES ASSUME NEW t \in Tab, Begin(t) \/ Step(t) \/ Read(t) \/ Fail(t) \/ Crash(t)
             PROVE  SnapshotsApplied'
  BY <1>3 DEF Next
<1>4. CASE Open(t) \/ (\E op : Conflict(t, op)) \/ SkipCompaction(t) \/ Read(t)
  BY <1>1, <1>4 DEF Open, Conflict, SkipCompaction, Read, LoadSnapshot, ReadWal,
     ReadFile, disk
<1>5. CASE \/ Bootstrap(t) \/ ClearAll(t)
           \/ \E c \in Content, e \in Rev \cup {None}, r \in Rev, op \in {"import", "download"} :
                 ImportSnapshot(t, c, e, r, op)
  BY <1>2, <1>5, ReplacementStarted DEF Rewriting
<1>6. CASE CompactNow(t)
  BY <1>2, <1>6, CompactionStarted DEF Rewriting
<1>7. ASSUME NEW d \in Delta, NEW e \in Rev \cup {None}, NEW r \in Rev,
             NEW op \in {"commit", "bare"}, CommitDelta(t, d, e, r, op)
      PROVE  SnapshotsApplied'
  <2>1. op = "commit"
    BY <1>7 DEF CommitDelta, Writable
  <2>2. /\ task'[t].snapshot = Apply(Owed', task'[t].delta)
        /\ \A u \in Tab : u # t => task'[u] = Idle
    BY <1>7, <2>1, CommitStarted
  <2> QED
    BY <2>2 DEF SnapshotsApplied
<1>8. CASE WriteWal(t)
  <2>1. /\ Owed' = Owed /\ task[t].pc = "wal" /\ task'[t] = [task[t] EXCEPT !.pc = "publish"]
        /\ \A u \in Tab : u # t => task'[u] = Idle
    BY <1>8, WalWritten
  <2>2. task[t] \in CommitTask
    BY <2>1, TaskCases
  <2>3. task'[t].snapshot = task[t].snapshot /\ task'[t].delta = task[t].delta
    BY <2>1, <2>2 DEF CommitTask
  <2>4. task[t].snapshot = Apply(Owed, task[t].delta)
    BY <2>1 DEF SnapshotsApplied
  <2>5. Apply(Owed', task'[t].delta) = Apply(Owed, task[t].delta)
    BY <2>1, <2>3
  <2>6. task'[t].snapshot = Apply(Owed', task'[t].delta)
    BY <2>3, <2>4, <2>5
  <2>7. \A u \in Tab : task'[u].pc \in {"wal", "publish"} => u = t
    BY <2>1
  <2> QED
    BY <2>6, <2>7 DEF SnapshotsApplied
<1>9. CASE PublishCommit(t) \/ PublishBase(t)
  BY <1>2, <1>9, CommitPublished, BasePublished
<1>10. ASSUME NEW r \in Rev, PatchMetaIfRevision(t, r) PROVE SnapshotsApplied'
  BY <1>2, <1>10, AckPublished
<1>11. CASE \/ ListWal(t)
            \/ \E k \in Key : RewriteFile(t, k)
            \/ \E r \in Rev, deleted \in BOOLEAN : DropWal(t, r, deleted)
  BY <1>2, <1>11, RewriteGoesOn
<1>12. CASE Fail(t) \/ Crash(t)
  <2>1. CASE task[t] = Idle
    <3>1. lock # t
      BY <2>1 DEF IInv, Consistent, Serialized
    <3>2. UNCHANGED <<disk, lock, task>>
      BY <1>12, <2>1, <3>1 DEF Fail, Crash, TypeOK
    <3> QED
      BY <1>1, <3>2
  <2>2. CASE task[t] # Idle
    BY <1>2, <1>12, <2>2, TaskStopped
  <2> QED
    BY <2>1, <2>2
<1> QED
  BY <1>4, <1>5, <1>6, <1>7, <1>8, <1>9, <1>10, <1>11, <1>12 DEF Begin, Step

\* What a load has read stays the base as long as no rewrite comes, and the WAL
\* that it will read does not change.
LEMMA NextSteady ==
    ASSUME Faultless, IInv, IInv', NextRevision, PendingKnown, CachesBehind, LoadsSteady,
           [Next]_vars
    PROVE  LoadsSteady'
<1> TypeOK /\ TypeOK' /\ Idle.pc = "idle"
  BY DEF IInv, Idle
\* A step that leaves base and pending WAL alone, while no rewrite runs.
<1>1. ASSUME manifest # None, base' = base, manifest'.pending = manifest.pending,
             \A r \in Rev : r <= manifest.head => wal'[r] = wal[r],
             \A u \in Tab : ~Rewriting(u), reading' = reading
      PROVE  LoadsSteady'
  <2> SUFFICES ASSUME NEW q \in Tab, reading[q] # Idle, reading[q].owed # None,
                      reading[q].m.pending = manifest.pending
               PROVE  /\ reading[q].owed = Overlaid(wal', base, reading[q].m)
                      /\ \A k \in Key : reading[q].files[k] # None
                                            => reading[q].files[k] = base[k]
    BY <1>1 DEF LoadsSteady
  <2>1. /\ reading[q].owed = Overlaid(wal, base, reading[q].m)
        /\ \A k \in Key : reading[q].files[k] # None => reading[q].files[k] = base[k]
    BY <1>1 DEF LoadsSteady
  <2>2. reading[q].m.head <= manifest.head /\ reading[q].m.head \in Nat /\ manifest.head \in Nat
    BY <1>1, ConstantsOK DEF CachesBehind, Behind, TypeOK, Load, Manifest, Rev
  <2>3. \A r \in PendingLog(reading[q].m) : wal'[r] = wal[r]
    <3> SUFFICES ASSUME NEW r \in Rev, r <= reading[q].m.head PROVE r <= manifest.head
      BY <1>1 DEF PendingLog
    <3>1. r \in Nat
      BY ConstantsOK DEF Rev
    <3> QED
      BY <2>2, <3>1
  <2> QED
    BY <2>1, <2>3, OverlaidSame
\* A step after which a rewrite runs, or no load.
<1>2. ASSUME NEW u \in Tab, Rewriting(u)' PROVE LoadsSteady'
  BY <1>2 DEF LoadsSteady
<1>3. ASSUME manifest = None, reading' = reading PROVE LoadsSteady'
  BY <1>3 DEF LoadsSteady, CachesBehind, Behind
\* A step that leaves the disk, the lock and the tasks alone.
<1>4. ASSUME UNCHANGED <<disk, lock, task>>,
             \A q \in Tab : reading'[q] # reading[q] /\ reading'[q] # Idle =>
                \/ reading[q] # Idle /\ reading'[q].owed = reading[q].owed
                   /\ reading'[q].m = reading[q].m
                   /\ \A k \in Key : reading'[q].files[k] \in {reading[q].files[k], base[k]}
                \/ /\ manifest # None
                   /\ reading'[q].owed # None => /\ reading'[q].owed = Owed
                                                 /\ reading'[q].m = manifest
                   /\ \A k \in Key : reading'[q].files[k] = None
      PROVE  LoadsSteady'
  <2> SUFFICES ASSUME NEW q \in Tab, reading'[q] # Idle, reading'[q].owed # None,
                      reading'[q].m.pending = manifest.pending,
                      \A u \in Tab : ~Rewriting(u)
               PROVE  /\ reading'[q].owed = Overlaid(wal, base, reading'[q].m)
                      /\ \A k \in Key : reading'[q].files[k] # None
                                            => reading'[q].files[k] = base[k]
    BY <1>4 DEF LoadsSteady, Rewriting, disk
  <2>1. CASE reading'[q] = reading[q]
    BY <2>1 DEF LoadsSteady
  <2>2. CASE /\ reading[q] # Idle /\ reading'[q].owed = reading[q].owed
             /\ reading'[q].m = reading[q].m
             /\ \A k \in Key : reading'[q].files[k] \in {reading[q].files[k], base[k]}
    BY <2>2 DEF LoadsSteady
  <2>3. CASE /\ manifest # None /\ reading'[q].owed = Owed /\ reading'[q].m = manifest
             /\ \A k \in Key : reading'[q].files[k] = None
    <3>1. lock # None => ~Rewriting(lock)
      BY DEF TypeOK
    <3>2. Owed = Replay(base, manifest)
      BY <2>3, <3>1, OwedOnDisk
    <3> QED
      BY <2>3, <3>2, ReplayOverlaid
  <2> QED
    BY <1>4, <2>1, <2>2, <2>3
<1>5. CASE UNCHANGED vars
  BY <1>4, <1>5 DEF vars
<1> SUFFICES ASSUME NEW t \in Tab, Begin(t) \/ Step(t) \/ Read(t) \/ Fail(t) \/ Crash(t)
             PROVE  LoadsSteady'
  BY <1>5 DEF Next
<1>6. CASE Open(t) \/ (\E op : Conflict(t, op)) \/ SkipCompaction(t)
  BY <1>4, <1>6 DEF Open, Conflict, SkipCompaction, disk
<1>7. CASE LoadSnapshot(t)
  <2>1. manifest # None
    BY <1>7 DEF LoadSnapshot, KnownHead, CachesBehind, Behind
  <2>2. /\ reading'[t].owed # None => reading'[t].owed = Owed /\ reading'[t].m = manifest
        /\ \A k \in Key : reading'[t].files[k] = None
        /\ \A q \in Tab : q # t => reading'[q] = reading[q]
    BY <1>7 DEF LoadSnapshot, TypeOK
  <2>3. UNCHANGED <<disk, lock, task>>
    BY <1>7 DEF LoadSnapshot
  <2> QED
    BY <1>4, <2>1, <2>2, <2>3
<1>8. ASSUME NEW k \in Key, ReadFile(t, k) PROVE LoadsSteady'
  <2>1. reading[t] \in Load /\ reading[t] # Idle
    BY <1>8 DEF ReadFile, TypeOK
  <2>2. reading'[t] = [reading[t] EXCEPT !.files[k] = base[k]]
    BY <1>8 DEF ReadFile, TypeOK
  <2>3. /\ reading'[t].owed = reading[t].owed /\ reading'[t].m = reading[t].m
        /\ \A j \in Key : reading'[t].files[j] \in {reading[t].files[j], base[j]}
    BY <2>1, <2>2 DEF Load
  <2>4. UNCHANGED <<disk, lock, task>> /\ \A q \in Tab : q # t => reading'[q] = reading[q]
    BY <1>8 DEF ReadFile, TypeOK
  <2> QED
    BY <1>4, <2>1, <2>3, <2>4
<1>9. CASE ReadWal(t)
  <2>1. \A q \in Tab : reading'[q] = reading[q] \/ reading'[q] = Idle
    BY <1>9 DEF ReadWal, TypeOK
  <2> QED
    BY <1>4, <1>9, <2>1 DEF ReadWal
<1>10. CASE \/ Bootstrap(t) \/ ClearAll(t)
            \/ \E c \in Content, e \in Rev \cup {None}, r \in Rev, op \in {"import", "download"} :
                 ImportSnapshot(t, c, e, r, op)
  <2>1. Rewriting(t)'
    BY <1>10, ReplacementStarted DEF Rewriting
  <2> QED
    BY <1>2, <2>1
<1>11. CASE CompactNow(t)
  <2>1. Rewriting(t)'
    BY <1>11, CompactionStarted DEF Rewriting
  <2> QED
    BY <1>2, <2>1
<1>12. ASSUME NEW d \in Delta, NEW e \in Rev \cup {None}, NEW r \in Rev,
              NEW op \in {"commit", "bare"}, CommitDelta(t, d, e, r, op)
       PROVE  LoadsSteady'
  BY <1>1, <1>12, CommitStarted DEF disk
<1>13. CASE WriteWal(t)
  BY <1>1, <1>13, WalWritten
<1>14. CASE PublishCommit(t)
  <2>1. /\ manifest' = Committed(manifest, manifest.head + 1) /\ manifest \in Manifest
        /\ manifest # None /\ \A u \in Tab : ~Rewriting(u) /\ UNCHANGED <<base, wal, reading>>
    BY <1>14, CommitPublished
  <2>2. manifest.head \in Nat /\ manifest.pending \in Nat /\ manifest.pending <= manifest.head + 1
    BY <2>1, ConstantsOK DEF Manifest, Rev, PendingKnown
  <2>3. manifest'.pending = manifest.pending
    BY <2>1, <2>2 DEF Committed
  <2> QED
    BY <1>1, <2>1, <2>3
\* The loads that began before a rewrite ended are left out.
<1>15. CASE PublishBase(t)
  <2>1. /\ manifest'.pending = task[t].rev + 1 /\ UNCHANGED <<base, wal, reading>>
        /\ Rewriting(t) /\ task[t] \in RewriteTask
    BY <1>15, BasePublished DEF EmptyManifest
  <2>2. CASE manifest # None
    <3> SUFFICES ASSUME NEW q \in Tab, reading[q] # Idle
                 PROVE  reading[q].m.pending # manifest'.pending
      BY <2>1 DEF LoadsSteady
    <3>1. reading[q].m.pending <= manifest.pending /\ manifest.pending < task[t].rev + 1
      BY <2>1, <2>2 DEF CachesBehind, Behind, PendingKnown
    <3>2. reading[q].m.pending \in Nat /\ manifest.pending \in Nat /\ task[t].rev \in Nat
      BY <2>1, <2>2, ConstantsOK DEF TypeOK, Load, Manifest, RewriteTask, Rev
    <3> QED
      BY <2>1, <3>1, <3>2
  <2> QED
    BY <1>3, <2>1, <2>2
<1>16. ASSUME NEW r \in Rev, PatchMetaIfRevision(t, r) PROVE LoadsSteady'
  BY <1>1, <1>16, AckPublished
<1>17. CASE \/ ListWal(t)
            \/ \E k \in Key : RewriteFile(t, k)
            \/ \E r \in Rev, deleted \in BOOLEAN : DropWal(t, r, deleted)
  <2>1. Rewriting(t)'
    BY <1>17, RewriteGoesOn
  <2> QED
    BY <1>2, <2>1
<1>18. CASE Fail(t) \/ Crash(t)
  <2>1. UNCHANGED disk /\ \A q \in Tab : reading'[q] = reading[q] \/ reading'[q] = Idle
    BY <1>18 DEF Fail, Crash, TypeOK
  <2>2. CASE task[t] = Idle
    <3>1. lock # t
      BY <2>2 DEF IInv, Consistent, Serialized
    <3>2. UNCHANGED <<lock, task>>
      BY <1>18, <2>2, <3>1 DEF Fail, Crash, TypeOK
    <3> QED
      BY <1>4, <2>1, <3>2
  <2>3. CASE task[t] # Idle
    <3>1. manifest # None => \A u \in Tab : ~Rewriting(u)
      BY <1>18, <2>3, TaskStopped
    <3> QED
      BY <2>1, <3>1 DEF LoadsSteady, CachesBehind, Behind, disk
  <2> QED
    BY <2>2, <2>3
<1> QED
  BY <1>6, <1>7, <1>8, <1>9, <1>10, <1>11, <1>12, <1>13, <1>14, <1>15, <1>16, <1>17,
     <1>18 DEF Begin, Step, Read

-----------------------------------------------------------------------------
(***************************************************************************)
(* Caches and loads show the graph.                                        *)
(***************************************************************************)
\* The head stays: base files are read, or overwritten with what they owe, and
\* WAL files are deleted.
LEMMA FitsKept ==
    ASSUME TypeOK, TypeOK', CachesFit, Calm' => Calm /\ Owed' = Owed,
           manifest'.head = manifest.head,
           \A m \in Manifest : m.head = manifest.head =>
               \A r \in PendingLog(m) : wal'[r] = wal[r] \/ wal'[r] = None,
           Calm' => \A k \in Key : base'[k] = base[k] \/ base'[k] = Owed[k],
           Calm' => manifest' = manifest \/ ManifestFits(manifest)',
           \A t \in Tab :
              /\ mcache'[t] \in {None, mcache[t], manifest'}
              /\ reading'[t] \in {Idle, reading[t]} \/ (Calm' => LoadFits(t)')
              /\ scache'[t] \in {None, scache[t]} \/ (Calm' => SnapshotFits(t)')
    PROVE  CachesFit'
<1> SUFFICES ASSUME Calm'
             PROVE  /\ ManifestFits(manifest)'
                    /\ \A t \in Tab : /\ mcache'[t] # None => ManifestFits(mcache[t])'
                                      /\ LoadFits(t)'
                                      /\ SnapshotFits(t)'
  BY DEF CachesFit
<1>1. Owed' = Owed /\ manifest # None /\ \A k \in Key : base[k] # None
  BY ConstantsOK DEF Calm, TypeOK, Content, Entry
<1>2. ASSUME NEW m \in Manifest, NEW f, Shows(wal, m, manifest, Owed, f)
      PROVE  Shows(wal', m, manifest', Owed', f)
  <2>1. CASE m.head = manifest.head
    BY <1>1, <1>2, <2>1, ShowsKept
  <2>2. CASE m.head # manifest.head
    BY <2>2, ShowsOlder
  <2> QED
    BY <2>1, <2>2
<1>3. ASSUME NEW m \in Manifest, ManifestFits(m)
      PROVE  Shows(wal', m, manifest', Owed', base')
  <2>1. CASE m.head = manifest.head
    <3>1. Shows(wal, m, manifest, Owed, base)
      BY <1>3 DEF ManifestFits
    <3>2. \A k \in Key : base'[k] = base[k] \/ (base'[k] = Owed[k] /\ base[k] # None)
      BY <1>1
    <3> QED
      BY <1>1, <2>1, <3>1, <3>2, ShowsKept
  <2>2. CASE m.head # manifest.head
    BY <2>2, ShowsOlder
  <2> QED
    BY <2>1, <2>2
<1>4. ManifestFits(manifest)'
  <2>1. CASE manifest' = manifest
    <3>1. manifest \in Manifest /\ ManifestFits(manifest)
      BY <1>1 DEF TypeOK, CachesFit
    <3> QED
      BY <1>3, <2>1, <3>1 DEF ManifestFits
  <2> QED
    BY <2>1
<1> SUFFICES ASSUME NEW t \in Tab
             PROVE  /\ mcache'[t] # None => ManifestFits(mcache[t])'
                    /\ LoadFits(t)'
                    /\ SnapshotFits(t)'
  BY <1>4
<1>5. mcache'[t] # None => ManifestFits(mcache[t])'
  <2>1. CASE mcache'[t] = mcache[t] /\ mcache[t] # None
    <3>1. mcache[t] \in Manifest /\ ManifestFits(mcache[t])
      BY <2>1 DEF TypeOK, CachesFit
    <3> QED
      BY <1>3, <2>1, <3>1 DEF ManifestFits
  <2>2. CASE mcache'[t] = manifest'
    BY <1>4, <2>2 DEF ManifestFits
  <2> QED
    BY <2>1, <2>2
<1>6. LoadFits(t)'
  <2>1. CASE reading'[t] = Idle
    BY <2>1 DEF LoadFits
  <2>2. CASE reading'[t] = reading[t] /\ reading[t] # Idle
    <3>1. /\ reading[t].m \in Manifest /\ ManifestFits(reading[t].m)
          /\ Shows(wal, reading[t].m, manifest, Owed, reading[t].files)
      BY <2>2 DEF TypeOK, Load, CachesFit, LoadFits
    <3>2. Shows(wal', reading[t].m, manifest', Owed', base')
      BY <1>3, <3>1
    <3>3. Shows(wal', reading[t].m, manifest', Owed', reading[t].files)
      BY <1>2, <3>1
    <3> QED
      BY <2>2, <3>2, <3>3 DEF LoadFits, ManifestFits
  <2> QED
    BY <2>1, <2>2
<1>7. SnapshotFits(t)'
  BY <1>1 DEF CachesFit, SnapshotFits
<1> QED
  BY <1>5, <1>6, <1>7

\* The head moves on: what the tabs remember is of an older revision.
LEMMA FitsRaised ==
    ASSUME TypeOK, TypeOK', CachesBehind,
           manifest # None => manifest'.head > manifest.head,
           manifest' # None, ManifestFits(manifest)', reading' = reading,
           \A t \in Tab : /\ mcache'[t] \in {None, mcache[t], manifest'}
                          /\ scache'[t] \in {None, scache[t]} \/ SnapshotFits(t)'
    PROVE  CachesFit'
<1> SUFFICES ASSUME NEW t \in Tab
             PROVE  /\ mcache'[t] # None => ManifestFits(mcache[t])'
                    /\ LoadFits(t)'
                    /\ SnapshotFits(t)'
  BY DEF CachesFit
<1>1. ASSUME NEW m \in Manifest, Behind(m, manifest) PROVE m.head # manifest'.head
  <2>1. m.head \in Nat /\ manifest.head \in Nat /\ manifest'.head \in Nat
    BY <1>1, ConstantsOK DEF Behind, TypeOK, Manifest, Rev
  <2> QED
    BY <1>1, <2>1 DEF Behind
<1>2. mcache'[t] # None => ManifestFits(mcache[t])'
  <2>1. CASE mcache'[t] = mcache[t] /\ mcache[t] # None
    <3>1. mcache[t].head # manifest'.head
      BY <1>1, <2>1 DEF CachesBehind, TypeOK
    <3> QED
      BY <2>1, <3>1, ShowsOlder DEF ManifestFits
  <2>2. CASE mcache'[t] = manifest'
    BY <2>2 DEF ManifestFits
  <2> QED
    BY <2>1, <2>2
<1>3. LoadFits(t)'
  <2> SUFFICES ASSUME reading[t] # Idle PROVE LoadFits(t)'
    BY DEF LoadFits
  <2>1. reading[t].m.head # manifest'.head
    BY <1>1 DEF CachesBehind, TypeOK, Load
  <2> QED
    BY <2>1, ShowsOlder DEF LoadFits, ManifestFits
<1>4. SnapshotFits(t)'
  <2> SUFFICES ASSUME scache'[t] = scache[t], scache[t] # None
               PROVE  scache[t].rev # manifest'.head
    BY DEF SnapshotFits
  <2>1. /\ scache[t].rev \in Nat /\ manifest.head \in Nat /\ manifest'.head \in Nat
        /\ scache[t].rev <= manifest.head /\ manifest # None
    BY ConstantsOK DEF CachesBehind, TypeOK, Snapshot, Manifest, Rev
  <2> QED
    BY <2>1
<1> QED
  BY <1>2, <1>3, <1>4

\* A step without effect on files, lock and tasks shows the files it reads.
LEMMA FitsQuiet ==
    ASSUME TypeOK, TypeOK', CachesFit, UNCHANGED <<disk, lock, task>>,
           \A t \in Tab :
              /\ mcache'[t] \in {None, mcache[t], manifest}
              /\ \/ reading'[t] \in {Idle, reading[t]}
                 \/ \E k \in Key : ReadFile(t, k)
                 \/ LoadSnapshot(t)
              /\ scache'[t] \in {None, scache[t]} \/ ReadWal(t)
    PROVE  CachesFit'
<1>1. Owed' = Owed /\ (Calm' <=> Calm) /\ manifest' = manifest /\ base' = base /\ wal' = wal
  BY DEF Owed, Replay, PendingLog, Rewriting, disk, Calm, Compacting
<1>2. ASSUME NEW t \in Tab, Calm
      PROVE  reading'[t] \in {Idle, reading[t]} \/ LoadFits(t)'
  <2>1. ASSUME NEW k \in Key, ReadFile(t, k) PROVE LoadFits(t)'
    <3>1. reading[t] \in Load /\ reading[t] # Idle
      BY <2>1 DEF ReadFile, TypeOK
    <3>2. reading'[t] = [reading[t] EXCEPT !.files[k] = base[k]]
      BY <2>1 DEF ReadFile, TypeOK
    <3>3. /\ reading'[t].m = reading[t].m
          /\ \A j \in Key : \/ reading'[t].files[j] = reading[t].files[j]
                            \/ reading'[t].files[j] = base[j]
      BY <3>1, <3>2 DEF Load
    <3>4. /\ Shows(wal, reading[t].m, manifest, Owed, base)
          /\ Shows(wal, reading[t].m, manifest, Owed, reading[t].files)
      BY <1>2, <3>1 DEF CachesFit, LoadFits, ManifestFits
    <3>5. Shows(wal, reading[t].m, manifest, Owed, reading'[t].files)
      BY <3>3, <3>4, ShowsMixed
    <3> QED
      BY <1>1, <3>3, <3>4, <3>5 DEF LoadFits, ManifestFits
  <2>2. CASE LoadSnapshot(t)
    <3>1. /\ reading'[t].m \in {mcache[t], manifest} /\ reading'[t].m # None
          /\ \A k \in Key : reading'[t].files[k] = None
      BY <2>2 DEF LoadSnapshot, KnownHead, TypeOK
    <3>2. ManifestFits(reading'[t].m)
      BY <1>2, <3>1 DEF CachesFit
    <3>3. Shows(wal, reading'[t].m, manifest, Owed, reading'[t].files)
      BY <3>1 DEF Shows
    <3> QED
      BY <1>1, <3>2, <3>3 DEF LoadFits, ManifestFits
  <2> QED
    BY <2>1, <2>2
<1>3. ASSUME NEW t \in Tab, Calm
      PROVE  scache'[t] \in {None, scache[t]} \/ SnapshotFits(t)'
  <2> SUFFICES ASSUME ReadWal(t), scache'[t] # scache[t], scache'[t].rev = manifest.head
               PROVE  scache'[t].content = Owed
    BY <1>1 DEF SnapshotFits
  <2> DEFINE m == reading[t].m
             files == reading[t].files
  <2>1. /\ reading[t] # Idle /\ Loadable(m) /\ \A k \in Key : files[k] # None
        /\ scache'[t] = [rev |-> m.head, content |-> Replay(files, m)]
    BY DEF ReadWal, TypeOK
  <2>2. Shows(wal, m, manifest, Owed, files)
    BY <1>3, <2>1 DEF CachesFit, LoadFits
  <2>3. m.head = manifest.head /\ scache'[t].content = Replay(files, m)
    BY <2>1
  <2>4. \A k \in Key : Overlaid(wal, files, m)[k] = Owed[k]
    BY <2>1, <2>2, <2>3 DEF Shows, Loadable
  <2>5. Overlaid(wal, files, m) = [k \in Key |-> Overlaid(wal, files, m)[k]]
    BY DEF Overlaid
  <2>6. Owed = [k \in Key |-> Owed[k]]
    <3>1. manifest # None => Replay(base, manifest) \in Content
      BY ReplayType DEF TypeOK
    <3>2. lock # None /\ Rewriting(lock) => task[lock].before \in Content
      BY TaskCases DEF TypeOK, RewriteTask
    <3>3. Owed \in Content
      BY <3>1, <3>2, EmptyType DEF Owed
    <3> QED
      BY <3>3 DEF Content
  <2> HIDE DEF m, files
  <2> QED
    BY <2>3, <2>4, <2>5, <2>6, ReplayOverlaid
<1>4. \A t \in Tab : /\ mcache'[t] \in {None, mcache[t], manifest'}
                     /\ reading'[t] \in {Idle, reading[t]} \/ (Calm' => LoadFits(t)')
                     /\ scache'[t] \in {None, scache[t]} \/ (Calm' => SnapshotFits(t)')
  BY <1>1, <1>2, <1>3
<1> QED
  BY <1>1, <1>4, FitsKept

\* Every step keeps what caches and loads show.
LEMMA NextFits ==
    ASSUME "bare" \notin Ops, Faultless, IInv, IInv', NextRevision, CachesBehind,
           SnapshotsApplied, CachesFit, [Next]_vars
    PROVE  CachesFit'
<1> TypeOK /\ TypeOK' /\ Idle.pc = "idle"
  BY DEF IInv, Idle
<1>1. CASE UNCHANGED vars
  BY <1>1, FitsQuiet DEF vars, caches
<1> SUFFICES ASSUME NEW t \in Tab, Begin(t) \/ Step(t) \/ Read(t) \/ Fail(t) \/ Crash(t)
             PROVE  CachesFit'
  BY <1>1 DEF Next
<1>2. CASE Open(t)
  BY <1>2, FitsQuiet DEF Open, TypeOK, disk
<1>3. CASE (\E op : Conflict(t, op)) \/ SkipCompaction(t)
  BY <1>3, FitsQuiet DEF Conflict, SkipCompaction, Refresh, FreshHead, TypeOK, disk
<1>4. CASE Read(t)
  <2>1. CASE LoadSnapshot(t)
    BY <2>1, FitsQuiet DEF LoadSnapshot, KnownHead, TypeOK, disk
  <2>2. ASSUME NEW k \in Key, ReadFile(t, k) PROVE CachesFit'
    BY <2>2, FitsQuiet DEF ReadFile, TypeOK, disk, caches
  <2>3. CASE ReadWal(t)
    BY <2>3, FitsQuiet DEF ReadWal, TypeOK, disk
  <2> QED
    BY <1>4, <2>1, <2>2, <2>3 DEF Read
<1>5. CASE \/ Bootstrap(t) \/ ClearAll(t)
           \/ \E c \in Content, e \in Rev \cup {None}, r \in Rev, op \in {"import", "download"} :
                 ImportSnapshot(t, c, e, r, op)
  BY <1>5, ReplacementStarted DEF CachesFit
\* A task that starts and keeps the graph.
<1>6. ASSUME manifest # None, UNCHANGED <<disk, reading>>, Owed' = Owed,
             \A u \in Tab : ~Rewriting(u), mcache' = [mcache EXCEPT ![t] = manifest],
             \/ scache' = [scache EXCEPT ![t] = None]
             \/ scache' = [scache EXCEPT ![t] = [rev |-> manifest.head, content |-> Owed]]
      PROVE  CachesFit'
  <2>1. /\ manifest' = manifest /\ base' = base /\ wal' = wal /\ Calm
    BY <1>6, CalmWithoutRewrite DEF disk
  <2>2. \A u \in Tab : /\ mcache'[u] \in {None, mcache[u], manifest'}
                       /\ reading'[u] = reading[u]
                       /\ scache'[u] \in {None, scache[u]} \/ SnapshotFits(u)'
    BY <1>6, <2>1 DEF TypeOK, SnapshotFits
  <2> QED
    BY <1>6, <2>1, <2>2, FitsKept
<1>7. CASE CompactNow(t)
  BY <1>6, <1>7, CompactionStarted
<1>8. ASSUME NEW d \in Delta, NEW e \in Rev \cup {None}, NEW r \in Rev,
             NEW op \in {"commit", "bare"}, CommitDelta(t, d, e, r, op)
      PROVE  CachesFit'
  BY <1>6, <1>8, CommitStarted
<1>9. CASE WriteWal(t)
  <2>1. /\ manifest # None /\ UNCHANGED <<base, manifest, caches, reading>>
        /\ \A r \in Rev : r <= manifest.head => wal'[r] = wal[r]
        /\ \A u \in Tab : ~Rewriting(u) /\ Owed' = Owed
    BY <1>9, WalWritten
  <2>2. Calm
    BY <2>1, CalmWithoutRewrite
  <2>3. \A m \in Manifest : m.head = manifest.head =>
            \A r \in PendingLog(m) : wal'[r] = wal[r] \/ wal'[r] = None
    BY <2>1 DEF PendingLog
  <2>4. Owed' = Owed
    BY <1>9, WalWritten
  <2> QED
    BY <2>1, <2>2, <2>3, <2>4, FitsKept DEF caches
<1>10. CASE PublishCommit(t)
  <2>1. /\ manifest' = Committed(manifest, manifest.head + 1) /\ manifest \in Manifest
        /\ manifest # None /\ manifest' # None /\ UNCHANGED <<base, wal, reading>>
        /\ \A u \in Tab : ~Rewriting(u)'
        /\ Owed' = Apply(Owed, task[t].delta) /\ task[t].pc = "publish"
    BY <1>10, CommitPublished
  <2>2. manifest'.head > manifest.head
    BY <2>1, ConstantsOK DEF Committed, Manifest, Rev
  <2>3. ManifestFits(manifest)'
    <3>1. lock' # None => ~Rewriting(lock)'
      BY <1>10 DEF PublishCommit, Release
    <3>2. Owed' = Replay(base, manifest)'
      BY <2>1, <3>1 DEF Owed
    <3>3. Replay(base, manifest)' = Overlaid(wal', base', manifest')
      BY DEF Replay, Overlaid
    <3> QED
      BY <3>2, <3>3, ShowsItself DEF ManifestFits
  <2>4. task[t] \in CommitTask /\ task[t].snapshot = Owed'
    BY <2>1, TaskCases DEF SnapshotsApplied
  <2>5. Owed' # None
    <3>1. Owed' = Replay(base, manifest)' /\ manifest' \in Manifest
      <4>1. lock' # None => ~Rewriting(lock)'
        BY <1>10 DEF PublishCommit, Release
      <4> QED
        BY <2>1, <4>1 DEF Owed, TypeOK
    <3>2. Owed' \in Content
      <4>1. \A m \in Manifest : Replay(base, m) \in Content
        BY ReplayType DEF TypeOK
      <4>2. Replay(base, manifest)' = Replay(base, manifest')
        BY <2>1 DEF Replay, PendingLog
      <4> QED
        BY <3>1, <4>1, <4>2
    <3> QED
      BY <3>2, NoneIsNoData
  <2>6. /\ mcache' = [mcache EXCEPT ![t] = manifest']
        /\ scache'[t].content = Owed' /\ \A u \in Tab : u # t => scache'[u] = scache[u]
    BY <1>10, <2>4, <2>5 DEF PublishCommit, CommittedSnapshot, TypeOK
  <2>7. \A u \in Tab : /\ mcache'[u] \in {None, mcache[u], manifest'}
                       /\ scache'[u] \in {None, scache[u]} \/ SnapshotFits(u)'
    BY <2>6 DEF TypeOK, SnapshotFits
  <2> QED
    BY <2>1, <2>2, <2>3, <2>7, FitsRaised
<1>11. CASE PublishBase(t)
  <2>1. /\ manifest' = EmptyManifest(task[t].rev, task[t].dirty, task[t].edited)
        /\ manifest' # None /\ UNCHANGED <<base, wal, reading>>
        /\ Rewriting(t) /\ task[t] \in RewriteTask /\ lock = t
        /\ \A u \in Tab : u # t => task[u] = Idle
        /\ Owed' = task[t].target /\ base = task[t].target /\ PendingLog(manifest') = {}
    BY <1>11, BasePublished
  <2>2. ManifestFits(manifest)'
    <3>1. \A k \in Key : Overlaid(wal', base', manifest')[k] = Owed'[k]
      BY <2>1 DEF Overlaid
    <3> QED
      BY <3>1 DEF ManifestFits, Shows
  <2>3. /\ mcache' = [mcache EXCEPT ![t] = manifest']
        /\ scache'[t].content = Owed' /\ \A u \in Tab : u # t => scache'[u] = scache[u]
    BY <1>11, <2>1 DEF PublishBase, TypeOK
  <2>4. \A u \in Tab : /\ mcache'[u] \in {None, mcache[u], manifest'}
                       /\ reading'[u] = reading[u]
                       /\ scache'[u] \in {None, scache[u]} \/ SnapshotFits(u)'
    BY <2>1, <2>3 DEF TypeOK, SnapshotFits
  <2>5. manifest'.head = task[t].rev
    BY <2>1 DEF EmptyManifest
  <2>6. CASE manifest # None /\ task[t].rev = manifest.head
    <3>1. Calm
      BY <2>1, <2>6 DEF Calm, Compacting, Rewriting
    <3>2. Owed = task[t].before /\ task[t].target = task[t].before
      BY <2>1, <2>6, ConstantsOK DEF Owed, IInv, Consistent, RewriteConsistent
    <3> QED
      BY <2>1, <2>2, <2>4, <2>5, <2>6, <3>1, <3>2, FitsKept
  <2>7. CASE manifest # None => task[t].rev # manifest.head
    <3>1. manifest # None => manifest'.head > manifest.head
      <4> SUFFICES ASSUME manifest # None PROVE task[t].rev > manifest.head
        BY <2>5
      <4>1. task[t].rev >= manifest.head
        BY <2>1 DEF IInv, Consistent, RewriteConsistent
      <4>2. task[t].rev \in Nat /\ manifest.head \in Nat
        BY <2>1, ConstantsOK DEF TypeOK, RewriteTask, Manifest, Rev
      <4> QED
        BY <2>7, <4>1, <4>2
    <3> QED
      BY <2>1, <2>2, <2>4, <3>1, FitsRaised
  <2> QED
    BY <2>6, <2>7
<1>12. ASSUME NEW r \in Rev, PatchMetaIfRevision(t, r) PROVE CachesFit'
  <2>1. /\ manifest # None /\ manifest' # None /\ manifest'.head = manifest.head
        /\ PendingLog(manifest') = PendingLog(manifest)
        /\ UNCHANGED <<base, wal, task, lock, reading>>
        /\ \A u \in Tab : ~Rewriting(u)
        /\ mcache' = [mcache EXCEPT ![t] = manifest']
        /\ scache' = [scache EXCEPT ![t] = None] /\ Owed' = Owed
    BY <1>12, AckPublished
  <2>2. Calm
    BY <2>1, CalmWithoutRewrite
  <2>3. ManifestFits(manifest)'
    <3>1. Shows(wal, manifest, manifest, Owed, base)
      BY <2>2 DEF CachesFit, ManifestFits
    <3> QED
      BY <2>1, <3>1 DEF ManifestFits, Shows, Overlaid
  <2>4. \A u \in Tab : /\ mcache'[u] \in {None, mcache[u], manifest'}
                       /\ reading'[u] = reading[u]
                       /\ scache'[u] \in {None, scache[u]}
    BY <2>1 DEF TypeOK
  <2> QED
    BY <2>1, <2>2, <2>3, <2>4, FitsKept
<1>13. CASE \/ ListWal(t)
            \/ \E k \in Key : RewriteFile(t, k)
            \/ \E r \in Rev, deleted \in BOOLEAN : DropWal(t, r, deleted)
  <2>1. /\ Rewriting(t) /\ Rewriting(t)' /\ lock = t
        /\ UNCHANGED <<manifest, caches, reading>>
        /\ \A u \in Tab : u # t => task[u] = Idle
        /\ task'[t].rev = task[t].rev /\ Owed' = Owed
        /\ \A k \in Key : base'[k] = base[k] \/ base'[k] = task[t].target[k]
        /\ \A r \in Rev : wal'[r] = wal[r] \/ wal'[r] = None
    BY <1>13, RewriteGoesOn
  <2>2. Calm' => manifest # None /\ task[t].rev = manifest.head
    BY <2>1 DEF Calm, Compacting
  <2>3. Calm' => Calm
    BY <2>1, <2>2 DEF Calm, Compacting, Rewriting
  <2>4. Calm' => Owed = task[t].target
    BY <2>1, <2>2, ConstantsOK DEF Owed, IInv, Consistent, RewriteConsistent
  <2>5. Calm' => \A k \in Key : base'[k] = base[k] \/ base'[k] = Owed[k]
    BY <2>1, <2>4
  <2>6. \A m \in Manifest : m.head = manifest.head =>
            \A r \in PendingLog(m) : wal'[r] = wal[r] \/ wal'[r] = None
    BY <2>1 DEF PendingLog
  <2>7. manifest' = manifest /\ Owed' = Owed
    BY <2>1
  <2>8. \A u \in Tab : /\ mcache'[u] = mcache[u] /\ reading'[u] = reading[u]
                       /\ scache'[u] = scache[u]
    BY <2>1 DEF caches
  <2> QED
    BY <2>3, <2>5, <2>6, <2>7, <2>8, FitsKept
<1>14. CASE Fail(t) \/ Crash(t)
  <2>1. \A u \in Tab : /\ mcache'[u] \in {None, mcache[u]}
                       /\ reading'[u] \in {Idle, reading[u]}
                       /\ scache'[u] \in {None, scache[u]}
    BY <1>14 DEF Fail, Crash, TypeOK, caches
  <2>2. CASE task[t] = Idle
    <3>1. lock # t
      BY <2>2 DEF IInv, Consistent, Serialized
    <3>2. UNCHANGED <<disk, lock, task>>
      BY <1>14, <2>2, <3>1 DEF Fail, Crash, TypeOK
    <3> QED
      BY <2>1, <3>2, FitsQuiet
  <2>3. CASE task[t] # Idle
    <3>1. /\ UNCHANGED <<base, wal, manifest>>
          /\ manifest # None => Owed' = Owed /\ \A u \in Tab : ~Rewriting(u)
      BY <1>14, <2>3, TaskStopped DEF disk
    <3>2. Calm' => Calm /\ Owed' = Owed
      BY <3>1, CalmWithoutRewrite DEF Calm
    <3> QED
      BY <2>1, <3>1, <3>2, FitsKept
  <2> QED
    BY <2>2, <2>3
<1> QED
  BY <1>2, <1>3, <1>4, <1>5, <1>7, <1>8, <1>9, <1>10, <1>11, <1>12, <1>13, <1>14
     DEF Begin, Step

-----------------------------------------------------------------------------
(***************************************************************************)
(* The two theorems about reads.                                           *)
(***************************************************************************)
\* The invariant of loads.
LoadsInv == IInv /\ NextRevision /\ LogKept /\ PendingKnown /\ CachesBehind /\ LoadsSteady

\* It is an invariant.
LEMMA LoadsInvariance == ASSUME Faultless PROVE Spec => []LoadsInv
<1>1. Init => NextRevision /\ LogKept /\ PendingKnown /\ CachesBehind /\ LoadsSteady
  BY DEF Init, NextRevision, LogKept, PendingKnown, CachesBehind, LoadsSteady, Idle
<1>2. IInv /\ IInv' /\ NextRevision /\ LogKept /\ [Next]_vars => NextRevision' /\ LogKept'
  BY NextLog
<1>3. IInv /\ IInv' /\ NextRevision /\ PendingKnown /\ CachesBehind /\ LoadsSteady
      /\ [Next]_vars => PendingKnown' /\ CachesBehind' /\ LoadsSteady'
  BY NextPending, NextBehind, NextSteady
<1> QED
  BY <1>1, <1>2, <1>3, Invariance, PTL DEF Spec, LoadsInv

\* A snapshot that _snapshotCache serves as the head's is the one on disk, for
\* callers that commit with their own snapshot.
THEOREM CacheCorrect ==
    ASSUME Faultless, "bare" \notin Ops
    PROVE  Spec => []CacheExact
<1>1. Init => SnapshotsApplied /\ CachesFit
  BY DEF Init, SnapshotsApplied, CachesFit, Calm, Idle
<1>2. IInv /\ IInv' /\ NextRevision /\ CachesBehind /\ SnapshotsApplied /\ CachesFit
      /\ [Next]_vars => SnapshotsApplied' /\ CachesFit'
  BY NextSnapshots, NextFits
<1>3. IInv /\ CachesFit => CacheExact
  <2> SUFFICES ASSUME IInv, CachesFit, NEW t \in Tab, scache[t] # None, lock = None,
                      manifest # None, scache[t].rev = manifest.head
               PROVE  scache[t].content = Replay(base, manifest)
    BY DEF CacheExact
  <2>1. \A u \in Tab : ~Rewriting(u)
    BY ConstantsOK DEF IInv, Consistent, Serialized, Rewriting, Idle
  <2>2. Calm /\ Owed = Replay(base, manifest)
    BY <2>1, CalmWithoutRewrite, OwedOnDisk
  <2> QED
    BY <2>2 DEF CachesFit, SnapshotFits
<1> QED
  BY <1>1, <1>2, <1>3, LoadsInvariance, PTL DEF Spec, LoadsInv

\* An export without the lock is the graph of one revision, as long as no rewrite
\* of the base overlaps it.
THEOREM ExportCorrect == ASSUME Faultless PROVE Spec => ExportExact
<1> DEFINE Exported ==
        \A t \in Tab :
          LET l == reading[t] IN
          (/\ l # Idle /\ reading'[t] = Idle /\ scache'[t] # scache[t] /\ t \in isOpen'
           /\ l.owed # None
           /\ l.m.pending = manifest.pending
           /\ \A u \in Tab : ~Rewriting(u))
          => scache'[t].content = l.owed
<1>1. LoadsInv /\ [Next]_vars => [Exported]_vars
  <2> SUFFICES ASSUME LoadsInv, Next, NEW t \in Tab,
                      reading[t] # Idle, reading'[t] = Idle, scache'[t] # scache[t],
                      t \in isOpen', reading[t].owed # None,
                      reading[t].m.pending = manifest.pending,
                      \A u \in Tab : ~Rewriting(u)
               PROVE  scache'[t].content = reading[t].owed
    OBVIOUS
  <2> TypeOK
    BY DEF LoadsInv, IInv
  <2>1. PICK u \in Tab : Begin(u) \/ Step(u) \/ Read(u) \/ Fail(u) \/ Crash(u)
    BY DEF Next
  <2>2. ReadWal(u) /\ u = t
    <3>1. CASE reading' = reading
      BY <3>1
    <3>2. CASE LoadSnapshot(u)
      BY <3>2 DEF LoadSnapshot, TypeOK
    <3>3. ASSUME NEW k \in Key, ReadFile(u, k) PROVE FALSE
      BY <3>3 DEF ReadFile, caches
    <3>4. CASE Crash(u)
      BY <3>4 DEF Crash, TypeOK
    <3>5. CASE Begin(u) \/ Step(u) \/ Fail(u)
      BY <3>1, <3>5 DEF Begin, Step, Open, Bootstrap, CompactNow, SkipCompaction,
         CommitDelta, Conflict, ImportSnapshot, ClearAll, WriteWal, RewriteFile, ListWal,
         DropWal, PublishCommit, PublishBase, PatchMetaIfRevision, Fail, disk, caches
    <3>6. CASE ReadWal(u)
      BY <3>6 DEF ReadWal, TypeOK
    <3> QED
      BY <2>1, <3>2, <3>3, <3>4, <3>5, <3>6 DEF Read
  <2>3. /\ \A k \in Key : reading[t].files[k] # None
        /\ scache'[t].content = Replay(reading[t].files, reading[t].m)
    BY <2>2 DEF ReadWal, TypeOK
  <2>4. /\ reading[t].owed = Overlaid(wal, base, reading[t].m)
        /\ \A k \in Key : reading[t].files[k] = base[k]
    BY <2>3 DEF LoadsInv, LoadsSteady
  <2>5. Overlaid(wal, reading[t].files, reading[t].m) = Overlaid(wal, base, reading[t].m)
    BY <2>4 DEF Overlaid
  <2> QED
    BY <2>3, <2>4, <2>5, ReplayOverlaid
<1> QED
  BY <1>1, LoadsInvariance, PTL DEF Spec, ExportExact
=============================================================================
