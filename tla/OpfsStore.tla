----------------------------- MODULE OpfsStore ------------------------------
(***************************************************************************)
(* OpfsGraphStore (src/sync/bme-opfs-store.js): the graph of one chat in   *)
(* the browser's origin-private file system.  The directory of the chat    *)
(* holds the base files (one per shard bucket, one per runtime meta key),  *)
(* one WAL file per committed delta and a manifest that says which base    *)
(* and which WAL files make up the current revision.  Every file write is  *)
(* atomic, a sequence of them is not.  Several tabs open the same          *)
(* directory; their write tasks are serialized by one Web Lock, their      *)
(* reads are not.                                                          *)
(***************************************************************************)
EXTENDS Naturals

CONSTANTS Tab,            \* store instances, one per browser tab
          Readers,        \* the tabs that export snapshots
          Key, Value, Absent, Keep,
          None,           \* no file, no cached value, no holder
          Ops,            \* the write operations callers use: commits with
                          \* and without a snapshot, imports that mark the
                          \* store dirty and Cloud Sync's downloads that do
                          \* not, clears, sync acks
          CompactAt,      \* OPFS_V2_WAL_COMPACTION_THRESHOLD
          MaxRev,         \* bound on the revisions explored
          MaxSkip,        \* how far a requested revision may be past head + 1
          RewriteFaults   \* may a base rewrite be cut short?

ASSUME ConstantsOK ==
    /\ None \notin Tab \cup Value \cup {Absent, Keep}
    /\ Absent # Keep /\ {Absent, Keep} \cap Value = {}
    /\ Readers \subseteq Tab
    /\ Ops \subseteq {"commit", "bare", "import", "download", "clear", "ack"}
    /\ CompactAt \in Nat \ {0} /\ MaxRev \in Nat /\ MaxSkip \in Nat
    /\ RewriteFaults \in BOOLEAN

Entry   == Value \cup {Absent}
Content == [Key -> Entry]
Delta   == [Key -> Entry \cup {Keep}] \ {[k \in Key |-> Keep]}
Rev     == 0..MaxRev

Empty       == [k \in Key |-> Absent]
Apply(c, d) == [k \in Key |-> IF d[k] = Keep THEN c[k] ELSE d[k]]

VARIABLES
    base,       \* base files: the content of every shard and meta file
    wal,        \* WAL files: the delta of each revision, None if no file
    manifest,   \* manifest.json, None before the first bootstrap
    lock,       \* holder of the Web Lock st-bme-opfs:<chatId>
    isOpen,     \* tabs whose store is open
    task,       \* the write task each tab runs
    due,        \* tabs with a scheduled compaction
    mcache,     \* _manifestCache of each tab
    scache,     \* _snapshotCache of each tab
    reading     \* the snapshot load each tab runs

disk   == <<base, wal, manifest>>
caches == <<mcache, scache>>
vars   == <<disk, lock, isOpen, task, due, caches, reading>>

-----------------------------------------------------------------------------
(***************************************************************************)
(* What a manifest describes.  The field edited is auxiliary: the newest   *)
(* revision made here that Cloud Sync was not given, 0 if there is none.   *)
(***************************************************************************)
Manifest == [head : Rev, pending : Nat, count : Nat,
             dirty : BOOLEAN, edited : Rev]

\* Seeded fault: the base revision itself still counts as pending.
BaseStillPending(r, isDirty, edit) ==
    [head |-> r, pending |-> r, count |-> 0, dirty |-> isDirty, edited |-> edit]

EmptyManifest(r, isDirty, edit) ==
    [head |-> r, pending |-> r + 1, count |-> 0, dirty |-> isDirty, edited |-> edit]

\* Seeded fault: WAL files past the head are replayed too.
UnboundedLog(m) == {r \in Rev : m.pending <= r /\ wal[r] # None}

PendingLog(m) == {r \in Rev : m.pending <= r /\ r <= m.head}

\* _readWalRecords throws on a gap, a missing tail or a missing record.
Loadable(m) == \A r \in PendingLog(m) : wal[r] # None

Latest(S) == CHOOSE r \in S : \A q \in S : q <= r

\* The base overlaid with the pending WAL, replayed in revision order: of
\* each file only the last delta that touches it shows.
Replay(files, m) ==
    [k \in Key |->
        LET touching == {r \in PendingLog(m) : wal[r] # None /\ wal[r][k] # Keep}
        IN  IF touching = {} THEN files[k] ELSE wal[Latest(touching)][k]]

Snapshot == [rev : Rev, content : Content]

ASSUME NoneIsNoData == None \notin Delta \cup Content \cup Manifest

-----------------------------------------------------------------------------
(***************************************************************************)
(* Write tasks: a commit writes its WAL file, then publishes the manifest; *)
(* a rewrite of the base overwrites the base files in place, drops the WAL *)
(* files, then publishes the manifest.                                     *)
(***************************************************************************)
Idle == [pc |-> "idle"]

CommitTask == [pc : {"wal", "publish"}, rev : Rev, expected : Rev \cup {None},
               delta : Delta, snapshot : Content \cup {None}]

RewriteTask == [pc : {"files", "drop"}, rev : Rev, expected : Rev \cup {None},
                target : Content, todo : SUBSET Key, stale : SUBSET Rev,
                dirty : BOOLEAN, edited : Rev,
                before : Content]   \* auxiliary: what the store held at its start

Load == [pc : {"read"}, m : Manifest, files : [Key -> Entry \cup {None}],
         owed : Content \cup {None}]   \* auxiliary: the graph of revision m.head

TypeOK ==
    /\ base \in Content
    /\ wal \in [Rev -> Delta \cup {None}]
    /\ manifest \in Manifest \cup {None}
    /\ lock \in Tab \cup {None}
    /\ isOpen \in SUBSET Tab
    /\ task \in [Tab -> {Idle} \cup CommitTask \cup RewriteTask]
    /\ due \in SUBSET Tab
    /\ mcache \in [Tab -> Manifest \cup {None}]
    /\ scache \in [Tab -> Snapshot \cup {None}]
    /\ reading \in [Tab -> {Idle} \cup Load]

Init ==
    /\ base = Empty
    /\ wal = [r \in Rev |-> None]
    /\ manifest = None
    /\ lock = None
    /\ isOpen = {}
    /\ task = [t \in Tab |-> Idle]
    /\ due = {}
    /\ mcache = [t \in Tab |-> None]
    /\ scache = [t \in Tab |-> None]
    /\ reading = [t \in Tab |-> Idle]

-----------------------------------------------------------------------------
(***************************************************************************)
(* _runSerializedWrite: the task waits for the lock, then forgets both     *)
(* caches and reads the manifest from disk.                                *)
(***************************************************************************)
Acquire(t) == lock = None /\ task[t] = Idle

Release(t) == /\ lock' = None
              /\ task' = [task EXCEPT ![t] = Idle]

Run(t, job) == /\ lock' = t
               /\ task' = [task EXCEPT ![t] = job]

\* Seeded fault: the manifest cached before the lock was granted is trusted.
CachedHead(t) == IF mcache[t] # None THEN mcache[t] ELSE manifest

FreshHead(t) == manifest

Refresh(t, snapshot) ==
    /\ mcache' = [mcache EXCEPT ![t] = FreshHead(t)]
    /\ scache' = [scache EXCEPT ![t] = snapshot]

Writable(t, op) == op \in Ops /\ t \in isOpen /\ Acquire(t)

\* The revision an operation gets: head + 1, or the larger one its caller
\* asked for.
Granted(r, head) == r \in Rev /\ head < r /\ r <= head + 1 + MaxSkip

Rewriting(t) == task[t].pc \in {"files", "drop"}

Rewrite(r, e, target, isDirty, edit, before) ==
    [pc |-> "files", rev |-> r, expected |-> e, target |-> target,
     todo |-> Key, stale |-> {}, dirty |-> isDirty, edited |-> edit,
     before |-> before]

\* open() on a directory that has a manifest caches it; a directory without
\* one is bootstrapped by a rewrite.
Open(t) ==
    /\ t \notin isOpen
    /\ manifest # None
    /\ isOpen' = isOpen \cup {t}
    /\ mcache' = [mcache EXCEPT ![t] = manifest]
    /\ UNCHANGED <<disk, lock, task, due, scache, reading>>

Bootstrap(t) ==
    /\ t \notin isOpen
    /\ manifest = None
    /\ Acquire(t)
    /\ isOpen' = isOpen \cup {t}
    /\ Run(t, Rewrite(0, None, Empty, FALSE, 0, Empty))
    /\ Refresh(t, None)
    /\ UNCHANGED <<disk, due, reading>>

-----------------------------------------------------------------------------
(***************************************************************************)
(* commitDelta.  A caller that passes a base revision (e) is compared with *)
(* the head; graph persistence also passes its own copy of the resulting   *)
(* snapshot ("commit"), the other callers do not ("bare").                 *)
(***************************************************************************)
CommitDelta(t, d, e, r, op) ==
    LET m == FreshHead(t) IN
    /\ Writable(t, op)
    /\ e \in {None, m.head}
    /\ Granted(r, m.head)
    /\ op = "commit" => e # None /\ Loadable(m)
    /\ Run(t, [pc |-> "wal", rev |-> r, expected |-> e, delta |-> d,
               snapshot |-> IF op = "commit" THEN Apply(Replay(base, m), d)
                                             ELSE None])
    /\ Refresh(t, None)
    /\ UNCHANGED <<disk, isOpen, due, reading>>

\* A base revision (or an import's expected revision) other than the head, or
\* a download that requires a clean store and finds a dirty one.
Conflict(t, op) ==
    /\ Writable(t, op)
    /\ Refresh(t, None)
    /\ UNCHANGED <<disk, lock, isOpen, task, due, reading>>

WriteWal(t) ==
    /\ task[t].pc = "wal"
    /\ wal' = [wal EXCEPT ![task[t].rev] = task[t].delta]
    /\ task' = [task EXCEPT ![t].pc = "publish"]
    /\ UNCHANGED <<base, manifest, lock, isOpen, due, caches, reading>>

\* Seeded fault: pendingLogFromRevision moves although older WAL is pending.
CommittedForgetful(m, r) ==
    [head |-> r, pending |-> r, count |-> m.count + 1,
     dirty |-> TRUE, edited |-> r]

Committed(m, r) ==
    [head |-> r, pending |-> IF m.pending <= m.head THEN m.pending ELSE r,
     count |-> m.count + 1, dirty |-> TRUE, edited |-> r]

\* Seeded faults: the cached snapshot is always advanced by the delta; the
\* cache takes the delta for the graph.
CommittedIncrementally(t) ==
    IF scache[t] # None
    THEN [rev |-> task[t].rev, content |-> Apply(scache[t].content, task[t].delta)]
    ELSE None
CommittedDelta(t) == [rev |-> task[t].rev, content |-> task[t].delta]

\* The snapshot cache takes the caller's snapshot, or else the delta is
\* applied to whatever snapshot the tab has cached by now.
CommittedSnapshot(t) ==
    LET c == task[t] IN
    IF c.snapshot # None THEN [rev |-> c.rev, content |-> c.snapshot]
    ELSE IF scache[t] # None
         THEN [rev |-> c.rev, content |-> Apply(scache[t].content, c.delta)]
         ELSE None

PublishCommit(t) ==
    /\ task[t].pc = "publish"
    /\ manifest' = Committed(mcache[t], task[t].rev)
    /\ mcache' = [mcache EXCEPT ![t] = manifest']
    /\ scache' = [scache EXCEPT ![t] = CommittedSnapshot(t)]
    /\ due' = IF manifest'.count >= CompactAt THEN due \cup {t} ELSE due
    /\ Release(t)
    /\ UNCHANGED <<base, wal, isOpen, reading>>

-----------------------------------------------------------------------------
(***************************************************************************)
(* Operations that rewrite the base.                                       *)
(***************************************************************************)
\* importSnapshot in replace mode.  It marks the store dirty unless its caller
\* says otherwise, as Cloud Sync does for a graph it has downloaded.
ImportSnapshot(t, c, e, r, op) ==
    LET m == FreshHead(t)
        edit == IF op = "download" THEN 0 ELSE r
    IN
    /\ Writable(t, op)
    /\ e \in {None, m.head}
    /\ Granted(r, m.head)
    /\ Run(t, Rewrite(r, e, c, op # "download", edit, Replay(base, m)))
    /\ Refresh(t, None)
    /\ UNCHANGED <<disk, isOpen, due, reading>>

ClearAll(t) ==
    LET m == FreshHead(t) IN
    /\ Writable(t, "clear")
    /\ m.head + 1 \in Rev
    /\ Run(t, Rewrite(m.head + 1, None, Empty, TRUE, m.head + 1, Replay(base, m)))
    /\ Refresh(t, None)
    /\ UNCHANGED <<disk, isOpen, due, reading>>

\* The compaction a commit scheduled.  It gives up when it finds too few WAL
\* files or a store that does not load.
CompactNow(t) ==
    LET m == FreshHead(t)
        c == Replay(base, m)
    IN
    /\ t \in due /\ Acquire(t)
    /\ m.count >= CompactAt /\ Loadable(m)
    /\ Run(t, Rewrite(m.head, None, c, m.dirty, m.edited, c))
    /\ Refresh(t, [rev |-> m.head, content |-> c])
    /\ UNCHANGED <<disk, isOpen, due, reading>>

SkipCompaction(t) ==
    /\ t \in due /\ Acquire(t)
    /\ FreshHead(t).count < CompactAt \/ ~Loadable(FreshHead(t))
    /\ due' = due \ {t}
    /\ Refresh(t, None)
    /\ UNCHANGED <<disk, lock, isOpen, task, reading>>

\* _rewriteBaseFromSnapshot overwrites the base files one by one, ...
RewriteFile(t, k) ==
    /\ task[t].pc = "files"
    /\ k \in task[t].todo
    /\ base' = [base EXCEPT ![k] = task[t].target[k]]
    /\ task' = [task EXCEPT ![t].todo = @ \ {k}]
    /\ UNCHANGED <<wal, manifest, lock, isOpen, due, caches, reading>>

\* ... lists the WAL files ...
ListWal(t) ==
    /\ task[t].pc = "files"
    /\ task[t].todo = {}
    /\ task' = [task EXCEPT ![t].pc = "drop",
                            ![t].stale = {r \in Rev : wal[r] # None}]
    /\ UNCHANGED <<disk, lock, isOpen, due, caches, reading>>

\* ... and deletes them, ignoring a deletion that fails ...
DropWal(t, r, deleted) ==
    /\ task[t].pc = "drop"
    /\ r \in task[t].stale
    /\ wal' = IF deleted THEN [wal EXCEPT ![r] = None] ELSE wal
    /\ task' = [task EXCEPT ![t].stale = @ \ {r}]
    /\ UNCHANGED <<base, manifest, lock, isOpen, due, caches, reading>>

Compacting(t) == Rewriting(t) /\ manifest # None /\ task[t].rev = manifest.head

\* ... before the manifest names the new base.
PublishBase(t) ==
    /\ task[t].pc = "drop"
    /\ task[t].stale = {}
    /\ manifest' = EmptyManifest(task[t].rev, task[t].dirty, task[t].edited)
    /\ mcache' = [mcache EXCEPT ![t] = manifest']
    /\ scache' = [scache EXCEPT ![t] = [rev |-> task[t].rev,
                                        content |-> task[t].target]]
    /\ due' = IF Compacting(t) THEN due \ {t} ELSE due
    /\ Release(t)
    /\ UNCHANGED <<base, wal, isOpen, reading>>

-----------------------------------------------------------------------------
(***************************************************************************)
(* patchMetaIfRevision, as Cloud Sync calls it once it has published or    *)
(* downloaded revision r: the dirty flag goes only if r still is the head, *)
(* and is set if it is not.  lastSyncedRevision is data of Cloud Sync.     *)
(***************************************************************************)
\* Seeded fault: the acknowledgement ignores commits made during the upload.
AcknowledgedBlindly(m, r) ==
    [m EXCEPT !.dirty = FALSE, !.edited = IF m.edited <= r THEN 0 ELSE m.edited]

Acknowledged(m, r) ==
    [m EXCEPT !.dirty = (r # m.head), !.edited = IF m.edited <= r THEN 0 ELSE m.edited]

PatchMetaIfRevision(t, r) ==
    /\ Writable(t, "ack")
    /\ r <= FreshHead(t).head
    /\ manifest' = Acknowledged(FreshHead(t), r)
    /\ mcache' = [mcache EXCEPT ![t] = manifest']
    /\ scache' = [scache EXCEPT ![t] = None]
    /\ UNCHANGED <<base, wal, lock, isOpen, task, due, reading>>

-----------------------------------------------------------------------------
(***************************************************************************)
(* _loadSnapshot on behalf of a reader: after the tab's own writes have    *)
(* settled, without the lock, from the manifest the tab has cached.        *)
(***************************************************************************)
\* What callers are owed: while the base is being rewritten, the graph from
\* before.
Owed == IF manifest = None THEN Empty
        ELSE IF lock # None /\ Rewriting(lock) THEN task[lock].before
        ELSE Replay(base, manifest)

Cached(t, m) == scache[t] # None /\ scache[t].rev = m.head

KnownHead(t) == IF mcache[t] # None THEN mcache[t] ELSE manifest

LoadSnapshot(t) ==
    LET m == KnownHead(t) IN
    /\ t \in Readers \cap isOpen
    /\ task[t] = Idle /\ reading[t] = Idle
    /\ m # None
    /\ ~Cached(t, m)
    /\ mcache' = [mcache EXCEPT ![t] = m]
    /\ reading' = [reading EXCEPT ![t] =
                      [pc |-> "read", m |-> m, files |-> [k \in Key |-> None],
                       owed |-> IF m = manifest THEN Owed ELSE None]]
    /\ UNCHANGED <<disk, lock, isOpen, task, due, scache>>

ReadFile(t, k) ==
    /\ reading[t] # Idle
    /\ reading[t].files[k] = None
    /\ reading' = [reading EXCEPT ![t].files[k] = base[k]]
    /\ UNCHANGED <<disk, lock, isOpen, task, due, caches>>

\* The WAL is read last.  A load that throws leaves the cache alone.
ReadWal(t) ==
    LET m == reading[t].m IN
    /\ reading[t] # Idle
    /\ \A k \in Key : reading[t].files[k] # None
    /\ reading' = [reading EXCEPT ![t] = Idle]
    /\ scache' = IF Loadable(m)
                 THEN [scache EXCEPT ![t] =
                         [rev |-> m.head, content |-> Replay(reading[t].files, m)]]
                 ELSE scache
    /\ UNCHANGED <<disk, lock, isOpen, task, due, mcache>>

-----------------------------------------------------------------------------
(***************************************************************************)
(* A file operation throws, or the tab goes away.                          *)
(***************************************************************************)
Interruptible(t) == Rewriting(t) => RewriteFaults \/ manifest = None

Fail(t) ==
    /\ task[t] # Idle
    /\ Interruptible(t)
    /\ Release(t)
    /\ isOpen' = IF manifest = None THEN isOpen \ {t} ELSE isOpen
    /\ due' = IF Compacting(t) THEN due \ {t} ELSE due
    /\ UNCHANGED <<disk, caches, reading>>

Crash(t) ==
    /\ t \in isOpen
    /\ Interruptible(t)
    /\ isOpen' = isOpen \ {t}
    /\ lock' = IF lock = t THEN None ELSE lock
    /\ task' = [task EXCEPT ![t] = Idle]
    /\ due' = due \ {t}
    /\ mcache' = [mcache EXCEPT ![t] = None]
    /\ scache' = [scache EXCEPT ![t] = None]
    /\ reading' = [reading EXCEPT ![t] = Idle]
    /\ UNCHANGED disk

-----------------------------------------------------------------------------
Begin(t) ==
    \/ Open(t) \/ Bootstrap(t) \/ CompactNow(t) \/ SkipCompaction(t)
    \/ \E d \in Delta, e \in Rev \cup {None}, r \in Rev, op \in {"commit", "bare"} :
          CommitDelta(t, d, e, r, op)
    \/ \E op \in {"commit", "bare", "import", "download"} : Conflict(t, op)
    \/ \E c \in Content, e \in Rev \cup {None}, r \in Rev, op \in {"import", "download"} :
          ImportSnapshot(t, c, e, r, op)
    \/ ClearAll(t)
    \/ \E r \in Rev : PatchMetaIfRevision(t, r)

Step(t) ==
    \/ WriteWal(t) \/ PublishCommit(t)
    \/ \E k \in Key : RewriteFile(t, k)
    \/ ListWal(t)
    \/ \E r \in Rev, deleted \in BOOLEAN : DropWal(t, r, deleted)
    \/ PublishBase(t)

Read(t) == LoadSnapshot(t) \/ ReadWal(t) \/ \E k \in Key : ReadFile(t, k)

Next == \E t \in Tab : Begin(t) \/ Step(t) \/ Read(t) \/ Fail(t) \/ Crash(t)

Spec == Init /\ [][Next]_vars

-----------------------------------------------------------------------------
(***************************************************************************)
(* Properties.                                                             *)
(***************************************************************************)

\* Between writes the store loads: the WAL holds every revision from
\* pendingLogFromRevision to headRevision, whatever failed or crashed before
\* (the checks of _readWalRecords never throw).
Recoverable == manifest # None /\ lock = None => Loadable(manifest)

\* A snapshot that a tab serves from _snapshotCache because its revision is
\* the head is the snapshot on disk.
CacheExact ==
    \A t \in Tab :
        scache[t] # None /\ lock = None /\ manifest # None
        /\ scache[t].rev = manifest.head /\ mcache[t] = manifest
            => scache[t].content = Replay(base, manifest)

\* A compare-and-set write takes effect on exactly the revision its caller
\* compared, from whichever tab the writes in between came.
CompareAndSet ==
    [][\A t \in Tab :
          (lock = t /\ manifest' # manifest /\ task[t].expected # None)
          => task[t].expected = manifest.head]_vars

\* A clean store holds no local change that Cloud Sync was not given: a commit
\* made during an upload or a download outlives its acknowledgement as dirty,
\* and a compaction, a failed write or a crash in between forgets nothing.
CleanIsSynced ==
    manifest # None /\ ~manifest.dirty => manifest.edited = 0

\* A snapshot loaded while commits go on is the graph of the revision the
\* load started from, never a mixture of two, unless a rewrite of the base
\* overlapped it.
ExportExact ==
    [][\A t \in Tab :
          LET l == reading[t] IN
          (/\ l # Idle /\ reading'[t] = Idle /\ scache'[t] # scache[t] /\ t \in isOpen'
           /\ l.owed # None
           /\ l.m.pending = manifest.pending
           /\ \A u \in Tab : ~Rewriting(u))
          => scache'[t].content = l.owed]_vars

\* The store is a DurableGraph; a change is accepted when its manifest is
\* published.
Asked(t) == IF task[t].pc \in {"wal", "publish"}
            THEN [op |-> "commit", delta |-> task[t].delta]
            ELSE IF Rewriting(t) /\ manifest # None /\ ~Compacting(t)
                 THEN [op |-> "replace", graph |-> task[t].target]
                 ELSE None

Revision == IF manifest = None THEN 0 ELSE manifest.head
Requests == [t \in Tab |-> Asked(t)]

Durable == INSTANCE DurableGraph
           WITH Caller <- Tab, content <- Owed, revision <- Revision,
                request <- Requests

ASSUME NoneIsNoRequest == None \notin Durable!Request

ImplementsDurableGraph == Durable!Spec
=============================================================================
