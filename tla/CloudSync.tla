------------------------------ MODULE CloudSync ------------------------------
(***************************************************************************)
(* The replication of one chat between browsers (src/sync/bme-sync.js):    *)
(* every publication writes its own chunk files, then replaces the one     *)
(* head file of the chat.  The server has no compare-and-set: a            *)
(* publication reads the head before and after it writes it.  Chunks of    *)
(* superseded heads wait in a ledger inside the head and are deleted a     *)
(* day later; chunks of failed publications wait in the local store.       *)
(*                                                                         *)
(* A device is one browser: its tabs share the store and the Web Lock of   *)
(* the chat, so it runs one task at a time.  The content of a graph is the *)
(* set of the edits it holds.  The chunk files of a publication are one    *)
(* file, named like the publication.                                       *)
(***************************************************************************)
EXTENDS Naturals, FiniteSets

CONSTANTS Device, None,
          MaxEdit,       \* bound on local commits
          MaxAttempt,    \* bound on attempts to publish
          MaxDay,        \* bound on the passing of grace periods
          MaxWipe,       \* bound on deletions of the remote files
          MaxFault,      \* bound on failed requests
          MaxDeath       \* bound on browsers that die

Edit    == 1..MaxEdit
Attempt == 1..MaxAttempt
Day     == 0..MaxDay

VARIABLES
    store,     \* the local store of each device
    due,       \* devices whose upload timer is set
    task,      \* the sync task of each device
    head,      \* the head file
    files,     \* the chunk files on the server
    revived,   \* auxiliary: a head named chunks again that were no longer the head's
    attempts,  \* attempts to publish so far
    edits,     \* local commits so far
    day,       \* grace periods passed
    wipe,      \* the deletion of the remote files
    wipes,     \* such deletions so far
    faults,    \* failed requests so far
    deaths     \* browsers that died so far

published == <<head, revived>>
remote    == <<published, files>>
vars      == <<store, due, task, remote, attempts, edits, day, wipe, wipes, faults, deaths>>

Entry == [file : Attempt, since : Day]

Ledgers == {l \in SUBSET Entry : \A e, f \in l : e.file = f.file => e = f}

Content == [rev : Nat, data : SUBSET Edit]

\* A head: its stamp (chunkGc.updatedAt) tells it from any other, publication
\* names its chunks, gc is its ledger.
Heads == [stamp : Attempt, publication : Attempt, content : Content, gc : Ledgers]

ASSUME ConstantsOK ==
    /\ MaxEdit \in Nat /\ MaxAttempt \in Nat /\ MaxDay \in Nat /\ MaxWipe \in Nat
    /\ MaxFault \in Nat /\ MaxDeath \in Nat
    /\ None \notin Nat /\ None \notin Heads

\* Two fields are auxiliary: unsent, the edits made here that no publication
\* of this device was acknowledged for; presumed, that an idle check has
\* acknowledged an edit it did not publish (see CleanIsPublished).
Stores == [content : Content, dirty : BOOLEAN, pending : Ledgers,
           unsent : SUBSET Edit, presumed : BOOLEAN]

Deciding   == {"probe", "fetch", "apply", "merge", "export", "head"}
Preparing  == {"collect", "drop"}
Publishing == {"chunk", "check", "publish", "verify", "acknowledge", "compensate", "undo"}

Tasks == [pc : {"idle"} \cup Deciding \cup Preparing \cup Publishing,
          mine : Content, only : BOOLEAN, seen : Content \cup {None},
          prev : Heads \cup {None}, stamp : Attempt \cup {None},
          next : Heads \cup {None}, left : SUBSET Attempt, retired : SUBSET Attempt]

EmptyGraph == [rev |-> 0, data |-> {}]

Start(pc, content) ==
    [pc |-> pc, mine |-> content, only |-> FALSE, seen |-> None,
     prev |-> None, stamp |-> None, next |-> None, left |-> {}, retired |-> {}]

Idle == Start("idle", EmptyGraph)

NoWipe == [pc |-> "idle", left |-> {}]

TypeOK ==
    /\ store \in [Device -> Stores]
    /\ task \in [Device -> Tasks]
    /\ due \subseteq Device
    /\ head \in Heads \cup {None}
    /\ files \subseteq Attempt
    /\ revived \in BOOLEAN
    /\ attempts \in 0..MaxAttempt /\ edits \in 0..MaxEdit /\ day \in Day
    /\ wipe \in [pc : {"idle", "delete", "check", "chunks"}, left : SUBSET Attempt]
    /\ wipes \in 0..MaxWipe /\ faults \in 0..MaxFault /\ deaths \in 0..MaxDeath

Init ==
    /\ store = [d \in Device |->
          [content |-> EmptyGraph, dirty |-> FALSE, pending |-> {},
           unsent |-> {}, presumed |-> FALSE]]
    /\ due = {}
    /\ task = [d \in Device |-> Idle]
    /\ head = None /\ files = {} /\ revived = FALSE
    /\ attempts = 0 /\ edits = 0 /\ day = 0
    /\ wipe = NoWipe /\ wipes = 0
    /\ faults = 0 /\ deaths = 0

At(d, pc) == task[d].pc = pc

Goto(d, pc) == task' = [task EXCEPT ![d].pc = pc]

Finish(d) == task' = [task EXCEPT ![d] = Idle]

Same(h, k) == IF h = None \/ k = None THEN h = k ELSE h.stamp = k.stamp

\* A request fails.
Fault == faults < MaxFault /\ faults' = faults + 1

Sound == faults' = faults

Later(m, n) == IF m > n THEN m ELSE n

-----------------------------------------------------------------------------
(***************************************************************************)
(* Ledgers.                                                                *)
(***************************************************************************)
Files(ledger) == {e.file : e \in ledger}

Without(ledger, gone) == {e \in ledger : e.file \notin gone}

\* Seeded fault: a file is entered again although the ledger has it.
Appended(ledger, other) == ledger \cup other

\* The union of two ledgers keeps the earlier entry of a file.
Joined(ledger, other) ==
    {e \in ledger \cup other :
        \A f \in ledger \cup other : f.file = e.file => e.since <= f.since}

Today(names) == [file : names, since : {day}]

Eligible(h) == {e.file : e \in {e \in h.gc : e.since < day}} \ {h.publication}

\* Seeded fault: the files of the local ledger are not adopted.
ForgetfulLedger(t, pending, publication) ==
    LET known == Without(t.prev.gc, t.retired \cup {publication}) IN
    IF t.prev = None THEN {}
    ELSE known \cup Today({t.prev.publication} \ (Files(known) \cup {publication}))

\* buildRemoteSyncChunkGcState
NextLedger(t, pending, publication) ==
    LET old   == IF t.prev = None THEN {} ELSE t.prev.gc
        known == Without(Joined(old, pending), t.retired \cup {publication})
        fresh == IF t.prev = None THEN {} ELSE {t.prev.publication}
    IN  known \cup Today(fresh \ (Files(known) \cup {publication}))

\* An idle check reuses the chunks of the head when its revision is the same.
Reuses(t) == t.only /\ t.prev # None /\ t.prev.content.rev = t.mine.rev

NextHead(t, pending) ==
    LET publication == IF Reuses(t) THEN t.prev.publication ELSE t.stamp IN
    [stamp |-> t.stamp, publication |-> publication,
     content |-> IF Reuses(t) THEN t.prev.content ELSE t.mine,
     gc |-> NextLedger(t, pending, publication)]

-----------------------------------------------------------------------------
(***************************************************************************)
(* The local store.                                                        *)
(***************************************************************************)
Commit(d) ==
    /\ edits < MaxEdit
    /\ edits' = edits + 1
    /\ store' = [store EXCEPT ![d].content =
                    [rev |-> @.rev + 1, data |-> @.data \cup {edits + 1}],
                 ![d].dirty = TRUE, ![d].unsent = @ \cup {edits + 1}]
    /\ due' = due \cup {d}
    /\ UNCHANGED <<task, remote, attempts, day, wipe, wipes, faults, deaths>>

\* Seeded fault: a remote graph replaces whatever the store holds by now.
AlwaysImports(d, clean) == TRUE

\* The guards of importSnapshot: expectedRevision and requireSyncClean.
Imports(d, clean) ==
    /\ store[d].content.rev = task[d].mine.rev
    /\ clean => ~store[d].dirty

Import(d, content, dirty) ==
    store' = [store EXCEPT
        ![d].content = [content EXCEPT !.rev = Later(@, store[d].content.rev + 1)],
        ![d].dirty = dirty]

-----------------------------------------------------------------------------
(***************************************************************************)
(* syncNow: what to do is decided from the local snapshot and one read of  *)
(* the remote one.                                                         *)
(***************************************************************************)
BeginSync(d) ==
    /\ At(d, "idle")
    /\ task' = [task EXCEPT ![d] = Start("probe", store[d].content)]
    /\ UNCHANGED <<store, due, remote, attempts, edits, day, wipe, wipes, faults, deaths>>

Readable == head # None /\ head.publication \in files

Probe(d) ==
    LET t == task[d]
        local == t.mine.rev
        there == head.content.rev
        clean == ~store[d].dirty
    IN
    /\ At(d, "probe")
    /\ \/ head = None /\ Goto(d, "export")
       \/ head # None /\ ~Readable /\ Finish(d)
       \/ /\ Readable /\ there > local /\ clean
          /\ Goto(d, "fetch")
       \/ /\ Readable /\ local > there
          /\ Goto(d, "export")
       \/ /\ Readable /\ local = there /\ clean
          /\ IF store[d].pending # {} \/ Eligible(head) # {}
             THEN task' = [task EXCEPT ![d].pc = "export", ![d].only = TRUE]
             ELSE Finish(d)
       \/ /\ Readable /\ there >= local /\ ~clean
          /\ task' = [task EXCEPT ![d].pc = "merge", ![d].seen = head.content]
    /\ UNCHANGED <<store, due, remote, attempts, edits, day, wipe, wipes, faults, deaths>>

\* downloadUnlocked reads the remote snapshot once more.
Fetch(d) ==
    /\ At(d, "fetch")
    /\ IF Readable
       THEN task' = [task EXCEPT ![d].pc = "apply", ![d].seen = head.content]
       ELSE Finish(d)
    /\ UNCHANGED <<store, due, remote, attempts, edits, day, wipe, wipes, faults, deaths>>

\* The import leaves the store clean, or a later commit dirty; the
\* acknowledgement that follows changes neither.
Apply(d) ==
    /\ At(d, "apply")
    /\ IF Imports(d, TRUE) THEN Import(d, task[d].seen, FALSE) ELSE UNCHANGED store
    /\ Finish(d)
    /\ UNCHANGED <<due, remote, attempts, edits, day, wipe, wipes, faults, deaths>>

\* mergeSnapshots of records of distinct ids is their union.
Merge(d) ==
    LET t == task[d]
        merged == [rev |-> Later(t.mine.rev, t.seen.rev) + 1,
                   data |-> t.mine.data \cup t.seen.data]
    IN
    /\ At(d, "merge")
    /\ IF Imports(d, FALSE)
       THEN /\ Import(d, merged, TRUE)
            /\ task' = [task EXCEPT ![d] = Start("head", merged)]
       ELSE Finish(d) /\ UNCHANGED store
    /\ UNCHANGED <<due, remote, attempts, edits, day, wipe, wipes, faults, deaths>>

\* The debounce timer of scheduleUpload joins a task in flight.
UploadTimer(d) ==
    /\ d \in due
    /\ due' = due \ {d}
    /\ task' = IF At(d, "idle")
               THEN [task EXCEPT ![d] = Start("head", store[d].content)]
               ELSE task
    /\ UNCHANGED <<store, remote, attempts, edits, day, wipe, wipes, faults, deaths>>

\* uploadUnlocked takes its own snapshot.
Export(d) ==
    /\ At(d, "export")
    /\ task' = [task EXCEPT ![d].pc = "head", ![d].mine = store[d].content]
    /\ UNCHANGED <<store, due, remote, attempts, edits, day, wipe, wipes, faults, deaths>>

-----------------------------------------------------------------------------
(***************************************************************************)
(* writeSnapshotToRemote.  Every request may fail; a failed write or       *)
(* delete may have had its effect.                                         *)
(***************************************************************************)
\* A failed attempt leaves the store dirty and remembers the files it left.
Fail(d, retained) ==
    /\ store' = [store EXCEPT ![d].dirty = TRUE,
                              ![d].pending = Joined(@, Today(retained))]
    /\ Finish(d)

\* What the attempt has written, as far as it knows.
Written(d) == {task[d].stamp} \cap {task[d].next.publication}

ReadHead(d) ==
    /\ At(d, "head") /\ attempts < MaxAttempt
    /\ attempts' = attempts + 1
    /\ \/ /\ task' = [task EXCEPT ![d].pc = "collect", ![d].prev = head,
                       ![d].stamp = attempts + 1,
                       ![d].left = IF head = None THEN {} ELSE Eligible(head)]
          /\ Sound /\ UNCHANGED store
       \/ Fault /\ Fail(d, {})
    /\ UNCHANGED <<due, remote, edits, day, wipe, wipes, deaths>>

\* No attempt begins beyond the bound.
Unbegun(d) ==
    /\ At(d, "head") /\ attempts = MaxAttempt
    /\ Finish(d)
    /\ UNCHANGED <<store, due, remote, attempts, edits, day, wipe, wipes, faults, deaths>>

\* Before each delete the head is read again.
Collect(d) ==
    /\ At(d, "collect")
    /\ task[d].left # {} /\ Same(head, task[d].prev)
    /\ Goto(d, "drop")
    /\ UNCHANGED <<store, due, remote, attempts, edits, day, wipe, wipes, faults, deaths>>

\* Seeded fault: a delete that failed retires its file.
RetiresAll(retired, file, deleted) == retired \cup {file}

Retires(retired, file, deleted) == IF deleted THEN retired \cup {file} ELSE retired

Drop(d) ==
    /\ At(d, "drop")
    /\ \E file \in task[d].left, deleted \in BOOLEAN, gone \in BOOLEAN :
          /\ IF deleted THEN gone /\ Sound ELSE Fault
          /\ files' = IF gone THEN files \ {file} ELSE files
          /\ task' = [task EXCEPT ![d].pc = "collect", ![d].left = @ \ {file},
                                  ![d].retired = Retires(@, file, deleted)]
    /\ UNCHANGED <<store, due, published, attempts, edits, day, wipe, wipes, deaths>>

\* Nothing is left, the head has changed or a read of it failed.
Build(d) ==
    /\ At(d, "collect")
    /\ IF task[d].left = {} \/ ~Same(head, task[d].prev) THEN Sound ELSE Fault
    /\ task' = [task EXCEPT
           ![d].next = NextHead(task[d], store[d].pending),
           ![d].left = {}, ![d].retired = {},
           ![d].pc = IF Reuses(task[d]) THEN "check" ELSE "chunk"]
    /\ UNCHANGED <<store, due, remote, attempts, edits, day, wipe, wipes, deaths>>

UploadChunk(d) ==
    /\ At(d, "chunk")
    /\ \/ Sound /\ files' = files \cup {task[d].stamp} /\ Goto(d, "check")
       \/ Fault /\ files' \in {files, files \cup {task[d].stamp}} /\ Goto(d, "compensate")
    /\ UNCHANGED <<store, due, published, attempts, edits, day, wipe, wipes, deaths>>

CheckHead(d) ==
    /\ At(d, "check")
    /\ \/ Same(head, task[d].prev) /\ Sound /\ Goto(d, "publish") /\ UNCHANGED store
       \/ ~Same(head, task[d].prev) /\ Sound /\ Fail(d, Written(d))
       \/ Fault /\ Goto(d, "compensate") /\ UNCHANGED store
    /\ UNCHANGED <<due, remote, attempts, edits, day, wipe, wipes, deaths>>

\* The chunks the head gets are those of an earlier head, not of the one there is.
Revives(h) == h.publication # h.stamp /\ (head = None \/ head.publication # h.publication)

Publish(d) ==
    /\ At(d, "publish")
    /\ \/ Sound /\ head' = task[d].next /\ Goto(d, "verify")
       \/ Fault /\ head' \in {head, task[d].next} /\ Goto(d, "compensate")
    /\ revived' = (revived \/ (head' # head /\ Revives(task[d].next)))
    /\ UNCHANGED <<store, due, files, attempts, edits, day, wipe, wipes, deaths>>

Verify(d) ==
    /\ At(d, "verify")
    /\ \/ Same(head, task[d].next) /\ Sound /\ Goto(d, "acknowledge") /\ UNCHANGED store
       \/ ~Same(head, task[d].next) /\ Sound /\ Fail(d, Written(d))
       \/ Fault /\ Fail(d, Written(d))
    /\ UNCHANGED <<due, remote, attempts, edits, day, wipe, wipes, deaths>>

\* Seeded fault: the files of a failed attempt are deleted unseen.
NotInHead(file) == TRUE

Abandoned(file) == ~(head # None /\ head.publication = file)

\* compensateAbandonedRemoteSyncChunks
Compensate(d) ==
    /\ At(d, "compensate")
    /\ \/ Fault /\ Fail(d, Written(d))
       \/ /\ Sound
          /\ IF Written(d) # {} /\ Abandoned(task[d].stamp)
             THEN Goto(d, "undo") /\ UNCHANGED store
             ELSE Fail(d, {})
    /\ UNCHANGED <<due, remote, attempts, edits, day, wipe, wipes, deaths>>

Undo(d) ==
    /\ At(d, "undo")
    /\ \/ Sound /\ files' = files \ {task[d].stamp} /\ Fail(d, {})
       \/ Fault /\ files' \in {files, files \ {task[d].stamp}} /\ Fail(d, Written(d))
    /\ UNCHANGED <<due, published, attempts, edits, day, wipe, wipes, deaths>>

\* Seeded fault: what was published counts as what the store holds.
MatchesAny(d) == TRUE

Matches(d) == store[d].content.rev = task[d].mine.rev

\* A head was published again for its chunks alone, and an edit made since the
\* task was decided on has brought the store to that head's revision.
Presumes(d) ==
    store[d].dirty /\ Matches(d) /\ task[d].next.content # task[d].mine

\* patchMetaIfRevision; the published head has adopted the local ledger.
Acknowledge(d) ==
    /\ At(d, "acknowledge")
    /\ store' = [store EXCEPT
           ![d].dirty = ~Matches(d), ![d].pending = {},
           ![d].unsent = @ \ task[d].next.content.data,
           ![d].presumed = @ \/ Presumes(d)]
    /\ due' = IF Matches(d) THEN due ELSE due \cup {d}
    /\ Finish(d)
    /\ UNCHANGED <<remote, attempts, edits, day, wipe, wipes, faults, deaths>>

\* A read of the remote snapshot fails.
ReadFails(d) ==
    /\ task[d].pc \in {"probe", "fetch"}
    /\ Fault /\ Finish(d)
    /\ UNCHANGED <<store, due, remote, attempts, edits, day, wipe, wipes, deaths>>

\* The browser dies; only the store is left.
Die(d) ==
    /\ deaths < MaxDeath /\ deaths' = deaths + 1
    /\ Finish(d)
    /\ due' = due \ {d}
    /\ UNCHANGED <<store, remote, attempts, edits, day, wipe, wipes, faults>>

-----------------------------------------------------------------------------
(***************************************************************************)
(* deleteRemoteSyncFile: without the Web Lock.                             *)
(***************************************************************************)
BeginWipe ==
    /\ wipe.pc = "idle" /\ wipes < MaxWipe /\ head # None
    /\ wipes' = wipes + 1
    /\ wipe' = [pc |-> "delete", left |-> {head.publication} \cup Files(head.gc)]
    /\ UNCHANGED <<store, due, task, remote, attempts, edits, day, faults, deaths>>

WipeHead ==
    /\ wipe.pc = "delete"
    /\ \/ Sound /\ head # None /\ head' = None /\ wipe' = [wipe EXCEPT !.pc = "check"]
       \/ Sound /\ head = None /\ head' = None /\ wipe' = NoWipe
       \/ Fault /\ head' \in {head, None} /\ wipe' = NoWipe
    /\ UNCHANGED <<store, due, task, files, revived, attempts, edits, day, wipes, deaths>>

WipeCheck ==
    /\ wipe.pc = "check"
    /\ \/ head = None /\ Sound /\ wipe' = [wipe EXCEPT !.pc = "chunks"]
       \/ head # None /\ Sound /\ wipe' = NoWipe
       \/ Fault /\ wipe' = NoWipe
    /\ UNCHANGED <<store, due, task, remote, attempts, edits, day, wipes, deaths>>

WipeChunk ==
    /\ wipe.pc = "chunks"
    /\ \/ \E file \in wipe.left :
             /\ \/ Sound /\ files' = files \ {file}
                \/ Fault /\ files' \in {files, files \ {file}}
             /\ wipe' = [wipe EXCEPT !.left = @ \ {file}]
       \/ wipe.left = {} /\ Sound /\ wipe' = NoWipe /\ UNCHANGED files
    /\ UNCHANGED <<store, due, task, published, attempts, edits, day, wipes, deaths>>

\* The grace period is a day, an attempt takes seconds: one that runs over
\* the end of a period might as well begin after it.
NextDay ==
    /\ day < MaxDay /\ wipe.pc = "idle"
    /\ \A d \in Device : At(d, "idle")
    /\ day' = day + 1
    /\ UNCHANGED <<store, due, task, remote, attempts, edits, wipe, wipes, faults, deaths>>

-----------------------------------------------------------------------------
Publication(d) ==
    \/ ReadHead(d) \/ Unbegun(d) \/ Collect(d) \/ Drop(d) \/ Build(d) \/ UploadChunk(d)
    \/ CheckHead(d) \/ Publish(d) \/ Verify(d) \/ Compensate(d) \/ Undo(d)
    \/ Acknowledge(d)

Decision(d) ==
    BeginSync(d) \/ Probe(d) \/ Fetch(d) \/ Apply(d) \/ Merge(d) \/ Export(d)

Wipe == BeginWipe \/ WipeHead \/ WipeCheck \/ WipeChunk

Next ==
    \/ NextDay \/ Wipe
    \/ \E d \in Device :
          Commit(d) \/ UploadTimer(d) \/ Decision(d) \/ Publication(d) \/ ReadFails(d) \/ Die(d)

Spec == Init /\ [][Next]_vars

-----------------------------------------------------------------------------
(***************************************************************************)
(* Properties.                                                             *)
(***************************************************************************)

\* The chunks of the head are there: neither garbage collection nor the
\* compensation of an attempt whose write was refused nor the deletion of the remote
\* files takes them away. A head that names the chunks of an earlier one again, over
\* a head or an absence it has not seen, is left out (see PublishedChunksExist).
HeadComplete == head # None /\ ~revived => head.publication \in files

\* A sync task clears dirty only when the head it has published holds exactly
\* what the store holds, and so every edit made here. What an idle check presumes
\* is left out (see CleanIsPublished).
DirtyClearedExactly ==
    [][\A d \in Device :
          store[d].dirty /\ ~store'[d].dirty /\ ~store'[d].presumed
             => /\ task[d].next # None
                /\ store'[d].content = task[d].next.content
                /\ store'[d].unsent = {}]_vars

\* An edit that its device has not published stays in its store: no download, merge
\* or acknowledgement loses it, with the same exception.
UnsyncedEditsKept ==
    \A d \in Device :
        ~store[d].presumed => store[d].unsent \subseteq store[d].content.data

\* A head that replaces the one its author read takes over every file that
\* head, its ledger and the local ledger name.
NoFileForgotten ==
    [][\A d \in Device :
          (/\ At(d, "publish") /\ head' # head /\ head # None
           /\ Same(head, task[d].prev) /\ Same(head', task[d].next))
          => ({head.publication} \cup Files(head.gc) \cup Files(store[d].pending))
                \cap files
             \subseteq {head'.publication} \cup Files(head'.gc)]_vars

\* A chunk file is named by the head or its ledger, by a local ledger or by
\* the attempt that writes it: of a single browser none is orphaned.
FilesAccounted ==
    wipes = 0 /\ deaths = 0 =>
        files \subseteq
            UNION ({{head.publication} \cup Files(head.gc) : h \in {head} \ {None}}
                   \cup {Files(store[d].pending) : d \in Device}
                   \cup {{task[d].stamp} : d \in {e \in Device : ~At(e, "idle")}})

\* Without the exception a head names chunks that exist, too
\* (docs/contributing/product-contract.md, "published only after all referenced
\* chunks exist"; docs/architecture/storage-and-formats.md:33, a publication that races
\* with a delete does not refer to the deleted file).
PublishedChunksExist == head # None => head.publication \in files

=============================================================================
