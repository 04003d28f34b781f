--------------------------- MODULE GraphPersistence ---------------------------
(***************************************************************************)
(* How one tab keeps the graph of the open chat: edits in place, extraction *)
(* batches on a detached copy, one queue of writes per chat, a store that   *)
(* refuses a write whose base revision is not its own, recovery copies      *)
(* (shadow and chat metadata), pending saves with their retry timer, and    *)
(* loading after a chat is entered.                                         *)
(*                                                                         *)
(* A graph is the set of changes it contains; every change adds records of  *)
(* its own. A write is one step: what it reads before its commit only       *)
(* matters through the revision the commit checks.                          *)
(***************************************************************************)
EXTENDS Integers, Sequences, FiniteSets

CONSTANTS
    Chats,      \* the conversations
    Edits,      \* changes made in place, each once
    Extracts,   \* changes made by extraction batches, each once
    Foreign,    \* changes committed by other tabs and downloads, each once
    Home,       \* the chat of each change
    MaxVisits,  \* bound: chats entered
    MaxFaults,  \* bound: writes the store refuses
    MaxLoads,   \* bound: loads of an open chat
    MaxRev,     \* bound: no new save starts beyond this revision
    MaxQueue    \* bound: writes waiting per chat

ASSUME PersistAssumption ==
    /\ Chats # {}
    /\ Edits \cap Extracts = {} /\ Foreign \cap (Edits \cup Extracts) = {}
    /\ Home \in [Edits \cup Extracts \cup Foreign -> Chats]
    /\ {MaxVisits, MaxFaults, MaxLoads, MaxRev, MaxQueue} \subseteq Nat
    /\ MaxVisits # 0

VARIABLES
    chat,      \* the open chat
    lease,     \* its lease: one number for each chat entered
    auto,      \* the setting: a retry first asks which store to use
    live,      \* the graph in memory
    ps,        \* graphPersistenceState
    timer,     \* the lease whose retry timer runs, 0 if none
    batch,     \* the extraction batch in progress
    retry,     \* a retry that waits for the store's binding
    reading,   \* a load that has read the store
    store,     \* what each chat's store holds
    shadow,    \* the recovery copies in session storage
    metadata,  \* the recovery copies in chat metadata
    writes,    \* the queue of writes of each chat
    latest,    \* the newest revision queued per chat
    used,      \* the changes made so far
    reloaded,  \* auxiliary: chats a retry saved, or a load replaced out of turn
    rebased,   \* auxiliary: chats where a graph got a base it was not read at
    count      \* what the bounds count

memory  == <<live, ps, timer>>
durable == <<store, shadow, metadata>>
jobs    == <<batch, retry, reading>>
persistVars == <<chat, lease, auto, memory, jobs, durable, writes, latest,
                 used, reloaded, rebased, count>>

Items == Edits \cup Extracts \cup Foreign

Largest(S) == CHOOSE n \in S : \A m \in S : n >= m

-----------------------------------------------------------------------------
(* Data                                                                     *)

NoGraph == [items |-> {}, dirty |-> {}, meta |-> FALSE, base |-> 0]

NoCopy == [rev |-> 0, items |-> {}, base |-> 0]

\* "locked" is the restore lock; "turnedAway" is auxiliary: the lock was held when
\* the pending save should have got its retry.
Fresh == [revision |-> 0, persisted |-> 0, pending |-> FALSE, queued |-> 0,
          accepted |-> 0, recoverable |-> FALSE, load |-> "loading",
          locked |-> FALSE, turnedAway |-> FALSE]

NoBatch == [phase |-> "none", lease |-> 0, mine |-> FALSE, g |-> NoGraph, delta |-> {}]

NoRetry == [on |-> FALSE, chat |-> CHOOSE c \in Chats : TRUE, lease |-> 0]

NoReading == [on |-> FALSE, chat |-> CHOOSE c \in Chats : TRUE, rev |-> 0, items |-> {}]

\* A recovery copy is serialized: it keeps no dirty marks.
Copy(r, g) == [rev |-> r, items |-> g.items, base |-> g.base]

\* Seeded fault: the dirty marks of the graph it replaces are kept.
LoadedOver(k, base) == [items |-> k.items, dirty |-> live.dirty, meta |-> FALSE,
                        base |-> base]

Loaded(k, base) == [items |-> k.items, dirty |-> {}, meta |-> FALSE, base |-> base]

\* A write holds a clone of its graph; "mine" while the graph it was taken
\* from is still the one in memory.
Write(kind, g, r, delta, mine) ==
    [kind |-> kind, g |-> g, rev |-> r, delta |-> delta, mine |-> mine]

Floor(r, g) == Largest({r, ps.revision, ps.persisted, ps.queued, g.base})

Allocate(r, g) == Floor(r, g) + 1

\* Whoever held the graph in memory before it was replaced holds an object
\* that is no longer current.
Disowned(q) == [i \in 1..Len(q) |-> [q[i] EXCEPT !.mine = FALSE]]

AllDisowned(ws) == [c \in Chats |-> Disowned(ws[c])]

Fail == count.fails < MaxFaults /\ count' = [count EXCEPT !.fails = @ + 1]

-----------------------------------------------------------------------------
(* Mutations                                                                *)

Usable == ps.load \in {"loaded", "shadow"}

Room(c) == Len(writes[c]) < MaxQueue

Enqueue(c, w) == writes' = [writes EXCEPT ![c] = Append(@, w)]

\* saveGraphToChat after a change in place: a clone is queued, some callers take
\* a shadow at the revision already reached, and the pending mark is dropped.
Edit(i) ==
    LET g == [live EXCEPT !.items = @ \cup {i}, !.dirty = @ \cup {i}]
        r == Allocate(0, live)
    IN  /\ Usable
        /\ i \notin used /\ Home[i] = chat
        /\ r <= MaxRev /\ Room(chat)
        /\ live' = g
        /\ used' = used \cup {i}
        /\ latest' = [latest EXCEPT ![chat] = Largest({@, r})]
        /\ Enqueue(chat, Write("save", g, r, {}, TRUE))
        /\ shadow' \in {shadow, [shadow EXCEPT ![chat] = Copy(ps.revision, g)]}
        /\ ps' = [ps EXCEPT !.pending = FALSE]
        /\ UNCHANGED <<chat, lease, auto, timer, jobs, store, metadata, reloaded, rebased, count>>

\* A batch works on a clone that keeps neither the dirty marks nor the identity
\* of the graph; its journal entry marks only the runtime metadata.
StartBatch(i) ==
    /\ Usable /\ batch = NoBatch
    /\ ps.pending => ps.recoverable
    /\ i \notin used /\ Home[i] = chat
    /\ batch' = [phase |-> "working", lease |-> lease, mine |-> TRUE,
                 g |-> [items |-> live.items \cup {i}, dirty |-> {},
                        meta |-> TRUE, base |-> live.base],
                 delta |-> {i}]
    /\ used' = used \cup {i}
    /\ UNCHANGED <<chat, lease, auto, memory, retry, reading, durable, writes,
                   latest, reloaded, rebased, count>>

BatchCurrent == batch.lease = lease /\ batch.mine

\* A batch whose chat or graph is no longer current is given up.
PersistBatch ==
    LET r == Allocate(0, batch.g)
    IN  /\ batch.phase = "working"
        /\ Room(chat)
        /\ IF BatchCurrent
           THEN /\ Enqueue(chat, Write("batch", batch.g, r, batch.delta, FALSE))
                /\ batch' = [batch EXCEPT !.phase = "saving"]
           ELSE /\ batch' = NoBatch
                /\ UNCHANGED writes
        /\ UNCHANGED <<chat, lease, auto, memory, retry, reading, durable,
                       latest, used, reloaded, rebased, count>>

-----------------------------------------------------------------------------
(* Pending saves                                                            *)

PendingAt(r, g) == [ps EXCEPT !.pending = TRUE, !.recoverable = TRUE,
                              !.queued = Largest({@, Allocate(r, g)})]

\* Seeded fault: no timer is set.
QueuedOnly(r, g) == ps' = PendingAt(r, g) /\ UNCHANGED timer

\* queueGraphPersist: the save is pending at a new revision and its timer runs. Under
\* the restore lock the timer is left as it is.
Queued(r, g) ==
    /\ ps' = [PendingAt(r, g) EXCEPT !.turnedAway = ps.locked /\ timer # lease]
    /\ timer' = IF ps.locked THEN timer ELSE lease

\* A panel action or a rollback takes the restore lock or gives it back, and does no
\* more: leaving the lock resumes nothing.
UseRestoreLock ==
    /\ ps' = [ps EXCEPT !.locked = ~@]
    /\ UNCHANGED <<chat, lease, auto, live, timer, jobs, durable, writes, latest,
                   used, reloaded, rebased, count>>

\* The graph a retry saves: a recovery copy that is new enough, else the graph
\* in memory. The metadata read is that of the chat that is open now, and its graph
\* counts as read at the revision of the copy.
RetrySource(c) ==
    LET target == Largest({ps.queued, ps.revision})
        m      == metadata[chat]
        Recovered(k, base, strange) ==
            [found |-> TRUE, mine |-> FALSE, rev |-> k.rev, g |-> Loaded(k, base),
             rebased |-> strange]
    IN  CASE shadow[c].rev > 0 /\ shadow[c].rev >= target
               -> Recovered(shadow[c], shadow[c].base, FALSE)
          [] ~(shadow[c].rev > 0 /\ shadow[c].rev >= target) /\ m.rev > 0 /\ m.rev >= target
               -> Recovered(m, m.rev, m.rev # m.base \/ c # chat)
          [] OTHER -> [found |-> chat = c, mine |-> TRUE,
                       rev |-> Largest({target, live.base}), g |-> live,
                       rebased |-> FALSE]

Rebase(c, yes) == rebased' = IF yes THEN rebased \cup {c} ELSE rebased

\* The retry of a chat that is no longer open finds no source. Unless the attempts are
\* used up, the timer of the chat that is open is set if that one has something pending.
SaveRetried(c, t) ==
    LET s == RetrySource(c)
        r == Largest({ps.queued, ps.revision, ps.persisted, s.rev, s.g.base})
    IN  IF s.found
        THEN /\ Enqueue(c, Write("retry", s.g, r, {}, s.mine))
             /\ Rebase(c, s.rebased) /\ reloaded' = reloaded \cup {c}
             /\ timer' = t
        ELSE /\ timer' \in {t} \cup (IF ps.locked THEN {}
                                     ELSE {IF ps.pending THEN lease ELSE 0})
             /\ UNCHANGED <<writes, rebased, reloaded>>

\* With "auto" the binding of the store is awaited first.
RetrySave(t) ==
    IF auto
    THEN /\ retry' = [on |-> TRUE, chat |-> chat, lease |-> lease]
         /\ timer' = t
         /\ UNCHANGED <<writes, rebased, reloaded>>
    ELSE SaveRetried(chat, t) /\ UNCHANGED retry

\* Bounds: no retry starts beyond MaxRev, nor another while one waits.
CanRetry == ps.queued <= MaxRev /\ Room(chat) /\ ~retry.on

\* The timer of this lease fires: the retry is turned away by the lock, has nothing to
\* do, or starts.
StartRetry ==
    /\ timer = lease /\ timer # 0 /\ CanRetry
    /\ \/ /\ ps.locked
          /\ timer' = 0 /\ ps' = [ps EXCEPT !.turnedAway = TRUE]
          /\ UNCHANGED <<retry, writes, rebased, reloaded>>
       \/ /\ ~ps.locked /\ ~ps.pending
          /\ timer' = 0
          /\ UNCHANGED <<ps, retry, writes, rebased, reloaded>>
       \/ /\ ~ps.locked /\ ps.pending
          /\ RetrySave(0)
          /\ UNCHANGED ps
    /\ UNCHANGED <<chat, lease, auto, live, batch, reading, durable, latest,
                   used, count>>

\* The gate of an extraction, or the user, retries at once. Only the user's retry
\* passes the restore lock.
RetryNow ==
    /\ ps.pending /\ CanRetry
    /\ RetrySave(timer)
    /\ UNCHANGED <<chat, lease, auto, live, ps, batch, reading, durable, latest,
                   used, count>>

\* The binding is known: the source is looked up now.
ContinueRetry ==
    /\ retry.on /\ Room(retry.chat)
    /\ retry' = NoRetry
    /\ SaveRetried(retry.chat, timer)
    /\ UNCHANGED <<chat, lease, auto, live, ps, batch, reading, durable, latest,
                   used, count>>

\* maybeFlushQueuedGraphPersist: a message arrives while a save is queued.
Flush ==
    LET r == Largest({ps.revision, ps.queued})
    IN  /\ Usable
        /\ ~(~ps.pending /\ ps.queued <= ps.persisted)
        /\ metadata' = [metadata EXCEPT ![chat] = Copy(r, live)]
        /\ ps' = [ps EXCEPT !.revision = r, !.recoverable = TRUE]
        /\ UNCHANGED <<chat, lease, auto, live, timer, jobs, store, shadow,
                       writes, latest, used, reloaded, rebased, count>>

-----------------------------------------------------------------------------
(* Writes                                                                   *)

\* The floor is that of the chat that is open when the write runs.
RequestedRevision(w) == Floor(w.rev, IF w.mine THEN live ELSE w.g)

\* Seeded fault: the newest save is skipped too.
SupersededByItself(c, w) == w.kind \in {"save", "promote"} /\ w.rev <= latest[c]

Superseded(c, w) == w.kind \in {"save", "promote"} /\ w.rev < latest[c]

Marked(w) == w.g.dirty # {} \/ w.g.meta

\* Seeded fault: the base revision of a write is not compared.
BasedAnyway(c, w) == TRUE

Based(c, w) == w.g.base = store[c].rev

\* What the commit makes of the store: a batch brings its own delta, a graph
\* with dirty marks adds what they name, any other graph replaces the records.
\* After a conflict the delta is rebuilt from the dirty marks, and only from them.

Rebuilt(c, w) == store[c].items \cup w.g.dirty

CanCommit(c, w) == Based(c, w) \/ Marked(w)

NextItems(c, w) ==
    IF Based(c, w) /\ w.delta # {} THEN store[c].items \cup w.delta
    ELSE IF Marked(w) THEN Rebuilt(c, w)
    ELSE w.g.items

NextRev(c, w) == IF Based(c, w) THEN Largest({store[c].rev + 1, RequestedRevision(w)})
                 ELSE store[c].rev + 1

\* Seeded fault: whatever chat is open learns of the write.
AcceptAnywhere(c, w) ==
    LET r == NextRev(c, w)
    IN  /\ ps' = [ps EXCEPT !.revision = r, !.persisted = r, !.pending = FALSE,
                            !.queued = 0, !.accepted = Largest({@, r})]
        /\ timer' = 0

\* The chat a write belongs to, if it is open, learns the revision. A graph in
\* memory the write was taken from loses the marks it saved.
Accept(c, w) ==
    LET r == NextRev(c, w)
    IN  IF c = chat
        THEN /\ ps' = [ps EXCEPT
                         !.revision = r, !.persisted = r, !.pending = FALSE,
                         !.queued = 0, !.accepted = Largest({@, r}),
                         !.recoverable = FALSE,
                         !.load = IF @ = "shadow" THEN "loaded" ELSE @]
             /\ timer' = 0
        ELSE UNCHANGED <<ps, timer>>

AfterSave(g, w, r) == [g EXCEPT !.dirty = @ \ w.g.dirty, !.meta = @ /\ ~w.g.meta,
                            !.base = r]

\* Where a committed write leaves the graph in memory: an accepted batch and an
\* accepted retry publish theirs, a save only takes its marks off.
Publishes(c, w) == \/ w.kind = "batch" /\ BatchCurrent
                   \/ w.kind = "retry" /\ c = chat

Published(c, w) ==
    CASE w.kind = "batch" -> [w.g EXCEPT !.base = NextRev(c, w)]
      [] w.kind = "retry" -> Loaded(IF w.mine THEN live ELSE w.g, NextRev(c, w))

Popped(c) == [writes EXCEPT ![c] = Tail(@)]

Commit(c) ==
    LET w == Head(writes[c])
    IN  /\ writes[c] # <<>>
        /\ ~Superseded(c, w) /\ CanCommit(c, w)
        /\ store' = [store EXCEPT ![c] = [rev |-> NextRev(c, w), items |-> NextItems(c, w)]]
        /\ Accept(c, w)
        /\ Rebase(c, ~Based(c, w) /\ (w.mine \/ Publishes(c, w)))
        /\ IF Publishes(c, w)
           THEN /\ live' = Published(c, w)
                /\ writes' = AllDisowned(Popped(c))
                /\ batch' = IF w.kind = "batch" THEN NoBatch ELSE [batch EXCEPT !.mine = FALSE]
           ELSE /\ live' = IF w.mine THEN AfterSave(live, w, NextRev(c, w)) ELSE live
                /\ writes' = Popped(c)
                /\ batch' = IF w.kind = "batch" THEN NoBatch ELSE batch
        /\ UNCHANGED <<chat, lease, auto, retry, reading, shadow, metadata, latest,
                       used, reloaded, count>>

\* An older save of the queue makes way for a newer one.
Skip(c) ==
    /\ writes[c] # <<>> /\ Superseded(c, Head(writes[c]))
    /\ writes' = Popped(c)
    /\ UNCHANGED <<chat, lease, auto, memory, jobs, durable, latest, used, reloaded, rebased, count>>

\* The write fails: on a conflict that cannot be rebuilt, or in the store. A
\* batch leaves both recovery copies and becomes pending; a retry leaves one and
\* stays pending; a chat that was left gets a shadow only; a save just ends.
FailWrite(c) ==
    LET w     == Head(writes[c])
        k     == Copy(w.rev, IF w.mine THEN live ELSE w.g)
        Shade == shadow' \in {shadow, [shadow EXCEPT ![c] = k]}
        Note  == metadata' = [metadata EXCEPT ![c] = k]
    IN  /\ writes[c] # <<>>
        /\ ~Superseded(c, w)
        /\ IF CanCommit(c, w) THEN Fail ELSE UNCHANGED count
        /\ writes' = Popped(c)
        /\ batch' = IF w.kind = "batch" THEN NoBatch ELSE batch
        /\ CASE w.kind \in {"save", "promote"} -> UNCHANGED <<shadow, metadata, ps, timer>>
             [] w.kind = "batch" /\ c = chat -> Shade /\ Note /\ Queued(w.rev, w.g)
             [] w.kind = "retry" /\ c = chat -> Note /\ Queued(w.rev, w.g) /\ UNCHANGED shadow
             [] OTHER -> Shade /\ UNCHANGED <<metadata, ps, timer>>
        /\ UNCHANGED <<chat, lease, auto, live, retry, reading, store, latest, used, reloaded, rebased>>

\* Another tab commits a change of its own, or a download brings one.
RemoteCommit(i) ==
    LET c == Home[i]
    IN  /\ i \notin used
        /\ used' = used \cup {i}
        /\ store' = [store EXCEPT ![c] = [rev |-> @.rev + 1, items |-> @.items \cup {i}]]
        /\ UNCHANGED <<chat, lease, auto, memory, jobs, shadow, metadata, writes,
                       latest, reloaded, rebased, count>>

-----------------------------------------------------------------------------
(* Entering and loading a chat                                              *)

\* The state of the chat starts afresh; what was in flight goes on, and the
\* lease of the timer is no longer current.
OpenChat(c) ==
    /\ lease < MaxVisits
    /\ chat' = c
    /\ lease' = lease + 1
    /\ live' = NoGraph
    /\ ps' = Fresh
    /\ writes' = AllDisowned(writes)
    /\ batch' = [batch EXCEPT !.mine = FALSE]
    /\ UNCHANGED <<auto, timer, retry, reading, durable, latest, used, reloaded, rebased, count>>

\* The load reads what the store holds.
LoadRead ==
    /\ ~reading.on
    /\ ps.load # "loading" => count.loads < MaxLoads
    /\ count' = IF ps.load = "loading" THEN count ELSE [count EXCEPT !.loads = @ + 1]
    /\ reading' = [on |-> TRUE, chat |-> chat, rev |-> store[chat].rev,
                   items |-> store[chat].items]
    /\ UNCHANGED <<chat, lease, auto, memory, batch, retry, durable, writes,
                   latest, used, reloaded, rebased>>

RuntimeRevision == Floor(0, live)

\* The shadow is restored if it is newer than the store, and written to it.
RestoreShadow ==
    LET s == shadow[chat]
        g == Loaded(s, s.rev)
    IN  /\ Room(chat)
        /\ live' = g
        /\ ps' = [ps EXCEPT !.revision = s.rev, !.pending = TRUE, !.load = "shadow",
                            !.persisted = Largest({@, s.rev}),
                            !.queued = Largest({@, s.rev})]
        /\ latest' = [latest EXCEPT ![chat] = Largest({@, s.rev})]
        /\ writes' = [AllDisowned(writes) EXCEPT
                        ![chat] = Append(@, Write("promote", g, s.rev, {}, TRUE))]
        /\ batch' = [batch EXCEPT !.mine = FALSE]
        /\ Rebase(chat, s.rev # s.base)
        /\ UNCHANGED shadow

ApplySnapshot ==
    /\ live' = Loaded(reading, reading.rev)
    /\ ps' = [ps EXCEPT !.revision = reading.rev, !.pending = FALSE, !.queued = 0,
                        !.persisted = Largest({@, reading.rev}), !.load = "loaded",
                        !.accepted = Largest({@, reading.rev})]
    /\ shadow' = [shadow EXCEPT ![chat] = NoCopy]
    /\ writes' = AllDisowned(writes)
    /\ batch' = [batch EXCEPT !.mine = FALSE]
    /\ UNCHANGED latest

\* The graph it replaces may hold edits that only a waiting write still carries, or
\* the snapshot may be of an earlier visit: the revisions do not tell.
Reloaded == reloaded \cup (IF writes[chat] = <<>> /\ reading.rev = store[chat].rev
                           THEN {} ELSE {chat})

\* Seeded fault: a load is not asked which chat it is for.
AnyLoad == reading.on

LoadIsCurrent == reading.chat = chat

\* What was read reaches memory only if its chat is still open, and a snapshot
\* only if memory knows of nothing newer.
LoadApply ==
    /\ reading.on
    /\ reading' = NoReading
    /\ IF ~LoadIsCurrent
       THEN UNCHANGED <<live, ps, shadow, writes, batch, latest, reloaded, rebased>>
       ELSE IF shadow[chat].rev > reading.rev
       THEN RestoreShadow /\ reloaded' = Reloaded
       ELSE IF RuntimeRevision > reading.rev
       THEN UNCHANGED <<live, ps, shadow, writes, batch, latest, reloaded, rebased>>
       ELSE ApplySnapshot /\ reloaded' = Reloaded /\ UNCHANGED rebased
    /\ UNCHANGED <<chat, lease, auto, timer, retry, store, metadata, used, count>>

-----------------------------------------------------------------------------
(* Specification                                                            *)

PersistInit ==
    /\ chat \in Chats /\ lease = 1
    /\ auto \in BOOLEAN
    /\ live = NoGraph /\ ps = Fresh /\ timer = 0
    /\ batch = NoBatch /\ retry = NoRetry /\ reading = NoReading
    /\ store = [c \in Chats |-> [rev |-> 1, items |-> {}]]
    /\ shadow = [c \in Chats |-> NoCopy] /\ metadata = [c \in Chats |-> NoCopy]
    /\ writes = [c \in Chats |-> <<>>] /\ latest = [c \in Chats |-> 0]
    /\ used = {} /\ reloaded = {} /\ rebased = {}
    /\ count = [fails |-> 0, loads |-> 0]

PersistNext ==
    \/ \E i \in Edits : Edit(i)
    \/ \E i \in Extracts : StartBatch(i)
    \/ PersistBatch
    \/ UseRestoreLock
    \/ StartRetry
    \/ RetryNow
    \/ ContinueRetry
    \/ Flush
    \/ \E c \in Chats : Commit(c)
    \/ \E c \in Chats : Skip(c)
    \/ \E c \in Chats : FailWrite(c)
    \/ \E i \in Foreign : RemoteCommit(i)
    \/ \E c \in Chats : OpenChat(c)
    \/ LoadRead
    \/ LoadApply

PersistSpec == PersistInit /\ [][PersistNext]_persistVars

-----------------------------------------------------------------------------
(* Properties                                                               *)

\* Types; the dirty marks name changes the graph holds.
PersistTypeOK ==
    /\ chat \in Chats /\ lease \in 1..MaxVisits /\ timer \in 0..MaxVisits
    /\ live.items \subseteq Items /\ live.dirty \subseteq live.items
    /\ ps.load \in {"loading", "loaded", "shadow"}
    /\ \A c \in Chats : Len(writes[c]) <= MaxQueue + 1

\* No edit is lost without a trace: an edit is in the store or in a write that
\* will bring it there (saveGraphToChat, the queue of writes and its superseding,
\* the rebuild after a conflict), while the store refused nothing, no other
\* tab wrote to its chat, no batch or retry shared it and no load replaced its graph
\* out of turn. A retry leaves its graph in memory without marks. A load out of turn
\* drops what waits from the graph in memory, and the next edit, with a higher revision,
\* makes the waiting write give way.
Undisturbed(c) ==
    /\ count.fails = 0 /\ c \notin reloaded
    /\ \A x \in (Extracts \cup Foreign) \cap used : Home[x] # c

Coming(i) == \E n \in 1..Len(writes[Home[i]]) :
                i \in writes[Home[i]][n].g.dirty

EditsKept ==
    \A i \in Edits \cap used :
        Undisturbed(Home[i]) => i \in store[Home[i]].items \/ Coming(i)

\* A revision the open chat was told is accepted is one its store has reached: a
\* write of another chat that ends late does not speak for this one
\* (persistGraphToConfiguredDurableTier and its check of the active target).
AcceptedIsDurable == ps.accepted <= store[chat].rev

\* A loaded chat with a pending save has somebody who will retry it: the timer of
\* this lease, a retry that waits for its binding or one in the queue
\* (queueGraphPersist, schedulePendingGraphPersistRetry). The one gap is the restore
\* lock: a save whose retry it turned away waits for the gate of the next extraction
\* or for the user, also after the lock is left.
PendingHasARetry ==
    ps.pending /\ ~ps.turnedAway /\ ps.load = "loaded" =>
        \/ timer = lease
        \/ retry.on /\ retry.lease = lease
        \/ \E n \in 1..Len(writes[chat]) : writes[chat][n].kind = "retry"

\* No change of one chat reaches the store, the recovery copies or the graph in
\* memory of another. A retry that first waits for its binding (auto) is left out:
\* it looks for its source in the chat that is open afterwards.
CopiesStayHome == ~auto =>
    \A i \in Items : \A c \in Chats \ {Home[i]} :
        /\ i \notin store[c].items \cup shadow[c].items \cup metadata[c].items
        /\ c = chat => i \notin live.items

\* No commit takes a change out of a store, those of other tabs included: a write
\* built on what was read or written earlier, a retry after a failure above all, is
\* refused or merged once the store has moved on (the base revision of saveGraph-
\* ToIndexedDbCore and commitDelta). Left out are the chats where a graph carries a base
\* it was not read at: a rebuild after a conflict moves the graph to the new revision
\* without what it brought, and a graph out of the metadata, or a promoted shadow,
\* takes the revision of the copy for its base; the metadata may be those of another chat.
DurableOnlyGrows ==
    [][\A c \in Chats \ rebased : store[c].items \subseteq store'[c].items]_persistVars
=============================================================================
