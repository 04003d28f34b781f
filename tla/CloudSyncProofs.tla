-------------------------- MODULE CloudSyncProofs --------------------------
(***************************************************************************)
(* Theorems about CloudSync, for any number of browsers, commits, attempts, *)
(* days, failures, deaths and deletions of the remote files.               *)
(***************************************************************************)
EXTENDS CloudSync, TLAPS

-----------------------------------------------------------------------------
(* Ledgers                                                                  *)

LEMMA LedgerRules ==
    ASSUME NEW l \in Ledgers
    PROVE  /\ \A e \in l : e \in Entry /\ e.file \in Attempt /\ e.since \in Nat
           /\ \A e, f \in l : e.file = f.file => e = f
  BY ConstantsOK DEF Ledgers, Entry, Attempt, Day

LEMMA EntriesEqual ==
    ASSUME NEW e \in Entry, NEW f \in Entry, e.file = f.file, e.since = f.since
    PROVE  e = f
  BY DEF Entry

\* The union of two ledgers is a ledger that names what either names.
LEMMA JoinedLedger ==
    ASSUME NEW l \in Ledgers, NEW m \in Ledgers
    PROVE  /\ Joined(l, m) \in Ledgers
           /\ Files(Joined(l, m)) = Files(l) \cup Files(m)
  <1>1. /\ \A e \in l \cup m : e \in Entry /\ e.file \in Attempt /\ e.since \in Nat
        /\ \A e, f \in l : e.file = f.file => e = f
        /\ \A e, f \in m : e.file = f.file => e = f
    BY LedgerRules
  <1>2. \A e, f \in Joined(l, m) : e.file = f.file => e = f
    <2> SUFFICES ASSUME NEW e \in Joined(l, m), NEW f \in Joined(l, m), e.file = f.file
                 PROVE  e = f
      OBVIOUS
    <2>1. e.since <= f.since /\ f.since <= e.since
      BY DEF Joined
    <2>2. e \in Entry /\ f \in Entry /\ e.since \in Nat /\ f.since \in Nat
      BY <1>1 DEF Joined
    <2> QED BY <2>1, <2>2, EntriesEqual
  <1>3. Joined(l, m) \subseteq Entry
    BY <1>1 DEF Joined
  <1>4. Joined(l, m) \in Ledgers
    BY <1>2, <1>3 DEF Ledgers
  <1>5. ASSUME NEW e \in l \cup m
        PROVE  e.file \in Files(Joined(l, m))
    <2>1. CASE e \in Joined(l, m)
      BY <2>1 DEF Files
    <2>2. CASE e \notin Joined(l, m)
      <3>1. PICK f \in l \cup m : f.file = e.file /\ ~(e.since <= f.since)
        BY <2>2 DEF Joined
      <3>2. \A g \in l \cup m : g.file = f.file => g = f \/ g = e
        BY <1>1, <3>1
      <3>3. f.since <= e.since /\ f.since <= f.since
        BY <1>1, <3>1
      <3>4. f \in Joined(l, m)
        BY <3>2, <3>3 DEF Joined
      <3> QED BY <3>1, <3>4 DEF Files
    <2> QED BY <2>1, <2>2
  <1>6. Files(Joined(l, m)) \subseteq Files(l) \cup Files(m)
    BY DEF Joined, Files
  <1> QED BY <1>4, <1>5, <1>6 DEF Files

LEMMA TodaysLedger ==
    ASSUME day \in Day, NEW names \in SUBSET Attempt
    PROVE  /\ Today(names) \in Ledgers
           /\ Files(Today(names)) = names
  <1>1. Today(names) \subseteq Entry /\ \A e \in Today(names) : e.since = day
    BY DEF Today, Entry
  <1>2. \A e, f \in Today(names) : e.file = f.file => e = f
    BY <1>1, EntriesEqual
  <1>3. \A f \in names : [file |-> f, since |-> day] \in Today(names)
    BY DEF Today
  <1>4. \A e \in Today(names) : e.file \in names
    BY DEF Today
  <1>5. ASSUME NEW f \in names
        PROVE  f \in Files(Today(names))
    <2>1. [file |-> f, since |-> day].file = f
      OBVIOUS
    <2> QED BY <1>3, <2>1 DEF Files
  <1>6. Files(Today(names)) \subseteq names
    BY <1>4 DEF Files
  <1> QED BY <1>1, <1>2, <1>5, <1>6 DEF Ledgers

LEMMA WithoutLedger ==
    ASSUME NEW l \in Ledgers, NEW gone
    PROVE  /\ Without(l, gone) \in Ledgers
           /\ Files(Without(l, gone)) = Files(l) \ gone
  <1>1. Without(l, gone) \in Ledgers
    BY DEF Ledgers, Without
  <1>2. Files(Without(l, gone)) = Files(l) \ gone
    BY DEF Files, Without
  <1> QED BY <1>1, <1>2

LEMMA DisjointLedgers ==
    ASSUME NEW l \in Ledgers, NEW m \in Ledgers, Files(l) \cap Files(m) = {}
    PROVE  /\ l \cup m \in Ledgers
           /\ Files(l \cup m) = Files(l) \cup Files(m)
  <1>1. \A e \in l, f \in m : e.file # f.file
    BY DEF Files
  <1>2. l \cup m \in Ledgers
    BY <1>1 DEF Ledgers
  <1>3. Files(l \cup m) = Files(l) \cup Files(m)
    BY DEF Files
  <1> QED BY <1>2, <1>3

LEMMA FilesInAttempt ==
    ASSUME NEW l \in Ledgers
    PROVE  Files(l) \subseteq Attempt
BY LedgerRules DEF Files

LEMMA EmptyLedger == {} \in Ledgers /\ Files({}) = {}
BY DEF Ledgers, Files

-----------------------------------------------------------------------------
(* Heads                                                                    *)

\* The files a head names.
HeadFiles(h) == IF h = None THEN {} ELSE {h.publication} \cup Files(h.gc)

LEMMA HeadRules ==
    ASSUME NEW h \in Heads \cup {None}, h # None
    PROVE  /\ h \in Heads
           /\ h.stamp \in Attempt /\ h.publication \in Attempt
           /\ h.content \in Content /\ h.gc \in Ledgers
BY DEF Heads

LEMMA EligibleFiles ==
    ASSUME NEW h \in Heads
    PROVE  /\ Eligible(h) \subseteq HeadFiles(h) /\ Eligible(h) \subseteq Attempt
           /\ h.publication \notin Eligible(h)
  <1>1. h # None /\ h.gc \in Ledgers
    BY ConstantsOK DEF Heads
  <1> QED BY <1>1, LedgerRules DEF Eligible, HeadFiles, Files

\* The next head adopts every file of the head before it and of the local ledger,
\* those that were deleted meanwhile excepted.
LEMMA NextHeadRules ==
    ASSUME day \in Day, NEW t \in Tasks, t.stamp \in Attempt, NEW p \in Ledgers
    PROVE  /\ NextHead(t, p) \in Heads
           /\ NextHead(t, p).stamp = t.stamp
           /\ NextHead(t, p).publication =
                IF Reuses(t) THEN t.prev.publication ELSE t.stamp
           /\ HeadFiles(NextHead(t, p)) \subseteq
                {t.stamp} \cup HeadFiles(t.prev) \cup Files(p)
           /\ (HeadFiles(t.prev) \cup Files(p)) \ t.retired
                \subseteq HeadFiles(NextHead(t, p))
  <1> DEFINE pub   == IF Reuses(t) THEN t.prev.publication ELSE t.stamp
             old   == IF t.prev = None THEN {} ELSE t.prev.gc
             known == Without(Joined(old, p), t.retired \cup {pub})
             fresh == IF t.prev = None THEN {} ELSE {t.prev.publication}
             names == fresh \ (Files(known) \cup {pub})
             content == IF Reuses(t) THEN t.prev.content ELSE t.mine
  <1> HIDE DEF pub, old, known, fresh, names, content
  <1>1. t.prev \in Heads \cup {None} /\ t.mine \in Content
    BY DEF Tasks
  <1>2. pub \in Attempt /\ content \in Content /\ old \in Ledgers /\ fresh \in SUBSET Attempt
    BY <1>1, HeadRules, EmptyLedger DEF Reuses, pub, old, fresh, content
  <1>3. /\ known \in Ledgers
        /\ Files(known) = (Files(old) \cup Files(p)) \ (t.retired \cup {pub})
    BY <1>2, JoinedLedger, WithoutLedger DEF known
  <1>4. Today(names) \in Ledgers /\ Files(Today(names)) = names
    BY <1>2, TodaysLedger DEF names
  <1>5. /\ known \cup Today(names) \in Ledgers
        /\ Files(known \cup Today(names)) = Files(known) \cup names
    <2>1. Files(known) \cap Files(Today(names)) = {}
      BY <1>4 DEF names
    <2> QED BY <1>3, <1>4, <2>1, DisjointLedgers
  <1>6. NextHead(t, p) = [stamp |-> t.stamp, publication |-> pub, content |-> content,
                          gc |-> known \cup Today(names)]
    BY DEF NextHead, NextLedger, pub, old, known, fresh, names, content
  <1>7. NextHead(t, p) \in Heads
    BY <1>2, <1>5, <1>6 DEF Heads
  <1>8. HeadFiles(NextHead(t, p)) = {pub} \cup Files(known) \cup names
    <2>1. NextHead(t, p) # None
      BY <1>7, ConstantsOK
    <2>2. NextHead(t, p).publication = pub /\ NextHead(t, p).gc = known \cup Today(names)
      BY <1>6
    <2> QED BY <1>5, <2>1, <2>2 DEF HeadFiles
  <1>9. HeadFiles(t.prev) = fresh \cup Files(old)
    BY EmptyLedger DEF HeadFiles, fresh, old
  <1>10. pub = t.stamp \/ pub \in fresh
    BY DEF Reuses, pub, fresh
  <1>11. NextHead(t, p).stamp = t.stamp /\ NextHead(t, p).publication = pub
    BY <1>6
  <1>12. HeadFiles(NextHead(t, p)) \subseteq {t.stamp} \cup HeadFiles(t.prev) \cup Files(p)
    BY <1>3, <1>8, <1>9, <1>10 DEF names
  <1>13. (HeadFiles(t.prev) \cup Files(p)) \ t.retired \subseteq HeadFiles(NextHead(t, p))
    BY <1>3, <1>8, <1>9 DEF names
  <1> QED BY <1>7, <1>11, <1>12, <1>13 DEF pub

-----------------------------------------------------------------------------
(* The inductive invariant                                                  *)

Bare(t) == /\ t.seen = None \/ t.seen \in Content
           /\ t.prev = None /\ t.stamp = None /\ t.next = None
           /\ t.left = {} /\ t.retired = {}

\* What a task knows at each await, of n attempts so far.
Known(t, n) ==
    /\ t.pc \in {"idle"} \cup Deciding => Bare(t)
    /\ t.pc \in {"apply", "merge"} => t.seen \in Content
    /\ t.pc \in Preparing => t.stamp \in 1..n /\ t.next = None
    /\ t.pc \in Publishing => /\ t.stamp \in 1..n
                            /\ t.next \in Heads /\ t.next.stamp = t.stamp

PhasesKnown == \A d \in Device : Known(task[d], attempts)

Typed == TypeOK /\ PhasesKnown

\* The snapshot of a task is what the store holds, or older.
Snapshot(t, c) ==
    t.pc # "idle" => t.mine.rev <= c.rev /\ (t.mine.rev = c.rev => t.mine = c)

SnapshotsKnown == \A d \in Device : Snapshot(task[d], store[d].content)

\* The attempt of a task may still name its chunks in a head for the first time.
Unpublished(t) == t.pc \in Preparing \cup {"chunk", "check", "publish"}

\* The files a device knows, other than those of its attempt.
Knows(d, f) == \/ f \in Files(store[d].pending)
               \/ f \in task[d].left \cup task[d].retired
               \/ f \in HeadFiles(task[d].prev)
               \/ f \in HeadFiles(task[d].next) /\ f # task[d].stamp

Mentioned(f) == \/ f \in HeadFiles(head)
                \/ f \in wipe.left
                \/ \E d \in Device : Knows(d, f)

\* Chunk files are not named before they are published, nor by two attempts.
NamesFresh ==
    /\ \A f : Mentioned(f) => f \in 1..attempts
    /\ files \subseteq 1..attempts
    /\ \A d \in Device : Unpublished(task[d]) =>
          /\ ~Mentioned(task[d].stamp)
          /\ \A e \in Device \ {d} : task[e].stamp # task[d].stamp

IsAHead(h) == /\ h # None
              /\ \/ h = head
                 \/ \E d \in Device : h = task[d].prev \/ h = task[d].next

\* A stamp tells a head from any other.
StampsTell ==
    /\ \A h, k : IsAHead(h) /\ IsAHead(k) /\ h.stamp = k.stamp => h = k
    /\ \A h : IsAHead(h) => h.stamp \in 1..attempts
    /\ \A d \in Device : Unpublished(task[d]) =>
          \A h : IsAHead(h) /\ h.stamp = task[d].stamp => h = task[d].next

\* What may be deleted is not of the head.
Heading(f) == head # None /\ head.publication = f

LeftDue == \A d \in Device :
    task[d].pc \in Preparing =>
        IF task[d].prev = None THEN task[d].left = {}
        ELSE task[d].prev.publication \notin task[d].left

DoomedNotHead ==
    ~revived =>
        /\ \A d \in Device :
              /\ task[d].pc = "drop" => \A f \in task[d].left : ~Heading(f)
              /\ task[d].pc = "undo" => ~Heading(task[d].stamp)
        /\ wipe.pc = "chunks" => \A f \in wipe.left : ~Heading(f)

\* An attempt that is about to publish chunks of its own has written them.
ChunksWritten ==
    \A d \in Device :
        /\ task[d].pc \in {"check", "publish"}
        /\ task[d].next.publication = task[d].stamp
        => task[d].stamp \in files

\* What an attempt retires is gone, what its head does not name too.
Adopts == \A d \in Device :
    /\ task[d].pc \in Preparing => task[d].retired \cap files = {}
    /\ task[d].pc \in {"chunk", "check", "publish", "verify", "acknowledge"} =>
          (HeadFiles(task[d].prev) \cup Files(store[d].pending)) \cap files
              \subseteq HeadFiles(task[d].next)

CloudInv == Typed /\ SnapshotsKnown /\ NamesFresh /\ StampsTell /\ LeftDue /\ DoomedNotHead
            /\ ChunksWritten /\ Adopts /\ HeadComplete

\* A single browser that neither dies nor deletes the remote files.
Undisturbed == wipes = 0 /\ deaths = 0

Alone == \A d, e \in Device : d = e

\* The head is what the attempt of the browser has made of it; an attempt that reuses
\* chunks writes none.
Owns(d) == LET t == task[d] IN
    /\ Unpublished(t) => head = t.prev
    /\ t.pc \in {"verify", "acknowledge"} => head = t.next
    /\ t.pc \in Preparing => t.stamp \notin files
    /\ t.pc = "chunk" => t.next.publication = t.stamp
    /\ t.pc \in Publishing /\ t.stamp \in files => t.next.publication = t.stamp

OneWriter == Alone /\ Undisturbed => wipe.pc = "idle" /\ \A d \in Device : Owns(d)

Accounted(f) == \/ f \in HeadFiles(head)
                \/ \E d \in Device : f \in Files(store[d].pending)
                \/ \E d \in Device : ~At(d, "idle") /\ f = task[d].stamp

AllAccounted == Alone /\ Undisturbed => \A f \in files : Accounted(f)

-----------------------------------------------------------------------------
(* Types                                                                    *)

LEMMA ContentTyped ==
    /\ EmptyGraph \in Content
    /\ \A c \in Content : c.rev \in Nat /\ c.data \in SUBSET Edit
    /\ \A r \in Nat, s \in SUBSET Edit : [rev |-> r, data |-> s] \in Content
    /\ \A c \in Content, r \in Nat : [c EXCEPT !.rev = Later(@, r)] \in Content
BY DEF EmptyGraph, Content, Later

LEMMA StartTask ==
    ASSUME NEW pc \in {"idle"} \cup Deciding, NEW c \in Content, NEW n \in Nat,
           pc \notin {"apply", "merge"}
    PROVE  Start(pc, c) \in Tasks /\ Known(Start(pc, c), n)
           /\ Start(pc, c).pc = pc /\ Bare(Start(pc, c))
  <1>1. pc \notin Preparing \cup Publishing
    BY DEF Deciding, Preparing, Publishing
  <1> QED BY <1>1 DEF Start, Tasks, Known, Bare

LEMMA IdleTask ==
    ASSUME NEW n \in Nat
    PROVE  Idle \in Tasks /\ Known(Idle, n) /\ Idle.pc = "idle" /\ Bare(Idle)
BY StartTask, ContentTyped DEF Idle

\* One task changes, the others know what they knew.
LEMMA TaskTyped ==
    ASSUME Typed, NEW d \in Device, task' \in [Device -> Tasks],
           \A e \in Device \ {d} : task'[e] = task[e], Known(task'[d], attempts'),
           attempts' = attempts \/ attempts' = attempts + 1
    PROVE  PhasesKnown'
  <1>1. attempts \in Nat /\ 1..attempts \subseteq 1..attempts'
    BY ConstantsOK DEF Typed, TypeOK
  <1>2. \A e \in Device : Known(task[e], attempts')
    BY <1>1 DEF Typed, PhasesKnown, Known
  <1> QED BY <1>2 DEF Typed, TypeOK, PhasesKnown

\* A task is replaced by another.
LEMMA TaskReplaced ==
    ASSUME Typed, NEW d \in Device, NEW t \in Tasks, task' = [task EXCEPT ![d] = t]
    PROVE  /\ task' \in [Device -> Tasks] /\ task'[d] = t
           /\ \A e \in Device \ {d} : task'[e] = task[e]
BY DEF Typed, TypeOK

LEMMA FailRules ==
    ASSUME Typed, NEW d \in Device, NEW retained \in SUBSET Attempt,
           Fail(d, retained), attempts' = attempts \/ attempts' = attempts + 1
    PROVE  /\ store' \in [Device -> Stores]
           /\ task' = [task EXCEPT ![d] = Idle]
           /\ task' \in [Device -> Tasks] /\ PhasesKnown'
           /\ Files(store'[d].pending) = Files(store[d].pending) \cup retained
           /\ store'[d].content = store[d].content /\ store'[d].dirty
           /\ \A e \in Device \ {d} : store'[e] = store[e]
  <1>1. /\ store \in [Device -> Stores] /\ store[d].pending \in Ledgers
        /\ day \in Day /\ attempts \in Nat
    BY ConstantsOK DEF Typed, TypeOK, Stores
  <1>2. /\ Joined(store[d].pending, Today(retained)) \in Ledgers
        /\ Files(Joined(store[d].pending, Today(retained)))
             = Files(store[d].pending) \cup retained
    BY <1>1, TodaysLedger, JoinedLedger
  <1>3. task' = [task EXCEPT ![d] = Idle]
    BY DEF Fail, Finish
  <1>4. task' \in [Device -> Tasks] /\ PhasesKnown'
    <2>1. attempts' \in Nat
      BY <1>1
    <2> QED BY <1>3, <2>1, IdleTask, TaskReplaced, TaskTyped
  <1>5. /\ store' \in [Device -> Stores]
        /\ store'[d].pending = Joined(store[d].pending, Today(retained))
        /\ store'[d].content = store[d].content /\ store'[d].dirty
        /\ \A e \in Device \ {d} : store'[e] = store[e]
    BY <1>1, <1>2 DEF Fail, Stores
  <1> QED BY <1>2, <1>3, <1>4, <1>5

-----------------------------------------------------------------------------
(* Steps                                                                    *)

\* No attempt takes place: at most a task begins, ends or decides.
Quiet ==
    /\ UNCHANGED <<head, revived, files, wipe>>
    /\ attempts' = attempts \/ attempts' = attempts + 1
    /\ \A d \in Device :
          /\ \/ task'[d] = task[d]
             \/ Bare(task'[d]) /\ task'[d].pc \in {"idle"} \cup Deciding
          /\ task'[d] = task[d] \/ Bare(task[d]) \/ deaths' # deaths
          /\ Files(store'[d].pending) = Files(store[d].pending)

Others == UNCHANGED <<edits, day, wipes, faults, deaths>>

LEMMA TypedCommit == \A d \in Device : Typed /\ Commit(d) => Typed' /\ Quiet
  <1> SUFFICES ASSUME Typed, NEW d \in Device, Commit(d)
               PROVE  Typed' /\ Quiet
    OBVIOUS
  <1> DEFINE c == [rev |-> store[d].content.rev + 1, data |-> store[d].content.data \cup {edits + 1}]
  <1>1. store \in [Device -> Stores] /\ store[d].content \in Content /\ edits + 1 \in Edit
    BY ConstantsOK DEF Typed, TypeOK, Stores, Commit, Edit
  <1>2. c \in Content
    BY <1>1, ContentTyped
  <1> HIDE DEF c
  <1>3. store' = [store EXCEPT ![d].content = c, ![d].dirty = TRUE,
                               ![d].unsent = @ \cup {edits + 1}]
    BY <1>1 DEF Commit, c
  <1>4. store' \in [Device -> Stores]
    BY <1>1, <1>2, <1>3 DEF Stores
  <1>5. \A e \in Device : store'[e].pending = store[e].pending
    BY <1>1, <1>3 DEF Stores
  <1>6. edits' \in 0..MaxEdit
    BY ConstantsOK DEF Commit, Typed, TypeOK
  <1>7. Typed'
    BY <1>4, <1>6 DEF Typed, TypeOK, PhasesKnown, Commit, remote, published
  <1> QED BY <1>5, <1>7 DEF Quiet, Commit, Typed, TypeOK, remote, published

\* A task begins, ends or decides and touches nothing else but content.
LEMMA QuietTask ==
    ASSUME Typed, NEW d \in Device, task' \in [Device -> Tasks],
           \A e \in Device \ {d} : task'[e] = task[e],
           Known(task'[d], attempts), Bare(task'[d]), task'[d].pc \in {"idle"} \cup Deciding,
           Bare(task[d]) \/ deaths' # deaths,
           due' \subseteq Device,
           UNCHANGED <<remote, attempts, edits, day, wipe, wipes>>,
           faults' \in 0..MaxFault, deaths' \in 0..MaxDeath,
           store' \in [Device -> Stores],
           \A e \in Device : Files(store'[e].pending) = Files(store[e].pending)
    PROVE  Typed' /\ Quiet
  <1>1. PhasesKnown'
    BY TaskTyped
  <1>2. Typed'
    BY <1>1 DEF Typed, TypeOK, remote, published
  <1> QED BY <1>2 DEF Quiet, Typed, TypeOK, remote, published

LEMMA TaskRules ==
    ASSUME Typed, NEW d \in Device
    PROVE  /\ task[d] \in Tasks /\ Known(task[d], attempts)
           /\ store[d] \in Stores /\ store[d].content \in Content
           /\ store[d].pending \in Ledgers /\ store[d].dirty \in BOOLEAN
           /\ attempts \in Nat
           /\ task[d].pc \in {"idle"} \cup Deciding => Bare(task[d])
  <1>1. task[d] \in Tasks /\ Known(task[d], attempts) /\ store[d] \in Stores /\ attempts \in Nat
    BY ConstantsOK DEF Typed, TypeOK, PhasesKnown
  <1> QED BY <1>1 DEF Stores, Known

\* A task that has not read the head may go on with what it knows.
LEMMA BareTask ==
    ASSUME NEW t \in Tasks, NEW u \in Tasks, NEW n \in Nat,
           t.pc \in {"idle"} \cup Deciding, Known(t, n),
           u.prev = t.prev, u.stamp = t.stamp, u.next = t.next, u.left = t.left,
           u.retired = t.retired, u.pc \in Deciding,
           \/ u.seen = t.seen /\ u.pc \notin {"apply", "merge"}
           \/ u.seen \in Content
    PROVE  Known(u, n) /\ Bare(u)
  <1>1. u.pc \notin Preparing \cup Publishing
    BY DEF Deciding, Preparing, Publishing
  <1> QED BY <1>1 DEF Known, Bare

LEMMA TypedUploadTimer == \A d \in Device : Typed /\ UploadTimer(d) => Typed' /\ Quiet
  <1> SUFFICES ASSUME Typed, NEW d \in Device, UploadTimer(d)
               PROVE  Typed' /\ Quiet
    OBVIOUS
  <1> DEFINE t == Start("head", store[d].content)
  <1>1. t \in Tasks /\ Known(t, attempts) /\ Bare(t) /\ t.pc \in {"idle"} \cup Deciding
    BY TaskRules, StartTask DEF Deciding
  <1>2. CASE At(d, "idle")
    <2>1. Bare(task[d]) /\ task' = [task EXCEPT ![d] = t]
      BY <1>2, TaskRules DEF At, UploadTimer
    <2> QED BY <1>1, <2>1, QuietTask, TaskReplaced DEF UploadTimer, Typed, TypeOK
  <1>3. CASE task' = task
    BY <1>3 DEF UploadTimer, Typed, TypeOK, PhasesKnown, Quiet, remote, published
  <1> QED BY <1>2, <1>3 DEF UploadTimer

LEMMA TypedBeginSync == \A d \in Device : Typed /\ BeginSync(d) => Typed' /\ Quiet
  <1> SUFFICES ASSUME Typed, NEW d \in Device, BeginSync(d)
               PROVE  Typed' /\ Quiet
    OBVIOUS
  <1> DEFINE t == Start("probe", store[d].content)
  <1>1. t \in Tasks /\ Known(t, attempts) /\ Bare(t) /\ t.pc \in {"idle"} \cup Deciding
    BY TaskRules, StartTask DEF Deciding
  <1>2. Bare(task[d])
    BY TaskRules DEF BeginSync, At
  <1> QED BY <1>1, <1>2, QuietTask, TaskReplaced DEF BeginSync, Typed, TypeOK

\* A task that ends without an attempt, too.
LEMMA QuietFinish ==
    ASSUME Typed, NEW d \in Device, Finish(d), Bare(task[d]) \/ deaths' # deaths,
           UNCHANGED <<remote, attempts, edits, day, wipe, wipes>>,
           due' \subseteq due, faults' \in 0..MaxFault, deaths' \in 0..MaxDeath,
           store' = store
    PROVE  Typed' /\ Quiet
  <1>1. task' = [task EXCEPT ![d] = Idle] /\ attempts \in Nat
    BY ConstantsOK DEF Finish, Typed, TypeOK
  <1> QED BY <1>1, IdleTask, QuietTask, TaskReplaced DEF Typed, TypeOK

LEMMA FaultCounted ==
    ASSUME Typed, Fault \/ Sound
    PROVE  faults' \in 0..MaxFault
BY ConstantsOK DEF Typed, TypeOK, Fault, Sound

LEMMA TypedEnds ==
    \A d \in Device : Typed /\ (Unbegun(d) \/ ReadFails(d) \/ Die(d)) => Typed' /\ Quiet
  <1> SUFFICES ASSUME Typed, NEW d \in Device, Unbegun(d) \/ ReadFails(d) \/ Die(d)
               PROVE  Typed' /\ Quiet
    OBVIOUS
  <1>1. faults' \in 0..MaxFault
    BY FaultCounted DEF Unbegun, ReadFails, Die, Sound
  <1>2. deaths' \in 0..MaxDeath
    BY ConstantsOK DEF Unbegun, ReadFails, Die, Typed, TypeOK
  <1>3. Bare(task[d]) \/ deaths' # deaths
    BY TaskRules, ConstantsOK DEF Unbegun, ReadFails, Die, At, Deciding, Typed, TypeOK
  <1> QED BY <1>1, <1>2, <1>3, QuietFinish DEF Unbegun, ReadFails, Die

LEMMA TypedProbe == \A d \in Device : Typed /\ Probe(d) => Typed' /\ Quiet
  <1> SUFFICES ASSUME Typed, NEW d \in Device, Probe(d)
               PROVE  Typed' /\ Quiet
    OBVIOUS
  <1>1. task[d].pc = "probe" /\ "probe" \in Deciding
    BY DEF Probe, At, Deciding
  <1>2. task[d] \in Tasks /\ Known(task[d], attempts) /\ attempts \in Nat /\ Bare(task[d])
    BY <1>1, TaskRules
  <1>3. task[d].only \in BOOLEAN
    BY <1>2 DEF Tasks
  <1>4. Finish(d) => Typed' /\ Quiet
    BY <1>2, QuietFinish DEF Probe, Typed, TypeOK
  <1>5. ASSUME NEW pc \in {"export", "fetch"}, NEW only \in BOOLEAN,
               task' = [task EXCEPT ![d].pc = pc, ![d].only = only]
        PROVE  Typed' /\ Quiet
    <2>1. pc \in Deciding \ {"apply", "merge"}
      BY DEF Deciding
    <2>2. /\ task' \in [Device -> Tasks] /\ task'[d] \in Tasks
          /\ \A e \in Device \ {d} : task'[e] = task[e]
          /\ task'[d].prev = task[d].prev /\ task'[d].stamp = task[d].stamp
          /\ task'[d].next = task[d].next /\ task'[d].left = task[d].left
          /\ task'[d].retired = task[d].retired /\ task'[d].seen = task[d].seen
          /\ task'[d].pc = pc
      BY <1>2, <1>5, <2>1 DEF Tasks, Typed, TypeOK
    <2>3. Known(task'[d], attempts) /\ Bare(task'[d])
      BY <1>1, <1>2, <2>1, <2>2, BareTask
    <2> QED BY <1>2, <2>1, <2>2, <2>3, QuietTask DEF Probe, Typed, TypeOK
  <1>6. ASSUME NEW pc \in {"export", "fetch"}, Goto(d, pc)
        PROVE  Typed' /\ Quiet
    BY <1>2, <1>3, <1>5, <1>6 DEF Goto, Tasks, Typed, TypeOK
  <1>7. ASSUME Readable, task' = [task EXCEPT ![d].pc = "merge", ![d].seen = head.content]
        PROVE  Typed' /\ Quiet
    <2>1. "merge" \in Deciding /\ head.content \in Content
      BY <1>7, HeadRules DEF Deciding, Readable, Typed, TypeOK
    <2>2. /\ task' \in [Device -> Tasks] /\ task'[d] \in Tasks
          /\ \A e \in Device \ {d} : task'[e] = task[e]
          /\ task'[d].prev = task[d].prev /\ task'[d].stamp = task[d].stamp
          /\ task'[d].next = task[d].next /\ task'[d].left = task[d].left
          /\ task'[d].retired = task[d].retired /\ task'[d].seen \in Content
          /\ task'[d].pc = "merge"
      BY <1>2, <1>7, <2>1 DEF Tasks, Typed, TypeOK
    <2>3. Known(task'[d], attempts) /\ Bare(task'[d])
      BY <1>1, <1>2, <2>1, <2>2, BareTask
    <2> QED BY <1>2, <2>1, <2>2, <2>3, QuietTask DEF Probe, Typed, TypeOK
  <1> QED BY <1>4, <1>5, <1>6, <1>7 DEF Probe

LEMMA TypedFetch == \A d \in Device : Typed /\ Fetch(d) => Typed' /\ Quiet
  <1> SUFFICES ASSUME Typed, NEW d \in Device, Fetch(d)
               PROVE  Typed' /\ Quiet
    OBVIOUS
  <1>1. task[d].pc = "fetch" /\ "fetch" \in Deciding /\ "apply" \in Deciding
    BY DEF Fetch, At, Deciding
  <1>2. task[d] \in Tasks /\ Known(task[d], attempts) /\ attempts \in Nat /\ Bare(task[d])
    BY <1>1, TaskRules
  <1>3. CASE ~Readable
    BY <1>2, <1>3, QuietFinish DEF Fetch, Typed, TypeOK
  <1>4. CASE Readable
    <2>1. /\ head.content \in Content
          /\ task' = [task EXCEPT ![d].pc = "apply", ![d].seen = head.content]
      BY <1>4, HeadRules DEF Readable, Fetch, Typed, TypeOK
    <2>2. /\ task' \in [Device -> Tasks] /\ task'[d] \in Tasks
          /\ \A e \in Device \ {d} : task'[e] = task[e]
          /\ task'[d].prev = task[d].prev /\ task'[d].stamp = task[d].stamp
          /\ task'[d].next = task[d].next /\ task'[d].left = task[d].left
          /\ task'[d].retired = task[d].retired /\ task'[d].seen \in Content
          /\ task'[d].pc = "apply"
      BY <1>1, <1>2, <2>1 DEF Tasks, Typed, TypeOK
    <2>3. Known(task'[d], attempts) /\ Bare(task'[d])
      BY <1>1, <1>2, <2>2, BareTask
    <2> QED BY <1>1, <1>2, <2>2, <2>3, QuietTask DEF Fetch, Typed, TypeOK
  <1> QED BY <1>3, <1>4

LEMMA TypedExport == \A d \in Device : Typed /\ Export(d) => Typed' /\ Quiet
  <1> SUFFICES ASSUME Typed, NEW d \in Device, Export(d)
               PROVE  Typed' /\ Quiet
    OBVIOUS
  <1>1. task[d].pc = "export" /\ "export" \in Deciding /\ "head" \in Deciding
    BY DEF Export, At, Deciding
  <1>2. task[d] \in Tasks /\ Known(task[d], attempts) /\ attempts \in Nat
        /\ store[d].content \in Content /\ Bare(task[d])
    BY <1>1, TaskRules
  <1>3. /\ task' \in [Device -> Tasks] /\ task'[d] \in Tasks
        /\ \A e \in Device \ {d} : task'[e] = task[e]
        /\ task'[d].prev = task[d].prev /\ task'[d].stamp = task[d].stamp
        /\ task'[d].next = task[d].next /\ task'[d].left = task[d].left
        /\ task'[d].retired = task[d].retired /\ task'[d].seen = task[d].seen
        /\ task'[d].pc = "head"
    BY <1>1, <1>2 DEF Tasks, Typed, TypeOK, Export
  <1>4. Known(task'[d], attempts) /\ Bare(task'[d])
    BY <1>1, <1>2, <1>3, BareTask
  <1> QED BY <1>1, <1>2, <1>3, <1>4, QuietTask DEF Export, Typed, TypeOK

\* What an import writes.
LEMMA ImportRules ==
    ASSUME Typed, NEW d \in Device, NEW c \in Content, NEW b \in BOOLEAN, Import(d, c, b)
    PROVE  /\ store' \in [Device -> Stores]
           /\ store'[d].content.rev = Later(c.rev, store[d].content.rev + 1)
           /\ store'[d].content.data = c.data
           /\ store'[d].dirty = b
           /\ \A e \in Device : store'[e].pending = store[e].pending
           /\ \A e \in Device \ {d} : store'[e] = store[e]
  <1> DEFINE k == [c EXCEPT !.rev = Later(@, store[d].content.rev + 1)]
  <1>1. store \in [Device -> Stores] /\ store[d] \in Stores /\ store[d].content.rev \in Nat
    BY TaskRules, ContentTyped DEF Typed, TypeOK
  <1>2. k \in Content
    BY <1>1, ContentTyped
  <1>3. k.rev = Later(c.rev, store[d].content.rev + 1) /\ k.data = c.data
    BY DEF Content
  <1> HIDE DEF k
  <1>4. store' = [store EXCEPT ![d].content = k, ![d].dirty = b]
    BY DEF Import, k
  <1>5. store' \in [Device -> Stores]
    BY <1>1, <1>2, <1>4 DEF Stores
  <1>6. store'[d].content = k /\ store'[d].dirty = b
    BY <1>1, <1>4 DEF Stores
  <1>7. \A e \in Device : store'[e].pending = store[e].pending
    BY <1>1, <1>4 DEF Stores
  <1>8. \A e \in Device \ {d} : store'[e] = store[e]
    BY <1>1, <1>4
  <1> QED BY <1>3, <1>5, <1>6, <1>7, <1>8

LEMMA TypedApply == \A d \in Device : Typed /\ Apply(d) => Typed' /\ Quiet
  <1> SUFFICES ASSUME Typed, NEW d \in Device, Apply(d)
               PROVE  Typed' /\ Quiet
    OBVIOUS
  <1>1. task[d].seen \in Content /\ Bare(task[d])
    BY TaskRules DEF Apply, At, Known, Deciding
  <1>2. /\ store' \in [Device -> Stores]
        /\ \A e \in Device : store'[e].pending = store[e].pending
    BY <1>1, ImportRules DEF Apply, Typed, TypeOK
  <1>3. task' = [task EXCEPT ![d] = Idle] /\ attempts \in Nat
    BY TaskRules DEF Apply, Finish
  <1> QED BY <1>1, <1>2, <1>3, IdleTask, QuietTask, TaskReplaced DEF Apply, Typed, TypeOK

LEMMA TypedMerge == \A d \in Device : Typed /\ Merge(d) => Typed' /\ Quiet
  <1> SUFFICES ASSUME Typed, NEW d \in Device, Merge(d)
               PROVE  Typed' /\ Quiet
    OBVIOUS
  <1> DEFINE t == task[d]
             merged == [rev |-> Later(t.mine.rev, t.seen.rev) + 1,
                        data |-> t.mine.data \cup t.seen.data]
  <1>1. t.seen \in Content /\ t.mine \in Content /\ attempts \in Nat /\ Bare(t)
    BY TaskRules DEF Merge, At, Known, Tasks, Deciding
  <1>2. merged \in Content
    <2>1. Later(t.mine.rev, t.seen.rev) + 1 \in Nat
      BY <1>1, ContentTyped DEF Later
    <2> QED BY <1>1, <2>1, ContentTyped
  <1> HIDE DEF merged
  <1>3. CASE Import(d, merged, TRUE) /\ task' = [task EXCEPT ![d] = Start("head", merged)]
    <2>1. /\ store' \in [Device -> Stores]
          /\ \A e \in Device : store'[e].pending = store[e].pending
      BY <1>2, <1>3, ImportRules
    <2>2. LET u == Start("head", merged) IN
          u \in Tasks /\ Known(u, attempts) /\ Bare(u) /\ u.pc \in {"idle"} \cup Deciding
      BY <1>1, <1>2, StartTask DEF Deciding
    <2>3. Bare(task[d])
      BY <1>1
    <2> HIDE DEF t
    <2> QED BY <1>3, <2>1, <2>2, <2>3, QuietTask, TaskReplaced DEF Merge, Typed, TypeOK
  <1>4. CASE Finish(d) /\ UNCHANGED store
    BY <1>1, <1>4, QuietFinish DEF Merge, Typed, TypeOK
  <1> QED BY <1>3, <1>4 DEF Merge, merged

LEMMA TypedNextDay == Typed /\ NextDay => Typed' /\ Quiet
  <1> SUFFICES ASSUME Typed, NextDay
               PROVE  Typed' /\ Quiet
    OBVIOUS
  <1>1. day' \in Day
    BY ConstantsOK DEF Typed, TypeOK, NextDay, Day
  <1> QED BY <1>1 DEF Typed, TypeOK, PhasesKnown, NextDay, Quiet, remote, published

LEMMA QuietStep ==
    ASSUME Typed,
           NextDay \/ \E d \in Device : \/ Commit(d) \/ UploadTimer(d) \/ Decision(d)
                                        \/ Unbegun(d) \/ ReadFails(d) \/ Die(d)
    PROVE  Typed' /\ Quiet
BY TypedNextDay, TypedCommit, TypedUploadTimer, TypedBeginSync, TypedProbe, TypedFetch,
   TypedApply, TypedMerge, TypedExport, TypedEnds DEF Decision

\* A task goes on to its next await and no more.
LEMMA GotoRules ==
    ASSUME Typed, NEW d \in Device, NEW pc, Goto(d, pc), attempts' = attempts,
           \/ task[d].pc \in Preparing /\ pc \in Preparing
           \/ task[d].pc \in Publishing /\ pc \in Publishing
    PROVE  /\ task' \in [Device -> Tasks] /\ PhasesKnown'
           /\ task'[d].pc = pc
           /\ task'[d].mine = task[d].mine
           /\ task'[d].prev = task[d].prev /\ task'[d].stamp = task[d].stamp
           /\ task'[d].next = task[d].next /\ task'[d].left = task[d].left
           /\ task'[d].retired = task[d].retired
           /\ \A e \in Device \ {d} : task'[e] = task[e]
  <1>1. task[d] \in Tasks /\ Known(task[d], attempts) /\ attempts \in Nat
    BY TaskRules
  <1>2. /\ task' \in [Device -> Tasks]
        /\ task'[d].pc = pc
        /\ task'[d].mine = task[d].mine
        /\ task'[d].prev = task[d].prev /\ task'[d].stamp = task[d].stamp
        /\ task'[d].next = task[d].next /\ task'[d].left = task[d].left
        /\ task'[d].retired = task[d].retired
        /\ \A e \in Device \ {d} : task'[e] = task[e]
    BY <1>1 DEF Tasks, Typed, TypeOK, Goto
  <1>3. Known(task'[d], attempts)
    BY <1>1, <1>2 DEF Known, Preparing, Publishing, Deciding
  <1> QED BY <1>2, <1>3, TaskTyped

\* An attempt goes on to its next await and no more.
Advance(d) ==
    /\ UNCHANGED <<store, remote, attempts, wipe>>
    /\ \/ At(d, "collect") /\ Same(head, task[d].prev) /\ Goto(d, "drop")
       \/ At(d, "check") /\ Same(head, task[d].prev) /\ Goto(d, "publish")
       \/ At(d, "check") /\ Goto(d, "compensate")
       \/ At(d, "verify") /\ Same(head, task[d].next) /\ Goto(d, "acknowledge")
       \/ At(d, "compensate") /\ Abandoned(task[d].stamp) /\ Goto(d, "undo")

\* An attempt ends: it has failed, or what it has published is acknowledged.
Ending(d) ==
    /\ UNCHANGED <<head, revived, attempts, wipe>>
    /\ task[d].pc \in Publishing /\ ~Unpublished(task'[d])
    /\ task' = [task EXCEPT ![d] = Idle]
    /\ files' = files \/ (At(d, "undo") /\ files' = files \ {task[d].stamp})
    /\ Files(store'[d].pending) \subseteq Files(store[d].pending) \cup {task[d].stamp}
    /\ \A e \in Device \ {d} : store'[e] = store[e]
    /\ \/ At(d, "acknowledge")
       \/ /\ Files(store[d].pending) \subseteq Files(store'[d].pending)
          /\ task[d].stamp \in files' =>
                \/ task[d].stamp \in Files(store'[d].pending)
                \/ Heading(task[d].stamp) \/ task[d].next.publication # task[d].stamp

LEMMA AdvanceTyped ==
    ASSUME Typed, NEW d \in Device, Advance(d), due' \subseteq Device,
           UNCHANGED <<edits, day, wipes, deaths>>, faults' \in 0..MaxFault
    PROVE  Typed'
  <1>1. task' \in [Device -> Tasks] /\ PhasesKnown'
    BY GotoRules DEF Advance, At, Preparing, Publishing
  <1> QED BY <1>1 DEF Advance, Typed, TypeOK, remote, published

LEMMA EndingTyped ==
    ASSUME Typed, NEW d \in Device, due' \subseteq Device,
           UNCHANGED <<edits, day, wipes, deaths>>, faults' \in 0..MaxFault,
           UNCHANGED <<head, revived, attempts, wipe>>, task[d].pc \in Publishing,
           files' = files \/ (At(d, "undo") /\ files' = files \ {task[d].stamp}),
           \/ Fail(d, Written(d))
           \/ /\ Fail(d, {})
              /\ Written(d) = {} \/ ~Abandoned(task[d].stamp) \/ task[d].stamp \notin files'
    PROVE  Typed' /\ Ending(d)
  <1>0. PICK retained : /\ retained \subseteq {task[d].stamp} /\ Fail(d, retained)
                        /\ task[d].stamp \in files' =>
                              \/ task[d].stamp \in retained
                              \/ Heading(task[d].stamp) \/ task[d].next.publication # task[d].stamp
    BY DEF Written, Abandoned, Heading
  <1>1. retained \in SUBSET Attempt
    BY <1>0, TaskRules, ConstantsOK DEF Known, Typed, TypeOK, Attempt
  <1>2. /\ store' \in [Device -> Stores] /\ task' = [task EXCEPT ![d] = Idle]
        /\ task' \in [Device -> Tasks] /\ PhasesKnown'
        /\ Files(store'[d].pending) = Files(store[d].pending) \cup retained
        /\ \A e \in Device \ {d} : store'[e] = store[e]
    BY <1>0, <1>1, FailRules
  <1>3. task'[d].pc = "idle"
    BY <1>2, IdleTask, TaskRules DEF Typed, TypeOK
  <1>4. ~Unpublished(task'[d])
    BY <1>3 DEF Unpublished, Preparing
  <1>5. Typed'
    BY <1>2 DEF Typed, TypeOK, published
  <1> QED BY <1>0, <1>2, <1>4, <1>5 DEF Ending

LEMMA TypedCollect == \A d \in Device : Typed /\ Collect(d) => Typed' /\ Advance(d)
BY AdvanceTyped DEF Collect, Advance, Typed, TypeOK

LEMMA TypedCheckHead ==
    \A d \in Device : Typed /\ CheckHead(d) => Typed' /\ (Advance(d) \/ Ending(d))
  <1> SUFFICES ASSUME Typed, NEW d \in Device, CheckHead(d)
               PROVE  Typed' /\ (Advance(d) \/ Ending(d))
    OBVIOUS
  <1>1. faults' \in 0..MaxFault /\ due' \subseteq Device
    BY FaultCounted DEF CheckHead, Typed, TypeOK
  <1>2. CASE Fail(d, Written(d))
    BY <1>1, <1>2, EndingTyped DEF CheckHead, At, Publishing, remote, published
  <1>3. CASE ~Fail(d, Written(d))
    <2>1. Advance(d)
      BY <1>3 DEF CheckHead, Advance
    <2> QED BY <1>1, <2>1, AdvanceTyped DEF CheckHead
  <1> QED BY <1>2, <1>3

LEMMA TypedVerify ==
    \A d \in Device : Typed /\ Verify(d) => Typed' /\ (Advance(d) \/ Ending(d))
  <1> SUFFICES ASSUME Typed, NEW d \in Device, Verify(d)
               PROVE  Typed' /\ (Advance(d) \/ Ending(d))
    OBVIOUS
  <1>1. faults' \in 0..MaxFault /\ due' \subseteq Device
    BY FaultCounted DEF Verify, Typed, TypeOK
  <1>2. CASE Fail(d, Written(d))
    BY <1>1, <1>2, EndingTyped DEF Verify, At, Publishing, remote, published
  <1>3. CASE ~Fail(d, Written(d))
    <2>1. Advance(d)
      BY <1>3 DEF Verify, Advance
    <2> QED BY <1>1, <2>1, AdvanceTyped DEF Verify
  <1> QED BY <1>2, <1>3

LEMMA TypedCompensate ==
    \A d \in Device : Typed /\ Compensate(d) => Typed' /\ (Advance(d) \/ Ending(d))
  <1> SUFFICES ASSUME Typed, NEW d \in Device, Compensate(d)
               PROVE  Typed' /\ (Advance(d) \/ Ending(d))
    OBVIOUS
  <1>1. faults' \in 0..MaxFault /\ due' \subseteq Device
    BY FaultCounted DEF Compensate, Typed, TypeOK
  <1>2. CASE \/ Fail(d, Written(d))
             \/ Fail(d, {}) /\ (Written(d) = {} \/ ~Abandoned(task[d].stamp))
    BY <1>1, <1>2, EndingTyped DEF Compensate, At, Publishing, remote, published
  <1>3. CASE ~(\/ Fail(d, Written(d))
               \/ Fail(d, {}) /\ (Written(d) = {} \/ ~Abandoned(task[d].stamp)))
    <2>1. Advance(d)
      BY <1>3 DEF Compensate, Advance
    <2> QED BY <1>1, <2>1, AdvanceTyped DEF Compensate
  <1> QED BY <1>2, <1>3

LEMMA TypedUndo == \A d \in Device : Typed /\ Undo(d) => Typed' /\ Ending(d)
  <1> SUFFICES ASSUME Typed, NEW d \in Device, Undo(d)
               PROVE  Typed' /\ Ending(d)
    OBVIOUS
  <1>1. faults' \in 0..MaxFault /\ due' \subseteq Device
    BY FaultCounted DEF Undo, Typed, TypeOK
  <1>2. files' = files \/ files' = files \ {task[d].stamp}
    BY DEF Undo
  <1>3. files' \subseteq Attempt
    BY <1>2 DEF Typed, TypeOK
  <1>4. \/ Fail(d, Written(d))
        \/ Fail(d, {}) /\ task[d].stamp \notin files'
    BY DEF Undo
  <1>5. UNCHANGED <<edits, day, wipes, deaths>> /\ UNCHANGED <<head, revived, attempts, wipe>>
    BY DEF Undo, published
  <1>6. task[d].pc \in Publishing
    BY DEF Undo, At, Publishing
  <1>7. files' = files \/ (At(d, "undo") /\ files' = files \ {task[d].stamp})
    BY <1>2 DEF Undo
  <1> QED BY <1>1, <1>4, <1>5, <1>6, <1>7, EndingTyped

LEMMA TypedAcknowledge == \A d \in Device : Typed /\ Acknowledge(d) => Typed' /\ Ending(d)
  <1> SUFFICES ASSUME Typed, NEW d \in Device, Acknowledge(d)
               PROVE  Typed' /\ Ending(d)
    OBVIOUS
  <1>1. /\ store' \in [Device -> Stores] /\ store'[d].pending = {}
        /\ \A e \in Device \ {d} : store'[e] = store[e]
    <2> DEFINE isDirty == ~Matches(d)
               left == store[d].unsent \ task[d].next.content.data
               isPresumed == store[d].presumed \/ Presumes(d)
    <2>1. /\ isDirty \in BOOLEAN /\ left \in SUBSET Edit /\ isPresumed \in BOOLEAN
          /\ {} \in Ledgers /\ store \in [Device -> Stores]
      BY EmptyLedger DEF Typed, TypeOK, Stores
    <2>2. store' = [store EXCEPT ![d].dirty = isDirty, ![d].pending = {},
                                 ![d].unsent = left, ![d].presumed = isPresumed]
      BY DEF Acknowledge
    <2> HIDE DEF isDirty, left, isPresumed
    <2>3. store'[d] = [store[d] EXCEPT !.dirty = isDirty, !.pending = {},
                                       !.unsent = left, !.presumed = isPresumed]
      BY <2>1, <2>2
    <2>4. store'[d] \in Stores /\ store'[d].pending = {}
      BY <2>1, <2>3 DEF Stores
    <2> QED BY <2>1, <2>2, <2>4
  <1>2. task' = [task EXCEPT ![d] = Idle] /\ attempts \in Nat
    BY TaskRules DEF Acknowledge, Finish
  <1>3. task' \in [Device -> Tasks] /\ task'[d] = Idle /\ PhasesKnown'
    BY <1>2, IdleTask, TaskReplaced, TaskTyped DEF Acknowledge
  <1>4. due' \subseteq Device
    BY DEF Acknowledge, Typed, TypeOK
  <1>5. Typed'
    BY <1>1, <1>3, <1>4 DEF Acknowledge, Typed, TypeOK, remote, published
  <1>6. ~Unpublished(task'[d])
    BY <1>3, IdleTask, <1>2 DEF Unpublished, Preparing
  <1>7. Files(store'[d].pending) \subseteq Files(store[d].pending) \cup {task[d].stamp}
    BY <1>1, EmptyLedger
  <1>8. task[d].pc \in Publishing
    BY DEF Acknowledge, At, Publishing
  <1>9. UNCHANGED <<head, revived, attempts, wipe, files>>
    BY DEF Acknowledge, remote, published
  <1> QED BY <1>1, <1>2, <1>5, <1>6, <1>7, <1>8, <1>9 DEF Ending, Acknowledge

\* An attempt reads the head and takes its name.
Reading(d) ==
    /\ UNCHANGED <<store, head, revived, files, wipe>>
    /\ attempts' = attempts + 1
    /\ Bare(task[d])
    /\ task'[d].pc = "collect" /\ task'[d].mine = task[d].mine
    /\ task'[d].prev = head /\ task'[d].stamp = attempts + 1 /\ task'[d].next = None
    /\ task'[d].left = (IF head = None THEN {} ELSE Eligible(head))
    /\ task'[d].retired = {}
    /\ \A e \in Device \ {d} : task'[e] = task[e]

LEMMA TypedReadHead ==
    \A d \in Device : Typed /\ ReadHead(d) => Typed' /\ (Reading(d) \/ Quiet)
  <1> SUFFICES ASSUME Typed, NEW d \in Device, ReadHead(d)
               PROVE  Typed' /\ (Reading(d) \/ Quiet)
    OBVIOUS
  <1>1. /\ task[d] \in Tasks /\ Known(task[d], attempts) /\ attempts \in Nat
        /\ task[d].pc = "head" /\ Bare(task[d]) /\ store[d].pending \in Ledgers
    BY TaskRules DEF ReadHead, At, Known, Deciding
  <1>2. faults' \in 0..MaxFault /\ due' \subseteq Device
    BY FaultCounted DEF ReadHead, Typed, TypeOK
  <1>3. attempts' = attempts + 1 /\ attempts + 1 \in 1..MaxAttempt
    BY <1>1, ConstantsOK DEF ReadHead, Typed, TypeOK
  <1> DEFINE left == IF head = None THEN {} ELSE Eligible(head)
  <1>4. left \in SUBSET Attempt /\ head \in Heads \cup {None}
    BY EligibleFiles DEF Typed, TypeOK
  <1> HIDE DEF left
  <1>5. CASE /\ task' = [task EXCEPT ![d].pc = "collect", ![d].prev = head,
                              ![d].stamp = attempts + 1, ![d].left = left]
             /\ UNCHANGED store
    <2>1. /\ task' \in [Device -> Tasks]
          /\ task'[d].pc = "collect" /\ task'[d].mine = task[d].mine
          /\ task'[d].prev = head /\ task'[d].stamp = attempts + 1
          /\ task'[d].next = task[d].next /\ task'[d].left = left
          /\ task'[d].retired = task[d].retired
          /\ \A e \in Device \ {d} : task'[e] = task[e]
      BY <1>1, <1>3, <1>4, <1>5 DEF Tasks, Typed, TypeOK, Attempt, Preparing
    <2>2. task[d].next = None /\ task[d].retired = {}
      BY <1>1 DEF Bare
    <2>3. Known(task'[d], attempts')
      BY <1>1, <1>3, <2>1, <2>2 DEF Known, Preparing, Publishing, Deciding
    <2>4. PhasesKnown'
      BY <1>3, <2>1, <2>3, TaskTyped
    <2>5. UNCHANGED <<head, revived, files, wipe>>
      BY DEF ReadHead, remote, published
    <2>6. Reading(d)
      BY <1>1, <1>3, <1>5, <2>1, <2>2, <2>5 DEF Reading, left
    <2>7. Typed'
      BY <1>2, <1>3, <1>5, <2>1, <2>4, <2>5 DEF ReadHead, Typed, TypeOK
    <2> QED BY <2>6, <2>7
  <1>6. CASE Fail(d, {})
    <2>0. PICK retained \in SUBSET Attempt : retained = {} /\ Fail(d, retained)
      BY <1>6
    <2>1. /\ store' \in [Device -> Stores]
          /\ task' = [task EXCEPT ![d] = Idle]
          /\ task' \in [Device -> Tasks] /\ PhasesKnown'
          /\ Files(store'[d].pending) = Files(store[d].pending)
          /\ \A e \in Device \ {d} : store'[e] = store[e]
      BY <1>3, <2>0, FailRules
    <2>2. task'[d] = Idle /\ \A e \in Device \ {d} : task'[e] = task[e]
      BY <1>1, <2>1, IdleTask, TaskReplaced
    <2>3. Bare(task'[d]) /\ task'[d].pc = "idle"
      BY <1>1, <2>2, IdleTask
    <2>4. UNCHANGED <<head, revived, files, wipe>>
      BY DEF ReadHead, remote, published
    <2>5. Typed'
      BY <1>2, <1>3, <2>1, <2>4 DEF ReadHead, Typed, TypeOK
    <2>6. Quiet
      BY <1>1, <1>3, <2>1, <2>2, <2>3, <2>4 DEF Quiet
    <2> QED BY <2>5, <2>6
  <1> QED BY <1>5, <1>6 DEF ReadHead, left

\* An attempt deletes a file of the ledger, or fails to.
Dropping(d) ==
    /\ UNCHANGED <<store, head, revived, attempts, wipe>>
    /\ At(d, "drop") /\ task'[d].pc = "collect"
    /\ task'[d].mine = task[d].mine
    /\ task'[d].prev = task[d].prev /\ task'[d].stamp = task[d].stamp
    /\ task'[d].next = task[d].next
    /\ \E file \in task[d].left :
          /\ files' = files \/ files' = files \ {file}
          /\ task'[d].left = task[d].left \ {file}
          /\ \/ task'[d].retired = task[d].retired
             \/ task'[d].retired = task[d].retired \cup {file} /\ file \notin files'
    /\ \A e \in Device \ {d} : task'[e] = task[e]

LEMMA TypedDrop == \A d \in Device : Typed /\ Drop(d) => Typed' /\ Dropping(d)
  <1> SUFFICES ASSUME Typed, NEW d \in Device, Drop(d)
               PROVE  Typed' /\ Dropping(d)
    OBVIOUS
  <1>1. task[d] \in Tasks /\ Known(task[d], attempts) /\ attempts \in Nat /\ task[d].pc = "drop"
    BY TaskRules DEF Drop, At
  <1>2. PICK file \in task[d].left, deleted \in BOOLEAN, gone \in BOOLEAN :
          /\ IF deleted THEN gone /\ Sound ELSE Fault
          /\ files' = IF gone THEN files \ {file} ELSE files
          /\ task' = [task EXCEPT ![d].pc = "collect", ![d].left = @ \ {file},
                                  ![d].retired = Retires(@, file, deleted)]
    BY DEF Drop
  <1> DEFINE retired == Retires(task[d].retired, file, deleted)
  <1>3. \/ retired = task[d].retired
        \/ retired = task[d].retired \cup {file} /\ deleted
    BY DEF Retires
  <1>4. retired \in SUBSET Attempt /\ file \in Attempt
    BY <1>1, <1>3 DEF Tasks
  <1>5. task' = [task EXCEPT ![d].pc = "collect", ![d].left = @ \ {file}, ![d].retired = retired]
    BY <1>2
  <1> HIDE DEF retired
  <1>6. /\ task' \in [Device -> Tasks]
        /\ task'[d].pc = "collect" /\ task'[d].mine = task[d].mine
        /\ task'[d].prev = task[d].prev /\ task'[d].stamp = task[d].stamp
        /\ task'[d].next = task[d].next /\ task'[d].left = task[d].left \ {file}
        /\ task'[d].retired = retired
        /\ \A e \in Device \ {d} : task'[e] = task[e]
    BY <1>1, <1>4, <1>5 DEF Tasks, Typed, TypeOK, Preparing
  <1>7. UNCHANGED <<store, due, head, revived, attempts, edits, day, wipe, wipes, deaths>>
    BY DEF Drop, published
  <1>8. Known(task'[d], attempts')
    BY <1>1, <1>6, <1>7 DEF Known, Preparing, Publishing, Deciding
  <1>9. PhasesKnown'
    BY <1>6, <1>7, <1>8, TaskTyped
  <1>10. files' = files \/ files' = files \ {file}
    BY <1>2
  <1>11. faults' \in 0..MaxFault
    BY <1>2, FaultCounted
  <1>12. Typed'
    BY <1>6, <1>7, <1>9, <1>10, <1>11 DEF Typed, TypeOK
  <1>13. \/ task'[d].retired = task[d].retired
         \/ task'[d].retired = task[d].retired \cup {file} /\ file \notin files'
    BY <1>2, <1>3, <1>6
  <1> QED BY <1>1, <1>6, <1>7, <1>10, <1>12, <1>13 DEF Dropping, At

\* The next head is built from what the attempt has read.
Building(d) ==
    /\ UNCHANGED <<store, head, revived, files, attempts, wipe>>
    /\ At(d, "collect")
    /\ task'[d].pc = (IF Reuses(task[d]) THEN "check" ELSE "chunk")
    /\ task'[d].mine = task[d].mine
    /\ task'[d].prev = task[d].prev /\ task'[d].stamp = task[d].stamp
    /\ task'[d].next = NextHead(task[d], store[d].pending)
    /\ task'[d].left = {} /\ task'[d].retired = {}
    /\ \A e \in Device \ {d} : task'[e] = task[e]

LEMMA TypedBuild == \A d \in Device : Typed /\ Build(d) => Typed' /\ Building(d)
  <1> SUFFICES ASSUME Typed, NEW d \in Device, Build(d)
               PROVE  Typed' /\ Building(d)
    OBVIOUS
  <1>1. /\ task[d] \in Tasks /\ Known(task[d], attempts) /\ attempts \in Nat
        /\ task[d].pc = "collect" /\ store[d].pending \in Ledgers
    BY TaskRules DEF Build, At
  <1> DEFINE next == NextHead(task[d], store[d].pending)
             pc   == IF Reuses(task[d]) THEN "check" ELSE "chunk"
  <1>2. task[d].stamp \in 1..attempts /\ task[d].stamp \in Attempt /\ day \in Day
    BY <1>1, ConstantsOK DEF Known, Preparing, Typed, TypeOK, Attempt
  <1>3. next \in Heads /\ next.stamp = task[d].stamp
    BY <1>1, <1>2, NextHeadRules
  <1>4. pc \in Publishing /\ pc \notin Preparing \cup Deciding
    BY DEF Publishing, Preparing, Deciding
  <1>5. task' = [task EXCEPT ![d].next = next, ![d].left = {}, ![d].retired = {}, ![d].pc = pc]
    BY DEF Build
  <1> HIDE DEF next, pc
  <1>6. /\ task' \in [Device -> Tasks]
        /\ task'[d].pc = pc /\ task'[d].mine = task[d].mine
        /\ task'[d].prev = task[d].prev /\ task'[d].stamp = task[d].stamp
        /\ task'[d].next = next /\ task'[d].left = {} /\ task'[d].retired = {}
        /\ \A e \in Device \ {d} : task'[e] = task[e]
    BY <1>1, <1>3, <1>4, <1>5 DEF Tasks, Typed, TypeOK
  <1>7. UNCHANGED <<store, due, head, revived, files, attempts, edits, day, wipe, wipes, deaths>>
    BY DEF Build, remote, published
  <1>8. pc \notin {"idle", "apply", "merge"}
    BY DEF pc
  <1>9. Known(task'[d], attempts')
    BY <1>2, <1>3, <1>4, <1>6, <1>7, <1>8 DEF Known
  <1>10. PhasesKnown'
    BY <1>6, <1>7, <1>9, TaskTyped
  <1>11. faults' \in 0..MaxFault
    BY FaultCounted DEF Build
  <1>12. Typed'
    BY <1>6, <1>7, <1>10, <1>11 DEF Typed, TypeOK
  <1> QED BY <1>1, <1>6, <1>7, <1>12 DEF Building, At, next, pc

\* The chunks are written, or may have been.
Uploading(d) ==
    /\ UNCHANGED <<store, head, revived, attempts, wipe>>
    /\ At(d, "chunk")
    /\ files' = files \/ files' = files \cup {task[d].stamp}
    /\ \/ task'[d].pc = "check" /\ files' = files \cup {task[d].stamp}
       \/ task'[d].pc = "compensate"
    /\ Goto(d, task'[d].pc)

LEMMA TypedUploadChunk == \A d \in Device : Typed /\ UploadChunk(d) => Typed' /\ Uploading(d)
  <1> SUFFICES ASSUME Typed, NEW d \in Device, UploadChunk(d)
               PROVE  Typed' /\ Uploading(d)
    OBVIOUS
  <1>1. /\ task[d] \in Tasks /\ Known(task[d], attempts) /\ attempts \in Nat
        /\ task[d].pc \in Publishing /\ task[d].pc = "chunk"
    BY TaskRules DEF UploadChunk, At, Publishing
  <1>2. UNCHANGED <<store, due, head, revived, attempts, edits, day, wipe, wipes, deaths>>
    BY DEF UploadChunk, published
  <1>3. PICK pc \in {"check", "compensate"} :
           Goto(d, pc) /\ (pc = "check" => files' = files \cup {task[d].stamp})
    BY DEF UploadChunk
  <1>4. pc \in Publishing
    BY DEF Publishing
  <1>5. task' \in [Device -> Tasks] /\ PhasesKnown' /\ task'[d].pc = pc
    BY <1>1, <1>2, <1>3, <1>4, GotoRules
  <1>6. files' = files \/ files' = files \cup {task[d].stamp}
    BY DEF UploadChunk
  <1>7. task[d].stamp \in Attempt
    BY <1>1, ConstantsOK DEF Known, Typed, TypeOK, Attempt
  <1>8. faults' \in 0..MaxFault
    BY FaultCounted DEF UploadChunk
  <1>9. Typed'
    BY <1>2, <1>5, <1>6, <1>7, <1>8 DEF Typed, TypeOK
  <1> QED BY <1>1, <1>2, <1>3, <1>5, <1>6, <1>9 DEF Uploading, At

\* The head is replaced, or may have been.
Putting(d) ==
    /\ UNCHANGED <<store, files, attempts, wipe>>
    /\ At(d, "publish")
    /\ \/ head' = task[d].next
       \/ head' = head /\ task'[d].pc = "compensate"
    /\ revived' = (revived \/ (head' # head /\ Revives(task[d].next)))
    /\ task'[d].pc \in {"verify", "compensate"}
    /\ Goto(d, task'[d].pc)

LEMMA TypedPublish == \A d \in Device : Typed /\ Publish(d) => Typed' /\ Putting(d)
  <1> SUFFICES ASSUME Typed, NEW d \in Device, Publish(d)
               PROVE  Typed' /\ Putting(d)
    OBVIOUS
  <1>1. /\ task[d] \in Tasks /\ Known(task[d], attempts) /\ attempts \in Nat
        /\ task[d].pc \in Publishing /\ task[d].pc = "publish"
    BY TaskRules DEF Publish, At, Publishing
  <1>2. UNCHANGED <<store, due, files, attempts, edits, day, wipe, wipes, deaths>>
    BY DEF Publish
  <1>3. PICK pc \in {"verify", "compensate"} :
           Goto(d, pc) /\ (head' = task[d].next \/ (head' = head /\ pc = "compensate"))
    BY DEF Publish
  <1>4. pc \in Publishing
    BY DEF Publishing
  <1>5. task' \in [Device -> Tasks] /\ PhasesKnown' /\ task'[d].pc = pc
    BY <1>1, <1>2, <1>3, <1>4, GotoRules
  <1>6. head' \in Heads \cup {None}
    BY <1>1, <1>3 DEF Known, Typed, TypeOK
  <1>7. revived' = (revived \/ (head' # head /\ Revives(task[d].next)))
    BY DEF Publish
  <1>8. faults' \in 0..MaxFault
    BY FaultCounted DEF Publish
  <1>9. Typed'
    <2>1. revived' \in BOOLEAN
      BY <1>7
    <2> QED BY <1>2, <1>5, <1>6, <1>8, <2>1 DEF Typed, TypeOK
  <1> QED BY <1>1, <1>2, <1>3, <1>5, <1>7, <1>9 DEF Putting, At

\* The remote files are deleted beside the attempts.
LEMMA TypedWipe == Typed /\ Wipe => Typed' /\ UNCHANGED <<store, task, revived, attempts>>
  <1> SUFFICES ASSUME Typed, Wipe
               PROVE  Typed' /\ UNCHANGED <<store, task, revived, attempts>>
    OBVIOUS
  <1>1. UNCHANGED <<store, due, task, revived, attempts, edits, day, deaths>>
    BY DEF Wipe, BeginWipe, WipeHead, WipeCheck, WipeChunk, remote, published
  <1>2. faults' \in 0..MaxFault
    BY <1>1, FaultCounted DEF Wipe, BeginWipe, WipeHead, WipeCheck, WipeChunk, Sound
  <1>3. head' \in Heads \cup {None} /\ files' \subseteq Attempt
    BY DEF Wipe, BeginWipe, WipeHead, WipeCheck, WipeChunk, remote, published, Typed, TypeOK
  <1>4. wipes' \in 0..MaxWipe
    BY ConstantsOK DEF Wipe, BeginWipe, WipeHead, WipeCheck, WipeChunk, Typed, TypeOK
  <1>5. wipe' \in [pc : {"idle", "delete", "check", "chunks"}, left : SUBSET Attempt]
    <2>1. CASE BeginWipe
      <3>1. head \in Heads /\ head.publication \in Attempt /\ head.gc \in Ledgers
        BY <2>1, HeadRules DEF BeginWipe, Typed, TypeOK
      <3>2. {head.publication} \cup Files(head.gc) \in SUBSET Attempt
        BY <3>1, FilesInAttempt
      <3> QED BY <2>1, <3>2 DEF BeginWipe
    <2>2. CASE WipeHead \/ WipeCheck \/ WipeChunk
      BY <2>2 DEF WipeHead, WipeCheck, WipeChunk, NoWipe, Typed, TypeOK
    <2> QED BY <2>1, <2>2 DEF Wipe
  <1>6. PhasesKnown'
    BY <1>1 DEF Typed, PhasesKnown
  <1> QED BY <1>1, <1>2, <1>3, <1>4, <1>5, <1>6 DEF Typed, TypeOK

\* What a step is to the attempts.
Kinds ==
    \/ Quiet
    \/ UNCHANGED vars
    \/ \E d \in Device : \/ Reading(d) \/ Dropping(d) \/ Building(d) \/ Uploading(d)
                         \/ Putting(d) \/ Advance(d) \/ Ending(d)
    \/ Wipe

LEMMA TypedStep == Typed /\ [Next]_vars => Typed' /\ Kinds
  <1> SUFFICES ASSUME Typed, [Next]_vars
               PROVE  Typed' /\ Kinds
    OBVIOUS
  <1>1. CASE UNCHANGED vars
    BY <1>1 DEF vars, Typed, TypeOK, PhasesKnown, Kinds, remote, published
  <1>2. CASE NextDay
    BY <1>2, QuietStep DEF Kinds
  <1>3. CASE Wipe
    BY <1>3, TypedWipe DEF Kinds
  <1>4. ASSUME NEW d \in Device,
               Commit(d) \/ UploadTimer(d) \/ Decision(d) \/ ReadFails(d) \/ Die(d)
        PROVE  Typed' /\ Kinds
    BY <1>4, QuietStep DEF Kinds
  <1>5. ASSUME NEW d \in Device, Publication(d)
        PROVE  Typed' /\ Kinds
    <2>1. CASE ReadHead(d)
      BY <2>1, TypedReadHead DEF Kinds
    <2>2. CASE Unbegun(d)
      BY <2>2, QuietStep DEF Kinds
    <2>3. CASE Collect(d)
      BY <2>3, TypedCollect DEF Kinds
    <2>4. CASE Drop(d)
      BY <2>4, TypedDrop DEF Kinds
    <2>5. CASE Build(d)
      BY <2>5, TypedBuild DEF Kinds
    <2>6. CASE UploadChunk(d)
      BY <2>6, TypedUploadChunk DEF Kinds
    <2>7. CASE CheckHead(d)
      BY <2>7, TypedCheckHead DEF Kinds
    <2>8. CASE Publish(d)
      BY <2>8, TypedPublish DEF Kinds
    <2>9. CASE Verify(d)
      BY <2>9, TypedVerify DEF Kinds
    <2>10. CASE Compensate(d)
      BY <2>10, TypedCompensate DEF Kinds
    <2>11. CASE Undo(d)
      BY <2>11, TypedUndo DEF Kinds
    <2>12. CASE Acknowledge(d)
      BY <2>12, TypedAcknowledge DEF Kinds
    <2> QED
      BY <1>5, <2>1, <2>2, <2>3, <2>4, <2>5, <2>6, <2>7, <2>8, <2>9, <2>10, <2>11, <2>12
         DEF Publication
  <1> QED BY <1>1, <1>2, <1>3, <1>4, <1>5 DEF Next

LEMMA TypedInit == Init => Typed
  <1> SUFFICES ASSUME Init
               PROVE  Typed
    OBVIOUS
  <1>1. store \in [Device -> Stores]
    BY ContentTyped, EmptyLedger DEF Init, Stores
  <1>2. Idle \in Tasks /\ Known(Idle, attempts)
    BY IdleTask DEF Init
  <1>3. task \in [Device -> Tasks] /\ \A d \in Device : task[d] = Idle
    BY <1>2 DEF Init
  <1>4. PhasesKnown
    BY <1>2, <1>3 DEF PhasesKnown
  <1>5. /\ attempts \in 0..MaxAttempt /\ edits \in 0..MaxEdit /\ day \in Day
        /\ wipes \in 0..MaxWipe /\ faults \in 0..MaxFault /\ deaths \in 0..MaxDeath
    BY ConstantsOK DEF Init, Day
  <1> QED BY <1>1, <1>3, <1>4, <1>5 DEF Init, Typed, TypeOK, NoWipe

\* TypeOK holds of every reachable state: the records a sync task carries between its
\* awaits, the head and both ledgers keep their shape.
THEOREM TypeCorrect == Spec => []TypeOK
  <1>1. Init => Typed
    BY TypedInit
  <1>2. Typed /\ [Next]_vars => Typed'
    BY TypedStep
  <1>3. Typed => TypeOK
    BY DEF Typed
  <1> QED BY <1>1, <1>2, <1>3, PTL DEF Spec

-----------------------------------------------------------------------------
(* Snapshots: what a task publishes or merges, against what the store holds *)

\* A task keeps its snapshot or ends, the store keeps its content.
ContentKept ==
    \A d \in Device :
        /\ store'[d].content = store[d].content
        /\ task'[d].pc # "idle" => task[d].pc # "idle" /\ task'[d].mine = task[d].mine

LEMMA FailKeeps ==
    ASSUME Typed, NEW d \in Device, NEW retained, Fail(d, retained)
    PROVE  ContentKept /\ \A e \in Device : store[e].dirty => store'[e].dirty
  <1>1. \A e \in Device : /\ store'[e].content = store[e].content
                          /\ store[e].dirty => store'[e].dirty
    BY DEF Fail, Typed, TypeOK, Stores
  <1>2. \A e \in Device : task'[e].pc # "idle" => task'[e] = task[e]
    BY IdleTask DEF Fail, Finish, Typed, TypeOK, Idle, Start
  <1> QED BY <1>1, <1>2 DEF ContentKept

LEMMA GotoKeeps ==
    ASSUME Typed, NEW d \in Device, NEW pc, Goto(d, pc), task[d].pc # "idle",
           \A e \in Device : store'[e].content = store[e].content
    PROVE  ContentKept
BY DEF Goto, Typed, TypeOK, Tasks, ContentKept

LEMMA PublicationKeeps ==
    \A d \in Device : Typed /\ Publication(d) => ContentKept
  <1> SUFFICES ASSUME Typed, NEW d \in Device, Publication(d)
               PROVE  ContentKept
    OBVIOUS
  <1>1. (\E r : Fail(d, r)) => ContentKept
    BY FailKeeps
  <1>2. ASSUME UNCHANGED store, task[d].pc # "idle", \E pc : Goto(d, pc)
        PROVE  ContentKept
    BY <1>2, GotoKeeps
  <1>3. CASE Collect(d) \/ CheckHead(d) \/ Verify(d) \/ Compensate(d) \/ Undo(d)
    BY <1>1, <1>2, <1>3 DEF Collect, CheckHead, Verify, Compensate, Undo, At
  <1>4. CASE UploadChunk(d) \/ Publish(d)
    BY <1>2, <1>4 DEF UploadChunk, Publish, At
  <1>5. CASE ReadHead(d)
    <2>1. CASE UNCHANGED store
      <3>1. CASE Fail(d, {})
        BY <1>1, <3>1
      <3>2. CASE ~Fail(d, {})
        <4>1. /\ task'[d].mine = task[d].mine
              /\ \A e \in Device \ {d} : task'[e] = task[e]
          BY <1>5, <3>2 DEF ReadHead, Typed, TypeOK, Tasks
        <4> QED BY <1>5, <2>1, <4>1 DEF ReadHead, At, ContentKept
      <3> QED BY <3>1, <3>2
    <2> QED BY <1>1, <1>5, <2>1 DEF ReadHead
  <1>6. CASE Drop(d) \/ Build(d)
    <2>1. /\ task'[d].mine = task[d].mine
          /\ \A e \in Device \ {d} : task'[e] = task[e]
          /\ store' = store /\ task[d].pc # "idle"
      BY <1>6, TypedDrop, TypedBuild DEF Dropping, Building, At
    <2> QED BY <2>1 DEF ContentKept
  <1>7. CASE Unbegun(d)
    BY <1>7 DEF Unbegun, Finish, Idle, Start, At, ContentKept, Typed, TypeOK
  <1>8. CASE Acknowledge(d)
    BY <1>8 DEF Acknowledge, Finish, Idle, Start, At, ContentKept, Typed, TypeOK, Stores
  <1> QED BY <1>3, <1>4, <1>5, <1>6, <1>7, <1>8 DEF Publication

\* A merge stores the graph it goes on to publish.
LEMMA MergeRules ==
    ASSUME Typed, SnapshotsKnown, NEW d \in Device, Merge(d), task'[d].pc # "idle"
    PROVE  /\ task'[d].mine = store'[d].content
           /\ store[d].content.data \subseteq store'[d].content.data
           /\ store'[d].dirty
           /\ \A e \in Device \ {d} : store'[e] = store[e] /\ task'[e] = task[e]
  <1> DEFINE t == task[d]
             merged == [rev |-> Later(t.mine.rev, t.seen.rev) + 1,
                        data |-> t.mine.data \cup t.seen.data]
  <1>1. t.seen \in Content /\ t.mine \in Content /\ attempts \in Nat /\ t.pc = "merge"
        /\ store[d].content \in Content
    BY TaskRules DEF Merge, At, Known, Tasks
  <1>2. Imports(d, FALSE)
    BY IdleTask, <1>1 DEF Merge, Finish, Typed, TypeOK
  <1>3. Import(d, merged, TRUE) /\ task' = [task EXCEPT ![d] = Start("head", merged)]
    BY <1>2 DEF Merge
  <1>4. /\ Later(t.mine.rev, t.seen.rev) + 1 \in Nat
        /\ Later(t.mine.rev, t.seen.rev) + 1 >= t.mine.rev + 1
        /\ t.mine.rev \in Nat
    BY <1>1, ContentTyped DEF Later
  <1>5. merged \in Content
    BY <1>1, <1>4, ContentTyped
  <1>6. store[d].content = t.mine
    BY <1>1, <1>2 DEF Imports, SnapshotsKnown, Snapshot
  <1> HIDE DEF t
  <1>7. /\ store' \in [Device -> Stores]
        /\ store'[d].content.rev = Later(merged.rev, store[d].content.rev + 1)
        /\ store'[d].content.data = merged.data /\ store'[d].dirty
        /\ \A e \in Device \ {d} : store'[e] = store[e]
    <2> HIDE DEF merged
    <2> QED BY <1>3, <1>5, ImportRules
  <1>8. store'[d].content.rev = merged.rev
    BY <1>4, <1>6, <1>7 DEF Later
  <1>9. store'[d].content = merged
    <2>1. store'[d].content \in Content
      BY <1>7 DEF Stores
    <2>2. \A a, b \in Content : a.rev = b.rev /\ a.data = b.data => a = b
      BY DEF Content
    <2> HIDE DEF merged
    <2> QED BY <1>5, <1>7, <1>8, <2>1, <2>2
  <1>10. task'[d].mine = merged /\ \A e \in Device \ {d} : task'[e] = task[e]
    BY <1>3 DEF Start, Typed, TypeOK
  <1>11. store[d].content.data \subseteq merged.data
    BY <1>6
  <1> QED BY <1>7, <1>9, <1>10, <1>11

LEMMA SnapshotsStep == Typed /\ SnapshotsKnown /\ [Next]_vars => SnapshotsKnown'
  <1> SUFFICES ASSUME Typed, SnapshotsKnown, [Next]_vars
               PROVE  SnapshotsKnown'
    OBVIOUS
  <1>1. /\ store' \in [Device -> Stores] /\ task' \in [Device -> Tasks]
        /\ \A d \in Device : Snapshot(task[d], store[d].content)
    BY TypedStep DEF Typed, TypeOK, SnapshotsKnown
  <1>2. ContentKept => SnapshotsKnown'
    BY <1>1 DEF ContentKept, SnapshotsKnown, Snapshot
  <1>3. CASE UNCHANGED vars \/ NextDay \/ Wipe
    BY <1>1, <1>3, TypedWipe DEF vars, NextDay, SnapshotsKnown, Snapshot
  <1>4. ASSUME NEW d \in Device, Commit(d)
        PROVE  SnapshotsKnown'
    <2>1. /\ store'[d].content.rev = store[d].content.rev + 1
          /\ \A e \in Device \ {d} : store'[e] = store[e]
          /\ task' = task
      BY <1>4 DEF Commit, Typed, TypeOK, Stores
    <2>2. store[d].content.rev \in Nat /\ task[d].mine.rev \in Nat
      BY TaskRules, ContentTyped DEF Tasks
    <2> QED BY <1>1, <2>1, <2>2 DEF SnapshotsKnown, Snapshot
  <1>5. ASSUME NEW d \in Device, UploadTimer(d) \/ BeginSync(d) \/ Export(d)
        PROVE  SnapshotsKnown'
    <2>1. \A e \in Device \ {d} : task'[e] = task[e]
      BY <1>5 DEF UploadTimer, BeginSync, Export, Typed, TypeOK
    <2>2. task'[d] = task[d] \/ task'[d].mine = store[d].content
      BY <1>5 DEF UploadTimer, BeginSync, Export, Start, Typed, TypeOK, Tasks
    <2>3. store' = store /\ store[d].content.rev \in Nat
      BY <1>5, TaskRules, ContentTyped DEF UploadTimer, BeginSync, Export
    <2> QED BY <1>1, <2>1, <2>2, <2>3 DEF SnapshotsKnown, Snapshot
  <1>6. ASSUME NEW d \in Device, Probe(d) \/ Fetch(d) \/ ReadFails(d) \/ Die(d)
        PROVE  SnapshotsKnown'
    <2>1. \A e \in Device \ {d} : task'[e] = task[e]
      BY <1>6 DEF Probe, Fetch, ReadFails, Die, Finish, Goto, Typed, TypeOK
    <2>2. task'[d].pc = "idle" \/ (task'[d].mine = task[d].mine /\ task[d].pc # "idle")
      BY <1>6 DEF Probe, Fetch, ReadFails, Die, Finish, Goto, Idle, Start, At, Typed, TypeOK, Tasks
    <2>3. store' = store
      BY <1>6 DEF Probe, Fetch, ReadFails, Die
    <2> QED BY <1>1, <2>1, <2>2, <2>3 DEF SnapshotsKnown, Snapshot
  <1>7. ASSUME NEW d \in Device, Apply(d)
        PROVE  SnapshotsKnown'
    <2>1. /\ task'[d].pc = "idle"
          /\ \A e \in Device \ {d} : task'[e] = task[e]
          /\ \A e \in Device \ {d} : store'[e] = store[e]
      BY <1>7 DEF Apply, Finish, Idle, Start, Import, Typed, TypeOK
    <2> QED BY <1>1, <2>1 DEF SnapshotsKnown, Snapshot
  <1>8. ASSUME NEW d \in Device, Merge(d)
        PROVE  SnapshotsKnown'
    <2>1. CASE task'[d].pc # "idle"
      <3>1. store'[d].content.rev \in Nat
        BY <1>1, ContentTyped DEF Stores
      <3> QED BY <1>1, <1>8, <2>1, <3>1, MergeRules DEF SnapshotsKnown, Snapshot
    <2>2. CASE task'[d].pc = "idle"
      <3>1. \A e \in Device \ {d} : store'[e] = store[e] /\ task'[e] = task[e]
        BY <1>8 DEF Merge, Finish, Import, Typed, TypeOK
      <3> QED BY <1>1, <2>2, <3>1 DEF SnapshotsKnown, Snapshot
    <2> QED BY <2>1, <2>2
  <1>9. ASSUME NEW d \in Device, Publication(d)
        PROVE  SnapshotsKnown'
    BY <1>2, <1>9, PublicationKeeps
  <1> QED BY <1>3, <1>4, <1>5, <1>6, <1>7, <1>8, <1>9 DEF Next, Decision

\* Only an acknowledgement makes a dirty store clean.
LEMMA DirtyKept ==
    ASSUME Typed, [Next]_vars, NEW d \in Device, store[d].dirty, ~store'[d].dirty
    PROVE  Acknowledge(d) /\ Matches(d)
  <1>1. task \in [Device -> Tasks] /\ store \in [Device -> Stores]
    BY DEF Typed, TypeOK
  <1>2. CASE UNCHANGED vars \/ NextDay \/ Wipe
    BY <1>2, TypedWipe DEF vars, NextDay
  <1>3. ASSUME NEW e \in Device, Commit(e)
        PROVE  FALSE
    BY <1>1, <1>3 DEF Commit, Stores
  <1>4. ASSUME NEW e \in Device, Merge(e) \/ Apply(e)
        PROVE  FALSE
    BY <1>1, <1>4 DEF Merge, Apply, Import, Imports, Stores
  <1>5. ASSUME NEW e \in Device,
               \/ UploadTimer(e) \/ BeginSync(e) \/ Export(e) \/ Probe(e) \/ Fetch(e)
               \/ ReadFails(e) \/ Die(e) \/ Unbegun(e) \/ Collect(e)
        PROVE  FALSE
    BY <1>5 DEF UploadTimer, BeginSync, Export, Probe, Fetch, ReadFails, Die, Unbegun, Collect
  <1>6. ASSUME NEW e \in Device, Drop(e) \/ Build(e) \/ UploadChunk(e) \/ Publish(e)
        PROVE  FALSE
    BY <1>6 DEF Drop, Build, UploadChunk, Publish
  <1>7. ASSUME NEW e \in Device,
               ReadHead(e) \/ CheckHead(e) \/ Verify(e) \/ Compensate(e) \/ Undo(e)
        PROVE  FALSE
    <2>1. UNCHANGED store \/ \E r : Fail(e, r)
      BY <1>7 DEF ReadHead, CheckHead, Verify, Compensate, Undo
    <2> QED BY <2>1, FailKeeps
  <1>8. ASSUME NEW e \in Device, Acknowledge(e)
        PROVE  Acknowledge(d) /\ Matches(d)
    BY <1>1, <1>8 DEF Acknowledge, Stores
  <1> QED BY <1>2, <1>3, <1>4, <1>5, <1>6, <1>7, <1>8 DEF Next, Decision, Publication

\* A store whose device presumed nothing holds what the device has not published, and is
\* dirty while there is any.
UnsentAt(d) ==
    ~store[d].presumed => /\ store[d].unsent \subseteq store[d].content.data
                          /\ store[d].dirty \/ store[d].unsent = {}

UnsentKept == \A d \in Device : UnsentAt(d)

\* What an acknowledgement of an equal revision makes of a store.
LEMMA Acknowledged ==
    ASSUME Typed, SnapshotsKnown, NEW d \in Device, Acknowledge(d), Matches(d),
           ~store'[d].presumed
    PROVE  /\ task[d].next \in Heads /\ store'[d].content = store[d].content
           /\ store[d].dirty => task[d].next.content = store[d].content
           /\ store'[d].unsent = store[d].unsent \ task[d].next.content.data
           /\ ~store[d].presumed
  <1>1. store \in [Device -> Stores] /\ store[d] \in Stores
    BY DEF Typed, TypeOK
  <1>2. task[d].pc = "acknowledge" /\ "acknowledge" \in Publishing
    BY DEF Acknowledge, At, Publishing
  <1>3. task[d].next \in Heads
    BY <1>2, TaskRules DEF Known
  <1>4. task[d].mine = store[d].content
    BY <1>2 DEF Matches, SnapshotsKnown, Snapshot
  <1>5. /\ store'[d].content = store[d].content
        /\ store'[d].unsent = store[d].unsent \ task[d].next.content.data
        /\ store'[d].presumed = (store[d].presumed \/ Presumes(d))
    BY <1>1 DEF Acknowledge, Stores
  <1>6. ~store[d].presumed /\ ~Presumes(d)
    BY <1>5
  <1> QED BY <1>3, <1>4, <1>5, <1>6 DEF Presumes

LEMMA UnsentStep == Typed /\ SnapshotsKnown /\ UnsentKept /\ [Next]_vars => UnsentKept'
  <1> SUFFICES ASSUME Typed, SnapshotsKnown, UnsentKept, [Next]_vars
               PROVE  UnsentKept'
    OBVIOUS
  <1>1. task \in [Device -> Tasks] /\ store \in [Device -> Stores]
    BY DEF Typed, TypeOK
  <1>2. ASSUME \A d \in Device : /\ store'[d].content = store[d].content
                                 /\ store'[d].unsent = store[d].unsent
                                 /\ store'[d].presumed = store[d].presumed
                                 /\ store[d].dirty => store'[d].dirty
        PROVE  UnsentKept'
    BY <1>2 DEF UnsentKept, UnsentAt
  <1>3. CASE UNCHANGED vars \/ NextDay \/ Wipe
    BY <1>2, <1>3, TypedWipe DEF vars, NextDay
  <1>4. ASSUME NEW e \in Device, Commit(e)
        PROVE  UnsentKept'
    <2>1. /\ store'[e].content.data = store[e].content.data \cup {edits + 1}
          /\ store'[e].unsent = store[e].unsent \cup {edits + 1}
          /\ store'[e].presumed = store[e].presumed /\ store'[e].dirty
          /\ \A d \in Device \ {e} : store'[d] = store[d]
      BY <1>1, <1>4 DEF Commit, Stores
    <2> QED BY <2>1 DEF UnsentKept, UnsentAt
  <1>5. ASSUME NEW e \in Device, NEW c, NEW b, Import(e, c, b)
        PROVE  /\ store'[e].unsent = store[e].unsent
               /\ store'[e].presumed = store[e].presumed
               /\ \A d \in Device \ {e} : store'[d] = store[d]
    BY <1>1, <1>5 DEF Import, Stores
  <1>6. ASSUME NEW e \in Device, Apply(e)
        PROVE  UnsentKept'
    <2>1. CASE UNCHANGED store
      BY <1>2, <2>1
    <2>2. CASE Imports(e, TRUE) /\ Import(e, task[e].seen, FALSE)
      BY <1>5, <2>2 DEF Imports, UnsentKept, UnsentAt
    <2> QED BY <1>6, <2>1, <2>2 DEF Apply
  <1>7. ASSUME NEW e \in Device, Merge(e)
        PROVE  UnsentKept'
    <2>1. CASE UNCHANGED store
      BY <1>2, <2>1
    <2>2. ASSUME NEW c, Import(e, c, TRUE), task' = [task EXCEPT ![e] = Start("head", c)]
          PROVE  UnsentKept'
      <3>1. task'[e].pc # "idle"
        BY <1>1, <2>2 DEF Start
      <3>2. /\ store[e].content.data \subseteq store'[e].content.data /\ store'[e].dirty
            /\ \A d \in Device \ {e} : store'[d] = store[d]
        BY <1>7, <3>1, MergeRules
      <3>3. store'[e].unsent = store[e].unsent /\ store'[e].presumed = store[e].presumed
        BY <1>5, <2>2
      <3> QED BY <3>2, <3>3 DEF UnsentKept, UnsentAt
    <2> QED BY <1>7, <2>1, <2>2 DEF Merge
  <1>8. ASSUME NEW e \in Device,
               \/ UploadTimer(e) \/ BeginSync(e) \/ Export(e) \/ Probe(e) \/ Fetch(e)
               \/ ReadFails(e) \/ Die(e) \/ Unbegun(e) \/ Collect(e)
               \/ Drop(e) \/ Build(e) \/ UploadChunk(e) \/ Publish(e)
        PROVE  UnsentKept'
    <2>1. UNCHANGED store
      BY <1>8 DEF UploadTimer, BeginSync, Export, Probe, Fetch, ReadFails, Die, Unbegun, Collect,
         Drop, Build, UploadChunk, Publish
    <2> QED BY <1>2, <2>1
  <1>9. ASSUME NEW e \in Device,
               ReadHead(e) \/ CheckHead(e) \/ Verify(e) \/ Compensate(e) \/ Undo(e)
        PROVE  UnsentKept'
    <2>1. UNCHANGED store \/ \E r : Fail(e, r)
      BY <1>9 DEF ReadHead, CheckHead, Verify, Compensate, Undo
    <2>2. ASSUME NEW r, Fail(e, r)
          PROVE  UnsentKept'
      BY <1>1, <1>2, <2>2 DEF Fail, Stores
    <2> QED BY <1>2, <2>1, <2>2
  <1>10. ASSUME NEW e \in Device, Acknowledge(e)
         PROVE  UnsentKept'
    <2>1. /\ \A d \in Device \ {e} : store'[d] = store[d]
          /\ store'[e].content = store[e].content
          /\ store'[e].unsent = store[e].unsent \ task[e].next.content.data
          /\ store'[e].presumed = (store[e].presumed \/ Presumes(e))
          /\ store'[e].dirty = ~Matches(e)
      BY <1>1, <1>10 DEF Acknowledge, Stores
    <2>2. CASE store'[e].presumed
      BY <2>1, <2>2 DEF UnsentKept, UnsentAt
    <2>3. CASE ~store'[e].presumed /\ ~Matches(e)
      <3>1. ~store[e].presumed /\ store'[e].dirty
        BY <2>1, <2>3
      <3> QED BY <2>1, <3>1 DEF UnsentKept, UnsentAt
    <2>4. CASE ~store'[e].presumed /\ Matches(e)
      <3>1. UnsentAt(e) /\ ~store[e].presumed
        BY <1>10, <2>4, Acknowledged DEF UnsentKept
      <3>2. store'[e].unsent = {}
        BY <1>10, <2>1, <2>4, <3>1, Acknowledged DEF UnsentAt
      <3> QED BY <2>1, <3>2 DEF UnsentKept, UnsentAt
    <2> QED BY <2>2, <2>3, <2>4
  <1> QED BY <1>3, <1>4, <1>6, <1>7, <1>8, <1>9, <1>10 DEF Next, Decision, Publication

LEMMA UnsentInvariant == Spec => [](Typed /\ SnapshotsKnown /\ UnsentKept)
  <1>1. Init => Typed /\ SnapshotsKnown /\ UnsentKept
    BY TypedInit DEF Init, SnapshotsKnown, Snapshot, Idle, Start, UnsentKept, UnsentAt
  <1>2. Typed /\ SnapshotsKnown /\ UnsentKept /\ [Next]_vars
        => (Typed /\ SnapshotsKnown /\ UnsentKept)'
    BY TypedStep, SnapshotsStep, UnsentStep
  <1> QED BY <1>1, <1>2, PTL DEF Spec

\* A store becomes clean only when the head its task has published holds exactly what the
\* store holds, and so every edit made there: whatever is committed during the publication
\* stays dirty, because an equal revision is an equal content (SnapshotsKnown). What an
\* idle check presumes is left out.
THEOREM DirtyClearedCorrect == Spec => DirtyClearedExactly
  <1>1. Typed /\ SnapshotsKnown /\ UnsentKept /\ [Next]_vars
        => [\A d \in Device :
               store[d].dirty /\ ~store'[d].dirty /\ ~store'[d].presumed
                  => /\ task[d].next # None
                     /\ store'[d].content = task[d].next.content
                     /\ store'[d].unsent = {}]_vars
    <2> SUFFICES ASSUME Typed, SnapshotsKnown, UnsentKept, [Next]_vars,
                        NEW d \in Device, store[d].dirty, ~store'[d].dirty,
                        ~store'[d].presumed
                 PROVE  /\ task[d].next # None
                        /\ store'[d].content = task[d].next.content
                        /\ store'[d].unsent = {}
      OBVIOUS
    <2>1. Acknowledge(d) /\ Matches(d)
      BY DirtyKept
    <2>2. /\ task[d].next \in Heads /\ store'[d].content = store[d].content
          /\ task[d].next.content = store[d].content
          /\ store'[d].unsent = store[d].unsent \ task[d].next.content.data
          /\ store[d].unsent \subseteq store[d].content.data
      BY <2>1, Acknowledged DEF UnsentKept, UnsentAt
    <2> QED BY <2>2, ConstantsOK
  <1> QED BY <1>1, UnsentInvariant, PTL DEF Spec, DirtyClearedExactly

\* No content is replaced but by a remote one a clean store takes, or by a merge that
\* has it, and a clean store has no edit left to publish: what is not published is kept.
THEOREM EditsKeptCorrect == Spec => []UnsyncedEditsKept
  <1>1. UnsentKept => UnsyncedEditsKept
    BY DEF UnsentKept, UnsentAt, UnsyncedEditsKept
  <1> QED BY <1>1, UnsentInvariant, PTL

-----------------------------------------------------------------------------
(* Names: chunks are not named before they are published, nor by two attempts *)

LEMMA StampRules ==
    ASSUME Typed, NEW d \in Device
    PROVE  /\ task[d].stamp = None \/ task[d].stamp \in 1..attempts
           /\ task[d].pc \in Preparing \cup Publishing => task[d].stamp \in 1..attempts
           /\ Unpublished(task[d]) => task[d].stamp \in 1..attempts
           /\ task[d].stamp \in 1..attempts => task[d].stamp # None
           /\ 1..attempts \subseteq Attempt
  <1>1. task[d] \in Tasks /\ Known(task[d], attempts) /\ attempts \in Nat
    BY TaskRules
  <1>2. task[d].pc \in {"idle"} \cup Deciding \cup Preparing \cup Publishing
    BY <1>1 DEF Tasks
  <1>3. None \notin 1..attempts /\ 1..attempts \subseteq Attempt
    BY <1>1, ConstantsOK DEF Attempt, Typed, TypeOK
  <1> QED BY <1>1, <1>2, <1>3 DEF Known, Bare, Unpublished, Publishing

\* The fields of an attempt that goes on, whatever it does to the server.
LEMMA Onward ==
    ASSUME Typed, NEW d \in Device, Uploading(d) \/ Putting(d) \/ Advance(d)
    PROVE  /\ task'[d].mine = task[d].mine
           /\ task'[d].prev = task[d].prev /\ task'[d].stamp = task[d].stamp
           /\ task'[d].next = task[d].next /\ task'[d].left = task[d].left
           /\ task'[d].retired = task[d].retired
           /\ \A e \in Device \ {d} : task'[e] = task[e]
           /\ Unpublished(task'[d]) => Unpublished(task[d])
  <1>1. PICK pc : /\ Goto(d, pc) /\ attempts' = attempts
                  /\ \/ task[d].pc \in Preparing /\ pc \in Preparing
                     \/ task[d].pc \in Publishing /\ pc \in Publishing
                  /\ pc \in Preparing \cup {"chunk", "check", "publish"}
                       => Unpublished(task[d])
    BY DEF Uploading, Putting, Advance, At, Preparing, Publishing, Unpublished
  <1>2. /\ task'[d].pc = pc /\ task'[d].mine = task[d].mine
        /\ task'[d].prev = task[d].prev /\ task'[d].stamp = task[d].stamp
        /\ task'[d].next = task[d].next /\ task'[d].left = task[d].left
        /\ task'[d].retired = task[d].retired
        /\ \A e \in Device \ {d} : task'[e] = task[e]
    BY <1>1, GotoRules
  <1> QED BY <1>1, <1>2 DEF Unpublished

\* An attempt may name its own chunks from its publication on, nothing else is named anew.
LEMMA NamesKept ==
    ASSUME Typed, NamesFresh, attempts' = attempts \/ attempts' = attempts + 1,
           \A f : Mentioned(f)' =>
              \/ Mentioned(f)
              \/ \E d \in Device : f = task[d].stamp /\ f \in 1..attempts /\ ~Unpublished(task'[d]),
           files' \subseteq 1..attempts,
           \A d \in Device :
              /\ task'[d].stamp = task[d].stamp \/ task'[d].stamp = None
              /\ Unpublished(task'[d]) => Unpublished(task[d]) /\ task'[d].stamp = task[d].stamp
    PROVE  NamesFresh'
  <1>1. attempts \in Nat /\ 1..attempts \subseteq 1..attempts'
    BY ConstantsOK DEF Typed, TypeOK
  <1>2. \A f : Mentioned(f)' => f \in 1..attempts'
    BY <1>1 DEF NamesFresh
  <1>3. files' \subseteq 1..attempts'
    BY <1>1
  <1>4. ASSUME NEW d \in Device, Unpublished(task'[d])
        PROVE  /\ ~Mentioned(task[d].stamp)'
               /\ task'[d].stamp = task[d].stamp
               /\ \A e \in Device \ {d} : task'[e].stamp # task[d].stamp
    <2>1. /\ Unpublished(task[d]) /\ task'[d].stamp = task[d].stamp
          /\ task[d].stamp \in 1..attempts /\ task[d].stamp # None
      BY <1>4, StampRules
    <2>2. /\ ~Mentioned(task[d].stamp)
          /\ \A e \in Device \ {d} : task[e].stamp # task[d].stamp
      BY <2>1 DEF NamesFresh
    <2> QED BY <1>4, <2>1, <2>2
  <1> QED BY <1>2, <1>3, <1>4 DEF NamesFresh

\* A task knows no more than it knew.
LEMMA KnowsLess ==
    ASSUME NEW d \in Device,
           Files(store'[d].pending) \subseteq Files(store[d].pending) \cup {task[d].stamp},
           \/ task'[d] = task[d]
           \/ Bare(task'[d])
           \/ /\ task'[d].left \cup task'[d].retired \subseteq task[d].left \cup task[d].retired
              /\ task'[d].prev = task[d].prev /\ task'[d].stamp = task[d].stamp
              /\ \/ task'[d].next = task[d].next
                 \/ HeadFiles(task'[d].next) \subseteq {task[d].stamp} \cup HeadFiles(task[d].prev)
                                                        \cup Files(store[d].pending)
    PROVE  \A f : Knows(d, f)' => Knows(d, f) \/ (f = task[d].stamp /\ f \in Files(store'[d].pending))
  <1>1. HeadFiles(None) = {}
    BY DEF HeadFiles
  <1>2. CASE Bare(task'[d])
    BY <1>1, <1>2 DEF Knows, Bare
  <1>3. CASE ~Bare(task'[d])
    BY <1>3 DEF Knows
  <1> QED BY <1>2, <1>3

LEMMA NamesStep == Typed /\ NamesFresh /\ Typed' /\ Kinds => NamesFresh'
  <1> SUFFICES ASSUME Typed, NamesFresh, Typed', Kinds
               PROVE  NamesFresh'
    OBVIOUS
  <1>1. /\ files \subseteq 1..attempts /\ attempts \in Nat
        /\ \A e \in Device : ~Unpublished(task[e]) \/ task[e].stamp \in 1..attempts
    BY TaskRules, StampRules, ConstantsOK DEF NamesFresh, Typed, TypeOK
  <1>2. CASE UNCHANGED vars
    BY <1>2 DEF vars, remote, published, NamesFresh, Mentioned, Knows, Unpublished
  <1>3. CASE Quiet
    <2>1. \A e \in Device : \A f : Knows(e, f)' => Knows(e, f)
      <3> SUFFICES ASSUME NEW e \in Device, NEW f, Knows(e, f)'
                   PROVE  Knows(e, f)
        OBVIOUS
      <3>1. HeadFiles(None) = {} /\ Files(store'[e].pending) = Files(store[e].pending)
            /\ (task'[e] = task[e] \/ Bare(task'[e]))
        BY <1>3 DEF Quiet, HeadFiles
      <3> QED BY <3>1 DEF Knows, Bare
    <2>2. \A f : Mentioned(f)' => Mentioned(f)
      BY <1>3, <2>1 DEF Mentioned, Quiet
    <2>3. ASSUME NEW e \in Device
          PROVE  /\ task'[e].stamp = task[e].stamp \/ task'[e].stamp = None
                 /\ Unpublished(task'[e]) => task'[e] = task[e]
      BY <1>3 DEF Quiet, Bare, Unpublished, Preparing, Deciding
    <2> QED BY <1>1, <1>3, <2>2, <2>3, NamesKept DEF Quiet
  <1>4. ASSUME NEW d \in Device, Reading(d)
        PROVE  NamesFresh'
    <2>1. /\ attempts + 1 \in 1..attempts' /\ attempts + 1 \notin 1..attempts
          /\ 1..attempts \subseteq 1..attempts' /\ attempts + 1 # None
      BY <1>1, <1>4, ConstantsOK DEF Reading
    <2>2. \A f \in task'[d].left \cup task'[d].retired \cup HeadFiles(task'[d].prev) :
             f \in HeadFiles(head)
      BY <1>4, EligibleFiles DEF Reading, Typed, TypeOK
    <2>3. HeadFiles(task'[d].next) = {}
      BY <1>4 DEF Reading, HeadFiles
    <2>4. \A f : Mentioned(f)' => Mentioned(f)
      BY <1>4, <2>2, <2>3 DEF Reading, Mentioned, Knows
    <2>5. \A f : Mentioned(f)' => f \in 1..attempts
      BY <2>4 DEF NamesFresh
    <2>6. \A e \in Device \ {d} : task'[e].stamp # attempts + 1
      BY <1>4, <2>1, StampRules DEF Reading
    <2>7. ASSUME NEW e \in Device \ {d}, Unpublished(task'[e])
          PROVE  /\ task'[e].stamp = task[e].stamp /\ ~Mentioned(task[e].stamp)'
                 /\ \A c \in Device \ {e} : task'[c].stamp # task[e].stamp
      <3>1. task'[e] = task[e]
        BY <1>4 DEF Reading
      <3>2. /\ ~Mentioned(task[e].stamp) /\ task[e].stamp # attempts + 1
            /\ \A c \in Device \ {e} : task[c].stamp # task[e].stamp
        BY <2>6, <2>7, <3>1 DEF NamesFresh
      <3>3. \A c \in Device \ {e} : task'[c].stamp # task[e].stamp
        BY <1>4, <3>2 DEF Reading
      <3> QED BY <2>4, <3>1, <3>2, <3>3
    <2>8. task'[d].stamp = attempts + 1 /\ files' = files
      BY <1>4 DEF Reading
    <2>9. \A e \in Device : Unpublished(task'[e]) =>
             /\ \A f : f = task'[e].stamp => ~Mentioned(f)'
             /\ \A c \in Device \ {e} : task'[c].stamp # task'[e].stamp
      BY <2>1, <2>5, <2>6, <2>7, <2>8
    <2> QED BY <1>1, <2>1, <2>5, <2>8, <2>9 DEF NamesFresh
  <1>5. ASSUME NEW d \in Device, Dropping(d) \/ Building(d)
        PROVE  NamesFresh'
    <2>1. /\ store' = store /\ UNCHANGED <<head, wipe, attempts>> /\ files' \subseteq files
          /\ task'[d].prev = task[d].prev /\ task'[d].stamp = task[d].stamp
          /\ task[d].pc \in Preparing
          /\ task'[d].left \cup task'[d].retired \subseteq task[d].left \cup task[d].retired
          /\ \/ task'[d].next = task[d].next
             \/ task'[d].next = NextHead(task[d], store[d].pending)
          /\ \A e \in Device \ {d} : task'[e] = task[e]
      BY <1>5 DEF Dropping, Building, At, Preparing
    <2>2. HeadFiles(NextHead(task[d], store[d].pending))
            \subseteq {task[d].stamp} \cup HeadFiles(task[d].prev) \cup Files(store[d].pending)
      BY <2>1, TaskRules, StampRules, NextHeadRules DEF Typed, TypeOK
    <2>3. \A f : Knows(d, f)' => Knows(d, f)
      BY <2>1, <2>2 DEF Knows
    <2>4. \A f : Mentioned(f)' => Mentioned(f)
      BY <2>1, <2>3 DEF Mentioned, Knows
    <2>5. Unpublished(task[d])
      BY <2>1 DEF Unpublished
    <2> QED BY <1>1, <2>1, <2>4, <2>5, NamesKept
  <1>6. ASSUME NEW d \in Device, Uploading(d) \/ Advance(d) \/ Putting(d)
        PROVE  NamesFresh'
    <2>1. /\ store' = store /\ UNCHANGED <<wipe, attempts>>
          /\ files' \subseteq files \cup {task[d].stamp} /\ task[d].stamp \in 1..attempts
          /\ \/ head' = head
             \/ head' = task[d].next /\ ~Unpublished(task'[d])
      BY <1>6, StampRules DEF Uploading, Advance, Putting, At, Publishing, Preparing,
                              remote, published, Unpublished
    <2>2. /\ task'[d].prev = task[d].prev /\ task'[d].stamp = task[d].stamp
          /\ task'[d].next = task[d].next /\ task'[d].left = task[d].left
          /\ task'[d].retired = task[d].retired
          /\ \A e \in Device \ {d} : task'[e] = task[e]
          /\ Unpublished(task'[d]) => Unpublished(task[d])
      BY <1>6, Onward
    <2>3. \A e \in Device : \A f : Knows(e, f)' => Knows(e, f)
      BY <2>1, <2>2 DEF Knows
    <2>4. ASSUME NEW f, Mentioned(f)'
          PROVE  \/ Mentioned(f)
                 \/ f = task[d].stamp /\ f \in 1..attempts /\ ~Unpublished(task'[d])
      <3>1. CASE f \in HeadFiles(head') /\ head' # head
        BY <2>1, <3>1 DEF Mentioned, Knows
      <3>2. CASE ~(f \in HeadFiles(head') /\ head' # head)
        BY <2>1, <2>3, <2>4, <3>2 DEF Mentioned
      <3> QED BY <3>1, <3>2
    <2> QED BY <1>1, <2>1, <2>2, <2>4, NamesKept
  <1>7. ASSUME NEW d \in Device, Ending(d)
        PROVE  NamesFresh'
    <2>1. /\ task'[d] = Idle /\ \A e \in Device \ {d} : task'[e] = task[e]
          /\ Bare(task'[d]) /\ ~Unpublished(task'[d])
          /\ task[d].stamp \in 1..attempts
      BY <1>1, <1>7, IdleTask, StampRules DEF Ending, Typed, TypeOK
    <2>2. /\ UNCHANGED <<head, wipe, attempts>> /\ files' \subseteq files
          /\ Files(store'[d].pending) \subseteq Files(store[d].pending) \cup {task[d].stamp}
          /\ \A e \in Device \ {d} : store'[e] = store[e]
      BY <1>7 DEF Ending
    <2>3. \A f : Knows(d, f)' => Knows(d, f) \/ f = task[d].stamp
      BY <2>1, <2>2, KnowsLess
    <2>4. \A e \in Device \ {d} : \A f : Knows(e, f)' => Knows(e, f)
      BY <2>1, <2>2 DEF Knows
    <2>5. ASSUME NEW f, Mentioned(f)'
          PROVE  Mentioned(f) \/ (f = task[d].stamp /\ f \in 1..attempts /\ ~Unpublished(task'[d]))
      BY <2>1, <2>2, <2>3, <2>4, <2>5 DEF Mentioned
    <2>6. task'[d].stamp = None
      BY <2>1 DEF Bare
    <2> QED BY <1>1, <2>1, <2>2, <2>5, <2>6, NamesKept
  <1>8. CASE Wipe
    <2>1. UNCHANGED <<store, task, attempts>> /\ files' \subseteq files
      BY <1>8, TypedWipe DEF Wipe, BeginWipe, WipeHead, WipeCheck, WipeChunk, remote
    <2>2. \A e \in Device : \A f : Knows(e, f)' => Knows(e, f)
      BY <2>1 DEF Knows
    <2>3. HeadFiles(head') \subseteq HeadFiles(head)
      BY <1>8 DEF Wipe, BeginWipe, WipeHead, WipeCheck, WipeChunk, remote, published, HeadFiles
    <2>4. wipe'.left \subseteq wipe.left \cup HeadFiles(head)
      BY <1>8 DEF Wipe, BeginWipe, WipeHead, WipeCheck, WipeChunk, NoWipe, HeadFiles,
                  Typed, TypeOK
    <2>5. \A f : Mentioned(f)' => Mentioned(f)
      BY <2>1, <2>2, <2>3, <2>4 DEF Mentioned
    <2> QED BY <1>1, <2>1, <2>5, NamesKept
  <1> QED BY <1>2, <1>3, <1>4, <1>5, <1>6, <1>7, <1>8 DEF Kinds

-----------------------------------------------------------------------------
(* Stamps: a stamp tells a head from any other                              *)

LEMMA StampsKept ==
    ASSUME StampsTell, attempts \in Nat, attempts' = attempts \/ attempts' = attempts + 1,
           \A h : IsAHead(h)' => IsAHead(h),
           \A d \in Device : Unpublished(task'[d]) =>
              Unpublished(task[d]) /\ task'[d].stamp = task[d].stamp /\ task'[d].next = task[d].next
    PROVE  StampsTell'
  <1>1. 1..attempts \subseteq 1..attempts'
    OBVIOUS
  <1>2. \A h, k : IsAHead(h)' /\ IsAHead(k)' /\ h.stamp = k.stamp => h = k
    BY DEF StampsTell
  <1>3. \A h : IsAHead(h)' => h.stamp \in 1..attempts'
    BY <1>1 DEF StampsTell
  <1>4. \A d \in Device : Unpublished(task'[d]) =>
           \A h : IsAHead(h)' /\ h.stamp = task'[d].stamp => h = task'[d].next
    BY DEF StampsTell
  <1> QED BY <1>2, <1>3, <1>4 DEF StampsTell

LEMMA StampsStep == Typed /\ NamesFresh /\ StampsTell /\ Typed' /\ Kinds => StampsTell'
  <1> SUFFICES ASSUME Typed, NamesFresh, StampsTell, Typed', Kinds
               PROVE  StampsTell'
    OBVIOUS
  <1>1. /\ attempts \in Nat
        /\ \A e \in Device : ~Unpublished(task[e]) \/ task[e].stamp \in 1..attempts
    BY StampRules, ConstantsOK DEF Typed, TypeOK
  <1>2. CASE UNCHANGED vars
    BY <1>2 DEF vars, remote, published, StampsTell, IsAHead
  <1>3. CASE Quiet
    <2>1. \A h : IsAHead(h)' => IsAHead(h)
      BY <1>3 DEF Quiet, IsAHead, Bare
    <2>2. \A e \in Device : Unpublished(task'[e]) => task'[e] = task[e]
      BY <1>3 DEF Quiet, Unpublished, Preparing, Deciding
    <2> QED BY <1>1, <1>3, <2>1, <2>2, StampsKept DEF Quiet
  <1>4. ASSUME NEW d \in Device, Reading(d)
        PROVE  StampsTell'
    <2>1. \A h : IsAHead(h)' => IsAHead(h)
      BY <1>4 DEF Reading, IsAHead
    <2>2. attempts + 1 \notin 1..attempts /\ 1..attempts \subseteq 1..attempts'
      BY <1>1, <1>4 DEF Reading
    <2>3. /\ \A h : IsAHead(h)' => h.stamp \in 1..attempts
          /\ \A h, k : IsAHead(h)' /\ IsAHead(k)' /\ h.stamp = k.stamp => h = k
      BY <2>1 DEF StampsTell
    <2>4. \A e \in Device \ {d} : Unpublished(task'[e]) =>
             \A h : IsAHead(h)' /\ h.stamp = task'[e].stamp => h = task'[e].next
      BY <1>4, <2>1 DEF Reading, StampsTell
    <2>5. task'[d].stamp = attempts + 1
      BY <1>4 DEF Reading
    <2> QED BY <2>2, <2>3, <2>4, <2>5 DEF StampsTell
  <1>5. ASSUME NEW d \in Device, Dropping(d)
        PROVE  StampsTell'
    <2>1. \A h : IsAHead(h)' => IsAHead(h)
      BY <1>5 DEF Dropping, IsAHead
    <2>2. \A e \in Device : Unpublished(task'[e]) =>
            Unpublished(task[e]) /\ task'[e].stamp = task[e].stamp /\ task'[e].next = task[e].next
      BY <1>5 DEF Dropping, At, Unpublished, Preparing
    <2>3. attempts' = attempts
      BY <1>5 DEF Dropping
    <2> QED BY <1>1, <2>1, <2>2, <2>3, StampsKept
  <1>6. ASSUME NEW d \in Device, Building(d)
        PROVE  StampsTell'
    <2> DEFINE next == NextHead(task[d], store[d].pending)
    <2>1. /\ task[d].pc \in Preparing /\ Unpublished(task[d])
          /\ task[d].stamp \in 1..attempts /\ task[d].stamp \in Attempt /\ task[d].next = None
      BY <1>1, <1>6, StampRules, TaskRules DEF Building, At, Preparing, Unpublished, Known
    <2>2. next \in Heads /\ next.stamp = task[d].stamp /\ next # None
      BY <2>1, TaskRules, NextHeadRules, ConstantsOK DEF Typed, TypeOK
    <2> HIDE DEF next
    <2>3. /\ task'[d].next = next /\ task'[d].prev = task[d].prev
          /\ task'[d].stamp = task[d].stamp /\ head' = head /\ attempts' = attempts
          /\ \A e \in Device \ {d} : task'[e] = task[e]
      BY <1>6 DEF Building, next
    <2>4. \A h : IsAHead(h)' => IsAHead(h) \/ h = next
      BY <2>3 DEF IsAHead
    <2>5. \A h : IsAHead(h) => h.stamp # task[d].stamp
      BY <2>1 DEF StampsTell, IsAHead
    <2>6. \A h, k : IsAHead(h)' /\ IsAHead(k)' /\ h.stamp = k.stamp => h = k
      BY <2>2, <2>4, <2>5 DEF StampsTell
    <2>7. \A h : IsAHead(h)' => h.stamp \in 1..attempts'
      BY <2>1, <2>2, <2>3, <2>4 DEF StampsTell
    <2>8. ASSUME NEW e \in Device, Unpublished(task'[e]), NEW h, IsAHead(h)',
                 h.stamp = task'[e].stamp
          PROVE  h = task'[e].next
      <3>1. CASE e = d
        BY <2>3, <2>4, <2>5, <2>8, <3>1
      <3>2. CASE e # d
        <4>1. task'[e] = task[e] /\ Unpublished(task[e]) /\ task[d].stamp # task[e].stamp
          BY <2>1, <2>3, <2>8, <3>2 DEF NamesFresh
        <4> QED BY <2>2, <2>4, <2>8, <4>1 DEF StampsTell
      <3> QED BY <3>1, <3>2
    <2> QED BY <2>6, <2>7, <2>8 DEF StampsTell
  <1>7. ASSUME NEW d \in Device, Uploading(d) \/ Advance(d) \/ Putting(d)
        PROVE  StampsTell'
    <2>1. attempts' = attempts /\ (head' = head \/ head' = task[d].next)
      BY <1>7 DEF Uploading, Advance, Putting, remote, published
    <2>2. /\ task'[d].prev = task[d].prev /\ task'[d].stamp = task[d].stamp
          /\ task'[d].next = task[d].next
          /\ \A e \in Device \ {d} : task'[e] = task[e]
          /\ Unpublished(task'[d]) => Unpublished(task[d])
      BY <1>7, Onward
    <2>3. \A h : IsAHead(h)' => IsAHead(h)
      BY <2>1, <2>2 DEF IsAHead
    <2> QED BY <1>1, <2>1, <2>2, <2>3, StampsKept
  <1>8. ASSUME NEW d \in Device, Ending(d)
        PROVE  StampsTell'
    <2>1. /\ Bare(task'[d]) /\ ~Unpublished(task'[d]) /\ head' = head /\ attempts' = attempts
          /\ \A e \in Device \ {d} : task'[e] = task[e]
      BY <1>1, <1>8, IdleTask DEF Ending, Typed, TypeOK
    <2>2. \A h : IsAHead(h)' => IsAHead(h)
      BY <2>1 DEF IsAHead, Bare
    <2> QED BY <1>1, <2>1, <2>2, StampsKept
  <1>9. CASE Wipe
    <2>1. UNCHANGED <<task, attempts>> /\ (head' = head \/ head' = None)
      BY <1>9, TypedWipe DEF Wipe, BeginWipe, WipeHead, WipeCheck, WipeChunk, remote, published
    <2>2. \A h : IsAHead(h)' => IsAHead(h)
      BY <2>1 DEF IsAHead
    <2> QED BY <1>1, <2>1, <2>2, StampsKept
  <1> QED BY <1>2, <1>3, <1>4, <1>5, <1>6, <1>7, <1>8, <1>9 DEF Kinds

-----------------------------------------------------------------------------
(* Files: what is deleted is not of the head                                *)

\* Two reads that show the same stamp show the same head.
LEMMA SameTells ==
    ASSUME Typed, StampsTell, NEW d \in Device
    PROVE  /\ Same(head, task[d].prev) => head = task[d].prev
           /\ Same(head, task[d].next) => head = task[d].next
BY DEF Same, StampsTell, IsAHead

\* Files appear by the upload of an attempt, and disappear in three ways.
LEMMA FilesChange ==
    ASSUME Typed, Kinds
    PROVE  /\ \A f \in files' \ files : \E d \in Device : Uploading(d) /\ f = task[d].stamp
           /\ \A f \in files \ files' :
                 \/ \E d \in Device : task[d].pc = "drop" /\ f \in task[d].left
                 \/ \E d \in Device : task[d].pc = "undo" /\ f = task[d].stamp
                 \/ wipe.pc = "chunks" /\ f \in wipe.left
  <1>1. CASE Quiet \/ UNCHANGED vars
    BY <1>1 DEF Quiet, vars, remote
  <1>2. ASSUME NEW d \in Device, Reading(d) \/ Building(d) \/ Putting(d) \/ Advance(d)
        PROVE  files' = files
    BY <1>2 DEF Reading, Building, Putting, Advance, remote
  <1>3. ASSUME NEW d \in Device, Uploading(d)
        PROVE  files' \ files \subseteq {task[d].stamp} /\ files \subseteq files'
    BY <1>3 DEF Uploading
  <1>4. ASSUME NEW d \in Device, Dropping(d)
        PROVE  files' \subseteq files /\ task[d].pc = "drop" /\ files \ files' \subseteq task[d].left
    BY <1>4 DEF Dropping, At
  <1>5. ASSUME NEW d \in Device, Ending(d)
        PROVE  files' = files \/ (task[d].pc = "undo" /\ files' = files \ {task[d].stamp})
    BY <1>5 DEF Ending, At
  <1>6. CASE Wipe
    <2>1. files' = files \/ (wipe.pc = "chunks" /\ \E f \in wipe.left : files' = files \ {f})
      BY <1>6 DEF Wipe, BeginWipe, WipeHead, WipeCheck, WipeChunk, remote
    <2> QED BY <2>1
  <1> QED BY <1>1, <1>2, <1>3, <1>4, <1>5, <1>6 DEF Kinds

\* The head changes by a publication or is deleted.
LEMMA HeadChange ==
    ASSUME Typed, Kinds
    PROVE  \/ head' = head /\ revived' = revived
           \/ head' = None /\ revived' = revived
           \/ \E d \in Device : Putting(d) /\ head' = task[d].next
  <1>1. CASE Quiet \/ UNCHANGED vars
    BY <1>1 DEF Quiet, vars, remote, published
  <1>2. ASSUME NEW d \in Device, \/ Reading(d) \/ Building(d) \/ Uploading(d) \/ Dropping(d)
                                 \/ Advance(d) \/ Ending(d)
        PROVE  head' = head /\ revived' = revived
    BY <1>2 DEF Reading, Building, Uploading, Dropping, Advance, Ending, remote, published
  <1>3. ASSUME NEW d \in Device, Putting(d)
        PROVE  \/ head' = head /\ revived' = revived
               \/ head' = task[d].next
    BY <1>3 DEF Putting, Typed, TypeOK
  <1>4. CASE Wipe
    BY <1>4, TypedWipe DEF Wipe, BeginWipe, WipeHead, WipeCheck, WipeChunk, remote, published
  <1> QED BY <1>1, <1>2, <1>3, <1>4 DEF Kinds

\* What no head has named before is the only thing a head starts to name, unless it
\* revives the chunks of an earlier one.
LEMMA HeadingChange ==
    ASSUME Typed, Kinds, ~revived'
    PROVE  /\ ~revived
           /\ \A f : Heading(f)' =>
                \/ Heading(f)
                \/ \E d \in Device : /\ task[d].pc = "publish" /\ f = task[d].stamp
                                     /\ task[d].next.publication = f
  <1>1. CASE (head' = head \/ head' = None) /\ revived' = revived
    BY <1>1 DEF Heading
  <1>2. ASSUME NEW d \in Device, Putting(d), head' = task[d].next
        PROVE  /\ ~revived
               /\ \A f : Heading(f)' =>
                    \/ Heading(f)
                    \/ /\ task[d].pc = "publish" /\ f = task[d].stamp
                       /\ task[d].next.publication = f
    <2>1. /\ task[d].pc = "publish" /\ task[d].next.stamp = task[d].stamp
          /\ ~revived /\ (head' = head \/ ~Revives(task[d].next))
      BY <1>2, TaskRules DEF Putting, At, Known, Publishing, Typed, TypeOK
    <2> QED BY <1>2, <2>1 DEF Heading, Revives
  <1> QED BY <1>1, <1>2, HeadChange

LEMMA LeftStep == Typed /\ LeftDue /\ Kinds => LeftDue'
  <1> SUFFICES ASSUME Typed, LeftDue, Kinds
               PROVE  LeftDue'
    OBVIOUS
  <1>1. CASE UNCHANGED vars \/ Wipe
    BY <1>1, TypedWipe DEF vars, LeftDue
  <1>2. CASE Quiet
    <2>1. \A d \in Device : task'[d] = task[d] \/ task'[d].pc \notin Preparing
      BY <1>2 DEF Quiet, Deciding, Preparing
    <2> QED BY <2>1 DEF LeftDue
  <1>3. ASSUME NEW d \in Device, Reading(d)
        PROVE  LeftDue'
    <2>1. head = None \/ head.publication \notin Eligible(head)
      BY EligibleFiles DEF Typed, TypeOK
    <2> QED BY <1>3, <2>1 DEF Reading, LeftDue
  <1>4. ASSUME NEW d \in Device, Dropping(d) \/ Building(d)
        PROVE  LeftDue'
    <2>1. /\ task'[d].prev = task[d].prev /\ task'[d].left \subseteq task[d].left
          /\ task[d].pc \in Preparing
          /\ \A e \in Device \ {d} : task'[e] = task[e]
      BY <1>4 DEF Dropping, Building, At, Preparing
    <2> QED BY <2>1 DEF LeftDue
  <1>5. ASSUME NEW d \in Device, Uploading(d) \/ Advance(d) \/ Putting(d)
        PROVE  LeftDue'
    <2>1. /\ task'[d].prev = task[d].prev /\ task'[d].left = task[d].left
          /\ \A e \in Device \ {d} : task'[e] = task[e]
      BY <1>5, Onward
    <2>2. task'[d].pc \in Preparing => task[d].pc \in Preparing
      BY <1>5, <2>1 DEF Uploading, Advance, Putting, At, Preparing, Goto, Typed, TypeOK, Tasks
    <2> QED BY <2>1, <2>2 DEF LeftDue
  <1>6. ASSUME NEW d \in Device, Ending(d)
        PROVE  LeftDue'
    <2>1. task'[d].pc \notin Preparing /\ \A e \in Device \ {d} : task'[e] = task[e]
      BY <1>6, IdleTask DEF Ending, Unpublished, Typed, TypeOK
    <2> QED BY <2>1 DEF LeftDue
  <1> QED BY <1>1, <1>2, <1>3, <1>4, <1>5, <1>6 DEF Kinds

\* What becomes of one task, and of its ledger.
LEMMA TaskChange ==
    ASSUME Typed, Kinds, NEW d \in Device
    PROVE  /\ \/ task'[d] = task[d]
              \/ Bare(task'[d]) /\ task'[d].pc \in {"idle"} \cup Deciding
              \/ Reading(d) \/ Dropping(d) \/ Building(d) \/ Uploading(d) \/ Putting(d) \/ Advance(d)
           /\ \/ Files(store'[d].pending) = Files(store[d].pending)
              \/ Bare(task'[d]) /\ task'[d].pc = "idle"
  <1>1. CASE Quiet
    BY <1>1 DEF Quiet
  <1>2. CASE UNCHANGED vars \/ Wipe
    BY <1>2, TypedWipe DEF vars
  <1>3. ASSUME NEW e \in Device, Reading(e) \/ Dropping(e) \/ Building(e)
        PROVE  store' = store /\ (e = d \/ task'[d] = task[d])
    BY <1>3 DEF Reading, Dropping, Building
  <1>4. ASSUME NEW e \in Device, Uploading(e) \/ Putting(e) \/ Advance(e)
        PROVE  store' = store /\ (e = d \/ task'[d] = task[d])
    BY <1>4, Onward DEF Uploading, Putting, Advance
  <1>5. ASSUME NEW e \in Device, Ending(e)
        PROVE  \/ Bare(task'[d]) /\ task'[d].pc = "idle"
               \/ store'[d] = store[d] /\ task'[d] = task[d]
    BY <1>5, IdleTask, TaskRules DEF Ending, Typed, TypeOK
  <1> QED BY <1>1, <1>2, <1>3, <1>4, <1>5 DEF Kinds

LEMMA DoomedStep ==
    ASSUME Typed, NamesFresh, StampsTell, LeftDue, DoomedNotHead, Typed', Kinds
    PROVE  DoomedNotHead'
  <1> SUFFICES ASSUME ~revived'
               PROVE  /\ \A d \in Device :
                            /\ task'[d].pc = "drop" => \A f \in task'[d].left : ~Heading(f)'
                            /\ task'[d].pc = "undo" => ~Heading(task[d].stamp)' /\ task'[d].stamp = task[d].stamp
                      /\ wipe'.pc = "chunks" => \A f \in wipe'.left : ~Heading(f)'
    BY DEF DoomedNotHead
  <1>1. /\ ~revived
        /\ \A f : Heading(f)' =>
                \/ Heading(f)
                \/ \E d \in Device : /\ task[d].pc = "publish" /\ f = task[d].stamp
                                     /\ task[d].next.publication = f
    BY HeadingChange
  <1>2. \A d \in Device : task[d].pc = "publish" => Unpublished(task[d])
    BY DEF Unpublished
  <1>3. \A f : Heading(f)' /\ Mentioned(f) => Heading(f)
    BY <1>1, <1>2 DEF NamesFresh
  <1>4. ASSUME NEW d \in Device, task'[d].pc = "drop", NEW f \in task'[d].left
        PROVE  ~Heading(f)'
    <2>1. CASE task'[d] = task[d]
      BY <1>1, <1>3, <1>4, <2>1 DEF DoomedNotHead, Mentioned, Knows
    <2>2. CASE Advance(d)
      <3>1. /\ task[d].pc = "collect" /\ Same(head, task[d].prev) /\ head' = head
            /\ task'[d].left = task[d].left
        BY <1>4, <2>2, Onward DEF Advance, Goto, At, Typed, TypeOK, Tasks, remote, published
      <3>2. head = task[d].prev
        BY <3>1, SameTells
      <3> QED BY <1>4, <3>1, <3>2 DEF LeftDue, Heading, Preparing
    <2>3. CASE ~Advance(d) /\ task'[d] # task[d]
      BY <1>4, <2>3, TaskChange DEF Reading, Dropping, Building, Uploading, Putting, Deciding
    <2> QED BY <2>1, <2>2, <2>3
  <1>5. ASSUME NEW d \in Device, task'[d].pc = "undo"
        PROVE  ~Heading(task[d].stamp)' /\ task'[d].stamp = task[d].stamp
    <2>1. CASE task'[d] = task[d]
      <3>1. ~Heading(task[d].stamp)
        BY <1>1, <1>5, <2>1 DEF DoomedNotHead
      <3>2. \A e \in Device : task[e].pc = "publish" => task[e].stamp # task[d].stamp
        BY <1>2, <1>5, <2>1 DEF NamesFresh
      <3> QED BY <1>1, <2>1, <3>1, <3>2
    <2>2. CASE Advance(d)
      <3>1. Abandoned(task[d].stamp) /\ head' = head /\ task'[d].stamp = task[d].stamp
        BY <1>5, <2>2, Onward DEF Advance, Goto, At, Typed, TypeOK, Tasks, remote, published
      <3> QED BY <3>1 DEF Abandoned, Heading
    <2>3. CASE ~Advance(d) /\ task'[d] # task[d]
      BY <1>5, <2>3, TaskChange DEF Reading, Dropping, Building, Uploading, Putting, Deciding
    <2> QED BY <2>1, <2>2, <2>3
  <1>6. ASSUME wipe'.pc = "chunks", NEW f \in wipe'.left
        PROVE  ~Heading(f)'
    <2>1. CASE wipe' = wipe
      BY <1>1, <1>3, <1>6, <2>1 DEF DoomedNotHead, Mentioned
    <2>2. CASE Wipe
      <3>1. CASE BeginWipe \/ WipeHead
        BY <1>6, <3>1 DEF BeginWipe, WipeHead, NoWipe, Typed, TypeOK
      <3>2. CASE WipeCheck
        BY <1>6, <3>2 DEF WipeCheck, NoWipe, Heading, remote, published
      <3>3. CASE WipeChunk
        <4>1. wipe.pc = "chunks" /\ wipe'.left \subseteq wipe.left /\ head' = head
          BY <3>3 DEF WipeChunk, NoWipe, published, Typed, TypeOK
        <4> QED BY <1>1, <1>6, <4>1 DEF DoomedNotHead, Heading
      <3> QED BY <2>2, <3>1, <3>2, <3>3 DEF Wipe
    <2>3. wipe' = wipe \/ Wipe
      BY DEF Kinds, Quiet, vars, Reading, Dropping, Building, Uploading, Putting, Advance, Ending
    <2> QED BY <2>1, <2>2, <2>3
  <1> QED BY <1>4, <1>5, <1>6

LEMMA ChunksStep ==
    ASSUME Typed, NamesFresh, ChunksWritten, Typed', Kinds
    PROVE  ChunksWritten'
  <1> SUFFICES ASSUME NEW d \in Device, task'[d].pc \in {"check", "publish"},
                      task'[d].next.publication = task'[d].stamp
               PROVE  task'[d].stamp \in files'
    BY DEF ChunksWritten
  <1>1. ASSUME Unpublished(task[d]), task[d].stamp \in files
        PROVE  task[d].stamp \in files'
    <2>1. ~Mentioned(task[d].stamp) /\ \A e \in Device \ {d} : task[e].stamp # task[d].stamp
      BY <1>1 DEF NamesFresh
    <2>2. task[d].pc # "undo"
      BY <1>1 DEF Unpublished, Preparing
    <2> QED BY <1>1, <2>1, <2>2, FilesChange DEF Mentioned, Knows
  <1>2. CASE task'[d] = task[d]
    BY <1>1, <1>2 DEF ChunksWritten, Unpublished
  <1>3. CASE Advance(d)
    <2>1. /\ task[d].pc = "check" /\ task'[d].next = task[d].next
          /\ task'[d].stamp = task[d].stamp
      BY <1>3, Onward DEF Advance, Goto, At, Typed, TypeOK, Tasks
    <2> QED BY <1>1, <2>1 DEF ChunksWritten, Unpublished
  <1>4. CASE Building(d)
    <2>1. /\ task[d].pc \in Preparing /\ Unpublished(task[d]) /\ Reuses(task[d])
          /\ task[d].stamp \in 1..attempts /\ task[d].stamp \in Attempt
          /\ task'[d].stamp = task[d].stamp
          /\ task'[d].next = NextHead(task[d], store[d].pending)
      BY <1>4, StampRules DEF Building, At, Preparing, Unpublished
    <2>2. task'[d].next.publication = task[d].prev.publication
      BY <2>1, TaskRules, NextHeadRules DEF Typed, TypeOK
    <2>3. Mentioned(task[d].prev.publication)
      BY <2>1 DEF Reuses, Mentioned, Knows, HeadFiles
    <2> QED BY <2>1, <2>2, <2>3 DEF NamesFresh
  <1>5. CASE Uploading(d)
    BY <1>5, Onward DEF Uploading
  <1>6. CASE Putting(d) \/ Reading(d) \/ Dropping(d)
    BY <1>6 DEF Putting, Reading, Dropping
  <1> QED BY <1>2, <1>3, <1>4, <1>5, <1>6, TaskChange DEF Deciding

LEMMA HeadStep ==
    ASSUME Typed, DoomedNotHead, ChunksWritten, HeadComplete, Typed', Kinds
    PROVE  HeadComplete'
  <1> SUFFICES ASSUME ~revived', NEW f, Heading(f)'
               PROVE  f \in files'
    BY DEF HeadComplete, Heading
  <1>1. ~revived /\ (Heading(f) \/ \E d \in Device : /\ task[d].pc = "publish"
                                                    /\ f = task[d].stamp
                                                    /\ task[d].next.publication = f)
    BY HeadingChange
  <1>2. CASE Heading(f)
    <2>1. f \in files
      BY <1>1, <1>2 DEF HeadComplete, Heading
    <2> QED BY <1>1, <1>2, <2>1, FilesChange DEF DoomedNotHead
  <1>3. CASE ~Heading(f)
    <2>1. PICK d \in Device : /\ task[d].pc = "publish" /\ f = task[d].stamp
                              /\ task[d].next.publication = f
      BY <1>1, <1>3
    <2>2. f \in files
      BY <2>1 DEF ChunksWritten
    <2>3. head' # head
      BY <1>3 DEF Heading
    <2>4. \E e \in Device : Putting(e)
      BY <2>3, HeadChange DEF Heading
    <2>5. files' = files
      BY <2>4 DEF Putting
    <2> QED BY <2>2, <2>5
  <1> QED BY <1>2, <1>3

-----------------------------------------------------------------------------
(* Adoption: what a publication leaves behind is in the ledger of the next head *)

Adopting == {"chunk", "check", "publish", "verify", "acknowledge"}

LEMMA AdoptsStep ==
    ASSUME Typed, NamesFresh, Adopts, Typed', Kinds
    PROVE  Adopts'
  <1>1. \A f \in files' : Mentioned(f) => f \in files
    <2>1. \A d \in Device : Uploading(d) => Unpublished(task[d])
      BY DEF Uploading, At, Unpublished
    <2> QED BY <2>1, FilesChange DEF NamesFresh
  <1>2. ASSUME NEW d \in Device, task'[d].pc \in Preparing
        PROVE  task'[d].retired \cap files' = {}
    <2>1. \A f \in task[d].retired : Mentioned(f)
      BY DEF Mentioned, Knows
    <2>2. CASE task[d].pc \in Preparing /\ task'[d].retired = task[d].retired
      BY <1>1, <2>1, <2>2 DEF Adopts
    <2>3. CASE Dropping(d)
      BY <1>1, <2>1, <2>3 DEF Dropping, Adopts, At, Preparing
    <2>4. CASE Reading(d)
      BY <2>4 DEF Reading
    <2>5. CASE Uploading(d) \/ Putting(d) \/ Advance(d)
      <3>1. task[d].pc \in Preparing /\ task'[d].retired = task[d].retired
        BY <1>2, <2>5, Onward DEF Uploading, Putting, Advance, At, Goto, Preparing,
                                  Typed, TypeOK, Tasks
      <3> QED BY <2>2, <3>1
    <2>6. CASE Building(d)
      BY <1>2, <2>6 DEF Building, Preparing
    <2> QED BY <1>2, <2>2, <2>3, <2>4, <2>5, <2>6, TaskChange DEF Deciding, Preparing
  <1>3. ASSUME NEW d \in Device, task'[d].pc \in Adopting
        PROVE  (HeadFiles(task'[d].prev) \cup Files(store'[d].pending)) \cap files'
                 \subseteq HeadFiles(task'[d].next)
    <2>1. \A f \in HeadFiles(task[d].prev) \cup Files(store[d].pending) : Mentioned(f)
      BY DEF Mentioned, Knows
    <2>2. Files(store'[d].pending) = Files(store[d].pending)
      BY <1>3, TaskChange DEF Adopting
    <2>3. CASE /\ task[d].pc \in Adopting
               /\ task'[d].prev = task[d].prev /\ task'[d].next = task[d].next
      BY <1>1, <2>1, <2>2, <2>3 DEF Adopts, Adopting
    <2>4. CASE Building(d)
      <3>1. /\ task[d].pc \in Preparing
            /\ task'[d].prev = task[d].prev
            /\ task'[d].next = NextHead(task[d], store[d].pending)
        BY <2>4 DEF Building, At, Preparing
      <3>2. (HeadFiles(task[d].prev) \cup Files(store[d].pending)) \ task[d].retired
              \subseteq HeadFiles(task'[d].next)
        BY <3>1, TaskRules, StampRules, NextHeadRules DEF Typed, TypeOK
      <3>3. task[d].retired \cap files = {}
        BY <3>1 DEF Adopts
      <3> QED BY <1>1, <2>1, <2>2, <3>1, <3>2, <3>3
    <2>5. CASE Uploading(d) \/ Putting(d) \/ Advance(d)
      <3>1. task[d].pc \in Adopting
        BY <1>3, <2>5 DEF Uploading, Putting, Advance, At, Goto, Adopting, Typed, TypeOK, Tasks
      <3> QED BY <2>3, <2>5, <3>1, Onward
    <2>6. CASE Dropping(d) \/ Reading(d)
      BY <1>3, <2>6 DEF Dropping, Reading, Adopting
    <2> QED BY <1>3, <2>3, <2>4, <2>5, <2>6, TaskChange DEF Deciding, Adopting
  <1> QED BY <1>2, <1>3 DEF Adopts, Adopting

-----------------------------------------------------------------------------
(* The theorems                                                             *)

LEMMA CloudInit == Init => CloudInv
  <1> SUFFICES ASSUME Init
               PROVE  CloudInv
    OBVIOUS
  <1>1. Typed /\ SnapshotsKnown
    BY TypedInit DEF Init, SnapshotsKnown, Snapshot, Idle, Start
  <1>2. \A d \in Device : /\ task[d].pc = "idle" /\ Bare(task[d])
                          /\ Files(store[d].pending) = {}
    BY IdleTask, EmptyLedger DEF Init
  <1>3. head = None /\ files = {} /\ wipe.pc = "idle" /\ wipe.left = {}
    BY DEF Init, NoWipe
  <1>4. \A f : ~Mentioned(f)
    BY <1>2, <1>3 DEF Mentioned, Knows, HeadFiles, Bare
  <1>5. \A h : ~IsAHead(h)
    BY <1>2, <1>3 DEF IsAHead, Bare
  <1>6. \A d \in Device : /\ ~Unpublished(task[d])
                          /\ task[d].pc \notin Preparing \cup Publishing
    BY <1>2 DEF Unpublished, Preparing, Publishing
  <1>7. NamesFresh /\ StampsTell
    BY <1>3, <1>4, <1>5, <1>6 DEF NamesFresh, StampsTell
  <1>8. LeftDue /\ DoomedNotHead /\ ChunksWritten /\ Adopts /\ HeadComplete
    BY <1>2, <1>3, <1>6 DEF LeftDue, DoomedNotHead, ChunksWritten, Adopts, HeadComplete
  <1> QED BY <1>1, <1>7, <1>8 DEF CloudInv

LEMMA CloudStep == CloudInv /\ [Next]_vars => CloudInv'
  <1> SUFFICES ASSUME CloudInv, [Next]_vars
               PROVE  CloudInv'
    OBVIOUS
  <1>1. /\ Typed /\ SnapshotsKnown /\ NamesFresh /\ StampsTell /\ LeftDue /\ DoomedNotHead
        /\ ChunksWritten /\ Adopts /\ HeadComplete
    BY DEF CloudInv
  <1>2. Typed' /\ Kinds /\ SnapshotsKnown'
    BY <1>1, TypedStep, SnapshotsStep
  <1>3. NamesFresh' /\ StampsTell' /\ LeftDue'
    BY <1>1, <1>2, NamesStep, StampsStep, LeftStep
  <1>4. DoomedNotHead' /\ ChunksWritten' /\ HeadComplete' /\ Adopts'
    BY <1>1, <1>2, DoomedStep, ChunksStep, HeadStep, AdoptsStep
  <1> QED BY <1>2, <1>3, <1>4 DEF CloudInv

LEMMA CloudInvariant == Spec => []CloudInv
BY CloudInit, CloudStep, PTL DEF Spec

\* Garbage collection, the compensation of an attempt and the deletion of the remote
\* files take no chunks from the head, however browsers interleave: each deletes only
\* what it has seen no head name, and a name is not used before it is published.
THEOREM HeadCorrect == Spec => []HeadComplete
  <1>1. CloudInv => HeadComplete
    BY DEF CloudInv
  <1> QED BY <1>1, CloudInvariant, PTL

\* A head that replaces the one its author has read takes over every file that one,
\* its ledger and the local ledger name and that is still there.
THEOREM NothingForgotten == Spec => NoFileForgotten
  <1>1. CloudInv /\ [Next]_vars
        => [\A d \in Device :
              (/\ At(d, "publish") /\ head' # head /\ head # None
               /\ Same(head, task[d].prev) /\ Same(head', task[d].next))
              => ({head.publication} \cup Files(head.gc) \cup Files(store[d].pending))
                    \cap files
                 \subseteq {head'.publication} \cup Files(head'.gc)]_vars
    <2> SUFFICES ASSUME CloudInv, [Next]_vars, NEW d \in Device,
                        At(d, "publish"), head' # head, head # None,
                        Same(head, task[d].prev), Same(head', task[d].next)
                 PROVE  ({head.publication} \cup Files(head.gc) \cup Files(store[d].pending))
                            \cap files
                          \subseteq {head'.publication} \cup Files(head'.gc)
      OBVIOUS
    <2>1. /\ Typed /\ StampsTell /\ Adopts /\ Typed' /\ Kinds /\ NamesFresh
      BY CloudStep, TypedStep DEF CloudInv
    <2>2. head = task[d].prev
      BY <2>1, SameTells
    <2>3. task[d].next \in Heads /\ task[d].next # None /\ task[d].next.stamp = task[d].stamp
          /\ Unpublished(task[d])
      BY <2>1, TaskRules, ConstantsOK DEF At, Known, Publishing, Unpublished
    <2>4. head' # None /\ head'.stamp = task[d].next.stamp
      BY <2>3 DEF Same
    <2>5. PICK e \in Device : Putting(e) /\ head' = task[e].next
      BY <2>1, <2>4, HeadChange
    <2>6. IsAHead(head')
      BY <2>4, <2>5 DEF IsAHead
    <2>7. head' = task[d].next
      BY <2>1, <2>3, <2>4, <2>5 DEF StampsTell, IsAHead
    <2>8. (HeadFiles(task[d].prev) \cup Files(store[d].pending)) \cap files
             \subseteq HeadFiles(task[d].next)
      BY <2>1 DEF Adopts, At
    <2> QED BY <2>2, <2>4, <2>7, <2>8 DEF HeadFiles
  <1> QED BY <1>1, CloudInvariant, PTL DEF Spec, NoFileForgotten

-----------------------------------------------------------------------------
(* A single browser                                                         *)

\* A browser that has not died, nor deleted the remote files, has not before either.
LEMMA Disturbances ==
    ASSUME Typed, [Next]_vars, Undisturbed'
    PROVE  /\ Undisturbed /\ deaths' = deaths
           /\ wipe.pc = "idle" => ~Wipe \/ UNCHANGED vars
  <1>1. /\ wipes \in Nat /\ deaths \in Nat /\ wipes' = 0 /\ deaths' = 0
    BY ConstantsOK DEF Typed, TypeOK, Undisturbed
  <1>2. CASE UNCHANGED vars
    BY <1>1, <1>2 DEF vars, Undisturbed
  <1>3. CASE Wipe
    BY <1>1, <1>3 DEF Wipe, BeginWipe, WipeHead, WipeCheck, WipeChunk, Undisturbed
  <1>4. CASE NextDay
    BY <1>1, <1>4 DEF NextDay, Undisturbed, Wipe, BeginWipe, WipeHead, WipeCheck, WipeChunk
  <1>5. ASSUME NEW d \in Device, Die(d)
        PROVE  FALSE
    BY <1>1, <1>5 DEF Die
  <1>6. ASSUME NEW d \in Device,
               Commit(d) \/ UploadTimer(d) \/ Decision(d) \/ ReadFails(d) \/ Publication(d)
        PROVE  UNCHANGED <<wipes, deaths>> /\ wipe' = wipe
    BY <1>6 DEF Commit, UploadTimer, ReadFails, Decision, BeginSync, Probe, Fetch, Apply, Merge,
                Export, Publication, ReadHead, Unbegun, Collect, Drop, Build, UploadChunk,
                CheckHead, Publish, Verify, Compensate, Undo, Acknowledge
  <1> QED BY <1>1, <1>2, <1>3, <1>4, <1>5, <1>6 DEF Next, Undisturbed

\* What becomes of a single browser.
LEMMA AloneChange ==
    ASSUME Typed, OneWriter, [Next]_vars, Alone, Undisturbed', NEW d \in Device
    PROVE  /\ Undisturbed /\ wipe.pc = "idle" /\ wipe' = wipe /\ Owns(d) /\ Kinds
           /\ \/ /\ UNCHANGED <<head, files>> /\ task'[d] = task[d]
                 /\ Files(store'[d].pending) = Files(store[d].pending)
              \/ /\ UNCHANGED <<head, files>> /\ Bare(task[d]) /\ Bare(task'[d])
                 /\ Files(store'[d].pending) = Files(store[d].pending)
                 /\ task'[d].pc \in {"idle"} \cup Deciding
              \/ Reading(d) \/ Dropping(d) \/ Building(d) \/ Uploading(d)
              \/ Putting(d) \/ Advance(d) \/ Ending(d)
  <1>1. Undisturbed /\ deaths' = deaths /\ wipe.pc = "idle" /\ Owns(d)
        /\ (~Wipe \/ UNCHANGED vars) /\ Kinds
    BY Disturbances, TypedStep DEF OneWriter
  <1>2. CASE Quiet
    BY <1>1, <1>2 DEF Quiet
  <1>3. CASE UNCHANGED vars
    BY <1>1, <1>3 DEF vars, remote, published
  <1>4. ASSUME NEW e \in Device, \/ Reading(e) \/ Dropping(e) \/ Building(e) \/ Uploading(e)
                                 \/ Putting(e) \/ Advance(e) \/ Ending(e)
        PROVE  /\ wipe' = wipe
               /\ \/ Reading(d) \/ Dropping(d) \/ Building(d) \/ Uploading(d)
                  \/ Putting(d) \/ Advance(d) \/ Ending(d)
    <2>1. e = d
      BY DEF Alone
    <2>2. wipe' = wipe
      BY <1>4 DEF Reading, Dropping, Building, Uploading, Putting, Advance, Ending
    <2> QED BY <1>4, <2>1, <2>2
  <1> QED BY <1>1, <1>2, <1>3, <1>4 DEF Kinds

LEMMA OneWriterStep ==
    ASSUME Typed, StampsTell, NamesFresh, OneWriter, [Next]_vars
    PROVE  OneWriter'
  <1> SUFFICES ASSUME Alone, Undisturbed'
               PROVE  wipe'.pc = "idle" /\ \A d \in Device : Owns(d)'
    BY DEF OneWriter, Alone
  <1>1. wipe'.pc = "idle"
    <2>1. CASE Device = {}
      <3>1. CASE Wipe
        BY <2>1, <3>1, Disturbances, TypedStep DEF OneWriter, vars
      <3> QED BY <2>1, <3>1, TypedStep, Disturbances DEF OneWriter, Kinds, Quiet, vars
    <2>2. CASE Device # {}
      BY <2>2, AloneChange
    <2> QED BY <2>1, <2>2
  <1>2. ASSUME NEW d \in Device
        PROVE  Owns(d)'
    <2>1. Owns(d) /\ files \subseteq 1..attempts /\ attempts \in Nat
      BY AloneChange, TaskRules DEF NamesFresh
    <2>2. CASE UNCHANGED <<head, files>> /\ task'[d] = task[d]
      BY <2>1, <2>2 DEF Owns
    <2>3. CASE Bare(task'[d]) /\ task'[d].pc \in {"idle"} \cup Deciding
      BY <2>3 DEF Owns, Unpublished, Preparing, Publishing, Deciding
    <2>4. CASE Reading(d)
      <3>1. task'[d].stamp \notin files'
        BY <2>1, <2>4 DEF Reading
      <3> QED BY <2>4, <3>1 DEF Owns, Reading, Unpublished, Preparing, Publishing
    <2>5. CASE Dropping(d)
      <3>1. task[d].pc \in Preparing /\ task'[d].pc = "collect" /\ files' \subseteq files
            /\ head' = head /\ task'[d].prev = task[d].prev /\ task'[d].stamp = task[d].stamp
        BY <2>5 DEF Dropping, At, Preparing
      <3> QED BY <2>1, <3>1 DEF Owns, Unpublished, Publishing
    <2>6. CASE Building(d)
      <3>1. /\ task[d].pc \in Preparing /\ task'[d].pc \in {"check", "chunk"}
            /\ task'[d].pc = "chunk" => ~Reuses(task[d])
            /\ head' = head /\ files' = files
            /\ task'[d].prev = task[d].prev /\ task'[d].stamp = task[d].stamp
            /\ task'[d].next = NextHead(task[d], store[d].pending)
        BY <2>6 DEF Building, At, Preparing
      <3>2. task'[d].pc = "chunk" => task'[d].next.publication = task[d].stamp
        BY <3>1, TaskRules, StampRules, NextHeadRules DEF Typed, TypeOK
      <3> QED BY <2>1, <3>1, <3>2 DEF Owns, Unpublished, Publishing, Preparing
    <2>7. CASE Uploading(d)
      <3>1. /\ task[d].pc = "chunk" /\ task'[d].pc \in {"check", "compensate"} /\ head' = head
        BY <2>7 DEF Uploading, At
      <3>2. /\ task'[d].prev = task[d].prev /\ task'[d].stamp = task[d].stamp
            /\ task'[d].next = task[d].next
        BY <2>7, Onward
      <3> QED BY <2>1, <3>1, <3>2 DEF Owns, Unpublished, Publishing, Preparing
    <2>8. CASE Putting(d)
      <3>1. /\ task[d].pc = "publish" /\ task'[d].pc \in {"verify", "compensate"}
            /\ task'[d].pc = "verify" => head' = task[d].next
            /\ files' = files
        BY <2>8 DEF Putting, At
      <3>2. /\ task'[d].stamp = task[d].stamp /\ task'[d].next = task[d].next
        BY <2>8, Onward
      <3> QED BY <2>1, <3>1, <3>2 DEF Owns, Unpublished, Publishing, Preparing
    <2>9. CASE Advance(d)
      <3>1. /\ head' = head /\ files' = files
            /\ task'[d].prev = task[d].prev /\ task'[d].stamp = task[d].stamp
            /\ task'[d].next = task[d].next
        BY <2>9, Onward DEF Advance, remote, published
      <3>2. \/ task[d].pc = "collect" /\ task'[d].pc = "drop"
            \/ task[d].pc = "check" /\ task'[d].pc \in {"publish", "compensate"}
            \/ task[d].pc = "verify" /\ task'[d].pc = "acknowledge"
            \/ task[d].pc = "compensate" /\ task'[d].pc = "undo"
        BY <2>9 DEF Advance, Goto, At, Typed, TypeOK, Tasks
      <3> QED BY <2>1, <3>1, <3>2 DEF Owns, Unpublished, Publishing, Preparing
    <2>10. CASE Ending(d)
      <3>1. task'[d].pc = "idle"
        BY <2>1, <2>10, IdleTask DEF Ending, Typed, TypeOK
      <3> QED BY <3>1 DEF Owns, Unpublished, Publishing, Preparing
    <2> QED BY <2>2, <2>3, <2>4, <2>5, <2>6, <2>7, <2>8, <2>9, <2>10, AloneChange
  <1> QED BY <1>1, <1>2

\* A chunk file the browser knows of is accounted for after every step.
LEMMA AccountedStep ==
    ASSUME CloudInv, OneWriter, AllAccounted, [Next]_vars
    PROVE  AllAccounted'
  <1> SUFFICES ASSUME Alone, Undisturbed', NEW f \in files'
               PROVE  Accounted(f)'
    BY DEF AllAccounted, Alone
  <1>1. Typed /\ Typed' /\ Kinds /\ Adopts /\ NamesFresh
    BY TypedStep DEF CloudInv
  <1>2. f \in files => Accounted(f)
    BY <1>1, Disturbances DEF AllAccounted
  <1>3. ASSUME Device = {}
        PROVE  Accounted(f)'
    <2>1. f \in files /\ f \in HeadFiles(head)
      BY <1>1, <1>2, <1>3, FilesChange DEF Accounted
    <2>2. UNCHANGED vars \/ Quiet \/ Wipe
      BY <1>1, <1>3 DEF Kinds
    <2>3. wipe.pc = "idle"
      BY <1>1, Disturbances DEF OneWriter
    <2>4. head' = head
      BY <1>1, <2>2, <2>3, Disturbances DEF Quiet, vars, remote, published
    <2> QED BY <2>1, <2>4 DEF Accounted
  <1>4. ASSUME NEW d \in Device
        PROVE  Accounted(f)'
    <2>1. /\ f \in files => \/ f \in HeadFiles(head)
                            \/ f \in Files(store[d].pending)
                            \/ ~At(d, "idle") /\ f = task[d].stamp
          /\ f \in Attempt /\ f # None
      BY <1>1, <1>2, ConstantsOK DEF Accounted, Alone, Typed, TypeOK, Attempt
    <2>2. Owns(d)
      BY <1>1, AloneChange
    <2>3. CASE /\ UNCHANGED <<head, files>> /\ task'[d] = task[d]
               /\ Files(store'[d].pending) = Files(store[d].pending)
      BY <2>1, <2>3 DEF Accounted, At
    <2>4. CASE /\ UNCHANGED <<head, files>> /\ Bare(task[d])
               /\ Files(store'[d].pending) = Files(store[d].pending)
      BY <2>1, <2>4 DEF Accounted, Bare
    <2>5. CASE Reading(d)
      BY <2>1, <2>5 DEF Accounted, Reading, Bare
    <2>6. CASE Dropping(d) \/ Building(d)
      <3>1. /\ head' = head /\ files' \subseteq files /\ store' = store
            /\ task'[d].stamp = task[d].stamp /\ task'[d].pc # "idle"
        BY <2>6 DEF Dropping, Building
      <3> QED BY <2>1, <3>1 DEF Accounted, At
    <2>7. CASE Uploading(d) \/ Advance(d)
      <3>1. /\ head' = head /\ store' = store /\ task'[d].stamp = task[d].stamp
            /\ f \in files \/ f = task[d].stamp
        BY <1>1, <2>7, Onward DEF Uploading, Advance, remote, published
      <3>2. task'[d].pc # "idle"
        BY <1>1, <2>7 DEF Uploading, Advance, Goto, Typed, TypeOK, Tasks
      <3> QED BY <2>1, <3>1, <3>2 DEF Accounted, At
    <2>8. CASE Putting(d)
      <3>1. /\ files' = files /\ store' = store /\ task'[d].stamp = task[d].stamp
            /\ task[d].pc = "publish" /\ task'[d].pc # "idle"
            /\ head' = head \/ head' = task[d].next
        BY <1>1, <2>8, Onward DEF Putting, At
      <3>2. head = task[d].prev
        BY <2>2, <3>1 DEF Owns, Unpublished
      <3>3. HeadFiles(head) \cap files \subseteq HeadFiles(task[d].next)
        BY <1>1, <3>1, <3>2 DEF Adopts
      <3> QED BY <2>1, <3>1, <3>3 DEF Accounted, At
    <2>9. CASE Ending(d)
      <3>1. /\ f \in files /\ head' = head /\ task[d].pc \in Publishing
            /\ task[d].stamp \in files => task[d].next.publication = task[d].stamp
        BY <2>2, <2>9 DEF Ending, Owns
      <3>2. CASE At(d, "acknowledge")
        <4>1. /\ head = task[d].next
              /\ task[d].next \in Heads /\ head # None
          BY <1>1, <2>2, <3>2, TaskRules, ConstantsOK DEF Owns, At, Known, Publishing
        <4>2. Files(store[d].pending) \cap files \subseteq HeadFiles(task[d].next)
          BY <1>1, <3>2 DEF Adopts, At
        <4>3. f = task[d].stamp => f \in HeadFiles(head)
          BY <3>1, <4>1 DEF HeadFiles
        <4> QED BY <2>1, <3>1, <4>1, <4>2, <4>3 DEF Accounted
      <3>3. CASE ~At(d, "acknowledge")
        <4>1. /\ Files(store[d].pending) \subseteq Files(store'[d].pending)
              /\ f = task[d].stamp => f \in Files(store'[d].pending) \/ Heading(f)
          BY <2>9, <3>1, <3>3 DEF Ending
        <4>2. Heading(f) => f \in HeadFiles(head)
          BY DEF Heading, HeadFiles
        <4> QED BY <2>1, <3>1, <4>1, <4>2 DEF Accounted
      <3> QED BY <3>2, <3>3
    <2> QED BY <1>1, <2>3, <2>4, <2>5, <2>6, <2>7, <2>8, <2>9, AloneChange
  <1> QED BY <1>3, <1>4

\* Of a single browser that neither dies nor deletes the remote files, every chunk file
\* on the server is named by the head, by a ledger or by the attempt that writes it:
\* whatever fails, the next publication can collect it.
THEOREM FilesCorrect == Spec => [](Alone => FilesAccounted)
  <1>1. Init => OneWriter /\ AllAccounted
    <2>1. ASSUME Init
          PROVE  \A d \in Device : task[d].pc = "idle"
      BY <2>1, IdleTask DEF Init
    <2>2. Init => \A d \in Device : Owns(d)
      BY <2>1 DEF Owns, Unpublished, Preparing, Publishing
    <2> QED BY <2>2 DEF Init, NoWipe, OneWriter, AllAccounted
  <1>2. CloudInv /\ OneWriter /\ AllAccounted /\ [Next]_vars => (OneWriter /\ AllAccounted)'
    BY OneWriterStep, AccountedStep DEF CloudInv
  <1>3. CloudInv /\ AllAccounted => (Alone => FilesAccounted)
    <2> SUFFICES ASSUME AllAccounted, Alone, wipes = 0, deaths = 0, NEW f \in files
                 PROVE  \/ \E h \in {head} \ {None} : f \in {h.publication} \cup Files(h.gc)
                        \/ \E d \in Device : f \in Files(store[d].pending)
                        \/ \E d \in {e \in Device : ~At(e, "idle")} : f \in {task[d].stamp}
      BY DEF FilesAccounted
    <2>1. Accounted(f)
      BY DEF AllAccounted, Undisturbed
    <2> QED BY <2>1 DEF Accounted, HeadFiles
  <1> QED BY <1>1, <1>2, <1>3, CloudInvariant, PTL DEF Spec

=============================================================================
