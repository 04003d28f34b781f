---------------------------- MODULE AutoExtraction ----------------------------
(***************************************************************************)
(* Automatic extraction in one chat: when a run is called, deferred and    *)
(* resumed (src/host/event-binding.js, src/runtime/auto-extraction-defer.js),*)
(* what it awaits before it works on the floors it planned and how its     *)
(* batch is published (src/maintenance/extraction-controller.js), while    *)
(* floors are added, swiped and deleted and a rollback takes memory back.  *)
(*                                                                         *)
(* A floor is an assistant message.  The graph is its journal: each batch  *)
(* with the messages it read.  Code between two awaits runs to its end, so  *)
(* nothing else happens while a run is about to begin (Settled).           *)
(***************************************************************************)
EXTENDS Naturals, Sequences

CONSTANTS
    Runs,          \* calls of runExtraction that may overlap
    ExtractEvery,  \* the setting of that name
    MaxMessage,    \* bound: messages and versions of messages
    MaxGeneration  \* bound: generations of the host

ASSUME ExtractionAssumption ==
    /\ ExtractEvery \in Nat \ {0} /\ Runs # {}
    /\ MaxMessage \in Nat /\ MaxGeneration \in Nat

VARIABLES
    floors,      \* the chat: the message at each floor
    messages,    \* how many messages there have been
    generation,  \* generations begun and ended: one runs while this is odd
    memory,      \* processed floors, their hashes, the journal, the dirty mark
    unsaved,     \* a batch waits for its save to be confirmed
    run,         \* the runs and what each awaits
    extracting,  \* the flag isExtracting
    stage,       \* the runs whose abort controller is in the stage slot
    rollback,    \* the rollback in progress, under the restore lock
    deferral,    \* the deferred extraction and its timer
    overtaken    \* auxiliary: a batch began on a plan the graph had moved past

host == <<floors, messages, generation>>
extractionVars == <<host, memory, unsaved, run, extracting, stage, rollback,
                    deferral, overtaken>>

Message == 1..MaxMessage

Idle == [pc |-> "idle", from |-> 0, to |-> 0, target |-> 0, mine |-> FALSE,
         read |-> <<>>, aborted |-> FALSE]

EmptyGraph == [processed |-> 0, hashes |-> <<>>, journal |-> <<>>, dirty |-> 0]

NoRollback == [on |-> FALSE, from |-> 0, read |-> <<>>, base |-> EmptyGraph]

NotDeferred == [on |-> FALSE, target |-> 0, timer |-> FALSE]

Lower(m, n) == IF m < n THEN m ELSE n

Higher(m, n) == IF m > n THEN m ELSE n

MessagesOf(s) == {s[f] : f \in DOMAIN s}

Remembered == UNION {memory.journal[n].items : n \in DOMAIN memory.journal}

Generating == generation % 2 = 1

Settled == \A r \in Runs : run[r].pc \notin {"recover", "go"}

-----------------------------------------------------------------------------
(* The history                                                              *)

\* detectHistoryMutation: the first processed floor that has no hash, is gone, or
\* has changed.
Altered == {f \in 1..memory.processed :
              \/ f > Len(memory.hashes) \/ f > Len(floors)
              \/ memory.hashes[f] # floors[f]}

DirtyFloor == Altered \cup (IF memory.dirty = 0 THEN {} ELSE {memory.dirty})

DirtyFrom == CHOOSE f \in DirtyFloor : \A g \in DirtyFloor : f <= g

\* Seeded fault: the batch that ends at the changed floor stays.
AffectedAfter(g, f) == {n \in DOMAIN g.journal : g.journal[n].to > f}

\* findJournalRecoveryPoint: the batches that reach the floor; the first of them
\* and all that follow are taken back.
Affected(g, f) == {n \in DOMAIN g.journal : g.journal[n].to >= f}

\* Seeded fault: the hashes of the whole chat are written.
RolledBackWithHashes(g, f, read) ==
    LET n == CHOOSE k \in Affected(g, f) : \A l \in Affected(g, f) : k <= l
    IN  [processed |-> g.journal[n].before, dirty |-> 0, hashes |-> read,
         journal   |-> SubSeq(g.journal, 1, n - 1)]

\* The graph before the first affected batch, with the hashes of the chat as it
\* was when the rollback began.
RolledBack(g, f, read) ==
    LET n == CHOOSE k \in Affected(g, f) : \A l \in Affected(g, f) : k <= l
        kept == g.journal[n].before
    IN  [processed |-> kept, dirty |-> 0,
         hashes    |-> SubSeq(read, 1, Lower(kept, Len(read))),
         journal   |-> SubSeq(g.journal, 1, n - 1)]

-----------------------------------------------------------------------------
(* Plans and deferral                                                       *)

\* resolveAutoExtractionPlan: the next ExtractEvery floors up to the target; no
\* target is 0.
Candidates(fs, target) ==
    {f \in DOMAIN fs : f > memory.processed /\ (target = 0 \/ f <= target)}

CanRun(fs, target) == memory.processed + ExtractEvery \in Candidates(fs, target)

PlannedEnd(fs, target) ==
    IF CanRun(fs, target) THEN memory.processed + ExtractEvery ELSE 0

Chosen(m, n) == IF m # 0 THEN m ELSE n

Defer(target) ==
    deferral' = [on |-> TRUE, target |-> Higher(target, deferral.target),
                 timer |-> TRUE]

\* runExtraction up to its first await. The plan is made here, once; "rs" are the
\* runs and "d" the deferral at this point.
Call(r, rs, d, fs, target) ==
    LET end == PlannedEnd(fs, target)
        rec == [Idle EXCEPT !.pc = IF unsaved THEN "gate" ELSE "recover",
                            !.from = IF end = 0 THEN 0 ELSE memory.processed + 1,
                            !.to = end, !.target = Chosen(end, target)]
    IN  IF extracting \/ rollback.on
        THEN Defer(Chosen(end, target)) /\ run' = rs
        ELSE run' = [rs EXCEPT ![r] = rec] /\ deferral' = d

FreeRun(r) == run[r].pc = "idle"

\* The target of a resumed extraction: its own, unless nothing is left up to it.
ResumeTarget(d) ==
    IF memory.dirty = 0 /\ (d.target = 0 \/ Candidates(floors, d.target) = {})
    THEN PlannedEnd(floors, 0)
    ELSE d.target

\* Seeded fault: a deferral that cannot resume yet gets no new timer.
NotAgain(d) == d

Again(d) == [d EXCEPT !.timer = TRUE]

\* maybeResumePendingAutoExtraction. Under the restore lock the deferral stays as
\* it is, without a timer if that has just fired.
Resume(rs, d, busy) ==
    IF ~d.on \/ rollback.on
    THEN deferral' = d /\ run' = rs
    ELSE IF extracting \/ busy
    THEN deferral' = Again(d) /\ run' = rs
    ELSE IF ResumeTarget(d) = 0 /\ memory.dirty = 0
    THEN deferral' = NotDeferred /\ run' = rs
    ELSE \E r \in Runs : FreeRun(r) /\ Call(r, rs, NotDeferred, floors, ResumeTarget(d))

-----------------------------------------------------------------------------
(* The host                                                                 *)

\* A message arrives. It calls a run if one can work, or if the history is dirty.
Receive ==
    LET fs     == Append(floors, messages + 1)
        target == Chosen(PlannedEnd(fs, 0), Len(fs))
    IN  /\ Settled /\ messages < MaxMessage
        /\ floors' = fs
        /\ messages' = messages + 1
        /\ IF ~CanRun(fs, 0) /\ memory.dirty = 0
           THEN UNCHANGED <<run, deferral>>
           ELSE IF Generating
           THEN Defer(target) /\ UNCHANGED run
           ELSE \E r \in Runs : FreeRun(r) /\ Call(r, run, deferral, fs, target)
        /\ UNCHANGED <<generation, memory, unsaved, extracting, stage, rollback,
                       overtaken>>

GenerationStarts ==
    /\ Settled /\ ~Generating /\ generation < 2 * MaxGeneration
    /\ generation' = generation + 1
    /\ UNCHANGED <<floors, messages, memory, unsaved, run, extracting, stage,
                   rollback, deferral, overtaken>>

\* The resume at the end of a generation finds that the host has yet to settle.
GenerationEnds ==
    /\ Settled /\ Generating
    /\ generation' = generation + 1
    /\ Resume(run, deferral, TRUE)
    /\ UNCHANGED <<floors, messages, memory, unsaved, extracting, stage, rollback,
                   overtaken>>

\* scheduleHistoryMutationRecheck: the deferral is dropped and the batch that
\* holds the stage is aborted; rechecks follow (RollbackStarts).
Rechecked ==
    /\ deferral' = NotDeferred
    /\ run' = [r \in Runs |-> IF r \in stage THEN [run[r] EXCEPT !.aborted = TRUE]
                              ELSE run[r]]
    /\ stage' = {}
    /\ UNCHANGED <<generation, memory, unsaved, extracting, rollback, overtaken>>

Swipe ==
    /\ Settled /\ floors # <<>> /\ messages < MaxMessage
    /\ floors' = [floors EXCEPT ![Len(floors)] = messages + 1]
    /\ messages' = messages + 1
    /\ Rechecked

Delete(f) ==
    /\ Settled
    /\ floors' = SubSeq(floors, 1, f - 1) \o SubSeq(floors, f + 1, Len(floors))
    /\ Rechecked
    /\ UNCHANGED messages

\* A message is rendered: what was deferred may resume before its timer.
Rendered ==
    /\ Settled /\ deferral.on
    /\ Resume(run, deferral, Generating)
    /\ UNCHANGED <<host, memory, unsaved, extracting, stage, rollback, overtaken>>

TimerFires ==
    /\ Settled /\ deferral.timer
    /\ Resume(run, [deferral EXCEPT !.timer = FALSE], Generating)
    /\ UNCHANGED <<host, memory, unsaved, extracting, stage, rollback, overtaken>>

-----------------------------------------------------------------------------
(* A run                                                                    *)

\* Whoever works on the graph in memory learns that it was replaced.
Replaced(rs) == [r \in Runs |-> [rs[r] EXCEPT !.mine = FALSE]]

\* maybeRetryPendingPersistence lets the run pass: nothing is pending, or what is
\* pending can be recovered.
PassGate(r) ==
    /\ Settled /\ run[r].pc = "gate"
    /\ run' = [run EXCEPT ![r].pc = "recover"]
    /\ UNCHANGED <<host, memory, unsaved, extracting, stage, rollback, deferral,
                   overtaken>>

\* A retry, a run's or the timer's, is accepted: the graph in memory is replaced
\* by a clone, and what was deferred may resume.
RetryAccepted ==
    /\ Settled /\ unsaved
    /\ unsaved' = FALSE
    /\ Resume(Replaced(run), deferral, Generating)
    /\ UNCHANGED <<host, memory, extracting, stage, rollback, overtaken>>

\* The pending save is neither confirmed nor recoverable.
StopAtGate(r) ==
    /\ Settled /\ run[r].pc = "gate" /\ unsaved
    /\ Defer(run[r].target)
    /\ run' = [run EXCEPT ![r] = Idle]
    /\ UNCHANGED <<host, memory, unsaved, extracting, stage, rollback, overtaken>>

\* recoverHistoryIfNeeded: the run joins a rollback in progress, starts one if the
\* history has changed, or goes on.
StartRollback == /\ rollback' = [on |-> TRUE, from |-> DirtyFrom, read |-> floors,
                                 base |-> memory]
                 /\ memory' = [memory EXCEPT !.dirty = DirtyFrom]

Recover(r) ==
    LET waitAt(pc) == run' = [run EXCEPT ![r].pc = pc]
    IN  /\ run[r].pc = "recover"
        /\ IF rollback.on
           THEN waitAt("joined") /\ UNCHANGED <<rollback, memory>>
           ELSE IF DirtyFloor # {}
           THEN waitAt("joined") /\ StartRollback
           ELSE waitAt("go") /\ UNCHANGED <<rollback, memory>>
        /\ UNCHANGED <<host, unsaved, extracting, stage, deferral, overtaken>>

\* The run works on the floors it planned before its awaits.
Begin(r) ==
    /\ run[r].pc = "go"
    /\ IF run[r].to = 0
       THEN run' = [run EXCEPT ![r] = Idle] /\ UNCHANGED <<extracting, stage, overtaken>>
       ELSE /\ run' = [run EXCEPT ![r].pc = "working", ![r].mine = TRUE,
                                  ![r].read = floors]
            /\ extracting' = TRUE
            /\ stage' = {r}
            /\ overtaken' = (overtaken \/ run[r].from # memory.processed + 1)
    /\ UNCHANGED <<host, memory, unsaved, rollback, deferral>>

\* Seeded fault: the abort controller stays in its slot.
EndedOnly(r) == /\ extracting' = FALSE
                /\ UNCHANGED stage

Ended(r) == /\ extracting' = FALSE
            /\ stage' = stage \ {r}

Current(r) == run[r].mine /\ ~run[r].aborted /\ run[r].read = floors

\* The model has answered: a batch that is not current is given up, and one that
\* failed too.
Extracted(r) ==
    /\ Settled /\ run[r].pc = "working"
    /\ \/ /\ Current(r)
          /\ run' = [run EXCEPT ![r].pc = "saving"]
          /\ UNCHANGED <<extracting, stage>>
       \/ /\ run' = [run EXCEPT ![r] = Idle]
          /\ Ended(r)
    /\ UNCHANGED <<host, memory, unsaved, rollback, deferral, overtaken>>

\* The graph with the batch: the hashes of all floors up to its end are new.
WithBatch(b) ==
    [processed |-> b.to, dirty |-> 0,
     hashes    |-> SubSeq(b.read, 1, Lower(b.to, Len(b.read))),
     journal   |-> Append(memory.journal,
                     [to |-> b.to, before |-> memory.processed,
                      items |-> {b.read[f] : f \in b.from .. Lower(b.to, Len(b.read))}])]

\* The save has ended. The batch is published if it was accepted and is still
\* current; if the history changed meanwhile, the graph is marked dirty.
SaveEnds(r, accepted) ==
    /\ Settled /\ run[r].pc = "saving"
    /\ unsaved' = ~accepted
    /\ Ended(r)
    /\ IF accepted /\ Current(r)
       THEN memory' = WithBatch(run[r]) /\ run' = [Replaced(run) EXCEPT ![r] = Idle]
       ELSE /\ run' = [run EXCEPT ![r] = Idle]
            /\ memory' = IF run[r].mine /\ run[r].read # floors
                        THEN [memory EXCEPT !.dirty = 1] ELSE memory
    /\ UNCHANGED <<host, rollback, deferral, overtaken>>

-----------------------------------------------------------------------------
(* The rollback                                                             *)

RollbackStarts ==
    /\ Settled /\ ~rollback.on /\ DirtyFloor # {}
    /\ StartRollback
    /\ UNCHANGED <<host, unsaved, run, extracting, stage, deferral, overtaken>>

Released(pc) == [r \in Runs |-> IF run[r].pc # "joined" THEN run[r]
                                ELSE IF pc = "idle" THEN Idle
                                ELSE [run[r] EXCEPT !.pc = pc]]

RollbackCommits ==
    /\ Settled /\ rollback.on /\ rollback.read = floors
    /\ Affected(rollback.base, rollback.from) # {}
    /\ memory' = RolledBack(rollback.base, rollback.from, rollback.read)
    /\ unsaved' = FALSE
    /\ run' = Replaced(Released("go"))
    /\ rollback' = NoRollback
    /\ UNCHANGED <<host, extracting, stage, deferral, overtaken>>

RollbackFails ==
    /\ Settled /\ rollback.on
    /\ rollback' = NoRollback
    /\ run' = Released("idle")
    /\ \E f \in {memory.dirty, rollback.from} : memory' = [memory EXCEPT !.dirty = f]
    /\ UNCHANGED <<host, unsaved, extracting, stage, deferral, overtaken>>

-----------------------------------------------------------------------------
(* Specification                                                            *)

ExtractionInit ==
    /\ floors = <<>> /\ messages = 0 /\ generation = 0
    /\ memory = EmptyGraph
    /\ unsaved = FALSE
    /\ run = [r \in Runs |-> Idle]
    /\ extracting = FALSE /\ stage = {}
    /\ rollback = NoRollback
    /\ deferral = NotDeferred
    /\ overtaken = FALSE

RunStep(r) ==
    \/ PassGate(r)
    \/ StopAtGate(r)
    \/ Recover(r)
    \/ Begin(r)
    \/ Extracted(r)
    \/ \E accepted \in BOOLEAN : SaveEnds(r, accepted)

ExtractionNext ==
    \/ Receive
    \/ GenerationStarts
    \/ GenerationEnds
    \/ Swipe
    \/ \E f \in DOMAIN floors : Delete(f)
    \/ Rendered
    \/ TimerFires
    \/ \E r \in Runs : RunStep(r)
    \/ RetryAccepted
    \/ RollbackStarts
    \/ RollbackCommits
    \/ RollbackFails

\* The host's generations end, timers fire, requests answer or are aborted.
ExtractionFairness ==
    /\ WF_extractionVars(TimerFires)
    /\ WF_extractionVars(GenerationEnds)
    /\ WF_extractionVars(RollbackCommits \/ RollbackFails)
    /\ \A r \in Runs : WF_extractionVars(RunStep(r))

ExtractionSpec == ExtractionInit /\ [][ExtractionNext]_extractionVars /\ ExtractionFairness

-----------------------------------------------------------------------------
(* Properties                                                               *)

\* Types; the abort controller in the slot belongs to a batch at work.
ExtractionTypeOK ==
    /\ MessagesOf(floors) \subseteq Message /\ memory.processed \in Nat
    /\ MessagesOf(memory.hashes) \subseteq Message
    /\ \A r \in stage : run[r].pc \in {"working", "saving"}

\* What the graph remembers of a message that was swiped or deleted is noticed: a
\* processed floor has changed, or the graph is marked, and the next check rolls
\* back. Whatever overlapped: a batch whose messages changed while the model
\* answered or its save was under way, a rollback that fails, runs side by side. A
\* batch that began on an outdated plan (see NoFloorSkipped) is left out.
StaleIsSeen ==
    ~overtaken => Remembered \subseteq MessagesOf(floors) \/ DirtyFloor # {}

\* A message whose hash says it was processed was read by a batch of the journal:
\* nothing is taken for extracted that never was (applyProcessedHistorySnapshot
\* and the rollback's trimming of hashes and journal). With the same exception.
FloorsComplete ==
    ~overtaken => \A f \in DOMAIN memory.hashes : memory.hashes[f] \in Remembered

\* The same without the exception, as README.md:67 says: after a rollback,
\* extraction goes on from the point of change. A run that rolled back works on the
\* floors it had planned before, and skips those in between.
NoFloorSkipped ==
    \A f \in DOMAIN memory.hashes : memory.hashes[f] \in Remembered

\* A deferred extraction whose timer runs is called, dropped with a change of the
\* history, or found unneeded in the end, unless a rollback intervenes: then its
\* timer is spent and only a later event resumes it.
DeferredIsResumed == deferral.timer ~> (~deferral.on \/ rollback.on)
=============================================================================
