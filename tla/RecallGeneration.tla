--------------------------- MODULE RecallGeneration ---------------------------
(***************************************************************************)
(* Recalling memories for a turn of the chat: the generation and the       *)
(* leases of src/runtime/conversation-session.js, the transaction that     *)
(* the two prompt hooks of a generation share (src/runtime/                *)
(* generation-recall-transactions.js), the recall itself (src/retrieval/   *)
(* recall-controller.js), and the block it leaves in the host's extension  *)
(* prompt (src/runtime/final-recall-injection.js).                         *)
(*                                                                         *)
(* A block is known by the visit of the chat and the generation it was     *)
(* asked in.  The hooks of one generation ask with one recall key.         *)
(***************************************************************************)
EXTENDS Naturals

CONSTANTS MaxCalls,    \* bound on the calls of runRecall
          MaxEpochs,   \* bound on the visits
          MaxTurns     \* bound on the generations

ASSUME CallsAssumption == MaxCalls \in Nat

VARIABLES
    session,        \* the visit, and the generations begun so far
    turn,           \* the generation and its transaction
    call,           \* the calls of runRecall and what each awaits
    prompt,         \* the block in the extension prompt
    recalling,      \* isRecalling
    recallPromise,  \* activeRecallPromise: the call it belongs to, 0 if none
    recallStage,    \* the call whose controller is in the slot, 0 if none
    newest          \* auxiliary: the run begun last in this visit

flags      == <<recalling, recallPromise, recallStage, newest>>
recallVars == <<session, turn, call, prompt, flags>>

\* Each call of runRecall is made once.
Recall    == 1..MaxCalls
Unused(c) == call[c].at = "unused" /\ \A d \in 1..(c - 1) : call[d].at # "unused"
InRun(c)  == call[c].at = "retrieving"

Block(id, late) == [epoch |-> session.epoch, turn |-> id, late |-> late]
NoBlock == [epoch |-> 0, turn |-> 0, late |-> FALSE]

\* The block a message of the open chat keeps from an earlier recall.
Record == Block(0, FALSE)

\* A transaction belongs to the call that began it from one of the hooks
\* GENERATION_AFTER_COMMANDS, GENERATE_BEFORE_COMBINE_PROMPTS.
Tx(c, hook, state, result, final) ==
    [call |-> c, hook |-> hook, state |-> state, result |-> result, final |-> final]

NoTx   == Tx(0, "none", "none", NoBlock, FALSE)
NoTurn == [id |-> 0, kind |-> "none", tx |-> NoTx, combined |-> FALSE]

Over == [at |-> "over"]

\* A call from a hook, or from the panel, with the input of this moment.
Made(hook) ==
    [at |-> "made", hook |-> hook, awaits |-> 0,
     lease |-> [epoch |-> 0, turn |-> 0], asked |-> Block(turn.id, FALSE),
     deferred |-> hook = "before" /\ turn.kind = "fresh", aborted |-> FALSE]

\* captureLease, made when the call proceeds, and isLeaseCurrent.  A block is
\* late when the visit or the generation has changed before the lease.
Leased(q) ==
    [q EXCEPT !.lease = [epoch |-> session.epoch, turn |-> turn.id],
              !.asked.late = q.asked # Block(turn.id, FALSE)]

\* Seeded fault: the lease is compared by its visit alone.
SameVisit(lease) == lease.epoch = session.epoch

LeaseCurrent(lease) ==
    lease.epoch = session.epoch /\ (lease.turn # 0 => lease.turn = turn.id)

\* abortRecallStageWithReason: only the controller in the slot is told.
AbortRecall(cs) == IF recallStage = 0 THEN cs
                   ELSE [cs EXCEPT ![recallStage].aborted = TRUE]

-----------------------------------------------------------------------------
(***************************************************************************)
(* The transaction and the final injection.                                *)
(***************************************************************************)
\* setRecallTransaction refuses a transaction of another generation.
WithTx(q, t) == IF q.asked.turn = turn.id THEN [turn EXCEPT !.tx = t] ELSE turn

\* shouldReuseRecentGenerationRecallTransaction, shouldRunRecallForTransaction:
\* the other hook's recall is shared, and so is one that runs.
Shares(hook) == turn.tx # NoTx /\ (turn.tx.hook # hook \/ turn.tx.state = "running")

\* Seeded fault: when there is nothing to inject the prompt is left alone.
Untouched(result, deferred, p) ==
    IF result = NoBlock THEN {Record, p}
    ELSE IF deferred THEN {NoBlock, result} ELSE {result}

\* What the extension prompt holds in the end: nothing, when the block went
\* into the payload or there is none, else the result or the record.
FinalBlocks(result, deferred, p) ==
    IF result = NoBlock THEN {Record, NoBlock}
    ELSE IF deferred THEN {NoBlock, result} ELSE {result}

\* applyFinalRecallInjectionForGeneration, by a hook that asked as q did.  It
\* compares chats only: an earlier visit may have been of the same chat.
Combine(q, t, p) ==
    \/ /\ q.asked.epoch # session.epoch
       /\ prompt' = p /\ turn' = turn
    \/ /\ IF t.final THEN prompt' = p
          ELSE prompt' \in FinalBlocks(t.result, q.deferred, p)
       /\ turn' = [WithTx(q, [t EXCEPT !.final = TRUE]) EXCEPT
                      !.combined = @ \/ q.asked.turn = turn.id]

\* The hook stores the answer in its transaction and marks it; a transaction
\* that a change of the history had removed is thereby back.
Answer(c, q, block, p) ==
    LET t == Tx(c, q.hook, "ended", block, FALSE)
    IN /\ call' = [call EXCEPT ![c] = Over]
       /\ CASE q.hook = "panel"  -> prompt' = p /\ turn' = turn
            [] q.hook = "after"  -> prompt' = p /\ turn' = WithTx(q, t)
            [] q.hook = "before" -> Combine(q, t, p)

\* The call awaits something; its hook has begun the transaction.
AwaitRecall(cs, c, q, p) ==
    /\ call' = [cs EXCEPT ![c] = q]
    /\ prompt' = p
    /\ turn' = IF q.hook = "panel" \/ call[c].at # "unused" THEN turn
               ELSE WithTx(q, Tx(c, q.hook, "running", NoBlock, FALSE))

-----------------------------------------------------------------------------
(***************************************************************************)
(* runRecall.                                                              *)
(***************************************************************************)
\* applyRecallInjection: a deferred block is not put into the prompt.
Injected(q, p) == IF q.deferred THEN p ELSE q.asked

\* A record of the message is used at once; else the history is looked at.
Proceed(c, q, p) ==
    /\ \/ Answer(c, q, NoBlock, p)
       \/ /\ q.hook # "panel"
          /\ Answer(c, Leased(q), Leased(q).asked, Injected(Leased(q), p))
       \/ AwaitRecall(call, c, [Leased(q) EXCEPT !.at = "recovering"], p)
    /\ UNCHANGED flags

\* Refused under the restore lock.  A recall in progress is aborted and awaited.
Enter(c, q, p) ==
    \/ Answer(c, q, NoBlock, p) /\ UNCHANGED flags
    \/ /\ recalling
       /\ AwaitRecall(AbortRecall(call), c,
                [q EXCEPT !.at = "waiting", !.awaits = recallPromise], p)
       /\ UNCHANGED flags
    \/ ~recalling /\ Proceed(c, q, p)

\* A rollback of the history that is not committed is awaited first.
Ask(c, q, p) ==
    /\ \/ AwaitRecall(call, c, [q EXCEPT !.at = "barrier"], p) /\ UNCHANGED flags
       \/ Enter(c, q, p)
    /\ UNCHANGED session

PassBarrier(c) == /\ call[c].at = "barrier"
                  /\ Enter(c, call[c], prompt)
                  /\ UNCHANGED session

Refuse(c) == Answer(c, call[c], NoBlock, prompt) /\ UNCHANGED flags

\* waitForActiveRecallToSettle: the run it waits for has ended, or 1800 ms.
Wake(c) ==
    /\ call[c].at = "waiting"
    /\ IF InRun(call[c].awaits) /\ recalling THEN Refuse(c)
       ELSE Proceed(c, call[c], prompt)
    /\ UNCHANGED session

\* recoverHistoryIfNeeded has answered, or was not needed.
StartRun(c) ==
    /\ call[c].at = "recovering"
    /\ \/ Refuse(c)
       \/ /\ LeaseCurrent(call[c].lease)
          /\ call' = [call EXCEPT ![c].at = "retrieving"]
          /\ recalling' = TRUE /\ recallPromise' = c
          /\ recallStage' = c /\ newest' = c
          /\ UNCHANGED <<turn, prompt>>
    /\ UNCHANGED session

\* Seeded fault: the finally of a run does not ask whose promise is active.
ReleaseAny(c) == recalling' = FALSE /\ recallPromise' = 0

Release(c) == IF recallPromise = c THEN recalling' = FALSE /\ recallPromise' = 0
              ELSE UNCHANGED <<recalling, recallPromise>>

EndRun(c, block) ==
    /\ Answer(c, call[c], block,
              IF block = NoBlock THEN prompt ELSE Injected(call[c], prompt))
    /\ Release(c)
    /\ recallStage' = IF recallStage = c THEN 0 ELSE recallStage
    /\ UNCHANGED newest

MayGoOn(c) == ~call[c].aborted /\ LeaseCurrent(call[c].lease)

\* ensureVectorReadyIfNeeded and retrieve have been awaited, either of which
\* may fail.  The same check between the two stops no run that passes this one.
Retrieved(c) ==
    /\ InRun(c)
    /\ \/ EndRun(c, NoBlock)
       \/ MayGoOn(c) /\ EndRun(c, call[c].asked)
    /\ UNCHANGED session

-----------------------------------------------------------------------------
(***************************************************************************)
(* The events of the host.                                                 *)
(***************************************************************************)
\* beginGeneration; the block of an earlier generation stays in the prompt.
GenerationStarted(kind) ==
    /\ session.turns < MaxTurns
    /\ session' = [session EXCEPT !.turns = @ + 1]
    /\ turn' = [NoTurn EXCEPT !.id = session'.turns, !.kind = kind]
    /\ UNCHANGED <<call, prompt, flags>>

GenerationEnded == /\ turn.id # 0
                   /\ turn' = NoTurn
                   /\ UNCHANGED <<session, call, prompt, flags>>

\* A hook that does not share a recall begins a transaction and runs one.
RunHook(c, hook) ==
    /\ Unused(c) /\ ~Shares(hook)
    /\ Ask(c, Made(hook), IF Made(hook).deferred THEN NoBlock ELSE prompt)

AfterCommands(c) == turn.kind = "fresh" /\ RunHook(c, "after")

BeforeCombine(c) == turn.kind \in {"fresh", "no-new-user"} /\ RunHook(c, "before")

ShareRecall ==
    /\ turn.kind \in {"fresh", "no-new-user"} /\ Shares("before")
    /\ Combine(Made("before"), turn.tx, prompt)
    /\ UNCHANGED <<session, call, flags>>

\* reapplyPersistedRecallBlock
Reapply ==
    /\ turn.kind = "no-new-user"
    /\ prompt' \in {NoBlock, Record}
    /\ turn' = [turn EXCEPT !.combined = TRUE]
    /\ UNCHANGED <<session, call, flags>>

\* rerunRecallForMessage
Rerun(c) == Unused(c) /\ Ask(c, Made("panel"), prompt)

\* invalidateRecallAfterHistoryMutation
HistoryMutated ==
    /\ call' = AbortRecall(call)
    /\ turn' = [turn EXCEPT !.tx = NoTx]
    /\ prompt' = NoBlock
    /\ UNCHANGED <<session, flags>>

\* onChatChanged: entering a chat resets session and workspace.
ChatChanged ==
    /\ session.epoch < MaxEpochs
    /\ session' = [session EXCEPT !.epoch = @ + 1]
    /\ turn' = NoTurn
    /\ call' = AbortRecall(call)
    /\ prompt' = NoBlock
    /\ recalling' = FALSE /\ recallPromise' = 0 /\ newest' = 0
    /\ UNCHANGED recallStage

-----------------------------------------------------------------------------
RecallInit ==
    /\ session = [epoch |-> 1, turns |-> 0] /\ turn = NoTurn
    /\ call = [c \in Recall |-> [at |-> "unused"]]
    /\ prompt = NoBlock
    /\ recalling = FALSE /\ recallPromise = 0 /\ recallStage = 0 /\ newest = 0

CallStep(c) == \/ AfterCommands(c) \/ BeforeCombine(c) \/ Rerun(c)
               \/ PassBarrier(c) \/ Wake(c) \/ StartRun(c)
               \/ Retrieved(c)

RecallNext ==
    \/ \E kind \in {"fresh", "no-new-user"} : GenerationStarted(kind)
    \/ GenerationEnded
    \/ \E c \in Recall : CallStep(c)
    \/ ShareRecall
    \/ Reapply
    \/ HistoryMutated
    \/ ChatChanged

RecallSpec == RecallInit /\ [][RecallNext]_recallVars

-----------------------------------------------------------------------------
(***************************************************************************)
(* Properties.                                                             *)
(***************************************************************************)
\* A recalled block reaches the prompt only in the visit and the generation
\* it was asked in, whatever was awaited in between.  A block is left out
\* whose call had waited, before it took its lease, past either's end.
InjectionIsCurrent ==
    [][prompt' \notin {prompt, NoBlock} /\ ~prompt'.late
         => prompt'.epoch = session'.epoch /\ prompt'.turn \in {0, turn'.id}
      ]_recallVars

\* While the run begun last goes on, the busy flag, the promise a new call
\* waits for and the controller it aborts are that run's; afterwards the flag
\* and the promise are free, though an older run may still go on.
NewestIsBusy ==
    LET runs == newest # 0 /\ InRun(newest)
    IN /\ recalling = runs
       /\ recallPromise = (IF runs THEN newest ELSE 0)
       /\ runs => recallStage = newest

\* Once the prompts of a generation are combined, the extension prompt does
\* not hold a block recalled for another generation.
OwnBlockSent ==
    turn.combined => prompt.turn \in {0, turn.id} \/ prompt.late
=============================================================================
