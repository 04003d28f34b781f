------------------------ MODULE RecallGenerationProofs ------------------------
(***************************************************************************)
(* Theorems about RecallGeneration, for any number of calls, visits and    *)
(* generations.                                                            *)
(***************************************************************************)
EXTENDS RecallGeneration, TLAPS

BlockSet == [epoch : Nat, turn : Nat, late : BOOLEAN]

TxSet == [call : Nat, hook : {"none", "after", "before", "panel"},
          state : {"none", "running", "ended"}, result : BlockSet, final : BOOLEAN]

TurnSet == [id : Nat, kind : {"none", "fresh", "no-new-user"}, tx : TxSet,
            combined : BOOLEAN]

LiveCalls == [at : {"made", "barrier", "waiting", "recovering", "retrieving"},
              hook : {"after", "before", "panel"},
              awaits : Nat, lease : [epoch : Nat, turn : Nat],
              asked : BlockSet, deferred : BOOLEAN, aborted : BOOLEAN]

CallSet == {[at |-> "unused"], Over} \cup LiveCalls

Typed ==
    /\ session \in [epoch : Nat, turns : Nat]
    /\ turn \in TurnSet
    /\ call \in [Recall -> CallSet]
    /\ prompt \in BlockSet
    /\ newest \in Recall \cup {0} /\ recallStage \in Recall \cup {0}

\* A block that may be in the prompt, or that is excused.
Current(b) == \/ b = NoBlock \/ b.late
              \/ b.epoch = session.epoch /\ b.turn \in {0, turn.id}

\* Past its lease, a block that is not late is of the lease's moment.
InTime(q) == ~q.asked.late => /\ q.asked.epoch = q.lease.epoch
                              /\ q.asked.turn = q.lease.turn

LeasesInTime ==
    \A c \in Recall : call[c].at \in {"recovering", "retrieving"} => InTime(call[c])

\* What the hooks of a generation share is of that generation.
TxCurrent == /\ Current(turn.tx.result)
             /\ turn.tx.final => turn.combined

\* The controller in the slot is that of a run.
SlotRuns == recallStage # 0 => InRun(recallStage)

RecallInv == Typed /\ SlotRuns /\ LeasesInTime /\ TxCurrent /\ NewestIsBusy /\ OwnBlockSent

-----------------------------------------------------------------------------
(* What a call leaves behind when it answers or awaits                      *)

\* What the steps of the calls and of the hooks do to generation and prompt.
Delivers ==
    /\ turn' \in TurnSet /\ turn'.id = turn.id
    /\ prompt' \in BlockSet
    /\ prompt' = prompt \/ Current(prompt')
    /\ Current(turn'.tx.result)
    /\ turn'.tx.final => turn'.combined
    /\ turn'.combined => turn.combined \/ Current(prompt')

LEMMA NoneFits == NoBlock \in BlockSet /\ NoTx \in TxSet /\ NoTurn \in TurnSet
                  /\ Current(NoBlock)
BY DEF NoBlock, NoTx, Tx, NoTurn, BlockSet, TxSet, TurnSet, Current

\* A record of the message belongs to the visit.
LEMMA RecordFits ==
    ASSUME Typed
    PROVE  Record \in BlockSet /\ Current(Record)
BY DEF Typed, Record, Block, BlockSet, Current

LEMMA TxFits ==
    ASSUME NEW q \in LiveCalls, NEW t \in TxSet, Typed
    PROVE  /\ WithTx(q, t) \in TurnSet /\ WithTx(q, t).id = turn.id
           /\ WithTx(q, t).combined = turn.combined
           /\ WithTx(q, t).tx \in {t, turn.tx}
           /\ q.asked.turn = turn.id => WithTx(q, t).tx = t
           /\ q.asked.turn # turn.id => WithTx(q, t) = turn
BY DEF WithTx, Typed, TurnSet

\* The final injection leaves the prompt as it is only if it was applied before.
LEMMA CombineDelivers ==
    ASSUME NEW q \in LiveCalls, NEW t \in TxSet, NEW p \in BlockSet,
           RecallInv, Current(t.result), p = prompt \/ Current(p),
           t.final => turn.combined, Combine(q, t, p)
    PROVE  Delivers
<1>1. CASE prompt' = p /\ turn' = turn
  BY <1>1 DEF Delivers, RecallInv, Typed, TxCurrent
<1>2. CASE /\ IF t.final THEN prompt' = p
              ELSE prompt' \in FinalBlocks(t.result, q.deferred, p)
           /\ turn' = [WithTx(q, [t EXCEPT !.final = TRUE]) EXCEPT
                          !.combined = @ \/ q.asked.turn = turn.id]
  <2> DEFINE f == [t EXCEPT !.final = TRUE]
             w == WithTx(q, f)
  <2>1. f \in TxSet /\ f.result = t.result /\ f.final
    BY DEF TxSet
  <2>2. /\ w \in TurnSet /\ w.id = turn.id /\ w.combined = turn.combined
        /\ q.asked.turn = turn.id => w.tx = f
        /\ q.asked.turn # turn.id => w = turn
    BY <2>1, TxFits DEF RecallInv
  <2> HIDE DEF f, w
  <2>3. /\ turn' \in TurnSet /\ turn'.id = turn.id /\ turn'.tx = w.tx
        /\ turn'.combined = (turn.combined \/ q.asked.turn = turn.id)
    BY <1>2, <2>2 DEF TurnSet, w, f
  <2>4. /\ Current(turn'.tx.result)
        /\ turn'.tx.final => turn'.combined
    BY <2>1, <2>2, <2>3 DEF RecallInv, TxCurrent
  <2>5. CASE t.final
    BY <1>2, <2>3, <2>4, <2>5 DEF Delivers
  <2>6. CASE ~t.final
    <3>1. prompt' \in {Record, NoBlock, t.result}
      BY <1>2, <2>6 DEF FinalBlocks
    <3>2. prompt' \in BlockSet /\ Current(prompt')
      BY <3>1, NoneFits, RecordFits DEF RecallInv, TxSet
    <3> QED BY <2>3, <2>4, <3>2 DEF Delivers
  <2> QED BY <2>5, <2>6
<1> QED BY <1>1, <1>2 DEF Combine

LEMMA AnswerDelivers ==
    ASSUME NEW c \in Recall, NEW q \in LiveCalls, NEW b \in BlockSet,
           NEW p \in BlockSet, RecallInv, Current(b), p = prompt \/ Current(p),
           Answer(c, q, b, p)
    PROVE  Delivers /\ call' = [call EXCEPT ![c] = Over]
<1> DEFINE t == Tx(c, q.hook, "ended", b, FALSE)
<1>1. t \in TxSet /\ t.result = b /\ ~t.final
  BY CallsAssumption DEF Tx, TxSet, Recall, LiveCalls
<1> HIDE DEF t
<1>2. CASE q.hook = "panel"
  BY <1>2 DEF Answer, Delivers, RecallInv, Typed, TxCurrent
<1>3. CASE q.hook = "after"
  <2>1. prompt' = p /\ turn' = WithTx(q, t)
    BY <1>3 DEF Answer, t
  <2> QED BY <1>1, <2>1, TxFits DEF Answer, Delivers, RecallInv, TxCurrent
<1>4. CASE q.hook = "before"
  <2>1. Combine(q, t, p)
    BY <1>4 DEF Answer, t
  <2> QED BY <1>1, <2>1, CombineDelivers DEF Answer
<1> QED BY <1>2, <1>3, <1>4 DEF LiveCalls

LEMMA AwaitDelivers ==
    ASSUME NEW cs, NEW c \in Recall, NEW q \in LiveCalls, NEW p \in BlockSet,
           RecallInv, p = prompt \/ Current(p), AwaitRecall(cs, c, q, p)
    PROVE  Delivers /\ call' = [cs EXCEPT ![c] = q]
<1> DEFINE t == Tx(c, q.hook, "running", NoBlock, FALSE)
<1>1. t \in TxSet /\ t.result = NoBlock /\ ~t.final
  BY NoneFits, CallsAssumption DEF Tx, TxSet, Recall, LiveCalls
<1> HIDE DEF t
<1>2. prompt' = p /\ call' = [cs EXCEPT ![c] = q]
  BY DEF AwaitRecall
<1>3. turn' = turn \/ turn' = WithTx(q, t)
  BY DEF AwaitRecall, t
<1>4. turn' \in TurnSet /\ turn'.id = turn.id /\ turn'.combined = turn.combined
      /\ turn'.tx \in {t, turn.tx}
  BY <1>1, <1>3, TxFits DEF RecallInv, Typed
<1>5. Current(turn'.tx.result) /\ (turn'.tx.final => turn'.combined)
  BY <1>1, <1>4, NoneFits DEF RecallInv, TxCurrent
<1> QED BY <1>2, <1>4, <1>5 DEF Delivers

-----------------------------------------------------------------------------
(* The steps of a call                                                      *)

\* A step of call c that neither begins nor ends a run.
Quiet(c) ==
    /\ Delivers
    /\ \E cs \in {call, AbortRecall(call)}, q \in CallSet :
          /\ call' = [cs EXCEPT ![c] = q]
          /\ q.at # "retrieving"
          /\ q.at = "recovering" => InTime(q)
    /\ UNCHANGED flags

LEMMA AbortTyped ==
    ASSUME Typed, SlotRuns
    PROVE  /\ AbortRecall(call) \in [Recall -> CallSet]
           /\ \A c \in Recall : /\ AbortRecall(call)[c].at = call[c].at
                                /\ call[c].at \in {"recovering", "retrieving"} =>
                                     /\ AbortRecall(call)[c].asked = call[c].asked
                                     /\ AbortRecall(call)[c].lease = call[c].lease
<1>1. CASE recallStage = 0
  BY <1>1 DEF AbortRecall, Typed
<1>2. CASE recallStage # 0
  <2> DEFINE q == call[recallStage]
             r == [q EXCEPT !.aborted = TRUE]
  <2>1. recallStage \in Recall /\ q \in CallSet /\ q.at = "retrieving"
    BY <1>2 DEF Typed, SlotRuns, InRun
  <2>2. q \in LiveCalls
    BY <2>1 DEF CallSet, Over
  <2>3. r \in LiveCalls /\ r.at = q.at /\ r.asked = q.asked /\ r.lease = q.lease
    BY <2>2 DEF LiveCalls
  <2>4. AbortRecall(call) = [call EXCEPT ![recallStage] = r]
    BY <1>2 DEF AbortRecall
  <2> HIDE DEF r
  <2>5. r \in CallSet
    BY <2>3 DEF CallSet
  <2> QED BY <2>1, <2>3, <2>4, <2>5 DEF Typed
<1> QED BY <1>1, <1>2

LEMMA LeaseInTime ==
    ASSUME NEW q \in LiveCalls, Typed
    PROVE  /\ Leased(q) \in LiveCalls /\ InTime(Leased(q))
           /\ Current(Leased(q).asked)
           /\ Leased(q).hook = q.hook
<1> DEFINE m == [epoch |-> session.epoch, turn |-> turn.id]
           b == [q.asked EXCEPT !.late = q.asked # Block(turn.id, FALSE)]
<1>1. session.epoch \in Nat /\ turn.id \in Nat /\ m \in [epoch : Nat, turn : Nat]
  BY DEF Typed, TurnSet
<1>2. /\ q.asked \in BlockSet
      /\ b \in BlockSet /\ b.epoch = q.asked.epoch /\ b.turn = q.asked.turn
      /\ b.late = (q.asked # Block(turn.id, FALSE))
  BY DEF LiveCalls, BlockSet
<1>3. q.asked = Block(turn.id, FALSE) => q.asked.epoch = m.epoch /\ q.asked.turn = m.turn
  BY DEF Block
<1>4. Leased(q) = [q EXCEPT !.lease = m, !.asked = b]
  BY DEF Leased, LiveCalls
<1> HIDE DEF m, b
<1>5. Leased(q) \in LiveCalls /\ Leased(q).lease = m /\ Leased(q).asked = b
      /\ Leased(q).hook = q.hook
  BY <1>1, <1>2, <1>4 DEF LiveCalls
<1>6. InTime(Leased(q))
  BY <1>2, <1>3, <1>5 DEF InTime
<1>7. Current(b)
  BY <1>1, <1>2, <1>3 DEF Current, m
<1> QED BY <1>5, <1>6, <1>7

LEMMA ProceedQuiet ==
    ASSUME NEW c \in Recall, NEW q \in LiveCalls, NEW p \in BlockSet,
           RecallInv, p = prompt \/ Current(p), Proceed(c, q, p)
    PROVE  Quiet(c)
<1> DEFINE l == Leased(q)
<1>1. l \in LiveCalls /\ InTime(l) /\ Current(l.asked)
  BY LeaseInTime DEF RecallInv
<1>2. Over \in CallSet /\ Over.at = "over"
  BY DEF CallSet, Over
<1>3. CASE Answer(c, q, NoBlock, p)
  BY <1>2, <1>3, AnswerDelivers, NoneFits DEF Quiet, Proceed
<1>4. CASE Answer(c, l, l.asked, Injected(l, p))
  <2>1. /\ l.asked \in BlockSet /\ Injected(l, p) \in BlockSet
        /\ Injected(l, p) = prompt \/ Current(Injected(l, p))
    BY <1>1 DEF Injected, LiveCalls
  <2> QED BY <1>1, <1>2, <1>4, <2>1, AnswerDelivers DEF Quiet, Proceed
<1>5. CASE AwaitRecall(call, c, [l EXCEPT !.at = "recovering"], p)
  <2> DEFINE r == [l EXCEPT !.at = "recovering"]
  <2>1. r \in LiveCalls /\ r \in CallSet /\ InTime(r) /\ r.at = "recovering"
    BY <1>1 DEF LiveCalls, CallSet, InTime
  <2>2. AwaitRecall(call, c, r, p)
    BY <1>5
  <2> HIDE DEF r
  <2> QED BY <2>1, <2>2, AwaitDelivers DEF Quiet, Proceed
<1> QED BY <1>3, <1>4, <1>5 DEF Proceed

LEMMA EnterQuiet ==
    ASSUME NEW c \in Recall, NEW q \in LiveCalls, NEW p \in BlockSet,
           RecallInv, p = prompt \/ Current(p), Enter(c, q, p)
    PROVE  Quiet(c)
<1>1. CASE Answer(c, q, NoBlock, p) /\ UNCHANGED flags
  <2>1. Over \in CallSet /\ Over.at = "over"
    BY DEF CallSet, Over
  <2> QED BY <1>1, <2>1, AnswerDelivers, NoneFits DEF Quiet
<1>2. CASE AwaitRecall(AbortRecall(call), c,
                 [q EXCEPT !.at = "waiting", !.awaits = recallPromise], p)
           /\ UNCHANGED flags
  <2> DEFINE r == [q EXCEPT !.at = "waiting", !.awaits = recallPromise]
  <2>1. recallPromise \in Nat
    BY CallsAssumption DEF RecallInv, NewestIsBusy, Typed, Recall
  <2>2. r \in LiveCalls /\ r \in CallSet /\ r.at = "waiting"
    BY <2>1 DEF LiveCalls, CallSet
  <2>3. AwaitRecall(AbortRecall(call), c, r, p)
    BY <1>2
  <2> HIDE DEF r
  <2> QED BY <1>2, <2>2, <2>3, AwaitDelivers DEF Quiet
<1>3. CASE Proceed(c, q, p)
  BY <1>3, ProceedQuiet
<1> QED BY <1>1, <1>2, <1>3 DEF Enter

LEMMA AskQuiet ==
    ASSUME NEW c \in Recall, NEW q \in LiveCalls, NEW p \in BlockSet,
           RecallInv, p = prompt \/ Current(p), Ask(c, q, p)
    PROVE  Quiet(c) /\ UNCHANGED session
<1>1. CASE AwaitRecall(call, c, [q EXCEPT !.at = "barrier"], p) /\ UNCHANGED flags
  <2> DEFINE r == [q EXCEPT !.at = "barrier"]
  <2>1. r \in LiveCalls /\ r \in CallSet /\ r.at = "barrier"
    BY DEF LiveCalls, CallSet
  <2>2. AwaitRecall(call, c, r, p)
    BY <1>1
  <2> HIDE DEF r
  <2> QED BY <1>1, <2>1, <2>2, AwaitDelivers DEF Quiet, Ask
<1>2. CASE Enter(c, q, p)
  BY <1>2, EnterQuiet DEF Ask
<1> QED BY <1>1, <1>2 DEF Ask

LEMMA MadeFits ==
    ASSUME NEW hook \in {"after", "before", "panel"}, Typed
    PROVE  Made(hook) \in LiveCalls
BY DEF Made, LiveCalls, BlockSet, Typed, TurnSet, Block

\* What is delivered stays in its visit and generation.
LEMMA DeliveredKeeps ==
    ASSUME RecallInv, Delivers, UNCHANGED session
    PROVE  TxCurrent' /\ OwnBlockSent'
<1>1. TxCurrent'
  BY DEF Delivers, TxCurrent, Current
<1>2. Current(prompt') => prompt'.turn \in {0, turn'.id} \/ prompt'.late
  BY DEF Delivers, Current, NoBlock
<1>3. OwnBlockSent'
  BY <1>2 DEF RecallInv, OwnBlockSent, Delivers
<1> QED BY <1>1, <1>3

\* A quiet step keeps the invariant: the call was in no run and is in none.
LEMMA QuietKeeps ==
    ASSUME NEW c \in Recall, RecallInv, Quiet(c), UNCHANGED session, ~InRun(c)
    PROVE  RecallInv'
<1>1. PICK cs \in {call, AbortRecall(call)}, q \in CallSet :
          /\ call' = [cs EXCEPT ![c] = q]
          /\ q.at # "retrieving"
          /\ q.at = "recovering" => InTime(q)
  BY DEF Quiet
<1>2. /\ cs \in [Recall -> CallSet]
      /\ \A d \in Recall : /\ cs[d].at = call[d].at
                           /\ call[d].at \in {"recovering", "retrieving"} =>
                                cs[d].asked = call[d].asked /\ cs[d].lease = call[d].lease
  BY AbortTyped DEF RecallInv, Typed
<1>3. call' \in [Recall -> CallSet] /\ call'[c] = q
      /\ \A d \in Recall \ {c} : call'[d] = cs[d]
  BY <1>1, <1>2
<1>4. UNCHANGED <<recalling, recallPromise, recallStage, newest>>
  BY DEF Quiet, flags
<1>5. ASSUME NEW d \in Recall PROVE InRun(d)' <=> InRun(d)
  <2>1. CASE d = c
    BY <1>1, <1>3, <2>1 DEF InRun
  <2>2. CASE d # c
    <3>1. call'[d].at = call[d].at
      BY <1>2, <1>3, <2>2
    <3> QED BY <3>1 DEF InRun
  <2> QED BY <2>1, <2>2
<1>6. Typed'
  BY <1>3, <1>4 DEF RecallInv, Typed, Quiet, Delivers
<1>7. SlotRuns' /\ NewestIsBusy'
  <2>1. recallStage # 0 => (InRun(recallStage)' <=> InRun(recallStage))
    BY <1>4, <1>5 DEF RecallInv, Typed, InRun
  <2>2. newest # 0 => (InRun(newest)' <=> InRun(newest))
    BY <1>4, <1>5 DEF RecallInv, Typed, InRun
  <2> QED BY <1>4, <2>1, <2>2 DEF RecallInv, SlotRuns, NewestIsBusy
<1>8. LeasesInTime'
  BY <1>1, <1>2, <1>3 DEF RecallInv, LeasesInTime, InTime
<1>9. TxCurrent' /\ OwnBlockSent'
  BY DeliveredKeeps DEF Quiet
<1> QED BY <1>6, <1>7, <1>8, <1>9 DEF RecallInv

\* The end of a run frees what is its own; the newest run owns all of it.
LEMMA EndRunKeeps ==
    ASSUME NEW c \in Recall, NEW b \in {NoBlock, call[c].asked},
           RecallInv, InRun(c), Current(b), EndRun(c, b), UNCHANGED session
    PROVE  RecallInv' /\ Delivers
<1> DEFINE p == IF b = NoBlock THEN prompt ELSE Injected(call[c], prompt)
<1>1. call[c] \in LiveCalls
  BY DEF RecallInv, Typed, CallSet, InRun, Over
<1>2. b \in BlockSet
  BY <1>1, NoneFits DEF LiveCalls
<1>3. p \in BlockSet /\ (p = prompt \/ Current(p))
  <2>1. prompt \in BlockSet
    BY DEF RecallInv, Typed
  <2> QED BY <1>2, <2>1 DEF Injected
<1>4. Answer(c, call[c], b, p)
  BY DEF EndRun
<1> HIDE DEF p
<1>5. Delivers /\ call' = [call EXCEPT ![c] = Over]
  BY <1>1, <1>2, <1>3, <1>4, AnswerDelivers
<1>6. /\ call' \in [Recall -> CallSet] /\ ~InRun(c)'
      /\ \A d \in Recall \ {c} : call'[d] = call[d]
  BY <1>5 DEF RecallInv, Typed, CallSet, InRun, Over
<1>7. /\ newest' = newest
      /\ recallStage' = IF recallStage = c THEN 0 ELSE recallStage
      /\ IF recallPromise = c THEN recalling' = FALSE /\ recallPromise' = 0
         ELSE UNCHANGED <<recalling, recallPromise>>
  BY DEF EndRun, Release
<1>8. Typed'
  BY <1>5, <1>6, <1>7 DEF RecallInv, Typed, Delivers
<1>9. SlotRuns'
  BY <1>6, <1>7 DEF RecallInv, Typed, SlotRuns, InRun
<1>10. LeasesInTime'
  BY <1>5 DEF RecallInv, Typed, LeasesInTime, Over
<1>11. NewestIsBusy'
  <2>1. c # 0
    BY CallsAssumption DEF Recall
  <2>2. CASE newest = c
    BY <1>6, <1>7, <2>1, <2>2 DEF RecallInv, NewestIsBusy
  <2>3. CASE newest # c
    <3>1. newest # 0 => (InRun(newest)' <=> InRun(newest))
      BY <1>6, <1>7, <2>3 DEF RecallInv, Typed, InRun
    <3> QED BY <1>7, <2>1, <2>3, <3>1 DEF RecallInv, NewestIsBusy
  <2> QED BY <2>2, <2>3
<1>12. TxCurrent' /\ OwnBlockSent'
  BY <1>5, DeliveredKeeps
<1> QED BY <1>5, <1>8, <1>9, <1>10, <1>11, <1>12 DEF RecallInv

\* A run that begins becomes the newest and takes flag, promise and slot.
LEMMA BeginKeeps ==
    ASSUME NEW c \in Recall, RecallInv, call[c].at = "recovering",
           call' = [call EXCEPT ![c].at = "retrieving"],
           recalling' = TRUE, recallPromise' = c, recallStage' = c, newest' = c,
           UNCHANGED <<turn, prompt, session>>
    PROVE  RecallInv'
<1> DEFINE r == [call[c] EXCEPT !.at = "retrieving"]
<1>1. call[c] \in LiveCalls
  BY DEF RecallInv, Typed, CallSet, Over
<1>2. /\ r \in LiveCalls /\ r.at = "retrieving"
      /\ r.asked = call[c].asked /\ r.lease = call[c].lease
  BY <1>1 DEF LiveCalls
<1>3. call' = [call EXCEPT ![c] = r]
  OBVIOUS
<1> HIDE DEF r
<1>4. /\ call' \in [Recall -> CallSet] /\ call'[c] = r
      /\ \A d \in Recall \ {c} : call'[d] = call[d]
  BY <1>2, <1>3 DEF RecallInv, Typed, CallSet
<1>5. Typed'
  BY <1>4 DEF RecallInv, Typed
<1>6. SlotRuns' /\ NewestIsBusy'
  <2>1. c # 0
    BY CallsAssumption DEF Recall
  <2> QED BY <1>2, <1>4, <2>1 DEF SlotRuns, NewestIsBusy, InRun
<1>7. LeasesInTime'
  BY <1>2, <1>4 DEF RecallInv, LeasesInTime, InTime
<1>8. TxCurrent' /\ OwnBlockSent'
  BY DEF RecallInv, TxCurrent, OwnBlockSent, Current
<1> QED BY <1>5, <1>6, <1>7, <1>8 DEF RecallInv

-----------------------------------------------------------------------------
(* Every step                                                               *)

\* What a step may do to the prompt.
Delivered == \/ prompt' = prompt
             \/ prompt' = NoBlock
             \/ Delivers /\ UNCHANGED session

LEMMA AskKeeps ==
    ASSUME NEW c \in Recall, NEW q \in LiveCalls, NEW p \in {NoBlock, prompt},
           RecallInv, ~InRun(c), Ask(c, q, p)
    PROVE  RecallInv' /\ Delivered
<1>1. p \in BlockSet /\ (p = prompt \/ Current(p))
  BY NoneFits DEF RecallInv, Typed
<1> QED BY <1>1, AskQuiet, QuietKeeps DEF Quiet, Delivered

LEMMA CallKeeps ==
    ASSUME NEW c \in Recall, RecallInv, CallStep(c)
    PROVE  RecallInv' /\ Delivered
<1>1. ASSUME NEW hook \in {"after", "before"}, RunHook(c, hook)
      PROVE  RecallInv' /\ Delivered
  <2>1. Made(hook) \in LiveCalls
    BY MadeFits DEF RecallInv
  <2>2. ~InRun(c)
    BY <1>1 DEF RunHook, Unused, InRun
  <2> QED BY <1>1, <2>1, <2>2, AskKeeps DEF RunHook
<1>2. CASE AfterCommands(c)
  BY <1>1, <1>2 DEF AfterCommands
<1>3. CASE BeforeCombine(c)
  BY <1>1, <1>3 DEF BeforeCombine
<1>4. CASE Rerun(c)
  <2>1. Made("panel") \in LiveCalls /\ ~InRun(c)
    BY <1>4, MadeFits DEF RecallInv, Rerun, Unused, InRun
  <2> QED BY <1>4, <2>1, AskKeeps DEF Rerun
<1>5. ASSUME call[c].at \in {"barrier", "waiting", "recovering", "retrieving"}
      PROVE  call[c] \in LiveCalls /\ prompt \in BlockSet
  BY <1>5 DEF RecallInv, Typed, CallSet, Over
<1>6. ASSUME Refuse(c), UNCHANGED session,
             call[c].at \in {"waiting", "recovering"}
      PROVE  RecallInv' /\ Delivered
  <2>1. Delivers /\ call' = [call EXCEPT ![c] = Over]
    BY <1>5, <1>6, AnswerDelivers, NoneFits DEF Refuse
  <2>2. Over \in CallSet /\ Over.at = "over"
    BY DEF CallSet, Over
  <2>3. Quiet(c)
    BY <1>6, <2>1, <2>2 DEF Quiet, Refuse
  <2> QED BY <1>6, <2>1, <2>3, QuietKeeps DEF InRun, Delivered
<1>7. CASE PassBarrier(c)
  <2>1. Quiet(c) /\ ~InRun(c) /\ UNCHANGED session
    BY <1>5, <1>7, EnterQuiet DEF PassBarrier, InRun
  <2> QED BY <2>1, QuietKeeps DEF Delivered, Quiet
<1>8. CASE Wake(c)
  <2>1. CASE Proceed(c, call[c], prompt)
    <3>1. Quiet(c) /\ ~InRun(c) /\ UNCHANGED session
      BY <1>5, <1>8, <2>1, ProceedQuiet DEF Wake, InRun
    <3> QED BY <3>1, QuietKeeps DEF Delivered, Quiet
  <2> QED BY <1>6, <1>8, <2>1 DEF Wake
<1>9. CASE StartRun(c)
  <2>1. CASE Refuse(c)
    BY <1>6, <1>9, <2>1 DEF StartRun
  <2>2. CASE ~Refuse(c)
    BY <1>9, <2>2, BeginKeeps DEF StartRun, Delivered
  <2> QED BY <2>1, <2>2
<1>10. CASE Retrieved(c)
  <2>1. InRun(c) /\ UNCHANGED session
    BY <1>10 DEF Retrieved
  <2>2. CASE EndRun(c, NoBlock)
    BY <2>1, <2>2, EndRunKeeps, NoneFits DEF Delivered
  <2>3. CASE MayGoOn(c) /\ EndRun(c, call[c].asked)
    <3>1. Current(call[c].asked)
      BY <2>1, <2>3 DEF MayGoOn, LeaseCurrent, Current, RecallInv, LeasesInTime,
                        InTime, InRun
    <3> QED BY <2>1, <2>3, <3>1, EndRunKeeps DEF Delivered
  <2> QED BY <1>10, <2>2, <2>3 DEF Retrieved
<1> QED BY <1>2, <1>3, <1>4, <1>7, <1>8, <1>9, <1>10 DEF CallStep

\* An event that leaves the calls alone.
LEMMA EventKeeps ==
    ASSUME RecallInv, Typed', TxCurrent', OwnBlockSent', UNCHANGED <<call, flags>>
    PROVE  RecallInv'
<1>1. SlotRuns' /\ NewestIsBusy'
  BY DEF RecallInv, SlotRuns, NewestIsBusy, InRun, flags
<1>2. LeasesInTime'
  BY DEF RecallInv, LeasesInTime, InTime
<1> QED BY <1>1, <1>2 DEF RecallInv

\* A hook that shares a recall, and one that uses the record of the message.
LEMMA HookKeeps ==
    ASSUME RecallInv, ShareRecall \/ Reapply
    PROVE  RecallInv' /\ Delivered
<1>1. UNCHANGED <<session, call, flags>>
  BY DEF ShareRecall, Reapply
<1>2. prompt \in BlockSet /\ turn \in TurnSet /\ turn.tx \in TxSet
  BY DEF RecallInv, Typed, TurnSet
<1>3. Delivers
  <2>1. CASE ShareRecall
    <3>1. Made("before") \in LiveCalls /\ Combine(Made("before"), turn.tx, prompt)
      BY <2>1, MadeFits DEF ShareRecall, RecallInv
    <3> QED BY <1>2, <3>1, CombineDelivers DEF RecallInv, TxCurrent
  <2>2. CASE Reapply
    <3>1. prompt' \in {NoBlock, Record} /\ turn' = [turn EXCEPT !.combined = TRUE]
      BY <2>2 DEF Reapply
    <3>2. /\ turn' \in TurnSet /\ turn'.id = turn.id /\ turn'.tx = turn.tx
          /\ turn'.combined
      BY <1>2, <3>1 DEF TurnSet
    <3>3. prompt' \in BlockSet /\ Current(prompt')
      BY <3>1, NoneFits, RecordFits DEF RecallInv
    <3> QED BY <3>2, <3>3 DEF Delivers, RecallInv, TxCurrent
  <2> QED BY <2>1, <2>2
<1>4. Typed'
  BY <1>1, <1>3 DEF RecallInv, Typed, Delivers, flags
<1>5. TxCurrent' /\ OwnBlockSent'
  BY <1>1, <1>3, DeliveredKeeps
<1> QED BY <1>1, <1>3, <1>4, <1>5, EventKeeps DEF Delivered

LEMMA NextKeeps ==
    ASSUME RecallInv, RecallNext
    PROVE  RecallInv' /\ Delivered
<1>1. ASSUME NEW kind \in {"fresh", "no-new-user"}, GenerationStarted(kind)
      PROVE  RecallInv' /\ Delivered
  <2>1. /\ turn' \in TurnSet /\ turn'.tx = NoTx /\ turn'.combined = FALSE
        /\ session' \in [epoch : Nat, turns : Nat]
    <3>1. session' \in [epoch : Nat, turns : Nat] /\ session'.turns \in Nat
      BY <1>1 DEF GenerationStarted, RecallInv, Typed
    <3>2. turn' = [NoTurn EXCEPT !.id = session'.turns, !.kind = kind]
      BY <1>1 DEF GenerationStarted
    <3> QED BY <3>1, <3>2, NoneFits DEF NoTurn, TurnSet
  <2>2. TxCurrent' /\ OwnBlockSent'
    BY <2>1 DEF TxCurrent, OwnBlockSent, Current, NoTx, Tx
  <2>3. Typed' /\ prompt' = prompt /\ UNCHANGED <<call, flags>>
    BY <1>1, <2>1 DEF GenerationStarted, RecallInv, Typed, flags
  <2> QED BY <2>2, <2>3, EventKeeps DEF Delivered
<1>2. CASE GenerationEnded
  <2>1. turn' = NoTurn /\ UNCHANGED <<session, call, prompt, flags>>
    BY <1>2 DEF GenerationEnded
  <2>2. TxCurrent' /\ OwnBlockSent'
    BY <2>1 DEF TxCurrent, OwnBlockSent, Current, NoTurn, NoTx, Tx
  <2>3. Typed'
    BY <2>1, NoneFits DEF RecallInv, Typed, flags
  <2> QED BY <2>1, <2>2, <2>3, EventKeeps DEF Delivered
<1>3. CASE \E c \in Recall : CallStep(c)
  BY <1>3, CallKeeps
<1>4. CASE ShareRecall \/ Reapply
  BY <1>4, HookKeeps
<1>5. call' = AbortRecall(call) /\ UNCHANGED recallStage =>
        /\ call' \in [Recall -> CallSet] /\ SlotRuns' /\ LeasesInTime'
        /\ \A c \in Recall : InRun(c)' <=> InRun(c)
  BY AbortTyped DEF RecallInv, Typed, SlotRuns, LeasesInTime, InTime, InRun
<1>6. CASE HistoryMutated
  <2>1. /\ call' = AbortRecall(call) /\ turn' = [turn EXCEPT !.tx = NoTx]
        /\ prompt' = NoBlock
        /\ UNCHANGED <<session, recalling, recallPromise, recallStage, newest>>
    BY <1>6 DEF HistoryMutated, flags
  <2>2. turn' \in TurnSet /\ turn'.tx = NoTx
    BY <2>1, NoneFits DEF RecallInv, Typed, TurnSet
  <2>3. Typed'
    BY <1>5, <2>1, <2>2, NoneFits DEF RecallInv, Typed
  <2>4. TxCurrent' /\ OwnBlockSent'
    <3>1. TxCurrent'
      BY <2>2 DEF TxCurrent, Current, NoTx, Tx
    <3>2. prompt'.turn = 0
      BY <2>1 DEF NoBlock
    <3> QED BY <3>1, <3>2 DEF OwnBlockSent
  <2>5. NewestIsBusy'
    <3>1. newest # 0 => (InRun(newest)' <=> InRun(newest))
      BY <1>5, <2>1 DEF RecallInv, Typed
    <3> QED BY <2>1, <3>1 DEF RecallInv, NewestIsBusy, InRun
  <2> QED BY <1>5, <2>1, <2>3, <2>4, <2>5 DEF RecallInv, Delivered
<1>7. CASE ChatChanged
  <2>1. /\ call' = AbortRecall(call) /\ turn' = NoTurn /\ prompt' = NoBlock
        /\ session' = [session EXCEPT !.epoch = @ + 1]
        /\ recalling' = FALSE /\ recallPromise' = 0 /\ newest' = 0
        /\ UNCHANGED recallStage
    BY <1>7 DEF ChatChanged
  <2>2. session' \in [epoch : Nat, turns : Nat]
    BY <2>1 DEF RecallInv, Typed
  <2>3. Typed'
    BY <1>5, <2>1, <2>2, NoneFits DEF RecallInv, Typed
  <2>4. TxCurrent' /\ OwnBlockSent' /\ NewestIsBusy'
    <3>1. TxCurrent' /\ ~turn'.combined
      BY <2>1 DEF TxCurrent, Current, NoTurn, NoTx, Tx
    <3> QED BY <2>1, <3>1 DEF OwnBlockSent, NewestIsBusy
  <2> QED BY <1>5, <2>1, <2>3, <2>4 DEF RecallInv, Delivered
<1> QED BY <1>1, <1>2, <1>3, <1>4, <1>6, <1>7 DEF RecallNext

LEMMA InitHolds == RecallInit => RecallInv
<1> SUFFICES ASSUME RecallInit PROVE RecallInv
  OBVIOUS
<1>1. Typed
  BY NoneFits DEF RecallInit, Typed, CallSet
<1>2. SlotRuns /\ LeasesInTime /\ NewestIsBusy
  BY DEF RecallInit, SlotRuns, LeasesInTime, NewestIsBusy
<1>3. TxCurrent /\ OwnBlockSent
  BY DEF RecallInit, TxCurrent, OwnBlockSent, Current, NoTurn, NoTx, Tx
<1> QED BY <1>1, <1>2, <1>3 DEF RecallInv

-----------------------------------------------------------------------------
(* Theorems                                                                 *)

\* The inductive invariant: the controller in the slot is that of a run, a block
\* past its lease is of the lease's moment, and what the hooks of a generation
\* share was recalled for it.
THEOREM RecallInvariant == RecallSpec => []RecallInv
<1>1. RecallInv /\ [RecallNext]_recallVars => RecallInv'
  <2> SUFFICES ASSUME RecallInv, UNCHANGED recallVars PROVE RecallInv'
    BY NextKeeps
  <2>1. UNCHANGED <<session, turn, call, prompt, flags>>
    BY DEF recallVars
  <2>2. Typed' /\ TxCurrent' /\ OwnBlockSent'
    BY <2>1 DEF RecallInv, Typed, TxCurrent, OwnBlockSent, Current, flags
  <2> QED BY <2>1, <2>2, EventKeeps
<1> QED BY <1>1, InitHolds, PTL DEF RecallSpec

\* runRecall's flag, promise and controller are those of the run begun last, and
\* free when it has ended, whatever older runs still do.
THEOREM BusyCorrect == RecallSpec => []NewestIsBusy
BY RecallInvariant, PTL DEF RecallInv

\* A generation is not sent with the block of another.
THEOREM SentCorrect == RecallSpec => []OwnBlockSent
BY RecallInvariant, PTL DEF RecallInv

\* A block reaches the prompt only in the visit and generation it was asked in.
THEOREM InjectionCorrect == RecallSpec => InjectionIsCurrent
<1> DEFINE A == prompt' \notin {prompt, NoBlock} /\ ~prompt'.late
                  => prompt'.epoch = session'.epoch /\ prompt'.turn \in {0, turn'.id}
<1>1. RecallInv /\ [RecallNext]_recallVars => [A]_recallVars
  <2> SUFFICES ASSUME RecallInv, RecallNext, prompt' \notin {prompt, NoBlock},
                      ~prompt'.late
               PROVE  prompt'.epoch = session'.epoch /\ prompt'.turn \in {0, turn'.id}
    OBVIOUS
  <2> QED BY NextKeeps DEF Delivered, Delivers, Current
<1> QED BY <1>1, RecallInvariant, PTL DEF RecallSpec, InjectionIsCurrent
=============================================================================
