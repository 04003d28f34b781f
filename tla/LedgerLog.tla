------------------------------ MODULE LedgerLog ------------------------------
(***************************************************************************)
(* What the memory ledger of a chat promises: one log of commits that only  *)
(* grows, each commit made on all that came before it, each idempotency key *)
(* used once; and a caller that is told its transaction is in the log finds *)
(* it there. Tabs, caches, retries and lost answers are not visible here.   *)
(***************************************************************************)
EXTENDS Naturals, Sequences

CONSTANTS Key, Payload, None

VARIABLES log, confirmed

Entry(l, k, v) == [key |-> k, payload |-> v, base |-> Len(l),
                   parent |-> IF l = <<>> THEN None ELSE l[Len(l)].key]

KeysOf(l) == {l[i].key : i \in DOMAIN l}

Init == log = <<>> /\ confirmed = {}

Extend(k, v) == /\ k \notin KeysOf(log)
                /\ log' = Append(log, Entry(log, k, v))
                /\ confirmed' \in {confirmed, confirmed \cup {<<k, v>>}}

Confirm(i) == /\ confirmed' = confirmed \cup {<<log[i].key, log[i].payload>>}
              /\ UNCHANGED log

Next == \/ \E k \in Key, v \in Payload : Extend(k, v)
        \/ \E i \in DOMAIN log : Confirm(i)

Spec == Init /\ [][Next]_<<log, confirmed>>
=============================================================================
