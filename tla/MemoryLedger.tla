----------------------------- MODULE MemoryLedger -----------------------------
(***************************************************************************)
(* The append-only memory ledger of one chat: transactions of several tabs  *)
(* on a store with an optimistic revision (src/storage/memory-ledger-store.js,*)
(* src/domain/memory-ledger.js), one at a time in each tab                  *)
(* (src/application/chat-transaction-coordinator.js), with a cached ledger,  *)
(* retries after a conflict and replays of an idempotency key.              *)
(*                                                                         *)
(* A commit stands for its records too: they are written together.          *)
(***************************************************************************)
EXTENDS Naturals, Sequences

CONSTANTS
    Tabs,                \* each with a repository of its own
    Keys,                \* idempotency keys
    Payloads,            \* what a transaction writes
    Nothing,             \* no value
    PhysicalRetryLimit,  \* the option of that name
    MaxGraphWrites       \* bound: writes to the store that are not the ledger's

ASSUME LedgerAssumption ==
    /\ PhysicalRetryLimit \in Nat \ {0} /\ MaxGraphWrites \in Nat
    /\ Nothing \notin Keys

VARIABLES
    ledger,       \* what the store holds: the chain of commits
    revision,     \* the revision of the store
    cache,        \* the ledger each adapter has cached, if it has
    transaction,  \* the transaction of each tab and how far it is
    confirmed     \* auxiliary: keys and payloads some caller was told are stored

ledgerVars == <<ledger, revision, cache, transaction, confirmed>>

Log == INSTANCE LedgerLog WITH Key <- Keys, Payload <- Payloads, None <- Nothing,
                               log <- ledger

NoCache == [loaded |-> FALSE, log |-> <<>>]

NoTransaction == [pc |-> "none"]

Cached(l) == [loaded |-> TRUE, log |-> l]

-----------------------------------------------------------------------------
(* The chain                                                                *)

HeadOf(l) == [revision |-> Len(l),
              commit   |-> IF l = <<>> THEN Nothing ELSE l[Len(l)].key]

KeysIn(l) == {l[i].key : i \in DOMAIN l}

\* A commit of tx on ledger l.
CommitOn(l, tx) == [key |-> tx.key, payload |-> tx.payload, base |-> Len(l),
                    parent |-> IF l = <<>> THEN Nothing ELSE l[Len(l)].key]

\* Seeded fault: a known key is a replay whatever it was used for.
SameKey(l, tx) == \E i \in DOMAIN l : l[i].key = tx.key

\* A known key with the payload it was used for.
Replays(l, tx) == \E i \in DOMAIN l : l[i].key = tx.key /\ l[i].payload = tx.payload

\* A transaction that was built for this ledger: by a factory, which is given it,
\* or beforehand for the revision it has.
Fits(l, tx) == tx.base = Nothing \/ tx.base = Len(l)

-----------------------------------------------------------------------------
(* One transaction                                                          *)

\* A caller plans a transaction on the ledger as it is now, or leaves it to a
\* factory that is given the ledger of each attempt.
Transact(t, k, v) ==
    /\ transaction[t] = NoTransaction
    /\ \E base \in {Nothing, Len(ledger)} :
         transaction' = [transaction EXCEPT ![t] =
            [pc |-> "load", key |-> k, payload |-> v, base |-> base, attempt |-> 1,
             revision |-> 0]]
    /\ UNCHANGED <<ledger, revision, cache, confirmed>>

Finish(t) == transaction' = [transaction EXCEPT ![t] = NoTransaction]

\* The ledger is loaded, on the first attempt from the cache if there is one, and
\* the transaction is tried on it.
Load(t) ==
    LET tx == transaction[t]
        l  == IF tx.attempt = 1 /\ cache[t].loaded THEN cache[t].log ELSE ledger
    IN  /\ tx.pc = "load"
        /\ cache' = [cache EXCEPT ![t] = Cached(l)]
        /\ IF Replays(l, tx)
           THEN /\ confirmed' = confirmed \cup {<<tx.key, tx.payload>>}
                /\ Finish(t)
           ELSE /\ IF tx.key \in KeysIn(l) \/ ~Fits(l, tx)
                   THEN Finish(t)
                   ELSE transaction' = [transaction EXCEPT ![t].pc = "revision"]
                /\ UNCHANGED confirmed
        /\ UNCHANGED <<ledger, revision>>

ReadRevision(t) ==
    /\ transaction[t].pc = "revision"
    /\ transaction' = [transaction EXCEPT ![t].pc = "head", ![t].revision = revision]
    /\ UNCHANGED <<ledger, revision, cache, confirmed>>

\* The next attempt loads from the store; the last one's conflict is the caller's.
Retry(t) ==
    /\ cache' = [cache EXCEPT ![t] = NoCache]
    /\ IF transaction[t].attempt < PhysicalRetryLimit
       THEN transaction' = [transaction EXCEPT ![t].pc = "load", ![t].attempt = @ + 1]
       ELSE Finish(t)

ReadHead(t) ==
    /\ transaction[t].pc = "head"
    /\ IF HeadOf(ledger) # HeadOf(cache[t].log)
       THEN Retry(t)
       ELSE transaction' = [transaction EXCEPT ![t].pc = "commit"] /\ UNCHANGED cache
    /\ UNCHANGED <<ledger, revision, confirmed>>

\* Seeded fault: the base revision is not compared.
NotBehind(t) == transaction[t].revision <= revision

Unmoved(t) == transaction[t].revision = revision

Appended(t) ==
    /\ transaction[t].pc = "commit" /\ Unmoved(t)
    /\ ledger' = Append(ledger, CommitOn(cache[t].log, transaction[t]))
    /\ revision' = revision + 1
    /\ Finish(t)

CommitLedger(t) ==
    /\ Appended(t)
    /\ cache' = [cache EXCEPT ![t] = Cached(ledger')]
    /\ confirmed' = confirmed \cup {<<transaction[t].key, transaction[t].payload>>}

\* The store has committed, its answer is lost.
LoseAnswer(t) ==
    /\ Appended(t)
    /\ cache' = [cache EXCEPT ![t] = NoCache]
    /\ UNCHANGED confirmed

Conflict(t) ==
    /\ transaction[t].pc = "commit" /\ ~Unmoved(t)
    /\ Retry(t)
    /\ UNCHANGED <<ledger, revision, confirmed>>

\* The commit fails without effect.
FailCommit(t) ==
    /\ transaction[t].pc = "commit"
    /\ Finish(t)
    /\ cache' = [cache EXCEPT ![t] = NoCache]
    /\ UNCHANGED <<ledger, revision, confirmed>>

\* The caller gives up between two steps.
Abort(t) ==
    /\ transaction[t] # NoTransaction
    /\ Finish(t)
    /\ UNCHANGED <<ledger, revision, cache, confirmed>>

\* The tab is reloaded, or its repository has got another store for the chat.
Reload(t) ==
    /\ Finish(t)
    /\ cache' = [cache EXCEPT ![t] = NoCache]
    /\ UNCHANGED <<ledger, revision, confirmed>>

\* The graph of the chat is saved, which the store counts too.
GraphWrite ==
    /\ revision - Len(ledger) < MaxGraphWrites
    /\ revision' = revision + 1
    /\ UNCHANGED <<ledger, cache, transaction, confirmed>>

-----------------------------------------------------------------------------
(* Specification                                                            *)

LedgerInit ==
    /\ ledger = <<>> /\ revision = 0
    /\ cache = [t \in Tabs |-> NoCache]
    /\ transaction = [t \in Tabs |-> NoTransaction]
    /\ confirmed = {}

TabStep(t) ==
    \/ \E k \in Keys, v \in Payloads : Transact(t, k, v)
    \/ Load(t)
    \/ ReadRevision(t)
    \/ ReadHead(t)
    \/ CommitLedger(t)
    \/ LoseAnswer(t)
    \/ Conflict(t)
    \/ FailCommit(t)
    \/ Abort(t)
    \/ Reload(t)

LedgerNext == (\E t \in Tabs : TabStep(t)) \/ GraphWrite

LedgerSpec == LedgerInit /\ [][LedgerNext]_ledgerVars

-----------------------------------------------------------------------------
(* Properties                                                               *)

\* The stored chain can always be read back: each commit follows the one before
\* it, as decodeMemoryLedgerSnapshot and assertMemoryLedger demand. A tab whose
\* cached ledger is behind has not appended to it.
ChainIntact ==
    \A i \in DOMAIN ledger :
        /\ ledger[i].base = i - 1
        /\ ledger[i].parent = IF i = 1 THEN Nothing ELSE ledger[i-1].key

\* The ledger implements the log: it grows by one commit at a time, no key is used
\* twice, and what a caller was told is stored is.
LedgerIsALog == Log!Spec
=============================================================================
