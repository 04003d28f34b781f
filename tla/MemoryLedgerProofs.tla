-------------------------- MODULE MemoryLedgerProofs --------------------------
(***************************************************************************)
(* Theorems about MemoryLedger, for every set of tabs, keys and payloads,   *)
(* every retry limit and every number of other writes.                      *)
(***************************************************************************)
EXTENDS MemoryLedger, SequenceTheorems, TLAPS

Commits == [key : Keys, payload : Payloads, base : Nat, parent : Keys \cup {Nothing}]

Chains == Seq(Commits)

Transactions == [pc : {"load", "revision", "head", "commit"}, key : Keys,
                 payload : Payloads, base : Nat \cup {Nothing}, attempt : Nat,
                 revision : Nat]

LedgerTypes ==
    /\ ledger \in Chains
    /\ revision \in Nat
    /\ cache \in [Tabs -> [loaded : BOOLEAN, log : Chains]]
    /\ transaction \in [Tabs -> {NoTransaction} \cup Transactions]

\* A chain that is the beginning of another.
Begins(l, m) == /\ Len(l) <= Len(m)
                /\ \A i \in 1..Len(l) : l[i] = m[i]

Planned(t) == transaction[t].pc \in {"revision", "head", "commit"}

\* A cache is never ahead of the store nor beside it.
CacheBegins ==
    \A t \in Tabs : Begins(cache[t].log, ledger)

\* A transaction past its load has a key the cached ledger does not know.
KeyIsNew == \A t \in Tabs : Planned(t) => transaction[t].key \notin KeysIn(cache[t].log)

RevisionWasRead ==
    \A t \in Tabs : transaction[t].pc \in {"head", "commit"} =>
                      transaction[t].revision <= revision

\* Past the check of the head, a store that has not moved holds what is cached.
CacheIsLedger ==
    \A t \in Tabs : transaction[t].pc = "commit" /\ Unmoved(t) => cache[t].log = ledger

ConfirmedStored ==
    \A c \in confirmed : \E i \in DOMAIN ledger : c = <<ledger[i].key, ledger[i].payload>>

LedgerInv == /\ LedgerTypes
             /\ CacheBegins
             /\ KeyIsNew
             /\ RevisionWasRead
             /\ CacheIsLedger
             /\ ChainIntact
             /\ ConfirmedStored

-----------------------------------------------------------------------------
(* Chains                                                                   *)

\* A chain is the beginning of itself and of what it grows into.
LEMMA BeginsSelf == ASSUME NEW l \in Chains PROVE Begins(l, l)
BY DEF Begins, Chains

LEMMA BeginsGrown ==
    ASSUME NEW l \in Chains, NEW m \in Chains, NEW c \in Commits, Begins(l, m)
    PROVE  Begins(l, Append(m, c))
BY DEF Begins, Chains

\* The beginning with the same head is the whole.
LEMMA SameHead ==
    ASSUME NEW l \in Chains, NEW m \in Chains, Begins(l, m), HeadOf(m) = HeadOf(l)
    PROVE  l = m
<1>1. Len(l) = Len(m)
  BY DEF HeadOf
<1>2. \A i \in 1..Len(l) : l[i] = m[i]
  BY DEF Begins
<1> QED
  BY <1>1, <1>2, SeqEqual DEF Chains

\* The commit a transaction adds is one.
LEMMA CommitType ==
    ASSUME NEW l \in Chains, NEW tx \in Transactions
    PROVE  CommitOn(l, tx) \in Commits
<1>1. CASE l = <<>>
  BY <1>1 DEF CommitOn, Commits, Transactions, Chains
<1>2. CASE l # <<>>
  <2>1. l[Len(l)] \in Commits
    BY <1>2 DEF Chains
  <2>2. l[Len(l)].key \in Keys
    BY <2>1 DEF Commits
  <2> QED
    BY <1>2, <2>2 DEF CommitOn, Commits, Transactions, Chains
<1> QED
  BY <1>1, <1>2

\* A chain stays one when a commit that is made on it is added.
LEMMA ChainGrows ==
    ASSUME NEW l \in Chains, NEW tx \in Transactions,
           \A i \in DOMAIN l : /\ l[i].base = i - 1
                               /\ l[i].parent = IF i = 1 THEN Nothing ELSE l[i-1].key
    PROVE  LET m == Append(l, CommitOn(l, tx))
           IN  \A i \in DOMAIN m : /\ m[i].base = i - 1
                                   /\ m[i].parent = IF i = 1 THEN Nothing ELSE m[i-1].key
<1> DEFINE c == CommitOn(l, tx)
           m == Append(l, c)
<1>1. c \in Commits
  BY CommitType
<1>2. DOMAIN m = 1 .. Len(l) + 1 /\ DOMAIN l = 1 .. Len(l) /\ Len(l) \in Nat
  BY <1>1 DEF Chains
<1>3. \A i \in 1 .. Len(l) : m[i] = l[i]
  BY <1>1 DEF Chains
<1>4. m[Len(l) + 1] = c
  BY <1>1 DEF Chains
<1>5. c.base = Len(l) /\ c.parent = IF l = <<>> THEN Nothing ELSE l[Len(l)].key
  BY DEF CommitOn
<1>6. (l = <<>>) <=> (Len(l) = 0)
  BY DEF Chains
<1> HIDE DEF c, m
<1>7. ASSUME NEW i \in 1 .. Len(l) PROVE m[i].base = i - 1 /\ m[i].parent = IF i = 1 THEN Nothing ELSE m[i-1].key
  <2>1. i # 1 => m[i-1] = l[i-1]
    BY <1>2, <1>3
  <2> QED
    BY <1>2, <1>3, <2>1
<1>8. m[Len(l)+1].base = Len(l) /\ m[Len(l)+1].parent = IF Len(l) + 1 = 1 THEN Nothing ELSE m[Len(l)].key
  <2>1. Len(l) # 0 => m[Len(l)] = l[Len(l)]
    BY <1>2, <1>3
  <2> QED
    BY <1>2, <1>4, <1>5, <1>6, <2>1
<1>9. \A i \in DOMAIN m : /\ m[i].base = i - 1
                          /\ m[i].parent = IF i = 1 THEN Nothing ELSE m[i-1].key
  BY <1>2, <1>7, <1>8
<1> QED
  BY <1>9 DEF m, c

-----------------------------------------------------------------------------
(* The steps                                                                *)

LEMMA LedgerInvInit == LedgerInit => LedgerInv
<1> SUFFICES ASSUME LedgerInit PROVE LedgerInv
  OBVIOUS
<1> USE DEF LedgerInit
<1>1. <<>> \in Chains /\ Len(<<>>) = 0
  BY DEF Chains
<1>2. LedgerTypes
  BY <1>1 DEF LedgerTypes, NoCache
<1>3. CacheBegins
  BY <1>1, BeginsSelf DEF CacheBegins, NoCache
<1>4. KeyIsNew /\ RevisionWasRead /\ CacheIsLedger
  BY DEF KeyIsNew, Planned, RevisionWasRead, CacheIsLedger, NoTransaction
<1>5. ChainIntact /\ ConfirmedStored
  BY DEF ChainIntact, ConfirmedStored
<1> QED
  BY <1>2, <1>3, <1>4, <1>5 DEF LedgerInv

\* Past a load, the transaction is one.
LEMMA ActiveType ==
    ASSUME LedgerTypes, NEW t \in Tabs, transaction[t].pc # "none"
    PROVE  transaction[t] \in Transactions
BY DEF LedgerTypes, NoTransaction

\* A step of one tab that does not write keeps the invariant if what the tab then
\* has is right.
LEMMA QuietStep ==
    ASSUME LedgerInv, NEW t \in Tabs,
           NEW c \in [loaded : BOOLEAN, log : Chains],
           NEW tx \in {NoTransaction} \cup Transactions,
           Begins(c.log, ledger),
           tx.pc \in {"revision", "head", "commit"} => tx.key \notin KeysIn(c.log),
           tx.pc \in {"head", "commit"} => tx.revision <= revision,
           tx.pc = "commit" /\ tx.revision = revision => c.log = ledger,
           UNCHANGED <<ledger, revision>>,
           cache' = [cache EXCEPT ![t] = c],
           transaction' = [transaction EXCEPT ![t] = tx],
           \A d \in confirmed' : d \in confirmed
                \/ \E i \in DOMAIN ledger : d = <<ledger[i].key, ledger[i].payload>>
    PROVE  LedgerInv'
<1> USE DEF LedgerInv
<1>1. /\ cache'[t] = c /\ transaction'[t] = tx
      /\ \A u \in Tabs \ {t} : cache'[u] = cache[u] /\ transaction'[u] = transaction[u]
  BY DEF LedgerTypes
<1>2. LedgerTypes'
  BY DEF LedgerTypes
<1>3. CacheBegins'
  <2> SUFFICES ASSUME NEW u \in Tabs PROVE Begins(cache'[u].log, ledger)
    BY DEF CacheBegins
  <2> QED
    BY <1>1 DEF CacheBegins
<1>4. KeyIsNew'
  <2> SUFFICES ASSUME NEW u \in Tabs, transaction'[u].pc \in {"revision", "head", "commit"}
               PROVE  transaction'[u].key \notin KeysIn(cache'[u].log)
    BY DEF KeyIsNew, Planned
  <2> QED
    BY <1>1 DEF KeyIsNew, Planned
<1>5. RevisionWasRead'
  <2> SUFFICES ASSUME NEW u \in Tabs, transaction'[u].pc \in {"head", "commit"}
               PROVE  transaction'[u].revision <= revision
    BY DEF RevisionWasRead
  <2> QED
    BY <1>1 DEF RevisionWasRead
<1>6. CacheIsLedger'
  <2> SUFFICES ASSUME NEW u \in Tabs, transaction'[u].pc = "commit",
                      transaction'[u].revision = revision
               PROVE  cache'[u].log = ledger
    BY DEF CacheIsLedger, Unmoved
  <2> QED
    BY <1>1 DEF CacheIsLedger, Unmoved
<1>7. ChainIntact'
  BY DEF ChainIntact
<1>8. ConfirmedStored'
  BY DEF ConfirmedStored
<1> QED
  BY <1>2, <1>3, <1>4, <1>5, <1>6, <1>7, <1>8

\* An empty cache is right for every ledger.
LEMMA NoCacheFits ==
    ASSUME NEW l \in Chains
    PROVE  Begins(NoCache.log, l) /\ NoCache \in [loaded : BOOLEAN, log : Chains]
BY DEF Begins, NoCache, Chains

\* No transaction has nothing to be wrong about.
LEMMA NoTransactionIdle == NoTransaction.pc = "none"
BY DEF NoTransaction

\* A conflict keeps the invariant.
LEMMA RetryStep ==
    ASSUME LedgerInv, NEW t \in Tabs, transaction[t].pc # "none", Retry(t),
           UNCHANGED <<ledger, revision, confirmed>>
    PROVE  LedgerInv'
<1>1. transaction[t] \in Transactions /\ ledger \in Chains
  BY ActiveType DEF LedgerInv, LedgerTypes
<1>2. cache' = [cache EXCEPT ![t] = NoCache]
  BY DEF Retry
<1>3. CASE transaction[t].attempt < PhysicalRetryLimit
  <2> DEFINE tx == [transaction[t] EXCEPT !.pc = "load", !.attempt = @ + 1]
  <2>1. tx \in Transactions /\ tx.pc = "load"
    <3>1. transaction[t].attempt + 1 \in Nat
      BY <1>1 DEF Transactions
    <3>2. ASSUME NEW n \in Nat, NEW r \in Transactions
          PROVE  [r EXCEPT !.pc = "load", !.attempt = n] \in Transactions
      BY DEF Transactions
    <3>3. ASSUME NEW n \in Nat, NEW r \in Transactions
          PROVE  [r EXCEPT !.pc = "load", !.attempt = n].pc = "load"
      BY DEF Transactions
    <3> QED
      BY <1>1, <3>1, <3>2, <3>3
  <2>2. transaction' = [transaction EXCEPT ![t] = tx]
    BY <1>1, <1>3 DEF Retry, LedgerInv, LedgerTypes
  <2> HIDE DEF tx
  <2> QED
    BY <1>1, <1>2, <2>1, <2>2, NoCacheFits, QuietStep
<1>4. CASE ~(transaction[t].attempt < PhysicalRetryLimit)
  <2>1. transaction' = [transaction EXCEPT ![t] = NoTransaction]
    BY <1>4 DEF Retry, Finish
  <2> QED
    BY <1>1, <1>2, <2>1, NoCacheFits, NoTransactionIdle, QuietStep
<1> QED
  BY <1>3, <1>4

\* A commit: the ledger grows by a commit on what the tab has cached, which is what
\* is stored. Every other tab's revision is now behind.
LEMMA AppendStep ==
    ASSUME LedgerInv, NEW t \in Tabs, Appended(t),
           NEW c \in [loaded : BOOLEAN, log : Chains],
           cache' = [cache EXCEPT ![t] = c], Begins(c.log, ledger'),
           \A d \in confirmed' : d \in confirmed
                \/ d = <<transaction[t].key, transaction[t].payload>>
    PROVE  /\ LedgerInv'
           /\ cache[t].log = ledger
           /\ transaction[t] \in Transactions
           /\ transaction[t].key \notin KeysIn(ledger)
<1> USE DEF LedgerInv
<1> DEFINE tx == transaction[t]
           m  == Append(ledger, CommitOn(ledger, tx))
<1>1. tx \in Transactions
  BY ActiveType DEF Appended
<1>2. cache[t].log = ledger /\ tx.key \notin KeysIn(ledger)
  BY DEF CacheIsLedger, Appended, KeyIsNew, Planned
<1>3. ledger' = m /\ revision' = revision + 1
      /\ transaction' = [transaction EXCEPT ![t] = NoTransaction]
  BY <1>2 DEF Appended, Finish
<1>4. ledger \in Chains /\ revision \in Nat
  BY DEF LedgerTypes
<1>5. CommitOn(ledger, tx) \in Commits /\ m \in Chains
  BY <1>1, <1>4, CommitType DEF Chains
<1>6. /\ cache'[t] = c /\ transaction'[t] = NoTransaction
      /\ \A u \in Tabs \ {t} : cache'[u] = cache[u] /\ transaction'[u] = transaction[u]
  BY <1>3 DEF LedgerTypes
<1>7. \A u \in Tabs : u = t \/ transaction[u].pc # "commit"
        \/ transaction[u].revision # revision + 1
  <2> SUFFICES ASSUME NEW u \in Tabs, transaction[u].pc = "commit"
               PROVE  transaction[u].revision # revision + 1
    OBVIOUS
  <2>1. transaction[u] \in Transactions /\ transaction[u].revision <= revision
    BY ActiveType DEF RevisionWasRead
  <2> QED
    BY <1>4, <2>1 DEF Transactions
<1>8. LedgerTypes'
  BY <1>3, <1>4, <1>5 DEF LedgerTypes
<1>9. CacheBegins'
  <2> SUFFICES ASSUME NEW u \in Tabs PROVE Begins(cache'[u].log, m)
    BY <1>3 DEF CacheBegins
  <2>1. CASE u = t
    BY <1>3, <1>6, <2>1
  <2>2. CASE u # t
    <3>1. cache[u].log \in Chains /\ Begins(cache[u].log, ledger)
      BY DEF LedgerTypes, CacheBegins
    <3> QED
      BY <1>4, <1>5, <1>6, <2>2, <3>1, BeginsGrown
  <2> QED
    BY <2>1, <2>2
<1>10. KeyIsNew'
  <2> SUFFICES ASSUME NEW u \in Tabs, transaction'[u].pc \in {"revision", "head", "commit"}
               PROVE  transaction'[u].key \notin KeysIn(cache'[u].log)
    BY DEF KeyIsNew, Planned
  <2> QED
    BY <1>6, NoTransactionIdle DEF KeyIsNew, Planned
<1>11. RevisionWasRead'
  <2> SUFFICES ASSUME NEW u \in Tabs, transaction'[u].pc \in {"head", "commit"}
               PROVE  transaction'[u].revision <= revision'
    BY DEF RevisionWasRead
  <2>1. transaction'[u] = transaction[u] /\ transaction[u].revision <= revision
    BY <1>6, NoTransactionIdle DEF RevisionWasRead
  <2>2. transaction[u] \in Transactions
    BY <2>1, ActiveType
  <2> QED
    BY <1>3, <1>4, <2>1, <2>2 DEF Transactions
<1>12. CacheIsLedger'
  <2> SUFFICES ASSUME NEW u \in Tabs, transaction'[u].pc = "commit",
                      transaction'[u].revision = revision'
               PROVE  FALSE
    BY DEF CacheIsLedger, Unmoved
  <2> QED
    BY <1>3, <1>6, <1>7, NoTransactionIdle
<1>13. ChainIntact'
  <2>1. \A i \in DOMAIN ledger : /\ ledger[i].base = i - 1
                                 /\ ledger[i].parent = IF i = 1 THEN Nothing ELSE ledger[i-1].key
    BY DEF ChainIntact
  <2>2. \A i \in DOMAIN m : /\ m[i].base = i - 1
                            /\ m[i].parent = IF i = 1 THEN Nothing ELSE m[i-1].key
    <3> HIDE DEF tx
    <3> QED BY <1>1, <1>4, <2>1, ChainGrows
  <2> QED
    BY <1>3, <2>2 DEF ChainIntact
<1>14. ConfirmedStored'
  <2> SUFFICES ASSUME NEW d \in confirmed'
               PROVE  \E i \in DOMAIN m : d = <<m[i].key, m[i].payload>>
    BY <1>3 DEF ConfirmedStored
  <2>1. DOMAIN m = 1 .. Len(ledger) + 1 /\ DOMAIN ledger = 1 .. Len(ledger) /\ Len(ledger) \in Nat
    BY <1>4, <1>5 DEF Chains
  <2>2. \A i \in 1 .. Len(ledger) : m[i] = ledger[i]
    BY <1>4, <1>5 DEF Chains
  <2>3. m[Len(ledger) + 1].key = tx.key /\ m[Len(ledger) + 1].payload = tx.payload
    BY <1>4, <1>5 DEF Chains, CommitOn
  <2> HIDE DEF m, tx
  <2>4. CASE d \in confirmed
    BY <2>1, <2>2, <2>4 DEF ConfirmedStored
  <2>5. CASE d = <<tx.key, tx.payload>>
    BY <2>1, <2>3, <2>5
  <2> QED
    BY <2>4, <2>5 DEF tx
<1>15. LedgerInv'
  BY <1>8, <1>9, <1>10, <1>11, <1>12, <1>13, <1>14
<1> QED
  BY <1>1, <1>2, <1>15

-----------------------------------------------------------------------------
(* The invariant                                                            *)

LEMMA RequestStep ==
    ASSUME LedgerInv, NEW t \in Tabs, NEW k \in Keys, NEW v \in Payloads,
           Transact(t, k, v)
    PROVE  LedgerInv'
<1>1. PICK base \in {Nothing, Len(ledger)} :
        transaction' = [transaction EXCEPT ![t] =
            [pc |-> "load", key |-> k, payload |-> v, base |-> base, attempt |-> 1,
             revision |-> 0]]
  BY DEF Transact
<1> DEFINE tx == [pc |-> "load", key |-> k, payload |-> v, base |-> base, attempt |-> 1,
                  revision |-> 0]
<1>2. tx \in Transactions /\ tx.pc = "load"
  BY DEF Transactions, LedgerInv, LedgerTypes, Chains
<1>3. cache' = [cache EXCEPT ![t] = cache[t]] /\ UNCHANGED <<ledger, revision, confirmed>>
  BY DEF Transact, LedgerInv, LedgerTypes
<1>4. cache[t] \in [loaded : BOOLEAN, log : Chains] /\ Begins(cache[t].log, ledger)
  BY DEF LedgerInv, LedgerTypes, CacheBegins
<1> HIDE DEF tx
<1> QED
  BY <1>1, <1>2, <1>3, <1>4, QuietStep DEF tx

LEMMA LoadStep ==
    ASSUME LedgerInv, NEW t \in Tabs, Load(t)
    PROVE  LedgerInv'
<1> DEFINE tx == transaction[t]
           l  == IF tx.attempt = 1 /\ cache[t].loaded THEN cache[t].log ELSE ledger
<1>1. tx \in Transactions /\ ledger \in Chains
  BY ActiveType DEF Load, LedgerInv, LedgerTypes
<1>2. l \in Chains /\ Begins(l, ledger)
  BY <1>1, BeginsSelf DEF LedgerInv, LedgerTypes, CacheBegins
<1>3. Cached(l) \in [loaded : BOOLEAN, log : Chains] /\ Cached(l).log = l
  BY <1>2 DEF Cached
<1>4. cache' = [cache EXCEPT ![t] = Cached(l)] /\ UNCHANGED <<ledger, revision>>
  BY DEF Load
<1>5. CASE Replays(l, tx)
  <2>1. confirmed' = confirmed \cup {<<tx.key, tx.payload>>}
        /\ transaction' = [transaction EXCEPT ![t] = NoTransaction]
    BY <1>5 DEF Load, Finish
  <2>2. PICK i \in DOMAIN l : l[i].key = tx.key /\ l[i].payload = tx.payload
    BY <1>5 DEF Replays
  <2>3. i \in DOMAIN ledger /\ ledger[i] = l[i]
    <3> HIDE DEF l
    <3> QED BY <1>1, <1>2 DEF Begins, Chains
  <2> HIDE DEF l, tx
  <2> QED
    BY <1>2, <1>3, <1>4, <2>1, <2>2, <2>3, NoTransactionIdle, QuietStep
<1>6. CASE ~Replays(l, tx) /\ tx.key \notin KeysIn(l) /\ Fits(l, tx)
  <2> DEFINE next == [tx EXCEPT !.pc = "revision"]
  <2>1. next \in Transactions /\ next.pc = "revision" /\ next.key = tx.key
    <3> HIDE DEF tx
    <3> QED BY <1>1 DEF Transactions
  <2>2. transaction' = [transaction EXCEPT ![t] = next] /\ UNCHANGED confirmed
    BY <1>6 DEF Load
  <2> HIDE DEF l, tx, next
  <2> QED
    BY <1>2, <1>3, <1>4, <1>6, <2>1, <2>2, QuietStep
<1>7. CASE ~Replays(l, tx) /\ (tx.key \in KeysIn(l) \/ ~Fits(l, tx))
  <2>1. transaction' = [transaction EXCEPT ![t] = NoTransaction] /\ UNCHANGED confirmed
    BY <1>7 DEF Load, Finish
  <2> HIDE DEF l, tx
  <2> QED
    BY <1>2, <1>3, <1>4, <2>1, NoTransactionIdle, QuietStep
<1> QED
  BY <1>5, <1>6, <1>7

LEMMA ReadRevisionStep ==
    ASSUME LedgerInv, NEW t \in Tabs, ReadRevision(t)
    PROVE  LedgerInv'
<1> DEFINE next == [transaction[t] EXCEPT !.pc = "head", !.revision = revision]
<1>1. transaction[t] \in Transactions /\ revision \in Nat
  BY ActiveType DEF ReadRevision, LedgerInv, LedgerTypes
<1>2. /\ next \in Transactions /\ next.pc = "head"
      /\ next.revision = revision /\ next.key = transaction[t].key
  BY <1>1 DEF Transactions
<1>3. transaction' = [transaction EXCEPT ![t] = next] /\ UNCHANGED <<ledger, revision, confirmed>>
  BY DEF ReadRevision
<1>4. cache' = [cache EXCEPT ![t] = cache[t]]
  BY DEF ReadRevision, LedgerInv, LedgerTypes
<1>5. /\ cache[t] \in [loaded : BOOLEAN, log : Chains] /\ Begins(cache[t].log, ledger)
      /\ transaction[t].key \notin KeysIn(cache[t].log)
  BY DEF LedgerInv, LedgerTypes, CacheBegins, KeyIsNew, Planned, ReadRevision
<1>6. next.revision <= revision
  BY <1>1, <1>2
<1> HIDE DEF next
<1>7. next.pc # "commit" /\ next.key \notin KeysIn(cache[t].log)
  BY <1>2, <1>5
<1> QED
  BY <1>2, <1>3, <1>4, <1>5, <1>6, <1>7, QuietStep

\* The head is that of the cached ledger, so both are the same.
LEMMA ReadHeadStep ==
    ASSUME LedgerInv, NEW t \in Tabs, ReadHead(t)
    PROVE  LedgerInv'
<1>1. CASE HeadOf(ledger) # HeadOf(cache[t].log)
  <2>1. Retry(t) /\ UNCHANGED <<ledger, revision, confirmed>> /\ transaction[t].pc # "none"
    BY <1>1 DEF ReadHead
  <2> QED
    BY <2>1, RetryStep
<1>2. CASE HeadOf(ledger) = HeadOf(cache[t].log)
  <2> DEFINE next == [transaction[t] EXCEPT !.pc = "commit"]
  <2>1. transaction[t] \in Transactions /\ ledger \in Chains
    BY ActiveType DEF ReadHead, LedgerInv, LedgerTypes
  <2>2. /\ next \in Transactions /\ next.pc = "commit"
        /\ next.revision = transaction[t].revision /\ next.key = transaction[t].key
    BY <2>1 DEF Transactions
  <2>3. transaction' = [transaction EXCEPT ![t] = next]
        /\ UNCHANGED <<ledger, revision, confirmed>>
    BY <1>2 DEF ReadHead
  <2>4. cache' = [cache EXCEPT ![t] = cache[t]]
    BY <1>2 DEF ReadHead, LedgerInv, LedgerTypes
  <2>5. /\ cache[t] \in [loaded : BOOLEAN, log : Chains] /\ Begins(cache[t].log, ledger)
        /\ transaction[t].key \notin KeysIn(cache[t].log)
        /\ transaction[t].revision <= revision
    BY DEF LedgerInv, LedgerTypes, CacheBegins, KeyIsNew, Planned, ReadHead, RevisionWasRead
  <2>6. cache[t].log = ledger
    BY <1>2, <2>1, <2>5, SameHead
  <2> HIDE DEF next
  <2> QED
    BY <2>1, <2>2, <2>3, <2>4, <2>5, <2>6, QuietStep
<1> QED
  BY <1>1, <1>2

LEMMA CommitStep ==
    ASSUME LedgerInv, NEW t \in Tabs, CommitLedger(t) \/ LoseAnswer(t)
    PROVE  /\ LedgerInv'
           /\ ledger' = Append(ledger, CommitOn(ledger, transaction[t]))
           /\ transaction[t] \in Transactions
           /\ transaction[t].key \notin KeysIn(ledger)
<1>1. /\ transaction[t] \in Transactions /\ ledger \in Chains
      /\ cache[t].log = ledger
      /\ ledger' = Append(ledger, CommitOn(cache[t].log, transaction[t]))
      /\ Appended(t)
  BY ActiveType DEF CommitLedger, LoseAnswer, Appended, LedgerInv, LedgerTypes, CacheIsLedger
<1>2. ledger' \in Chains
  BY <1>1, CommitType DEF Chains
<1>3. CASE CommitLedger(t)
  <2>1. Cached(ledger') \in [loaded : BOOLEAN, log : Chains] /\ Begins(Cached(ledger').log, ledger')
    BY <1>2, BeginsSelf DEF Cached
  <2>2. cache' = [cache EXCEPT ![t] = Cached(ledger')]
        /\ confirmed' = confirmed \cup {<<transaction[t].key, transaction[t].payload>>}
    BY <1>3 DEF CommitLedger
  <2> QED
    BY <1>1, <2>1, <2>2, AppendStep
<1>4. CASE LoseAnswer(t)
  <2>1. cache' = [cache EXCEPT ![t] = NoCache] /\ confirmed' = confirmed
    BY <1>4 DEF LoseAnswer
  <2> QED
    BY <1>1, <1>2, <2>1, NoCacheFits, AppendStep
<1> QED
  BY <1>3, <1>4

\* Steps that only end the transaction of a tab, with its cache or without.
LEMMA EndStep ==
    ASSUME LedgerInv, NEW t \in Tabs, FailCommit(t) \/ Abort(t) \/ Reload(t)
    PROVE  LedgerInv'
<1>1. UNCHANGED <<ledger, revision, confirmed>>
      /\ transaction' = [transaction EXCEPT ![t] = NoTransaction]
  BY DEF FailCommit, Abort, Reload, Finish
<1>2. /\ cache[t] \in [loaded : BOOLEAN, log : Chains] /\ Begins(cache[t].log, ledger)
      /\ ledger \in Chains
  BY DEF LedgerInv, LedgerTypes, CacheBegins
<1>3. cache' = [cache EXCEPT ![t] = cache[t]] \/ cache' = [cache EXCEPT ![t] = NoCache]
  BY DEF FailCommit, Abort, Reload, LedgerInv, LedgerTypes
<1> QED
  BY <1>1, <1>2, <1>3, NoCacheFits, NoTransactionIdle, QuietStep

LEMMA GraphWriteStep ==
    ASSUME LedgerInv, GraphWrite
    PROVE  LedgerInv'
<1> USE DEF LedgerInv, GraphWrite
<1>1. revision \in Nat /\ revision' = revision + 1
  BY DEF LedgerTypes
<1>2. ASSUME NEW t \in Tabs, transaction[t].pc \in {"head", "commit"}
      PROVE  transaction[t].revision <= revision /\ transaction[t].revision \in Nat
  BY <1>2, ActiveType DEF RevisionWasRead, Transactions
<1>3. LedgerTypes' /\ CacheBegins' /\ KeyIsNew'
  BY <1>1 DEF LedgerTypes, CacheBegins, KeyIsNew, Planned
<1>4. RevisionWasRead'
  BY <1>1, <1>2 DEF RevisionWasRead
<1>5. CacheIsLedger'
  BY <1>1, <1>2 DEF CacheIsLedger, Unmoved
<1>6. ChainIntact' /\ ConfirmedStored'
  BY DEF ChainIntact, ConfirmedStored
<1> QED
  BY <1>3, <1>4, <1>5, <1>6

LEMMA LedgerInvNext == LedgerInv /\ [LedgerNext]_ledgerVars => LedgerInv'
<1> SUFFICES ASSUME LedgerInv, [LedgerNext]_ledgerVars PROVE LedgerInv'
  OBVIOUS
<1>1. CASE UNCHANGED ledgerVars
  BY <1>1 DEF ledgerVars, LedgerInv, LedgerTypes, CacheBegins, KeyIsNew, Planned,
              RevisionWasRead, CacheIsLedger, Unmoved, ChainIntact, ConfirmedStored
<1>2. CASE GraphWrite
  BY <1>2, GraphWriteStep
<1>3. ASSUME NEW t \in Tabs, TabStep(t) PROVE LedgerInv'
  <2>1. CASE \E k \in Keys, v \in Payloads : Transact(t, k, v)
    BY <2>1, RequestStep
  <2>2. CASE Load(t)
    BY <2>2, LoadStep
  <2>3. CASE ReadRevision(t)
    BY <2>3, ReadRevisionStep
  <2>4. CASE ReadHead(t)
    BY <2>4, ReadHeadStep
  <2>5. CASE CommitLedger(t) \/ LoseAnswer(t)
    BY <2>5, CommitStep
  <2>6. CASE Conflict(t)
    <3>1. Retry(t) /\ UNCHANGED <<ledger, revision, confirmed>> /\ transaction[t].pc # "none"
      BY <2>6 DEF Conflict
    <3> QED
      BY <3>1, RetryStep
  <2>7. CASE FailCommit(t) \/ Abort(t) \/ Reload(t)
    BY <2>7, EndStep
  <2> QED
    BY <1>3, <2>1, <2>2, <2>3, <2>4, <2>5, <2>6, <2>7 DEF TabStep
<1> QED
  BY <1>1, <1>2, <1>3 DEF LedgerNext

-----------------------------------------------------------------------------
(* The theorems                                                             *)

\* The invariant holds: a tab past the check of the head holds, as long as the
\* store has not moved, the ledger that is stored.
THEOREM LedgerInvariant == LedgerSpec => []LedgerInv
BY LedgerInvInit, LedgerInvNext, PTL DEF LedgerSpec

\* The stored chain can always be read back.
THEOREM ChainStaysIntact == LedgerSpec => []ChainIntact
BY LedgerInvariant, PTL DEF LedgerInv

LEMMA LogStep == LedgerInv /\ [LedgerNext]_ledgerVars => [Log!Next]_<<ledger, confirmed>>
<1> SUFFICES ASSUME LedgerInv, LedgerNext, <<ledger, confirmed>>' # <<ledger, confirmed>>
             PROVE  Log!Next
  BY DEF ledgerVars
<1>1. ~GraphWrite
  BY DEF GraphWrite
<1>2. PICK t \in Tabs : TabStep(t)
  BY <1>1 DEF LedgerNext
<1>3. Load(t) \/ CommitLedger(t) \/ LoseAnswer(t)
  BY <1>2 DEF TabStep, Transact, ReadRevision, ReadHead, Conflict, FailCommit, Abort, Reload
<1>4. CASE Load(t)
  <2> DEFINE tx == transaction[t]
             l  == IF tx.attempt = 1 /\ cache[t].loaded THEN cache[t].log ELSE ledger
  <2>1. /\ Replays(l, tx) /\ ledger' = ledger
        /\ confirmed' = confirmed \cup {<<tx.key, tx.payload>>}
    BY <1>4 DEF Load
  <2>2. l \in Chains /\ Begins(l, ledger) /\ ledger \in Chains
    BY BeginsSelf DEF LedgerInv, LedgerTypes, CacheBegins
  <2>3. PICK i \in DOMAIN l : l[i].key = tx.key /\ l[i].payload = tx.payload
    BY <2>1 DEF Replays
  <2> HIDE DEF l, tx
  <2>4. i \in DOMAIN ledger /\ ledger[i] = l[i]
    BY <2>2 DEF Begins, Chains
  <2>5. Log!Confirm(i)
    BY <2>1, <2>3, <2>4 DEF Log!Confirm
  <2> QED
    BY <2>4, <2>5 DEF Log!Next
<1>5. CASE CommitLedger(t) \/ LoseAnswer(t)
  <2> DEFINE tx == transaction[t]
  <2>1. /\ ledger' = Append(ledger, CommitOn(ledger, tx))
        /\ tx \in Transactions /\ tx.key \notin KeysIn(ledger)
    BY <1>5, CommitStep
  <2>2. tx.key \in Keys /\ tx.payload \in Payloads
    BY <2>1 DEF Transactions
  <2>3. confirmed' \in {confirmed, confirmed \cup {<<tx.key, tx.payload>>}}
    BY <1>5 DEF CommitLedger, LoseAnswer
  <2> HIDE DEF tx
  <2>4. Log!Extend(tx.key, tx.payload)
    BY <2>1, <2>3 DEF Log!Extend, Log!Entry, Log!KeysOf, KeysIn, CommitOn
  <2> QED
    BY <2>2, <2>4 DEF Log!Next
<1> QED
  BY <1>3, <1>4, <1>5

\* The ledger implements the log: cached ledgers, retries, lost answers, reloads
\* and other writes to the store leave no trace in it.
THEOREM LedgerImplementsLog == LedgerSpec => LedgerIsALog
<1>1. LedgerInit => Log!Init
  BY DEF LedgerInit, Log!Init
<1> QED
  BY <1>1, LogStep, LedgerInvariant, PTL DEF LedgerSpec, LedgerIsALog, Log!Spec
=============================================================================
