--------------------------- MODULE PersistenceProofs ---------------------------
(***************************************************************************)
(* Theorems about GraphPersistence: what the open chat was told is durable  *)
(* is, a pending save has a retry, edits are kept, changes stay in their     *)
(* chat, and the store only grows; for all chats, changes and bounds.       *)
(*                                                                         *)
(* A write waits in a queue while chats are left, graphs replaced and other *)
(* writes committed.  The invariants say what still binds it to its chat, to*)
(* the graph in memory and to the revisions it will be compared with.       *)
(***************************************************************************)
EXTENDS GraphPersistence, SequenceTheorems, TLAPS

-----------------------------------------------------------------------------
(* Numbers and queues                                                       *)

LEMMA LargestPair ==
  ASSUME NEW m \in Nat, NEW n \in Nat
  PROVE  /\ Largest({m, n}) \in Nat
         /\ Largest({m, n}) >= m /\ Largest({m, n}) >= n
         /\ Largest({m, n}) = m \/ Largest({m, n}) = n
  <1>1. \E k \in {m, n} : \A l \in {m, n} : k >= l
    <2>1. CASE m >= n
      BY <2>1
    <2>2. CASE n >= m
      BY <2>2
    <2> QED
      BY <2>1, <2>2
  <1> QED
    BY <1>1 DEF Largest

LEMMA LargestOfFive ==
  ASSUME NEW a \in Nat, NEW b \in Nat, NEW c \in Nat, NEW d \in Nat, NEW e \in Nat
  PROVE  LET m == Largest({a, b, c, d, e})
         IN  /\ m \in Nat /\ m >= a /\ m >= b /\ m >= c /\ m >= d /\ m >= e
             /\ m \in {a, b, c, d, e}
  <1>1. \E k \in {a, b, c} : k >= a /\ k >= b /\ k >= c
    BY SMT
  <1>2. \E k \in {a, b, c, d, e} : k >= a /\ k >= b /\ k >= c /\ k >= d /\ k >= e
    BY <1>1, SMT
  <1>3. \E k \in {a, b, c, d, e} : \A l \in {a, b, c, d, e} : k >= l
    BY <1>2
  <1> QED
    BY <1>3 DEF Largest

\* The writes of a queue.
Elements(q) == {q[n] : n \in 1..Len(q)}

Waiting(c) == Elements(writes[c])

Final(q) == q[Len(q)]

LEMMA AppendElements ==
  ASSUME NEW S, NEW q \in Seq(S), NEW w \in S
  PROVE  /\ Append(q, w) \in Seq(S) /\ Append(q, w) # <<>>
         /\ Len(Append(q, w)) = Len(q) + 1
         /\ Elements(Append(q, w)) = Elements(q) \cup {w}
         /\ Final(Append(q, w)) = w
  <1>1. /\ Append(q, w) \in Seq(S) /\ Len(Append(q, w)) = Len(q) + 1 /\ Len(q) \in Nat
        /\ \A n \in 1..Len(q) : Append(q, w)[n] = q[n]
        /\ Append(q, w)[Len(q) + 1] = w
    OBVIOUS
  <1>2. Append(q, w) # <<>>
    BY <1>1
  <1>3. 1..Len(Append(q, w)) = 1..Len(q) \cup {Len(q) + 1}
    BY <1>1
  <1> QED
    BY <1>1, <1>2, <1>3 DEF Elements, Final

LEMMA TailElements ==
  ASSUME NEW S, NEW q \in Seq(S), q # <<>>
  PROVE  /\ Head(q) \in S /\ Tail(q) \in Seq(S) /\ Len(q) >= 1
         /\ Len(Tail(q)) = Len(q) - 1
         /\ \A n \in 1..Len(Tail(q)) : Tail(q)[n] = q[n + 1]
         /\ Elements(q) = {Head(q)} \cup Elements(Tail(q))
         /\ Tail(q) # <<>> => Final(Tail(q)) = Final(q)
         /\ Tail(q) = <<>> => Final(q) = Head(q)
  <1>1. /\ Head(q) \in S /\ Tail(q) \in Seq(S) /\ Len(q) \in Nat /\ Len(q) >= 1
        /\ Len(Tail(q)) = Len(q) - 1 /\ Head(q) = q[1]
        /\ \A n \in 1..Len(Tail(q)) : Tail(q)[n] = q[n + 1]
    OBVIOUS
  <1>2. Elements(q) \subseteq {Head(q)} \cup Elements(Tail(q))
    <2> SUFFICES ASSUME NEW n \in 1..Len(q), n # 1
                 PROVE  q[n] \in Elements(Tail(q))
      BY <1>1 DEF Elements
    <2>1. n - 1 \in 1..Len(Tail(q)) /\ Tail(q)[n - 1] = q[n]
      BY <1>1
    <2> QED
      BY <2>1 DEF Elements
  <1>3. {Head(q)} \cup Elements(Tail(q)) \subseteq Elements(q)
    BY <1>1 DEF Elements
  <1>4. Tail(q) # <<>> => Len(Tail(q)) \in 1..Len(Tail(q))
    BY <1>1
  <1>5. Tail(q) = <<>> => Len(q) = 1
    <2>1. ASSUME Tail(q) = <<>> PROVE Len(Tail(q)) = 0
      BY <2>1, EmptySeq, Zenon
    <2> QED
      BY <1>1, <2>1
  <1> QED
    BY <1>1, <1>2, <1>3, <1>4, <1>5 DEF Final

-----------------------------------------------------------------------------
(* Types                                                                    *)

Graph == [items : SUBSET Items, dirty : SUBSET Items, meta : BOOLEAN, base : Nat]

\* Dirty marks name changes the graph holds.
IsGraph(g) == g \in Graph /\ g.dirty \subseteq g.items

Kinds == {"save", "promote", "batch", "retry"}

Writes == [kind : Kinds, g : {g \in Graph : g.dirty \subseteq g.items}, rev : Nat,
           delta : SUBSET Items, mine : BOOLEAN]

Copies == [rev : Nat, items : SUBSET Items, base : Nat]

Records == [rev : Nat, items : SUBSET Items]

States == [revision : Nat, persisted : Nat, pending : BOOLEAN, queued : Nat,
           accepted : Nat, recoverable : BOOLEAN, load : {"loading", "loaded", "shadow"},
           locked : BOOLEAN, turnedAway : BOOLEAN]

Batches == [phase : {"none", "working", "saving"}, lease : Nat, mine : BOOLEAN,
            g : {g \in Graph : g.dirty \subseteq g.items}, delta : SUBSET Items]

OpenTyped == /\ chat \in Chats /\ lease \in 1..MaxVisits /\ timer \in 0..MaxVisits
             /\ auto \in BOOLEAN
             /\ IsGraph(live) /\ ps \in States

JobsTyped == /\ batch \in Batches
             /\ retry \in [on : BOOLEAN, chat : Chats, lease : Nat]
             /\ reading \in [on : BOOLEAN, chat : Chats, rev : Nat, items : SUBSET Items]

StoreTyped == /\ store \in [Chats -> Records]
              /\ shadow \in [Chats -> Copies] /\ metadata \in [Chats -> Copies]

QueueTyped == /\ writes \in [Chats -> Seq(Writes)]
              /\ \A c \in Chats : Len(writes[c]) <= MaxQueue
              /\ latest \in [Chats -> Nat]

LogTyped == /\ used \subseteq Items /\ reloaded \subseteq Chats /\ rebased \subseteq Chats
            /\ count \in [fails : Nat, loads : Nat]

Typed == OpenTyped /\ JobsTyped /\ StoreTyped /\ QueueTyped /\ LogTyped

Disown(w) == [w EXCEPT !.mine = FALSE]

LEMMA DisownedElements ==
  ASSUME NEW q \in Seq(Writes)
  PROVE  /\ Disowned(q) \in Seq(Writes) /\ Len(Disowned(q)) = Len(q)
         /\ Elements(Disowned(q)) = {Disown(w) : w \in Elements(q)}
         /\ \A n \in 1..Len(q) : Disowned(q)[n] = Disown(q[n])
         /\ q = <<>> <=> Disowned(q) = <<>>
  <1>1. Len(q) \in Nat /\ \A n \in 1..Len(q) : q[n] \in Writes
    OBVIOUS
  <1>2. \A w \in Writes : Disown(w) \in Writes
    BY DEF Disown, Writes
  <1>3. \A n \in 1..Len(q) : Disowned(q)[n] = Disown(q[n])
    BY DEF Disowned, Disown
  <1>4. Disowned(q) \in Seq(Writes) /\ Len(Disowned(q)) = Len(q)
    BY <1>1, <1>2, <1>3 DEF Disowned, Disown
  <1>5. Elements(Disowned(q)) = {Disown(w) : w \in Elements(q)}
    BY <1>3, <1>4 DEF Elements
  <1>6. q = <<>> <=> Disowned(q) = <<>>
    BY <1>4
  <1> QED
    BY <1>3, <1>4, <1>5, <1>6

LEMMA FloorBounds ==
  ASSUME Typed, NEW r \in Nat, NEW g \in Graph
  PROVE  /\ Floor(r, g) \in Nat
         /\ Floor(r, g) >= r /\ Floor(r, g) >= ps.revision
         /\ Floor(r, g) >= ps.persisted /\ Floor(r, g) >= ps.queued
         /\ Floor(r, g) >= g.base
         /\ Floor(r, g) \in {r, ps.revision, ps.persisted, ps.queued, g.base}
  <1>1. /\ ps.revision \in Nat /\ ps.persisted \in Nat /\ ps.queued \in Nat
        /\ g.base \in Nat
    BY DEF Typed, OpenTyped, States, Graph
  <1> QED
    BY <1>1, LargestOfFive DEF Floor

LEMMA AllocateBounds ==
  ASSUME Typed, NEW r \in Nat, NEW g \in Graph
  PROVE  Allocate(r, g) \in Nat /\ Allocate(r, g) = Floor(r, g) + 1
  <1>1. Floor(r, g) \in Nat
    BY FloorBounds
  <1> QED
    BY <1>1 DEF Allocate

\* The queue of c gets a write.
LEMMA Enqueued ==
  ASSUME Typed, NEW c \in Chats, NEW w \in Writes, Room(c), Enqueue(c, w)
  PROVE  /\ writes' \in [Chats -> Seq(Writes)]
         /\ \A d \in Chats : Len(writes'[d]) <= MaxQueue
         /\ \A d \in Chats \ {c} : writes'[d] = writes[d]
         /\ writes'[c] = Append(writes[c], w)
         /\ writes'[c] # <<>> /\ Final(writes'[c]) = w
         /\ Waiting(c)' = Waiting(c) \cup {w}
  <1>1. writes \in [Chats -> Seq(Writes)] /\ \A d \in Chats : Len(writes[d]) <= MaxQueue
    BY DEF Typed, QueueTyped
  <1>2. writes' = [writes EXCEPT ![c] = Append(writes[c], w)]
    BY DEF Enqueue
  <1>3. MaxQueue \in Nat
    BY PersistAssumption
  <1>4. /\ Append(writes[c], w) \in Seq(Writes) /\ Append(writes[c], w) # <<>>
        /\ Len(Append(writes[c], w)) <= MaxQueue
        /\ Elements(Append(writes[c], w)) = Elements(writes[c]) \cup {w}
        /\ Final(Append(writes[c], w)) = w
    BY <1>1, <1>3, AppendElements DEF Room
  <1>5. writes'[c] = Append(writes[c], w) /\ \A d \in Chats \ {c} : writes'[d] = writes[d]
    BY <1>1, <1>2
  <1>6. writes' \in [Chats -> Seq(Writes)]
    BY <1>1, <1>2, <1>4
  <1> QED
    BY <1>1, <1>4, <1>5, <1>6 DEF Waiting

\* The first write of the queue of c is taken out.
LEMMA PoppedQueue ==
  ASSUME Typed, NEW c \in Chats, writes[c] # <<>>
  PROVE  /\ Popped(c) \in [Chats -> Seq(Writes)]
         /\ \A d \in Chats : Len(Popped(c)[d]) <= MaxQueue
         /\ \A d \in Chats \ {c} : Popped(c)[d] = writes[d]
         /\ Popped(c)[c] = Tail(writes[c])
         /\ Head(writes[c]) \in Writes
         /\ Waiting(c) = {Head(writes[c])} \cup Elements(Popped(c)[c])
         /\ Popped(c)[c] # <<>> => Final(Popped(c)[c]) = Final(writes[c])
         /\ Popped(c)[c] = <<>> => Final(writes[c]) = Head(writes[c])
  <1>1. writes \in [Chats -> Seq(Writes)] /\ \A d \in Chats : Len(writes[d]) <= MaxQueue
    BY DEF Typed, QueueTyped
  <1>2. MaxQueue \in Nat
    BY PersistAssumption
  <1>3. /\ Head(writes[c]) \in Writes /\ Tail(writes[c]) \in Seq(Writes)
        /\ Len(Tail(writes[c])) <= MaxQueue
        /\ Elements(writes[c]) = {Head(writes[c])} \cup Elements(Tail(writes[c]))
        /\ Tail(writes[c]) # <<>> => Final(Tail(writes[c])) = Final(writes[c])
        /\ Tail(writes[c]) = <<>> => Final(writes[c]) = Head(writes[c])
    <2>1. writes[c] \in Seq(Writes) /\ Len(writes[c]) \in Nat
      BY <1>1
    <2> QED
      BY <1>1, <1>2, <2>1, TailElements
  <1>4. Popped(c)[c] = Tail(writes[c]) /\ \A d \in Chats \ {c} : Popped(c)[d] = writes[d]
    BY <1>1 DEF Popped
  <1>5. Popped(c) \in [Chats -> Seq(Writes)]
    BY <1>1, <1>3 DEF Popped
  <1> QED
    BY <1>1, <1>3, <1>4, <1>5 DEF Waiting

\* Whoever holds the graph in memory learns that it was replaced.
LEMMA DisownedQueues ==
  ASSUME NEW ws \in [Chats -> Seq(Writes)]
  PROVE  /\ AllDisowned(ws) \in [Chats -> Seq(Writes)]
         /\ \A c \in Chats :
               /\ Len(AllDisowned(ws)[c]) = Len(ws[c])
               /\ Elements(AllDisowned(ws)[c]) = {Disown(w) : w \in Elements(ws[c])}
               /\ \A n \in 1..Len(ws[c]) : AllDisowned(ws)[c][n] = Disown(ws[c][n])
               /\ ws[c] = <<>> <=> AllDisowned(ws)[c] = <<>>
               /\ ws[c] # <<>> => Final(AllDisowned(ws)[c]) = Disown(Final(ws[c]))
  <1>1. \A c \in Chats :
               /\ Disowned(ws[c]) \in Seq(Writes)
               /\ Len(Disowned(ws[c])) = Len(ws[c])
               /\ Elements(Disowned(ws[c])) = {Disown(w) : w \in Elements(ws[c])}
               /\ \A n \in 1..Len(ws[c]) : Disowned(ws[c])[n] = Disown(ws[c][n])
               /\ ws[c] = <<>> <=> Disowned(ws[c]) = <<>>
    BY DisownedElements
  <1>2. \A c \in Chats : ws[c] # <<>> => Len(ws[c]) \in 1..Len(ws[c])
    <2> SUFFICES ASSUME NEW c \in Chats, ws[c] # <<>>
                 PROVE  Len(ws[c]) \in 1..Len(ws[c])
      OBVIOUS
    <2>1. ws[c] \in Seq(Writes)
      OBVIOUS
    <2> QED
      BY <2>1, EmptySeq
  <1>3. \A c \in Chats : AllDisowned(ws)[c] = Disowned(ws[c])
    BY DEF AllDisowned
  <1> QED
    BY <1>1, <1>2, <1>3 DEF AllDisowned, Final

-----------------------------------------------------------------------------
(* Type correctness                                                         *)

LEMMA GraphsTyped ==
  ASSUME Typed
  PROVE  /\ live \in Graph /\ live.dirty \subseteq live.items
         /\ batch.g \in Graph /\ batch.g.dirty \subseteq batch.g.items
         /\ batch.delta \subseteq Items
         /\ \A c \in Chats : /\ store[c] \in Records
                             /\ shadow[c] \in Copies /\ metadata[c] \in Copies
                             /\ latest[c] \in Nat /\ writes[c] \in Seq(Writes)
         /\ reading.rev \in Nat /\ reading.items \subseteq Items
         /\ reading.chat \in Chats /\ retry.chat \in Chats
         /\ ps.revision \in Nat /\ ps.persisted \in Nat /\ ps.queued \in Nat
         /\ ps.accepted \in Nat
  BY DEF Typed, OpenTyped, IsGraph, JobsTyped, Batches, StoreTyped, QueueTyped, States

LEMMA CopyTyped ==
  ASSUME NEW r \in Nat, NEW g \in Graph
  PROVE  Copy(r, g) \in Copies
  BY DEF Copy, Copies, Graph

LEMMA LoadedTyped ==
  ASSUME NEW k, k.items \subseteq Items, NEW r \in Nat
  PROVE  /\ Loaded(k, r) \in Graph /\ Loaded(k, r).dirty = {}
         /\ Loaded(k, r).base = r /\ Loaded(k, r).items = k.items
         /\ Loaded(k, r).meta = FALSE
  BY DEF Loaded, Graph

LEMMA WriteTyped ==
  ASSUME NEW kind \in Kinds, NEW g \in Graph, g.dirty \subseteq g.items, NEW r \in Nat,
         NEW delta \in SUBSET Items, NEW mine \in BOOLEAN
  PROVE  /\ Write(kind, g, r, delta, mine) \in Writes
         /\ Write(kind, g, r, delta, mine).kind = kind
         /\ Write(kind, g, r, delta, mine).g = g
         /\ Write(kind, g, r, delta, mine).rev = r
         /\ Write(kind, g, r, delta, mine).delta = delta
         /\ Write(kind, g, r, delta, mine).mine = mine
  BY DEF Write, Writes

LEMMA WriteFields ==
  ASSUME NEW w \in Writes
  PROVE  /\ w.g \in Graph /\ w.g.dirty \subseteq w.g.items /\ w.rev \in Nat
         /\ w.kind \in Kinds /\ w.delta \subseteq Items /\ w.mine \in BOOLEAN
         /\ w.g.base \in Nat /\ w.g.items \subseteq Items /\ w.g.dirty \subseteq Items
         /\ w.g.meta \in BOOLEAN
  BY DEF Writes, Graph

LEMMA EditTyped ==
  ASSUME Typed, NEW i \in Edits, Edit(i)
  PROVE  Typed'
  <1> DEFINE g == [live EXCEPT !.items = @ \cup {i}, !.dirty = @ \cup {i}]
             r == Allocate(0, live)
             w == Write("save", g, r, {}, TRUE)
  <1>1. live' = g /\ g \in Graph /\ g.dirty \subseteq g.items
    BY GraphsTyped DEF Edit, Graph, Items
  <1>2. r \in Nat
    BY GraphsTyped, AllocateBounds
  <1>3. w \in Writes
    BY <1>1, <1>2, WriteTyped DEF Kinds
  <1>4. chat \in Chats /\ Room(chat) /\ Enqueue(chat, w)
    BY DEF Typed, OpenTyped, Edit
  <1>5. /\ writes' \in [Chats -> Seq(Writes)]
        /\ \A d \in Chats : Len(writes'[d]) <= MaxQueue
    BY <1>3, <1>4, Enqueued
  <1>6. latest' \in [Chats -> Nat]
    <2>1. Largest({latest[chat], r}) \in Nat
      BY <1>2, <1>4, GraphsTyped, LargestPair
    <2> QED
      BY <2>1, <1>4 DEF Typed, QueueTyped, Edit
  <1>7. shadow' \in [Chats -> Copies]
    <2>1. Copy(ps.revision, g) \in Copies
      BY <1>1, GraphsTyped, CopyTyped
    <2> QED
      BY <2>1, <1>4 DEF Typed, StoreTyped, Edit
  <1>8. OpenTyped'
    BY <1>1 DEF Typed, OpenTyped, IsGraph, States, Edit
  <1>9. JobsTyped'
    BY DEF Typed, JobsTyped, Edit, jobs
  <1>10. StoreTyped' /\ LogTyped'
    BY <1>7 DEF Typed, StoreTyped, LogTyped, Edit, Items
  <1> QED
    BY <1>5, <1>6, <1>8, <1>9, <1>10 DEF Typed, QueueTyped

LEMMA BatchTyped ==
  ASSUME Typed,
         (\E i \in Extracts : StartBatch(i)) \/ PersistBatch
  PROVE  Typed'
  <1>1. ASSUME NEW i \in Extracts, StartBatch(i)
        PROVE  Typed'
    <2>1. batch' \in Batches
      BY <1>1, GraphsTyped DEF StartBatch, Batches, Graph, Items, Typed, OpenTyped
    <2>2. JobsTyped'
      BY <1>1, <2>1 DEF Typed, JobsTyped, StartBatch
    <2> QED
      BY <1>1, <2>2 DEF Typed, OpenTyped, StoreTyped, QueueTyped, LogTyped, StartBatch,
                        memory, durable, Items
  <1>2. CASE PersistBatch
    <2> DEFINE r == Allocate(0, batch.g)
               w == Write("batch", batch.g, r, batch.delta, FALSE)
    <2>1. r \in Nat /\ chat \in Chats
      BY GraphsTyped, AllocateBounds DEF Typed, OpenTyped
    <2>2. w \in Writes
      BY <2>1, GraphsTyped, WriteTyped DEF Kinds
    <2>3. batch' \in Batches
      <3>1. NoBatch \in Batches
        BY DEF NoBatch, NoGraph, Batches, Graph
      <3>2. [batch EXCEPT !.phase = "saving"] \in Batches
        BY DEF Typed, JobsTyped, Batches
      <3> QED
        BY <1>2, <3>1, <3>2 DEF PersistBatch
    <2>4. QueueTyped'
      <3>1. CASE BatchCurrent
        BY <1>2, <2>1, <2>2, <3>1, Enqueued DEF PersistBatch, Typed, QueueTyped
      <3>2. CASE ~BatchCurrent
        BY <1>2, <3>2 DEF PersistBatch, Typed, QueueTyped
      <3> QED
        BY <3>1, <3>2
    <2> QED
      BY <1>2, <2>3, <2>4 DEF Typed, OpenTyped, StoreTyped, JobsTyped, LogTyped, PersistBatch,
                        memory, durable
  <1> QED
    BY <1>1, <1>2

\* Where a retry finds the graph it saves.
LEMMA RetrySourceFound ==
  ASSUME Typed, NEW c \in Chats
  PROVE  LET s == RetrySource(c) IN
         /\ s.g \in Graph /\ s.g.dirty \subseteq s.g.items
         /\ s.rev \in Nat /\ s.found \in BOOLEAN /\ s.mine \in BOOLEAN
         /\ c = chat => s.found
         /\ s.found /\ s.mine => c = chat
         /\ \/ s.g.items = live.items
            \/ s.g.items = shadow[c].items
            \/ s.g.items = metadata[chat].items
         /\ s.mine => s.g = live
         /\ ~s.mine => s.g.items = shadow[c].items \/ s.g.items = metadata[chat].items
         /\ ~s.mine /\ ~s.rebased =>
              \/ s.g.items = shadow[c].items /\ s.g.base = shadow[c].base
              \/ c = chat /\ s.g.items = metadata[c].items /\ s.g.base = metadata[c].base
  <1> DEFINE target == Largest({ps.queued, ps.revision})
             m == metadata[chat]
             Recovered(k, base, strange) ==
               [found |-> TRUE, mine |-> FALSE, rev |-> k.rev, g |-> Loaded(k, base),
                rebased |-> strange]
             last == [found |-> chat = c, mine |-> TRUE,
                      rev |-> Largest({target, live.base}), g |-> live, rebased |-> FALSE]
  <1>1. /\ shadow[c].rev \in Nat /\ shadow[c].base \in Nat /\ shadow[c].items \subseteq Items
        /\ m.rev \in Nat /\ m.items \subseteq Items
        /\ live.base \in Nat /\ live \in Graph /\ live.dirty \subseteq live.items
    BY GraphsTyped DEF Copies, Graph, Typed, OpenTyped
  <1>2. target \in Nat
    BY GraphsTyped, LargestPair
  <1>3. last.rev \in Nat
    BY <1>1, <1>2, LargestPair
  <1>4. \/ RetrySource(c) = Recovered(shadow[c], shadow[c].base, FALSE)
        \/ RetrySource(c) = Recovered(m, m.rev, m.rev # m.base \/ c # chat)
        \/ RetrySource(c) = last
    BY DEF RetrySource
  <1>5. CASE RetrySource(c) = Recovered(shadow[c], shadow[c].base, FALSE)
    <2> DEFINE g == Loaded(shadow[c], shadow[c].base)
    <2>1. g \in Graph /\ g.dirty = {} /\ g.items = shadow[c].items /\ g.base = shadow[c].base
      BY <1>1 DEF Loaded, Graph
    <2>2. /\ RetrySource(c).g = g /\ RetrySource(c).rev = shadow[c].rev
          /\ RetrySource(c).found = TRUE /\ RetrySource(c).mine = FALSE
      BY <1>5
    <2> HIDE DEF g
    <2> QED
      BY <1>1, <2>1, <2>2
  <1>6. CASE RetrySource(c) = Recovered(m, m.rev, m.rev # m.base \/ c # chat)
    <2> DEFINE g == Loaded(m, m.rev)
    <2>1. g \in Graph /\ g.dirty = {} /\ g.items = m.items /\ g.base = m.rev
      BY <1>1 DEF Loaded, Graph
    <2>2. /\ RetrySource(c).g = g /\ RetrySource(c).rev = m.rev
          /\ RetrySource(c).found = TRUE /\ RetrySource(c).mine = FALSE
          /\ RetrySource(c).rebased = (m.rev # m.base \/ c # chat)
      BY <1>6
    <2> HIDE DEF g
    <2> QED
      BY <1>1, <2>1, <2>2
  <1>7. CASE RetrySource(c) = last
    <2>1. /\ last.g = live /\ last.found = (chat = c) /\ last.mine = TRUE /\ last.rev \in Nat
      BY <1>3
    <2> HIDE DEF last
    <2> QED
      BY <1>1, <1>7, <2>1
  <1> QED
    BY <1>4, <1>5, <1>6, <1>7

Retried(c) ==
    LET s == RetrySource(c)
    IN  Write("retry", s.g, Largest({ps.queued, ps.revision, ps.persisted, s.rev, s.g.base}),
              {}, s.mine)

LEMMA RetriedIs ==
  ASSUME Typed, NEW c \in Chats
  PROVE  /\ Retried(c) \in Writes /\ Retried(c).kind = "retry" /\ Retried(c).delta = {}
         /\ Retried(c).g = RetrySource(c).g
         /\ RetrySource(c).found /\ Retried(c).mine => c = chat
         /\ Retried(c).mine => Retried(c).g = live
  <1> DEFINE s == RetrySource(c)
             r == Largest({ps.queued, ps.revision, ps.persisted, s.rev, s.g.base})
  <1>1. /\ s.g \in Graph /\ s.g.dirty \subseteq s.g.items /\ s.rev \in Nat
        /\ s.found \in BOOLEAN /\ s.mine \in BOOLEAN
        /\ s.found /\ s.mine => c = chat
        /\ s.mine => s.g = live
    BY RetrySourceFound
  <1>2. s.g.base \in Nat
    BY <1>1 DEF Graph
  <1>3. r \in Nat
    BY <1>1, <1>2, GraphsTyped, LargestOfFive
  <1>4. Retried(c) = Write("retry", s.g, r, {}, s.mine)
    BY DEF Retried
  <1>5. "retry" \in Kinds /\ {} \in SUBSET Items
    BY DEF Kinds
  <1> HIDE DEF s, r
  <1>6. /\ Retried(c) \in Writes /\ Retried(c).kind = "retry" /\ Retried(c).delta = {}
        /\ Retried(c).g = s.g /\ Retried(c).mine = s.mine
    BY <1>1, <1>3, <1>4, <1>5, WriteTyped
  <1> QED
    BY <1>1, <1>6 DEF s

\* A retry queues a write of its chat, or finds that this chat is not open.
LEMMA SaveRetriedEither ==
  ASSUME Typed, NEW c \in Chats, NEW t, SaveRetried(c, t)
  PROVE  \/ /\ Retried(c) \in Writes /\ Enqueue(c, Retried(c)) /\ timer' = t
            /\ RetrySource(c).found
            /\ Rebase(c, RetrySource(c).rebased) /\ reloaded' = reloaded \cup {c}
         \/ /\ c # chat /\ UNCHANGED <<writes, rebased, reloaded>>
            /\ timer' \in {t, IF ps.pending THEN lease ELSE 0}
  <1>1. /\ RetrySource(c).found \in BOOLEAN
        /\ c = chat => RetrySource(c).found
    BY RetrySourceFound
  <1>2. Retried(c) \in Writes
    BY RetriedIs
  <1>3. CASE RetrySource(c).found
    BY <1>2, <1>3 DEF SaveRetried, Retried
  <1>4. CASE ~RetrySource(c).found
    BY <1>1, <1>4 DEF SaveRetried
  <1> QED
    BY <1>3, <1>4

RetryStep == StartRetry \/ RetryNow \/ ContinueRetry

\* The chat a retry step saves, if it saves one.
Retries(c) ==
    /\ Room(c) /\ Retried(c) \in Writes /\ Enqueue(c, Retried(c)) /\ RetrySource(c).found
    /\ (c = chat /\ ~auto) \/ (c = retry.chat /\ retry.on)
    /\ Rebase(c, RetrySource(c).rebased) /\ reloaded' = reloaded \cup {c}

\* What the three ways to retry have in common.
LEMMA RetriesDo ==
  ASSUME Typed, RetryStep
  PROVE  /\ UNCHANGED <<chat, lease, auto, live, batch, reading, store, shadow, metadata,
                         latest, used, count>>
         /\ ps' = ps \/ (ps' = [ps EXCEPT !.turnedAway = TRUE] /\ timer = lease)
         /\ timer' \in {timer, 0, lease}
         /\ \/ retry' = retry
            \/ retry' = NoRetry
            \/ auto /\ retry' = [on |-> TRUE, chat |-> chat, lease |-> lease]
         /\ UNCHANGED <<writes, rebased, reloaded>> \/ \E c \in Chats : Retries(c)
  <1>1. chat \in Chats /\ retry.chat \in Chats
    BY GraphsTyped DEF Typed, OpenTyped
  <1>2. ASSUME NEW t \in {timer, 0}, RetrySave(t), Room(chat)
        PROVE  /\ timer' \in {timer, 0, lease}
               /\ retry' = retry \/ (auto /\ retry' = [on |-> TRUE, chat |-> chat, lease |-> lease])
               /\ UNCHANGED <<writes, rebased, reloaded>> \/ \E c \in Chats : Retries(c)
    <2>1. CASE auto
      BY <1>2, <2>1 DEF RetrySave
    <2>2. CASE ~auto
      <3>1. SaveRetried(chat, t) /\ retry' = retry
        BY <1>2, <2>2 DEF RetrySave
      <3> QED
        BY <1>1, <1>2, <2>2, <3>1, SaveRetriedEither DEF Retries
    <2> QED
      BY <2>1, <2>2
  <1>3. CASE StartRetry
    <2>1. UNCHANGED <<chat, lease, auto, live, batch, reading, store, shadow, metadata,
                      latest, used, count>> /\ timer = lease
      BY <1>3 DEF StartRetry, durable
    <2>2. CASE ps.locked \/ ~ps.pending
      <3>1. /\ UNCHANGED <<retry, writes, rebased, reloaded>> /\ timer' = 0
            /\ ps' = ps \/ ps' = [ps EXCEPT !.turnedAway = TRUE]
        BY <1>3, <2>2 DEF StartRetry
      <3> QED
        BY <2>1, <3>1
    <2>3. CASE ~ps.locked /\ ps.pending
      <3>1. RetrySave(0) /\ Room(chat) /\ ps' = ps
        BY <1>3, <2>3 DEF StartRetry, CanRetry
      <3> QED
        BY <1>2, <2>1, <3>1
    <2> QED
      BY <2>2, <2>3
  <1>4. CASE RetryNow
    <2>1. UNCHANGED <<chat, lease, auto, live, ps, batch, reading, store, shadow, metadata,
                      latest, used, count>>
      BY <1>4 DEF RetryNow, durable
    <2>2. RetrySave(timer) /\ Room(chat)
      BY <1>4 DEF RetryNow, CanRetry
    <2> QED
      BY <1>2, <2>1, <2>2
  <1>5. CASE ContinueRetry
    <2>1. /\ UNCHANGED <<chat, lease, auto, live, ps, batch, reading, store, shadow, metadata,
                         latest, used, count>>
          /\ SaveRetried(retry.chat, timer) /\ Room(retry.chat) /\ retry.on /\ retry' = NoRetry
      BY <1>5 DEF ContinueRetry, durable
    <2>2. \/ timer' = timer /\ Retries(retry.chat)
          \/ timer' \in {timer, 0, lease} /\ UNCHANGED <<writes, rebased, reloaded>>
      BY <1>1, <2>1, SaveRetriedEither DEF Retries
    <2> QED
      BY <1>1, <2>1, <2>2
  <1> QED
    BY <1>3, <1>4, <1>5 DEF RetryStep

LEMMA RetryTyped ==
  ASSUME Typed, RetryStep
  PROVE  Typed'
  <1>1. timer' \in 0..MaxVisits /\ ps' \in States
    <2>1. /\ lease \in 0..MaxVisits /\ timer \in 0..MaxVisits /\ 0 \in 0..MaxVisits
          /\ ps \in States
      BY PersistAssumption DEF Typed, OpenTyped
    <2>2. [ps EXCEPT !.turnedAway = TRUE] \in States
      BY <2>1 DEF States
    <2> QED
      BY <2>1, <2>2, RetriesDo
  <1>2. retry' \in [on : BOOLEAN, chat : Chats, lease : Nat]
    <2>1. chat \in Chats /\ lease \in Nat /\ retry \in [on : BOOLEAN, chat : Chats, lease : Nat]
      BY PersistAssumption DEF Typed, OpenTyped, JobsTyped
    <2>2. NoRetry \in [on : BOOLEAN, chat : Chats, lease : Nat]
      BY PersistAssumption DEF NoRetry
    <2>3. [on |-> TRUE, chat |-> chat, lease |-> lease] \in [on : BOOLEAN, chat : Chats, lease : Nat]
      BY <2>1
    <2> QED
      BY <2>1, <2>2, <2>3, RetriesDo
  <1>3. QueueTyped' /\ rebased' \subseteq Chats /\ reloaded' \subseteq Chats
    <2>1. latest' = latest /\ rebased \subseteq Chats /\ reloaded \subseteq Chats
      BY RetriesDo DEF Typed, LogTyped
    <2>2. CASE UNCHANGED <<writes, rebased, reloaded>>
      BY <2>1, <2>2 DEF Typed, QueueTyped
    <2>3. ASSUME NEW c \in Chats, Retries(c)
          PROVE  QueueTyped' /\ rebased' \subseteq Chats /\ reloaded' \subseteq Chats
      BY <2>1, <2>3, Enqueued DEF Retries, Rebase, Typed, QueueTyped
    <2> QED
      BY <2>2, <2>3, RetriesDo
  <1>4. UNCHANGED <<chat, lease, auto, live, batch, reading, store, shadow, metadata, used, count>>
    BY RetriesDo
  <1> QED
    BY <1>1, <1>2, <1>3, <1>4 DEF Typed, OpenTyped, JobsTyped, StoreTyped, LogTyped

LEMMA LockTyped ==
  ASSUME Typed, UseRestoreLock
  PROVE  Typed'
  BY DEF UseRestoreLock, Typed, OpenTyped, States, JobsTyped, StoreTyped, QueueTyped, LogTyped,
         jobs, durable

LEMMA FlushTyped ==
  ASSUME Typed, Flush
  PROVE  Typed'
  <1>1. Largest({ps.revision, ps.queued}) \in Nat
    BY GraphsTyped, LargestPair
  <1>2. Copy(Largest({ps.revision, ps.queued}), live) \in Copies /\ chat \in Chats
    BY <1>1, GraphsTyped, CopyTyped DEF Typed, OpenTyped
  <1>3. metadata' \in [Chats -> Copies] /\ ps' \in States
    BY <1>1, <1>2 DEF Flush, Typed, OpenTyped, StoreTyped, States
  <1> QED
    BY <1>3 DEF Flush, Typed, OpenTyped, JobsTyped, StoreTyped, QueueTyped, LogTyped, jobs

LEMMA SavedTyped ==
  ASSUME NEW g \in Graph, g.dirty \subseteq g.items, NEW w \in Writes, NEW r \in Nat
  PROVE  /\ AfterSave(g, w, r) \in Graph
         /\ AfterSave(g, w, r).dirty = g.dirty \ w.g.dirty
         /\ AfterSave(g, w, r).items = g.items
         /\ AfterSave(g, w, r).base = r
  BY WriteFields DEF AfterSave, Graph

\* What a commit makes of the store.
LEMMA CommitsTyped ==
  ASSUME Typed, NEW c \in Chats, NEW w \in Writes
  PROVE  /\ NextRev(c, w) \in Nat /\ NextRev(c, w) >= store[c].rev + 1
         /\ NextItems(c, w) \subseteq Items
         /\ NextItems(c, w) \subseteq store[c].items \cup w.delta \cup w.g.items
  <1>1. /\ store[c].rev \in Nat /\ store[c].items \subseteq Items
        /\ w.g \in Graph /\ w.g.dirty \subseteq w.g.items /\ w.rev \in Nat
        /\ w.delta \subseteq Items /\ w.g.items \subseteq Items /\ w.g.dirty \subseteq Items
        /\ live \in Graph
    BY GraphsTyped, WriteFields DEF Records
  <1>2. RequestedRevision(w) \in Nat
    BY <1>1, FloorBounds DEF RequestedRevision
  <1>3. Largest({store[c].rev + 1, RequestedRevision(w)}) \in Nat
        /\ Largest({store[c].rev + 1, RequestedRevision(w)}) >= store[c].rev + 1
    BY <1>1, <1>2, LargestPair
  <1>4. NextRev(c, w) \in Nat /\ NextRev(c, w) >= store[c].rev + 1
    BY <1>1, <1>3 DEF NextRev
  <1> QED
    BY <1>1, <1>4 DEF NextItems, Rebuilt

LEMMA CommitTyped ==
  ASSUME Typed, NEW c \in Chats, Commit(c)
  PROVE  Typed'
  <1> DEFINE w == Head(writes[c])
  <1>1. writes[c] # <<>> /\ w \in Writes
    BY PoppedQueue DEF Commit
  <1>2. NextRev(c, w) \in Nat /\ NextItems(c, w) \subseteq Items
    BY <1>1, CommitsTyped
  <1>3. /\ Popped(c) \in [Chats -> Seq(Writes)]
        /\ \A d \in Chats : Len(Popped(c)[d]) <= MaxQueue
    BY <1>1, PoppedQueue
  <1>4. /\ AllDisowned(Popped(c)) \in [Chats -> Seq(Writes)]
        /\ \A d \in Chats : Len(AllDisowned(Popped(c))[d]) <= MaxQueue
    BY <1>3, DisownedQueues
  <1>5. QueueTyped'
    BY <1>3, <1>4 DEF Commit, Typed, QueueTyped
  <1>6. ps' \in States /\ timer' \in 0..MaxVisits
    <2>1. Largest({ps.accepted, NextRev(c, w)}) \in Nat
      BY <1>2, GraphsTyped, LargestPair
    <2>2. Accept(c, w)
      BY DEF Commit
    <2>3. 0 \in 0..MaxVisits
      BY PersistAssumption
    <2> HIDE DEF w
    <2>4. CASE c # chat
      BY <2>2, <2>4 DEF Accept, Typed, OpenTyped
    <2>5. CASE c = chat
      <3>1. ps.load \in {"loading", "loaded", "shadow"} /\ ps \in States
        BY DEF Typed, OpenTyped, States
      <3> DEFINE r == NextRev(c, w)
                 l == IF ps.load = "shadow" THEN "loaded" ELSE ps.load
                 high == Largest({ps.accepted, r})
      <3>2. /\ timer' = 0
            /\ ps' = [ps EXCEPT !.revision = r, !.persisted = r, !.pending = FALSE,
                                !.queued = 0, !.accepted = high, !.recoverable = FALSE,
                                !.load = l]
        BY <2>2, <2>5 DEF Accept
      <3>3. r \in Nat /\ high \in Nat /\ l \in {"loading", "loaded", "shadow"}
        BY <1>2, <2>1, <3>1
      <3> HIDE DEF r, l, high
      <3> QED
        BY <2>3, <3>1, <3>2, <3>3 DEF States
    <2> QED
      BY <2>4, <2>5
  <1>7. IsGraph(live')
    <2>1. live \in Graph /\ live.dirty \subseteq live.items
      BY GraphsTyped
    <2>2. w.g \in Graph /\ w.g.dirty \subseteq w.g.items
      BY <1>1, WriteFields
    <2>3. IsGraph(AfterSave(live, w, NextRev(c, w)))
      BY <1>1, <1>2, <2>1, SavedTyped DEF IsGraph
    <2>4. IsGraph([w.g EXCEPT !.base = NextRev(c, w)])
      BY <1>2, <2>2 DEF IsGraph, Graph
    <2>5. IsGraph(Loaded(live, NextRev(c, w))) /\ IsGraph(Loaded(w.g, NextRev(c, w)))
      BY <1>2, <2>1, <2>2, LoadedTyped DEF IsGraph, Graph
    <2>6. w.kind \in {"batch", "retry"} => IsGraph(Published(c, w))
      BY <2>4, <2>5 DEF Published
    <2> QED
      BY <2>1, <2>3, <2>6 DEF Commit, Publishes, IsGraph
  <1>8. batch' \in Batches
    <2>1. NoBatch \in Batches
      BY DEF NoBatch, NoGraph, Batches, Graph
    <2>2. batch \in Batches /\ [batch EXCEPT !.mine = FALSE] \in Batches
      BY DEF Typed, JobsTyped, Batches
    <2> QED
      BY <2>1, <2>2 DEF Commit
  <1>9. store' \in [Chats -> Records]
    BY <1>2 DEF Commit, Records, Typed, StoreTyped
  <1>10. rebased' \subseteq Chats
    BY DEF Commit, Rebase, Typed, LogTyped
  <1> QED
    BY <1>5, <1>6, <1>7, <1>8, <1>9, <1>10 DEF Commit, Typed, OpenTyped, JobsTyped, StoreTyped, LogTyped

LEMMA SkipTyped ==
  ASSUME Typed, NEW c \in Chats, Skip(c)
  PROVE  Typed'
  BY PoppedQueue DEF Skip, Typed, OpenTyped, JobsTyped, StoreTyped, QueueTyped, LogTyped,
                     memory, jobs, durable

LEMMA QueuedTyped ==
  ASSUME Typed, NEW r \in Nat, NEW g \in Graph, Queued(r, g)
  PROVE  ps' \in States /\ timer' \in {timer, lease}
  <1>1. Allocate(r, g) \in Nat
    BY AllocateBounds
  <1>2. Largest({ps.queued, Allocate(r, g)}) \in Nat
    BY <1>1, GraphsTyped, LargestPair
  <1> QED
    BY <1>2 DEF Queued, PendingAt, States, Typed, OpenTyped

LEMMA FailWriteTyped ==
  ASSUME Typed, NEW c \in Chats, FailWrite(c)
  PROVE  Typed'
  <1> DEFINE w == Head(writes[c])
             k == Copy(w.rev, IF w.mine THEN live ELSE w.g)
  <1>1. writes[c] # <<>> /\ w \in Writes
    BY PoppedQueue DEF FailWrite
  <1>2. w.rev \in Nat /\ w.g \in Graph /\ k \in Copies
    BY <1>1, GraphsTyped, WriteFields, CopyTyped
  <1>3. QueueTyped'
    BY <1>1, PoppedQueue DEF FailWrite, Typed, QueueTyped
  <1>4. shadow' \in [Chats -> Copies] /\ metadata' \in [Chats -> Copies]
    <2>1. /\ shadow' \in {shadow, [shadow EXCEPT ![c] = k]}
          /\ metadata' \in {metadata, [metadata EXCEPT ![c] = k]}
      BY DEF FailWrite
    <2> HIDE DEF k
    <2> QED
      BY <1>2, <2>1 DEF Typed, StoreTyped
  <1>5. ps' \in States /\ timer' \in 0..MaxVisits
    <2>1. /\ lease \in 0..MaxVisits /\ timer \in 0..MaxVisits /\ ps \in States
      BY DEF Typed, OpenTyped
    <2>2. Queued(w.rev, w.g) \/ UNCHANGED <<ps, timer>>
      BY DEF FailWrite
    <2> QED
      BY <1>2, <2>1, <2>2, QueuedTyped
  <1>6. batch' \in Batches
    BY DEF FailWrite, NoBatch, NoGraph, Batches, Graph, Typed, JobsTyped
  <1>7. count' \in [fails : Nat, loads : Nat]
    BY DEF FailWrite, Fail, Typed, LogTyped
  <1> QED
    BY <1>3, <1>4, <1>5, <1>6, <1>7
       DEF FailWrite, Typed, OpenTyped, JobsTyped, StoreTyped, LogTyped

\* What another tab brings to a store.
LEMMA RemoteAdds ==
  ASSUME Typed, NEW i \in Foreign, RemoteCommit(i)
  PROVE  /\ Home[i] \in Chats
         /\ store' = [store EXCEPT ![Home[i]] = [rev |-> store[Home[i]].rev + 1,
                                                items |-> store[Home[i]].items \cup {i}]]
         /\ store'[Home[i]].rev = store[Home[i]].rev + 1
         /\ store'[Home[i]].items = store[Home[i]].items \cup {i}
         /\ store'[Home[i]] \in Records /\ store \in [Chats -> Records]
         /\ \A c \in Chats \ {Home[i]} : store'[c] = store[c]
  <1>1. Home[i] \in Chats /\ i \in Items
    BY PersistAssumption DEF Items
  <1>2. /\ store \in [Chats -> Records] /\ store[Home[i]].rev \in Nat
        /\ store[Home[i]].items \subseteq Items
    BY <1>1 DEF Typed, StoreTyped, Records
  <1>3. store' = [store EXCEPT ![Home[i]] = [rev |-> store[Home[i]].rev + 1,
                                             items |-> store[Home[i]].items \cup {i}]]
    BY DEF RemoteCommit
  <1> QED
    BY <1>1, <1>2, <1>3 DEF Records

LEMMA RemoteTyped ==
  ASSUME Typed, NEW i \in Foreign, RemoteCommit(i)
  PROVE  Typed'
  <1>1. store' \in [Chats -> Records]
    BY RemoteAdds DEF Typed, StoreTyped
  <1>2. used' \subseteq Items
    BY DEF RemoteCommit, Items, Typed, LogTyped
  <1> QED
    BY <1>1, <1>2 DEF RemoteCommit, Typed, OpenTyped, JobsTyped, StoreTyped, QueueTyped,
                      LogTyped, memory, jobs

LEMMA NothingTyped == IsGraph(NoGraph) /\ NoCopy \in Copies /\ Fresh \in States
                      /\ NoBatch \in Batches
  BY DEF IsGraph, NoGraph, Graph, NoCopy, Copies, Fresh, States, NoBatch, Batches

LEMMA EnterTyped ==
  ASSUME Typed, NEW c \in Chats, OpenChat(c)
  PROVE  Typed'
  <1>1. QueueTyped'
    BY DisownedQueues DEF OpenChat, Typed, QueueTyped
  <1>2. batch' \in Batches
    BY DEF OpenChat, Typed, JobsTyped, Batches
  <1>3. lease' \in 1..MaxVisits
    BY PersistAssumption DEF OpenChat, Typed, OpenTyped
  <1> QED
    BY <1>1, <1>2, <1>3, NothingTyped
       DEF OpenChat, Typed, OpenTyped, JobsTyped, StoreTyped, LogTyped, durable

LEMMA LoadReadTyped ==
  ASSUME Typed, LoadRead
  PROVE  Typed'
  <1>1. store[chat].rev \in Nat /\ store[chat].items \subseteq Items /\ chat \in Chats
    BY GraphsTyped DEF Records, Typed, OpenTyped
  <1>2. reading' \in [on : BOOLEAN, chat : Chats, rev : Nat, items : SUBSET Items]
    BY <1>1 DEF LoadRead
  <1>3. count' \in [fails : Nat, loads : Nat]
    BY DEF LoadRead, Typed, LogTyped
  <1> QED
    BY <1>2, <1>3 DEF LoadRead, Typed, OpenTyped, JobsTyped, StoreTyped, QueueTyped,
                      LogTyped, memory, durable

\* What a load does to the open chat, if it does anything.
Restores == RestoreShadow /\ LoadIsCurrent /\ shadow[chat].rev > reading.rev
            /\ reloaded' = Reloaded

Applies == ApplySnapshot /\ LoadIsCurrent /\ ~(shadow[chat].rev > reading.rev)
           /\ RuntimeRevision <= reading.rev /\ reloaded' = Reloaded /\ rebased' = rebased

Keeps == UNCHANGED <<live, ps, shadow, writes, batch, latest, reloaded, rebased>>

LEMMA LoadDoes ==
  ASSUME Typed, LoadApply
  PROVE  /\ Restores \/ Applies \/ Keeps
         /\ reading.on /\ reading' = NoReading
         /\ UNCHANGED <<chat, lease, auto, timer, retry, store, metadata, used, count>>
  <1>1. RuntimeRevision \in Nat /\ reading.rev \in Nat
    BY GraphsTyped, FloorBounds DEF RuntimeRevision
  <1> QED
    BY <1>1 DEF LoadApply, Restores, Applies, Keeps

\* The write a restored shadow queues.
Restored == Loaded(shadow[chat], shadow[chat].rev)

Promoted == Write("promote", Restored, shadow[chat].rev, {}, TRUE)

LEMMA PromotedIs ==
  ASSUME Typed
  PROVE  /\ Restored \in Graph /\ Restored.dirty = {} /\ Restored.meta = FALSE
         /\ Restored.items = shadow[chat].items /\ Restored.base = shadow[chat].rev
         /\ Promoted \in Writes /\ Promoted.kind = "promote" /\ Promoted.g = Restored
         /\ Promoted.rev = shadow[chat].rev /\ Promoted.delta = {} /\ Promoted.mine = TRUE
  <1>1. shadow[chat].rev \in Nat /\ shadow[chat].items \in SUBSET Items /\ chat \in Chats
    BY GraphsTyped DEF Copies, Typed, OpenTyped
  <1>2. /\ Restored \in Graph /\ Restored.dirty = {} /\ Restored.meta = FALSE
        /\ Restored.items = shadow[chat].items /\ Restored.base = shadow[chat].rev
    BY <1>1 DEF Restored, Loaded, Graph
  <1>3. Restored.dirty \subseteq Restored.items
    BY <1>2
  <1>4. /\ Promoted \in Writes /\ Promoted.kind = "promote" /\ Promoted.g = Restored
        /\ Promoted.rev = shadow[chat].rev /\ Promoted.delta = {} /\ Promoted.mine = TRUE
    BY <1>1, <1>2, <1>3 DEF Promoted, Write, Writes, Kinds
  <1> QED
    BY <1>2, <1>4

LEMMA RestoredQueue ==
  ASSUME Typed, Restores
  PROVE  /\ writes' \in [Chats -> Seq(Writes)]
         /\ \A c \in Chats : Len(writes'[c]) <= MaxQueue
         /\ \A c \in Chats \ {chat} : writes'[c] = AllDisowned(writes)[c]
         /\ writes'[chat] = Append(AllDisowned(writes)[chat], Promoted)
         /\ writes'[chat] # <<>> /\ Final(writes'[chat]) = Promoted
         /\ Elements(writes'[chat]) = {Disown(v) : v \in Waiting(chat)} \cup {Promoted}
         /\ \A c \in Chats \ {chat} : Elements(writes'[c]) = {Disown(v) : v \in Waiting(c)}
         /\ live' = Restored
  <1> DEFINE q == AllDisowned(writes)
  <1>1. chat \in Chats /\ Promoted \in Writes
    BY PromotedIs DEF Typed, OpenTyped
  <1>2. /\ q \in [Chats -> Seq(Writes)]
        /\ \A c \in Chats : /\ Len(q[c]) = Len(writes[c])
                            /\ Elements(q[c]) = {Disown(v) : v \in Waiting(c)}
    BY DisownedQueues DEF Typed, QueueTyped, Waiting
  <1>3. /\ writes' = [q EXCEPT ![chat] = Append(@, Promoted)] /\ live' = Restored
        /\ Room(chat)
    BY DEF Restores, RestoreShadow, Promoted, Restored
  <1> HIDE DEF q
  <1>4. /\ Append(q[chat], Promoted) \in Seq(Writes)
        /\ Append(q[chat], Promoted) # <<>>
        /\ Final(Append(q[chat], Promoted)) = Promoted
        /\ Len(Append(q[chat], Promoted)) <= MaxQueue
        /\ Elements(Append(q[chat], Promoted)) = Elements(q[chat]) \cup {Promoted}
    <2>1. Len(writes[chat]) \in Nat /\ MaxQueue \in Nat /\ q[chat] \in Seq(Writes)
      BY <1>1, <1>2, PersistAssumption DEF Typed, QueueTyped
    <2> QED
      BY <1>1, <1>2, <1>3, <2>1, AppendElements DEF Room
  <1>5. /\ writes'[chat] = Append(q[chat], Promoted)
        /\ \A c \in Chats \ {chat} : writes'[c] = q[c]
        /\ writes' \in [Chats -> Seq(Writes)]
    BY <1>1, <1>2, <1>3, <1>4
  <1>6. \A c \in Chats : Len(writes'[c]) <= MaxQueue
    BY <1>2, <1>4, <1>5 DEF Typed, QueueTyped
  <1> QED
    BY <1>1, <1>2, <1>3, <1>4, <1>5, <1>6 DEF q

LEMMA LoadApplyTyped ==
  ASSUME Typed, LoadApply
  PROVE  Typed'
  <1>1. reading' \in [on : BOOLEAN, chat : Chats, rev : Nat, items : SUBSET Items]
    <2> DEFINE k == CHOOSE c \in Chats : TRUE
    <2>1. k \in Chats
      BY PersistAssumption
    <2>2. NoReading = [on |-> FALSE, chat |-> k, rev |-> 0, items |-> {}]
      BY DEF NoReading
    <2> HIDE DEF k
    <2>3. NoReading \in [on : BOOLEAN, chat : Chats, rev : Nat, items : SUBSET Items]
      BY <2>1, <2>2
    <2> QED
      BY LoadDoes, <2>3
  <1>2. chat \in Chats /\ reading.rev \in Nat /\ reading.items \subseteq Items
        /\ ps \in States /\ batch \in Batches
    BY GraphsTyped DEF Typed, OpenTyped, JobsTyped
  <1>3. /\ IsGraph(live') /\ ps' \in States /\ batch' \in Batches /\ QueueTyped'
        /\ shadow' \in [Chats -> Copies] /\ reloaded' \subseteq Chats /\ rebased' \subseteq Chats
    <2>1. CASE Keeps
      BY <1>2, <2>1 DEF Keeps, Typed, OpenTyped, JobsTyped, QueueTyped, StoreTyped, LogTyped
    <2>2. /\ reloaded \subseteq Chats /\ Reloaded \subseteq Chats
          /\ rebased \subseteq Chats /\ rebased \cup {chat} \subseteq Chats
      BY <1>2 DEF Reloaded, Typed, LogTyped
    <2>3. [batch EXCEPT !.mine = FALSE] \in Batches
      BY <1>2 DEF Batches
    <2>4. CASE Restores
      <3> DEFINE s == shadow[chat]
      <3>1. s.rev \in Nat /\ ps.persisted \in Nat /\ ps.queued \in Nat /\ latest[chat] \in Nat
        BY <1>2, GraphsTyped DEF Copies
      <3>2. /\ Largest({ps.persisted, s.rev}) \in Nat /\ Largest({ps.queued, s.rev}) \in Nat
            /\ Largest({latest[chat], s.rev}) \in Nat
        BY <3>1, LargestPair
      <3>3. IsGraph(live')
        BY <2>4, RestoredQueue, PromotedIs DEF IsGraph
      <3>4. ps' \in States
        BY <1>2, <2>4, <3>1, <3>2 DEF Restores, RestoreShadow, States
      <3>5. latest' \in [Chats -> Nat]
        BY <2>4, <3>2 DEF Restores, RestoreShadow, Typed, QueueTyped
      <3>6. /\ shadow' = shadow /\ batch' = [batch EXCEPT !.mine = FALSE]
            /\ reloaded' = Reloaded /\ rebased' \in {rebased, rebased \cup {chat}}
        BY <2>4 DEF Restores, RestoreShadow, Rebase
      <3> QED
        BY <2>2, <2>3, <2>4, <3>3, <3>4, <3>5, <3>6, RestoredQueue
           DEF QueueTyped, Typed, StoreTyped
    <2>5. CASE Applies
      <3>1. /\ Largest({ps.persisted, reading.rev}) \in Nat
            /\ Largest({ps.accepted, reading.rev}) \in Nat
        BY <1>2, GraphsTyped, LargestPair
      <3>2. IsGraph(live')
        BY <1>2, <2>5, LoadedTyped DEF Applies, ApplySnapshot, IsGraph
      <3>3. ps' \in States
        BY <1>2, <2>5, <3>1 DEF Applies, ApplySnapshot, States
      <3>4. QueueTyped'
        BY <2>5, DisownedQueues DEF Applies, ApplySnapshot, Typed, QueueTyped
      <3>5. shadow' \in [Chats -> Copies]
        BY <2>5, NothingTyped DEF Applies, ApplySnapshot, Typed, StoreTyped
      <3>6. /\ batch' = [batch EXCEPT !.mine = FALSE]
            /\ reloaded' = Reloaded /\ rebased' = rebased
        BY <2>5 DEF Applies, ApplySnapshot
      <3> QED
        BY <2>2, <2>3, <3>2, <3>3, <3>4, <3>5, <3>6
    <2> QED
      BY <2>1, <2>4, <2>5, LoadDoes
  <1> QED
    BY <1>1, <1>3, LoadDoes DEF Typed, OpenTyped, JobsTyped, StoreTyped, LogTyped

LEMMA TypedInit == PersistInit => Typed
  <1> SUFFICES ASSUME PersistInit PROVE Typed
    OBVIOUS
  <1>1. OpenTyped
    BY NothingTyped, PersistAssumption DEF PersistInit, OpenTyped
  <1>2. JobsTyped
    BY NothingTyped, PersistAssumption DEF PersistInit, JobsTyped, NoRetry, NoReading
  <1>3. StoreTyped
    BY NothingTyped DEF PersistInit, StoreTyped, Records
  <1>4. QueueTyped
    BY EmptySeq, PersistAssumption DEF PersistInit, QueueTyped
  <1>5. LogTyped
    BY DEF PersistInit, LogTyped
  <1> QED
    BY <1>1, <1>2, <1>3, <1>4, <1>5 DEF Typed

LEMMA TypedStep == Typed /\ [PersistNext]_persistVars => Typed'
  <1> SUFFICES ASSUME Typed, [PersistNext]_persistVars PROVE Typed'
    OBVIOUS
  <1>1. CASE UNCHANGED persistVars
    BY <1>1 DEF persistVars, memory, jobs, durable, Typed, OpenTyped, JobsTyped, StoreTyped,
                QueueTyped, LogTyped
  <1>2. CASE PersistNext
    BY <1>2, EditTyped, BatchTyped, RetryTyped, LockTyped, FlushTyped, CommitTyped, SkipTyped,
       FailWriteTyped, RemoteTyped, EnterTyped, LoadReadTyped, LoadApplyTyped
       DEF PersistNext, RetryStep
  <1> QED
    BY <1>1, <1>2

\* Whatever is saved, refused, retried, loaded or left, state, copies and queues keep
\* their shape: the dirty marks of a graph name changes it holds, and no queue grows
\* beyond its bound.
THEOREM PersistTypeCorrect == PersistSpec => []PersistTypeOK
  <1>1. Typed => PersistTypeOK
    BY PersistAssumption DEF Typed, OpenTyped, QueueTyped, PersistTypeOK, IsGraph, Graph, States
  <1> QED
    BY <1>1, TypedInit, TypedStep, PTL DEF PersistSpec

-----------------------------------------------------------------------------
(* The writes that wait                                                     *)

\* What an edit and a batch queue.
Edited(i) == [live EXCEPT !.items = @ \cup {i}, !.dirty = @ \cup {i}]

SaveOf(i) == Write("save", Edited(i), Allocate(0, live), {}, TRUE)

BatchWrite == Write("batch", batch.g, Allocate(0, batch.g), batch.delta, FALSE)

LEMMA SaveOfIs ==
  ASSUME Typed, NEW i \in Edits
  PROVE  /\ SaveOf(i) \in Writes /\ SaveOf(i).kind = "save" /\ SaveOf(i).g = Edited(i)
         /\ SaveOf(i).rev = Allocate(0, live) /\ SaveOf(i).delta = {} /\ SaveOf(i).mine = TRUE
         /\ Edited(i).items = live.items \cup {i} /\ Edited(i).dirty = live.dirty \cup {i}
         /\ Edited(i).base = live.base /\ Edited(i).meta = live.meta
         /\ Edited(i) \in Graph
  <1>1. live \in Graph /\ live.dirty \subseteq live.items /\ i \in Items
    BY GraphsTyped DEF Items
  <1>2. /\ Edited(i).items = live.items \cup {i} /\ Edited(i).dirty = live.dirty \cup {i}
        /\ Edited(i).base = live.base /\ Edited(i).meta = live.meta
        /\ Edited(i) \in Graph
    BY <1>1 DEF Edited, Graph
  <1>3. Edited(i).dirty \subseteq Edited(i).items
    BY <1>1, <1>2
  <1>4. Allocate(0, live) \in Nat
    BY <1>1, AllocateBounds
  <1>5. /\ SaveOf(i) \in Writes /\ SaveOf(i).kind = "save" /\ SaveOf(i).g = Edited(i)
        /\ SaveOf(i).rev = Allocate(0, live) /\ SaveOf(i).delta = {} /\ SaveOf(i).mine = TRUE
    BY <1>2, <1>3, <1>4 DEF SaveOf, Write, Writes, Kinds
  <1> QED
    BY <1>2, <1>5

LEMMA BatchWriteIs ==
  ASSUME Typed
  PROVE  /\ BatchWrite \in Writes /\ BatchWrite.kind = "batch" /\ BatchWrite.g = batch.g
         /\ BatchWrite.delta = batch.delta /\ BatchWrite.mine = FALSE
         /\ BatchWrite.rev = Allocate(0, batch.g)
  <1>1. batch.g \in Graph /\ batch.g.dirty \subseteq batch.g.items /\ batch.delta \in SUBSET Items
    BY GraphsTyped
  <1>2. Allocate(0, batch.g) \in Nat
    BY <1>1, AllocateBounds
  <1> QED
    BY <1>1, <1>2 DEF BatchWrite, Write, Writes, Kinds

LEMMA DisownIs ==
  ASSUME NEW w \in Writes
  PROVE  /\ Disown(w) \in Writes /\ Disown(w).mine = FALSE
         /\ Disown(w).kind = w.kind /\ Disown(w).g = w.g /\ Disown(w).rev = w.rev
         /\ Disown(w).delta = w.delta
  BY DEF Disown, Writes

LEMMA WaitingTyped ==
  ASSUME Typed, NEW c \in Chats
  PROVE  Waiting(c) \subseteq Writes
  <1>1. writes[c] \in Seq(Writes)
    BY GraphsTyped
  <1>2. \A n \in 1..Len(writes[c]) : writes[c][n] \in Writes
    BY <1>1
  <1> QED
    BY <1>2 DEF Waiting, Elements

\* A write that waits after a step waited before, and is still of the graph in memory
\* only in the same chat, or it is one of the four a step can queue.
Stays(c, v) == \E u \in Waiting(c) : v = Disown(u) \/ (v = u /\ chat' = chat)

Queues(c, v) ==
    \/ \E i \in Edits : Edit(i) /\ c = chat /\ v = SaveOf(i)
    \/ PersistBatch /\ batch.phase = "working" /\ BatchCurrent /\ c = chat /\ v = BatchWrite
    \/ RetryStep /\ Retries(c) /\ v = Retried(c)
    \/ LoadApply /\ Restores /\ c = chat /\ v = Promoted

LEMMA PopsOnly ==
  ASSUME Typed, NEW c \in Chats, writes[c] # <<>>
  PROVE  \A d \in Chats :
           /\ Elements(Popped(c)[d]) \subseteq Waiting(d)
           /\ Elements(AllDisowned(Popped(c))[d]) \subseteq {Disown(u) : u \in Waiting(d)}
  <1>1. \A d \in Chats : Elements(Popped(c)[d]) \subseteq Waiting(d)
    BY PoppedQueue DEF Waiting
  <1>2. Popped(c) \in [Chats -> Seq(Writes)]
    BY PoppedQueue
  <1>3. \A d \in Chats :
          Elements(AllDisowned(Popped(c))[d]) = {Disown(u) : u \in Elements(Popped(c)[d])}
    BY <1>2, DisownedQueues
  <1> QED
    BY <1>1, <1>3

LEMMA QueueStep ==
  ASSUME Typed, PersistNext, NEW c \in Chats, NEW v \in Elements(writes'[c])
  PROVE  Stays(c, v) \/ Queues(c, v)
  <1>1. ASSUME UNCHANGED <<writes, chat>> PROVE Stays(c, v)
    BY <1>1 DEF Stays, Waiting
  <1>2. ASSUME NEW d \in Chats, writes[d] # <<>>, chat' = chat,
               writes' \in {Popped(d), AllDisowned(Popped(d))}
        PROVE  Stays(c, v)
    BY <1>2, PopsOnly DEF Stays
  <1>3. ASSUME writes' = AllDisowned(writes) PROVE Stays(c, v)
    <2>1. Elements(AllDisowned(writes)[c]) = {Disown(u) : u \in Elements(writes[c])}
      BY DisownedQueues DEF Typed, QueueTyped
    <2> QED
      BY <1>3, <2>1 DEF Stays, Waiting
  <1>4. ASSUME NEW d \in Chats, NEW w \in Writes, Room(d), Enqueue(d, w), chat' = chat
        PROVE  Stays(c, v) \/ (c = d /\ v = w)
    BY <1>4, Enqueued DEF Stays, Waiting
  <1>5. chat \in Chats /\ retry.chat \in Chats
    BY GraphsTyped DEF Typed, OpenTyped
  <1>6. CASE \E i \in Edits : Edit(i)
    <2> PICK i \in Edits : Edit(i)
      BY <1>6
    <2>1. SaveOf(i) \in Writes /\ Room(chat) /\ Enqueue(chat, SaveOf(i)) /\ chat' = chat
      BY SaveOfIs DEF Edit, SaveOf, Edited
    <2> QED
      BY <1>4, <1>5, <2>1 DEF Queues
  <1>7. CASE PersistBatch
    <2>1. CASE BatchCurrent
      <3>1. BatchWrite \in Writes /\ Room(chat) /\ Enqueue(chat, BatchWrite) /\ chat' = chat
        BY <1>7, <2>1, BatchWriteIs DEF PersistBatch, BatchWrite
      <3>2. batch.phase = "working"
        BY <1>7 DEF PersistBatch
      <3> QED
        BY <1>4, <1>5, <1>7, <2>1, <3>1, <3>2 DEF Queues
    <2>2. CASE ~BatchCurrent
      BY <1>1, <1>7, <2>2 DEF PersistBatch
    <2> QED
      BY <2>1, <2>2
  <1>8. CASE RetryStep
    <2>1. chat' = chat /\ (UNCHANGED writes \/ \E d \in Chats : Retries(d))
      BY <1>8, RetriesDo
    <2>2. CASE \E d \in Chats : Retries(d)
      <3> PICK d \in Chats : Retries(d)
        BY <2>2
      <3>1. Room(d) /\ Retried(d) \in Writes /\ Enqueue(d, Retried(d))
        BY DEF Retries
      <3> QED
        BY <1>4, <1>8, <2>1, <3>1 DEF Queues
    <2> QED
      BY <1>1, <2>1, <2>2
  <1>9. CASE UseRestoreLock
    BY <1>1, <1>9 DEF UseRestoreLock
  <1>10. CASE \E d \in Chats : Commit(d) \/ Skip(d) \/ FailWrite(d)
    BY <1>2, <1>10 DEF Commit, Skip, FailWrite
  <1>11. CASE \E d \in Chats : OpenChat(d)
    BY <1>3, <1>11 DEF OpenChat
  <1>12. CASE (\E i \in Extracts : StartBatch(i)) \/ Flush \/ LoadRead \/ \E i \in Foreign : RemoteCommit(i)
    BY <1>1, <1>12 DEF StartBatch, Flush, LoadRead, RemoteCommit
  <1>13. CASE LoadApply
    <2>1. chat' = chat
      BY <1>13 DEF LoadApply
    <2>2. CASE Restores
      <3>1. Elements(writes'[chat]) = {Disown(u) : u \in Waiting(chat)} \cup {Promoted}
            /\ \A d \in Chats \ {chat} : Elements(writes'[d]) = {Disown(u) : u \in Waiting(d)}
        BY <2>2, RestoredQueue
      <3> QED
        BY <1>13, <2>2, <3>1 DEF Stays, Queues
    <2>3. CASE Applies
      BY <1>3, <2>3 DEF Applies, ApplySnapshot
    <2>4. CASE Keeps
      BY <1>1, <2>1, <2>4 DEF Keeps
    <2> QED
      BY <1>13, <2>2, <2>3, <2>4, LoadDoes
  <1> QED
    BY <1>6, <1>7, <1>8, <1>9, <1>10, <1>11, <1>12, <1>13 DEF PersistNext, RetryStep
-----------------------------------------------------------------------------
(* Who speaks for the open chat                                             *)

\* The graph a waiting write was taken from is in memory only while its chat is open.
Owned == \A c \in Chats : \A v \in Waiting(c) : v.mine => c = chat

\* The store has reached the revision of a snapshot that was read from it.
SnapshotKnown == reading.on => reading.rev <= store[reading.chat].rev

\* A retry of this lease is a retry of this chat.
RetryKnown == /\ retry.on => auto /\ retry.lease <= lease
              /\ retry.on /\ retry.lease = lease => retry.chat = chat
              /\ timer <= lease /\ batch.lease <= lease

Handled == Owned /\ SnapshotKnown /\ RetryKnown /\ AcceptedIsDurable /\ PendingHasARetry

LEMMA QueuesHere ==
  ASSUME Typed, NEW c \in Chats, NEW v, Queues(c, v)
  PROVE  chat' = chat /\ v \in Writes /\ (v.mine => c = chat)
  <1>1. chat' = chat
    BY RetriesDo DEF Queues, Edit, PersistBatch, LoadApply
  <1>2. v \in Writes /\ (v.mine => c = chat)
    BY SaveOfIs, BatchWriteIs, RetriedIs, PromotedIs DEF Queues, Retries
  <1> QED
    BY <1>1, <1>2

LEMMA OwnedStep ==
  ASSUME Typed, PersistNext, Owned
  PROVE  Owned'
  <1> SUFFICES ASSUME NEW c \in Chats, NEW v \in Elements(writes'[c]), v.mine
               PROVE  c = chat'
    BY DEF Owned, Waiting
  <1>1. CASE Stays(c, v)
    <2> PICK u \in Waiting(c) : v = Disown(u) \/ (v = u /\ chat' = chat)
      BY <1>1 DEF Stays
    <2>1. u \in Writes
      BY WaitingTyped
    <2> QED
      BY <2>1, DisownIs DEF Owned
  <1>2. CASE Queues(c, v)
    BY <1>2, QueuesHere
  <1> QED
    BY <1>1, <1>2, QueueStep

\* A step leaves a store as it is or brings it to a higher revision.
LEMMA StoreAdvances ==
  ASSUME Typed, PersistNext, NEW c \in Chats
  PROVE  /\ store'[c].rev \in Nat /\ store[c].rev \in Nat /\ store'[c].rev >= store[c].rev
         /\ store'[c] = store[c] \/ store'[c].rev > store[c].rev
  <1>1. store[c].rev \in Nat /\ store \in [Chats -> Records]
    BY GraphsTyped DEF Records, Typed, StoreTyped
  <1>2. CASE \E d \in Chats : Commit(d)
    <2> PICK d \in Chats : Commit(d)
      BY <1>2
    <2> DEFINE w == Head(writes[d])
    <2>1. NextRev(d, w) \in Nat /\ NextRev(d, w) >= store[d].rev + 1
      BY PoppedQueue, CommitsTyped DEF Commit
    <2>2. store' = [store EXCEPT ![d] = [rev |-> NextRev(d, w), items |-> NextItems(d, w)]]
      BY DEF Commit
    <2> HIDE DEF w
    <2>3. CASE c = d
      BY <1>1, <2>1, <2>2, <2>3
    <2>4. CASE c # d
      BY <1>1, <2>2, <2>4
    <2> QED
      BY <2>3, <2>4
  <1>3. CASE \E i \in Foreign : RemoteCommit(i)
    <2> PICK i \in Foreign : RemoteCommit(i)
      BY <1>3
    <2>1. /\ store'[Home[i]].rev = store[Home[i]].rev + 1
          /\ \A d \in Chats \ {Home[i]} : store'[d] = store[d]
      BY RemoteAdds
    <2> QED
      BY <1>1, <2>1
  <1>4. CASE UNCHANGED store
    BY <1>1, <1>4
  <1>5. UNCHANGED store \/ (\E d \in Chats : Commit(d)) \/ \E i \in Foreign : RemoteCommit(i)
    BY RetriesDo DEF PersistNext, RetryStep, UseRestoreLock, Edit, StartBatch, PersistBatch,
       Flush, Skip, FailWrite, OpenChat, LoadRead, LoadApply, durable
  <1> QED
    BY <1>2, <1>3, <1>4, <1>5

LEMMA SnapshotStep ==
  ASSUME Typed, PersistNext, SnapshotKnown
  PROVE  SnapshotKnown'
  <1>1. UNCHANGED reading \/ LoadRead \/ LoadApply
    BY DEF PersistNext, Edit, StartBatch, PersistBatch, StartRetry, RetryNow, ContinueRetry, UseRestoreLock, Flush, Skip,
           FailWrite, OpenChat, Commit, RemoteCommit, jobs
  <1>2. CASE UNCHANGED reading
    <2>1. reading.chat \in Chats /\ reading.rev \in Nat
      BY GraphsTyped
    <2> QED
      BY <1>2, <2>1, StoreAdvances DEF SnapshotKnown
  <1>3. CASE LoadRead
    <2>1. /\ reading' = [on |-> TRUE, chat |-> chat, rev |-> store[chat].rev,
                         items |-> store[chat].items]
          /\ store' = store /\ store[chat].rev \in Nat
      BY <1>3, GraphsTyped DEF LoadRead, durable, Records, Typed, OpenTyped
    <2> QED
      BY <2>1 DEF SnapshotKnown
  <1>4. CASE LoadApply
    BY <1>4 DEF LoadApply, NoReading, SnapshotKnown
  <1> QED
    BY <1>1, <1>2, <1>3, <1>4

LEMMA RetryKnownStep ==
  ASSUME Typed, PersistNext, RetryKnown
  PROVE  RetryKnown'
  <1>1. /\ lease \in Nat /\ lease >= 1 /\ timer \in Nat /\ retry.lease \in Nat
        /\ batch.lease \in Nat
    BY PersistAssumption DEF Typed, OpenTyped, JobsTyped, Batches
  <1>2. CASE \E d \in Chats : OpenChat(d)
    BY <1>1, <1>2 DEF OpenChat, RetryKnown, Typed, JobsTyped, Batches
  <1>3. CASE ~\E d \in Chats : OpenChat(d)
    <2>1. UNCHANGED <<chat, lease, auto>>
      BY <1>3 DEF PersistNext, Edit, StartBatch, PersistBatch, StartRetry, RetryNow, ContinueRetry, UseRestoreLock, Flush,
             Skip, FailWrite, Commit, RemoteCommit, LoadRead, LoadApply
    <2>2. timer' \in {timer, 0, lease}
      <3>1. CASE RetryStep
        BY <3>1, RetriesDo
      <3>2. CASE \E d \in Chats : Commit(d) \/ FailWrite(d)
        BY <3>2 DEF Commit, Accept, FailWrite, Queued
      <3> QED
        BY <1>3, <3>1, <3>2 DEF PersistNext, RetryStep, UseRestoreLock, Edit, StartBatch,
           PersistBatch, Flush, Skip, RemoteCommit, LoadRead, LoadApply, memory
    <2>3. batch'.lease \in {batch.lease, 0, lease}
      <3>1. CASE LoadApply
        BY <3>1, LoadDoes DEF Restores, RestoreShadow, Applies, ApplySnapshot, Keeps,
           Typed, JobsTyped, Batches
      <3>2. CASE \E i \in Extracts : StartBatch(i)
        BY <3>2 DEF StartBatch
      <3>3. CASE PersistBatch
        <4>1. batch' = [batch EXCEPT !.phase = "saving"] \/ batch' = NoBatch
          BY <3>3 DEF PersistBatch
        <4> QED
          BY <4>1 DEF NoBatch, Typed, JobsTyped, Batches
      <3>4. CASE \E d \in Chats : Commit(d) \/ FailWrite(d)
        BY <3>4 DEF Commit, FailWrite, NoBatch, Typed, JobsTyped, Batches
      <3> QED
        BY <1>3, <3>1, <3>2, <3>3, <3>4 DEF PersistNext, Edit, StartRetry, RetryNow, ContinueRetry, UseRestoreLock,
           Flush, Skip, RemoteCommit, LoadRead, jobs
    <2>4. \/ retry' = retry
          \/ retry' = [on |-> TRUE, chat |-> chat, lease |-> lease] /\ auto
          \/ retry' = NoRetry
      <3>1. CASE LoadApply
        BY <3>1 DEF LoadApply
      <3>2. CASE RetryStep
        BY <3>2, RetriesDo
      <3> QED
        BY <1>3, <3>1, <3>2 DEF PersistNext, RetryStep, UseRestoreLock, Edit, StartBatch,
           PersistBatch, Flush, Skip, FailWrite, Commit, RemoteCommit, LoadRead, jobs
    <2>5. ~NoRetry.on
      BY DEF NoRetry
    <2> QED
      BY <1>1, <2>1, <2>2, <2>3, <2>4, <2>5 DEF RetryKnown
  <1> QED
    BY <1>2, <1>3

LEMMA AcceptedStep ==
  ASSUME Typed, PersistNext, SnapshotKnown, AcceptedIsDurable
  PROVE  AcceptedIsDurable'
  <1>1. /\ chat \in Chats /\ ps \in States /\ ps.accepted \in Nat /\ reading.rev \in Nat
        /\ ps.accepted <= store[chat].rev /\ store[chat].rev \in Nat
    BY GraphsTyped DEF Typed, OpenTyped, AcceptedIsDurable, Records
  <1>2. CASE \E d \in Chats : OpenChat(d)
    <2> PICK d \in Chats : OpenChat(d)
      BY <1>2
    <2>1. ps'.accepted = 0 /\ chat' = d /\ store' = store
      BY DEF OpenChat, Fresh, durable
    <2>2. store[d].rev \in Nat
      BY GraphsTyped DEF Records
    <2> QED
      BY <2>1, <2>2 DEF AcceptedIsDurable
  <1>3. CASE UNCHANGED chat /\ ps'.accepted = ps.accepted
    <2>1. store'[chat].rev \in Nat /\ store'[chat].rev >= store[chat].rev
      BY <1>1, StoreAdvances
    <2> QED
      BY <1>1, <1>3, <2>1 DEF AcceptedIsDurable
  <1>4. CASE \E d \in Chats : Commit(d)
    <2> PICK d \in Chats : Commit(d)
      BY <1>4
    <2> DEFINE w == Head(writes[d])
               r == NextRev(d, w)
    <2>1. r \in Nat /\ r >= store[d].rev + 1
      BY PoppedQueue, CommitsTyped DEF Commit
    <2>2. /\ store' = [store EXCEPT ![d] = [rev |-> r, items |-> NextItems(d, w)]]
          /\ chat' = chat /\ Accept(d, w)
      BY DEF Commit
    <2>3. CASE d # chat
      BY <1>3, <2>2, <2>3 DEF Accept
    <2>4. CASE d = chat
      <3>1. ps'.accepted = Largest({ps.accepted, r})
        BY <1>1, <2>2, <2>4 DEF Accept, States
      <3>2. Largest({ps.accepted, r}) = ps.accepted \/ Largest({ps.accepted, r}) = r
        BY <1>1, <2>1, LargestPair
      <3>3. store'[chat].rev = r
        <4> HIDE DEF w, r
        <4> QED
          BY <1>1, <2>2, <2>4 DEF Typed, StoreTyped
      <3> HIDE DEF w, r
      <3> QED
        BY <1>1, <2>1, <2>2, <2>4, <3>1, <3>2, <3>3 DEF AcceptedIsDurable
    <2> QED
      BY <2>3, <2>4
  <1>5. CASE LoadApply
    <2>1. CASE Keeps
      BY <1>3, <1>5, <2>1 DEF Keeps, LoadApply
    <2>2. CASE Restores
      <3>1. ps'.accepted = ps.accepted
        BY <1>1, <2>2 DEF Restores, RestoreShadow, States
      <3> QED
        BY <1>3, <1>5, <3>1 DEF LoadApply
    <2>3. CASE Applies
      <3>1. ps'.accepted = Largest({ps.accepted, reading.rev})
        BY <1>1, <2>3 DEF Applies, ApplySnapshot, States
      <3>2. Largest({ps.accepted, reading.rev}) \in {ps.accepted, reading.rev}
        BY <1>1, LargestPair
      <3>3. reading.rev <= store[chat].rev
        BY <1>5, <2>3 DEF Applies, LoadIsCurrent, LoadApply, SnapshotKnown
      <3>4. chat' = chat /\ store' = store
        BY <1>5 DEF LoadApply
      <3> QED
        BY <1>1, <3>1, <3>2, <3>3, <3>4 DEF AcceptedIsDurable
    <2> QED
      BY <1>5, <2>1, <2>2, <2>3, LoadDoes
  <1>6. CASE (\E i \in Edits : Edit(i)) \/ Flush \/ \E d \in Chats : FailWrite(d)
    BY <1>1, <1>3, <1>6 DEF Edit, Flush, FailWrite, Queued, PendingAt, States
  <1>9. CASE RetryStep \/ UseRestoreLock
    BY <1>1, <1>3, <1>9, RetriesDo DEF UseRestoreLock, States
  <1>7. CASE UNCHANGED <<ps, chat>>
    BY <1>3, <1>7
  <1>8. \/ UNCHANGED <<ps, chat>> \/ (\E i \in Edits : Edit(i)) \/ Flush \/ LoadApply
        \/ RetryStep \/ UseRestoreLock
        \/ \E d \in Chats : FailWrite(d) \/ Commit(d) \/ OpenChat(d)
    BY DEF PersistNext, RetryStep, StartBatch, PersistBatch, Skip, RemoteCommit, LoadRead, memory
  <1> QED
    BY <1>2, <1>4, <1>5, <1>6, <1>7, <1>8, <1>9

RetryQueued(q) == \E v \in Elements(q) : v.kind = "retry"

\* A retry leaves the queue only when it is committed or refused.
LEMMA RetriesStay ==
  ASSUME Typed, PersistNext, NEW c \in Chats, RetryQueued(writes[c])
  PROVE  RetryQueued(writes'[c]) \/ ((Commit(c) \/ FailWrite(c)) /\ Head(writes[c]).kind = "retry")
  <1> PICK u \in Waiting(c) : u.kind = "retry"
    BY DEF RetryQueued, Waiting
  <1>1. u \in Writes /\ Disown(u).kind = "retry"
    BY WaitingTyped, DisownIs
  <1>2. ASSUME u \in Elements(writes'[c]) \/ Disown(u) \in Elements(writes'[c])
        PROVE  RetryQueued(writes'[c])
    BY <1>1, <1>2 DEF RetryQueued
  <1>3. CASE writes' = writes
    BY <1>2, <1>3 DEF Waiting
  <1>4. ASSUME NEW d \in Chats, NEW w \in Writes, Room(d), Enqueue(d, w)
        PROVE  RetryQueued(writes'[c])
    <2>1. u \in Elements(writes'[c])
      BY <1>4, Enqueued DEF Waiting
    <2> QED
      BY <1>2, <2>1
  <1>5. ASSUME writes' = AllDisowned(writes) PROVE RetryQueued(writes'[c])
    <2>1. Elements(AllDisowned(writes)[c]) = {Disown(v) : v \in Elements(writes[c])}
      BY DisownedQueues DEF Typed, QueueTyped
    <2> QED
      BY <1>2, <1>5, <2>1 DEF Waiting
  <1>6. ASSUME NEW d \in Chats, writes[d] # <<>>,
               writes' \in {Popped(d), AllDisowned(Popped(d))}, c # d \/ u # Head(writes[d])
        PROVE  RetryQueued(writes'[c])
    <2>1. u \in Elements(Popped(d)[c])
      BY <1>6, PoppedQueue DEF Waiting
    <2>2. Popped(d) \in [Chats -> Seq(Writes)]
      BY <1>6, PoppedQueue
    <2>3. Elements(AllDisowned(Popped(d))[c]) = {Disown(v) : v \in Elements(Popped(d)[c])}
      BY <2>2, DisownedQueues
    <2> QED
      BY <1>2, <1>6, <2>1, <2>3
  <1>7. CASE \E i \in Edits : Edit(i)
    BY <1>4, <1>7, SaveOfIs DEF Edit, SaveOf, Edited, Typed, OpenTyped
  <1>8. CASE PersistBatch
    BY <1>3, <1>4, <1>8, BatchWriteIs DEF PersistBatch, BatchWrite, Typed, OpenTyped
  <1>9. CASE RetryStep
    <2>1. \/ writes' = writes
          \/ \E d \in Chats : Room(d) /\ Retried(d) \in Writes /\ Enqueue(d, Retried(d))
      BY <1>9, RetriesDo DEF Retries
    <2> QED
      BY <1>3, <1>4, <2>1
  <1>10. CASE \E d \in Chats : Skip(d)
    <2> PICK d \in Chats : Skip(d)
      BY <1>10
    <2>1. Head(writes[d]).kind # "retry" /\ writes[d] # <<>> /\ writes' = Popped(d)
      BY DEF Skip, Superseded
    <2> QED
      BY <1>6, <2>1
  <1>11. CASE \E d \in Chats : Commit(d) \/ FailWrite(d)
    <2> PICK d \in Chats : Commit(d) \/ FailWrite(d)
      BY <1>11
    <2>1. writes[d] # <<>> /\ writes' \in {Popped(d), AllDisowned(Popped(d))}
      BY DEF Commit, FailWrite
    <2> QED
      BY <1>6, <2>1
  <1>12. CASE LoadApply
    <2>1. CASE Restores
      <3>1. Disown(u) \in Elements(writes'[c])
        BY <2>1, RestoredQueue
      <3> QED
        BY <1>2, <3>1
    <2> QED
      BY <1>3, <1>5, <1>12, <2>1, LoadDoes DEF Applies, ApplySnapshot, Keeps
  <1>13. CASE \E d \in Chats : OpenChat(d)
    BY <1>5, <1>13 DEF OpenChat
  <1> QED
    BY <1>3, <1>7, <1>8, <1>9, <1>10, <1>11, <1>12, <1>13
       DEF PersistNext, RetryStep, UseRestoreLock, StartBatch, Flush, RemoteCommit, LoadRead

LEMMA RetryEnqueued ==
  ASSUME Typed, NEW t, SaveRetried(chat, t), Room(chat)
  PROVE  RetryQueued(writes'[chat])
  <1>1. chat \in Chats
    BY DEF Typed, OpenTyped
  <1> DEFINE w == Retried(chat)
  <1>2. w \in Writes /\ Enqueue(chat, w) /\ w.kind = "retry"
    BY <1>1, SaveRetriedEither, RetriedIs
  <1> HIDE DEF w
  <1>3. w \in Elements(writes'[chat])
    BY <1>1, <1>2, Enqueued DEF Waiting
  <1> QED
    BY <1>2, <1>3 DEF RetryQueued

\* The retry of a pending save, as PendingHasARetry counts them.
HasRetry == timer = lease \/ (retry.on /\ retry.lease = lease) \/ RetryQueued(writes[chat])

LEMMA PendingIs ==
  PendingHasARetry <=> (ps.pending /\ ~ps.turnedAway /\ ps.load = "loaded" => HasRetry)
  BY DEF PendingHasARetry, HasRetry, RetryQueued, Elements

LEMMA PendingStep ==
  ASSUME Typed, PersistNext, RetryKnown, PendingHasARetry
  PROVE  PendingHasARetry'
  <1> SUFFICES ASSUME ps'.pending, ~ps'.turnedAway, ps'.load = "loaded"
               PROVE  HasRetry'
    BY DEF PendingHasARetry, HasRetry, RetryQueued, Elements
  <1>1. chat \in Chats /\ ps \in States /\ lease \in Nat /\ lease >= 1
    BY PersistAssumption DEF Typed, OpenTyped
  <1>2. ~\E d \in Chats : OpenChat(d)
    BY DEF OpenChat, Fresh
  <1>3. UNCHANGED <<chat, lease>>
    BY <1>2 DEF PersistNext, Edit, StartBatch, PersistBatch, StartRetry, RetryNow, ContinueRetry, UseRestoreLock, Flush,
           Skip, FailWrite, Commit, RemoteCommit, LoadRead, LoadApply
  <1>4. ASSUME timer' = lease PROVE HasRetry'
    BY <1>3, <1>4 DEF HasRetry
  <1>5. ASSUME RetryQueued(writes'[chat]) PROVE HasRetry'
    BY <1>3, <1>5 DEF HasRetry
  <1>9. ASSUME \E r, g : Queued(r, g) PROVE timer' = lease
    <2> PICK r, g : Queued(r, g)
      BY <1>9
    <2>1. ps'.turnedAway = (ps.locked /\ timer # lease)
      BY <1>1 DEF Queued, PendingAt, States
    <2> QED
      BY <2>1 DEF Queued
  <1>6. ASSUME RetryQueued(writes[chat]) PROVE HasRetry'
    <2>1. ~Commit(chat)
      BY <1>1 DEF Commit, Accept, States
    <2>2. FailWrite(chat) /\ Head(writes[chat]).kind = "retry" => timer' = lease
      <3>1. FailWrite(chat) /\ Head(writes[chat]).kind = "retry" => \E r, g : Queued(r, g)
        BY DEF FailWrite
      <3> QED
        BY <1>9, <3>1
    <2> QED
      BY <1>1, <1>4, <1>5, <1>6, <2>1, <2>2, RetriesStay
  <1>7. ASSUME ps'.pending = ps.pending, ps'.load = ps.load, ps'.turnedAway = ps.turnedAway,
               UNCHANGED <<timer, retry>>
        PROVE  HasRetry'
    <2>1. HasRetry
      BY <1>7, PendingIs
    <2>2. CASE timer = lease \/ (retry.on /\ retry.lease = lease)
      BY <1>3, <1>7, <2>2 DEF HasRetry
    <2> QED
      BY <1>6, <2>1, <2>2 DEF HasRetry
  <1>8. CASE StartRetry \/ RetryNow
    <2>1. (RetrySave(0) \/ RetrySave(timer)) /\ Room(chat)
      <3>1. CASE StartRetry
        <4>1. ~ps.locked
          BY <1>1, <3>1 DEF StartRetry, States
        <4>2. ps.pending
          BY <3>1, <4>1 DEF StartRetry
        <4> QED
          BY <3>1, <4>1, <4>2 DEF StartRetry, CanRetry
      <3>2. CASE RetryNow
        BY <3>2 DEF RetryNow, CanRetry
      <3> QED
        BY <1>8, <3>1, <3>2
    <2>2. CASE auto
      BY <1>3, <2>1, <2>2 DEF RetrySave, HasRetry
    <2>3. CASE ~auto
      <3>1. SaveRetried(chat, 0) \/ SaveRetried(chat, timer)
        BY <2>1, <2>3 DEF RetrySave
      <3> QED
        BY <1>1, <1>5, <2>1, <3>1, RetryEnqueued
    <2> QED
      BY <2>2, <2>3
  <1>16. CASE ContinueRetry
    <2>1. /\ SaveRetried(retry.chat, timer) /\ Room(retry.chat) /\ retry.chat \in Chats
          /\ UNCHANGED ps
      BY <1>16, GraphsTyped DEF ContinueRetry
    <2>2. HasRetry
      BY <2>1, PendingIs
    <2>3. CASE retry.chat = chat
      <3>1. SaveRetried(chat, timer) /\ Room(chat)
        BY <2>1, <2>3
      <3> QED
        BY <1>1, <1>5, <3>1, RetryEnqueued
    <2>4. CASE retry.chat # chat
      <3>1. timer = lease \/ RetryQueued(writes[chat])
        BY <1>16, <2>2, <2>4 DEF HasRetry, RetryKnown, ContinueRetry
      <3>2. timer' = timer \/ timer' = lease
        BY <2>1, SaveRetriedEither
      <3> QED
        BY <1>4, <1>6, <3>1, <3>2
    <2> QED
      BY <2>3, <2>4
  <1>17. CASE UseRestoreLock
    BY <1>1, <1>7, <1>17 DEF UseRestoreLock, States, jobs
  <1>10. CASE \E d \in Chats : Commit(d)
    <2> PICK d \in Chats : Commit(d)
      BY <1>10
    <2>1. Accept(d, Head(writes[d])) /\ retry' = retry
      BY DEF Commit
    <2>2. d # chat
      BY <1>1, <2>1 DEF Accept, States
    <2> QED
      BY <1>7, <2>1, <2>2 DEF Accept
  <1>11. CASE \E d \in Chats : FailWrite(d)
    <2>1. (\E r, g : Queued(r, g)) \/ UNCHANGED <<ps, timer>>
      BY <1>11 DEF FailWrite
    <2> QED
      BY <1>4, <1>7, <1>9, <1>11, <2>1 DEF FailWrite
  <1>12. CASE LoadApply
    <2>1. CASE Restores
      BY <1>1, <2>1 DEF Restores, RestoreShadow, States
    <2>2. CASE Applies
      BY <1>1, <2>2 DEF Applies, ApplySnapshot, States
    <2>3. CASE Keeps
      BY <1>7, <1>12, <2>3 DEF Keeps, LoadApply
    <2> QED
      BY <1>12, <2>1, <2>2, <2>3, LoadDoes
  <1>13. CASE \E i \in Edits : Edit(i)
    BY <1>1, <1>13 DEF Edit, States
  <1>14. CASE Flush
    BY <1>1, <1>7, <1>14 DEF Flush, States, jobs
  <1>15. CASE UNCHANGED <<ps, timer, retry>>
    BY <1>7, <1>15
  <1> QED
    BY <1>2, <1>8, <1>10, <1>11, <1>12, <1>13, <1>14, <1>15, <1>16, <1>17
       DEF PersistNext, StartBatch, PersistBatch, LoadRead, Skip, RemoteCommit, memory, jobs

LEMMA HandledInit == PersistInit => Handled
  <1> SUFFICES ASSUME PersistInit PROVE Handled
    OBVIOUS
  <1>1. \A c \in Chats : Waiting(c) = {}
    BY EmptySeq DEF PersistInit, Waiting, Elements
  <1> QED
    BY <1>1, PersistAssumption DEF PersistInit, Handled, Owned, SnapshotKnown, RetryKnown,
       AcceptedIsDurable, PendingHasARetry, NoRetry, NoReading, NoBatch, Fresh

LEMMA HandledStep == Typed /\ Handled /\ [PersistNext]_persistVars => Handled'
  <1> SUFFICES ASSUME Typed, Handled, [PersistNext]_persistVars PROVE Handled'
    OBVIOUS
  <1>1. CASE UNCHANGED persistVars
    BY <1>1 DEF persistVars, memory, jobs, durable, Handled, Owned, Waiting, SnapshotKnown,
                RetryKnown, AcceptedIsDurable, PendingHasARetry
  <1>2. CASE PersistNext
    BY <1>2, OwnedStep, SnapshotStep, RetryKnownStep, AcceptedStep, PendingStep DEF Handled
  <1> QED
    BY <1>1, <1>2

\* The open chat is never told that a revision is accepted which its store has not
\* reached: a write of another chat that ends late, or a snapshot that was read while
\* another chat was open, does not speak for it.
THEOREM AcceptedRevisionsDurable == PersistSpec => []AcceptedIsDurable
  <1>1. Handled => AcceptedIsDurable
    BY DEF Handled
  <1> QED
    BY <1>1, TypedInit, TypedStep, HandledInit, HandledStep, PTL DEF PersistSpec

\* A pending save of a loaded chat always has somebody who will retry it, through
\* chats that are left and entered again while a retry waits for its binding.
THEOREM PendingSavesHaveRetries == PersistSpec => []PendingHasARetry
  <1>1. Handled => PendingHasARetry
    BY DEF Handled
  <1> QED
    BY <1>1, TypedInit, TypedStep, HandledInit, HandledStep, PTL DEF PersistSpec

-----------------------------------------------------------------------------
(* The batch in progress                                                    *)

BatchAt(ws, c, n) == n \in 1..Len(ws[c]) /\ ws[c][n].kind = "batch"

\* At most one write of a batch waits, that of the batch in progress; while that one is
\* of the graph in memory, its write waits in the queue of the open chat.
OneBatch ==
    /\ \A c \in Chats : \A n \in Nat :
         BatchAt(writes, c, n) => batch.phase = "saving" /\ (batch.mine => c = chat)
    /\ \A c, d \in Chats : \A n, m \in Nat :
         BatchAt(writes, c, n) /\ BatchAt(writes, d, m) => c = d /\ n = m

LEMMA BatchAtEnqueued ==
  ASSUME Typed, NEW d \in Chats, NEW w \in Writes, Room(d), Enqueue(d, w),
         NEW c \in Chats, NEW n \in Nat, BatchAt(writes', c, n)
  PROVE  BatchAt(writes, c, n) \/ (w.kind = "batch" /\ c = d /\ n = Len(writes[d]) + 1)
  <1>1. /\ writes'[d] = Append(writes[d], w) /\ \A e \in Chats \ {d} : writes'[e] = writes[e]
        /\ writes[d] \in Seq(Writes)
    BY Enqueued, GraphsTyped
  <1>2. CASE c # d
    BY <1>1, <1>2 DEF BatchAt
  <1>3. CASE c = d
    <2>1. /\ Len(writes[d]) \in Nat /\ Len(writes'[d]) = Len(writes[d]) + 1
          /\ \A k \in 1..Len(writes[d]) : writes'[d][k] = writes[d][k]
          /\ writes'[d][Len(writes[d]) + 1] = w
      BY <1>1
    <2>2. n \in 1..(Len(writes[d]) + 1) /\ writes'[d][n].kind = "batch"
      BY <1>3, <2>1 DEF BatchAt
    <2> QED
      BY <1>3, <2>1, <2>2 DEF BatchAt
  <1> QED
    BY <1>2, <1>3

LEMMA BatchAtPopped ==
  ASSUME Typed, NEW d \in Chats, writes[d] # <<>>,
         NEW c \in Chats, NEW n \in Nat, BatchAt(Popped(d), c, n)
  PROVE  IF c = d THEN BatchAt(writes, d, n + 1) /\ n >= 1 ELSE BatchAt(writes, c, n)
  <1>1. /\ Popped(d)[d] = Tail(writes[d]) /\ \A e \in Chats \ {d} : Popped(d)[e] = writes[e]
        /\ writes[d] \in Seq(Writes)
    BY PoppedQueue, GraphsTyped
  <1>2. CASE c # d
    BY <1>1, <1>2 DEF BatchAt
  <1>3. CASE c = d
    <2>1. /\ Len(writes[d]) \in Nat /\ Len(Tail(writes[d])) = Len(writes[d]) - 1
          /\ \A k \in 1..Len(Tail(writes[d])) : Tail(writes[d])[k] = writes[d][k + 1]
      BY <1>1, TailElements
    <2>2. n \in 1..Len(Tail(writes[d])) /\ Tail(writes[d])[n].kind = "batch"
      BY <1>1, <1>3 DEF BatchAt
    <2> QED
      BY <1>3, <2>1, <2>2 DEF BatchAt
  <1> QED
    BY <1>2, <1>3

LEMMA BatchAtDisowned ==
  ASSUME NEW ws \in [Chats -> Seq(Writes)], NEW c \in Chats, NEW n \in Nat,
         BatchAt(AllDisowned(ws), c, n)
  PROVE  BatchAt(ws, c, n)
  <1>1. /\ Len(AllDisowned(ws)[c]) = Len(ws[c])
        /\ \A k \in 1..Len(ws[c]) : AllDisowned(ws)[c][k] = Disown(ws[c][k])
    BY DisownedQueues
  <1>2. n \in 1..Len(ws[c]) /\ Disown(ws[c][n]).kind = "batch"
    BY <1>1 DEF BatchAt
  <1>3. ws[c] \in Seq(Writes)
    OBVIOUS
  <1>4. ws[c][n] \in Writes
    BY <1>2, <1>3
  <1> QED
    BY <1>2, <1>4, DisownIs DEF BatchAt

\* Queues that got no write of a batch, a batch that is still in its phase.
LEMMA OneBatchKept ==
  ASSUME OneBatch,
         \A c \in Chats : \A n \in Nat : BatchAt(writes', c, n) => BatchAt(writes, c, n),
         batch'.phase = batch.phase, batch'.mine => batch.mine /\ chat' = chat
  PROVE  OneBatch'
  <1>1. /\ \A c \in Chats : \A n \in Nat :
             BatchAt(writes', c, n) => batch'.phase = "saving" /\ (batch'.mine => c = chat')
        /\ \A c, d \in Chats : \A n, m \in Nat :
             BatchAt(writes', c, n) /\ BatchAt(writes', d, m) => c = d /\ n = m
    BY DEF OneBatch
  <1> QED
    BY <1>1 DEF OneBatch, BatchAt

LEMMA NoBatchAt ==
  ASSUME \A c \in Chats : \A n \in Nat : ~BatchAt(writes', c, n)
  PROVE  OneBatch'
  BY DEF OneBatch, BatchAt

\* The first write of a queue is taken out: if it is a batch, none is left.
LEMMA OneBatchPopped ==
  ASSUME Typed, OneBatch, NEW d \in Chats, writes[d] # <<>>, chat' = chat,
         writes' \in {Popped(d), AllDisowned(Popped(d))},
         Head(writes[d]).kind # "batch" =>
            batch'.phase = batch.phase /\ (batch'.mine => batch.mine)
  PROVE  OneBatch'
  <1>1. Popped(d) \in [Chats -> Seq(Writes)]
    BY PoppedQueue
  <1>2. \A c \in Chats : \A n \in Nat : BatchAt(writes', c, n) => BatchAt(Popped(d), c, n)
    BY <1>1, BatchAtDisowned
  <1>3. \A c \in Chats : \A n \in Nat : BatchAt(writes', c, n) =>
          IF c = d THEN BatchAt(writes, d, n + 1) /\ n >= 1 ELSE BatchAt(writes, c, n)
    BY <1>2, BatchAtPopped
  <1>4. CASE Head(writes[d]).kind = "batch"
    <2>1. BatchAt(writes, d, 1)
      BY <1>4, GraphsTyped, TailElements DEF BatchAt
    <2>2. ASSUME NEW c \in Chats, NEW n \in Nat, BatchAt(writes', c, n) PROVE FALSE
      <3>1. CASE c = d
        <4>1. BatchAt(writes, d, n + 1) /\ n >= 1 /\ n + 1 \in Nat /\ n + 1 # 1
          BY <1>3, <2>2, <3>1
        <4> QED
          BY <2>1, <4>1 DEF OneBatch
      <3>2. CASE c # d
        BY <1>3, <2>1, <2>2, <3>2 DEF OneBatch
      <3> QED
        BY <3>1, <3>2
    <2> QED
      BY <2>2, NoBatchAt
  <1>5. CASE Head(writes[d]).kind # "batch"
    <2>1. ASSUME NEW c \in Chats, NEW n \in Nat, BatchAt(writes', c, n)
          PROVE  batch'.phase = "saving" /\ (batch'.mine => c = chat')
      BY <1>3, <1>5, <2>1 DEF OneBatch
    <2>2. ASSUME NEW c \in Chats, NEW e \in Chats, NEW n \in Nat, NEW m \in Nat,
                 BatchAt(writes', c, n), BatchAt(writes', e, m)
          PROVE  c = e /\ n = m
      <3>1. IF c = d THEN BatchAt(writes, d, n + 1) ELSE BatchAt(writes, c, n)
        BY <1>3, <2>2
      <3>2. IF e = d THEN BatchAt(writes, d, m + 1) ELSE BatchAt(writes, e, m)
        BY <1>3, <2>2
      <3>3. n + 1 \in Nat /\ m + 1 \in Nat /\ (n + 1 = m + 1 => n = m)
        OBVIOUS
      <3> QED
        BY <3>1, <3>2, <3>3 DEF OneBatch
    <2> QED
      BY <2>1, <2>2 DEF OneBatch, BatchAt
  <1> QED
    BY <1>4, <1>5

LEMMA OneBatchStep ==
  ASSUME Typed, PersistNext, OneBatch
  PROVE  OneBatch'
  <1>1. /\ batch \in Batches /\ chat \in Chats /\ writes \in [Chats -> Seq(Writes)]
        /\ retry.chat \in Chats
    BY GraphsTyped DEF Typed, OpenTyped, JobsTyped, QueueTyped
  <1>2. CASE UNCHANGED <<chat, batch, writes>>
    BY <1>2, OneBatchKept
  <1>3. ASSUME NEW d \in Chats, NEW w \in Writes, Room(d), Enqueue(d, w), w.kind # "batch",
               UNCHANGED <<chat, batch>>
        PROVE  OneBatch'
    <2>1. \A c \in Chats : \A n \in Nat : BatchAt(writes', c, n) => BatchAt(writes, c, n)
      BY <1>3, BatchAtEnqueued
    <2> QED
      BY <1>3, <2>1, OneBatchKept
  <1>4. CASE \E i \in Edits : Edit(i)
    <2> PICK i \in Edits : Edit(i)
      BY <1>4
    <2>1. Room(chat) /\ Enqueue(chat, SaveOf(i)) /\ UNCHANGED <<chat, batch>>
      BY DEF Edit, SaveOf, Edited, jobs
    <2> QED
      BY <1>1, <1>3, <2>1, SaveOfIs
  <1>5. CASE \E i \in Extracts : StartBatch(i)
    <2>1. \A c \in Chats : \A n \in Nat : ~BatchAt(writes, c, n)
      BY <1>5 DEF StartBatch, NoBatch, OneBatch
    <2>2. writes' = writes
      BY <1>5 DEF StartBatch
    <2> QED
      BY <2>1, <2>2, NoBatchAt
  <1>6. CASE PersistBatch
    <2>1. \A c \in Chats : \A n \in Nat : ~BatchAt(writes, c, n)
      BY <1>6 DEF PersistBatch, OneBatch
    <2>2. CASE ~BatchCurrent
      BY <1>6, <2>1, <2>2, NoBatchAt DEF PersistBatch
    <2>3. CASE BatchCurrent
      <3>1. /\ Room(chat) /\ Enqueue(chat, BatchWrite)
            /\ batch' = [batch EXCEPT !.phase = "saving"] /\ chat' = chat
        BY <1>6, <2>3 DEF PersistBatch, BatchWrite
      <3>2. \A c \in Chats : \A n \in Nat :
              BatchAt(writes', c, n) => c = chat /\ n = Len(writes[chat]) + 1
        BY <1>1, <2>1, <3>1, BatchAtEnqueued, BatchWriteIs
      <3>3. batch'.phase = "saving"
        BY <1>1, <3>1 DEF Batches
      <3>4. /\ \A c \in Chats : \A n \in Nat :
                 BatchAt(writes', c, n) => batch'.phase = "saving" /\ (batch'.mine => c = chat')
            /\ \A c, d \in Chats : \A n, m \in Nat :
                 BatchAt(writes', c, n) /\ BatchAt(writes', d, m) => c = d /\ n = m
        BY <3>1, <3>2, <3>3
      <3> QED
        BY <3>4 DEF OneBatch, BatchAt
    <2> QED
      BY <2>2, <2>3
  <1>7. CASE RetryStep
    <2>1. UNCHANGED <<chat, batch>>
      BY <1>7, RetriesDo
    <2>2. \/ writes' = writes
          \/ \E d \in Chats : Room(d) /\ Retried(d) \in Writes /\ Enqueue(d, Retried(d))
      BY <1>7, RetriesDo DEF Retries
    <2>3. \A d \in Chats : Retried(d).kind # "batch"
      BY RetriedIs
    <2> QED
      BY <1>2, <1>3, <2>1, <2>2, <2>3
  <1>8. CASE \E d \in Chats : Commit(d) \/ Skip(d) \/ FailWrite(d)
    <2> PICK d \in Chats : Commit(d) \/ Skip(d) \/ FailWrite(d)
      BY <1>8
    <2>1. /\ writes[d] # <<>> /\ chat' = chat
          /\ writes' \in {Popped(d), AllDisowned(Popped(d))}
      BY DEF Commit, Skip, FailWrite
    <2>2. Head(writes[d]).kind # "batch" =>
            batch'.phase = batch.phase /\ (batch'.mine => batch.mine)
      <3>1. CASE Skip(d)
        BY <3>1 DEF Skip, jobs
      <3>2. CASE FailWrite(d)
        BY <3>2 DEF FailWrite
      <3>3. CASE Commit(d)
        <4>1. Head(writes[d]).kind # "batch" => batch' \in {batch, [batch EXCEPT !.mine = FALSE]}
          BY <3>3 DEF Commit
        <4> QED
          BY <1>1, <4>1 DEF Batches
      <3> QED
        BY <3>1, <3>2, <3>3
    <2> QED
      BY <2>1, <2>2, OneBatchPopped
  <1>9. ASSUME batch' = [batch EXCEPT !.mine = FALSE],
               \A c \in Chats : \A n \in Nat : BatchAt(writes', c, n) => BatchAt(writes, c, n)
        PROVE  OneBatch'
    <2>1. batch'.phase = batch.phase /\ batch'.mine = FALSE
      BY <1>1, <1>9 DEF Batches
    <2> QED
      BY <1>9, <2>1, OneBatchKept
  <1>10. CASE \E d \in Chats : OpenChat(d)
    BY <1>1, <1>9, <1>10, BatchAtDisowned DEF OpenChat
  <1>11. CASE LoadApply
    <2>1. CASE Keeps
      BY <1>2, <1>11, <2>1 DEF Keeps, LoadApply
    <2>2. CASE Applies
      BY <1>1, <1>9, <2>2, BatchAtDisowned DEF Applies, ApplySnapshot
    <2>3. CASE Restores
      <3>1. ASSUME NEW c \in Chats, NEW n \in Nat, BatchAt(writes', c, n)
            PROVE  BatchAt(writes, c, n)
        <4> DEFINE q == AllDisowned(writes)
        <4>1. /\ q \in [Chats -> Seq(Writes)]
              /\ writes'[chat] = Append(q[chat], Promoted)
              /\ \A e \in Chats \ {chat} : writes'[e] = q[e]
              /\ Promoted \in Writes /\ Promoted.kind = "promote"
          BY <1>1, <2>3, RestoredQueue, DisownedQueues, PromotedIs
        <4>2. BatchAt(q, c, n) => BatchAt(writes, c, n)
          BY <1>1, BatchAtDisowned
        <4> HIDE DEF q
        <4>3. CASE c # chat
          BY <3>1, <4>1, <4>2, <4>3 DEF BatchAt
        <4>4. CASE c = chat
          <5>1. /\ q[chat] \in Seq(Writes) /\ Len(q[chat]) \in Nat
                /\ Len(writes'[chat]) = Len(q[chat]) + 1
                /\ \A k \in 1..Len(q[chat]) : writes'[chat][k] = q[chat][k]
                /\ writes'[chat][Len(q[chat]) + 1] = Promoted
            BY <1>1, <4>1
          <5>2. n \in 1..(Len(q[chat]) + 1) /\ writes'[chat][n].kind = "batch"
            BY <3>1, <4>4, <5>1 DEF BatchAt
          <5>3. n \in 1..Len(q[chat]) /\ q[chat][n].kind = "batch"
            BY <4>1, <5>1, <5>2
          <5> QED
            BY <4>2, <4>4, <5>3 DEF BatchAt
        <4> QED
          BY <4>3, <4>4
      <3>2. batch' = [batch EXCEPT !.mine = FALSE]
        BY <2>3 DEF Restores, RestoreShadow
      <3> QED
        BY <1>9, <3>1, <3>2
    <2> QED
      BY <1>11, <2>1, <2>2, <2>3, LoadDoes
  <1>12. CASE Flush \/ LoadRead \/ UseRestoreLock \/ \E i \in Foreign : RemoteCommit(i)
    BY <1>2, <1>12 DEF Flush, LoadRead, UseRestoreLock, RemoteCommit, jobs
  <1> QED
    BY <1>4, <1>5, <1>6, <1>7, <1>8, <1>10, <1>11, <1>12 DEF PersistNext, RetryStep

-----------------------------------------------------------------------------
(* Every change stays in its chat                                           *)

From(S, c) == \A i \in S : Home[i] = c

CopiesHome == \A c \in Chats : /\ From(store[c].items, c)
                               /\ From(shadow[c].items, c) /\ From(metadata[c].items, c)

QueuesHome == \A c \in Chats : \A v \in Waiting(c) : From(v.g.items, c) /\ From(v.delta, c)

OpenHome ==
    /\ From(live.items, chat)
    /\ From(reading.items, reading.chat)
    /\ batch.lease = lease => From(batch.g.items, chat) /\ From(batch.delta, chat)

AllHome == CopiesHome /\ QueuesHome /\ OpenHome

\* Where a retry of the open chat finds its graph, and any load.
LEMMA SourceHome ==
  ASSUME Typed, AllHome
  PROVE  /\ From(RetrySource(chat).g.items, chat) /\ From(live.items, chat)
         /\ From(shadow[chat].items, chat) /\ chat \in Chats
  BY RetrySourceFound DEF AllHome, CopiesHome, OpenHome, Typed, OpenTyped

LEMMA QueuesHomeStep ==
  ASSUME Typed, PersistNext, RetryKnown, ~auto, AllHome
  PROVE  QueuesHome'
  <1> SUFFICES ASSUME NEW c \in Chats, NEW v \in Elements(writes'[c])
               PROVE  From(v.g.items, c) /\ From(v.delta, c)
    BY DEF QueuesHome, Waiting, From
  <1>1. CASE Stays(c, v)
    <2> PICK u \in Waiting(c) : v = Disown(u) \/ v = u
      BY <1>1 DEF Stays
    <2>1. u \in Writes
      BY WaitingTyped
    <2>2. v.g = u.g /\ v.delta = u.delta
      BY <2>1, DisownIs
    <2> QED
      BY <2>2 DEF AllHome, QueuesHome
  <1>2. CASE Queues(c, v)
    <2>1. CASE \E i \in Edits : Edit(i) /\ c = chat /\ v = SaveOf(i)
      <3> PICK i \in Edits : Edit(i) /\ c = chat /\ v = SaveOf(i)
        BY <2>1
      <3>1. v.g.items = live.items \cup {i} /\ v.delta = {} /\ Home[i] = chat
        BY SaveOfIs DEF Edit
      <3> QED
        BY <3>1, SourceHome DEF From
    <2>2. CASE BatchCurrent /\ c = chat /\ v = BatchWrite
      BY <2>2, BatchWriteIs DEF BatchCurrent, AllHome, OpenHome
    <2>3. CASE RetryStep /\ Retries(c) /\ v = Retried(c)
      <3>2. c = chat
        BY <2>3 DEF Retries, RetryKnown
      <3>1. v.g = RetrySource(chat).g /\ v.delta = {}
        BY <2>3, <3>2, RetriedIs, SourceHome
      <3> QED
        BY <3>1, <3>2, SourceHome DEF From
    <2>5. CASE c = chat /\ v = Promoted
      <3>1. v.g.items = shadow[chat].items /\ v.delta = {}
        BY <2>5, PromotedIs
      <3> QED
        BY <2>5, <3>1, SourceHome DEF From
    <2> QED
      BY <1>2, <2>1, <2>2, <2>3, <2>5 DEF Queues
  <1> QED
    BY <1>1, <1>2, QueueStep

\* What the first write of a queue may bring.
LEMMA HeadHome ==
  ASSUME Typed, Owned, AllHome, NEW d \in Chats, writes[d] # <<>>
  PROVE  /\ Head(writes[d]) \in Writes
         /\ From(Head(writes[d]).g.items, d) /\ From(Head(writes[d]).delta, d)
         /\ Head(writes[d]).mine => d = chat /\ From(live.items, d)
         /\ From(NextItems(d, Head(writes[d])), d)
  <1> DEFINE w == Head(writes[d])
  <1>1. w \in Waiting(d) /\ w \in Writes
    BY PoppedQueue
  <1>2. From(w.g.items, d) /\ From(w.delta, d) /\ From(store[d].items, d)
    BY <1>1 DEF AllHome, QueuesHome, CopiesHome
  <1>3. w.mine => d = chat
    BY <1>1 DEF Owned
  <1>4. NextItems(d, w) \subseteq store[d].items \cup w.delta \cup w.g.items
    BY <1>1, CommitsTyped
  <1> QED
    BY <1>1, <1>2, <1>3, <1>4 DEF From, AllHome, OpenHome

LEMMA CopiesHomeStep ==
  ASSUME Typed, PersistNext, Owned, AllHome
  PROVE  CopiesHome'
  <1>1. /\ store \in [Chats -> Records] /\ shadow \in [Chats -> Copies]
        /\ metadata \in [Chats -> Copies] /\ chat \in Chats
    BY DEF Typed, OpenTyped, StoreTyped
  <1>2. \A c \in Chats : From(store'[c].items, c)
    <2>1. CASE UNCHANGED store
      BY <2>1 DEF AllHome, CopiesHome
    <2>2. CASE \E i \in Foreign : RemoteCommit(i)
      <3> PICK i \in Foreign : RemoteCommit(i)
        BY <2>2
      <3>1. /\ store'[Home[i]].items = store[Home[i]].items \cup {i}
            /\ \A c \in Chats \ {Home[i]} : store'[c] = store[c]
        BY RemoteAdds
      <3> QED
        BY <3>1 DEF From, AllHome, CopiesHome
    <2>3. CASE \E d \in Chats : Commit(d)
      <3> PICK d \in Chats : Commit(d)
        BY <2>3
      <3> DEFINE items == NextItems(d, Head(writes[d]))
                 r == NextRev(d, Head(writes[d]))
      <3>1. From(items, d)
        BY HeadHome DEF Commit
      <3>2. store' = [store EXCEPT ![d] = [rev |-> r, items |-> items]]
        BY DEF Commit
      <3> HIDE DEF items, r
      <3> QED
        BY <1>1, <3>1, <3>2 DEF AllHome, CopiesHome
    <2>4. UNCHANGED store \/ (\E d \in Chats : Commit(d)) \/ \E i \in Foreign : RemoteCommit(i)
      BY DEF PersistNext, Edit, StartBatch, PersistBatch, StartRetry, RetryNow, ContinueRetry, UseRestoreLock, Flush, Skip,
             FailWrite, OpenChat, LoadRead, LoadApply, durable
    <2> QED
      BY <2>1, <2>2, <2>3, <2>4
  <1>3. ASSUME NEW d \in Chats, NEW k, From(k.items, d),
               shadow' \in {shadow, [shadow EXCEPT ![d] = k]},
               metadata' \in {metadata, [metadata EXCEPT ![d] = k]}
        PROVE  \A c \in Chats : From(shadow'[c].items, c) /\ From(metadata'[c].items, c)
    BY <1>1, <1>3 DEF AllHome, CopiesHome
  <1>4. \A c \in Chats : From(shadow'[c].items, c) /\ From(metadata'[c].items, c)
    <2>1. CASE \E i \in Edits : Edit(i)
      <3> PICK i \in Edits : Edit(i)
        BY <2>1
      <3> DEFINE k == Copy(ps.revision, Edited(i))
      <3>1. k.items = live.items \cup {i} /\ Home[i] = chat
        BY SaveOfIs DEF Copy, Edit
      <3>2. From(k.items, chat)
        BY <3>1, SourceHome DEF From
      <3>3. shadow' \in {shadow, [shadow EXCEPT ![chat] = k]} /\ metadata' = metadata
        BY DEF Edit, Edited
      <3> HIDE DEF k
      <3> QED
        BY <1>1, <1>3, <3>2, <3>3
    <2>2. CASE Flush
      <3> DEFINE k == Copy(Largest({ps.revision, ps.queued}), live)
      <3>1. From(k.items, chat)
        BY SourceHome DEF Copy
      <3>2. metadata' = [metadata EXCEPT ![chat] = k] /\ shadow' = shadow
        BY <2>2 DEF Flush
      <3> HIDE DEF k
      <3> QED
        BY <1>1, <1>3, <3>1, <3>2
    <2>3. CASE \E d \in Chats : FailWrite(d)
      <3> PICK d \in Chats : FailWrite(d)
        BY <2>3
      <3> DEFINE w == Head(writes[d])
                 k == Copy(w.rev, IF w.mine THEN live ELSE w.g)
      <3>1. From(k.items, d)
        BY HeadHome DEF Copy, FailWrite
      <3>2. /\ shadow' \in {shadow, [shadow EXCEPT ![d] = k]}
            /\ metadata' \in {metadata, [metadata EXCEPT ![d] = k]}
        BY DEF FailWrite
      <3> HIDE DEF w, k
      <3> QED
        BY <1>3, <3>1, <3>2
    <2>4. CASE LoadApply
      <3>1. metadata' = metadata /\ shadow' \in {shadow, [shadow EXCEPT ![chat] = NoCopy]}
        BY <2>4, LoadDoes DEF Restores, RestoreShadow, Applies, ApplySnapshot, Keeps
      <3>2. From(NoCopy.items, chat)
        BY DEF From, NoCopy
      <3> QED
        BY <1>1, <1>3, <3>1, <3>2
    <2>5. CASE UNCHANGED <<shadow, metadata>>
      BY <2>5 DEF AllHome, CopiesHome
    <2> QED
      BY <2>1, <2>2, <2>3, <2>4, <2>5 DEF PersistNext, StartBatch, PersistBatch, StartRetry,
         RetryNow, ContinueRetry, UseRestoreLock, Skip, Commit, RemoteCommit, OpenChat, LoadRead, durable
  <1> QED
    BY <1>2, <1>4 DEF CopiesHome, From

\* What a commit publishes as the graph in memory is of the open chat.
LEMMA CommitOpenHome ==
  ASSUME Typed, Owned, OneBatch, AllHome, NEW d \in Chats, Commit(d)
  PROVE  From(live'.items, chat)
  <1> DEFINE w == Head(writes[d])
             r == NextRev(d, w)
  <1>1. /\ w \in Writes /\ writes[d] # <<>> /\ r \in Nat
        /\ From(w.g.items, d) /\ (w.mine => d = chat) /\ From(live.items, chat)
        /\ live \in Graph /\ live.dirty \subseteq live.items /\ w.g \in Graph
    BY HeadHome, SourceHome, GraphsTyped, CommitsTyped, WriteFields DEF Commit
  <1>2. CASE Publishes(d, w) /\ w.kind = "batch"
    <2>1. BatchAt(writes, d, 1) /\ batch.mine
      BY <1>1, <1>2, GraphsTyped, TailElements DEF BatchAt, Publishes, BatchCurrent
    <2>2. d = chat
      BY <2>1 DEF OneBatch
    <2>3. live' = [w.g EXCEPT !.base = r]
      BY <1>2 DEF Commit, Published
    <2>4. live'.items = w.g.items
      BY <1>1, <2>3 DEF Graph
    <2> QED
      BY <1>1, <2>2, <2>4
  <1>3. CASE Publishes(d, w) /\ w.kind # "batch"
    <2>1. w.kind = "retry" /\ d = chat
      BY <1>3 DEF Publishes
    <2>2. live' = Loaded(IF w.mine THEN live ELSE w.g, r)
      BY <1>3, <2>1 DEF Commit, Published
    <2>3. live'.items = live.items \/ live'.items = w.g.items
      BY <2>2 DEF Loaded
    <2> QED
      BY <1>1, <2>1, <2>3
  <1>4. CASE ~Publishes(d, w)
    <2>1. live' = live \/ live' = AfterSave(live, w, r)
      BY <1>4 DEF Commit
    <2>2. AfterSave(live, w, r).items = live.items
      BY <1>1, SavedTyped
    <2> QED
      BY <1>1, <2>1, <2>2
  <1> QED
    BY <1>2, <1>3, <1>4

LEMMA OpenHomeStep ==
  ASSUME Typed, PersistNext, Handled, OneBatch, AllHome
  PROVE  OpenHome'
  <1>1. /\ batch \in Batches /\ lease \in Nat /\ lease >= 1 /\ batch.lease \in Nat
        /\ chat \in Chats
    BY PersistAssumption DEF Typed, OpenTyped, JobsTyped, Batches
  <1>2. From(reading'.items, reading'.chat)
    <2>1. CASE UNCHANGED reading
      BY <2>1 DEF AllHome, OpenHome
    <2>2. CASE LoadRead
      BY <1>1, <2>2 DEF LoadRead, AllHome, CopiesHome
    <2>3. CASE LoadApply
      BY <2>3 DEF LoadApply, NoReading, From
    <2> QED
      BY <2>1, <2>2, <2>3 DEF PersistNext, Edit, StartBatch, PersistBatch, StartRetry,
         RetryNow, ContinueRetry, UseRestoreLock, Flush, Skip, FailWrite, Commit, RemoteCommit, OpenChat, jobs
  <1>3. From(live'.items, chat')
    <2>1. CASE \E i \in Edits : Edit(i)
      <3> PICK i \in Edits : Edit(i)
        BY <2>1
      <3>1. live'.items = live.items \cup {i} /\ Home[i] = chat /\ chat' = chat
        BY SaveOfIs DEF Edit, Edited
      <3> QED
        BY <3>1, SourceHome DEF From
    <2>2. CASE \E d \in Chats : Commit(d)
      BY <2>2, CommitOpenHome DEF Handled, Commit
    <2>3. CASE \E d \in Chats : OpenChat(d)
      BY <2>3 DEF OpenChat, NoGraph, From
    <2>4. CASE LoadApply
      <3>1. CASE Restores
        <4>1. live'.items = shadow[chat].items /\ chat' = chat
          BY <2>4, <3>1, RestoredQueue, PromotedIs DEF LoadApply
        <4> QED
          BY <4>1, SourceHome
      <3>2. CASE Applies
        <4>1. live'.items = reading.items /\ reading.chat = chat /\ chat' = chat
          BY <2>4, <3>2 DEF Applies, ApplySnapshot, Loaded, LoadIsCurrent, LoadApply
        <4> QED
          BY <4>1 DEF AllHome, OpenHome
      <3>3. CASE Keeps
        BY <2>4, <3>3, SourceHome DEF Keeps, LoadApply
      <3> QED
        BY <2>4, <3>1, <3>2, <3>3, LoadDoes
    <2>5. CASE UNCHANGED <<live, chat>>
      BY <2>5, SourceHome
    <2> QED
      BY <2>1, <2>2, <2>3, <2>4, <2>5 DEF PersistNext, StartBatch, PersistBatch, StartRetry,
         RetryNow, ContinueRetry, UseRestoreLock, Flush, Skip, FailWrite, RemoteCommit, LoadRead, memory
  <1>4. batch'.lease = lease' => From(batch'.g.items, chat') /\ From(batch'.delta, chat')
    <2>1. ASSUME batch'.lease = batch.lease, batch'.g = batch.g, batch'.delta = batch.delta,
                 UNCHANGED <<chat, lease>>
          PROVE  batch'.lease = lease' => From(batch'.g.items, chat') /\ From(batch'.delta, chat')
      BY <2>1 DEF AllHome, OpenHome
    <2>2. ASSUME batch' = NoBatch, lease' = lease
          PROVE  batch'.lease # lease'
      BY <1>1, <2>2 DEF NoBatch
    <2>3. ASSUME batch' \in {[batch EXCEPT !.mine = FALSE], [batch EXCEPT !.phase = "saving"]}
          PROVE  batch'.lease = batch.lease /\ batch'.g = batch.g /\ batch'.delta = batch.delta
      BY <1>1, <2>3 DEF Batches
    <2>4. CASE \E i \in Extracts : StartBatch(i)
      <3> PICK i \in Extracts : StartBatch(i)
        BY <2>4
      <3>1. batch'.g.items = live.items \cup {i} /\ batch'.delta = {i} /\ Home[i] = chat
            /\ chat' = chat
        BY DEF StartBatch
      <3> QED
        BY <3>1, SourceHome DEF From
    <2>5. CASE PersistBatch
      BY <2>1, <2>2, <2>3, <2>5 DEF PersistBatch
    <2>6. CASE \E d \in Chats : Commit(d) \/ FailWrite(d)
      BY <2>1, <2>2, <2>3, <2>6 DEF Commit, FailWrite
    <2>7. CASE \E d \in Chats : OpenChat(d)
      <3>1. batch'.lease = batch.lease /\ lease' = lease + 1 /\ batch.lease <= lease
        BY <2>3, <2>7 DEF OpenChat, Handled, RetryKnown
      <3> QED
        BY <1>1, <3>1
    <2>8. CASE LoadApply
      <3>1. UNCHANGED <<chat, lease>> /\ batch' \in {batch, [batch EXCEPT !.mine = FALSE]}
        BY <2>8, LoadDoes DEF Restores, RestoreShadow, Applies, ApplySnapshot, Keeps
      <3> QED
        BY <2>1, <2>3, <3>1
    <2>9. CASE UNCHANGED <<batch, chat, lease>>
      BY <2>1, <2>9
    <2> QED
      BY <2>4, <2>5, <2>6, <2>7, <2>8, <2>9 DEF PersistNext, Edit, StartRetry, RetryNow, ContinueRetry, UseRestoreLock,
         Flush, Skip, RemoteCommit, LoadRead, jobs
  <1> QED
    BY <1>2, <1>3, <1>4 DEF OpenHome, From

HomeInv == ~auto => AllHome

LEMMA HomeInit == PersistInit => OneBatch /\ HomeInv
  <1> SUFFICES ASSUME PersistInit PROVE OneBatch /\ HomeInv
    OBVIOUS
  <1>1. \A c \in Chats : Waiting(c) = {} /\ \A n \in Nat : ~BatchAt(writes, c, n)
    BY EmptySeq DEF PersistInit, Waiting, Elements, BatchAt
  <1>2. OneBatch
    BY <1>1 DEF OneBatch
  <1>3. AllHome
    BY <1>1 DEF PersistInit, AllHome, CopiesHome, QueuesHome, OpenHome, From, NoCopy, NoGraph,
                NoReading, NoBatch
  <1> QED
    BY <1>2, <1>3 DEF HomeInv

LEMMA HomeStep ==
  Typed /\ Handled /\ OneBatch /\ HomeInv /\ [PersistNext]_persistVars => OneBatch' /\ HomeInv'
  <1> SUFFICES ASSUME Typed, Handled, OneBatch, HomeInv, [PersistNext]_persistVars
               PROVE  OneBatch' /\ HomeInv'
    OBVIOUS
  <1>1. CASE UNCHANGED persistVars
    BY <1>1 DEF persistVars, memory, jobs, durable, OneBatch, BatchAt, HomeInv, AllHome,
                CopiesHome, QueuesHome, OpenHome, Waiting, From
  <1>2. CASE PersistNext
    <2>1. auto' = auto
      BY <1>2 DEF PersistNext, Edit, StartBatch, PersistBatch, StartRetry, RetryNow, ContinueRetry, UseRestoreLock, Flush,
             Skip, FailWrite, Commit, RemoteCommit, OpenChat, LoadRead, LoadApply
    <2>2. ~auto => AllHome'
      BY <1>2, CopiesHomeStep, QueuesHomeStep, OpenHomeStep DEF HomeInv, Handled, AllHome
    <2> QED
      BY <1>2, <2>1, <2>2, OneBatchStep DEF HomeInv
  <1> QED
    BY <1>1, <1>2

\* Without the setting that lets a retry look for its source after another chat was
\* entered, no change ever reaches the store, a recovery copy or the graph in memory
\* of another chat than its own.
THEOREM ChangesStayHome == PersistSpec => []CopiesStayHome
  <1>1. Typed /\ HomeInv => CopiesStayHome
    BY DEF HomeInv, AllHome, CopiesHome, OpenHome, From, CopiesStayHome
  <1> QED
    BY <1>1, TypedInit, TypedStep, HandledInit, HandledStep, HomeInit, HomeStep, PTL
       DEF PersistSpec

-----------------------------------------------------------------------------
(* Nothing is taken out of a store                                          *)

\* A graph or a copy was read from, or written to, an earlier state of a store, or holds
\* all that the store has.
Fits(s, k) == k.base <= s.rev /\ (k.base = s.rev => s.items \subseteq k.items)

\* What a load has read, as a graph.
ReadGraph == [items |-> reading.items, base |-> reading.rev]

\* The writes of a chat that is open show what its graph had when they were queued.
Ancestry ==
    /\ \A c \in Chats : store[c].rev >= 1
    /\ batch.delta \subseteq batch.g.items
    /\ \A c \in Chats : \A v \in Waiting(c) :
          v.delta \subseteq v.g.items /\ (v.mine => v.delta = {} /\ v.g.items \subseteq live.items)
    /\ reading.on => Fits(store[reading.chat], ReadGraph)

ChatFits(c) ==
    /\ \A v \in Waiting(c) : Fits(store[c], v.g)
    /\ Fits(store[c], shadow[c]) /\ Fits(store[c], metadata[c])
    /\ c = chat => /\ Fits(store[c], live)
                   /\ batch.phase = "working" /\ BatchCurrent => Fits(store[c], batch.g)

Grounded == Ancestry /\ \A c \in Chats \ rebased : ChatFits(c)

\* What fitted a store still does when the store has moved on.
LEMMA FitsStays ==
  ASSUME Typed, PersistNext, NEW c \in Chats, NEW k, k.base \in Nat, Fits(store[c], k)
  PROVE  Fits(store'[c], k)
  BY StoreAdvances DEF Fits

\* What the base of a graph says is kept when the graph gets more.
LEMMA FitsMore ==
  ASSUME NEW s, NEW k, NEW l, Fits(s, k), l.base = k.base, k.items \subseteq l.items
  PROVE  Fits(s, l)
  BY DEF Fits

\* What a commit on its own base leaves in the store is in the graph of the write.
LEMMA BasedCommit ==
  ASSUME Typed, NEW c \in Chats, NEW w \in Writes, Based(c, w), Fits(store[c], w.g),
         w.delta \subseteq w.g.items
  PROVE  store[c].items \subseteq NextItems(c, w) /\ NextItems(c, w) \subseteq w.g.items
  <1>1. store[c].items \subseteq w.g.items /\ w.g.dirty \subseteq w.g.items
    BY WriteFields DEF Fits, Based
  <1> QED
    BY <1>1 DEF NextItems, Rebuilt, Based

\* The graph in memory after a commit, if it did not get a base it was not read at.
LEMMA CommitFits ==
  ASSUME Typed, Owned, OneBatch, Ancestry, NEW d \in Chats, Commit(d), NEW c \in Chats,
         c = chat, c \notin rebased', ChatFits(c)
  PROVE  Fits(store'[c], live')
  <1> DEFINE w == Head(writes[d])
             r == NextRev(d, w)
             items == NextItems(d, w)
  <1>1. /\ w \in Waiting(d) /\ w \in Writes /\ writes[d] # <<>> /\ w.g \in Graph
        /\ w.g.dirty \subseteq w.g.items /\ r \in Nat /\ w.delta \subseteq w.g.items
        /\ live \in Graph /\ live.dirty \subseteq live.items /\ live.base \in Nat
        /\ w.mine => w.g.items \subseteq live.items
    BY PoppedQueue, WriteFields, CommitsTyped, GraphsTyped DEF Commit, Ancestry, Graph
  <1>2. store' = [store EXCEPT ![d] = [rev |-> r, items |-> items]] /\ PersistNext
    BY DEF Commit, PersistNext
  <1>3. w.mine => d = chat
    BY <1>1 DEF Owned
  <1>4. Publishes(d, w) => d = chat
    <2>1. w.kind = "batch" => BatchAt(writes, d, 1)
      BY <1>1, GraphsTyped, TailElements DEF BatchAt
    <2> QED
      BY <2>1 DEF OneBatch, Publishes, BatchCurrent
  <1>5. CASE ~w.mine /\ ~Publishes(d, w)
    <2>1. live' = live
      BY <1>5 DEF Commit
    <2> QED
      BY <1>1, <1>2, <2>1, FitsStays DEF ChatFits
  <1>6. CASE w.mine \/ Publishes(d, w)
    <2>1. d = c
      BY <1>3, <1>4, <1>6
    <2>2. Based(d, w)
      BY <1>6, <2>1 DEF Commit, Rebase
    <2>3. items \subseteq w.g.items
      BY <1>1, <2>1, <2>2, BasedCommit DEF ChatFits
    <2>4. store'[c] = [rev |-> r, items |-> items]
      <3> HIDE DEF r, items
      <3> QED
        BY <1>2, <2>1 DEF Typed, StoreTyped
    <2>5. live'.base = r /\ w.g.items \subseteq live'.items
      <3>1. CASE Publishes(d, w) /\ w.kind = "batch"
        <4>1. live' = [w.g EXCEPT !.base = r]
          BY <3>1 DEF Commit, Published
        <4> HIDE DEF w, r
        <4> QED
          BY <1>1, <4>1 DEF Graph
      <3>2. CASE Publishes(d, w) /\ w.kind = "retry"
        <4>1. live' = Loaded(IF w.mine THEN live ELSE w.g, r)
          BY <3>2 DEF Commit, Published
        <4> QED
          BY <1>1, <4>1 DEF Loaded
      <3>3. CASE ~Publishes(d, w)
        <4>1. live' = AfterSave(live, w, r) /\ w.mine
          BY <1>6, <3>3 DEF Commit
        <4> HIDE DEF w, r
        <4> QED
          BY <1>1, <4>1, SavedTyped
      <3> QED
        BY <3>1, <3>2, <3>3 DEF Publishes
    <2> HIDE DEF w, r, items
    <2> QED
      BY <1>1, <2>3, <2>4, <2>5 DEF Fits
  <1> QED
    BY <1>5, <1>6

\* A chat in which no graph gets a base it was not read at had none before.
LEMMA RebasedStays ==
  ASSUME Typed, PersistNext
  PROVE  rebased \subseteq rebased'
  <1>1. CASE RetryStep
    BY <1>1, RetriesDo DEF Retries, Rebase
  <1>2. CASE LoadApply
    BY <1>2, LoadDoes DEF Restores, RestoreShadow, Applies, Keeps, Rebase
  <1> QED
    BY <1>1, <1>2 DEF PersistNext, RetryStep, UseRestoreLock, Edit, StartBatch, PersistBatch,
       Flush, Skip, FailWrite, Commit, RemoteCommit, OpenChat, LoadRead, Rebase

\* What a step queues fits the store of its chat.
LEMMA QueuesFit ==
  ASSUME Typed, PersistNext, Ancestry, NEW c \in Chats, c \notin rebased', ChatFits(c),
         NEW v, Queues(c, v)
  PROVE  Fits(store[c], v.g)
  <1>1. CASE \E i \in Edits : Edit(i) /\ c = chat /\ v = SaveOf(i)
    <2> PICK i \in Edits : Edit(i) /\ c = chat /\ v = SaveOf(i)
      BY <1>1
    <2>1. v.g.items = live.items \cup {i} /\ v.g.base = live.base
      BY SaveOfIs
    <2> QED
      BY <2>1, FitsMore DEF ChatFits
  <1>2. CASE batch.phase = "working" /\ BatchCurrent /\ c = chat /\ v = BatchWrite
    BY <1>2, BatchWriteIs DEF ChatFits
  <1>3. CASE Retries(c) /\ v = Retried(c)
    <2> DEFINE s == RetrySource(c)
    <2>1. v.g = s.g /\ s.found /\ ~s.rebased
      BY <1>3, RetriedIs DEF Retries, Rebase
    <2>2. CASE s.mine
      <3>1. s.g = live /\ c = chat
        BY <2>1, <2>2, RetrySourceFound
      <3> QED
        BY <2>1, <3>1 DEF ChatFits
    <2>3. CASE ~s.mine
      <3>1. \/ s.g.items = shadow[c].items /\ s.g.base = shadow[c].base
            \/ s.g.items = metadata[c].items /\ s.g.base = metadata[c].base
        BY <2>1, <2>3, RetrySourceFound
      <3> HIDE DEF s
      <3> QED
        BY <2>1, <3>1 DEF ChatFits, Fits
    <2> QED
      BY <2>2, <2>3
  <1>4. CASE Restores /\ c = chat /\ v = Promoted
    <2>1. shadow[chat].rev = shadow[chat].base
      BY <1>4 DEF Restores, RestoreShadow, Rebase
    <2>2. v.g.items = shadow[chat].items /\ v.g.base = shadow[chat].rev
      BY <1>4, PromotedIs
    <2> QED
      BY <1>4, <2>1, <2>2 DEF ChatFits, Fits
  <1> QED
    BY <1>1, <1>2, <1>3, <1>4 DEF Queues

\* The recovery copies a step leaves fit the store of their chat.
LEMMA CopiesFit ==
  ASSUME Typed, PersistNext, Owned, Ancestry, NEW c \in Chats, ChatFits(c)
  PROVE  Fits(store[c], shadow'[c]) /\ Fits(store[c], metadata'[c])
  <1>1. /\ shadow \in [Chats -> Copies] /\ metadata \in [Chats -> Copies] /\ chat \in Chats
        /\ Fits(store[c], shadow[c]) /\ Fits(store[c], metadata[c])
    BY DEF Typed, OpenTyped, StoreTyped, ChatFits
  <1>2. ASSUME NEW d \in Chats, NEW k, d = c => Fits(store[c], k),
               shadow' \in {shadow, [shadow EXCEPT ![d] = k]},
               metadata' \in {metadata, [metadata EXCEPT ![d] = k]}
        PROVE  Fits(store[c], shadow'[c]) /\ Fits(store[c], metadata'[c])
    BY <1>1, <1>2
  <1>3. CASE \E i \in Edits : Edit(i)
    <2> PICK i \in Edits : Edit(i)
      BY <1>3
    <2> DEFINE k == Copy(ps.revision, Edited(i))
    <2>1. k.items = live.items \cup {i} /\ k.base = live.base
      BY SaveOfIs DEF Copy
    <2>2. chat = c => Fits(store[c], k)
      BY <2>1, FitsMore DEF ChatFits
    <2>3. shadow' \in {shadow, [shadow EXCEPT ![chat] = k]} /\ metadata' = metadata
      BY DEF Edit, Edited
    <2> HIDE DEF k
    <2> QED
      BY <1>1, <1>2, <2>2, <2>3
  <1>4. CASE Flush
    <2> DEFINE k == Copy(Largest({ps.revision, ps.queued}), live)
    <2>1. k.items = live.items /\ k.base = live.base
      BY DEF Copy
    <2>2. chat = c => Fits(store[c], k)
      BY <2>1, FitsMore DEF ChatFits
    <2>3. metadata' = [metadata EXCEPT ![chat] = k] /\ shadow' = shadow
      BY <1>4 DEF Flush
    <2> HIDE DEF k
    <2> QED
      BY <1>1, <1>2, <2>2, <2>3
  <1>5. CASE \E d \in Chats : FailWrite(d)
    <2> PICK d \in Chats : FailWrite(d)
      BY <1>5
    <2> DEFINE w == Head(writes[d])
               g == IF w.mine THEN live ELSE w.g
               k == Copy(w.rev, g)
    <2>1. w \in Waiting(d) /\ (w.mine => d = chat)
      BY PoppedQueue DEF FailWrite, Owned
    <2>2. k.items = g.items /\ k.base = g.base
      BY DEF Copy
    <2>3. d = c => Fits(store[c], g)
      BY <2>1 DEF ChatFits
    <2>4. /\ shadow' \in {shadow, [shadow EXCEPT ![d] = k]}
          /\ metadata' \in {metadata, [metadata EXCEPT ![d] = k]}
      BY DEF FailWrite
    <2> HIDE DEF w, k, g
    <2>5. d = c => Fits(store[c], k)
      BY <2>2, <2>3, FitsMore
    <2> QED
      BY <1>2, <2>4, <2>5
  <1>6. CASE LoadApply
    <2>1. metadata' = metadata /\ shadow' \in {shadow, [shadow EXCEPT ![chat] = NoCopy]}
      BY <1>6, LoadDoes DEF Restores, RestoreShadow, Applies, ApplySnapshot, Keeps
    <2>2. Fits(store[c], NoCopy)
      BY GraphsTyped DEF Ancestry, Fits, NoCopy, Records
    <2> QED
      BY <1>1, <1>2, <2>1, <2>2
  <1>7. CASE UNCHANGED <<shadow, metadata>>
    BY <1>1, <1>7
  <1> QED
    BY <1>3, <1>4, <1>5, <1>6, <1>7, RetriesDo DEF PersistNext, RetryStep, UseRestoreLock,
       StartBatch, PersistBatch, Skip, Commit, RemoteCommit, OpenChat, LoadRead, durable

LEMMA LiveFits ==
  ASSUME Typed, PersistNext, Owned, OneBatch, Ancestry, NEW c \in Chats, c \notin rebased',
         ChatFits(c), c = chat'
  PROVE  Fits(store'[c], live')
  <1>1. chat \in Chats /\ live.base \in Nat
    BY GraphsTyped DEF Typed, OpenTyped, Graph
  <1>2. CASE \E i \in Edits : Edit(i)
    <2> PICK i \in Edits : Edit(i)
      BY <1>2
    <2>1. live'.items = live.items \cup {i} /\ live'.base = live.base /\ store' = store
          /\ chat' = chat
      BY SaveOfIs DEF Edit, Edited
    <2> QED
      BY <2>1, FitsMore DEF ChatFits
  <1>3. CASE \E d \in Chats : Commit(d)
    <2>1. chat' = chat
      BY <1>3 DEF Commit
    <2> QED
      BY <1>3, <2>1, CommitFits
  <1>4. CASE \E d \in Chats : OpenChat(d)
    <2>1. live' = NoGraph /\ store' = store
      BY <1>4 DEF OpenChat, durable
    <2> QED
      BY <2>1, GraphsTyped DEF Ancestry, Fits, NoGraph, Records
  <1>5. CASE LoadApply
    <2>1. store' = store /\ chat' = chat /\ reading.on
      BY <1>5, LoadDoes
    <2>2. CASE Restores
      <3>1. live' = Restored /\ shadow[chat].rev = shadow[chat].base
        BY <2>1, <2>2, RestoredQueue DEF Restores, RestoreShadow, Rebase
      <3>2. Restored.items = shadow[chat].items /\ Restored.base = shadow[chat].rev
        BY PromotedIs
      <3> QED
        BY <2>1, <3>1, <3>2 DEF ChatFits, Fits
    <2>3. CASE Applies
      <3>1. live' = Loaded(reading, reading.rev) /\ reading.chat = chat
        BY <2>3 DEF Applies, ApplySnapshot, LoadIsCurrent
      <3> QED
        BY <2>1, <3>1 DEF Ancestry, ReadGraph, Fits, Loaded
    <2>4. CASE Keeps
      BY <2>1, <2>4 DEF Keeps, ChatFits
    <2> QED
      BY <1>5, <2>2, <2>3, <2>4, LoadDoes
  <1>6. CASE UNCHANGED <<live, chat>>
    BY <1>1, <1>6, FitsStays DEF ChatFits
  <1> QED
    BY <1>2, <1>3, <1>4, <1>5, <1>6, RetriesDo DEF PersistNext, RetryStep, UseRestoreLock,
       StartBatch, PersistBatch, Flush, Skip, FailWrite, RemoteCommit, LoadRead, memory

LEMMA BatchFits ==
  ASSUME Typed, PersistNext, NEW c \in Chats, ChatFits(c), c = chat',
         batch'.phase = "working", BatchCurrent'
  PROVE  Fits(store'[c], batch'.g)
  <1>1. batch \in Batches /\ batch.g.base \in Nat
    BY GraphsTyped DEF Typed, JobsTyped, Graph
  <1>2. ASSUME batch' \in {NoBatch, [batch EXCEPT !.mine = FALSE], [batch EXCEPT !.phase = "saving"]}
        PROVE  FALSE
    BY <1>1, <1>2 DEF NoBatch, Batches, BatchCurrent
  <1>3. CASE \E i \in Extracts : StartBatch(i)
    <2> PICK i \in Extracts : StartBatch(i)
      BY <1>3
    <2>1. batch'.g.items = live.items \cup {i} /\ batch'.g.base = live.base
          /\ store' = store /\ chat' = chat
      BY DEF StartBatch, durable
    <2> QED
      BY <2>1, FitsMore DEF ChatFits
  <1>4. CASE PersistBatch \/ \E d \in Chats : OpenChat(d)
    BY <1>2, <1>4 DEF PersistBatch, OpenChat
  <1>5. CASE UNCHANGED <<batch, chat, lease>>
    BY <1>1, <1>5, FitsStays DEF ChatFits, BatchCurrent
  <1>6. CASE \E d \in Chats : Commit(d) \/ FailWrite(d)
    BY <1>2, <1>5, <1>6 DEF Commit, FailWrite
  <1>7. CASE LoadApply
    BY <1>2, <1>5, <1>7, LoadDoes DEF Restores, RestoreShadow, Applies, ApplySnapshot, Keeps
  <1> QED
    BY <1>3, <1>4, <1>5, <1>6, <1>7, RetriesDo DEF PersistNext, RetryStep, UseRestoreLock, Edit,
       Flush, Skip, RemoteCommit, LoadRead, jobs

LEMMA ChatFitsStep ==
  ASSUME Typed, PersistNext, Owned, OneBatch, Ancestry, NEW c \in Chats, c \notin rebased',
         ChatFits(c)
  PROVE  ChatFits(c)'
  <1>1. ASSUME NEW v \in Elements(writes'[c]) PROVE Fits(store'[c], v.g)
    <2>1. v \in Writes /\ Fits(store[c], v.g)
      <3>1. CASE Stays(c, v)
        <4> PICK u \in Waiting(c) : v = Disown(u) \/ v = u
          BY <3>1 DEF Stays
        <4>1. u \in Writes /\ v \in Writes /\ v.g = u.g
          BY WaitingTyped, DisownIs
        <4> QED
          BY <4>1 DEF ChatFits
      <3>2. CASE Queues(c, v)
        BY <3>2, QueuesHere, QueuesFit
      <3> QED
        BY <1>1, <3>1, <3>2, QueueStep
    <2> QED
      BY <2>1, WriteFields, FitsStays
  <1>2. Fits(store'[c], shadow'[c]) /\ Fits(store'[c], metadata'[c])
    <2>1. shadow'[c] \in Copies /\ metadata'[c] \in Copies
      BY TypedStep DEF Typed, StoreTyped
    <2> QED
      BY <2>1, CopiesFit, FitsStays DEF Copies
  <1> QED
    BY <1>1, <1>2, LiveFits, BatchFits DEF ChatFits, Waiting

\* A write that is still of the graph in memory shows no more than that graph has.
LEMMA LiveGrows ==
  ASSUME Typed, PersistNext
  PROVE  \/ live.items \subseteq live'.items
         \/ \A c \in Chats : \A v \in Elements(writes'[c]) :
               v.mine => v = Promoted /\ live' = Restored
  <1>1. live \in Graph /\ writes \in [Chats -> Seq(Writes)]
    BY GraphsTyped DEF Typed, QueueTyped
  <1>2. ASSUME NEW ws \in [Chats -> Seq(Writes)], writes' = AllDisowned(ws)
        PROVE  \A c \in Chats : \A v \in Elements(writes'[c]) : ~v.mine
    <2>1. \A c \in Chats : Elements(AllDisowned(ws)[c]) = {Disown(u) : u \in Elements(ws[c])}
      BY DisownedQueues
    <2>2. \A c \in Chats : \A u \in Elements(ws[c]) : u \in Writes
      BY DEF Elements
    <2> QED
      BY <1>2, <2>1, <2>2, DisownIs
  <1>3. CASE \E i \in Edits : Edit(i)
    <2> PICK i \in Edits : Edit(i)
      BY <1>3
    <2>1. live' = Edited(i) /\ Edited(i).items = live.items \cup {i}
      BY SaveOfIs DEF Edit, Edited
    <2> QED
      BY <2>1
  <1>4. CASE \E d \in Chats : Commit(d)
    <2> PICK d \in Chats : Commit(d)
      BY <1>4
    <2> DEFINE w == Head(writes[d])
    <2>1. w \in Writes /\ Popped(d) \in [Chats -> Seq(Writes)] /\ NextRev(d, w) \in Nat
      BY PoppedQueue, CommitsTyped DEF Commit
    <2>2. CASE Publishes(d, w)
      BY <1>2, <2>1, <2>2 DEF Commit
    <2>3. CASE ~Publishes(d, w)
      <3>1. live' = live \/ live' = AfterSave(live, w, NextRev(d, w))
        BY <2>3 DEF Commit
      <3> HIDE DEF w
      <3>2. AfterSave(live, w, NextRev(d, w)).items = live.items
        BY <2>1, SavedTyped, GraphsTyped
      <3> QED
        BY <3>1, <3>2
    <2> QED
      BY <2>2, <2>3
  <1>5. CASE \E d \in Chats : OpenChat(d)
    BY <1>1, <1>2, <1>5 DEF OpenChat
  <1>6. CASE LoadApply
    <2>1. CASE Restores
      <3>1. \A c \in Chats : \A u \in Waiting(c) : ~Disown(u).mine
        BY WaitingTyped, DisownIs
      <3> QED
        BY <2>1, <3>1, RestoredQueue DEF Typed, OpenTyped
    <2>2. CASE Applies
      BY <1>1, <1>2, <2>2 DEF Applies, ApplySnapshot
    <2> QED
      BY <1>6, <2>1, <2>2, LoadDoes DEF Keeps
  <1>7. CASE UNCHANGED live
    BY <1>7
  <1> QED
    BY <1>3, <1>4, <1>5, <1>6, <1>7, RetriesDo DEF PersistNext, RetryStep, UseRestoreLock,
       StartBatch, PersistBatch, Flush, Skip, FailWrite, RemoteCommit, LoadRead, memory

LEMMA AncestryStep ==
  ASSUME Typed, PersistNext, Ancestry
  PROVE  Ancestry'
  <1>1. \A c \in Chats : store'[c].rev >= 1
    BY StoreAdvances DEF Ancestry
  <1>2. batch'.delta \subseteq batch'.g.items
    <2>1. batch \in Batches /\ batch.delta \subseteq batch.g.items
      BY DEF Typed, JobsTyped, Ancestry
    <2>2. CASE \E i \in Extracts : StartBatch(i)
      BY <2>2 DEF StartBatch
    <2>3. CASE batch' \in {batch, NoBatch, [batch EXCEPT !.mine = FALSE],
                           [batch EXCEPT !.phase = "saving"]}
      BY <2>1, <2>3 DEF NoBatch, NoGraph, Batches
    <2>4. CASE LoadApply
      BY <2>3, <2>4, LoadDoes DEF Restores, RestoreShadow, Applies, ApplySnapshot, Keeps
    <2> QED
      BY <2>2, <2>3, <2>4, RetriesDo DEF PersistNext, RetryStep, UseRestoreLock, Edit,
         PersistBatch, Flush, Skip, FailWrite, Commit, RemoteCommit, OpenChat, LoadRead, jobs
  <1>3. ASSUME NEW c \in Chats, NEW v \in Elements(writes'[c])
        PROVE  v.delta \subseteq v.g.items /\ (v.mine => v.delta = {} /\ v.g.items \subseteq live'.items)
    <2>1. CASE Stays(c, v)
      <3> PICK u \in Waiting(c) : v = Disown(u) \/ v = u
        BY <2>1 DEF Stays
      <3>1. u \in Writes /\ v.g = u.g /\ v.delta = u.delta /\ (v.mine => u.mine)
        BY WaitingTyped, DisownIs, WriteFields
      <3>2. u.delta \subseteq u.g.items /\ (u.mine => u.delta = {} /\ u.g.items \subseteq live.items)
        BY DEF Ancestry
      <3>3. CASE live.items \subseteq live'.items
        BY <3>1, <3>2, <3>3
      <3>4. CASE ~(live.items \subseteq live'.items)
        <4>1. v.mine => v = Promoted /\ live' = Restored
          BY <1>3, <3>4, LiveGrows
        <4> QED
          BY <3>1, <3>2, <4>1, PromotedIs
      <3> QED
        BY <3>3, <3>4
    <2>2. CASE Queues(c, v)
      <3>1. CASE \E i \in Edits : Edit(i) /\ v = SaveOf(i)
        <4> PICK i \in Edits : Edit(i) /\ v = SaveOf(i)
          BY <3>1
        <4>1. v.delta = {} /\ v.g = Edited(i) /\ live' = Edited(i)
          BY SaveOfIs DEF Edit, Edited
        <4> QED
          BY <4>1
      <3>2. CASE v = BatchWrite
        BY <3>2, BatchWriteIs DEF Ancestry
      <3>3. CASE RetryStep /\ v = Retried(c)
        <4>1. v.delta = {} /\ (v.mine => v.g = live)
          BY <3>3, RetriedIs
        <4>2. live' = live
          BY <3>3, RetriesDo
        <4> QED
          BY <4>1, <4>2
      <3>4. CASE Restores /\ v = Promoted
        BY <3>4, PromotedIs, RestoredQueue
      <3> QED
        BY <2>2, <3>1, <3>2, <3>3, <3>4 DEF Queues
    <2> QED
      BY <1>3, <2>1, <2>2, QueueStep
  <1>4. reading'.on => Fits(store'[reading'.chat], ReadGraph')
    <2>1. CASE UNCHANGED reading
      <3>1. reading.chat \in Chats /\ ReadGraph.base \in Nat
        BY GraphsTyped DEF ReadGraph
      <3>2. reading.on => Fits(store'[reading.chat], ReadGraph)
        BY <3>1, FitsStays DEF Ancestry
      <3> QED
        BY <2>1, <3>2 DEF ReadGraph
    <2>2. CASE LoadRead
      <3>1. /\ reading'.chat = chat /\ reading'.rev = store[chat].rev
            /\ reading'.items = store[chat].items /\ store' = store /\ store[chat].rev \in Nat
        BY <2>2, GraphsTyped DEF LoadRead, durable, Typed, OpenTyped, Records
      <3> QED
        BY <3>1 DEF Fits, ReadGraph
    <2>3. CASE LoadApply
      BY <2>3 DEF LoadApply, NoReading
    <2> QED
      BY <2>1, <2>2, <2>3, RetriesDo DEF PersistNext, RetryStep, UseRestoreLock, Edit,
         StartBatch, PersistBatch, Flush, Skip, FailWrite, Commit, RemoteCommit, OpenChat, jobs
  <1> QED
    BY <1>1, <1>2, <1>3, <1>4 DEF Ancestry, Waiting

LEMMA GroundedInit == PersistInit => Grounded
  <1> SUFFICES ASSUME PersistInit PROVE Grounded
    OBVIOUS
  <1>1. \A c \in Chats : Waiting(c) = {}
    BY EmptySeq DEF PersistInit, Waiting, Elements
  <1> QED
    BY <1>1 DEF PersistInit, Grounded, Ancestry, ChatFits, Fits, NoCopy, NoGraph, NoBatch,
                NoReading

LEMMA GroundedStep ==
  Typed /\ Handled /\ OneBatch /\ Grounded /\ [PersistNext]_persistVars => Grounded'
  <1> SUFFICES ASSUME Typed, Handled, OneBatch, Grounded, [PersistNext]_persistVars
               PROVE  Grounded'
    OBVIOUS
  <1>1. CASE UNCHANGED persistVars
    BY <1>1 DEF persistVars, memory, jobs, durable, Grounded, Ancestry, ChatFits, Fits, Waiting,
                ReadGraph, BatchCurrent
  <1>2. CASE PersistNext
    <2>1. \A c \in Chats \ rebased' : ChatFits(c)'
      BY <1>2, RebasedStays, ChatFitsStep DEF Grounded, Handled
    <2> QED
      BY <1>2, <2>1, AncestryStep DEF Grounded
  <1> QED
    BY <1>1, <1>2

\* No commit takes a change out of a store, whoever brought it there: a write whose graph
\* is older than the store is refused, merged or overtaken, through failures, retries,
\* restored copies, loads and writes of other tabs; as long as no graph of the chat got a
\* base it was not read at.
THEOREM StoreOnlyGrows == PersistSpec => DurableOnlyGrows
  <1>1. Typed /\ Grounded /\ [PersistNext]_persistVars =>
          [\A c \in Chats \ rebased : store[c].items \subseteq store'[c].items]_persistVars
    <2> SUFFICES ASSUME Typed, Grounded, PersistNext, NEW c \in Chats \ rebased
                 PROVE  store[c].items \subseteq store'[c].items
      OBVIOUS
    <2>1. store \in [Chats -> Records]
      BY DEF Typed, StoreTyped
    <2>2. CASE \E d \in Chats : Commit(d)
      <3> PICK d \in Chats : Commit(d)
        BY <2>2
      <3> DEFINE w == Head(writes[d])
                 items == NextItems(d, w)
                 r == NextRev(d, w)
      <3>1. w \in Waiting(d) /\ w \in Writes /\ CanCommit(d, w)
        BY PoppedQueue DEF Commit
      <3>2. d = c => store[c].items \subseteq items
        <4>1. CASE Based(d, w)
          BY <3>1, <4>1, BasedCommit DEF Grounded, Ancestry, ChatFits
        <4>2. CASE ~Based(d, w)
          BY <3>1, <4>2 DEF CanCommit, NextItems, Rebuilt
        <4> QED
          BY <4>1, <4>2
      <3>3. store' = [store EXCEPT ![d] = [rev |-> r, items |-> items]]
        BY DEF Commit
      <3> HIDE DEF items, r
      <3> QED
        BY <2>1, <3>2, <3>3
    <2>3. CASE \E i \in Foreign : RemoteCommit(i)
      BY <2>3, RemoteAdds
    <2>4. UNCHANGED store \/ (\E d \in Chats : Commit(d)) \/ \E i \in Foreign : RemoteCommit(i)
      BY RetriesDo DEF PersistNext, RetryStep, UseRestoreLock, Edit, StartBatch, PersistBatch,
         Flush, Skip, FailWrite, OpenChat, LoadRead, LoadApply, durable
    <2> QED
      BY <2>2, <2>3, <2>4
  <1> QED
    BY <1>1, TypedInit, TypedStep, HandledInit, HandledStep, HomeInit, HomeStep, GroundedInit,
       GroundedStep, PTL DEF PersistSpec, DurableOnlyGrows

-----------------------------------------------------------------------------
(* Edits are kept                                                           *)

\* A batch of the chat was made: it is then left out by EditsKept.
Shared(c) == \E x \in Extracts \cap used : Home[x] = c

LEMMA CountsUp ==
  ASSUME Typed, PersistNext
  PROVE  count'.fails = 0 => /\ count.fails = 0
                             /\ ~\E c \in Chats : FailWrite(c) /\ CanCommit(c, Head(writes[c]))
  <1>1. count \in [fails : Nat, loads : Nat]
    BY DEF Typed, LogTyped
  <1>2. Fail => count'.fails # 0
    BY <1>1 DEF Fail
  <1>3. count' = count \/ Fail \/ count' = [count EXCEPT !.loads = @ + 1]
    BY RetriesDo DEF PersistNext, RetryStep, UseRestoreLock, Edit, StartBatch, PersistBatch,
       Flush, Skip, FailWrite, Commit, RemoteCommit, OpenChat, LoadRead, LoadApply
  <1>4. (\E c \in Chats : FailWrite(c) /\ CanCommit(c, Head(writes[c]))) => Fail
    BY DEF FailWrite
  <1> QED
    BY <1>1, <1>2, <1>3, <1>4

BatchShared ==
    /\ batch.phase # "none" /\ batch.lease = lease => Shared(chat)
    /\ \A c \in Chats : \A v \in Waiting(c) : v.kind = "batch" => Shared(c)

LEMMA SharedStays ==
  ASSUME Typed, PersistNext, NEW c \in Chats, Shared(c)
  PROVE  Shared(c)'
  <1>1. used \subseteq used'
    BY DEF PersistNext, Edit, StartBatch, PersistBatch, StartRetry, RetryNow, ContinueRetry, UseRestoreLock, Flush,
             Skip, FailWrite, Commit, RemoteCommit, OpenChat, LoadRead, LoadApply
  <1> QED
    BY <1>1 DEF Shared

LEMMA BatchSharedStep ==
  ASSUME Typed, PersistNext, RetryKnown, BatchShared
  PROVE  BatchShared'
  <1>1. /\ batch \in Batches /\ lease \in Nat /\ lease >= 1 /\ batch.lease \in Nat
        /\ batch.lease <= lease /\ chat \in Chats
    BY PersistAssumption DEF Typed, OpenTyped, JobsTyped, Batches, RetryKnown
  <1>2. ASSUME NEW c \in Chats, NEW v \in Elements(writes'[c]), v.kind = "batch"
        PROVE  Shared(c)
    <2>1. CASE Stays(c, v)
      <3> PICK u \in Waiting(c) : v = Disown(u) \/ v = u
        BY <2>1 DEF Stays
      <3>1. v.kind = u.kind
        BY WaitingTyped, DisownIs
      <3> QED
        BY <1>2, <3>1 DEF BatchShared
    <2>2. CASE Queues(c, v)
      <3>1. v = BatchWrite \/ v.kind # "batch"
        BY <1>2, <2>2, SaveOfIs, RetriedIs, PromotedIs DEF Queues
      <3>2. batch.phase = "working" /\ batch.lease = lease /\ c = chat
        BY <1>2, <2>2, SaveOfIs, RetriedIs, PromotedIs DEF Queues, BatchCurrent
      <3> QED
        BY <3>2 DEF BatchShared
    <2> QED
      BY <2>1, <2>2, <1>2, QueueStep
  <1>3. batch'.phase # "none" /\ batch'.lease = lease' => Shared(chat)'
    <2>1. ASSUME batch'.lease = batch.lease, batch.phase = "none" => batch'.phase = "none",
                 UNCHANGED <<chat, lease>>
          PROVE  batch'.phase # "none" /\ batch'.lease = lease' => Shared(chat)'
      <3> SUFFICES ASSUME batch'.phase # "none", batch'.lease = lease' PROVE Shared(chat)'
        OBVIOUS
      <3>1. Shared(chat)
        BY <2>1 DEF BatchShared
      <3> QED
        BY <1>1, <2>1, <3>1, SharedStays DEF Shared
    <2>2. CASE batch' = NoBatch
      BY <2>2 DEF NoBatch
    <2>3. CASE batch' \in {batch, [batch EXCEPT !.mine = FALSE]} /\ UNCHANGED <<chat, lease>>
      BY <1>1, <2>1, <2>3 DEF Batches
    <2>4. CASE \E i \in Extracts : StartBatch(i)
      BY <2>4 DEF StartBatch, Shared
    <2>5. CASE PersistBatch
      <3>1. batch.phase = "working" /\ batch' \in {[batch EXCEPT !.phase = "saving"], NoBatch}
            /\ UNCHANGED <<chat, lease>>
        BY <2>5 DEF PersistBatch
      <3>2. batch' = NoBatch \/ (batch'.lease = batch.lease /\ batch'.phase = "saving")
        BY <1>1, <3>1 DEF Batches
      <3> QED
        BY <2>1, <2>2, <3>1, <3>2
    <2>6. CASE \E d \in Chats : OpenChat(d)
      <3>1. batch'.lease = batch.lease /\ lease' = lease + 1
        BY <1>1, <2>6 DEF OpenChat, Batches
      <3> QED
        BY <1>1, <3>1
    <2>7. CASE LoadApply
      BY <2>3, <2>7, LoadDoes DEF Restores, RestoreShadow, Applies, ApplySnapshot, Keeps
    <2> QED
      BY <2>2, <2>3, <2>4, <2>5, <2>6, <2>7 DEF PersistNext, Edit, StartRetry, RetryNow, ContinueRetry, UseRestoreLock,
         Flush, Skip, FailWrite, Commit, RemoteCommit, LoadRead, jobs
  <1> QED
    BY <1>2, <1>3, SharedStays DEF BatchShared, Waiting, Shared

\* The edits of a chat that its store does not have yet.
Missing(c) == {i \in Edits \cap used : Home[i] = c} \ store[c].items

\* The last write that waits is the newest one and brings whatever is missing.
QueueKept(c) ==
    /\ \A v \in Waiting(c) : v.kind = "save" /\ v.delta = {} /\ Marked(v)
    /\ shadow[c].rev <= store[c].rev
    /\ latest[c] <= store[c].rev + 1
    /\ writes[c] = <<>> => latest[c] <= store[c].rev /\ Missing(c) = {}
    /\ writes[c] # <<>> => /\ Final(writes[c]).rev = latest[c]
                           /\ Missing(c) \subseteq Final(writes[c]).g.dirty

\* The graph in memory has what is missing among its marks, and the next save of it
\* will not be older than a save that waits.
OpenKept(c) ==
    c = chat => /\ ps.revision <= store[c].rev /\ ps.persisted <= store[c].rev
                /\ ps.queued <= store[c].rev /\ live.base <= store[c].rev
                /\ Usable => /\ latest[c] <= Floor(0, live) + 1
                             /\ Missing(c) \subseteq live.dirty

Kept(c) == QueueKept(c) /\ OpenKept(c)

LEMMA KeptTypes ==
  ASSUME Typed, NEW c \in Chats
  PROVE  /\ store[c].rev \in Nat /\ latest[c] \in Nat /\ shadow[c].rev \in Nat
         /\ writes[c] \in Seq(Writes) /\ writes \in [Chats -> Seq(Writes)]
         /\ store \in [Chats -> Records] /\ latest \in [Chats -> Nat]
         /\ shadow \in [Chats -> Copies]
         /\ ps.revision \in Nat /\ ps.persisted \in Nat /\ ps.queued \in Nat
         /\ live.base \in Nat /\ live \in Graph /\ Floor(0, live) \in Nat
         /\ Floor(0, live) >= ps.revision
         /\ Floor(0, live) \in {0, ps.revision, ps.persisted, ps.queued, live.base}
  <1>1. /\ live \in Graph /\ 0 \in Nat
        /\ store[c].rev \in Nat /\ latest[c] \in Nat /\ shadow[c].rev \in Nat
        /\ writes[c] \in Seq(Writes)
        /\ ps.revision \in Nat /\ ps.persisted \in Nat /\ ps.queued \in Nat
    BY GraphsTyped DEF Records, Copies
  <1>2. /\ Floor(0, live) \in Nat /\ Floor(0, live) >= ps.revision
        /\ Floor(0, live) \in {0, ps.revision, ps.persisted, ps.queued, live.base}
    BY <1>1, FloorBounds
  <1> QED
    BY <1>1, <1>2 DEF Graph, Typed, QueueTyped, StoreTyped

LEMMA QueueSame ==
  ASSUME Typed, NEW c \in Chats, QueueKept(c), UNCHANGED <<shadow[c], store[c], latest[c]>>,
         Missing(c)' = Missing(c), writes'[c] \in {writes[c], AllDisowned(writes)[c]}
  PROVE  QueueKept(c)'
  <1>1. writes \in [Chats -> Seq(Writes)] /\ Waiting(c) \subseteq Writes
    BY KeptTypes, WaitingTyped
  <1>2. CASE writes'[c] = writes[c]
    BY <1>2 DEF QueueKept, Waiting
  <1>3. CASE writes'[c] = AllDisowned(writes)[c]
    <2>1. /\ Elements(writes'[c]) = {Disown(v) : v \in Waiting(c)}
          /\ writes[c] = <<>> <=> writes'[c] = <<>>
          /\ writes[c] # <<>> => Final(writes'[c]) = Disown(Final(writes[c]))
      BY <1>1, <1>3, DisownedQueues DEF Waiting
    <2>2. writes[c] # <<>> => Final(writes[c]) \in Writes
      <3>1. writes[c] # <<>> => Len(writes[c]) \in 1..Len(writes[c])
        BY KeptTypes, TailElements
      <3> QED
        BY <3>1, KeptTypes DEF Final
    <2>3. \A v \in Elements(writes'[c]) : v.kind = "save" /\ v.delta = {} /\ Marked(v)
      <3> SUFFICES ASSUME NEW u \in Waiting(c)
                   PROVE  /\ Disown(u).kind = "save" /\ Disown(u).delta = {}
                          /\ Marked(Disown(u))
        BY <2>1
      <3>1. u \in Writes /\ u.kind = "save" /\ u.delta = {} /\ Marked(u)
        BY <1>1 DEF QueueKept
      <3> QED
        BY <3>1, DisownIs DEF Marked
    <2>4. writes'[c] # <<>> => /\ Final(writes'[c]).rev = latest'[c]
                               /\ Missing(c)' \subseteq Final(writes'[c]).g.dirty
      BY <2>1, <2>2, DisownIs DEF QueueKept
    <2> QED
      BY <2>1, <2>3, <2>4 DEF QueueKept, Waiting
  <1> QED
    BY <1>2, <1>3

SameRevisions == UNCHANGED <<ps.revision, ps.persisted, ps.queued, ps.load>>

LEMMA OpenSame ==
  ASSUME Typed, NEW c \in Chats, OpenKept(c),
         c = chat' => /\ SameRevisions /\ UNCHANGED <<chat, live, store[c], latest[c]>>
                      /\ Missing(c)' = Missing(c)
  PROVE  OpenKept(c)'
  BY DEF OpenKept, Usable, Floor, SameRevisions

\* A step of another chat, or one that saves nothing.
LEMMA KeptSame ==
  ASSUME Typed, NEW c \in Chats, Kept(c), UNCHANGED <<shadow[c], store[c], latest[c]>>,
         Missing(c)' = Missing(c), writes'[c] \in {writes[c], AllDisowned(writes)[c]},
         c = chat' => SameRevisions /\ UNCHANGED <<chat, live>>
  PROVE  Kept(c)'
  BY QueueSame, OpenSame DEF Kept

LEMMA EditKept ==
  ASSUME Typed, Typed', NEW i \in Edits, Edit(i), NEW c \in Chats, Kept(c)
  PROVE  Kept(c)'
  <1> DEFINE w == SaveOf(i)
             r == Allocate(0, live)
  <1>1. /\ chat \in Chats /\ chat' = chat /\ store' = store /\ Home[i] = chat /\ Usable
        /\ used' = used \cup {i} /\ live' = Edited(i) /\ ps' = [ps EXCEPT !.pending = FALSE]
        /\ latest' = [latest EXCEPT ![chat] = Largest({@, r})]
        /\ shadow' \in {shadow, [shadow EXCEPT ![chat] = Copy(ps.revision, Edited(i))]}
        /\ Room(chat) /\ Enqueue(chat, w)
    BY DEF Edit, SaveOf, Edited, Typed, OpenTyped
  <1>2. /\ w \in Writes /\ w.kind = "save" /\ w.g = Edited(i) /\ w.rev = r /\ w.delta = {}
        /\ Edited(i).dirty = live.dirty \cup {i} /\ Edited(i).base = live.base
    BY SaveOfIs
  <1>3. /\ writes'[chat] # <<>> /\ Final(writes'[chat]) = w
        /\ Elements(writes'[chat]) = Waiting(chat) \cup {w}
        /\ \A d \in Chats \ {chat} : writes'[d] = writes[d]
    BY <1>1, <1>2, Enqueued DEF Waiting
  <1>4. CASE c # chat
    <2>1. Missing(c)' = Missing(c)
      BY <1>1, <1>4 DEF Missing
    <2>2. UNCHANGED <<shadow[c], store[c], latest[c]>> /\ writes'[c] = writes[c]
      BY <1>1, <1>3, <1>4, KeptTypes
    <2> QED
      BY <1>1, <1>4, <2>1, <2>2, KeptSame DEF SameRevisions
  <1>5. CASE c = chat
    <2>1. /\ store[c].rev \in Nat /\ latest[c] \in Nat /\ ps.revision \in Nat
          /\ Floor(0, live) \in Nat /\ r = Floor(0, live) + 1 /\ r \in Nat
          /\ latest \in [Chats -> Nat] /\ shadow \in [Chats -> Copies]
          /\ Floor(0, live) \in {0, ps.revision, ps.persisted, ps.queued, live.base}
      BY KeptTypes, AllocateBounds
    <2>2. /\ ps.revision <= store[c].rev /\ ps.persisted <= store[c].rev
          /\ ps.queued <= store[c].rev /\ live.base <= store[c].rev
          /\ latest[c] <= Floor(0, live) + 1 /\ Missing(c) \subseteq live.dirty
          /\ QueueKept(c)
      BY <1>1, <1>5 DEF Kept, OpenKept
    <2> HIDE DEF r
    <2>3. latest'[c] = r /\ r <= store[c].rev + 1
      <3>1. Largest({latest[c], r}) = r
        <4>1. Largest({latest[c], r}) \in Nat /\ Largest({latest[c], r}) >= r
              /\ (Largest({latest[c], r}) = r \/ Largest({latest[c], r}) = latest[c])
          BY <2>1, LargestPair
        <4> QED
          BY <2>1, <2>2, <4>1
      <3>2. Floor(0, live) <= store[c].rev
        BY <2>1, <2>2
      <3> QED
        BY <1>1, <1>5, <2>1, <3>1, <3>2
    <2>4. Missing(c)' \subseteq Edited(i).dirty
      BY <1>1, <1>2, <2>2 DEF Missing
    <2>5. shadow'[c].rev <= store[c].rev
      <3>1. Copy(ps.revision, Edited(i)).rev = ps.revision
        BY DEF Copy
      <3> QED
        BY <1>1, <1>5, <2>1, <2>2, <3>1 DEF QueueKept
    <2>6. QueueKept(c)'
      <3>1. \A v \in Elements(writes'[c]) : v.kind = "save" /\ v.delta = {} /\ Marked(v)
        BY <1>2, <1>3, <1>5, <2>2 DEF QueueKept, Marked
      <3>2. /\ writes'[c] # <<>> /\ Final(writes'[c]).rev = latest'[c]
            /\ Missing(c)' \subseteq Final(writes'[c]).g.dirty
        BY <1>2, <1>3, <1>5, <2>3, <2>4
      <3> QED
        BY <1>1, <2>3, <2>5, <3>1, <3>2 DEF QueueKept, Waiting
    <2>7. OpenKept(c)'
      <3>1. /\ ps'.revision = ps.revision /\ ps'.persisted = ps.persisted
            /\ ps'.queued = ps.queued /\ live'.base = live.base /\ ps'.load = ps.load
        BY <1>1, <1>2 DEF Typed, OpenTyped, States
      <3>2. Floor(0, live)' = Floor(0, live)
        BY <3>1 DEF Floor
      <3> QED
        BY <1>1, <1>2, <2>1, <2>2, <2>3, <2>4, <3>1, <3>2 DEF OpenKept
    <2> QED
      BY <2>6, <2>7 DEF Kept
  <1> QED
    BY <1>4, <1>5

\* The first write of another queue than c's is of no concern to c.
LEMMA CommitElsewhere ==
  ASSUME Typed, Owned, OneBatch, NEW c \in Chats, NEW d \in Chats, d # c, Commit(d), Kept(c)
  PROVE  Kept(c)'
  <1> DEFINE w == Head(writes[d])
             r == NextRev(d, w)
             items == NextItems(d, w)
  <1>1. /\ w \in Waiting(d) /\ w \in Writes /\ writes[d] # <<>>
        /\ Popped(d) \in [Chats -> Seq(Writes)] /\ Popped(d)[c] = writes[c]
    BY PoppedQueue DEF Commit
  <1>2. writes'[c] \in {writes[c], AllDisowned(writes)[c]}
    <2>1. AllDisowned(Popped(d))[c] = AllDisowned(writes)[c]
      BY <1>1 DEF AllDisowned
    <2>2. writes' = Popped(d) \/ writes' = AllDisowned(Popped(d))
      BY DEF Commit
    <2> QED
      BY <1>1, <2>1, <2>2
  <1>3. store' = [store EXCEPT ![d] = [rev |-> r, items |-> items]]
    BY DEF Commit
  <1> HIDE DEF r, items
  <1>4. store'[c] = store[c] /\ UNCHANGED <<shadow[c], latest[c]>> /\ Missing(c)' = Missing(c)
    <2>1. store'[c] = store[c]
      BY <1>3, KeptTypes
    <2> QED
      BY <2>1 DEF Commit, Missing
  <1>5. c = chat' => UNCHANGED <<chat, ps, live>>
    <2> SUFFICES ASSUME c = chat PROVE UNCHANGED <<chat, ps, live>>
      BY DEF Commit
    <2>1. UNCHANGED ps
      BY DEF Commit, Accept
    <2>2. ~w.mine
      BY <1>1 DEF Owned
    <2>3. ~Publishes(d, w)
      <3>1. w.kind = "batch" => BatchAt(writes, d, 1)
        BY <1>1, KeptTypes, TailElements DEF BatchAt
      <3>2. w.kind = "batch" => ~batch.mine
        BY <3>1 DEF OneBatch
      <3> QED
        BY <3>2 DEF Publishes, BatchCurrent
    <2> QED
      BY <2>1, <2>2, <2>3 DEF Commit
  <1> QED
    BY <1>2, <1>4, <1>5, KeptSame DEF SameRevisions

LEMMA CommitHere ==
  ASSUME Typed, Typed', Owned, NEW c \in Chats, Commit(c), Kept(c)
  PROVE  Kept(c)'
  <1> DEFINE w == Head(writes[c])
             r == NextRev(c, w)
             items == NextItems(c, w)
  <1>1. /\ w \in Waiting(c) /\ w \in Writes /\ writes[c] # <<>>
        /\ Popped(c)[c] = Tail(writes[c])
        /\ Waiting(c) = {w} \cup Elements(Popped(c)[c])
        /\ Popped(c)[c] # <<>> => Final(Popped(c)[c]) = Final(writes[c])
        /\ Popped(c)[c] = <<>> => Final(writes[c]) = w
    BY PoppedQueue DEF Commit
  <1>2. w.kind = "save" /\ w.delta = {} /\ Marked(w) /\ ~Publishes(c, w)
    BY <1>1 DEF Kept, QueueKept, Publishes
  <1>3. /\ writes' = Popped(c) /\ Accept(c, w)
        /\ live' = (IF w.mine THEN AfterSave(live, w, r) ELSE live)
        /\ UNCHANGED <<chat, shadow, latest, used>>
    BY <1>2 DEF Commit
  <1>4. store'[c].rev = r /\ store'[c].items = items
    <2>1. store' = [store EXCEPT ![c] = [rev |-> r, items |-> items]]
      BY DEF Commit
    <2> HIDE DEF r, items
    <2> QED
      BY <2>1, KeptTypes
  <1>5. /\ r \in Nat /\ r >= store[c].rev + 1 /\ store[c].rev \in Nat /\ latest[c] \in Nat
        /\ shadow[c].rev \in Nat
    BY <1>1, CommitsTyped, KeptTypes
  <1>6. store[c].items \subseteq items /\ w.g.dirty \subseteq items
    BY <1>2 DEF NextItems, Rebuilt
  <1>7. Missing(c)' = Missing(c) \ items /\ Missing(c)' \cap w.g.dirty = {}
    BY <1>3, <1>4, <1>6 DEF Missing
  <1> HIDE DEF r, items
  <1>8. QueueKept(c)'
    <2>1. \A v \in Elements(writes'[c]) : v.kind = "save" /\ v.delta = {} /\ Marked(v)
      BY <1>1, <1>3 DEF Kept, QueueKept
    <2>2. latest'[c] <= store'[c].rev /\ shadow'[c].rev <= store'[c].rev
      BY <1>3, <1>4, <1>5 DEF Kept, QueueKept
    <2>3. writes'[c] = <<>> => Missing(c)' = {}
      BY <1>1, <1>3, <1>7 DEF Kept, QueueKept
    <2>4. writes'[c] # <<>> => /\ Final(writes'[c]).rev = latest'[c]
                               /\ Missing(c)' \subseteq Final(writes'[c]).g.dirty
      BY <1>1, <1>3, <1>7 DEF Kept, QueueKept
    <2>5. latest'[c] <= store'[c].rev + 1
      BY <1>3, <1>4, <1>5, <2>2
    <2> QED
      BY <2>1, <2>2, <2>3, <2>4, <2>5 DEF QueueKept, Waiting
  <1>9. OpenKept(c)'
    <2> SUFFICES ASSUME c = chat
                 PROVE  /\ ps'.revision <= r /\ ps'.persisted <= r /\ ps'.queued <= r
                        /\ live'.base <= r
                        /\ Usable' => /\ latest[c] <= Floor(0, live)' + 1
                                      /\ Missing(c)' \subseteq live'.dirty
      BY <1>3, <1>4 DEF OpenKept
    <2>1. /\ ps'.revision = r /\ ps'.persisted = r /\ ps'.queued = 0
          /\ (Usable' => Usable)
      <3>1. ps \in States /\ Accept(c, w)
        BY <1>3 DEF Typed, OpenTyped
      <3> HIDE DEF w
      <3> QED
        BY <3>1 DEF Accept, r, Usable, States
    <2>2. live.base \in Nat /\ live.base <= store[c].rev /\ (Usable => Missing(c) \subseteq live.dirty)
      BY KeptTypes DEF Kept, OpenKept
    <2>3. live \in Graph /\ live.dirty \subseteq live.items
      BY GraphsTyped
    <2>4. live'.base \in {live.base, r} /\ live.dirty \ w.g.dirty \subseteq live'.dirty
      BY <1>1, <1>3, <1>5, <2>3, SavedTyped
    <2>5. Usable' => Missing(c)' \subseteq live'.dirty
      BY <1>7, <2>1, <2>2, <2>4
    <2>6. Floor(0, live)' \in Nat /\ Floor(0, live)' >= ps'.revision
      <3>1. /\ ps'.revision \in Nat /\ ps'.persisted \in Nat /\ ps'.queued \in Nat
            /\ live'.base \in Nat /\ 0 \in Nat
        BY DEF Typed, OpenTyped, IsGraph, Graph, States
      <3> QED
        BY <3>1, LargestOfFive DEF Floor
    <2>7. latest[c] <= Floor(0, live)' + 1
      BY <1>5, <2>1, <2>6 DEF Kept, QueueKept
    <2> QED
      BY <1>5, <2>1, <2>2, <2>4, <2>5, <2>7
  <1> QED
    BY <1>8, <1>9 DEF Kept

LEMMA SkipKept ==
  ASSUME Typed, NEW c \in Chats, NEW d \in Chats, Skip(d), Kept(c)
  PROVE  Kept(c)'
  <1>1. UNCHANGED <<chat, ps, live, store, shadow, latest, used>> /\ writes' = Popped(d)
    BY DEF Skip, memory, durable
  <1>2. Missing(c)' = Missing(c)
    BY <1>1 DEF Missing
  <1>3. CASE c # d
    BY <1>1, <1>2, <1>3, PoppedQueue, KeptSame DEF Skip, SameRevisions
  <1>4. CASE c = d
    <2> DEFINE w == Head(writes[c])
    <2>1. /\ w \in Waiting(c) /\ w \in Writes /\ writes[c] # <<>>
          /\ Waiting(c) = {w} \cup Elements(Popped(c)[c])
          /\ Popped(c)[c] # <<>> => Final(Popped(c)[c]) = Final(writes[c])
          /\ Popped(c)[c] = <<>> => Final(writes[c]) = w
      BY <1>4, PoppedQueue DEF Skip
    <2>2. w.rev < latest[c] /\ w.rev \in Nat /\ latest[c] \in Nat
      BY <1>4, <2>1, KeptTypes, WriteFields DEF Skip, Superseded
    <2>3. Popped(c)[c] # <<>>
      BY <2>1, <2>2 DEF Kept, QueueKept
    <2>4. QueueKept(c)'
      BY <1>1, <1>2, <1>4, <2>1, <2>3 DEF Kept, QueueKept, Waiting
    <2>5. OpenKept(c)'
      BY <1>1, <1>2, OpenSame DEF Kept, SameRevisions
    <2> QED
      BY <2>4, <2>5 DEF Kept
  <1> QED
    BY <1>3, <1>4

LEMMA EnterKept ==
  ASSUME Typed, NEW c \in Chats, NEW d \in Chats, OpenChat(d), Kept(c)
  PROVE  Kept(c)'
  <1>1. /\ UNCHANGED <<store, shadow, latest, used>> /\ writes' = AllDisowned(writes)
        /\ chat' = d /\ ps' = Fresh /\ live' = NoGraph
    BY DEF OpenChat, durable
  <1>2. Missing(c)' = Missing(c)
    BY <1>1 DEF Missing
  <1>3. QueueKept(c)'
    BY <1>1, <1>2, QueueSame DEF Kept
  <1>4. OpenKept(c)'
    BY <1>1, KeptTypes DEF OpenKept, Fresh, NoGraph, Usable
  <1> QED
    BY <1>3, <1>4 DEF Kept

LEMMA FlushKept ==
  ASSUME Typed, NEW c \in Chats, Flush, Kept(c)
  PROVE  Kept(c)'
  <1> DEFINE r == Largest({ps.revision, ps.queued})
  <1>1. /\ UNCHANGED <<chat, live, store, shadow, latest, used, writes>>
        /\ ps' = [ps EXCEPT !.revision = r, !.recoverable = TRUE]
    BY DEF Flush
  <1>2. Missing(c)' = Missing(c)
    BY <1>1 DEF Missing
  <1>3. QueueKept(c)'
    BY <1>1, <1>2, QueueSame DEF Kept
  <1>4. OpenKept(c)'
    <2> SUFFICES ASSUME c = chat
                 PROVE  /\ ps'.revision <= store[c].rev /\ ps'.persisted <= store[c].rev
                        /\ ps'.queued <= store[c].rev /\ live.base <= store[c].rev
                        /\ Usable' => /\ latest[c] <= Floor(0, live)' + 1
                                      /\ Missing(c) \subseteq live.dirty
      BY <1>1, <1>2 DEF OpenKept
    <2>1. /\ ps.revision \in Nat /\ ps.persisted \in Nat /\ ps.queued \in Nat
          /\ live.base \in Nat /\ store[c].rev \in Nat /\ latest[c] \in Nat
          /\ Floor(0, live) \in Nat
          /\ Floor(0, live) \in {0, ps.revision, ps.persisted, ps.queued, live.base}
      BY KeptTypes
    <2>2. r \in Nat /\ r >= ps.revision /\ r >= ps.queued /\ (r = ps.revision \/ r = ps.queued)
      BY <2>1, LargestPair
    <2> HIDE DEF r
    <2>3. /\ ps'.revision = r /\ ps'.persisted = ps.persisted /\ ps'.queued = ps.queued
          /\ ps'.load = ps.load
      BY <1>1 DEF Typed, OpenTyped, States
    <2>4. Floor(0, live)' = Largest({0, r, ps.persisted, ps.queued, live.base})
      BY <1>1, <2>3 DEF Floor
    <2>5. Floor(0, live)' \in Nat /\ Floor(0, live)' >= Floor(0, live)
      <3> DEFINE m == Largest({0, r, ps.persisted, ps.queued, live.base})
      <3>1. /\ m \in Nat /\ m >= 0 /\ m >= r /\ m >= ps.persisted /\ m >= ps.queued
            /\ m >= live.base
        BY <2>1, <2>2, LargestOfFive
      <3> HIDE DEF m
      <3>2. m >= Floor(0, live)
        BY <2>1, <2>2, <3>1
      <3> QED
        BY <2>4, <3>1, <3>2 DEF m
    <2>6. /\ ps.revision <= store[c].rev /\ ps.persisted <= store[c].rev
          /\ ps.queued <= store[c].rev /\ live.base <= store[c].rev
          /\ Usable => latest[c] <= Floor(0, live) + 1 /\ Missing(c) \subseteq live.dirty
      BY DEF Kept, OpenKept
    <2>7. Usable' => Usable
      BY <2>3 DEF Usable
    <2> QED
      BY <2>1, <2>2, <2>3, <2>5, <2>6, <2>7
  <1> QED
    BY <1>3, <1>4 DEF Kept

LEMMA LoadKept ==
  ASSUME Typed, Typed', NEW c \in Chats, c \notin reloaded', LoadApply, Kept(c)
  PROVE  Kept(c)'
  <1>1. /\ UNCHANGED <<chat, store, used>> /\ chat \in Chats
        /\ Missing(c)' = Missing(c)
    BY DEF LoadApply, Missing, Typed, OpenTyped
  <1>2. /\ store[c].rev \in Nat /\ shadow[c].rev \in Nat /\ latest[c] \in Nat
        /\ latest \in [Chats -> Nat] /\ shadow \in [Chats -> Copies]
        /\ writes \in [Chats -> Seq(Writes)]
    BY KeptTypes
  <1>3. CASE Keeps
    BY <1>1, <1>3, KeptSame DEF Keeps, SameRevisions
  <1>4. CASE c # chat /\ (Restores \/ Applies)
    <2>1. UNCHANGED <<shadow[c], latest[c]>> /\ writes'[c] = AllDisowned(writes)[c]
      BY <1>1, <1>2, <1>4, RestoredQueue DEF Restores, RestoreShadow, Applies, ApplySnapshot
    <2> QED
      BY <1>1, <1>4, <2>1, KeptSame DEF SameRevisions
  <1>5. ASSUME c = chat, Restores \/ Applies
        PROVE  writes[c] = <<>> /\ reading.rev = store[c].rev
    BY <1>1, <1>5 DEF Restores, Applies, Reloaded
  <1>6. CASE c = chat /\ Restores
    <2>1. shadow[c].rev > reading.rev
      BY <1>6 DEF Restores
    <2> QED
      BY <1>2, <1>5, <1>6, <2>1 DEF Kept, QueueKept
  <1>7. CASE c = chat /\ Applies
    <2>1. /\ live' = Loaded(reading, reading.rev) /\ latest' = latest
          /\ ps' = [ps EXCEPT !.revision = reading.rev, !.pending = FALSE, !.queued = 0,
                      !.persisted = Largest({@, reading.rev}), !.load = "loaded",
                      !.accepted = Largest({@, reading.rev})]
          /\ shadow' = [shadow EXCEPT ![chat] = NoCopy]
          /\ writes' = AllDisowned(writes)
      BY <1>7 DEF Applies, ApplySnapshot
    <2>2. writes[c] = <<>> /\ reading.rev = store[c].rev
      BY <1>5, <1>7
    <2>3. /\ Missing(c) = {} /\ latest[c] <= store[c].rev
          /\ ps.persisted \in Nat /\ ps.persisted <= store[c].rev
      BY <1>7, <2>2, KeptTypes DEF Kept, QueueKept, OpenKept
    <2>4. writes'[c] = <<>> /\ Elements(writes'[c]) = {}
      <3>1. writes'[c] = <<>>
        BY <1>2, <2>1, <2>2, DisownedQueues
      <3> QED
        BY <3>1, EmptySeq DEF Elements
    <2>5. shadow'[c].rev = 0
      BY <1>2, <1>7, <2>1 DEF NoCopy
    <2>6. QueueKept(c)'
      BY <1>1, <1>2, <2>1, <2>3, <2>4, <2>5 DEF QueueKept, Waiting
    <2>7. /\ ps'.revision = reading.rev /\ ps'.persisted = Largest({ps.persisted, reading.rev})
          /\ ps'.queued = 0 /\ live'.base = reading.rev
      BY <2>1 DEF Typed, OpenTyped, States, Loaded
    <2>8. Largest({ps.persisted, reading.rev}) \in {ps.persisted, reading.rev}
      BY <1>2, <2>2, <2>3, LargestPair
    <2>9. Floor(0, live)' \in Nat /\ Floor(0, live)' >= ps'.revision
      <3>1. /\ ps'.revision \in Nat /\ ps'.persisted \in Nat /\ ps'.queued \in Nat
            /\ live'.base \in Nat /\ 0 \in Nat
        BY DEF Typed, OpenTyped, IsGraph, Graph, States
      <3> QED
        BY <3>1, LargestOfFive DEF Floor
    <2>10. OpenKept(c)'
      BY <1>1, <1>2, <2>1, <2>2, <2>3, <2>7, <2>8, <2>9 DEF OpenKept
    <2> QED
      BY <2>6, <2>10 DEF Kept
  <1> QED
    BY <1>3, <1>4, <1>6, <1>7, LoadDoes

KeptInv == \A c \in Chats : Undisturbed(c) => Kept(c)

EditsInv == BatchShared /\ KeptInv

LEMMA UndisturbedBefore ==
  ASSUME Typed, PersistNext, NEW c \in Chats, Undisturbed(c)'
  PROVE  Undisturbed(c)
  <1>1. CASE RetryStep
    BY <1>1, RetriesDo, CountsUp DEF Retries, Undisturbed
  <1>2. CASE ~RetryStep
    <2>1. used \subseteq used' /\ reloaded \subseteq reloaded'
      BY <1>2, LoadDoes DEF PersistNext, RetryStep, UseRestoreLock, Edit, StartBatch,
         PersistBatch, Flush, Skip, FailWrite, Commit, RemoteCommit, OpenChat, LoadRead,
         LoadApply, Restores, Applies, Keeps, Reloaded
    <2> QED
      BY <2>1, CountsUp DEF Undisturbed
  <1> QED
    BY <1>1, <1>2

\* A retry of another chat, a write of another chat that failed, or the restore lock.
LEMMA KeptAside ==
  ASSUME Typed, PersistNext, NEW c \in Chats, Undisturbed(c)', Kept(c),
         RetryStep \/ UseRestoreLock \/ \E d \in Chats : FailWrite(d)
  PROVE  Kept(c)'
  <1>1. /\ writes \in [Chats -> Seq(Writes)] /\ shadow \in [Chats -> Copies]
        /\ ps \in States
    BY KeptTypes DEF Typed, OpenTyped
  <1>2. CASE RetryStep
    <2>1. /\ UNCHANGED <<chat, live, store, shadow, latest, used>> /\ SameRevisions
          /\ UNCHANGED writes \/ \E d \in Chats : Retries(d)
      BY <1>1, <1>2, RetriesDo DEF SameRevisions, States
    <2>2. writes'[c] = writes[c]
      <3>1. ASSUME NEW d \in Chats, Retries(d) PROVE writes'[c] = writes[c]
        <4>1. c # d
          BY <3>1 DEF Retries, Undisturbed
        <4> QED
          BY <3>1, <4>1, Enqueued DEF Retries
      <3> QED
        BY <2>1, <3>1
    <2>3. Missing(c)' = Missing(c)
      BY <2>1 DEF Missing
    <2> QED
      BY <2>1, <2>2, <2>3, KeptSame DEF SameRevisions
  <1>3. CASE UseRestoreLock
    <2>1. /\ UNCHANGED <<chat, live, store, shadow, latest, used, writes>> /\ SameRevisions
      BY <1>1, <1>3 DEF UseRestoreLock, durable, SameRevisions, States
    <2>2. Missing(c)' = Missing(c)
      BY <2>1 DEF Missing
    <2> QED
      BY <2>1, <2>2, KeptSame DEF SameRevisions
  <1>4. CASE \E d \in Chats : FailWrite(d)
    <2> PICK d \in Chats : FailWrite(d)
      BY <1>4
    <2> DEFINE w == Head(writes[d])
    <2>1. c # d
      <3>1. ~CanCommit(d, w)
        BY CountsUp DEF Undisturbed
      <3>2. w \in Waiting(d)
        BY PoppedQueue DEF FailWrite
      <3> QED
        BY <3>1, <3>2 DEF CanCommit, Kept, QueueKept
    <2>2. /\ UNCHANGED <<chat, live, store, latest, used>> /\ writes' = Popped(d)
          /\ writes[d] # <<>>
      BY DEF FailWrite
    <2>3. shadow'[c] = shadow[c] /\ writes'[c] = writes[c]
      <3>1. shadow' \in {shadow, [shadow EXCEPT ![d] = Copy(w.rev, IF w.mine THEN live ELSE w.g)]}
        BY DEF FailWrite
      <3> HIDE DEF w
      <3> QED
        BY <1>1, <2>1, <2>2, <3>1, PoppedQueue
    <2>4. c = chat' => SameRevisions
      <3>1. c = chat => ps' = ps
        BY <2>1 DEF FailWrite
      <3> QED
        BY <2>2, <3>1 DEF SameRevisions
    <2>5. Missing(c)' = Missing(c)
      BY <2>2 DEF Missing
    <2> QED
      BY <2>2, <2>3, <2>4, <2>5, KeptSame DEF SameRevisions
  <1> QED
    BY <1>2, <1>3, <1>4

LEMMA KeptStep ==
  ASSUME Typed, Typed', Handled, OneBatch, EditsInv, PersistNext,
         NEW c \in Chats, Undisturbed(c)'
  PROVE  Kept(c)'
  <1>1. Undisturbed(c) /\ ~Shared(c) /\ Kept(c)
    BY UndisturbedBefore DEF EditsInv, KeptInv, Undisturbed, Shared
  <1>2. CASE RetryStep \/ UseRestoreLock \/ \E d \in Chats : FailWrite(d)
    BY <1>1, <1>2, KeptAside
  <1>3. CASE \E i \in Foreign : RemoteCommit(i)
    <2> PICK i \in Foreign : RemoteCommit(i)
      BY <1>3
    <2>1. /\ UNCHANGED <<chat, ps, live, shadow, latest, writes>>
          /\ used' = used \cup {i} /\ i \notin Edits
      BY PersistAssumption DEF RemoteCommit, memory
    <2>2. Home[i] # c
      BY <2>1 DEF Undisturbed
    <2>3. store'[c] = store[c]
      BY <2>2, RemoteAdds
    <2>4. Missing(c)' = Missing(c)
      BY <2>1, <2>3 DEF Missing
    <2> QED
      BY <1>1, <2>1, <2>3, <2>4, KeptSame DEF SameRevisions
  <1>4. CASE \E i \in Edits : Edit(i)
    BY <1>1, <1>4, EditKept
  <1>5. CASE \E i \in Extracts : StartBatch(i)
    <2> PICK x \in Extracts : StartBatch(x)
      BY <1>5
    <2>1. /\ UNCHANGED <<chat, ps, live, store, shadow, latest, writes>>
          /\ used' = used \cup {x} /\ x \notin Edits
      BY PersistAssumption DEF StartBatch, memory, durable
    <2>2. Missing(c)' = Missing(c)
      BY <2>1 DEF Missing
    <2> QED
      BY <1>1, <2>1, <2>2, KeptSame DEF SameRevisions
  <1>6. CASE PersistBatch
    <2>1. UNCHANGED <<chat, ps, live, store, shadow, latest, used>> /\ chat \in Chats
      BY <1>6 DEF PersistBatch, memory, durable, Typed, OpenTyped
    <2>2. writes'[c] = writes[c]
      <3>1. CASE BatchCurrent
        <4>1. c # chat
          BY <1>1, <1>6, <3>1 DEF PersistBatch, BatchCurrent, EditsInv, BatchShared
        <4>2. Room(chat) /\ Enqueue(chat, BatchWrite)
          BY <1>6, <3>1 DEF PersistBatch, BatchWrite
        <4> QED
          BY <2>1, <4>1, <4>2, Enqueued, BatchWriteIs
      <3> QED
        BY <1>6, <3>1 DEF PersistBatch
    <2>3. Missing(c)' = Missing(c)
      BY <2>1 DEF Missing
    <2> QED
      BY <1>1, <2>1, <2>2, <2>3, KeptSame DEF SameRevisions
  <1>7. CASE \E d \in Chats : Commit(d)
    <2> PICK d \in Chats : Commit(d)
      BY <1>7
    <2> QED
      BY <1>1, CommitHere, CommitElsewhere DEF Handled
  <1>8. CASE LoadRead
    <2>1. UNCHANGED <<chat, ps, live, store, shadow, latest, used, writes>>
      BY <1>8 DEF LoadRead, memory, durable
    <2> QED
      BY <1>1, <2>1, KeptSame DEF Missing, SameRevisions
  <1>9. CASE LoadApply
    BY <1>1, <1>9, LoadKept DEF Undisturbed
  <1> QED
    BY <1>1, <1>2, <1>3, <1>4, <1>5, <1>6, <1>7, <1>8, <1>9, FlushKept, SkipKept, EnterKept
       DEF PersistNext, RetryStep

LEMMA EditsInit == PersistInit => EditsInv
  <1> SUFFICES ASSUME PersistInit PROVE EditsInv
    OBVIOUS
  <1>1. \A c \in Chats : Waiting(c) = {} /\ writes[c] = <<>>
    BY EmptySeq DEF PersistInit, Waiting, Elements
  <1>3. BatchShared
    BY <1>1 DEF PersistInit, BatchShared, NoBatch
  <1>4. KeptInv
    <2> SUFFICES ASSUME NEW c \in Chats PROVE Kept(c)
      BY DEF KeptInv
    <2>1. /\ store[c].rev = 1 /\ shadow[c].rev = 0 /\ latest[c] = 0 /\ Missing(c) = {}
          /\ ps.revision = 0 /\ ps.persisted = 0 /\ ps.queued = 0 /\ live.base = 0 /\ ~Usable
      BY DEF PersistInit, NoCopy, Missing, Fresh, NoGraph, Usable
    <2> QED
      BY <1>1, <2>1 DEF Kept, QueueKept, OpenKept
  <1> QED
    BY <1>3, <1>4 DEF EditsInv

LEMMA EditsStep ==
  Typed /\ Typed' /\ Handled /\ OneBatch /\ EditsInv /\ [PersistNext]_persistVars => EditsInv'
  <1> SUFFICES ASSUME Typed, Typed', Handled, OneBatch, EditsInv, [PersistNext]_persistVars
               PROVE  EditsInv'
    OBVIOUS
  <1>1. CASE UNCHANGED persistVars
    BY <1>1 DEF persistVars, memory, jobs, durable, EditsInv, Marked, BatchShared, Shared, KeptInv, Undisturbed, Kept, QueueKept, OpenKept, Missing,
                Waiting, Usable, Floor
  <1>2. CASE PersistNext
    <2>2. BatchShared'
      BY <1>2, BatchSharedStep DEF EditsInv, Handled
    <2>3. KeptInv'
      BY <1>2, KeptStep DEF KeptInv
    <2> QED
      BY <2>2, <2>3 DEF EditsInv
  <1> QED
    BY <1>1, <1>2

\* An edit is in the store of its chat, or a write that waits will bring it there,
\* however many edits and saves overlap, chats are left and entered, and saves give way
\* to newer ones: as long as the store refused nothing, no other tab wrote, no batch or
\* retry shared its chat and no load replaced its graph out of turn.
THEOREM EditsAreKept == PersistSpec => []EditsKept
  <1>1. Typed /\ EditsInv => EditsKept
    <2> SUFFICES ASSUME Typed, EditsInv, NEW i \in Edits \cap used, Undisturbed(Home[i]),
                        i \notin store[Home[i]].items
                 PROVE  Coming(i)
      BY DEF EditsKept
    <2> DEFINE c == Home[i]
    <2>1. c \in Chats
      BY PersistAssumption
    <2>2. QueueKept(c) /\ i \in Missing(c)
      BY <2>1 DEF EditsInv, KeptInv, Kept, Missing
    <2>3. writes[c] # <<>> /\ i \in Final(writes[c]).g.dirty
      BY <2>2 DEF QueueKept
    <2>4. Len(writes[c]) \in 1..Len(writes[c])
      BY <2>1, <2>3, KeptTypes, TailElements
    <2> QED
      BY <2>3, <2>4 DEF Coming, Final
  <1> QED
    BY <1>1, TypedInit, TypedStep, HandledInit, HandledStep, HomeInit, HomeStep, EditsInit,
       EditsStep, PTL DEF PersistSpec
=============================================================================
