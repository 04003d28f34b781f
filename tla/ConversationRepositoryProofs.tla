---------------------- MODULE ConversationRepositoryProofs ----------------------
(***************************************************************************)
(* Theorems about ConversationRepository: no open store is lost behind the  *)
(* map's back and no useless entry stays in it, for all chats and calls.    *)
(*                                                                         *)
(* Between two steps of a call the map may change under it.  The invariant  *)
(* says what each call may still rely on: a close owns stores that are no   *)
(* entries any more, a rebind that is not crossed still has its entry, and  *)
(* every entry that is not open has a call that will see to it.             *)
(***************************************************************************)
EXTENDS ConversationRepository, SequenceTheorems, TLAPS

Stages == {"opening", "open", "failed", "closing", "closed"}

Pcs == {"returned", "get", "rebind", "rebind closes", "close", "closes"}

RebindPcs == {"rebind", "rebind closes"}

ClosePcs == {"close", "closes"}

Stores == [home : Conversations, stage : Stages]

\* The stores a call has to do with.
Ids(p) == {calls[p].id} \cup calls[p].rest

StoresTyped == /\ stores \in Seq(Stores)
               /\ entries \in [Conversations -> Nat]
               /\ \A c \in Conversations :
                    entries[c] # 0 => /\ entries[c] \in 1..Len(stores)
                                      /\ stores[entries[c]].home = c

CallsTyped == /\ calls \in [Callers -> [pc : Pcs, id : Nat, rest : SUBSET Nat]]
              /\ \A p \in Callers : /\ calls[p].pc # "returned" => Ids(p) \subseteq 1..Len(stores)
                                    /\ calls[p].pc \notin ClosePcs => calls[p].rest = {}
              /\ current = NoConversation \/ current \in Conversations

Typed == StoresTyped /\ CallsTyped /\ crossed \in BOOLEAN

\* An entry that is not open has a call that will see to it.
EntryAttended(c) ==
    entries[c] # 0 =>
        /\ stores[entries[c]].stage # "closed"
        /\ stores[entries[c]].stage \in {"opening", "failed"} =>
             \E p \in Callers : calls[p].pc = "get" /\ calls[p].id = entries[c]
        /\ stores[entries[c]].stage = "closing" =>
             \E p \in Callers : calls[p].pc = "rebind closes" /\ calls[p].id = entries[c]

EntriesAttended == \A c \in Conversations : EntryAttended(c)

\* What is being closed is no entry any more.
ClosedAway == \A p \in Callers : calls[p].pc \in ClosePcs =>
                \A c \in Conversations : entries[c] \notin Ids(p)

RebindBegun == \A p \in Callers : calls[p].pc = "rebind closes" =>
                 stores[calls[p].id].stage \in {"closing", "closed"}

\* A rebind that nothing crossed is the only one, and has its entry until it removes it.
RebindAlone == ~crossed =>
    \A p \in Callers : calls[p].pc \in RebindPcs =>
        /\ \A q \in Callers : calls[q].pc \in RebindPcs => p = q
        /\ Failed(calls[p].id) \/ entries[stores[calls[p].id].home] = calls[p].id

Attended == EntriesAttended /\ ClosedAway /\ RebindBegun /\ RebindAlone /\ NoStoreLost

-----------------------------------------------------------------------------
(* Steps                                                                    *)

LEMMA StagedIs ==
  ASSUME Typed, NEW id \in 1..Len(stores), NEW stage \in Stages
  PROVE  /\ Staged(id, stage) \in Seq(Stores) /\ Len(Staged(id, stage)) = Len(stores)
         /\ \A n \in 1..Len(stores) :
              /\ Staged(id, stage)[n].home = stores[n].home
              /\ Staged(id, stage)[n].stage = IF n = id THEN stage ELSE stores[n].stage
  <1>1. stores \in Seq(Stores) /\ Len(stores) \in Nat
    BY DEF Typed, StoresTyped
  <1>2. \A n \in 1..Len(stores) : stores[n] \in Stores
    BY <1>1
  <1>3. [stores[id] EXCEPT !.stage = stage] \in Stores
    BY <1>2 DEF Stores
  <1>4. Staged(id, stage) = [stores EXCEPT ![id] = [stores[id] EXCEPT !.stage = stage]]
    BY DEF Staged
  <1>5. Staged(id, stage) \in Seq(Stores) /\ Len(Staged(id, stage)) = Len(stores)
    BY <1>1, <1>3, <1>4
  <1>6. \A n \in 1..Len(stores) : Staged(id, stage)[n] =
          IF n = id THEN [stores[id] EXCEPT !.stage = stage] ELSE stores[n]
    BY <1>1, <1>4
  <1> QED
    BY <1>2, <1>5, <1>6 DEF Stores

\* The entry there is, or a store of its own for a chat that has none.
LEMMA LookupIs ==
  ASSUME NEW p \in Callers, NEW c \in Conversations, NEW map, NEW made \in Seq(Stores),
         Lookup(p, c, map, made)
  PROVE  \/ /\ map[c] # 0 /\ entries' = map /\ stores' = made
            /\ calls' = [calls EXCEPT ![p] = [pc |-> "get", id |-> map[c], rest |-> {}]]
         \/ /\ map[c] = 0 /\ entries' = [map EXCEPT ![c] = Len(made) + 1]
            /\ stores' \in Seq(Stores) /\ Len(stores') = Len(made) + 1 /\ Len(made) \in Nat
            /\ \A n \in 1..Len(made) : stores'[n] = made[n]
            /\ stores'[Len(made) + 1].home = c /\ stores'[Len(made) + 1].stage = "opening"
            /\ calls' = [calls EXCEPT ![p] = [pc |-> "get", id |-> Len(made) + 1, rest |-> {}]]
  <1> DEFINE s == [home |-> c, stage |-> "opening"]
  <1>1. s \in Stores
    BY DEF Stores, Stages
  <1>2. /\ Append(made, s) \in Seq(Stores) /\ Len(made) \in Nat
        /\ Len(Append(made, s)) = Len(made) + 1
        /\ \A n \in 1..Len(made) : Append(made, s)[n] = made[n]
        /\ Append(made, s)[Len(made) + 1] = s
    <2> HIDE DEF s
    <2> QED
      BY <1>1
  <1>3. s.home = c /\ s.stage = "opening"
    OBVIOUS
  <1>4. map[c] = 0 => stores' = Append(made, s)
    BY DEF Lookup
  <1> HIDE DEF s
  <1> QED
    BY <1>2, <1>3, <1>4 DEF Lookup, Waits

LEMMA Known ==
  ASSUME Typed
  PROVE  /\ stores \in Seq(Stores) /\ Len(stores) \in Nat /\ DOMAIN stores = 1..Len(stores)
         /\ \A n \in 1..Len(stores) : stores[n].home \in Conversations /\ stores[n].stage \in Stages
         /\ \A p \in Callers : calls[p].pc # "returned" => calls[p].id \in 1..Len(stores)
  <1>1. stores \in Seq(Stores)
    BY DEF Typed, StoresTyped
  <1>2. \A n \in 1..Len(stores) : stores[n] \in Stores
    BY <1>1
  <1>3. \A n \in 1..Len(stores) : stores[n].home \in Conversations /\ stores[n].stage \in Stages
    BY <1>2 DEF Stores
  <1> QED
    BY <1>1, <1>3 DEF Typed, CallsTyped, Ids

Call == [pc : Pcs, id : Nat, rest : SUBSET Nat]

\* One call goes on, the others wait.
LEMMA CallMoves ==
  ASSUME Typed, NEW p \in Callers, NEW pc \in Pcs, NEW id \in Nat, NEW rest \in SUBSET Nat,
         calls' = [calls EXCEPT ![p] = [pc |-> pc, id |-> id, rest |-> rest]]
  PROVE  /\ calls' \in [Callers -> Call]
         /\ calls'[p].pc = pc /\ calls'[p].id = id /\ calls'[p].rest = rest
         /\ \A q \in Callers \ {p} : calls'[q] = calls[q]
  <1> DEFINE k == [pc |-> pc, id |-> id, rest |-> rest]
  <1>1. k \in Call /\ k.pc = pc /\ k.id = id /\ k.rest = rest
    BY DEF Call
  <1>2. calls \in [Callers -> Call] /\ calls' = [calls EXCEPT ![p] = k]
    BY DEF Typed, CallsTyped, Call
  <1> HIDE DEF k
  <1>3. calls'[p] = k /\ calls' \in [Callers -> Call] /\ \A q \in Callers \ {p} : calls'[q] = calls[q]
    BY <1>1, <1>2
  <1> QED
    BY <1>1, <1>3

\* A call whose stores exist, and no others, keeps the calls typed.
LEMMA CallsFit ==
  ASSUME Typed, NEW p \in Callers, calls' \in [Callers -> Call],
         \A q \in Callers \ {p} : calls'[q] = calls[q],
         Len(stores') \in Nat, Len(stores') >= Len(stores),
         calls'[p].pc # "returned" => {calls'[p].id} \cup calls'[p].rest \subseteq 1..Len(stores'),
         calls'[p].pc \notin ClosePcs => calls'[p].rest = {},
         current' = NoConversation \/ current' \in Conversations
  PROVE  CallsTyped'
  <1>1. Len(stores) \in Nat /\ 1..Len(stores) \subseteq 1..Len(stores')
    BY Known
  <1>2. \A q \in Callers : calls'[q].pc # "returned" =>
          {calls'[q].id} \cup calls'[q].rest \subseteq 1..Len(stores')
    BY <1>1 DEF Typed, CallsTyped, Ids
  <1>3. \A q \in Callers : calls'[q].pc \notin ClosePcs => calls'[q].rest = {}
    BY DEF Typed, CallsTyped
  <1> QED
    BY <1>2, <1>3 DEF CallsTyped, Ids, Call

\* A call that does not wait for anything gets a store, an entry's or a new one's: that
\* is harmless to every other call.
LEMMA GetKeeps ==
  ASSUME Typed, Attended, NEW p \in Callers, NEW c \in Conversations, Free(p),
         Lookup(p, c, entries, stores), current' = NoConversation \/ current' \in Conversations,
         ~crossed' => ~crossed, crossed' \in BOOLEAN
  PROVE  Typed' /\ Attended'
  <1>1. /\ stores \in Seq(Stores) /\ Len(stores) \in Nat /\ calls[p].pc = "returned"
        /\ entries \in [Conversations -> Nat]
    BY Known DEF Free, Typed, StoresTyped
  <1> DEFINE new == Len(stores) + 1
  <1>2. CASE entries[c] # 0
    <2>1. /\ UNCHANGED <<entries, stores>> /\ entries[c] \in 1..Len(stores)
          /\ calls' = [calls EXCEPT ![p] = [pc |-> "get", id |-> entries[c], rest |-> {}]]
      BY <1>1, <1>2, LookupIs DEF Typed, StoresTyped
    <2>2. /\ calls' \in [Callers -> Call] /\ calls'[p].pc = "get" /\ calls'[p].id = entries[c]
          /\ calls'[p].rest = {} /\ \A q \in Callers \ {p} : calls'[q] = calls[q]
      <3>1. "get" \in Pcs /\ entries[c] \in Nat /\ {} \in SUBSET Nat
        BY <1>1 DEF Pcs
      <3> QED
        BY <2>1, <3>1, CallMoves
    <2>3. Typed'
      <3>1. {calls'[p].id} \cup calls'[p].rest \subseteq 1..Len(stores')
        BY <2>1, <2>2
      <3>2. Len(stores') \in Nat /\ Len(stores') >= Len(stores)
        BY <1>1, <2>1
      <3>3. current' = NoConversation \/ current' \in Conversations
        OBVIOUS
      <3>4. CallsTyped'
        BY <2>2, <3>1, <3>2, <3>3, CallsFit DEF ClosePcs
      <3> QED
        BY <2>1, <3>4 DEF Typed, StoresTyped
    <2>4. EntriesAttended'
      BY <1>1, <2>1, <2>2 DEF Attended, EntriesAttended, EntryAttended
    <2>5. ClosedAway' /\ RebindBegun' /\ RebindAlone'
      BY <1>1, <2>1, <2>2 DEF Attended, ClosedAway, RebindBegun, RebindAlone, ClosePcs, RebindPcs,
                              Ids, Failed
    <2>6. NoStoreLost'
      BY <1>1, <2>1, <2>2 DEF Attended, NoStoreLost
    <2> QED
      BY <2>3, <2>4, <2>5, <2>6 DEF Attended
  <1>3. CASE entries[c] = 0
    <2>1. /\ entries' = [entries EXCEPT ![c] = new]
          /\ stores' \in Seq(Stores) /\ Len(stores') = Len(stores) + 1
          /\ \A n \in 1..Len(stores) : stores'[n] = stores[n]
          /\ stores'[new].home = c /\ stores'[new].stage = "opening"
          /\ calls' = [calls EXCEPT ![p] = [pc |-> "get", id |-> new, rest |-> {}]]
      BY <1>1, <1>3, LookupIs
    <2>2. /\ calls' \in [Callers -> Call] /\ calls'[p].pc = "get" /\ calls'[p].id = new
          /\ calls'[p].rest = {} /\ \A q \in Callers \ {p} : calls'[q] = calls[q]
      <3>1. "get" \in Pcs /\ new \in Nat /\ {} \in SUBSET Nat
        BY <1>1 DEF Pcs
      <3> HIDE DEF new
      <3> QED
        BY <2>1, <3>1, CallMoves
    <2>3. entries'[c] = new /\ \A d \in Conversations \ {c} : entries'[d] = entries[d]
      BY <1>1, <2>1
    <2>4. DOMAIN stores' = 1..(Len(stores) + 1) /\ new \notin 1..Len(stores)
      BY <1>1, <2>1
    <2> HIDE DEF new
    <2>5. new \in 1..Len(stores') /\ new \in Nat
      BY <1>1, <2>1 DEF new
    <2>6. Typed'
      <3>1. StoresTyped'
        <4>1. entries' \in [Conversations -> Nat]
          BY <1>1, <2>1, <2>5
        <4>2. \A d \in Conversations : entries'[d] # 0 =>
                entries'[d] \in 1..Len(stores') /\ stores'[entries'[d]].home = d
          BY <1>1, <2>1, <2>3, <2>5 DEF Typed, StoresTyped
        <4> QED
          BY <2>1, <4>1, <4>2 DEF StoresTyped
      <3>2. CallsTyped'
        <4>1. {calls'[p].id} \cup calls'[p].rest \subseteq 1..Len(stores')
          BY <2>2, <2>5
        <4>2. Len(stores') \in Nat /\ Len(stores') >= Len(stores)
          BY <1>1, <2>1
        <4> QED
          BY <2>2, <4>1, <4>2, CallsFit DEF ClosePcs
      <3> QED
        BY <3>1, <3>2 DEF Typed
    <2>7. EntriesAttended'
      <3> SUFFICES ASSUME NEW d \in Conversations, entries'[d] # 0
                   PROVE  /\ stores'[entries'[d]].stage # "closed"
                          /\ stores'[entries'[d]].stage \in {"opening", "failed"} =>
                               \E q \in Callers : calls'[q].pc = "get" /\ calls'[q].id = entries'[d]
                          /\ stores'[entries'[d]].stage = "closing" =>
                               \E q \in Callers : calls'[q].pc = "rebind closes" /\ calls'[q].id = entries'[d]
        BY DEF EntriesAttended, EntryAttended
      <3>1. CASE d = c
        BY <2>1, <2>2, <2>3, <3>1
      <3>2. CASE d # c
        <4>1. entries'[d] = entries[d] /\ stores'[entries[d]] = stores[entries[d]]
          BY <2>1, <2>3, <3>2 DEF Typed, StoresTyped
        <4>2. /\ stores[entries[d]].stage # "closed"
              /\ stores[entries[d]].stage \in {"opening", "failed"} =>
                   \E q \in Callers : calls[q].pc = "get" /\ calls[q].id = entries[d]
              /\ stores[entries[d]].stage = "closing" =>
                   \E q \in Callers : calls[q].pc = "rebind closes" /\ calls[q].id = entries[d]
          BY <4>1 DEF Attended, EntriesAttended, EntryAttended
        <4>3. \A q \in Callers : calls[q].pc # "returned" => calls'[q] = calls[q]
          BY <1>1, <2>2
        <4> QED
          BY <4>1, <4>2, <4>3
      <3> QED
        BY <3>1, <3>2
    <2>8. ClosedAway'
      BY <2>2, <2>3, <2>4 DEF Attended, ClosedAway, ClosePcs, Ids, Typed, CallsTyped
    <2>9. RebindBegun'
      BY <2>1, <2>2, Known DEF Attended, RebindBegun
    <2>10. RebindAlone'
      <3> SUFFICES ASSUME ~crossed', NEW q \in Callers, calls'[q].pc \in RebindPcs
                   PROVE  /\ \A o \in Callers : calls'[o].pc \in RebindPcs => q = o
                          /\ \/ stores'[calls'[q].id].stage = "failed"
                             \/ entries'[stores'[calls'[q].id].home] = calls'[q].id
        BY DEF RebindAlone, Failed
      <3>1. q # p /\ calls'[q] = calls[q]
        BY <2>2 DEF RebindPcs
      <3>2. /\ \A o \in Callers : calls[o].pc \in RebindPcs => q = o
            /\ Failed(calls[q].id) \/ entries[stores[calls[q].id].home] = calls[q].id
        BY <3>1 DEF Attended, RebindAlone
      <3>3. calls[q].id \in 1..Len(stores) /\ stores[calls[q].id].home \in Conversations
            /\ 0 \notin 1..Len(stores)
        <4>1. calls[q].pc # "returned"
          BY <3>1 DEF RebindPcs
        <4> QED
          BY <1>1, <4>1, Known
      <3>4. \A o \in Callers : calls'[o].pc \in RebindPcs => q = o
        BY <2>2, <3>2 DEF RebindPcs
      <3> QED
        BY <1>3, <2>1, <2>3, <3>1, <3>2, <3>3, <3>4 DEF Failed
    <2>11. NoStoreLost'
      <3> SUFFICES ASSUME ~crossed', NEW id \in 1..Len(stores'),
                          stores'[id].stage \in {"opening", "open"}
                   PROVE  \/ entries'[stores'[id].home] = id
                          \/ \E q \in Callers : /\ calls'[q].pc \in {"rebind", "close", "closes"}
                                                /\ id \in {calls'[q].id} \cup calls'[q].rest
        BY <2>4, <2>1 DEF NoStoreLost
      <3>1. CASE id = new
        BY <2>1, <2>3, <3>1
      <3>2. CASE id # new
        <4>1. id \in 1..Len(stores) /\ stores'[id] = stores[id] /\ stores[id].home \in Conversations
              /\ 0 \notin 1..Len(stores)
          BY <1>1, <2>1, <3>2, Known DEF new
        <4>2. \/ entries[stores[id].home] = id
              \/ \E q \in Callers : /\ calls[q].pc \in {"rebind", "close", "closes"}
                                    /\ id \in {calls[q].id} \cup calls[q].rest
          BY <4>1, Known DEF Attended, NoStoreLost
        <4> QED
          BY <1>1, <1>3, <2>2, <2>3, <4>1, <4>2
      <3> QED
        BY <3>1, <3>2
    <2> QED
      BY <2>6, <2>7, <2>8, <2>9, <2>10, <2>11 DEF Attended
  <1> QED
    BY <1>2, <1>3

-----------------------------------------------------------------------------
(* Getting and rebinding                                                    *)

\* What the steps of a call that waits have in common.
LEMMA Waiting ==
  ASSUME Typed, NEW p \in Callers, ~Free(p)
  PROVE  /\ calls[p].id \in 1..Len(stores) /\ calls[p].rest \subseteq 1..Len(stores)
         /\ stores[calls[p].id].home \in Conversations /\ 0 \notin 1..Len(stores)
         /\ calls[p].pc \notin ClosePcs => calls[p].rest = {}
  BY Known DEF Typed, CallsTyped, Ids, Free

LEMMA CallReturns ==
  ASSUME Typed, NEW p \in Callers, Return(p), Len(stores') = Len(stores),
         current' = NoConversation \/ current' \in Conversations
  PROVE  /\ CallsTyped' /\ calls'[p].pc = "returned"
         /\ \A q \in Callers \ {p} : calls'[q] = calls[q]
  <1>1. "returned" \in Pcs /\ 0 \in Nat /\ {} \in SUBSET Nat
    BY DEF Pcs
  <1>2. calls' = [calls EXCEPT ![p] = [pc |-> "returned", id |-> 0, rest |-> {}]]
    BY DEF Return, Returned
  <1>3. /\ calls' \in [Callers -> Call] /\ calls'[p].pc = "returned" /\ calls'[p].rest = {}
        /\ \A q \in Callers \ {p} : calls'[q] = calls[q]
    BY <1>1, <1>2, CallMoves
  <1>4. Len(stores') \in Nat /\ Len(stores') >= Len(stores)
    BY Known
  <1>5. CallsTyped'
    BY <1>3, <1>4, CallsFit
  <1> QED
    BY <1>3, <1>5

LEMMA CallWaits ==
  ASSUME Typed, NEW p \in Callers, NEW pc \in Pcs, NEW id \in 1..Len(stores), Waits(p, pc, id),
         Len(stores') = Len(stores), current' = NoConversation \/ current' \in Conversations
  PROVE  /\ CallsTyped' /\ calls'[p].pc = pc /\ calls'[p].id = id /\ calls'[p].rest = {}
         /\ \A q \in Callers \ {p} : calls'[q] = calls[q]
  <1>1. id \in Nat /\ {} \in SUBSET Nat
    BY Known
  <1>2. calls' = [calls EXCEPT ![p] = [pc |-> pc, id |-> id, rest |-> {}]]
    BY DEF Waits
  <1>3. /\ calls' \in [Callers -> Call] /\ calls'[p].pc = pc /\ calls'[p].id = id
        /\ calls'[p].rest = {} /\ \A q \in Callers \ {p} : calls'[q] = calls[q]
    BY <1>1, <1>2, CallMoves
  <1>4. Len(stores') \in Nat /\ Len(stores') >= Len(stores)
    BY Known
  <1>5. {calls'[p].id} \cup calls'[p].rest \subseteq 1..Len(stores')
    BY <1>3
  <1>6. CallsTyped'
    BY <1>3, <1>4, <1>5, CallsFit
  <1> QED
    BY <1>3, <1>6

\* A get whose store opened leaves; nobody relied on it.
LEMMA GetReturnsKeeps ==
  ASSUME Typed, Attended, NEW p \in Callers, GetReturns(p)
  PROVE  Typed' /\ Attended'
  <1>1. /\ calls[p].pc = "get" /\ ~Free(p) /\ Return(p)
        /\ stores[calls[p].id].stage \notin {"opening", "failed"}
        /\ UNCHANGED <<stores, entries, current, crossed>>
    BY DEF GetReturns, Decided, Failed, Free
  <1>2. current' = NoConversation \/ current' \in Conversations
    BY <1>1 DEF Typed, CallsTyped
  <1>3. /\ CallsTyped' /\ calls'[p].pc = "returned"
        /\ \A q \in Callers \ {p} : calls'[q] = calls[q]
    BY <1>1, <1>2, CallReturns
  <1>4. Typed'
    BY <1>1, <1>3 DEF Typed, StoresTyped
  <1>5. EntriesAttended'
    <2> SUFFICES ASSUME NEW d \in Conversations PROVE EntryAttended(d)'
      BY DEF EntriesAttended
    <2>1. EntryAttended(d)
      BY DEF Attended, EntriesAttended
    <2> QED
      BY <1>1, <1>3, <2>1 DEF EntryAttended
  <1>6. ClosedAway' /\ RebindBegun' /\ RebindAlone'
    BY <1>1, <1>3 DEF Attended, ClosedAway, RebindBegun, RebindAlone, ClosePcs, RebindPcs, Ids, Failed
  <1>7. NoStoreLost'
    BY <1>1, <1>3 DEF Attended, NoStoreLost
  <1> QED
    BY <1>4, <1>5, <1>6, <1>7 DEF Attended

\* Only the entry of the store that failed can go.
LEMMA GetFailsKeeps ==
  ASSUME Typed, Attended, NEW p \in Callers, GetFails(p)
  PROVE  Typed' /\ Attended'
  <1> DEFINE i == calls[p].id
             c == stores[i].home
  <1>1. /\ calls[p].pc = "get" /\ ~Free(p) /\ Return(p) /\ stores[i].stage = "failed"
        /\ entries' = [entries EXCEPT ![c] = IF @ = i THEN 0 ELSE @]
        /\ UNCHANGED <<stores, current, crossed>>
    BY DEF GetFails, Removed, Failed, Free
  <1>2. current' = NoConversation \/ current' \in Conversations
    BY <1>1 DEF Typed, CallsTyped
  <1>3. /\ CallsTyped' /\ calls'[p].pc = "returned"
        /\ \A q \in Callers \ {p} : calls'[q] = calls[q]
    BY <1>1, <1>2, CallReturns
  <1>4. i \in 1..Len(stores) /\ c \in Conversations /\ 0 \notin 1..Len(stores)
    BY <1>1, Waiting
  <1>5. /\ entries' \in [Conversations -> Nat]
        /\ \A d \in Conversations : entries'[d] = IF entries[d] = i THEN 0 ELSE entries[d]
    <2>1. \A d \in Conversations : entries[d] = i => d = c
      BY <1>4 DEF Typed, StoresTyped
    <2> HIDE DEF i, c
    <2> QED
      BY <1>1, <1>4, <2>1 DEF Typed, StoresTyped
  <1> HIDE DEF c
  <1>6. Typed'
    BY <1>1, <1>3, <1>5 DEF Typed, StoresTyped
  <1>7. EntriesAttended'
    <2> SUFFICES ASSUME NEW d \in Conversations PROVE EntryAttended(d)'
      BY DEF EntriesAttended
    <2>1. EntryAttended(d)
      BY DEF Attended, EntriesAttended
    <2> QED
      BY <1>1, <1>3, <1>5, <2>1 DEF EntryAttended
  <1>8. ClosedAway'
    <2> SUFFICES ASSUME NEW q \in Callers, calls'[q].pc \in ClosePcs, NEW d \in Conversations
                 PROVE  entries'[d] \notin {calls'[q].id} \cup calls'[q].rest
      BY DEF ClosedAway, Ids
    <2>1. calls'[q] = calls[q] /\ ~Free(q)
      BY <1>3 DEF ClosePcs, Free
    <2>2. {calls[q].id} \cup calls[q].rest \subseteq 1..Len(stores)
      BY <2>1, Waiting
    <2> QED
      BY <1>4, <1>5, <2>1, <2>2 DEF Attended, ClosedAway, Ids
  <1>9. RebindBegun'
    BY <1>1, <1>3 DEF Attended, RebindBegun
  <1>10. RebindAlone'
    <2> SUFFICES ASSUME ~crossed', NEW q \in Callers, calls'[q].pc \in RebindPcs
                 PROVE  /\ \A o \in Callers : calls'[o].pc \in RebindPcs => q = o
                        /\ \/ stores'[calls'[q].id].stage = "failed"
                           \/ entries'[stores'[calls'[q].id].home] = calls'[q].id
      BY DEF RebindAlone, Failed
    <2>1. calls'[q] = calls[q] /\ ~Free(q)
      BY <1>3 DEF RebindPcs, Free
    <2>2. stores[calls[q].id].home \in Conversations
      BY <2>1, Waiting
    <2>3. \A o \in Callers : calls'[o].pc \in RebindPcs => calls[o].pc \in RebindPcs
      BY <1>3 DEF RebindPcs
    <2> QED
      BY <1>1, <1>5, <2>1, <2>2, <2>3 DEF Attended, RebindAlone, Failed
  <1>11. NoStoreLost'
    BY <1>1, <1>3, <1>5, Known DEF Attended, NoStoreLost
  <1> QED
    BY <1>6, <1>7, <1>8, <1>9, <1>10, <1>11 DEF Attended

\* A rebind begins to wait for the entry it will close.
LEMMA RebindKeeps ==
  ASSUME Typed, Attended, NEW p \in Callers, NEW c \in Conversations, Rebind(p, c)
  PROVE  Typed' /\ Attended'
  <1>1. /\ Free(p) /\ crossed' \in BOOLEAN /\ calls[p].pc = "returned"
        /\ ~crossed' => ~crossed /\ ~Rebinding
    BY DEF Rebind, Typed, Free
  <1>2. CASE entries[c] = 0
    <2>1. Lookup(p, c, entries, stores) /\ current' = c
      BY <1>2 DEF Rebind
    <2> QED
      BY <1>1, <2>1, GetKeeps
  <1>3. CASE entries[c] # 0
    <2>1. Waits(p, "rebind", entries[c]) /\ UNCHANGED <<stores, entries, current>>
      BY <1>3 DEF Rebind
    <2>2. entries[c] \in 1..Len(stores) /\ stores[entries[c]].home = c /\ "rebind" \in Pcs
      BY <1>3 DEF Typed, StoresTyped, Pcs
    <2>3. current' = NoConversation \/ current' \in Conversations
      BY <2>1 DEF Typed, CallsTyped
    <2>4. /\ CallsTyped' /\ calls'[p].pc = "rebind" /\ calls'[p].id = entries[c]
          /\ \A q \in Callers \ {p} : calls'[q] = calls[q]
      BY <2>1, <2>2, <2>3, CallWaits
    <2>5. Typed'
      BY <1>1, <2>1, <2>4 DEF Typed, StoresTyped
    <2>6. EntriesAttended'
      <3> SUFFICES ASSUME NEW d \in Conversations PROVE EntryAttended(d)'
        BY DEF EntriesAttended
      <3>1. EntryAttended(d)
        BY DEF Attended, EntriesAttended
      <3> QED
        BY <1>1, <2>1, <2>4, <3>1 DEF EntryAttended
    <2>7. ClosedAway' /\ RebindBegun'
      BY <1>1, <2>1, <2>4 DEF Attended, ClosedAway, RebindBegun, ClosePcs, Ids
    <2>8. RebindAlone'
      BY <1>1, <2>1, <2>2, <2>4 DEF RebindAlone, Rebinding, RebindPcs
    <2>9. NoStoreLost'
      BY <1>1, <2>1, <2>4 DEF Attended, NoStoreLost
    <2> QED
      BY <2>5, <2>6, <2>7, <2>8, <2>9 DEF Attended
  <1> QED
    BY <1>2, <1>3

\* The rebind closes the store it waited for, or ends because there is nothing to close.
LEMMA RebindClosesKeeps ==
  ASSUME Typed, Attended, NEW p \in Callers, RebindCloses(p)
  PROVE  Typed' /\ Attended'
  <1> DEFINE i == calls[p].id
  <1>1. /\ calls[p].pc = "rebind" /\ ~Free(p) /\ UNCHANGED <<entries, current, crossed>>
        /\ stores[i].stage # "opening"
    BY DEF RebindCloses, Decided, Free
  <1>2. current' = NoConversation \/ current' \in Conversations
    BY <1>1 DEF Typed, CallsTyped
  <1>3. /\ i \in 1..Len(stores) /\ stores[i].home \in Conversations /\ calls[p].rest = {}
        /\ calls[p].pc \notin ClosePcs
    BY <1>1, Waiting DEF ClosePcs
  <1>4. CASE stores[i].stage = "failed"
    <2>1. Return(p) /\ UNCHANGED stores
      BY <1>4 DEF RebindCloses, Failed
    <2>2. /\ CallsTyped' /\ calls'[p].pc = "returned"
          /\ \A q \in Callers \ {p} : calls'[q] = calls[q]
      BY <1>2, <2>1, CallReturns
    <2>3. Typed'
      BY <1>1, <2>1, <2>2 DEF Typed, StoresTyped
    <2>4. EntriesAttended'
      <3> SUFFICES ASSUME NEW d \in Conversations PROVE EntryAttended(d)'
        BY DEF EntriesAttended
      <3>1. EntryAttended(d)
        BY DEF Attended, EntriesAttended
      <3> QED
        BY <1>1, <2>1, <2>2, <3>1 DEF EntryAttended
    <2>5. ClosedAway' /\ RebindBegun' /\ RebindAlone'
      BY <1>1, <2>1, <2>2 DEF Attended, ClosedAway, RebindBegun, RebindAlone, ClosePcs, RebindPcs,
                              Ids, Failed
    <2>6. NoStoreLost'
      BY <1>1, <1>3, <1>4, <2>1, <2>2 DEF Attended, NoStoreLost
    <2> QED
      BY <2>3, <2>4, <2>5, <2>6 DEF Attended
  <1>5. CASE stores[i].stage # "failed"
    <2>1. stores' = Staged(i, "closing") /\ Waits(p, "rebind closes", i)
      BY <1>5 DEF RebindCloses, Failed
    <2>2. "rebind closes" \in Pcs /\ "closing" \in Stages
      BY DEF Pcs, Stages
    <2>3. /\ stores' \in Seq(Stores) /\ Len(stores') = Len(stores)
          /\ \A n \in 1..Len(stores) :
               /\ stores'[n].home = stores[n].home
               /\ stores'[n].stage = IF n = i THEN "closing" ELSE stores[n].stage
      <3> HIDE DEF i
      <3>1. /\ Staged(i, "closing") \in Seq(Stores) /\ Len(Staged(i, "closing")) = Len(stores)
            /\ \A n \in 1..Len(stores) :
                 /\ Staged(i, "closing")[n].home = stores[n].home
                 /\ Staged(i, "closing")[n].stage = IF n = i THEN "closing" ELSE stores[n].stage
        BY <1>3, <2>2, StagedIs
      <3> QED
        BY <2>1, <3>1
    <2>4. /\ CallsTyped' /\ calls'[p].pc = "rebind closes" /\ calls'[p].id = i
          /\ \A q \in Callers \ {p} : calls'[q] = calls[q]
      <3> HIDE DEF i
      <3>1. Waits(p, "rebind closes", i) /\ Len(stores') = Len(stores)
        BY <2>1, <2>3
      <3>2. i \in 1..Len(stores)
        BY <1>3
      <3> QED
        BY <1>2, <2>2, <3>1, <3>2, CallWaits
    <2> HIDE DEF i
    <2>5. Typed'
      BY <1>1, <2>3, <2>4 DEF Typed, StoresTyped
    <2>6. EntriesAttended'
      <3> SUFFICES ASSUME NEW d \in Conversations, entries[d] # 0 PROVE EntryAttended(d)'
        BY <1>1 DEF EntriesAttended, EntryAttended
      <3>1. EntryAttended(d) /\ entries[d] \in 1..Len(stores) /\ entries'[d] = entries[d]
        BY <1>1 DEF Attended, EntriesAttended, Typed, StoresTyped
      <3>2. CASE entries[d] = i
        BY <1>3, <2>3, <2>4, <3>1, <3>2 DEF EntryAttended
      <3>3. CASE entries[d] # i
        BY <1>1, <2>3, <2>4, <3>1, <3>3 DEF EntryAttended
      <3> QED
        BY <3>2, <3>3
    <2>7. ClosedAway'
      BY <1>1, <2>4 DEF Attended, ClosedAway, ClosePcs, Ids
    <2>8. RebindBegun'
      <3> SUFFICES ASSUME NEW q \in Callers, calls'[q].pc = "rebind closes"
                   PROVE  stores'[calls'[q].id].stage \in {"closing", "closed"}
        BY DEF RebindBegun
      <3>1. CASE q = p
        BY <1>3, <2>3, <2>4, <3>1
      <3>2. CASE q # p
        <4>1. calls'[q] = calls[q] /\ ~Free(q)
          BY <2>4, <3>2 DEF Free
        <4>2. calls[q].id \in 1..Len(stores)
          BY <4>1, Waiting
        <4> QED
          BY <2>3, <4>1, <4>2 DEF Attended, RebindBegun
      <3> QED
        BY <3>1, <3>2
    <2>9. RebindAlone'
      <3> SUFFICES ASSUME ~crossed', NEW q \in Callers, calls'[q].pc \in RebindPcs
                   PROVE  /\ \A o \in Callers : calls'[o].pc \in RebindPcs => q = o
                          /\ entries'[stores'[calls'[q].id].home] = calls'[q].id
        BY DEF RebindAlone
      <3>1. calls[p].pc \in RebindPcs /\ ~crossed
        BY <1>1 DEF RebindPcs
      <3>2. \A o \in Callers : calls[o].pc \in RebindPcs => p = o
        BY <3>1 DEF Attended, RebindAlone
      <3>3. \A o \in Callers : calls'[o].pc \in RebindPcs => p = o
        BY <2>4, <3>2
      <3>4. entries[stores[i].home] = i
        BY <1>5, <3>1 DEF Attended, RebindAlone, Failed, i
      <3> QED
        BY <1>1, <1>3, <2>3, <2>4, <3>3, <3>4
    <2>10. NoStoreLost'
      <3> SUFFICES ASSUME ~crossed', NEW id \in 1..Len(stores'),
                          stores'[id].stage \in {"opening", "open"}
                   PROVE  \/ entries'[stores'[id].home] = id
                          \/ \E q \in Callers : /\ calls'[q].pc \in {"rebind", "close", "closes"}
                                                /\ id \in {calls'[q].id} \cup calls'[q].rest
        BY <2>3, Known DEF NoStoreLost
      <3>1. id # i /\ id \in DOMAIN stores /\ stores'[id].home = stores[id].home
            /\ stores[id].stage \in {"opening", "open"}
        BY <2>3, Known
      <3>2. \/ entries[stores[id].home] = id
            \/ \E q \in Callers : /\ calls[q].pc \in {"rebind", "close", "closes"}
                                  /\ id \in {calls[q].id} \cup calls[q].rest
        BY <1>1, <3>1 DEF Attended, NoStoreLost
      <3>3. id \notin {calls[p].id} \cup calls[p].rest
        BY <1>3, <3>1 DEF i
      <3> QED
        BY <1>1, <2>4, <3>1, <3>2, <3>3
    <2> QED
      BY <2>5, <2>6, <2>7, <2>8, <2>9, <2>10 DEF Attended
  <1> QED
    BY <1>4, <1>5

\* The store closed, the rebind removes its entry and gets a new one; a rebind that
\* nothing crossed removes no other.
LEMMA RebindGetsKeeps ==
  ASSUME Typed, Attended, NEW p \in Callers, RebindGets(p)
  PROVE  Typed' /\ Attended'
  <1> DEFINE i == calls[p].id
             c == stores[i].home
             map == Unbound(c)
             made == Staged(i, "closed")
             new == Len(made) + 1
  <1>1. /\ calls[p].pc = "rebind closes" /\ ~Free(p) /\ Lookup(p, c, map, made)
        /\ current' = c /\ UNCHANGED crossed
    BY DEF RebindGets, Free
  <1>2. /\ i \in 1..Len(stores) /\ c \in Conversations /\ 0 \notin 1..Len(stores)
        /\ stores[i].stage \in {"closing", "closed"}
    BY <1>1, Waiting DEF Attended, RebindBegun
  <1>3. "closed" \in Stages /\ "get" \in Pcs /\ {} \in SUBSET Nat /\ Len(stores) \in Nat
    BY Known DEF Stages, Pcs
  <1>4. /\ made \in Seq(Stores) /\ Len(made) = Len(stores)
        /\ \A n \in 1..Len(stores) :
             /\ made[n].home = stores[n].home
             /\ made[n].stage = IF n = i THEN "closed" ELSE stores[n].stage
    <2> HIDE DEF i
    <2> QED
      BY <1>2, <1>3, StagedIs
  <1>5. map[c] = 0 /\ map \in [Conversations -> Nat]
        /\ \A d \in Conversations \ {c} : map[d] = entries[d]
    <2> HIDE DEF c
    <2> QED
      BY <1>2 DEF Unbound, Typed, StoresTyped
  <1> HIDE DEF map, made, c
  <1>6. /\ entries' = [map EXCEPT ![c] = new]
        /\ stores' \in Seq(Stores) /\ Len(stores') = Len(made) + 1
        /\ \A n \in 1..Len(made) : stores'[n] = made[n]
        /\ stores'[new].home = c /\ stores'[new].stage = "opening"
        /\ calls' = [calls EXCEPT ![p] = [pc |-> "get", id |-> new, rest |-> {}]]
    <2>1. c \in Conversations /\ made \in Seq(Stores) /\ Lookup(p, c, map, made)
      BY <1>1, <1>2, <1>4
    <2> HIDE DEF i
    <2> QED
      BY <1>5, <2>1, LookupIs
  <1>7. new = Len(stores) + 1 /\ new \in Nat /\ new \notin 1..Len(stores)
        /\ 1..Len(stores') = 1..Len(stores) \cup {new}
    BY <1>3, <1>4, <1>6
  <1> HIDE DEF new, i
  <1>8. /\ calls' \in [Callers -> Call] /\ calls'[p].pc = "get" /\ calls'[p].id = new
        /\ calls'[p].rest = {} /\ \A q \in Callers \ {p} : calls'[q] = calls[q]
    BY <1>3, <1>6, <1>7, CallMoves
  <1>9. /\ entries' \in [Conversations -> Nat] /\ entries'[c] = new
        /\ \A d \in Conversations \ {c} : entries'[d] = entries[d]
    BY <1>2, <1>5, <1>6, <1>7
  <1>10. \A n \in 1..Len(stores) :
           /\ stores'[n].home = stores[n].home
           /\ stores'[n].stage = IF n = i THEN "closed" ELSE stores[n].stage
    BY <1>4, <1>6
  <1>11. \A d \in Conversations \ {c} : entries[d] # i
    BY <1>2 DEF Typed, StoresTyped, c
  <1>12. Typed'
    <2>1. StoresTyped'
      <3> SUFFICES ASSUME NEW d \in Conversations, entries'[d] # 0
                   PROVE  entries'[d] \in 1..Len(stores') /\ stores'[entries'[d]].home = d
        BY <1>6, <1>9 DEF StoresTyped
      <3>1. CASE d = c
        BY <1>6, <1>7, <1>9, <3>1
      <3>2. CASE d # c
        BY <1>7, <1>9, <1>10, <3>2 DEF Typed, StoresTyped
      <3> QED
        BY <3>1, <3>2
    <2>2. Len(stores') \in Nat /\ Len(stores') >= Len(stores)
      BY <1>3, <1>4, <1>6
    <2>3. {calls'[p].id} \cup calls'[p].rest \subseteq 1..Len(stores')
      BY <1>7, <1>8
    <2>4. current' = NoConversation \/ current' \in Conversations
      BY <1>1, <1>2
    <2>5. CallsTyped'
      BY <1>8, <2>2, <2>3, <2>4, CallsFit
    <2> QED
      BY <1>1, <2>1, <2>5 DEF Typed
  <1>13. EntriesAttended'
    <2> SUFFICES ASSUME NEW d \in Conversations, entries'[d] # 0 PROVE EntryAttended(d)'
      BY DEF EntriesAttended, EntryAttended
    <2>1. CASE d = c
      BY <1>6, <1>8, <1>9, <2>1 DEF EntryAttended
    <2>2. CASE d # c
      <3>1. entries'[d] = entries[d] /\ entries[d] # i /\ entries[d] \in 1..Len(stores)
            /\ EntryAttended(d)
        BY <1>9, <1>11, <2>2 DEF Typed, StoresTyped, Attended, EntriesAttended
      <3>2. \A q \in Callers : calls[q].pc \in {"get", "rebind closes"} /\ calls[q].id = entries[d] =>
              calls'[q] = calls[q]
        BY <1>8, <3>1 DEF i
      <3> QED
        BY <1>10, <3>1, <3>2 DEF EntryAttended
    <2> QED
      BY <2>1, <2>2
  <1>14. ClosedAway'
    <2> SUFFICES ASSUME NEW q \in Callers, calls'[q].pc \in ClosePcs, NEW d \in Conversations
                 PROVE  entries'[d] \notin {calls'[q].id} \cup calls'[q].rest
      BY DEF ClosedAway, Ids
    <2>1. calls'[q] = calls[q] /\ ~Free(q)
      BY <1>8 DEF ClosePcs, Free
    <2>2. {calls[q].id} \cup calls[q].rest \subseteq 1..Len(stores)
      BY <2>1, Waiting
    <2> QED
      BY <1>7, <1>9, <2>1, <2>2 DEF Attended, ClosedAway, Ids
  <1>15. RebindBegun'
    <2> SUFFICES ASSUME NEW q \in Callers, calls'[q].pc = "rebind closes"
                 PROVE  stores'[calls'[q].id].stage \in {"closing", "closed"}
      BY DEF RebindBegun
    <2>1. calls'[q] = calls[q] /\ ~Free(q)
      BY <1>8 DEF Free
    <2>2. calls[q].id \in 1..Len(stores)
      BY <2>1, Waiting
    <2> QED
      BY <1>10, <2>1, <2>2 DEF Attended, RebindBegun
  <1>16. ~crossed' => entries[c] = i /\ \A q \in Callers : calls'[q].pc \notin RebindPcs
    <2> SUFFICES ASSUME ~crossed PROVE entries[c] = i /\ \A q \in Callers : calls'[q].pc \notin RebindPcs
      BY <1>1
    <2>1. calls[p].pc \in RebindPcs
      BY <1>1 DEF RebindPcs
    <2> QED
      BY <1>2, <1>8, <2>1 DEF Attended, RebindAlone, RebindPcs, Failed, i, c
  <1>17. RebindAlone'
    BY <1>16 DEF RebindAlone
  <1>18. NoStoreLost'
    <2> SUFFICES ASSUME ~crossed', NEW id \in 1..Len(stores'), id # new,
                        stores'[id].stage \in {"opening", "open"}
                 PROVE  \/ entries'[stores'[id].home] = id
                        \/ \E q \in Callers : /\ calls'[q].pc \in {"rebind", "close", "closes"}
                                              /\ id \in {calls'[q].id} \cup calls'[q].rest
      BY <1>6, <1>9 DEF NoStoreLost
    <2>1. /\ id \in 1..Len(stores) /\ id # i /\ stores'[id].home = stores[id].home
          /\ stores[id].stage \in {"opening", "open"} /\ stores[id].home \in Conversations
      BY <1>7, <1>10, Known
    <2>2. \/ entries[stores[id].home] = id
          \/ \E q \in Callers : /\ calls[q].pc \in {"rebind", "close", "closes"}
                                /\ id \in {calls[q].id} \cup calls[q].rest
      BY <1>1, <2>1, Known DEF Attended, NoStoreLost
    <2>3. entries[stores[id].home] = id => stores[id].home # c
      BY <1>16, <2>1
    <2> QED
      BY <1>1, <1>8, <1>9, <2>1, <2>2, <2>3
  <1> QED
    BY <1>12, <1>13, <1>14, <1>15, <1>17, <1>18 DEF Attended

-----------------------------------------------------------------------------
(* Closing                                                                  *)

\* Entries are removed, and a call that did nothing owns their stores from then on.
LEMMA EntriesGo ==
  ASSUME Typed, Attended, NEW p \in Callers, Free(p), NEW gone \in SUBSET Conversations,
         entries' = [c \in Conversations |-> IF c \in gone THEN 0 ELSE entries[c]],
         CallsTyped', \A q \in Callers \ {p} : calls'[q] = calls[q],
         IF calls'[p].pc = "returned"
         THEN \A c \in gone : entries[c] = 0
         ELSE /\ calls'[p].pc = "close"
              /\ {calls'[p].id} \cup calls'[p].rest = {entries[c] : c \in gone} \ {0},
         crossed' \in BOOLEAN, ~crossed' => ~crossed /\ ~Rebinding, UNCHANGED stores
  PROVE  Typed' /\ Attended'
  <1>1. /\ \A c \in Conversations : entries'[c] \in {entries[c], 0}
        /\ \A c \in gone : entries'[c] = 0
        /\ \A c \in Conversations \ gone : entries'[c] = entries[c]
        /\ entries' \in [Conversations -> Nat] /\ calls[p].pc = "returned"
        /\ calls'[p].pc \in {"returned", "close"}
    BY DEF Typed, StoresTyped, Free
  <1>2. Typed'
    BY <1>1 DEF Typed, StoresTyped
  <1>3. EntriesAttended'
    <2> SUFFICES ASSUME NEW d \in Conversations, entries'[d] # 0 PROVE EntryAttended(d)'
      BY DEF EntriesAttended, EntryAttended
    <2>1. entries'[d] = entries[d] /\ EntryAttended(d)
      BY <1>1 DEF Attended, EntriesAttended
    <2> QED
      BY <1>1, <2>1 DEF EntryAttended
  <1>4. ClosedAway'
    <2> SUFFICES ASSUME NEW q \in Callers, calls'[q].pc \in ClosePcs, NEW d \in Conversations
                 PROVE  entries'[d] \notin {calls'[q].id} \cup calls'[q].rest
      BY DEF ClosedAway, Ids
    <2>1. {calls'[q].id} \cup calls'[q].rest \subseteq 1..Len(stores) /\ 0 \notin 1..Len(stores)
      BY Known DEF CallsTyped, ClosePcs, Ids
    <2>2. CASE entries'[d] = 0
      BY <2>1, <2>2
    <2>3. CASE entries'[d] # 0 /\ q # p
      BY <1>1, <2>3 DEF Attended, ClosedAway, Ids
    <2>4. CASE entries'[d] # 0 /\ q = p
      <3>1. d \notin gone /\ entries'[d] = entries[d] /\ entries[d] # 0
        BY <1>1, <2>4
      <3>2. \A c \in gone : entries[c] # entries[d]
        BY <3>1 DEF Typed, StoresTyped
      <3>3. {calls'[p].id} \cup calls'[p].rest = {entries[c] : c \in gone} \ {0}
        BY <2>4 DEF ClosePcs
      <3> QED
        BY <2>4, <3>1, <3>2, <3>3
    <2> QED
      BY <2>2, <2>3, <2>4
  <1>5. RebindBegun'
    BY <1>1 DEF Attended, RebindBegun
  <1>6. RebindAlone'
    BY <1>1 DEF RebindAlone, Rebinding, RebindPcs
  <1>7. NoStoreLost'
    <2> SUFFICES ASSUME ~crossed', NEW id \in 1..Len(stores),
                        stores[id].stage \in {"opening", "open"}
                 PROVE  \/ entries'[stores[id].home] = id
                        \/ \E q \in Callers : /\ calls'[q].pc \in {"rebind", "close", "closes"}
                                              /\ id \in {calls'[q].id} \cup calls'[q].rest
      BY Known DEF NoStoreLost
    <2>1. /\ stores[id].home \in Conversations /\ id # 0
          /\ \/ entries[stores[id].home] = id
             \/ \E q \in Callers : /\ calls[q].pc \in {"rebind", "close", "closes"}
                                   /\ id \in {calls[q].id} \cup calls[q].rest
      BY Known DEF Attended, NoStoreLost
    <2>2. ASSUME NEW q \in Callers, calls[q].pc \in {"rebind", "close", "closes"} PROVE q # p
      BY <1>1, <2>2
    <2>3. CASE stores[id].home \in gone /\ entries[stores[id].home] = id
      BY <2>1, <2>3
    <2> QED
      BY <1>1, <2>1, <2>2, <2>3
  <1> QED
    BY <1>2, <1>3, <1>4, <1>5, <1>6, <1>7 DEF Attended

LEMMA CloseCurrentKeeps ==
  ASSUME Typed, Attended, NEW p \in Callers, CloseCurrent(p)
  PROVE  Typed' /\ Attended'
  <1>1. /\ Free(p) /\ current \in Conversations /\ current' = NoConversation
        /\ entries' = [entries EXCEPT ![current] = 0] /\ UNCHANGED stores
        /\ crossed' \in BOOLEAN
    BY DEF CloseCurrent, Typed, CallsTyped
  <1>2. ~crossed' => ~crossed /\ ~Rebinding
    BY DEF CloseCurrent
  <1>3. {current} \in SUBSET Conversations
        /\ entries' = [c \in Conversations |-> IF c \in {current} THEN 0 ELSE entries[c]]
    BY <1>1 DEF Typed, StoresTyped
  <1>4. CASE entries[current] = 0
    <2>1. Return(p)
      BY <1>4 DEF CloseCurrent
    <2>2. /\ CallsTyped' /\ calls'[p].pc = "returned"
          /\ \A q \in Callers \ {p} : calls'[q] = calls[q]
      BY <1>1, <2>1, CallReturns
    <2> QED
      BY <1>1, <1>2, <1>3, <1>4, <2>2, EntriesGo
  <1>5. CASE entries[current] # 0
    <2>1. /\ Waits(p, "close", entries[current]) /\ "close" \in Pcs
          /\ entries[current] \in 1..Len(stores)
      BY <1>1, <1>5 DEF CloseCurrent, Pcs, Typed, StoresTyped
    <2>2. /\ CallsTyped' /\ calls'[p].pc = "close" /\ calls'[p].id = entries[current]
          /\ calls'[p].rest = {} /\ \A q \in Callers \ {p} : calls'[q] = calls[q]
      BY <1>1, <2>1, CallWaits
    <2>3. {calls'[p].id} \cup calls'[p].rest = {entries[c] : c \in {current}} \ {0}
      BY <1>5, <2>2
    <2> QED
      BY <1>1, <1>2, <1>3, <2>2, <2>3, EntriesGo
  <1> QED
    BY <1>4, <1>5

LEMMA CloseAllKeeps ==
  ASSUME Typed, Attended, NEW p \in Callers, CloseAll(p)
  PROVE  Typed' /\ Attended'
  <1> DEFINE ids == {entries[c] : c \in Conversations} \ {0}
  <1>1. /\ Free(p) /\ current' = NoConversation /\ UNCHANGED stores /\ crossed' \in BOOLEAN
        /\ entries' = [c \in Conversations |-> 0]
    BY DEF CloseAll, Typed
  <1>2. ~crossed' => ~crossed /\ ~Rebinding
    BY DEF CloseAll
  <1>3. Conversations \in SUBSET Conversations
        /\ entries' = [c \in Conversations |-> IF c \in Conversations THEN 0 ELSE entries[c]]
    BY <1>1
  <1>4. PICK i \in ids : calls' = [calls EXCEPT ![p] = [pc |-> "close", id |-> i, rest |-> ids \ {i}]]
    BY DEF CloseAll
  <1>5. ids \subseteq 1..Len(stores) /\ i \in Nat /\ ids \ {i} \in SUBSET Nat /\ "close" \in Pcs
    <2>1. ids \subseteq 1..Len(stores) /\ 1..Len(stores) \subseteq Nat
      BY Known DEF Typed, StoresTyped
    <2> HIDE DEF ids
    <2> QED
      BY <2>1 DEF Pcs
  <1>6. /\ calls' \in [Callers -> Call] /\ calls'[p].pc = "close" /\ calls'[p].id = i
        /\ calls'[p].rest = ids \ {i} /\ \A q \in Callers \ {p} : calls'[q] = calls[q]
    <2> HIDE DEF ids
    <2> QED
      BY <1>4, <1>5, CallMoves
  <1>7. {calls'[p].id} \cup calls'[p].rest = ids
    BY <1>6
  <1>8. CallsTyped'
    <2> HIDE DEF ids
    <2>1. Len(stores') \in Nat /\ Len(stores') >= Len(stores)
      BY <1>1, Known
    <2> QED
      BY <1>1, <1>5, <1>6, <1>7, <2>1, CallsFit DEF ClosePcs
  <1> QED
    BY <1>1, <1>2, <1>3, <1>6, <1>7, <1>8, EntriesGo

\* A close goes on with stores that are no entries; what it lets go is closed or failed.
LEMMA CloseGoesOn ==
  ASSUME Typed, Attended, NEW p \in Callers, calls[p].pc \in ClosePcs,
         NEW stage \in {"closing", "closed"},
         stores' = IF Failed(calls[p].id) THEN stores ELSE Staged(calls[p].id, stage),
         calls' \in [Callers -> Call], \A q \in Callers \ {p} : calls'[q] = calls[q],
         IF calls'[p].pc = "returned"
         THEN calls[p].rest = {} /\ calls'[p].rest = {}
         ELSE /\ calls'[p].pc \in ClosePcs
              /\ {calls'[p].id} \cup calls'[p].rest \in {Ids(p), calls[p].rest},
         UNCHANGED <<entries, current, crossed>>
  PROVE  Typed' /\ Attended'
  <1> DEFINE i == calls[p].id
  <1>1. /\ i \in 1..Len(stores) /\ calls[p].rest \subseteq 1..Len(stores)
        /\ stage \in Stages
    BY Waiting DEF ClosePcs, Free, Stages
  <1>2. /\ stores' \in Seq(Stores) /\ Len(stores') = Len(stores)
        /\ \A n \in 1..Len(stores) : stores'[n].home = stores[n].home
        /\ \A n \in (1..Len(stores)) \ {i} : stores'[n].stage = stores[n].stage
        /\ stores'[i].stage = IF stores[i].stage = "failed" THEN "failed" ELSE stage
    <2>1. /\ Staged(i, stage) \in Seq(Stores) /\ Len(Staged(i, stage)) = Len(stores)
          /\ \A n \in 1..Len(stores) :
               /\ Staged(i, stage)[n].home = stores[n].home
               /\ Staged(i, stage)[n].stage = IF n = i THEN stage ELSE stores[n].stage
      <3> HIDE DEF i
      <3> QED
        BY <1>1, StagedIs
    <2>2. CASE stores[i].stage = "failed"
      <3>1. stores' = stores
        BY <2>2 DEF Failed
      <3> QED
        BY <2>2, <3>1, Known
    <2>3. CASE stores[i].stage # "failed"
      <3>1. stores' = Staged(i, stage)
        BY <2>3 DEF Failed
      <3> HIDE DEF i
      <3> QED
        BY <1>1, <2>1, <2>3, <3>1
    <2> QED
      BY <2>2, <2>3
  <1>3. \A d \in Conversations : entries[d] # i
    BY DEF Attended, ClosedAway, Ids
  <1>4. Typed'
    <2>1. StoresTyped'
      BY <1>2 DEF Typed, StoresTyped
    <2>2. Len(stores') \in Nat /\ Len(stores') >= Len(stores)
      BY <1>2, Known
    <2>3. calls'[p].pc # "returned" => {calls'[p].id} \cup calls'[p].rest \subseteq 1..Len(stores')
      BY <1>1, <1>2 DEF Ids
    <2>4. current' = NoConversation \/ current' \in Conversations
      BY DEF Typed, CallsTyped
    <2>5. calls'[p].pc \notin ClosePcs => calls'[p].rest = {}
      OBVIOUS
    <2>6. CallsTyped'
      BY <2>2, <2>3, <2>4, <2>5, CallsFit
    <2> QED
      BY <2>1, <2>6 DEF Typed
  <1>5. \A q \in Callers : calls'[q].pc \in {"get", "rebind", "rebind closes"} => calls'[q] = calls[q]
    BY DEF ClosePcs
  <1>6. \A q \in Callers : calls[q].pc \in {"get", "rebind", "rebind closes"} => calls'[q] = calls[q]
    BY DEF ClosePcs
  <1>7. EntriesAttended'
    <2> SUFFICES ASSUME NEW d \in Conversations, entries[d] # 0 PROVE EntryAttended(d)'
      BY DEF EntriesAttended, EntryAttended
    <2>1. /\ entries[d] \in (1..Len(stores)) \ {i} /\ EntryAttended(d)
      BY <1>3 DEF Typed, StoresTyped, Attended, EntriesAttended
    <2>2. stores'[entries[d]].stage = stores[entries[d]].stage
      BY <1>2, <2>1
    <2> QED
      BY <1>6, <2>1, <2>2 DEF EntryAttended
  <1>8. ClosedAway'
    <2> SUFFICES ASSUME NEW q \in Callers, calls'[q].pc \in ClosePcs, NEW d \in Conversations
                 PROVE  entries[d] \notin {calls'[q].id} \cup calls'[q].rest
      BY DEF ClosedAway, Ids
    <2>1. CASE q # p
      BY <2>1 DEF Attended, ClosedAway, Ids
    <2>2. CASE q = p
      BY <2>2 DEF Attended, ClosedAway, Ids, ClosePcs
    <2> QED
      BY <2>1, <2>2
  <1>9. \A q \in Callers : calls'[q].pc \in RebindPcs =>
          calls'[q] = calls[q] /\ calls[q].id \in 1..Len(stores)
    BY <1>5, Waiting DEF RebindPcs, Free
  <1>10. RebindBegun'
    <2> SUFFICES ASSUME NEW q \in Callers, calls'[q].pc = "rebind closes"
                 PROVE  stores'[calls'[q].id].stage \in {"closing", "closed"}
      BY DEF RebindBegun
    <2>1. calls'[q] = calls[q] /\ calls[q].id \in 1..Len(stores)
      BY <1>9 DEF RebindPcs
    <2>2. stores[calls[q].id].stage \in {"closing", "closed"}
      BY <2>1 DEF Attended, RebindBegun
    <2>3. CASE calls[q].id = i
      BY <1>2, <2>1, <2>2, <2>3
    <2>4. CASE calls[q].id # i
      BY <1>2, <2>1, <2>2, <2>4
    <2> QED
      BY <2>3, <2>4
  <1>11. RebindAlone'
    <2> SUFFICES ASSUME ~crossed, NEW q \in Callers, calls'[q].pc \in RebindPcs
                 PROVE  /\ \A o \in Callers : calls'[o].pc \in RebindPcs => q = o
                        /\ \/ stores'[calls'[q].id].stage = "failed"
                           \/ entries[stores'[calls'[q].id].home] = calls'[q].id
      BY DEF RebindAlone, Failed
    <2>1. calls'[q] = calls[q] /\ calls[q].id \in 1..Len(stores)
          /\ stores[calls[q].id].home \in Conversations
      BY <1>9, Known
    <2>2. /\ \A o \in Callers : calls[o].pc \in RebindPcs => q = o
          /\ \/ stores[calls[q].id].stage = "failed"
             \/ entries[stores[calls[q].id].home] = calls[q].id
      BY <2>1 DEF Attended, RebindAlone, Failed
    <2>3. stores[calls[q].id].stage = "failed" => stores'[calls[q].id].stage = "failed"
      <3>1. CASE calls[q].id = i
        BY <1>2, <3>1
      <3>2. CASE calls[q].id # i
        BY <1>2, <2>1, <3>2
      <3> QED
        BY <3>1, <3>2
    <2> QED
      BY <1>2, <1>9, <2>1, <2>2, <2>3
  <1>12. NoStoreLost'
    <2> SUFFICES ASSUME ~crossed, NEW id \in 1..Len(stores),
                        stores'[id].stage \in {"opening", "open"}
                 PROVE  \/ entries[stores[id].home] = id
                        \/ \E q \in Callers : /\ calls'[q].pc \in {"rebind", "close", "closes"}
                                              /\ id \in {calls'[q].id} \cup calls'[q].rest
      <3>1. DOMAIN stores' = 1..Len(stores)
        BY <1>2, Known
      <3> QED
        BY <1>2, <3>1 DEF NoStoreLost
    <2>1. id # i
      BY <1>2
    <2>2. stores[id].stage \in {"opening", "open"}
      BY <1>2, <2>1
    <2>3. \/ entries[stores[id].home] = id
          \/ \E q \in Callers : /\ calls[q].pc \in {"rebind", "close", "closes"}
                                /\ id \in {calls[q].id} \cup calls[q].rest
      BY <2>2, Known DEF Attended, NoStoreLost
    <2>4. id \in {calls[p].id} \cup calls[p].rest =>
            calls'[p].pc \in ClosePcs /\ id \in {calls'[p].id} \cup calls'[p].rest
      BY <2>1 DEF Ids
    <2> QED
      BY <2>3, <2>4 DEF ClosePcs
  <1> QED
    BY <1>4, <1>7, <1>8, <1>10, <1>11, <1>12 DEF Attended

LEMMA CloseStartsKeeps ==
  ASSUME Typed, Attended, NEW p \in Callers, CloseStarts(p)
  PROVE  Typed' /\ Attended'
  <1>1. /\ calls[p].pc \in ClosePcs /\ calls[p].id \in Nat /\ calls[p].rest \in SUBSET Nat
        /\ stores' = IF Failed(calls[p].id) THEN stores ELSE Staged(calls[p].id, "closing")
        /\ UNCHANGED <<entries, current, crossed>> /\ "closes" \in Pcs
    BY DEF CloseStarts, ClosePcs, Pcs, Typed, CallsTyped
  <1>2. calls' = [calls EXCEPT ![p] = [pc |-> "closes", id |-> calls[p].id, rest |-> calls[p].rest]]
    <2>1. calls' = [calls EXCEPT ![p] = [calls[p] EXCEPT !.pc = "closes"]]
      BY DEF CloseStarts
    <2>2. calls[p] \in [pc : Pcs, id : Nat, rest : SUBSET Nat]
      BY DEF Typed, CallsTyped
    <2>3. [calls[p] EXCEPT !.pc = "closes"]
            = [pc |-> "closes", id |-> calls[p].id, rest |-> calls[p].rest]
      BY <2>2
    <2> QED
      BY <2>1, <2>3, Zenon
  <1>3. /\ calls' \in [Callers -> Call] /\ calls'[p].pc = "closes" /\ calls'[p].id = calls[p].id
        /\ calls'[p].rest = calls[p].rest /\ \A q \in Callers \ {p} : calls'[q] = calls[q]
    BY <1>1, <1>2, CallMoves
  <1>4. {calls'[p].id} \cup calls'[p].rest = Ids(p)
    BY <1>3 DEF Ids
  <1> QED
    BY <1>1, <1>3, <1>4, CloseGoesOn DEF ClosePcs

LEMMA CloseEndsKeeps ==
  ASSUME Typed, Attended, NEW p \in Callers, CloseEnds(p)
  PROVE  Typed' /\ Attended'
  <1>1. /\ calls[p].pc \in ClosePcs /\ calls[p].rest \in SUBSET Nat
        /\ stores' = IF Failed(calls[p].id) THEN stores ELSE Staged(calls[p].id, "closed")
        /\ UNCHANGED <<entries, current, crossed>>
    BY DEF CloseEnds, ClosePcs, Typed, CallsTyped
  <1>2. "returned" \in Pcs /\ "close" \in Pcs /\ 0 \in Nat /\ {} \in SUBSET Nat
    BY DEF Pcs
  <1>3. CASE calls[p].rest = {}
    <2>1. calls' = [calls EXCEPT ![p] = [pc |-> "returned", id |-> 0, rest |-> {}]]
      BY <1>3 DEF CloseEnds, Return, Returned
    <2>2. /\ calls' \in [Callers -> Call] /\ calls'[p].pc = "returned" /\ calls'[p].rest = {}
          /\ \A q \in Callers \ {p} : calls'[q] = calls[q]
      BY <1>2, <2>1, CallMoves
    <2> QED
      BY <1>1, <1>3, <2>2, CloseGoesOn
  <1>4. CASE calls[p].rest # {}
    <2>1. PICK n \in calls[p].rest :
            calls' = [calls EXCEPT ![p] = [pc |-> "close", id |-> n, rest |-> calls[p].rest \ {n}]]
      BY <1>4 DEF CloseEnds, Typed, CallsTyped
    <2>2. n \in Nat /\ calls[p].rest \ {n} \in SUBSET Nat
      BY <1>1
    <2>3. /\ calls' \in [Callers -> Call] /\ calls'[p].pc = "close" /\ calls'[p].id = n
          /\ calls'[p].rest = calls[p].rest \ {n}
          /\ \A q \in Callers \ {p} : calls'[q] = calls[q]
      BY <1>2, <2>1, <2>2, CallMoves
    <2>4. {calls'[p].id} \cup calls'[p].rest = calls[p].rest
      BY <2>1, <2>3
    <2> QED
      BY <1>1, <2>3, <2>4, CloseGoesOn DEF ClosePcs
  <1> QED
    BY <1>3, <1>4

-----------------------------------------------------------------------------
(* Theorems                                                                 *)

\* A store opens, or fails; only those who wait for it care.
LEMMA StoreOpensKeeps ==
  ASSUME Typed, Attended, NEW i \in DOMAIN stores, StoreOpens(i)
  PROVE  Typed' /\ Attended'
  <1>1. /\ i \in 1..Len(stores) /\ stores[i].stage = "opening"
        /\ UNCHANGED <<entries, current, calls, crossed>>
    BY Known DEF StoreOpens, Decided
  <1>2. PICK stage \in {"open", "failed"} : stores' = Staged(i, stage)
    BY DEF StoreOpens
  <1>3. stage \in Stages
    BY DEF Stages
  <1>4. /\ stores' \in Seq(Stores) /\ Len(stores') = Len(stores)
        /\ \A n \in 1..Len(stores) :
             /\ stores'[n].home = stores[n].home
             /\ stores'[n].stage = IF n = i THEN stage ELSE stores[n].stage
    BY <1>1, <1>2, <1>3, StagedIs
  <1>5. DOMAIN stores' = 1..Len(stores)
    BY <1>4, Known
  <1>6. Typed'
    BY <1>1, <1>4 DEF Typed, StoresTyped, CallsTyped, Ids
  <1>7. EntriesAttended'
    <2> SUFFICES ASSUME NEW d \in Conversations, entries[d] # 0 PROVE EntryAttended(d)'
      BY <1>1 DEF EntriesAttended, EntryAttended
    <2>1. entries[d] \in 1..Len(stores) /\ EntryAttended(d)
      BY DEF Typed, StoresTyped, Attended, EntriesAttended
    <2>2. CASE entries[d] = i
      BY <1>1, <1>4, <2>1, <2>2 DEF EntryAttended
    <2>3. CASE entries[d] # i
      BY <1>1, <1>4, <2>1, <2>3 DEF EntryAttended
    <2> QED
      BY <2>2, <2>3
  <1>8. ClosedAway'
    BY <1>1 DEF Attended, ClosedAway, Ids
  <1>9. \A q \in Callers : calls[q].pc # "returned" => calls[q].id \in 1..Len(stores)
    BY Known
  <1>10. RebindBegun'
    BY <1>1, <1>4, <1>9 DEF Attended, RebindBegun
  <1>11. RebindAlone'
    <2> SUFFICES ASSUME ~crossed, NEW q \in Callers, calls[q].pc \in RebindPcs
                 PROVE  /\ \A o \in Callers : calls[o].pc \in RebindPcs => q = o
                        /\ \/ stores'[calls[q].id].stage = "failed"
                           \/ entries[stores'[calls[q].id].home] = calls[q].id
      BY <1>1 DEF RebindAlone, Failed
    <2>1. calls[q].id \in 1..Len(stores)
      BY <1>9 DEF RebindPcs
    <2>2. /\ \A o \in Callers : calls[o].pc \in RebindPcs => q = o
          /\ \/ stores[calls[q].id].stage = "failed"
             \/ entries[stores[calls[q].id].home] = calls[q].id
      BY DEF Attended, RebindAlone, Failed
    <2> QED
      BY <1>1, <1>4, <2>1, <2>2
  <1>12. NoStoreLost'
    <2> SUFFICES ASSUME ~crossed, NEW id \in 1..Len(stores),
                        stores'[id].stage \in {"opening", "open"}
                 PROVE  \/ entries[stores[id].home] = id
                        \/ \E q \in Callers : /\ calls[q].pc \in {"rebind", "close", "closes"}
                                              /\ id \in {calls[q].id} \cup calls[q].rest
      BY <1>1, <1>4, <1>5 DEF NoStoreLost
    <2>1. stores[id].stage \in {"opening", "open"}
      BY <1>1, <1>4
    <2> QED
      BY <2>1, Known DEF Attended, NoStoreLost
  <1> QED
    BY <1>6, <1>7, <1>8, <1>10, <1>11, <1>12 DEF Attended

LEMMA GetStarts ==
  ASSUME Typed, Attended, NEW p \in Callers, NEW c \in Conversations, Get(p, c)
  PROVE  Typed' /\ Attended'
  <1>1. /\ Free(p) /\ Lookup(p, c, entries, stores) /\ UNCHANGED crossed
        /\ current' \in {current, c}
    BY DEF Get
  <1>2. current' = NoConversation \/ current' \in Conversations
    BY <1>1 DEF Typed, CallsTyped
  <1>3. ~crossed' => ~crossed
    BY <1>1
  <1>4. crossed' \in BOOLEAN
    BY <1>1 DEF Typed
  <1> QED
    BY <1>1, <1>2, <1>3, <1>4, GetKeeps

LEMMA RepositoryStarts == RepositoryInit => Typed /\ Attended
  <1> SUFFICES ASSUME RepositoryInit PROVE Typed /\ Attended
    OBVIOUS
  <1>1. /\ stores = <<>> /\ entries = [c \in Conversations |-> 0]
        /\ current = NoConversation /\ crossed = FALSE
        /\ calls = [p \in Callers |-> [pc |-> "returned", id |-> 0, rest |-> {}]]
    BY DEF RepositoryInit, Returned
  <1>2. DOMAIN stores = {} /\ stores \in Seq(Stores)
    BY <1>1
  <1>3. [pc |-> "returned", id |-> 0, rest |-> {}] \in Call
    BY DEF Call, Pcs
  <1>4. /\ calls \in [Callers -> Call] /\ \A p \in Callers : calls[p].pc = "returned" /\ calls[p].rest = {}
    BY <1>1, <1>3
  <1>5. Typed
    BY <1>1, <1>2, <1>4 DEF Typed, StoresTyped, CallsTyped, Call
  <1>6. Attended
    BY <1>1, <1>2, <1>4 DEF Attended, EntriesAttended, EntryAttended, ClosedAway, RebindBegun,
                            RebindAlone, NoStoreLost, ClosePcs, RebindPcs
  <1> QED
    BY <1>5, <1>6

LEMMA RepositoryStep == Typed /\ Attended /\ [RepositoryNext]_repositoryVars => Typed' /\ Attended'
  <1> SUFFICES ASSUME Typed, Attended, [RepositoryNext]_repositoryVars
               PROVE  Typed' /\ Attended'
    OBVIOUS
  <1>1. ASSUME NEW p \in Callers, NEW c \in Conversations, Get(p, c) PROVE Typed' /\ Attended'
    BY <1>1, GetStarts
  <1>2. ASSUME NEW p \in Callers, NEW c \in Conversations, Rebind(p, c) PROVE Typed' /\ Attended'
    BY <1>2, RebindKeeps
  <1>3. ASSUME NEW p \in Callers, GetReturns(p) PROVE Typed' /\ Attended'
    BY <1>3, GetReturnsKeeps
  <1>4. ASSUME NEW p \in Callers, GetFails(p) PROVE Typed' /\ Attended'
    BY <1>4, GetFailsKeeps
  <1>5. ASSUME NEW p \in Callers, RebindCloses(p) PROVE Typed' /\ Attended'
    BY <1>5, RebindClosesKeeps
  <1>6. ASSUME NEW p \in Callers, RebindGets(p) PROVE Typed' /\ Attended'
    BY <1>6, RebindGetsKeeps
  <1>7. ASSUME NEW p \in Callers, CloseCurrent(p) PROVE Typed' /\ Attended'
    BY <1>7, CloseCurrentKeeps
  <1>8. ASSUME NEW p \in Callers, CloseAll(p) PROVE Typed' /\ Attended'
    BY <1>8, CloseAllKeeps
  <1>9. ASSUME NEW p \in Callers, CloseStarts(p) PROVE Typed' /\ Attended'
    BY <1>9, CloseStartsKeeps
  <1>10. ASSUME NEW p \in Callers, CloseEnds(p) PROVE Typed' /\ Attended'
    BY <1>10, CloseEndsKeeps
  <1>11. ASSUME NEW i \in DOMAIN stores, StoreOpens(i) PROVE Typed' /\ Attended'
    BY <1>11, StoreOpensKeeps
  <1>12. CASE UNCHANGED repositoryVars
    <2>1. UNCHANGED <<stores, entries, current, calls, crossed>>
      BY <1>12 DEF repositoryVars
    <2>2. Typed'
      BY <2>1 DEF Typed, StoresTyped, CallsTyped, Ids
    <2>3. EntriesAttended' /\ ClosedAway'
      BY <2>1 DEF Attended, EntriesAttended, EntryAttended, ClosedAway, Ids
    <2>4. RebindBegun' /\ RebindAlone'
      BY <2>1 DEF Attended, RebindBegun, RebindAlone, Failed
    <2>5. NoStoreLost'
      BY <2>1 DEF Attended, NoStoreLost
    <2> QED
      BY <2>2, <2>3, <2>4, <2>5 DEF Attended
  <1> QED
    BY <1>1, <1>2, <1>3, <1>4, <1>5, <1>6, <1>7, <1>8, <1>9, <1>10, <1>11, <1>12
       DEF RepositoryNext

\* While no rebind overlaps another rebind or a close, every store that opens or is open
\* is the entry of its chat or about to be closed, for any number of chats, stores and
\* overlapping calls of getStoreForChat, rebind, closeCurrent and closeAll.
THEOREM StoresNotLost == RepositorySpec => []NoStoreLost
  <1>1. Attended => NoStoreLost
    BY DEF Attended
  <1> QED
    BY <1>1, RepositoryStarts, RepositoryStep, PTL DEF RepositorySpec

\* An entry whose store failed to open or was closed always has a call that is about
\* to remove it, crossed rebinds included.
THEOREM UselessEntriesGo == RepositorySpec => []UselessEntryGoes
  <1>1. Typed /\ Attended => UselessEntryGoes
    <2> SUFFICES ASSUME Typed, Attended, NEW c \in Conversations, entries[c] # 0,
                        stores[entries[c]].stage \in {"failed", "closing", "closed"}
                 PROVE  \E p \in Callers :
                          /\ calls[p].id = entries[c]
                          /\ calls[p].pc \in (IF Failed(entries[c]) THEN {"get"}
                                              ELSE {"rebind closes"})
      BY DEF UselessEntryGoes
    <2>1. EntryAttended(c)
      BY DEF Attended, EntriesAttended
    <2> QED
      BY <2>1 DEF EntryAttended, Failed
  <1> QED
    BY <1>1, RepositoryStarts, RepositoryStep, PTL DEF RepositorySpec
=============================================================================
