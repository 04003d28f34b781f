------------------------ MODULE ConversationRepository ------------------------
(***************************************************************************)
(* The map from a chat to its one open store                               *)
(* (src/sync/conversation-repository.js): getting, switching, rebinding and *)
(* closing, each waiting for stores that open and close meanwhile.          *)
(*                                                                         *)
(* Every entry of the map has a store of its own, named by a number.  What  *)
(* a store holds and which backend it has are of no concern here.          *)
(***************************************************************************)
EXTENDS Naturals, Sequences

CONSTANTS
    Conversations,  \* the chats
    Callers,        \* calls that may overlap
    MaxStores       \* bound: stores made

ASSUME RepositoryAssumption == Conversations # {} /\ MaxStores \in Nat

VARIABLES
    stores,   \* the stores made so far: their chat and how far they are
    entries,  \* _entries: the store of each chat, 0 if it has none
    current,  \* _currentChatId
    calls,    \* what each call waits for
    crossed   \* auxiliary: a rebind overlapped another rebind or a close

repositoryVars == <<stores, entries, current, calls, crossed>>

NoConversation == "no chat"

Returned == [pc |-> "returned", id |-> 0, rest |-> {}]

Opened(id) == stores[id].stage = "open"

Failed(id) == stores[id].stage = "failed"

Decided(id) == stores[id].stage # "opening"

Free(p) == calls[p].pc = "returned"

Waits(p, pc, id) == calls' = [calls EXCEPT ![p] = [pc |-> pc, id |-> id, rest |-> {}]]

Return(p) == calls' = [calls EXCEPT ![p] = Returned]

Staged(id, stage) == [stores EXCEPT ![id].stage = stage]

Rebinding == \E p \in Callers : calls[p].pc \in {"rebind", "rebind closes"}

Closing == \E p \in Callers : calls[p].pc \in {"close", "closes"}

-----------------------------------------------------------------------------
(* Getting a store                                                          *)

\* getStoreForChat up to its await: the entry there is, or a new one; "map" and
\* "made" are the entries and the stores at this point.
Lookup(p, c, map, made) ==
    IF map[c] # 0
    THEN /\ Waits(p, "get", map[c])
         /\ entries' = map
         /\ stores' = made
    ELSE /\ stores' = Append(made, [home |-> c, stage |-> "opening"])
         /\ entries' = [map EXCEPT ![c] = Len(made) + 1]
         /\ Waits(p, "get", Len(made) + 1)

\* getStoreForChat, and getStore and switchChat, which also make the chat current.
Get(p, c) ==
    /\ Free(p) /\ Len(stores) < MaxStores
    /\ Lookup(p, c, entries, stores)
    /\ current' \in {current, c}
    /\ UNCHANGED crossed

GetReturns(p) ==
    /\ calls[p].pc = "get" /\ Decided(calls[p].id) /\ ~Failed(calls[p].id)
    /\ Return(p)
    /\ UNCHANGED <<stores, entries, current, crossed>>

\* Seeded fault: whatever entry the chat has now is removed.
RemovedWhatever(c, id) == [entries EXCEPT ![c] = 0]

\* An entry whose store failed to open is removed, unless another has its place.
Removed(c, id) == [entries EXCEPT ![c] = IF @ = id THEN 0 ELSE @]

GetFails(p) ==
    LET id == calls[p].id
    IN  /\ calls[p].pc = "get" /\ Failed(id)
        /\ entries' = Removed(stores[id].home, id)
        /\ Return(p)
        /\ UNCHANGED <<stores, current, crossed>>

-----------------------------------------------------------------------------
(* Stores                                                                   *)

StoreOpens(id) ==
    /\ ~Decided(id)
    /\ \E stage \in {"open", "failed"} : stores' = Staged(id, stage)
    /\ UNCHANGED <<entries, current, calls, crossed>>

-----------------------------------------------------------------------------
(* Rebinding                                                                *)

\* A rebind waits for the entry there is; without one it gets a store at once.
Rebind(p, c) ==
    /\ Free(p) /\ Len(stores) < MaxStores
    /\ IF entries[c] = 0
       THEN Lookup(p, c, entries, stores) /\ current' = c
       ELSE /\ Waits(p, "rebind", entries[c])
            /\ UNCHANGED <<stores, entries, current>>
    /\ crossed' = (crossed \/ Rebinding \/ Closing)

\* The store is closed. If it failed to open the rebind fails, and leaves the
\* entry to the call that made it.
RebindCloses(p) ==
    LET id == calls[p].id
    IN  /\ calls[p].pc = "rebind" /\ Decided(id)
        /\ IF Failed(id)
           THEN Return(p) /\ UNCHANGED stores
           ELSE stores' = Staged(id, "closing") /\ Waits(p, "rebind closes", id)
        /\ UNCHANGED <<entries, current, crossed>>

\* Seeded fault: the closed store keeps its place.
KeepsEntry(c) == entries

\* The entry of the chat is removed, whichever it is by now.
Unbound(c) == [entries EXCEPT ![c] = 0]

RebindGets(p) ==
    LET c == stores[calls[p].id].home
    IN  /\ calls[p].pc = "rebind closes" /\ Len(stores) < MaxStores
        /\ Lookup(p, c, Unbound(c), Staged(calls[p].id, "closed"))
        /\ current' = c
        /\ UNCHANGED crossed

-----------------------------------------------------------------------------
(* Closing                                                                  *)

\* The entry goes first; its store is closed when it has opened.
CloseCurrent(p) ==
    /\ Free(p) /\ current # NoConversation
    /\ entries' = [entries EXCEPT ![current] = 0]
    /\ IF entries[current] = 0 THEN Return(p) ELSE Waits(p, "close", entries[current])
    /\ current' = NoConversation
    /\ crossed' = (crossed \/ Rebinding)
    /\ UNCHANGED stores

CloseAll(p) ==
    LET ids == {entries[c] : c \in Conversations} \ {0}
    IN  /\ Free(p) /\ ids # {}
        /\ entries' = [c \in Conversations |-> 0]
        /\ current' = NoConversation
        /\ \E id \in ids :
             calls' = [calls EXCEPT ![p] = [pc |-> "close", id |-> id, rest |-> ids \ {id}]]
        /\ crossed' = (crossed \/ Rebinding)
        /\ UNCHANGED stores

\* The store is closed; one that failed to open has nothing to close.
CloseStarts(p) ==
    LET id == calls[p].id
    IN  /\ calls[p].pc = "close" /\ Decided(id)
        /\ stores' = IF Failed(id) THEN stores ELSE Staged(id, "closing")
        /\ calls' = [calls EXCEPT ![p].pc = "closes"]
        /\ UNCHANGED <<entries, current, crossed>>

\* The next store of closeAll has its turn.
CloseEnds(p) ==
    LET id == calls[p].id
    IN  /\ calls[p].pc = "closes"
        /\ stores' = IF Failed(id) THEN stores ELSE Staged(id, "closed")
        /\ IF calls[p].rest = {}
           THEN Return(p)
           ELSE \E next \in calls[p].rest :
                  calls' = [calls EXCEPT ![p] = [pc |-> "close", id |-> next,
                                                 rest |-> @.rest \ {next}]]
        /\ UNCHANGED <<entries, current, crossed>>

-----------------------------------------------------------------------------
(* Specification                                                            *)

RepositoryInit ==
    /\ stores = <<>>
    /\ entries = [c \in Conversations |-> 0]
    /\ current = NoConversation
    /\ calls = [p \in Callers |-> Returned]
    /\ crossed = FALSE

RepositoryNext ==
    \/ \E p \in Callers, c \in Conversations : Get(p, c)
    \/ \E p \in Callers, c \in Conversations : Rebind(p, c)
    \/ \E p \in Callers : GetReturns(p)
    \/ \E p \in Callers : GetFails(p)
    \/ \E p \in Callers : RebindCloses(p)
    \/ \E p \in Callers : RebindGets(p)
    \/ \E p \in Callers : CloseCurrent(p)
    \/ \E p \in Callers : CloseAll(p)
    \/ \E p \in Callers : CloseStarts(p)
    \/ \E p \in Callers : CloseEnds(p)
    \/ \E id \in DOMAIN stores : StoreOpens(id)

RepositorySpec == RepositoryInit /\ [][RepositoryNext]_repositoryVars

-----------------------------------------------------------------------------
(* Properties                                                               *)

\* No store stays open behind the map's back: one that opens or is open is the
\* entry of its chat, or a call waits to close it. Rebinds that overlap a rebind or
\* a close are left out: the later removes whatever entry the chat has by then.
NoStoreLost ==
    ~crossed => \A id \in DOMAIN stores :
        stores[id].stage \in {"opening", "open"} =>
            \/ entries[stores[id].home] = id
            \/ \E p \in Callers :
                 /\ calls[p].pc \in {"rebind", "close", "closes"}
                 /\ id \in {calls[p].id} \cup calls[p].rest

\* An entry that is of no use does not stay: if its store failed to open or was
\* closed, some call is about to remove it, so that a later one opens a new store.
UselessEntryGoes ==
    \A c \in Conversations :
        entries[c] # 0 /\ stores[entries[c]].stage \in {"failed", "closing", "closed"} =>
            \E p \in Callers :
                /\ calls[p].id = entries[c]
                /\ calls[p].pc \in (IF Failed(entries[c]) THEN {"get"}
                                    ELSE {"rebind closes"})
=============================================================================
