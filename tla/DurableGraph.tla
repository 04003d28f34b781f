---------------------------- MODULE DurableGraph ----------------------------
(***************************************************************************)
(* What one chat's browser-local graph store promises its callers.  A      *)
(* caller asks for one change: to apply a delta to the graph, or to        *)
(* replace the graph.  The change is accepted as a whole, once, on the     *)
(* graph that is there at that moment, and moves to a larger revision; or  *)
(* it is given up and leaves no trace, then or later.  WAL files,          *)
(* compaction, crashes and re-opened tabs are not visible here.            *)
(***************************************************************************)
EXTENDS Naturals

CONSTANTS Caller,   \* the tabs
          Key,      \* the records of the graph and its runtime meta entries
          Value,    \* what a record can hold
          Absent,   \* a record that is not there
          Keep,     \* a delta's entry for a record it does not touch
          None

Entry   == Value \cup {Absent}
Content == [Key -> Entry]
Delta   == [Key -> Entry \cup {Keep}] \ {[k \in Key |-> Keep]}

Empty       == [k \in Key |-> Absent]
Apply(c, d) == [k \in Key |-> IF d[k] = Keep THEN c[k] ELSE d[k]]

Request == [op : {"commit"}, delta : Delta] \cup [op : {"replace"}, graph : Content]

VARIABLES content, revision, request

Init == /\ content = Empty
        /\ revision = 0
        /\ request = [t \in Caller |-> None]

Ask(t, q) == /\ request[t] = None
             /\ request' = [request EXCEPT ![t] = q]
             /\ UNCHANGED <<content, revision>>

Effect(q) == IF q.op = "commit" THEN Apply(content, q.delta) ELSE q.graph

Accept(t) == /\ request[t] # None
             /\ content' = Effect(request[t])
             /\ revision' \in Nat /\ revision' > revision
             /\ request' = [request EXCEPT ![t] = None]

GiveUp(t) == /\ request[t] # None
             /\ request' = [request EXCEPT ![t] = None]
             /\ UNCHANGED <<content, revision>>

Next == \E t \in Caller :
            (\E q \in Request : Ask(t, q)) \/ Accept(t) \/ GiveUp(t)

Spec == Init /\ [][Next]_<<content, revision, request>>
=============================================================================
