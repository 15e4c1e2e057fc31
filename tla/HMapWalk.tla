------------------------------- MODULE HMapWalk -------------------------------
(***************************************************************************)
(* A walk over a hash map by first_node and node_next, whose body writes   *)
(* values, removes entries and inserts some. The caller holds nothing but  *)
(* the node he is at; what comes after it is read off that node and the    *)
(* buckets when he asks. A body that makes the buckets grow or shrink is   *)
(* left out: the header says the order may change then.                    *)
(***************************************************************************)
EXTENDS HMap

VARIABLE
  walk   \* the walk under way, or Null

wVars == <<map, mem, hdrs, status, walk>>

(* on is the map, at the node. Two sets are there to state the properties: *)
(* met, the nodes the walk has come to, and due, those that were in the    *)
(* map when it began, both without the ones removed since.                 *)
Walks == [on : Handles, at : Nodes, met : SUBSET Nodes, due : SUBSET Nodes]

(* The first node from bucket i onward.                                    *)
FirstFrom(d, m, i) ==
  LET full == {j \in i .. d.count - 1 : m[d.buckets].slots[j] # Null}
  IN  IF full = {} THEN Null
      ELSE m[d.buckets].slots[CHOOSE j \in full : \A k \in full : j <= k]

NodeNext_SameBucket(d, m, x) ==
  IF m[x].next # Null THEN m[x].next ELSE FirstFrom(d, m, BucketOf(d.count, m[x].hash))

NodeNext(d, m, x) ==
  IF m[x].next # Null THEN m[x].next
  ELSE FirstFrom(d, m, BucketOf(d.count, m[x].hash) + 1)

Begin(h) ==
  LET x == FirstFrom(map[h], mem, 0)
  IN  /\ walk = Null
      /\ Alive(h)
      /\ x # Null
      /\ walk' = [on |-> h, at |-> x, met |-> {x}, due |-> NodesOf(h)]
      /\ UNCHANGED vars

(* The walk w, gone on to x.                                               *)
GoneOn(w, x) ==
  IF x = Null THEN Null ELSE [w EXCEPT !.at = x, !.met = @ \cup {x}]

Forgetting(w, x) == [w EXCEPT !.met = @ \ {x}, !.due = @ \ {x}]

Step ==
  /\ walk # Null
  /\ walk' = GoneOn(walk, NodeNext(map[walk.on], mem, walk.at))
  /\ UNCHANGED vars

(* The step is taken, and the node it was taken from removed after it.     *)
StepRemoving ==
  /\ walk # Null
  /\ walk' = GoneOn(Forgetting(walk, walk.at), NodeNext(map[walk.on], mem, walk.at))
  /\ RemoveNode(walk.on, walk.at)

BodyInserts(key, val, granted) ==
  /\ walk # Null
  /\ \/ FindNode(map[walk.on], mem, key) # Null
     \/ map[walk.on].len < map[walk.on].count
  /\ \/ Insert(walk.on, key, val, 0, granted)
     \/ GetOrInsert(walk.on, key, val, 0, granted)
  /\ UNCHANGED walk

(* Any entry but the one the walk is at.                                   *)
BodyRemoves(key) ==
  LET x == FindNode(map[walk.on], mem, key)
  IN  /\ walk # Null
      /\ x # walk.at
      /\ Remove(walk.on, key)
      /\ walk' = Forgetting(walk, x)

WalkInit == Init /\ walk = Null

WalkNext ==
  \/ walk = Null /\ Next /\ UNCHANGED walk
  \/ \E h \in Handles : Begin(h)
  \/ Step
  \/ StepRemoving
  \/ \E key \in Keys, val \in Vals, granted \in BOOLEAN : BodyInserts(key, val, granted)
  \/ \E key \in Keys : BodyRemoves(key)

(* The caller's loop comes round to its next step.                         *)
WalkSpec == WalkInit /\ [][WalkNext]_wVars /\ WF_wVars(Step)

-----------------------------------------------------------------------------
(* Properties.                                                             *)

(* The node a walk is at is one of the map it is on, whatever the body has *)
(* removed around it, and so is everything it has still to come to.        *)
WalkTypeOK ==
  /\ walk \in Walks \cup {Null}
  /\ walk # Null => {walk.at} \cup walk.met \cup walk.due \subseteq NodesOf(walk.on)

(* A walk stands on live nodes, comes to no entry twice, and when it ends  *)
(* has come to every entry that was there when it began and still is.      *)
EachMetOnce ==
  [][/\ WalkTypeOK'
     /\ Step \/ StepRemoving => walk' = Null \/ walk'.at \notin walk.met
     /\ walk # Null /\ walk' = Null => walk.due \subseteq walk.met]_wVars

(* Every walk ends, however much its body inserts: a new entry goes to the *)
(* front of its chain, behind the walk or in a bucket it has yet to reach. *)
WalkEnds == walk # Null ~> walk = Null
=============================================================================
