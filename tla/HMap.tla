--------------------------------- MODULE HMap ---------------------------------
(***************************************************************************)
(* ds/hmap: nodes in chains under an array of buckets that grows.          *)
(*                                                                         *)
(* Bucket arrays and nodes are blocks of one memory, linked by address, so *)
(* that a chain could come to share, lose or close on a node: that none    *)
(* does is what the properties say. A key is compared by "eq" as itself;   *)
(* a hasher is a function of it, and travels with the entries.             *)
(*                                                                         *)
(* A call that allocates takes as parameters what its allocator would      *)
(* lend: "hdr", whether the header; "room", the longest array of buckets;  *)
(* "grants", how many nodes. Arrays and nodes are lent at addresses of     *)
(* their own; which of them is for Lends to say.                           *)
(*                                                                         *)
(* A definition named after another one with a suffix (Chosen_..., ...) is *)
(* that one with a slip in it, there for a property to notice.             *)
(***************************************************************************)
EXTENDS Integers, Sequences, FiniteSets

SE == INSTANCE SequencesExt

CONSTANTS
  Handles, Als, Keys, Vals,
  Hashers,  \* functions from keys to hashes
  Arrays,   \* addresses an array of buckets is lent at
  Nodes,    \* addresses a node is lent at
  Lends,    \* the address that is lent next when those of a set are free
  Null,
  OK, NoMem,
  Caps,     \* capacities a caller asks for
  Rooms,    \* lengths of the longest array an allocator can lend
  Base,     \* HMAP_BUCKETS_BASE
  SizeMax   \* SIZE_MAX

ASSUME HMapAssumption ==
  /\ \A hs \in Hashers : hs \in [Keys -> Nat]
  /\ Arrays \cap Nodes = {}
  /\ \A S \in (SUBSET Arrays) \cup (SUBSET Nodes) : S # {} => Lends[S] \in S
  /\ Caps \subseteq 0 .. SizeMax
  /\ Rooms \subseteq 0 .. SizeMax
  /\ SizeMax \in Nat
  /\ Base \in 1 .. SizeMax
  /\ IsFiniteSet(Nodes)
  /\ OK # NoMem

VARIABLES
  map,     \* handle -> the struct tda_HMap behind it, or Null
  mem,     \* address -> the array of buckets or the node lent at it, or Null
  hdrs,    \* allocator -> how many headers (struct tda_HMap) it has lent
  status   \* what the last call returned

vars == <<map, mem, hdrs, status>>

Addrs == Arrays \cup Nodes

Maps == [buckets : Arrays \cup {Null}, count : Nat, len : Nat, hasher : Hashers, al : Als]

MapNodes ==
  [al : Als, key : Keys, val : Vals, hash : Nat, next : Nodes \cup {Null}]

BucketArray(n) == [al : Als, slots : [0 .. n - 1 -> Nodes \cup {Null}]]

(* What a caller sees of a map.                                            *)
Objects == [al : Als, hasher : Hashers, entries : UNION {[S -> Vals] : S \in SUBSET Keys}]

(* Null is no address, no struct, and nothing that is lent or seen.        *)
ASSUME HMapNullAssumption ==
  /\ Null \notin Arrays \cup Nodes
  /\ Null \notin Maps \cup MapNodes \cup Objects
  /\ \A n \in 0 .. SizeMax : Null \notin BucketArray(n)

Alive(h) == map[h] # Null

-----------------------------------------------------------------------------
(* The allocator, as hmap.c uses it.                                       *)

FreeOf(m, S) == {x \in S : m[x] = Null}
NextOf(m, S) == Lends[FreeOf(m, S)]

(* tda_dealloc: a block given back to another allocator stays in its       *)
(* books, and so does an array given back at another length.               *)
GiveBackNode(m, x, a) == IF m[x].al = a THEN [m EXCEPT ![x] = Null] ELSE m

GiveBackArray(m, b, a, n) ==
  IF b # Null /\ m[b].al = a /\ DOMAIN m[b].slots = 0 .. n - 1
  THEN [m EXCEPT ![b] = Null]
  ELSE m

-----------------------------------------------------------------------------
(* Chains and buckets.                                                     *)

(* The node k links on from x, and the nodes from x on in that order; of   *)
(* links that run in a circle, as many as there are nodes.                 *)
LinkedFrom(m, x, k) ==
  LET next  == [y \in Nodes \cup {Null} |-> IF y = Null THEN Null ELSE m[y].next]
      at[j \in 0 .. k] == IF j = 0 THEN x ELSE next[at[j - 1]]
  IN  at[k]

Chain(m, x) ==
  LET linked == {k \in 0 .. Cardinality(Nodes) - 1 : LinkedFrom(m, x, k) # Null}
  IN  [k \in 1 .. Cardinality(linked) |-> LinkedFrom(m, x, k - 1)]

(* The walk of first_from and node_next: bucket after bucket.              *)
WalkOrder(d, m) ==
  LET upTo[n \in 0 .. d.count] ==
        IF n = 0 THEN <<>> ELSE upTo[n - 1] \o Chain(m, m[d.buckets].slots[n - 1])
  IN  upTo[d.count]

(* bucket_of: the mask of a power of two.                                  *)
BucketOf(n, hash) == hash % n

(* find_node: the first node of the key's bucket with its hash and key.    *)
FindNode(d, m, key) ==
  LET hash == d.hasher[key]
      on   == [y \in Nodes \cup {Null} |->
                 IF y = Null \/ (m[y].hash = hash /\ m[y].key = key) THEN y ELSE m[y].next]
      at[k \in 0 .. Cardinality(Nodes)] ==
        IF k = 0 THEN m[d.buckets].slots[BucketOf(d.count, hash)] ELSE on[at[k - 1]]
  IN  IF d.count = 0 THEN Null ELSE at[Cardinality(Nodes)]

(* The lengths an array can have: the base, doubled.                       *)
Doubled[i \in 0 .. SizeMax] == IF i = 0 THEN Base ELSE 2 * Doubled[i - 1]

Pow2s == {Doubled[i] : i \in 0 .. SizeMax} \cap 0 .. SizeMax

(* round_up_pow2: 0 when the doubling overflows first.                     *)
RoundUpPow2(want) ==
  IF \E n \in Pow2s : n >= want
  THEN CHOOSE n \in Pow2s : n >= want /\ \A x \in Pow2s : x >= want => n <= x
  ELSE 0

-----------------------------------------------------------------------------
(* Growth. A result is [st, d, m]: the status, the struct, the memory.     *)

Result(st, d, m) == [st |-> st, d |-> d, m |-> m]

Pointing(slots, i, x) == [j \in DOMAIN slots |-> IF j = i THEN x ELSE slots[j]]

(* The node x goes to the front of its bucket in the array b.              *)
LinkInFront(m, b, x, n) ==
  LET i == BucketOf(n, m[x].hash)
  IN  [m EXCEPT ![x].next = m[b].slots[i], ![b].slots = Pointing(@, i, x)]

Relinked_HeadsOnly(d, m, order) ==
  SelectSeq(order, LAMBDA x : \E i \in 0 .. d.count - 1 : m[d.buckets].slots[i] = x)

(* The nodes rehash visits: each link is read before it is overwritten.    *)
Relinked(d, m, order) == order

(* The nodes of order, one after another, go to the array b.               *)
LinkAll(m, b, n, order) ==
  LET after[k \in 0 .. Len(order)] ==
        IF k = 0 THEN m ELSE LinkInFront(after[k - 1], b, order[k], n)
  IN  after[Len(order)]

Rehash(d, m, n, room) ==
  LET b     == NextOf(m, Arrays)
      empty == [m EXCEPT ![b] = [al |-> d.al, slots |-> [i \in 0 .. n - 1 |-> Null]]]
      full  == LinkAll(empty, b, n, Relinked(d, m, WalkOrder(d, m)))
  IN  IF n > room \/ FreeOf(m, Arrays) = {}
      THEN Result(NoMem, d, m)
      ELSE Result(OK, [d EXCEPT !.buckets = b, !.count = n],
                  GiveBackArray(full, d.buckets, d.al, d.count))

ReserveOne(d, m, room) ==
  IF d.len < d.count THEN Result(OK, d, m)
  ELSE IF d.count = 0 THEN Rehash(d, m, Base, room)
  ELSE IF d.count * 2 > SizeMax THEN Result(NoMem, d, m)
  ELSE Rehash(d, m, d.count * 2, room)

Reserve(d, m, cap, room) ==
  IF cap <= d.count THEN Result(OK, d, m)
  ELSE IF RoundUpPow2(cap) = 0 THEN Result(NoMem, d, m)
  ELSE Rehash(d, m, RoundUpPow2(cap), room)

Chosen_BeforeTheGrowth(before, d, hash) ==
  IF before.count = 0 THEN 0 ELSE BucketOf(before.count, hash)

(* The bucket a new node goes to: one of the array as it is by then.       *)
Chosen(before, d, hash) == BucketOf(d.count, hash)

Linked_AtTheEnd(m, b, i, x, node) ==
  LET chain == Chain(m, m[b].slots[i])
  IN  IF chain = <<>> THEN [m EXCEPT ![x] = node, ![b].slots = Pointing(@, i, x)]
      ELSE [m EXCEPT ![x] = [node EXCEPT !.next = Null], ![SE!Last(chain)].next = x]

(* The new node goes to the front of its chain, whose rest follows it.     *)
Linked(m, b, i, x, node) == [m EXCEPT ![x] = node, ![b].slots = Pointing(@, i, x)]

(* node_new: null, or a node that is in no chain yet.                      *)
NodeNew(m, a, key, val, hash, granted) ==
  LET x == IF granted /\ FreeOf(m, Nodes) # {} THEN NextOf(m, Nodes) ELSE Null
  IN  [x |-> x, node |-> [al |-> a, key |-> key, val |-> val, hash |-> hash, next |-> Null]]

(* What add_node does when reserve_one has left r of the struct d. A map   *)
(* that grew for a node it is then refused has grown.                      *)
WithNode(d, r, key, val, granted) ==
  LET hash == d.hasher[key]
      new  == NodeNew(r.m, d.al, key, val, hash, granted)
      i    == Chosen(d, r.d, hash)
      node == [new.node EXCEPT !.next = r.m[r.d.buckets].slots[i]]
  IN  IF r.st = NoMem THEN r
      ELSE IF new.x = Null THEN Result(NoMem, r.d, r.m)
      ELSE Result(OK, [r.d EXCEPT !.len = @ + 1],
                  Linked(r.m, r.d.buckets, i, new.x, node))

AddNode(d, m, key, val, room, granted) == WithNode(d, ReserveOne(d, m, room), key, val, granted)

Overwritten_Anew(d, m, x, val) ==
  LET y == NextOf(m, Nodes)
  IN  IF FreeOf(m, Nodes) = {} THEN [m EXCEPT ![x].val = val]
      ELSE [z \in Addrs |->
              IF z = y THEN [m[x] EXCEPT !.val = val]
              ELSE IF z = x THEN Null
              ELSE IF z = d.buckets
              THEN [m[z] EXCEPT !.slots =
                      [i \in DOMAIN m[z].slots |->
                         IF m[z].slots[i] = x THEN y ELSE m[z].slots[i]]]
              ELSE IF z \in Nodes /\ m[z] # Null /\ m[z].next = x
              THEN [m[z] EXCEPT !.next = y]
              ELSE m[z]]

(* The value of an entry that is there is written where it lies.           *)
Overwritten(d, m, x, val) == [m EXCEPT ![x].val = val]

InsertInto(d, m, key, val, room, granted) ==
  LET x == FindNode(d, m, key)
  IN  IF x # Null THEN Result(OK, d, Overwritten(d, m, x, val))
      ELSE AddNode(d, m, key, val, room, granted)

-----------------------------------------------------------------------------
(* Removal.                                                                *)

(* The nodes of order go back to the allocator a.                          *)
GiveBackAll(m, a, order) ==
  LET after[k \in 0 .. Len(order)] ==
        IF k = 0 THEN m ELSE GiveBackNode(after[k - 1], order[k], a)
  IN  after[Len(order)]

ClearNodes(d, m) == GiveBackAll(m, d.al, WalkOrder(d, m))

(* release_buckets, and what of drop is not the header.                    *)
ReleasedMem(d, m) == GiveBackArray(ClearNodes(d, m), d.buckets, d.al, d.count)
Released(d) == [d EXCEPT !.buckets = Null, !.count = 0, !.len = 0]

(* What takes the place of the node x in its chain.                        *)
Past(m, x) == m[x].next

(* The link to the node x, in its bucket or in the node before it, becomes *)
(* the one x has; then x goes back.                                        *)
RemoveFrom(d, m, x) ==
  LET i     == BucketOf(d.count, m[x].hash)
      chain == Chain(m, m[d.buckets].slots[i])
      past  == Past(m, x)
      prev  == chain[CHOOSE k \in DOMAIN chain : k + 1 \in DOMAIN chain /\ chain[k + 1] = x]
      cut   == IF chain[1] = x
               THEN [m EXCEPT ![d.buckets].slots = Pointing(@, i, past)]
               ELSE [m EXCEPT ![prev].next = past]
  IN  GiveBackNode(cut, x, d.al)

-----------------------------------------------------------------------------
(* How a call ends.                                                        *)

Refuse ==
  /\ status' = NoMem
  /\ UNCHANGED <<map, mem, hdrs>>

Nothing ==
  /\ status' = OK
  /\ UNCHANGED <<map, mem, hdrs>>

Commit(h, r) ==
  /\ map' = [map EXCEPT ![h] = r.d]
  /\ mem' = r.m
  /\ status' = r.st
  /\ UNCHANGED hdrs

-----------------------------------------------------------------------------
(* Lifetime.                                                               *)

TakeHdr(H, a)   == [H EXCEPT ![a] = @ + 1]
ReturnHdr(H, a) == [H EXCEPT ![a] = @ - 1]

NewStruct(hs, a) == [buckets |-> Null, count |-> 0, len |-> 0, hasher |-> hs, al |-> a]

(* tda_hmap_new_raw_ with the header lent: the buckets are the rest.       *)
NewRaw(cap, hs, a, m, room) == Reserve(NewStruct(hs, a), m, cap, room)

(* How a constructor ends: its header was refused, or came and goes with   *)
(* what is left of a body that was, or holds what the body built.          *)
Construct(g, a, hdr, r) ==
  /\ ~Alive(g)
  /\ \/ /\ ~hdr
        /\ Refuse
     \/ /\ hdr
        /\ r.st = NoMem
        /\ hdrs' = ReturnHdr(TakeHdr(hdrs, a), a)
        /\ mem' = r.m
        /\ status' = NoMem
        /\ UNCHANGED map
     \/ /\ hdr
        /\ r.st = OK
        /\ hdrs' = TakeHdr(hdrs, a)
        /\ map' = [map EXCEPT ![g] = r.d]
        /\ mem' = r.m
        /\ status' = OK

NewCap(h, cap, hs, a, hdr, room) == Construct(h, a, hdr, NewRaw(cap, hs, a, mem, room))

Drop(h) ==
  /\ Alive(h)
  /\ map' = [map EXCEPT ![h] = Null]
  /\ mem' = ReleasedMem(map[h], mem)
  /\ hdrs' = ReturnHdr(hdrs, map[h].al)
  /\ status' = OK

(* A clone whose next node was refused is dropped with those it has.       *)
Abandoned(r) == Result(NoMem, r.d, ReleasedMem(r.d, r.m))

KeptWhole(r) == IF r.st = NoMem THEN Abandoned(r) ELSE r

(* tda_hmap_copy_with, its header aside: entry after entry, in the order   *)
(* of the walk.                                                            *)
AddedTo(r, node, room, granted) ==
  IF r.st = NoMem THEN r ELSE InsertInto(r.d, r.m, node.key, node.val, room, granted)

Filled(d, a, m, room, grants) ==
  LET order == WalkOrder(d, m)
      after[k \in 0 .. Len(order)] ==
        IF k = 0 THEN NewRaw(d.len, d.hasher, a, m, room)
        ELSE AddedTo(after[k - 1], m[order[k]], room, k <= grants)
  IN  after[Len(order)]

Clone(d, a, m, room, grants) == KeptWhole(Filled(d, a, m, room, grants))

CopyWith(h, g, a, hdr, room, grants) ==
  /\ Alive(h)
  /\ Construct(g, a, hdr, Clone(map[h], a, mem, room, grants))

(* A clone on the target's allocator takes the place of the target, and is *)
(* dropped with what the target had. Its header comes and goes.            *)
CloneRefused(r) ==
  /\ r.st = NoMem
  /\ mem' = r.m
  /\ status' = NoMem
  /\ UNCHANGED <<map, hdrs>>

TakesPlaceOf(g, r) ==
  /\ r.st = OK
  /\ map' = [map EXCEPT ![g] = r.d]
  /\ mem' = ReleasedMem(map[g], r.m)
  /\ status' = OK
  /\ UNCHANGED hdrs

Replace(g, r) == CloneRefused(r) \/ TakesPlaceOf(g, r)

CopyAssign(h, g, hdr, room, grants) ==
  /\ Alive(h) /\ Alive(g)
  /\ \/ /\ h = g
        /\ Nothing
     \/ /\ h # g
        /\ ~hdr
        /\ Refuse
     \/ /\ h # g
        /\ hdr
        /\ Replace(g, Clone(map[h], map[g].al, mem, room, grants))

HandOver_KeepsHashers(h, g) ==
  /\ map' = [map EXCEPT ![g] = [map[h] EXCEPT !.hasher = map[g].hasher],
                        ![h] = [Released(map[g]) EXCEPT !.hasher = map[h].hasher]]
  /\ mem' = ReleasedMem(map[g], mem)
  /\ status' = OK
  /\ UNCHANGED hdrs

(* One allocator: the structs change places, hashers and all, and what g   *)
(* had is released from h.                                                 *)
HandOver(h, g) ==
  /\ map' = [map EXCEPT ![g] = map[h], ![h] = Released(map[g])]
  /\ mem' = ReleasedMem(map[g], mem)
  /\ status' = OK
  /\ UNCHANGED hdrs

MoveAssign_AsIfOneAllocator(h, g, hdr, room, grants) ==
  /\ Alive(h) /\ Alive(g)
  /\ IF h = g THEN Nothing ELSE HandOver(h, g)

(* Two allocators: a clone takes the place of g, and h is emptied.         *)
TakesPlaceAndEmpties(h, g, r) ==
  /\ r.st = OK
  /\ map' = [map EXCEPT ![g] = r.d, ![h] = Released(map[h])]
  /\ mem' = ReleasedMem(map[h], ReleasedMem(map[g], r.m))
  /\ status' = OK
  /\ UNCHANGED hdrs

ReplaceAndEmpty(h, g, r) == CloneRefused(r) \/ TakesPlaceAndEmpties(h, g, r)

MoveAssign(h, g, hdr, room, grants) ==
  /\ Alive(h) /\ Alive(g)
  /\ \/ /\ h = g
        /\ Nothing
     \/ /\ h # g
        /\ map[h].al = map[g].al
        /\ HandOver(h, g)
     \/ /\ map[h].al # map[g].al
        /\ ~hdr
        /\ Refuse
     \/ /\ map[h].al # map[g].al
        /\ hdr
        /\ ReplaceAndEmpty(h, g, Clone(map[h], map[g].al, mem, room, grants))

(* The caller answers for the two being of one allocator.                  *)
Swap(h, g) ==
  /\ Alive(h) /\ Alive(g)
  /\ map[h].al = map[g].al
  /\ map' = [map EXCEPT ![h] = map[g], ![g] = map[h]]
  /\ status' = OK
  /\ UNCHANGED <<mem, hdrs>>

-----------------------------------------------------------------------------
(* Calls on one object.                                                    *)

Insert(h, key, val, room, granted) ==
  /\ Alive(h)
  /\ Commit(h, InsertInto(map[h], mem, key, val, room, granted))

GetOrInsert(h, key, val, room, granted) ==
  /\ Alive(h)
  /\ \/ /\ FindNode(map[h], mem, key) # Null
        /\ Nothing
     \/ /\ FindNode(map[h], mem, key) = Null
        /\ Commit(h, AddNode(map[h], mem, key, val, room, granted))

(* A store through get_mut or node_val_mut.                                *)
WriteVal(h, key, val) ==
  LET x == FindNode(map[h], mem, key)
  IN  /\ Alive(h)
      /\ x # Null
      /\ Commit(h, Result(OK, map[h], [mem EXCEPT ![x].val = val]))

RemoveNode(h, x) ==
  Commit(h, Result(OK, [map[h] EXCEPT !.len = @ - 1], RemoveFrom(map[h], mem, x)))

Remove(h, key) ==
  LET x == FindNode(map[h], mem, key)
  IN  /\ Alive(h)
      /\ \/ /\ x = Null
            /\ Nothing
         \/ /\ x # Null
            /\ RemoveNode(h, x)

Clear(h) ==
  LET d == map[h]
  IN  /\ Alive(h)
      /\ map' = [map EXCEPT ![h].len = 0]
      /\ mem' = IF d.count = 0 THEN mem
                ELSE [ClearNodes(d, mem) EXCEPT
                        ![d.buckets].slots = [i \in 0 .. d.count - 1 |-> Null]]
      /\ status' = OK
      /\ UNCHANGED hdrs

ReserveCap(h, cap, room) ==
  /\ Alive(h)
  /\ Commit(h, Reserve(map[h], mem, cap, room))

ShrinkToFit(h, room) ==
  LET d    == map[h]
      want == RoundUpPow2(d.len)
  IN  /\ Alive(h)
      /\ \/ /\ d.len = 0
            /\ Commit(h, Result(OK, Released(d), ReleasedMem(d, mem)))
         \/ /\ d.len > 0
            /\ want = 0 \/ want >= d.count
            /\ Nothing
         \/ /\ d.len > 0
            /\ want # 0
            /\ want < d.count
            /\ Commit(h, Rehash(d, mem, want, room))

-----------------------------------------------------------------------------
Init ==
  /\ map = [h \in Handles |-> Null]
  /\ mem = [x \in Addrs |-> Null]
  /\ hdrs = [a \in Als |-> 0]
  /\ status = OK

(* What its allocator may answer a call that copies h: no header; or a     *)
(* header, an array of some length, and so many nodes.                     *)
Answers(h) ==
  {<<FALSE, 0, 0>>} \cup ({TRUE} \X Rooms \X (IF Alive(h) THEN 0 .. map[h].len ELSE {}))

PairStep(h, g, ans) ==
  \/ \E a \in Als : CopyWith(h, g, a, ans[1], ans[2], ans[3])
  \/ CopyAssign(h, g, ans[1], ans[2], ans[3])
  \/ MoveAssign(h, g, ans[1], ans[2], ans[3])

GrowStep(h, room) ==
  \/ \E a \in Als, hs \in Hashers, cap \in Caps : NewCap(h, cap, hs, a, TRUE, room)
  \/ \E key \in Keys, val \in Vals, granted \in BOOLEAN :
       Insert(h, key, val, room, granted) \/ GetOrInsert(h, key, val, room, granted)
  \/ \E cap \in Caps : ReserveCap(h, cap, room)
  \/ ShrinkToFit(h, room)

PlainStep(h) ==
  \/ \E a \in Als, hs \in Hashers : NewCap(h, 0, hs, a, FALSE, 0)
  \/ Drop(h)
  \/ \E g \in Handles : Swap(h, g)
  \/ \E key \in Keys : Remove(h, key) \/ \E val \in Vals : WriteVal(h, key, val)
  \/ Clear(h)

Next ==
  \E h \in Handles :
    \/ PlainStep(h)
    \/ \E room \in Rooms : GrowStep(h, room)
    \/ \E g \in Handles, ans \in Answers(h) : PairStep(h, g, ans)

Spec == Init /\ [][Next]_vars

-----------------------------------------------------------------------------
(* Properties.                                                             *)

TypeOK ==
  /\ map \in [Handles -> Maps \cup {Null}]
  /\ \A h \in Handles : Alive(h) => map[h].count \in Pow2s \cup {0}
  /\ DOMAIN mem = Addrs
  /\ \A x \in Nodes : mem[x] \in MapNodes \cup {Null}
  /\ \A b \in Arrays : mem[b] = Null \/ \E n \in Pow2s : mem[b] \in BucketArray(n)
  /\ hdrs \in [Als -> Nat]
  /\ status \in {OK, NoMem}

Slots(h) == IF map[h].count = 0 THEN {} ELSE 0 .. map[h].count - 1

ChainIn(h, i) == Chain(mem, mem[map[h].buckets].slots[i])

NodesIn(h, i) == SE!ToSet(ChainIn(h, i))

NodesOf(h) == UNION {NodesIn(h, i) : i \in Slots(h)}

(* The buckets are a power of two, or none, and every chain ends; a node   *)
(* is in the bucket its key's hash chooses in the array as it is now,      *)
(* under the map's own hasher, and carries that hash; no key is there      *)
(* twice; and len counts the nodes, no more than there are buckets.        *)
ChainsSound ==
  /\ TypeOK
  /\ \A h \in Handles : Alive(h) =>
       LET d == map[h]
       IN  /\ \A i \in Slots(h) :
                /\ ChainIn(h, i) # <<>> => mem[SE!Last(ChainIn(h, i))].next = Null
                /\ \A x \in NodesIn(h, i) :
                     /\ mem[x].hash = d.hasher[mem[x].key]
                     /\ BucketOf(d.count, mem[x].hash) = i
           /\ \A x, y \in NodesOf(h) : mem[x].key = mem[y].key => x = y
           /\ d.len = Cardinality(NodesOf(h))
           /\ d.len <= d.count

(* What a map links to, its buckets included, was lent by its allocator,   *)
(* at the length it will go back with, and no other map links to it.       *)
EveryBlockIsOwned ==
  /\ \A h \in Handles : Alive(h) /\ map[h].count > 0 =>
       LET d == map[h]
       IN  /\ mem[d.buckets] # Null
           /\ mem[d.buckets].al = d.al
           /\ DOMAIN mem[d.buckets].slots = 0 .. d.count - 1
           /\ \A x \in NodesOf(h) : mem[x].al = d.al
  /\ \A h, g \in Handles : h # g /\ Alive(h) /\ Alive(g) /\ map[h].count > 0 =>
       /\ map[h].buckets # map[g].buckets
       /\ NodesOf(h) \cap NodesOf(g) = {}

(* Nothing an allocator has lent is out of reach, whatever was refused     *)
(* half way through a copy or a growth.                                    *)
NothingLeaks ==
  /\ \A x \in Addrs : mem[x] # Null =>
       \E h \in Handles : Alive(h) /\ (x = map[h].buckets \/ x \in NodesOf(h))
  /\ \A a \in Als : hdrs[a] = Cardinality({h \in Handles : Alive(h) /\ map[h].al = a})

(* Both: what is lent and what maps link to are the same.                  *)
BooksBalance == EveryBlockIsOwned /\ NothingLeaks

(* What is in a map, by key, found the way the code finds it.              *)
Entries(h) ==
  LET at(k) == FindNode(map[h], mem, k)
  IN  [k \in {k \in Keys : at(k) # Null} |-> mem[at(k)].val]

(* An entry never moves: a key that is in a map before and after a call is *)
(* in the same node, unless the map has another one's entries since. So a  *)
(* borrowed node survives every growth and every other key's removal.      *)
EntriesStay ==
  [][\A h \in Handles : Alive(h) /\ map'[h] # Null =>
       \/ \E g \in Handles : g # h /\ Alive(g) /\ Entries(h)' = Entries(g)
       \/ \A key \in Keys :
            LET x == FindNode(map[h], mem, key)
                y == FindNode(map'[h], mem', key)
            IN  x # Null /\ y # Null => x = y]_vars

(* All maps, as a caller sees them.                                        *)
Shown ==
  [h \in Handles |->
     IF Alive(h)
     THEN [al |-> map[h].al, hasher |-> map[h].hasher, entries |-> Entries(h)]
     ELSE Null]

M == INSTANCE MapStore WITH objs <- Shown

(* The chains are a map: every call does to the entries what its header    *)
(* says, to no other object anything, and a refused call nothing.          *)
ImplementsMapStore == M!MapSpec
=============================================================================
