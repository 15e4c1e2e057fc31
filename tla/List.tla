--------------------------------- MODULE List ---------------------------------
(***************************************************************************)
(* ds/list: nodes linked in two directions, by address.                    *)
(*                                                                         *)
(* Whatever a call does to links it does to the one memory all lists share,*)
(* so that a node could be left in two lists or in none, or be reached one *)
(* way and not the other: that none is is what the properties say.         *)
(*                                                                         *)
(* A call that allocates takes as parameters what its allocator would      *)
(* lend: "hdr", whether the header; "grants", how many nodes, or "granted",*)
(* whether the one. Which address a node is lent at is for Lends to say.   *)
(*                                                                         *)
(* A definition named after another one with a suffix (Abandoned_..., ...) *)
(* is that one with a slip in it, there for a property to notice.          *)
(***************************************************************************)
EXTENDS Integers, Sequences, FiniteSets

SE == INSTANCE SequencesExt

CONSTANTS
  Handles, Als,
  Vals,     \* elems; cmp is their order as integers
  Inputs,   \* arrays of elems a caller hands over
  Nodes,    \* addresses a node is lent at
  Lends,    \* the address that is lent next when those of a set are free
  Null,
  OK, NoMem,
  Yes, No   \* true and false, as answers

ASSUME ListAssumption ==
  /\ Vals \subseteq Int
  /\ Inputs \subseteq Seq(Vals)
  /\ IsFiniteSet(Nodes)
  /\ \A S \in SUBSET Nodes : S # {} => Lends[S] \in S
  /\ Null \notin Nodes
  /\ Cardinality({OK, NoMem, Yes, No, Null}) = 5
  /\ {OK, NoMem, Yes, No} \cap Nodes = {}

VARIABLES
  list,    \* handle -> the struct tda_List behind it, or Null
  mem,     \* address -> the node lent at it, or Null
  hdrs,    \* allocator -> how many headers (struct tda_List) it has lent
  status   \* what the last call answered

vars == <<list, mem, hdrs, status>>

Lists == [head : Nodes \cup {Null}, tail : Nodes \cup {Null}, len : Nat, al : Als]

ListNodes ==
  [al : Als, val : Vals, next : Nodes \cup {Null}, prev : Nodes \cup {Null}]

(* Null is no struct and no node.                                          *)
ASSUME ListNullAssumption == Null \notin Lists \cup ListNodes

Alive(h) == list[h] # Null

-----------------------------------------------------------------------------
(* The allocator, as list.c uses it.                                       *)

FreeOf(m) == {x \in Nodes : m[x] = Null}
NextOf(m) == Lends[FreeOf(m)]

(* tda_dealloc: a node given back to another allocator stays in its books. *)
GiveBack(m, x, a) == IF m[x].al = a THEN [m EXCEPT ![x] = Null] ELSE m

TakeHdr(H, a)   == [H EXCEPT ![a] = @ + 1]
ReturnHdr(H, a) == [H EXCEPT ![a] = @ - 1]

-----------------------------------------------------------------------------
(* Links. A result is [st, d, m]: the status, the struct, the memory.      *)

Result(st, d, m) == [st |-> st, d |-> d, m |-> m]

SetNext(m, x, y) == IF x = Null THEN m ELSE [m EXCEPT ![x].next = y]
SetPrev(m, x, y) == IF x = Null THEN m ELSE [m EXCEPT ![x].prev = y]

(* A null neighbour is this end of the list.                               *)
LinkNode(d, m, x, prev, next) ==
  Result(OK,
    [d EXCEPT !.head = IF prev = Null THEN x ELSE @,
              !.tail = IF next = Null THEN x ELSE @,
              !.len  = @ + 1],
    SetPrev(SetNext([m EXCEPT ![x].prev = prev, ![x].next = next], prev, x), next, x))

UnlinkNode(d, m, x) ==
  LET prev == m[x].prev
      next == m[x].next
  IN  Result(OK,
        [d EXCEPT !.head = IF prev = Null THEN next ELSE @,
                  !.tail = IF next = Null THEN prev ELSE @,
                  !.len  = @ - 1],
        SetPrev(SetNext(m, prev, next), next, prev))

(* node_new: null, or a node that is in no list yet.                       *)
NodeNew(m, a, val, granted) ==
  LET x == IF granted /\ FreeOf(m) # {} THEN NextOf(m) ELSE Null
      node == [al |-> a, val |-> val, next |-> Null, prev |-> Null]
  IN  [x |-> x, m |-> IF x = Null THEN m ELSE [m EXCEPT ![x] = node]]

InsertBetween(d, m, prev, next, val, granted) ==
  LET new == NodeNew(m, d.al, val, granted)
  IN  IF new.x = Null THEN Result(NoMem, d, m)
      ELSE LinkNode(d, new.m, new.x, prev, next)

Removed(d, m, x) ==
  LET r == UnlinkNode(d, m, x) IN Result(OK, r.d, GiveBack(r.m, x, d.al))

Nexts(m) == [x \in Nodes |-> IF m[x] = Null THEN Null ELSE m[x].next]
Prevs(m) == [x \in Nodes |-> IF m[x] = Null THEN Null ELSE m[x].prev]

(* The nodes links lead to from x on, in that order; of links that run in  *)
(* a circle, as many as there are nodes.                                   *)
Walk(links, x) ==
  LET from[p \in (0 .. Cardinality(Nodes)) \X (Nodes \cup {Null})] ==
        IF p[1] = 0 \/ p[2] = Null THEN <<>>
        ELSE <<p[2]>> \o from[<<p[1] - 1, links[p[2]]>>]
  IN  from[<<Cardinality(Nodes), x>>]

NodesOf(d, m) == Walk(Nexts(m), d.head)

NthOf(s, k) == IF k \in DOMAIN s THEN s[k] ELSE Null
PlaceOf(s, x) == CHOOSE k \in DOMAIN s : s[k] = x

Emptied(d) == [d EXCEPT !.head = Null, !.tail = Null, !.len = 0]

(* clear_nodes, on the memory; Emptied is what it makes of the struct.     *)
ClearedMem(d, m) ==
  LET s == SE!ToSet(NodesOf(d, m))
  IN  [x \in Nodes |-> IF x \in s /\ m[x].al = d.al THEN Null ELSE m[x]]

(* splice_nodes: the nodes of e go before or behind those of d.            *)
SpliceNodes(d, e, m, front) ==
  LET first == IF front THEN e ELSE d
      then  == IF front THEN d ELSE e
      both  == [d EXCEPT !.head = first.head, !.tail = then.tail, !.len = @ + e.len]
  IN  IF d.len = 0
      THEN Result(OK, [d EXCEPT !.head = e.head, !.tail = e.tail, !.len = @ + e.len], m)
      ELSE Result(OK, both, SetPrev(SetNext(m, first.tail, then.head), then.head, first.tail))

-----------------------------------------------------------------------------
(* Sorting and merging: by the next links alone, the others mended after.  *)

OneTaken_RightFirst(m, s, t, p) ==
  IF p[1] < Len(s) /\ (p[2] = Len(t) \/ m[s[p[1] + 1]].val < m[t[p[2] + 1]].val)
  THEN <<p[1] + 1, p[2]>> ELSE <<p[1], p[2] + 1>>

(* One more node taken, when p[1] and p[2] were taken of the two chains:   *)
(* of equal elems the left one goes first.                                 *)
OneTaken(m, s, t, p) ==
  IF p[1] < Len(s) /\ (p[2] = Len(t) \/ m[s[p[1] + 1]].val <= m[t[p[2] + 1]].val)
  THEN <<p[1] + 1, p[2]>> ELSE <<p[1], p[2] + 1>>

(* merge_chains: how many were taken of each, when k were.                 *)
MergeChains(m, s, t) ==
  LET taken[k \in 0 .. Len(s) + Len(t)] ==
        IF k = 0 THEN <<0, 0>> ELSE OneTaken(m, s, t, taken[k - 1])
  IN  [k \in 1 .. Len(s) + Len(t) |->
         IF taken[k][1] > taken[k - 1][1] THEN s[taken[k][1]] ELSE t[taken[k][2]]]

(* sort_chain, of the n nodes after the first i.                           *)
SortChain(m, s) ==
  LET sort[n \in 0 .. Len(s)] ==
        LET half == n \div 2
        IN  [i \in 0 .. Len(s) - n |->
               IF n < 2 THEN SubSeq(s, i + 1, i + n)
               ELSE MergeChains(m, sort[half][i], sort[n - half][i + half])]
  IN  sort[Len(s)][0]

(* The next links of the nodes of s, as the merges leave them.             *)
NextLinked(m, s) ==
  LET linked == SE!ToSet(s)
  IN  [x \in Nodes |-> IF x \in linked THEN [m[x] EXCEPT !.next = NthOf(s, PlaceOf(s, x) + 1)]
                       ELSE m[x]]

PrevLinked(m, s) ==
  LET linked == SE!ToSet(s)
  IN  [x \in Nodes |-> IF x \in linked THEN [m[x] EXCEPT !.prev = NthOf(s, PlaceOf(s, x) - 1)]
                       ELSE m[x]]

RelinkPrev_KeepsTail(d, m) == Result(OK, d, PrevLinked(m, NodesOf(d, m)))

(* relink_prev: every prev link and the tail, from the next links.         *)
RelinkPrev(d, m) ==
  LET s == NodesOf(d, m)
  IN  Result(OK, [d EXCEPT !.tail = NthOf(s, Len(s))], PrevLinked(m, s))

Sorted(d, m) ==
  LET s == SortChain(m, NodesOf(d, m))
  IN  IF d.len < 2 THEN Result(OK, d, m)
      ELSE RelinkPrev([d EXCEPT !.head = s[1]], NextLinked(m, s))

(* merge_into: the nodes of e go among those of d.                         *)
MergeInto(d, e, m) ==
  LET s == MergeChains(m, NodesOf(d, m), NodesOf(e, m))
  IN  RelinkPrev([d EXCEPT !.head = s[1], !.len = @ + e.len], NextLinked(m, s))

-----------------------------------------------------------------------------
(* Building.                                                               *)

NewStruct(a) == [head |-> Null, tail |-> Null, len |-> 0, al |-> a]

Abandoned_KeepsNodes(r) == Result(NoMem, r.d, r.m)

(* A list whose next node was refused gives back those it has.             *)
Abandoned(r) == Result(NoMem, Emptied(r.d), ClearedMem(r.d, r.m))

(* One more elem at the back of what was built, if nothing was refused.    *)
Pushed(r, val, granted) ==
  IF r.st = NoMem THEN r ELSE InsertBetween(r.d, r.m, r.d.tail, Null, val, granted)

(* The elems of vs pushed to the back of a new list, one after another.    *)
Built(a, m, vs, grants) ==
  LET upTo[i \in 0 .. Len(vs)] ==
        IF i = 0 THEN Result(OK, NewStruct(a), m) ELSE Pushed(upTo[i - 1], vs[i], i <= grants)
      r == upTo[Len(vs)]
  IN  IF r.st = NoMem THEN Abandoned(r) ELSE r

Elems(d, m) == LET s == NodesOf(d, m) IN [i \in DOMAIN s |-> m[s[i]].val]

(* The elems of vs over those of the first nodes of s.                     *)
Overwritten(m, s, vs) ==
  LET first == {s[i] : i \in {i \in DOMAIN s : i <= Len(vs)}}
  IN  [x \in Nodes |-> IF x \in first THEN [m[x] EXCEPT !.val = vs[PlaceOf(s, x)]] ELSE m[x]]

(* The last nodes removed, until no more than n are left.                  *)
Shortened(d, m, n) ==
  LET gone == IF n < d.len THEN d.len - n ELSE 0
      upTo[k \in 0 .. gone] ==
        IF k = 0 THEN Result(OK, d, m)
        ELSE Removed(upTo[k - 1].d, upTo[k - 1].m, upTo[k - 1].d.tail)
  IN  upTo[gone]

-----------------------------------------------------------------------------
(* How a call ends.                                                        *)

Refuse ==
  /\ status' = NoMem
  /\ UNCHANGED <<list, mem, hdrs>>

Nothing ==
  /\ status' = OK
  /\ UNCHANGED <<list, mem, hdrs>>

Commit(h, r) ==
  /\ list' = [list EXCEPT ![h] = r.d]
  /\ mem' = r.m
  /\ status' = r.st
  /\ UNCHANGED hdrs

(* The list h is left with d and the list g with e.                        *)
CommitBoth(h, d, g, e, m) ==
  /\ list' = [list EXCEPT ![h] = d, ![g] = e]
  /\ mem' = m
  /\ status' = OK
  /\ UNCHANGED hdrs

-----------------------------------------------------------------------------
(* Lifetime and assignment.                                                *)

(* tda_list_new, and the elems of vs pushed: from_data and copy_with.      *)
NewWith(h, a, vs, hdr, grants) ==
  LET r == Built(a, mem, vs, grants)
  IN  /\ ~Alive(h)
      /\ \/ /\ ~hdr
            /\ Refuse
         \/ /\ hdr
            /\ r.st = NoMem
            /\ mem' = r.m
            /\ hdrs' = ReturnHdr(TakeHdr(hdrs, a), a)
            /\ status' = NoMem
            /\ UNCHANGED list
         \/ /\ hdr
            /\ r.st = OK
            /\ mem' = r.m
            /\ hdrs' = TakeHdr(hdrs, a)
            /\ list' = [list EXCEPT ![h] = r.d]
            /\ status' = OK

FromData(h, a, vs, hdr, grants) == NewWith(h, a, vs, hdr, grants)

CopyWith(h, g, a, hdr, grants) ==
  /\ Alive(h)
  /\ NewWith(g, a, Elems(list[h], mem), hdr, grants)

Drop(h) ==
  /\ Alive(h)
  /\ list' = [list EXCEPT ![h] = Null]
  /\ mem' = ClearedMem(list[h], mem)
  /\ hdrs' = ReturnHdr(hdrs, list[h].al)
  /\ status' = OK

(* The nodes the target lacks are built aside, which is all that can be    *)
(* refused; then it is overwritten, shortened, and given the others.       *)
CopyAssign(h, g, grants) ==
  LET d     == list[g]
      vs    == Elems(list[h], mem)
      spare == Built(d.al, mem, SubSeq(vs, d.len + 1, Len(vs)), grants)
      m     == Overwritten(spare.m, NodesOf(d, mem), vs)
      cut   == Shortened(d, m, list[h].len)
  IN  /\ Alive(h) /\ Alive(g)
      /\ \/ /\ h = g
            /\ Nothing
         \/ /\ h # g
            /\ spare.st = NoMem
            /\ Commit(g, Result(NoMem, d, spare.m))
         \/ /\ h # g
            /\ spare.st = OK
            /\ Commit(g, IF spare.d.len = 0 THEN cut
                         ELSE SpliceNodes(cut.d, spare.d, cut.m, FALSE))

(* What a call that needs a copy of the list h on the allocator a does     *)
(* when it is refused: no header, or no node at some point.                *)
CopyRefused(h, a, hdr, grants) ==
  LET r == Built(a, mem, Elems(list[h], mem), grants)
  IN  \/ /\ ~hdr
         /\ Refuse
      \/ /\ hdr
         /\ r.st = NoMem
         /\ mem' = r.m
         /\ status' = NoMem
         /\ UNCHANGED <<list, hdrs>>

MoveAssign(h, g, hdr, grants) ==
  LET d == list[h]
      e == list[g]
      r == Built(e.al, mem, Elems(d, mem), grants)
  IN  /\ Alive(h) /\ Alive(g)
      /\ \/ /\ h = g
            /\ Nothing
         \/ /\ h # g
            /\ d.al = e.al
            /\ CommitBoth(g, d, h, Emptied(e), ClearedMem(e, mem))
         \/ /\ d.al # e.al
            /\ CopyRefused(h, e.al, hdr, grants)
         \/ /\ d.al # e.al
            /\ hdr
            /\ r.st = OK
            /\ CommitBoth(g, r.d, h, Emptied(d), ClearedMem(d, ClearedMem(e, r.m)))

(* Both of one allocator: all but the allocator is exchanged.              *)
Swap(h, g) ==
  /\ Alive(h) /\ Alive(g)
  /\ list[h].al = list[g].al
  /\ CommitBoth(h, list[g], g, list[h], mem)

-----------------------------------------------------------------------------
(* Nodes.                                                                  *)

(* A program comes by nodes from either end: by front_node and node_next,  *)
(* or by back_node and node_prev.                                          *)
InList(h, x) ==
  /\ Alive(h)
  /\ x \in SE!ToSet(NodesOf(list[h], mem)) \cup SE!ToSet(Walk(Prevs(mem), list[h].tail))

PushFront(h, val, granted) ==
  /\ Alive(h)
  /\ Commit(h, InsertBetween(list[h], mem, Null, list[h].head, val, granted))

PushBack(h, val, granted) ==
  /\ Alive(h)
  /\ Commit(h, InsertBetween(list[h], mem, list[h].tail, Null, val, granted))

InsertBefore(h, at, val, granted) ==
  /\ InList(h, at)
  /\ Commit(h, InsertBetween(list[h], mem, mem[at].prev, at, val, granted))

InsertAfter(h, at, val, granted) ==
  /\ InList(h, at)
  /\ Commit(h, InsertBetween(list[h], mem, at, mem[at].next, val, granted))

PopFront(h) ==
  /\ Alive(h)
  /\ list[h].len > 0
  /\ Commit(h, Removed(list[h], mem, list[h].head))

PopBack(h) ==
  /\ Alive(h)
  /\ list[h].len > 0
  /\ Commit(h, Removed(list[h], mem, list[h].tail))

Remove(h, x) ==
  /\ InList(h, x)
  /\ Commit(h, Removed(list[h], mem, x))

Clear(h) ==
  /\ Alive(h)
  /\ Commit(h, Result(OK, Emptied(list[h]), ClearedMem(list[h], mem)))

(* A store through front_mut, back_mut or node_elem_mut.                   *)
WriteElem(h, x, val) ==
  /\ InList(h, x)
  /\ Commit(h, Result(OK, list[h], [mem EXCEPT ![x].val = val]))

CopyFromSpan(h, vs) ==
  /\ Alive(h)
  /\ Len(vs) = list[h].len
  /\ Commit(h, Result(OK, list[h], Overwritten(mem, NodesOf(list[h], mem), vs)))

-----------------------------------------------------------------------------
(* Questions. An eq or tda_Eq cannot tell the elems of "alike" apart; the  *)
(* bytes of eq tell all elems apart.                                       *)

Same(u, v, alike) == u = v \/ {u, v} \subseteq alike

Answer(x) ==
  /\ status' = x
  /\ UNCHANGED <<list, mem, hdrs>>

(* eq and eq_by: two lists of one length, walked side by side.             *)
Compare(h, g, alike) ==
  LET s == NodesOf(list[h], mem)
      t == NodesOf(list[g], mem)
  IN  /\ Alive(h) /\ Alive(g)
      /\ Answer(IF \/ h = g
                   \/ /\ list[h].len = list[g].len
                      /\ \A k \in DOMAIN s : Same(mem[s[k]].val, mem[t[k]].val, alike)
                THEN Yes ELSE No)

(* The first node whose elem is the key.                                   *)
FindNode(d, m, key, alike) ==
  LET s    == NodesOf(d, m)
      hits == {k \in DOMAIN s : Same(m[s[k]].val, key, alike)}
  IN  NthOf(s, IF hits = {} THEN 0 ELSE CHOOSE k \in hits : \A l \in hits : k <= l)

Find(h, key, alike) == Alive(h) /\ Answer(FindNode(list[h], mem, key, alike))

-----------------------------------------------------------------------------
(* From one list to another.                                               *)

(* splice_front and splice_back. The copy is left empty, and dropped.      *)
Splice(h, g, front, hdr, grants) ==
  LET d == list[h]
      e == list[g]
      r == Built(d.al, mem, Elems(e, mem), grants)
      Spliced(f, m) == SpliceNodes(d, f, m, front)
  IN  /\ Alive(h) /\ Alive(g)
      /\ h # g
      /\ \/ /\ e.len = 0
            /\ Nothing
         \/ /\ e.len > 0
            /\ d.al = e.al
            /\ CommitBoth(h, Spliced(e, mem).d, g, Emptied(e), Spliced(e, mem).m)
         \/ /\ e.len > 0
            /\ d.al # e.al
            /\ CopyRefused(g, d.al, hdr, grants)
         \/ /\ e.len > 0
            /\ d.al # e.al
            /\ hdr
            /\ r.st = OK
            /\ CommitBoth(h, Spliced(r.d, r.m).d, g, Emptied(e),
                          ClearedMem(e, Spliced(r.d, r.m).m))

InOrder(vs) == \A i, j \in DOMAIN vs : i < j => vs[i] <= vs[j]

(* The caller answers for both being sorted.                               *)
Merge(h, g, hdr, grants) ==
  LET d == list[h]
      e == list[g]
      r == Built(d.al, mem, Elems(e, mem), grants)
  IN  /\ Alive(h) /\ Alive(g)
      /\ h # g
      /\ InOrder(Elems(d, mem)) /\ InOrder(Elems(e, mem))
      /\ \/ /\ e.len = 0
            /\ Nothing
         \/ /\ e.len > 0
            /\ d.al = e.al
            /\ CommitBoth(h, MergeInto(d, e, mem).d, g, Emptied(e), MergeInto(d, e, mem).m)
         \/ /\ e.len > 0
            /\ d.al # e.al
            /\ CopyRefused(g, d.al, hdr, grants)
         \/ /\ e.len > 0
            /\ d.al # e.al
            /\ hdr
            /\ r.st = OK
            /\ CommitBoth(h, MergeInto(d, r.d, r.m).d, g, Emptied(e),
                          ClearedMem(e, MergeInto(d, r.d, r.m).m))

(* The link that leads to "at", or to the end, once the node is out of the *)
(* way: within one list it is read after the node was unlinked.            *)
PrevOf(d, m, at) == IF at = Null THEN d.tail ELSE m[at].prev

SpliceNode(h, at, g, x, granted) ==
  LET d   == list[h]
      e   == list[g]
      out == UnlinkNode(e, mem, x)
      d1  == IF h = g THEN out.d ELSE d
      in  == LinkNode(d1, out.m, x, PrevOf(d1, out.m, at), at)
      new == InsertBetween(d, mem, PrevOf(d, mem, at), at, mem[x].val, granted)
      old == Removed(e, new.m, x)
  IN  /\ Alive(h)
      /\ InList(g, x)
      /\ at = Null \/ InList(h, at)
      /\ at # x
      /\ \/ /\ d.al # e.al
            /\ new.st = NoMem
            /\ Refuse
         \/ /\ d.al # e.al
            /\ new.st = OK
            /\ CommitBoth(h, new.d, g, old.d, old.m)
         \/ /\ d.al = e.al
            /\ h = g
            /\ Commit(h, in)
         \/ /\ d.al = e.al
            /\ h # g
            /\ CommitBoth(h, in.d, g, out.d, in.m)

-----------------------------------------------------------------------------
(* Relinking one list.                                                     *)

Reverse(h) ==
  LET d == list[h]
      s == SE!ToSet(NodesOf(d, mem))
  IN  /\ Alive(h)
      /\ Commit(h, Result(OK, [d EXCEPT !.head = d.tail, !.tail = d.head],
           [x \in Nodes |-> IF x \in s
                            THEN [mem[x] EXCEPT !.next = mem[x].prev, !.prev = mem[x].next]
                            ELSE mem[x]]))

Sort(h) ==
  /\ Alive(h)
  /\ Commit(h, Sorted(list[h], mem))

-----------------------------------------------------------------------------
Init ==
  /\ list = [h \in Handles |-> Null]
  /\ mem = [x \in Nodes |-> Null]
  /\ hdrs = [a \in Als |-> 0]
  /\ status = OK

(* What its allocator may answer a call that builds n nodes: no header; or *)
(* a header, and so many of them.                                          *)
Answers(n) == {<<FALSE, 0>>} \cup ({TRUE} \X (0 .. n))

LenOf(h) == IF Alive(h) THEN list[h].len ELSE 0

PairStep(h, g) ==
  \/ Swap(h, g)
  \/ \E alike \in {{}, Vals} : Compare(h, g, alike)
  \/ \E grants \in 0 .. LenOf(h) : CopyAssign(h, g, grants)
  \/ \E ans \in Answers(LenOf(h)) :
       \/ \E a \in Als : CopyWith(h, g, a, ans[1], ans[2])
       \/ MoveAssign(h, g, ans[1], ans[2])
  \/ \E ans \in Answers(LenOf(g)) :
       \/ \E front \in BOOLEAN : Splice(h, g, front, ans[1], ans[2])
       \/ Merge(h, g, ans[1], ans[2])
  \/ \E x \in Nodes, at \in Nodes \cup {Null}, granted \in BOOLEAN :
       SpliceNode(h, at, g, x, granted)

NodeStep(h) ==
  \/ \E val \in Vals, granted \in BOOLEAN :
       \/ PushFront(h, val, granted) \/ PushBack(h, val, granted)
       \/ \E at \in Nodes : InsertBefore(h, at, val, granted) \/ InsertAfter(h, at, val, granted)
  \/ PopFront(h)
  \/ PopBack(h)
  \/ \E x \in Nodes : Remove(h, x) \/ \E val \in Vals : WriteElem(h, x, val)

WholeStep(h) ==
  \/ \E a \in Als, vs \in Inputs : \E ans \in Answers(Len(vs)) : FromData(h, a, vs, ans[1], ans[2])
  \/ Drop(h)
  \/ Clear(h)
  \/ Reverse(h)
  \/ Sort(h)
  \/ \E vs \in Inputs : CopyFromSpan(h, vs)
  \/ \E key \in Vals, alike \in {{}, Vals} : Find(h, key, alike)

Next ==
  \E h \in Handles :
    \/ WholeStep(h)
    \/ NodeStep(h)
    \/ \E g \in Handles : PairStep(h, g)

Spec == Init /\ [][Next]_vars

-----------------------------------------------------------------------------
(* Properties.                                                             *)

TypeOK ==
  /\ list \in [Handles -> Lists \cup {Null}]
  /\ mem \in [Nodes -> ListNodes \cup {Null}]
  /\ hdrs \in [Als -> Nat]
  /\ status \in {OK, NoMem, Yes, No, Null} \cup Nodes

(* The k-th node from the head, Null for none of them.                     *)
NodeAt(d) ==
  LET at[k \in 0 .. d.len] ==
        IF k = 0 THEN Null
        ELSE IF k = 1 THEN d.head
        ELSE IF at[k - 1] = Null THEN Null ELSE mem[at[k - 1]].next
  IN  at

(* Both directions and len agree: len steps from the head lead through as  *)
(* many nodes, each of which links back to the one before it, and end at   *)
(* the tail, whose next link is null.                                      *)
LinksAgree ==
  /\ TypeOK
  /\ \A h \in Handles : Alive(h) =>
       LET d  == list[h]
           at == NodeAt(d)
       IN  /\ \A k \in 1 .. d.len : at[k] # Null /\ mem[at[k]] # Null
           /\ \A k \in 1 .. d.len : mem[at[k]].prev = at[k - 1]
           /\ d.tail = at[d.len]
           /\ IF d.len = 0 THEN d.head = Null ELSE mem[d.tail].next = Null

(* Every node that is lent is in one list, once, and of the allocator it   *)
(* will go back to; so is every header.                                    *)
NothingLeaks ==
  /\ \A x \in Nodes : mem[x] # Null =>
       Cardinality({p \in Handles \X (1 .. Cardinality(Nodes)) :
                      /\ Alive(p[1])
                      /\ p[2] <= list[p[1]].len
                      /\ NodeAt(list[p[1]])[p[2]] = x
                      /\ mem[x].al = list[p[1]].al}) = 1
  /\ \A a \in Als : hdrs[a] = Cardinality({h \in Handles : Alive(h) /\ list[h].al = a})

L == INSTANCE ListStore WITH
       objs <- [h \in Handles |->
                  IF Alive(h) THEN [al |-> list[h].al, nodes |-> NodesOf(list[h], mem)] ELSE Null],
       elem <- [x \in {x \in Nodes : mem[x] # Null} |-> mem[x].val]

(* The links are sequences: every call does to the lists what its header   *)
(* says, moves no node but the ones it is to move, sorts and merges        *)
(* stably, leaves every elem with its node, and when refused does nothing. *)
ImplementsListStore == L!ListSpec
=============================================================================
