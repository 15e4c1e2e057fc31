------------------------------ MODULE SeqStore ------------------------------
(***************************************************************************)
(* What every sequence container of the library promises its caller: a     *)
(* finite sequence of elems, owned by an object that keeps the allocator   *)
(* it was built with, and calls that either do what their header says or   *)
(* report NO_MEM and leave every object as it was.                         *)
(*                                                                         *)
(* Nothing here is about blocks, capacities or slots; Deque shows that its *)
(* ring implements this module.                                            *)
(***************************************************************************)
EXTENDS Integers, Sequences

CONSTANTS
  Handles,  \* the object variables of the program that uses the library
  Als,      \* allocators
  Vals,     \* values a caller stores
  Inputs,   \* arrays of values a caller hands over
  Counts,   \* lengths a caller asks for
  Zero,     \* the elem whose bytes are all zero
  Null,     \* no object behind a handle
  OK, NoMem \* the two values of tda_Status

VARIABLES
  objs,     \* handle -> its object, [al, elems], or Null
  status    \* what the last call answered: a tda_Status, or whether two are equal

sVars == <<objs, status>>

Elems == Vals \cup {Zero}

Objects == [al : Als, elems : Seq(Elems)]

SeqTypeOK ==
  /\ objs \in [Handles -> Objects \cup {Null}]
  /\ status \in {OK, NoMem} \cup BOOLEAN

SeqInit ==
  /\ objs = [h \in Handles |-> Null]
  /\ status = OK

Alive(h) == objs[h] # Null

(* The first n elems of s, and what is left once they are gone.            *)
FirstN(s, n) == SubSeq(s, 1, n)
AfterN(s, n) == SubSeq(s, n + 1, Len(s))

ZeroSeq(n) == [i \in 1 .. n |-> Zero]

(* A call that cannot fail, or did not: h now holds the elems of s.        *)
Becomes(h, s) ==
  /\ objs' = [objs EXCEPT ![h].elems = s]
  /\ status' = OK

(* A call that was refused memory changes no object at all.                *)
Refused ==
  /\ status' = NoMem
  /\ UNCHANGED objs

Done ==
  /\ status' = OK
  /\ UNCHANGED objs

-----------------------------------------------------------------------------
(* Lifetime and whole-object calls.                                        *)

SeqNew(h, a, s) ==
  /\ ~Alive(h)
  /\ \/ /\ objs' = [objs EXCEPT ![h] = [al |-> a, elems |-> s]]
        /\ status' = OK
     \/ Refused

SeqDrop(h) ==
  /\ Alive(h)
  /\ objs' = [objs EXCEPT ![h] = Null]
  /\ status' = OK

SeqCopyWith(h, g, a) ==
  /\ Alive(h)
  /\ SeqNew(g, a, objs[h].elems)

(* The target keeps its own allocator.                                     *)
SeqCopyAssign(h, g) ==
  /\ Alive(h) /\ Alive(g)
  /\ \/ Becomes(g, objs[h].elems)
     \/ Refused

SeqMoveAssign(h, g) ==
  /\ Alive(h) /\ Alive(g)
  /\ \/ /\ h = g
        /\ Done
     \/ /\ h # g
        /\ objs' = [objs EXCEPT ![g].elems = objs[h].elems, ![h].elems = <<>>]
        /\ status' = OK
     \/ Refused

SeqSwap(h, g) ==
  /\ Alive(h) /\ Alive(g)
  /\ objs[h].al = objs[g].al
  /\ objs' = [objs EXCEPT ![g] = objs[h], ![h] = objs[g]]
  /\ status' = OK

-----------------------------------------------------------------------------
(* Calls on one object.                                                    *)

SeqInsert(h, i, v) ==
  /\ Alive(h)
  /\ i \in 0 .. Len(objs[h].elems)
  /\ \/ Becomes(h, FirstN(objs[h].elems, i) \o <<v>> \o AfterN(objs[h].elems, i))
     \/ Refused

(* A run of elems at once, of which none or all go in.                     *)
SeqInsertSpan(h, i, s) ==
  /\ Alive(h)
  /\ i \in 0 .. Len(objs[h].elems)
  /\ \/ Becomes(h, FirstN(objs[h].elems, i) \o s \o AfterN(objs[h].elems, i))
     \/ Refused

SeqRemoveRange(h, i, n) ==
  /\ Alive(h)
  /\ i + n <= Len(objs[h].elems)
  /\ Becomes(h, FirstN(objs[h].elems, i) \o AfterN(objs[h].elems, i + n))

SeqRemove(h, i) ==
  /\ Alive(h)
  /\ i \in 0 .. Len(objs[h].elems) - 1
  /\ Becomes(h, FirstN(objs[h].elems, i) \o AfterN(objs[h].elems, i + 1))

SeqPushFront(h, v) ==
  /\ Alive(h)
  /\ \/ Becomes(h, <<v>> \o objs[h].elems)
     \/ Refused

SeqPushBack(h, v) ==
  /\ Alive(h)
  /\ \/ Becomes(h, Append(objs[h].elems, v))
     \/ Refused

SeqPopFront(h) ==
  /\ Alive(h)
  /\ objs[h].elems # <<>>
  /\ Becomes(h, Tail(objs[h].elems))

SeqPopBack(h) ==
  /\ Alive(h)
  /\ objs[h].elems # <<>>
  /\ Becomes(h, FirstN(objs[h].elems, Len(objs[h].elems) - 1))

SeqClear(h) ==
  /\ Alive(h)
  /\ Becomes(h, <<>>)

SeqResize(h, n) ==
  /\ Alive(h)
  /\ LET s == objs[h].elems
     IN  \/ /\ n <= Len(s)
            /\ Becomes(h, FirstN(s, n))
         \/ /\ n > Len(s)
            /\ \/ Becomes(h, s \o ZeroSeq(n - Len(s)))
               \/ Refused

SeqSet(h, i, v) ==
  /\ Alive(h)
  /\ i \in 0 .. Len(objs[h].elems) - 1
  /\ Becomes(h, [objs[h].elems EXCEPT ![i + 1] = v])

SeqSwapElems(h, i, j) ==
  /\ Alive(h)
  /\ {i, j} \subseteq 0 .. Len(objs[h].elems) - 1
  /\ LET s == objs[h].elems
     IN  Becomes(h, [s EXCEPT ![i + 1] = s[j + 1], ![j + 1] = s[i + 1]])

(* copy_from_span: every elem overwritten, none added.                     *)
SeqOverwrite(h, s) ==
  /\ Alive(h)
  /\ Len(s) = Len(objs[h].elems)
  /\ Becomes(h, s)

(* reserve and shrink_to_fit move elems about and change none of them.     *)
SeqHousekeeping(h) ==
  /\ Alive(h)
  /\ Done \/ Refused

(* eq, of an equality that cannot tell the elems of "alike" apart.         *)
SeqCompare(h, g, alike) ==
  LET s == objs[h].elems
      t == objs[g].elems
  IN  /\ Alive(h) /\ Alive(g)
      /\ status' = (/\ Len(s) = Len(t)
                    /\ \A i \in DOMAIN s : s[i] = t[i] \/ {s[i], t[i]} \subseteq alike)
      /\ UNCHANGED objs

(* What a constructor can be asked to start from: nothing, zeroed elems,   *)
(* or a copy of an array.                                                  *)
Starts == {<<>>} \cup Inputs \cup {ZeroSeq(n) : n \in Counts}

SeqNext ==
  \E h \in Handles :
    \/ \E a \in Als, s \in Starts : SeqNew(h, a, s)
    \/ SeqDrop(h)
    \/ \E g \in Handles :
         \/ \E a \in Als : SeqCopyWith(h, g, a)
         \/ SeqCopyAssign(h, g)
         \/ SeqMoveAssign(h, g)
         \/ SeqSwap(h, g)
         \/ \E alike \in {{}, Elems} : SeqCompare(h, g, alike)
    \/ \E v \in Vals :
         \/ SeqPushFront(h, v)
         \/ SeqPushBack(h, v)
    \/ SeqPopFront(h)
    \/ SeqPopBack(h)
    \/ SeqClear(h)
    \/ \E n \in Counts : SeqResize(h, n)
    \/ \E s \in Inputs : SeqOverwrite(h, s)
    \/ SeqHousekeeping(h)
    \/ /\ Alive(h)
       /\ \E i \in 0 .. Len(objs[h].elems) :
            \/ SeqRemove(h, i)
            \/ \E v \in Vals : SeqInsert(h, i, v) \/ SeqSet(h, i, v)
            \/ \E j \in 0 .. Len(objs[h].elems) : SeqSwapElems(h, i, j)
            \/ \E n \in 0 .. Len(objs[h].elems) : SeqRemoveRange(h, i, n)
            \/ \E s \in Inputs : SeqInsertSpan(h, i, s)

SeqSpec == SeqInit /\ [][SeqNext]_sVars
=============================================================================
