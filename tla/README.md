# The library in TLA+

TLA+ specifications of the C23 library in `src/` (containers, allocators and
algorithms under the prefix `tda_`), model-checked with TLC and, where the
argument does not depend on the instance, proved with TLAPS.

Contents: 1. the system, 2. the inventory, 3. the modules that exist and how
they correspond to the code, 4. the runs, 5. the proofs, 6. what is not modelled,
7. the plan.

## 1. The system

The library is passive and sequential. A program calls into it; no call starts a
thread, registers a callback that outlives it or blocks ("Nothing is
thread-safe", `README.md:26`). What makes it hard is not interleaving but

- **memory that may be refused at every request**: each container is built on one
  `tda_Al`, a table of four functions and a context, and must be left as it was
  when any of them answers null;
- **accounting**: `dealloc` and `realloc` take the size of the block, so a container
  has to know, after any history, what it asked for and of whom; a wrong size is
  silent with `malloc` and corrupts every other allocator;
- **representations that wrap, thread or hash** (a ring with a seam, a free list
  inside the blocks it lists, links in two directions, chains under a table that
  grows), where a slip shows only after a particular sequence of legal calls;
- **arithmetic in `size_t`**, at both ends: indices stepping below zero, products
  and roundings that pass `SIZE_MAX`.

The specifications are therefore state machines whose steps are whole calls of
the public interface, made by a client that keeps to the documented
preconditions (what the code `assert`s on its arguments), on allocators that may
grant or refuse any request. Where the order of the steps inside one call is
the hazard, the steps are modelled too (the four shifting loops of the deque, the
copy and the return of a pool's realloc).

**Fairness.** The program decides which call comes next and may stop at any time;
nothing between calls has to happen by itself, and no specification of a container or an
allocator assumes any fairness. Inside a call the code does go on by itself. Two
specifications say so, and have a liveness property each: `HMapWalk` assumes weak fairness of
the walk's own next step (the caller's `for` loop, `TDA_HMAP_FOR_EACH`, comes round to
`node_next` when its body is done; how much the body inserts is up to the program), and
`Sorting` weak fairness of `Stepping`, the steps of a call that has begun - which a sequential
processor runs to the end - but none of `Calling`.

## 2. Inventory

How the parts interact: a container calls `tda_alloc`, `tda_calloc`,
`tda_realloc`, `tda_dealloc` (`alloc/alloc.c`), which answer the trivial cases,
fall back when the table has no `calloc` or `realloc`, and else call the table. The
pool, the arena, the aligned and the logging allocator are tables over a *parent*
table. `hset` wraps `hmap`; `queue` wraps `deque`; `stack` and `pqueue` wrap `vec`.
The algorithms take spans (pointer, length, elem size) by value and callbacks for
comparisons; the stable ones borrow a buffer from an allocator.

| part | state | operations | hard behaviour | what makes it correct |
|---|---|---|---|---|
| `alloc/alloc` | the table: a context, `alloc`, `dealloc`, and perhaps `calloc`, `realloc` | `tda_alloc`, `tda_calloc`, `tda_realloc`, `tda_dealloc` | a realloc made of alloc, copy, dealloc; requests for nothing; the block left alone on a refusal | blocks of live owners are apart, keep their words across every call, and go back once, to where and at the size they came with |
| `alloc/pool` | `block_size`, `block_count`, `used`, `free_head`; the links are words of the free blocks | new, drop, reset, alloc, dealloc | a lent block's owner overwrites the link; any order of deallocs | the list visits exactly the free blocks, each once |
| `alloc/arena` | `cap`, `offset` into one block | new, drop, reset, alloc, realloc, dealloc (nothing) | the last block is recognised from the offset alone; blocks are grown in place, moved, left behind | no two blocks overlap, every block starts aligned |
| `alloc/aligned` | `align`, parent | new, drop, alloc, dealloc | the parent's pointer is hidden before the block; the size is recomputed on the way back | the parent gets back the pointer and the size it lent |
| `alloc/log` | wrapped table, stream | forwards and prints | falls back as the table it wraps does, or calls it | transparent |
| `alloc/default` | none | `malloc` and friends | knows sizes by itself, so it hides a caller's mistake | - |
| `ds/deque` | `data`, `len`, `cap`, `head`, `al` | 24 calls that change a deque, a pair of them or its block | the ring wraps; growth unrolls it; refusals half way | contents do what a sequence would; no slot read before it is written; blocks owned and given back |
| `ds/vec` | `data`, `len`, `cap`, `al` | push, pop, insert, remove and their range forms, assignment | growth by realloc, the eager size refused; the tail and the run share the block | the same sequence; a refused call changes nothing |
| `ds/stack` | a vec | forwards | the header refused after the vec was built | the same, at one end |
| `ds/queue` | a deque | forwards | the same | the same, at two ends |
| `ds/list` | `head`, `tail`, `len`, nodes with `next`, `prev` | insert, remove, move within and between lists, splice, merge, sort, reverse | relinking a node next to itself; singly linked passes that mend `prev` and `tail` after | both directions agree with `len`; nodes are neither lost nor shared nor moved |
| `ds/hmap` | `buckets`, `bucket_count`, `len`, nodes in chains | insert, get or insert, remove, rehash, reserve, shrink, assign, iterate | the table grows before the node is asked for; iterating while removing | each key once, in the chain of its hash; a map whatever was refused; entries never move |
| `ds/hset` | a map without values | forwards | the header refused after the map | a set |
| `ds/pqueue` | a vec, a comparison | push, pop, replace, from a span, assignment | the order goes along with the elems | the heap order, at every state |
| `ds/bitset` | words, `nbits` | set, clear, flip, the algebra, scans, resize, assignment | the unused bits of the last word; shifts by the width of a word | a set of indices; unused bits zero |
| `ds/arr` | one block, `len` | get, set, fill, assignment | assignment between lengths | a sequence of fixed length |
| `algo/sort`, `heap` | none; a span in place | sort, stable sort, partial sort, nth, heap calls | unsigned indices at the ends; a depth limit that switches algorithms | a sorted permutation, stable where promised |
| `algo/merge`, `set` | none; spans and perhaps a buffer | merge in place, with and without a buffer, set operations | writing over what is being read; recursion that must shrink | the sorted union, ties from the left |
| `algo/permute`, `modify` | none | rotate, reverse, shuffle, permutations, unique, remove-if, partition | indices read after they moved | the stated permutation |
| `algo/search`, `compare`, `copy`, `fill`, `fold`, `transform` | none | one pass or a bisection | ends of a bisection; overlap of a copy | the stated index or value |
| `core/rng` | the words of the generator | seed, next, bounded draws, floats | the rejection threshold | every value of the range alike |
| `core/span`, `cmp`, `hash`, `print`, `status` | none | functions of a value | - | - |

`PROJECT.json` repeats the list under "components" with the files of each, and
lists, under "hazards", the lines of the code at which such behaviour bites
and the properties that watch them.

## 3. The modules

| module | what it is | code |
|---|---|---|
| *allocators* | | |
| `Pool`, `MCPool`, `PoolProofs` | the pool at the level of words, its instance, its theorems and those of `Wrapping` | `alloc/pool.c`, `alloc/alloc.c` |
| `Arena`, `ArenaProofs` | the arena at the level of words, run as it stands by `Arena.cfg`, and its theorems | `alloc/arena.c`, `alloc/alloc.c` |
| `Wrapping` | logging and aligned allocators stacked on `malloc`; instance in `MCPool`, theorems in `PoolProofs` | `alloc/log.c`, `alloc/aligned.c`, `alloc/default.c`, `alloc/alloc.c` |
| `Memory` | an allocator as the containers over one block use it: what is lent, at which size, with which cells, and how many headers | `alloc/alloc.c` |
| *abstract* | | |
| `SeqStore` | what a sequence container promises: objects that hold a finite sequence and an allocator, calls that do what their header says or report `NO_MEM` and change nothing | |
| `MapStore` | what a map or a set promises: objects that hold entries by key, a hasher and an allocator | |
| `ListStore` | what a linked list promises: objects that hold a sequence of nodes, nodes that keep their elem and place | |
| `PrioStore` | what a priority queue promises: a bag of elems, an order, a greatest elem on top | |
| `BitStore` | what a bitset promises: a set of indices below a bound | |
| *containers* | | |
| `Deque`, `MCDeque`, `DequeProofs` | the ring, its blocks and headers; the shifting loops replayed elem by elem; the theorems about blocks and sizes, and those about the sequence | `ds/deque.c` |
| `Queue`, `MCQueue`, `QueueProofs` | a header around a deque; two deques, or two queues, on two allocators; theorems | `ds/queue.c` |
| `Vec`, `Stack`, `PQueue`, `Arr` | a block that grows by realloc, two wrappers around it, and a block that does not grow | `ds/vec.c`, `ds/stack.c`, `ds/pqueue.c`, `ds/arr.c` |
| `Containers`, `MCContainers`, `ContainerProofs` | programs of the previous four over one memory, their instance, their theorems | |
| `Heap` | heaps in the front of a span | `algo/heap.c` |
| `BitSet`, `MCBitSet`, `BitSetProofs` | words over one block, their instance, their theorems | `ds/bitset.c` |
| `HMap`, `MCHMap`, `HMapProofs` | buckets and nodes linked by address, their instance, the theorems about maps and sets | `ds/hmap.c`, `ds/hset.c` |
| `HMapWalk`, `MCHMapWalk` | a walk by `first_node` and `node_next` whose body changes the map | `ds/hmap.c` |
| `HSet`, `MCHSet` | a header around a map; two maps, or two sets, on two allocators | `ds/hset.c`, `ds/hmap.c` |
| `List`, `MCList`, `ListProofs` | nodes linked in two directions by address, their instance, their theorems | `ds/list.c` |
| *algorithms* | | |
| `Spans` | what the algorithms over spans compute, loop by loop | `algo/*.c`, `core/span.c` |
| `Words`, `Scalars` | arithmetic in words that wrap: rounding, bounded draws, the generator, comparators, hashers | `internal/ptr.h`, `core/rng.c`, `core/cmp.c`, `core/hash.c`, `alloc/aligned.c` |
| `Algorithms`, `MCAlgorithms` | a caller of the previous four | |
| `Sorting`, `MCSorting` | sorts, selections and in-place merges, one step of their loops at a time | `algo/sort.c`, `algo/merge.c`, `algo/heap.c` |

"map" in `PROJECT.json` names the lines each definition stands for. Definitions
named after another one with a suffix (`StepBack_NoWrap`, `Move_FreeFirst`) are that
one with a plausible slip; they are used by no specification and exist so that
the property meant to notice the slip can be seen to. An action named for a group of calls
(`BirthStep`, `PairStep`, `GrowStep`, `StackStep`, `QueueStep`, ...) enumerates the calls that a
section of the public header declares, and stands for those declarations.

### Deque

`dq[h]` is the `struct tda_Deque` behind the object variable `h`; `mem[b]` the block
lent at the address `b` with the allocator, the size in bytes it was asked for at
and its cells; `hdrs[a]` how many header structs `a` has lent; `status` the last
answer. Objects and blocks are separate, so two objects could share a block,
lose it or return it wrongly; that they do not is proved, not built in. A cell
nobody has written holds `Junk`, which no caller stores.

A call is one action, and contains the whole of it: `Insert` grows, shifts the
shorter side and writes; `MoveAssign` between two allocators builds the copy,
exchanges the structs and returns three blocks. What the code computes by helper is
an operator with the helper's name (`StepBack`, `StepOn`, `SlotOf`, `FirstRun`,
`CopyOut`, `CopyIn`, `NextCap`, `Reserve`, `Grow`, `ReserveFor`, `Relocate`). The
allocator is represented by two parameters of each call that may ask it for
something: `room`, the largest block it would lend during the call, and, for
constructors, `hdr`, whether it would lend the header. So the eager request of a
growth can be refused and the exact one granted, as `grow` and `reserve_for`
expect. `elem_size` is one constant: the assertions of the code make it equal for the
objects of one call. Queries (`get`, `front`, the spans) change nothing; the
refinement reads the contents exactly as `get` does, through `SlotOf`. `eq` and `cmp` are calls
of their own (`alike` in `SeqStore`), which read two objects through their seams.

`Deque` refines `SeqStore` by mapping an object to its allocator and its contents
front to back. A refused call maps to `Refused`, which changes no object.

### Pool

`pool` is `PoolCtx` (block size in words, count, `free_head` as a block number, `used`);
`cell[b]` the words of block `b`, the first of which is the link while the block is
free; `lent[b]` what the owner of `b` knows to be in it (the size it asked for and
the words it has stored or found); `owed` what the parent has lent and not got back.
Clients store anything in a block of theirs, a number of a block and a null
link included. `Realloc` is `tda_realloc`'s fallback with the order of its steps:
take, copy, give back, the last of which writes a link over the old block's first
word. `Calloc` is the other fallback.

### Wrapping

`wrap[k]` is the allocator at level k of a stack whose level 0 is `malloc`: logging, or
aligned, with the addresses of the two structs (`ctx`, `obj`) it got from the level below.
`word` is the memory: the word in front of an aligned block is where the parent's block
begins, written by `aligned_alloc` and read back by `aligned_dealloc`, which also computes the size
anew. `heap` is what `malloc` has lent, by itself, at which size; it lends from places of fixed
width, at one of two addresses in each, so that a block is already aligned or not, and
refuses whenever it likes. `free` takes no size and so would hide a wrong one; `BlocksComeHome` asks for the
right one at every level, because a pool or arena in the place of `malloc` would not. A
constructor may be refused its context or its table (`NewLog`, `NewAligned`, with the context given back), an
aligned block is refused before the parent is asked when its padding passes `SIZE_MAX`, and an
allocator is dropped while nobody holds a block of it. `TakeZeroed`, `TakeByRealloc` and
`Resize` go through the fallbacks of `tda_calloc` and `tda_realloc` where the table has none.

### Arena

`arena` is `ArenaCtx` (capacity and offset in words); `cell` the words of its block;
`lent[c]` the block the owner `c` points to, with what `c` knows to be in it; `owed`
as in the pool. `Realloc` is the call as it reaches `arena_realloc`: in place when
the block ends where the offset is, moved otherwise, refused in both cases when the
end would pass the capacity or `SIZE_MAX`. `Reset` and `Drop` end every loan, which
is what the header says of the pointers.

### HMap and HMapWalk

`map[h]` is the `struct tda_HMap` behind `h`; `mem[x]` what is lent at the address `x`, an
array of buckets or a node with its key, value, stored hash and link. `Rehash` relinks
the nodes one after another in the order of the code's loops (bucket after bucket,
along each chain), each to the front of its new bucket, and gives the old array back at
the length the struct has for it; a block that would go back to another allocator, or at another
length, stays in the books, which `NothingLeaks` sees. `AddNode` makes room first and then
asks for the node, so a refused insertion may have grown the map. `Clone` is the body of
`copy_with`: one insertion after another into a map reserved for all of them, any of
which may be refused, upon which the clone is dropped (`Abandoned`). `room`, `hdr` and
`grants` say what the allocator would lend during a call: the longest array, the
header, so many nodes. Two hashers that disagree stand for what "travels with the
entries" has to mean. `eq` is equality of keys, and a hasher a function of the key, as
the header requires of the caller (keys equal under `eq` hash alike).

`HMap` refines `MapStore` by mapping what is behind a handle to what a caller sees of it (`Shown`):
the entries of an object are the keys that `find_node` finds
and their values, so an entry in the wrong bucket is an entry lost.

`HMapWalk` adds a caller who holds one node. `Step` is `node_next` as the code has it: the
link of the node, or the first bucket after the one the stored hash names.
`StepRemoving` steps first and then removes the node it came from by `remove_node`. The
body inserts as long as no growth is due, and removes any other entry: the header
promises no order across an insert that grows. `met` and `due` are history.

### List

`list[h]` is the `struct tda_List` behind `h`; `mem[x]` the node lent at the address `x`, with
the allocator it is of, its elem and both links; one memory for all lists, so that a node can be
in two of them or in none. The code's helpers (`link_node`, `unlink_node`,
`insert_between`, `splice_nodes`, `merge_chains`, `sort_chain`, `relink_prev`,
`merge_into`, `clear_nodes`) are operators from a struct and a memory to a status, a struct and a
memory, and a call composes them in the code's order: `SpliceNode` within one list takes
the neighbour (`PrevOf`) from the memory `UnlinkNode` leaves; `CopyAssign` builds the nodes the
target lacks aside (`Built`), any of which may be refused, before it touches the target; the
calls that need a copy on another allocator build it whole and drop what is left of it. A merge
or a sort changes next links alone (`NextLinked`) and `RelinkPrev` mends the others. The
comparison is `<=` on the elems, so that stability shows in which node comes first.

`List` refines `ListStore` by mapping an object to the nodes that its next links lead to from
`head`. `LinksAgree` says the prev links, `tail` and `len` tell the same story. The
refinement names nodes and not elems alone: a splice or merge within one allocator has to move
the very nodes, and a sort may not exchange elems between them.

### HSet and Queue

The inner pointer of a wrapper is written once, by its `wrap`, so a wrapper and what it wraps go by
one name; `set` and `que` say who is a wrapper, and its header is counted in the same books.
A constructor builds the map or deque first and drops it when its own header is
refused. `into_deque` gives the deque to the program and the header back; a set has no such call. A
program of `MCHSet` or `MCQueue` uses the bare containers or the wrappers, which is chosen at the
start: a wrapper hands out no pointer to what it wraps. Two maps are compared by asking one for the other's
keys (`EqualByContents`), which has to be right for two hashers and two histories.

### Memory, Vec, Stack, PQueue, Arr, BitSet

A memory is one value, `[lent, hdrs]`, that the operators `Alloc`, `Calloc`, `Realloc`,
`Dealloc` take and give; `room` is the largest block that would be lent at the moment. A
granted realloc always moves the block: growing in place is the case in which a pointer nobody
updated does no harm. A block given back with another size or to another allocator stays in the
books, which `BooksBalance` sees. The functions of `vec.c` are operators from a struct and a memory to
a status, a struct and a memory, and `Stack` and `PQueue` compose them as the code does.
Bulk inserts make room, move the tail and only then write the run (`InsertedSpan`). Orders of priority queues are functions, two of them, so that one that
stayed behind on an assignment shows at the top.

A word of a bitset is the set of its one bits: `~` is the complement in a whole word, so a bit
above `nbits` that is not cleared is there, counted by `count` and found by the scans. All
calls that answer are actions whose `answer` is compared with that of a set of indices
(`BitStore`).

`Vec`, `Stack` and `Arr` refine `SeqStore`, `PQueue` refines `PrioStore`, `BitSet` refines
`BitStore`.

### Spans, Words, Scalars, Algorithms

A span is a function from `0 .. n - 1`; a comparison, an equality and a predicate are functions of
elems. A loop that writes what it has still to read is a recursive function of how far it has come;
loops that do not are written as what they leave. `Algorithms` is a caller: its state is a span
that the in-place calls rearrange, in any order, and `CallsKeepTheirPromises` says what each call
must have done in terms of counting and order alone. Questions, which change nothing, are asked of
every span reached (`AnswersAreRight`), and what depends on words alone is an invariant too
(`WordsAreRight`): every offset a draw can have comes from equally many words, the aligned
allocator's arithmetic stays inside the block it asks for or refuses exactly when it must,
comparators are orders with NaNs and both zeros in them, and what compares even hashes alike.

### Sorting

One call on one span, step by step. A recursion is a stack of frames, `todo`; a loop that
writes over what it reads is `work`, positions that move. A frame that has only its last
recursive call before it is left as it will go on, which is how the code loops on the longer side and
recurses into the shorter. Elems carry the place they came from, which is what
stability is about; orders see the key alone. `INSERTION_THRESHOLD` and the slack of `depth_limit`
are parameters, smaller than in the code so that short spans are partitioned and give up;
nothing in the argument depends on their values, and `SamplesInside` checks the sampling step for
ranges long enough for the code's own.

### Abstractions common to all

A value stored by a client is a model value. Memory is counted in elems (deque),
machine words (pool, arena) or buckets (hmap, where `calloc`'s own product is part of
what `room` refuses); sizes are compared with `SIZE_MAX` in the unit
in which the code multiplies. Preconditions that the code asserts on its arguments
are guards. `out` parameters are represented by the object the call creates.

## 4. The runs

| run | module | distinct states | properties | what it shows |
|---|---|---|---|---|
| `deque_one_object` | `MCDeque` | 1404 | `RingInv`, `RefusedOnlyForNeed`, `LoopsReadBeforeTheyWrite`, `CapacityIsKept`, `ImplementsSeqStore` | One deque with up to five slots and an allocator that may refuse any request: the ring stays well formed, no unwritten slot is ever part of the contents, a growth is refused only when it must be, and every call does to the contents what a sequence would do, wherever the seam of the ring is. |
| `pool` | `MCPool` | 110585 | `FreeListInv`, `LentBlocksKeepTheirWords`, `ParentIsSquare`, `BlocksComeHome` | Pools of up to three blocks of two words over a parent that may refuse any of its three requests, with clients that store anything in their blocks: the list threaded through the free blocks is exactly the blocks nobody owns, no client's words change under it, and the parent gets back what it lent. Up to two log and aligned allocators stacked on malloc, built, refused half way, used by two owners and taken down: every block finds its way back to the heap at the size it came with, aligned and with its words kept. |
| `arena` | `Arena` | 147458 | `BlocksApart`, `StartsAligned`, `LentBlocksKeepTheirWords`, `ParentIsSquare` | Arenas of up to six words with three owners that take, grow, shrink and forget blocks and write to them: no two blocks ever overlap, none loses a word, every one starts aligned, and the parent gets back what it lent. |
| `hmap_one_object` | `MCHMap` | 330 | `ChainsSound`, `EntriesStay`, `ImplementsMapStore` | One map of up to four keys, three of them in one chain until it has eight buckets and two of them for good, over arrays of 2, 4 and 8 buckets and an allocator that may refuse any request: the chains stay sound through every growth, shrink and removal, no entry moves, and a call does to the entries what its header says. |
| `hmap_walk` | `MCHMapWalk` | 39748 | `EachMetOnce`, `WalkEnds` | A walk whose body removes and inserts entries without making the buckets grow: it never stands on a removed node, meets no entry twice, leaves none out and ends. |
| `list` | `MCList` | 3484 | `LinksAgree`, `NothingLeaks`, `ImplementsListStore` | Two lists on two allocators that may refuse any node: whatever is spliced, merged, sorted, reversed, copied, assigned or moved, both directions of links agree, every node is in one list of its own allocator, and a call does to the nodes what its header says or nothing. |
| `containers` | `MCContainers` | 3972 | `BooksBalance`, `ImplementsSeqStore`, `ImplementsPrioStore` | Programs over vecs, stacks, priority queues and arrs - one object with blocks of up to four elems, or two on two allocators with up to two - whose headers and blocks may be refused at any request: nothing is lost or given back wrongly, and each kind does to them what its header says. |
| `bitset` | `MCBitSet` | 560 | `BooksBalance`, `ImplementsBitStore` | A bitset of up to four words, or two of up to two on two allocators that may refuse any request, through every call on bits, words and pairs and every question: the last word's unused bits stay clear, nothing is lost, and changes and answers are those of a set of indices. |
| `queue` | `MCQueue` | 1234 | `BooksBalance`, `WrappersStayWithTheirDeque`, `ImplementsSeqStore` | Two deques, or two queues around deques, on two allocators: copies, assignments, moves, swaps, refused wraps and deques that leave their queue share no block and lose none, give each back to its allocator at its size, keep every wrapper on its deque's allocator, and no call on one object changes another. |
| `hset` | `MCHSet` | 2007 | `BooksBalance`, `WrappersStayWithTheirMap`, `EqualByContents`, `ImplementsMapStore` | Two maps, or two sets around maps, with two hashers on two allocators, copied, assigned, moved, swapped and wrapped with refusals half way: what one links to is its own allocator's and nobody else's, nothing is lost, wrappers and hashers stay with what they belong to, and two are equal exactly when their contents are, whatever their hashers and chains. |
| `algorithms` | `MCAlgorithms` | 341 | `AnswersAreRight`, `WordsAreRight`, `CallsKeepTheirPromises` | Every algorithm over spans, called in any order on every span of up to four elems: in-place ones lose, double or reorder nothing they should not, searches and set operations answer what counting answers, shuffles reach every order once; and what the generator, the aligned allocator, the comparators and the hashers compute in words that wrap is fair, inside its block, an order and in agreement. |
| `sorting` | `MCSorting` | 30917 | `FramesSound`, `MergeSound`, `EndsRight`, `Ends` | Every sort, selection and merge, step by step, over every way up to four elems compare and over longer spans whose pivots go bad, that are sampled, or that are two runs with ties: the partition's zones and borders hold, the stack stays logarithmic, a merge over what it reads loses nothing, and each call returns with what it promises, stable where it says so. |

A refinement compares a step with any call the abstract specification allows, or with a refusal that changes
nothing; which of them the caller made is not part of the abstract state. It shows that contents are never corrupted and that no
call changes another object, and of the call made as much as its effect tells it from others.

Each property of each run has an entry under "mutants": a slip in one definition
that the run must then find. Type invariants are conjuncts of the invariants that are proved, and
of the soundness of each struct (`VecSound`, `BitSetSound`, `ChainsSound`) elsewhere.

**Bounds, and why they are enough.**

- `deque_one_object`: `ElemSize = 3`, `SizeMax = 31`, blocks of at most 15 bytes (half
  the address space, `RoomAssumption`): capacities 0 to 5, so that every residue of the
  head occurs with every length, both sides of a shift are two long, a wrapped ring
  is grown and unrolled, the eager capacity is refused where the exact one is
  not (4 to 8, then 5), and 11 elems overflow the size. Two values and arrays of up
  to three elems tell any two slots apart that a shift or a copy could confuse.
- `queue`: two allocators and three blocks, the most that two objects and a copy under
  construction need; capacities 0 to 2 and one value, since what the run asks is who owns what.
- `pool`: three blocks, the smallest number with a middle one to free out of order;
  blocks of two words, a link and one more; `Align = 2`, so that an odd size is
  rounded; `SizeMax = 6`, so that two blocks of four words overflow. Stacks of two wrapping
  allocators, the least in which each kind stands on each; two users and seven places, of which four
  hold the allocators' own structs; words of 7 bits, so that a request for 126 overflows with its
  padding and 2 * 126 without; alignment 4 over `malloc`'s 2, so that the pad is
  needed or not.
- `arena`: `Align = 2` with sizes of 1 to 4 words in arenas of 5 and 6, so that
  rounding leaves an unusable tail, the last block grows, shrinks and hits the end,
  and a block in the middle has to move; `SizeMax = 7`, so that rounding up 7
  and the product 2 * 4 overflow. Sums are of unbounded numbers: where
  the code adds with `ckd_add`, `Fits` refuses what would exceed `SizeMax`, and a sum that wraps around is
  therefore only ruled out by that condition, not tried.
- `hmap_one_object`: `HMAP_BUCKETS_BASE` is 2 and `SizeMax` 15, so that arrays have 2, 4
  or 8 buckets and a reservation for 9 overflows; four keys, two with one hash, a third
  that shares their bucket until there are 8, a fourth elsewhere: chains of three that a
  growth splits and a shrink joins. Four addresses for nodes and two for arrays, the most
  one map needs while it rehashes. Since a call asks for one array at most, lending none
  or any (`Rooms` is 0 and 8) are all the cases there are.
- `hset`: base 1, so that two keys are enough to grow; four nodes and
  three arrays: two objects, and a copy of either under construction.
- `hmap_walk`: the instance of `hmap_one_object` with one value and, because of the
  liveness property, neither symmetry nor view.
- `list`: four nodes between two lists, enough for one of two to be copied or merged
  node by node into another allocator while it still exists, for a sort with two levels of
  halves, and for a node to be moved before, behind and away from its neighbours. Two elems make
  equal ones, which stability is about.
- `containers`: `ElemSize = 2` and `SizeMax = 13`; one object with blocks of up to 4 elems, so that
  an eager capacity of 6 is refused where 3 and 4 are lent and 7 overflows; two objects with two elems,
  for the calls that take two. Arrays of up to four elems and two orders.
- `bitset`: words of two bits, the least that have a last word which is whole, half used, or absent;
  lengths 0 to 7, so up to four words: shifts by less than a word, a whole word and more.
- `algorithms`: every span of up to four elems over three keys, one of which two elems carry;
  sorted spans of up to two, and one with three even elems, beside it. Words of 5 bits, 3 for
  the generator: few enough to enumerate every word it can draw.
- `sorting`: every way up to four elems can compare (weak orders, so ties in every place), beside
  spans of 7 whose first pivots go bad, spans wide enough for the sampled median and runs
  with ties for the merges. Threshold 2 and slack 1 make all of partition, insertion, the depth limit
  and the heap sort happen in 7 elems.

**Views and symmetry.** A `VIEW` leaves out what no later step and no property of a state can tell
apart: the answer of the last call (a step is checked with the answer it gives), cells
outside the contents, and the addresses of blocks and nodes, of which it keeps to whom they
are lent at which size. Symmetry is declared on values where they only occur as values, and on objects,
allocators and owners; the temporal properties of those runs are of the form
`[][A]_v`, or refinements without fairness, for which symmetric states are interchangeable. The
runs with liveness have neither.

Every bound is the value of a named constant in a `.cfg` or an operator `MC...`.
Deadlock is
checked in all runs but `sorting`, where a program that makes one call stops when it has returned.

## 5. The proofs

| theorem | says, for every value of the constants |
|---|---|
| `DequeProofs!TypeCorrect` | `Spec => []TypeOK` |
| `DequeProofs!RingsAreWellFormed` | `Spec => []RingInv` |
| `DequeProofs!BlocksAreOwned` | `Spec => []EveryBlockIsOwned` |
| `DequeProofs!NothingIsLost` | `Spec => []NothingLeaks` |
| `DequeProofs!BooksAreBalanced` | `Spec => []BooksBalance`, the two previous in one |
| `DequeProofs!RefusalsAreNeeded` | `Spec => []RefusedOnlyForNeed` |
| `DequeProofs!CapacityStays` | `Spec => CapacityIsKept` |
| `DequeProofs!RingIsASequence` | `Spec => ImplementsSeqStore` |
| `DequeProofs!LoopsMoveAll` | `Spec => []LoopsReadBeforeTheyWrite` |
| `DequeProofs!NoJunkIsRead` | every elem of every deque is one a caller stored |
| `QueueProofs!QueuesAreSound` | `QueueSpec => []QueueInv` |
| `QueueProofs!WrappersGoHome` | `QueueSpec => []WrappersStayWithTheirDeque` |
| `QueueProofs!QueuesBalance` | `QueueSpec => []BooksBalance` |
| `QueueProofs!QueueIsASequence` | `QueueSpec => ImplementsSeqStore` |
| `BitSetProofs!BitSetsBalance` | `BitSpec => []BooksBalance` |
| `BitSetProofs!WordsAreASet` | `BitSpec => ImplementsBitStore` |
| `PoolProofs!TypeCorrect` | `Spec => []TypeOK` |
| `PoolProofs!FreeListExact` | `Spec => []FreeListInv` |
| `PoolProofs!LentBlocksAreSafe` | `Spec => []LentBlocksKeepTheirWords` |
| `PoolProofs!ParentGetsAllBack` | `Spec => []ParentIsSquare` |
| `PoolProofs!WaysAlwaysLeadHome` | `WrapSpec => []WrapInv` |
| `PoolProofs!BlocksAlwaysComeHome` | `WrapSpec => []BlocksComeHome` |
| `ArenaProofs!TypeCorrect` | `Spec => []TypeOK` |
| `ArenaProofs!BlocksNeverOverlap` | `Spec => []BlocksApart` |
| `ArenaProofs!BlocksAreAligned` | `Spec => []StartsAligned` |
| `ArenaProofs!WordsAreKept` | `Spec => []LentBlocksKeepTheirWords` |
| `ArenaProofs!ParentGetsItBack` | `Spec => []ParentIsSquare` |
| `ContainerProofs!AlwaysSound` | `Spec => []IInv` |
| `ContainerProofs!BooksAlwaysBalance` | `Spec => []BooksBalance` |
| `ContainerProofs!SequencesImplementSeqStore` | `Spec => ImplementsSeqStore` |
| `HMapProofs!MapsAreSound` | `Spec => []IInv` |
| `HMapProofs!ChainsAlwaysSound` | `Spec => []ChainsSound` |
| `HMapProofs!EntriesAlwaysStay` | `Spec => EntriesStay` |
| `HMapProofs!MapsImplementMapStore` | `Spec => ImplementsMapStore` |
| `HMapProofs!WrappersAlwaysStay` | `SetSpec => []WrappersStayWithTheirMap` |
| `HMapProofs!MapBooksAlwaysBalance` | `SetSpec => []BooksBalance` |
| `HMapProofs!SetsImplementMapStore` | `SetSpec => ImplementsMapStore` |
| `HMapProofs!AlwaysEqualByContents` | `SetSpec => []EqualByContents` |
| `ListProofs!ListsAlwaysStand` | `Spec => []LinkInv` |
| `ListProofs!LinksAlwaysAgree` | `Spec => []LinksAgree` |
| `ListProofs!NothingEverLeaks` | `Spec => []NothingLeaks` |

**Assumptions on the constants.** `DequeAssumption`: the arrays are of values, the
lengths and sizes natural, an elem at least a byte, `Junk` no value a caller stores.
`RoomAssumption`: no allocator lends more than half of what a `size_t` counts (a C
object may not be larger than `PTRDIFF_MAX`); without it `head + i` in `slot_of` could
wrap. `NullAssumption`, `BitNullAssumption`, `ContainersNullAssumption`: null is no address, no struct, no lent block and no
object as a caller sees it. `MemoryAssumption`: `Lends` picks a free block where there is one,
and a refusal is told from an answer. `BitSetAssumption`: lengths natural, a word of at least one bit and one
byte. `VecAssumption`: the arrays are of values, counts natural, an elem at least a byte, `Junk` no value.
`ContainersAssumption`: a program's sizes and places are natural and its objects have handles.
`HMapAssumption`: hashes are natural, arrays and nodes have addresses of their own, the latter finite in number,
`Lends` picks a free one where there is one, and `HMAP_BUCKETS_BASE` is at least 1 and a `size_t`; `HMapNullAssumption` as
the others; `NoValAssumption`: a value without bytes is a value. `ListAssumption`: elems are compared as integers, nodes have
finitely many addresses, null is none of them, `Lends` picks a free one where there is one, and answers differ;
`ListNullAssumption` as the others. `PoolAssumption`, `ArenaAssumption`: sizes natural, the alignment positive, null no context.
`WrappingAssumption`: alignments are multiples of a pointer's, the heap is a row of places that fit the address space and
are wider than the default alignment, requests and the structs' size are `size_t`s, and null is neither an address nor what
a user holds. TLC evaluates each on its run.

**What the theorems are about.** `Deque`, `Pool`, `Arena`, `Containers`, `HMap` and `List` are proved as they are run, by the
`Spec` of the module. A run of queues, sets or bitsets restricts its program to keep the state space small:
`MCQueue` and `MCHSet` use the bare containers or the wrappers but not both, `MCBitSet` one bitset of many lengths or two of
few. `QueueSpec`, `SetSpec` and `BitSpec` do not - every step of the run is one of theirs (`LooseStep` is a call
on deques, or maps, that leaves those in wrappers alone; `BitStep` with fewer handles, lengths and answers of an allocator is a `BitNext`
step) - so the theorems hold of the runs and of any mixture.
`WrapSpec` is the allocators' half of what `MCPool` runs, whose steps are a pool's or theirs (`AllSpec`).

**Deque.** The inductive invariant `IInv` is `Sound(dq, mem)` - every struct is well
formed, its block is the one it says, of the allocator and the size it says, no two
share one and no other block is lent - with `HeadersCounted`. `RingInv` alone is not
inductive: that a growth leaves a ring needs the half-of-the-address-space bound on
the block it copies from, and that a fresh address is nobody's needs every lent
block to be somebody's. Each call of one object is shown to *exchange* the struct
and the block it had for another pair and to touch nothing else (`Exchanges`); that
the deques stay sound when one of them exchanges, two swap, one is born or dropped is
proved once for each. The header count is by cardinality of the set of live deques.

`RefusedOnlyForNeed` is a case analysis of `ReserveFor`: a refusal of the exact request implies one
of every larger request, so the eager request being refused decides nothing. `CapacityIsKept` compares
the struct a call gives away with the one it leaves.

**Deque as a sequence.** Every step of a deque is one of `SeqStore`. What is read is
a matter of slots: `Holds(d, c, s)` says that slot `slot_of(i)` of the cells `c` holds elem `i` of the
sequence `s`. For each helper on cells there is a lemma that says which sequence the ring holds
after it (`InsertFrontHolds`, `RemoveBackHolds`, `ResizeHolds`, ...), from
`SlotsDiffer`: two positions below `len` are two slots, wherever the seam is. The two halves of
an insertion - fewer elems move, at the front or at the back - are the same sequence operation. The
objects of all other deques read what they read, for no other deque has the block that was written
(`OthersRead`, from `IInv`), and a refused call changes none. `NoJunkIsRead` is an invariant of
`SeqStore` (what is stored comes from a caller) carried over by the refinement: the ring never
answers with a cell nobody wrote.

The shifts of insert and remove are steps of the model that move a whole run (`ShiftRun`), where the
code moves one elem after another. `LoopsMoveAll` justifies it for runs of any length: a loop is a
recursive function of how far it has come (`MovesUpward`, `MovesDownward`), and one whose places
are `Ordered` - none is written twice or read after it was written - has, after `k` steps, moved its first `k`
places (`OneAfterAnother`, by induction on `k`). The two lemmas about the loops hold of any ring,
so of the grown one an insertion shifts too.

**Queue.** `QueueInv` adds to `IInv` that a wrapper is around a live deque of the allocator its
header came from. The step of a queue is one of its deque with the wrapper unchanged, for which the
lemmas of `Deque` are cited, or a construction, of which what was built before the second header was
refused has to be given back whole (`WrapKeeps`). What is left to prove is who lives
on: a queue's deque may be exchanged or replaced by a call but stays on its
allocator (`StaysOn`).

**BitSet.** Three layers. The first is about words alone: an index is a word and a bit
(`PlacesInOrder`), words without a bit above the last live one are sets of indices (`Bits`,
`SameBitsSameWords`), and each operation word by word is one of sets, `flip_all` and `set_all` after `ClearTail`. The
loops of `count`, `find_next`, `find_next_clear` and the comparisons are recursive functions of a word's
number; what they compute follows by induction over the set of the numbers for
which it holds (`Induction`). The second says what a call makes of one struct, its
block and its header when it has them exchanged (`Moves`, `Exchanges`), with the copy
a move between two allocators makes. The third is that the other structs stand (`ExchangeIsSound`,
`SwapIsSound`). `BooksBalance` is not inductive, since it does not say that the cells of a block are words or
that `nwords` of them fit a `size_t`, both of which the next step needs; `IInv` does, and implies it.

**Pool.** `FreeListInv` says that a sequence of blocks without repetition witnesses
the list. The proof of a step gives the new witness: a take drops its first element, a
return puts one in front, a reset is `1 .. n`. It needs the words of lent blocks
to be disjoint from the links, which is the claim kept in `lent`.

**Stacked allocators.** `BlocksComeHome` says where the way from a block through the words in front of aligned blocks ends.
It is not inductive: that the way of one owner's block still ends there when another stores words, or is lent or
gives back a block, takes all the words it passes through. `WrapInv` therefore names, for each owner - a user, or an allocator
of the stack, which owns its two structs - a *way*: where the block begins and how long it is on each level from its own down
to the heap (`Way`), each within the one below (`Nested`), a log passing it on as it is and an aligned allocator with
the address of the one below in the word before it. The ways end at blocks of the heap of their own, and at all of them
(`Books`). As blocks of the heap are apart (`BlocksApart`), no owner's words are another's (`OwnersApart`); those a way passes through lie
in its heap block and before the owner's own words, so that the owner may store what it likes in these (`WaysStay`). Of each of
`AllocAt`, `CallocAt`, `ReallocAt` and `DeallocAt` it is then shown, on any level, that it is refused and changes nothing, or serves one owner and
leaves the ways and words of all others (`Granted`, `Reallocated`, `Serves`); the recursion down the levels is followed by `Induction` (`AllocAnswers`, `HomeIsTheEnd`).
The padding an aligned allocator adds does not wrap around because of its refusal (`AlignedAsks`), and the block it
places is aligned and within what it asked for (`AlignedPlaces`). A constructor's two structs are two new owners, of which a refusal
of the second makes the first go; what is stacked above a block's level is nothing to its way (`WayOnAnother`).

**Arena.** `LentOK`: every block starts at a multiple of the alignment and ends
before the offset, any two are apart, and the words are those the owner knows. None
stands alone: that two blocks are apart after an alloc needs all to end before the
offset; growing the last block in place needs that every other one ends before *its*
start, which follows from being apart and ending before the offset; that words stay
needs the blocks to be apart. One lemma (`OneBlockChanged`) says what has to be shown
when one owner's block changes, one (`TopBlock`) what is left when it is the last one,
which is alloc, calloc, and both reallocs.

**Vec, Arr, Stack and PQueue.** `BooksBalance` is not inductive: it does not say that the headers of all kinds
are finite in number and of live objects only, nor that stacks and queues are around live vecs, nor that a memory
is one. `IInv` is `Typed` with `Books`, which is `Sound(Structs, Roles, mem)`. `Structs` has the vecs and
the arrs of all handles in one function; `Roles` says of each which headers come with it (a vec's, an arr's, a
stack's or a queue's besides). Soundness is then one statement about structs, blocks
and headers whatever kind a call is for. Each operator on a live object is shown to hand over one struct and one
block for another and to touch no other (`Exchanges`, within `Makes` and `Answers`), each constructor to make one
struct, one block and one header, or nothing (`Born`, `BornWith`), and a move to do what an assignment does between two
allocators and an exchange of structs within one (`Moves`). That the others stay sound under an exchange, a birth,
a drop and a swap is proved once for each. A stack or a queue adds a header, which a
refused wrap does not keep; the lemmas about the vec's operators are cited as they are.

The same lemmas say what is read after the call, as `ToSpan` of the struct and the memory it leaves, and since soundness
keeps the other structs and their cells, what is read of all objects (`Sees`) changes at one owner alone: a step of
`SeqStore`. `InsertedSpan` and `RemovedRange` move the tail and then write or not, in a block that may have moved in between,
and what is left is spelled out cell by cell. The heap's operators are only shown to leave
cells cells, so that a queue keeps its block; that they keep an order is part of `ImplementsPrioStore`, which TLC checks.

**HMap and HSet.** What links lead to is computed by recursive functions of a memory, and no invariant in terms of
them alone survives a step that rewrites a link. `IInv` therefore names, for each map, the set `X` of its nodes: `MapOK(d, m, X)` says
that every node carries the map's allocator and its own key's hash, that keys differ, that `len` counts `X` and is at most
the number of buckets, and that each bucket's link starts a list without repetition (`Chained`, a witness as in the pool) of exactly
those nodes of `X` the bucket is for. `Sound` says so of all maps, each over its own nodes and array, with nothing else
lent; `Counted`, of the headers. `ChainsSound` and `BooksBalance` follow (`NodesAre`: what the links lead to is `X`) but
neither is inductive: the one does not keep the nodes of two maps apart, the other does not say in which bucket a node
is, and a call needs both.

The recursions are walked once each, by induction over the set of the numbers for which a claim holds: `LinkedFrom` and `Chain` give
the list back, `FindNode` the one node with the key or null (`Finds`, `FindsNode`), `WalkOrder` every node once
(`WalkLists`). The loops that write are then followed step by step: `LinkAll` moves the nodes it has come past to the new array and
leaves the order of the rest, `GiveBackAll` gives back what it has come past, and a copy (`Filled`) holds after `k` insertions the
first `k` entries. A removal cuts a list in one of two places, an insertion puts one node in front. Of each operator it is
shown that it exchanges one struct with its array and its nodes for others on blocks that were its own or free (`Swapped`,
`Turned`), and what is read afterwards (`Becomes`, `Reads`): keys and values are those of `X`, whatever the chains are. An exchange in
one map leaves all others as they were (`ExchangeIsSound`), and from there every action keeps `IInv`, is a step of
`MapStore` and keeps every node where it was (`Goes`, `Stays`). `EntriesStay` is the last of these.

A set adds that its map is live and of its header's allocator (`SetIInv`), and a refused wrap that the map it gives up
leaves the memory as it was found (`MadeIs`: what was exchanged for nothing is exchanged for nothing again). Equality is
a matter of counting: a walk that finds all it meets in the other shows an inclusion of keys, and
equal lengths, which are the numbers of keys (`EntriesCounted`), make it an equality (`KeysMatch`).

**List.** `LinksAgree` is not inductive: if a node could be in two lists, a call on one would break the other. Neither
is `NothingLeaks`, which says nothing of prev links, so that a removal by a wrong one could lose the rest of a list. `LinkInv`
says both and more. Each list *stands* (`Holds`, `Stands`): its nodes are a line, a sequence without repetition as long as
`len` says, in which each node carries the list's allocator and links to the one before and the one after it, from `head`
to `tail`. No two lists have a node in common, every node lent is on a line, and the headers lent are counted by the live
lists of each allocator.

A walk is a recursive function of links bounded by the number of nodes, and over a line it gives the line back, in either
direction (`WalkIs`, `WalkBackIs`); the bound is never what ends it, since a line is no longer than
that (`LineIsShort`). The helpers of `list.c` are then shown to turn lines into lines: `LinkNode` puts one node between two
neighbours, `UnlinkNode` cuts one out, `SpliceNodes` joins two lines (`JoinIs`), and `Reverse` reads one from its other
end (`BackwardsIs`). `MergeChains` takes each node of its two chains once, by induction on how many were taken, and
`SortChain` returns the nodes it was given, by induction on how many they are (`UpTo`, `RecursionThere`); both leave next links
that lead through all nodes, from which `RelinkPrev` makes a line again (`Relinked`). Building aside, cutting short and giving back
are exchanges of the nodes `F` for the nodes `G`, which leave all others and take new ones from what is free (`Swapped`). What a call does
to all lists is one of four things: one list has its nodes exchanged (`OneChanges`), two have (`TwoChange`), one comes
(`OneComes`), one goes (`OneGoes`). The case of a node moved within its own list (`NodeMovesWithin`) is the one in which
the place it goes to has to be read after it was unlinked.

**Only model-checked.** `ImplementsPrioStore`, the order inside a heap; `HMapWalk`;
`ImplementsListStore`, which nodes in which order a list has after a call; the algorithms and sorts. The library's induction theorems take an operator as
a parameter, which no installed prover can instantiate; an induction over the set of numbers
that have a property avoids that (`Induction`, from `WFMin`), so recursive functions can be
reasoned about where a proof is worth its length. `Scalars` uses bitwise operators, which the theorems
keep clear of. Liveness (`WalkEnds`, `Ends`) and `ENABLED` are out of reach of the prover, and
nothing proved here depends on them.

## 6. What is not modelled

- Output: `print`, the lines of the logging allocator, status strings. Accessors that return a
  field (`len`, `cap`, `al`, an allocator's statistics).
- The floats `rng` draws: they depend on the rounding of binary floating point, which integers
  of a few bits do not show.
- The bytes and the alignment inside a node of a list or a map, and inside a header: a request that would
  overflow while they are added up counts as one more that may be refused.
- Preconditions broken by a caller (asserted by the code, not a behaviour of it), among them a
  key or value that lies in the very block a call is about to move, except where the header allows it.
- What the optimiser makes of the code; the comparison callbacks of a program that are not an order.
- Tests, benchmarks, examples, vendored code.
- The containers see an allocator through `room`, `hdr` and `grants`: what it would
  lend during a call. That pool, arena and the wrapping allocators keep what a container relies on -
  blocks apart, words kept, sizes returned - is what their own modules say; no module
  runs a container inside a pool.

## 7. The plan

All components but printing are modelled; what is left is to prove more.

1. `PQueue`: `ImplementsPrioStore`, from what sifting keeps (every parent beats its children but one) and that
   it exchanges elems only.
2. `List`: `ImplementsListStore`, from the lines of `ListProofs` and what they are after each call, and that merging
   keeps order. `HMapWalk`'s `EachMetOnce`, from `HMapProofs`.
3. `Sorting`: `FramesSound` for spans of any length; its zones and borders are the loop
   invariants, and no induction is needed beyond that over steps.

Modules that are to be proved about use recursive functions and folds, and no `RECURSIVE`
operator.
