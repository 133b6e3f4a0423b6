-------------------------------- MODULE Heap --------------------------------
(***************************************************************************)
(* The heap (include/heap_allocator.c), one action per call of malloc,     *)
(* realloc and free. Only the shell calls it (system calls 4 to 7 are not  *)
(* dispatched, handler.c:186), so calls do not overlap. The heap keeps its *)
(* objects and its free pieces in two linked lists: the word in front of   *)
(* an object, and the first word of a free piece, hold the address of the  *)
(* next one. A free piece has no size: it reaches to the next object or to *)
(* the end of the memory block.                                            *)
(*                                                                         *)
(* Memory is counted in words of the size of a header. The memory blocks   *)
(* come from buddy_alloc, of which only what BlockPool.tla promises is     *)
(* used; they have one size here.                                          *)
(***************************************************************************)
EXTENDS Integers, FiniteSets, Sequences

CONSTANTS
    Blocks,         \* number of memory blocks the pool can give
    BlockWords,     \* words in a memory block
    FirstFitMax,    \* HEAP_FIRST_FIT_MAX_SIZE
    Sizes,          \* bound: the numbers of words that are asked for
    MaxLive         \* bound: objects that live together

ASSUME HeapAssumption ==
    /\ Blocks \in Nat \ {0} /\ BlockWords \in Nat /\ BlockWords > 1
    /\ FirstFitMax \in Nat
    /\ Sizes \subseteq 1 .. BlockWords - 1
    /\ MaxLive \in Nat

NULL       == 0
alloc_root == -1        \* &heapc->alloc_root
free_root  == -2        \* &heapc->free_root
Header     == 1         \* heap_header_size

Block == 1 .. Blocks
Start(b) == b * BlockWords
End(b)   == (b + 1) * BlockWords
Addr     == Start(1) .. End(Blocks) - 1
Place    == Addr \cup {alloc_root, free_root}       \* where a link can be
Link     == Addr \cup {NULL}

VARIABLES
    mem,            \* the links; words that hold none are NULL
    heap_blocks,    \* the memory block in each entry of heap_blocks, or 0
    live,           \* history: the words, with the header, of each object
    wild            \* has realloc followed a null pointer?

vars == <<mem, heap_blocks, live, wild>>

-----------------------------------------------------------------------------
(* Memory blocks                                                           *)

(* heap_in_mem_block; no place outside the pool and not NULL is in one.    *)
In(b, p) == b # 0 /\ Start(b) <= p /\ p < End(b)

(* heap_mem_block: 0 for NULL.                                             *)
BlockOf(slots, p) ==
    IF \E i \in Block : In(slots[i], p)
    THEN slots[CHOOSE i \in Block : In(slots[i], p)]
    ELSE 0

EmptySlot(slots) ==
    CHOOSE i \in Block : slots[i] = 0 /\ \A j \in 1 .. i - 1 : slots[j] # 0

(* What buddy_alloc may return: 0 when the pool is exhausted.              *)
Given(slots) ==
    LET left == Block \ {slots[i] : i \in Block}
    IN  IF left = {} THEN {0} ELSE left

-----------------------------------------------------------------------------
(* malloc, of a size that includes the header                              *)

(* The last place from a on whose object lies in the block and before fp.  *)
LastBefore(m, b, a, fp) ==
    LET Walk[p \in Place] ==
            IF In(b, m[p]) /\ m[p] < fp THEN Walk[m[p]] ELSE p
    IN  Walk[a]

(* The same when objects of other blocks come first (lines 176 to 187).    *)
LastThroughBlocks(m, b, a, fp) ==
    LET Walk[p \in Place, outside \in BOOLEAN] ==
            LET out == IF In(b, p) THEN outside ELSE ~In(b, m[p])
            IN  IF /\ \/ ~In(b, p) /\ out
                      \/ ~out /\ m[p] < fp
                   /\ m[p] # NULL
                THEN Walk[m[p], out]
                ELSE p
    IN  Walk[a, FALSE]

Candidate == [ap : Place, pp : Place, fp : Addr, avail : Int]
Search    == [ap : Place, pp : Place, fp : Link, b : 0 .. Blocks,
              best : Seq(Candidate)]

(* The search goes through the free pieces. With firstFit it ends at the   *)
(* first that is large enough, else at the end with the smallest such.     *)
Fit(m, slots, size, firstFit) ==
    LET Scan[s \in Search] ==
          LET b == IF s.b = 0 \/ ~In(s.b, s.fp) THEN BlockOf(slots, s.fp) ELSE s.b
              near  == LastBefore(m, b, s.ap, s.fp)
              avail == IF In(b, m[near]) THEN m[near] - s.fp ELSE End(b) - s.fp
              ap    == IF In(b, m[near]) \/ size > avail THEN near
                       ELSE LastThroughBlocks(m, b, near, s.fp)
              better == size <= avail /\ (s.best = <<>> \/ avail < s.best[1].avail)
              best  == IF better
                       THEN <<[ap |-> ap, pp |-> s.pp, fp |-> s.fp, avail |-> avail]>>
                       ELSE s.best
          IN  IF s.fp = NULL THEN s
              ELSE IF b = 0 THEN [s EXCEPT !.b = 0]
              ELSE IF better /\ firstFit THEN [s EXCEPT !.best = best]
              ELSE Scan[[ap |-> ap, pp |-> s.fp, fp |-> m[s.fp], b |-> b, best |-> best]]
    IN  Scan[[ap |-> alloc_root, pp |-> free_root, fp |-> m[free_root],
              b |-> 0, best |-> <<>>]]

(* Bug: the piece that is left begins at the object's last word.           *)
PlaceInShort(m, c, size) ==
    LET linked == [m EXCEPT ![c.fp] = m[c.ap], ![c.ap] = c.fp]
    IN  IF c.avail - size <= Header THEN [linked EXCEPT ![c.pp] = m[c.fp]]
        ELSE [linked EXCEPT ![c.fp + size - Header] = m[c.fp],
                            ![c.pp] = c.fp + size - Header]

(* Bug: the object is linked in with an empty link of its own.             *)
PlaceInLast(m, c, size) ==
    LET linked == [m EXCEPT ![c.fp] = NULL, ![c.ap] = c.fp]
    IN  IF c.avail - size <= Header THEN [linked EXCEPT ![c.pp] = m[c.fp]]
        ELSE [linked EXCEPT ![c.fp + size] = m[c.fp], ![c.pp] = c.fp + size]

(* The object is put where the free piece c begins; what is left of it is  *)
(* a free piece only if it is larger than a header.                        *)
PlaceIn(m, c, size) ==
    LET linked == [m EXCEPT ![c.fp] = m[c.ap], ![c.ap] = c.fp]
    IN  IF c.avail - size <= Header \/ c.fp + size + Header = m[c.ap]
        THEN [linked EXCEPT ![c.pp] = m[c.fp]]
        ELSE [linked EXCEPT ![c.fp + size] = m[c.fp], ![c.pp] = c.fp + size]

LastObject(m) ==
    LET Walk[p \in Place] == IF m[p] = NULL THEN p ELSE Walk[m[p]]
    IN  Walk[alloc_root]

(* Bug: a free piece is linked even if the object fills the block.         *)
PlaceInBlockAlways(m, b, size, fp) ==
    [m EXCEPT ![LastObject(m)] = Start(b), ![Start(b)] = NULL,
              ![fp] = Start(b) + size, ![Start(b) + size] = NULL]

(* A new memory block, linked after the last object; what is left of it is *)
(* linked after the place fp at which the search of the free pieces ended. *)
PlaceInBlock(m, b, size, fp) ==
    LET ptr == Start(b)
        linked == [m EXCEPT ![LastObject(m)] = ptr, ![ptr] = NULL]
    IN  IF BlockWords - size <= Header THEN linked
        ELSE [linked EXCEPT ![fp] = ptr + size, ![ptr + size] = NULL]

(* b is what buddy_alloc returns, if it is asked.                          *)
malloc(h, n, b) ==
    LET size     == n + Header
        firstFit == size < FirstFitMax
        s        == Fit(h.mem, h.slots, size, firstFit)
        atEnd    == IF s.fp # NULL THEN s.fp ELSE s.pp
    IN  IF h.mem[alloc_root] # NULL /\ s.best # <<>>
        THEN [mem   |-> PlaceIn(h.mem, s.best[1], size),
              slots |-> h.slots, ptr |-> s.best[1].fp]
        ELSE IF b = 0 THEN [mem |-> h.mem, slots |-> h.slots, ptr |-> NULL]
        ELSE IF h.mem[alloc_root] = NULL
        THEN [mem   |-> PlaceInBlock(h.mem, b, size, free_root),
              slots |-> [h.slots EXCEPT ![1] = b], ptr |-> Start(b)]
        ELSE [mem   |-> PlaceInBlock(h.mem, b, size, atEnd),
              slots |-> [h.slots EXCEPT ![EmptySlot(h.slots)] = b],
              ptr   |-> Start(b)]

-----------------------------------------------------------------------------
(* free                                                                    *)

(* Is there an object between the piece linked from fp and the object's    *)
(* former place, or no piece in the block?                                 *)
RightSep(m, b, ap, fp) ==
    ~In(b, m[fp]) \/ (In(b, m[ap]) /\ m[ap] < m[fp])

LeftSep(b, ap, fp) == ~In(b, fp) \/ (In(b, ap) /\ ap >= fp)

(* Bug: the piece at p stays beside the one that follows it.               *)
MergedNever(m, p) == m

(* The piece at p takes up the one that follows it.                        *)
Merged(m, p) == IF m[p] = NULL THEN m ELSE [m EXCEPT ![p] = m[m[p]]]

(* Bug: the order of the pieces is not looked at.                          *)
PieceBeforeEnd(m, b, ptr) ==
    LET Walk[p \in Addr] == IF m[p] = NULL THEN p ELSE Walk[m[p]]
    IN  Walk[m[free_root]]

(* The free piece after which the one at ptr is linked.                    *)
PieceBefore(m, b, ptr) ==
    LET Walk[p \in Addr] ==
            IF (~In(b, m[p]) \/ m[p] < ptr) /\ m[p] # NULL THEN Walk[m[p]] ELSE p
    IN  Walk[m[free_root]]

(* The object at ptr, which followed ap, becomes a free piece or part of   *)
(* its neighbours.                                                         *)
Reconnected(m, b, ap, ptr) ==
    LET root == m[free_root]
        fp   == PieceBefore(m, b, ptr)
        first == [m EXCEPT ![ptr] = root, ![free_root] = ptr]
        after == IF RightSep(m, b, ap, fp) THEN m[fp]
                 ELSE IF m[fp] # NULL THEN m[m[fp]] ELSE m[ptr]
    IN  IF In(b, root) /\ ptr < root
        THEN IF RightSep(first, b, ap, ptr) THEN first ELSE Merged(first, ptr)
        ELSE IF root = NULL THEN [m EXCEPT ![free_root] = ptr, ![ptr] = NULL]
        ELSE IF LeftSep(b, ap, fp) THEN [m EXCEPT ![ptr] = after, ![fp] = ptr]
        ELSE IF RightSep(m, b, ap, fp) THEN m ELSE Merged(m, fp)

HasObject(m, b) ==
    LET Walk[p \in Link] == In(b, p) \/ (p # NULL /\ Walk[m[p]])
    IN  Walk[m[alloc_root]]

(* The free pieces of a block are unlinked, but for the one after each     *)
(* that is: line 502 moves on once and line 509 again.                     *)
Unlinked(m, b) ==
    LET Walk[n \in [Place -> Link], p \in Place, f \in Link, found \in BOOLEAN] ==
            LET cut  == IF In(b, f) THEN [n EXCEPT ![p] = n[f]] ELSE n
                next == IF In(b, f) THEN n[f] ELSE f
            IN  IF (found /\ ~In(b, f)) \/ next = NULL
                   \/ cut[cut[p]] = cut[free_root]
                THEN cut
                ELSE Walk[cut, cut[p], cut[cut[p]], found \/ In(b, f)]
    IN  Walk[m, free_root, m[free_root], FALSE]

ObjectBefore(m, ptr) ==
    LET Walk[p \in Place] == IF m[p] \in {NULL, ptr} THEN p ELSE Walk[m[p]]
    IN  Walk[alloc_root]

(* ptr is the place of a header. A block without objects is given back.    *)
free(h, ptr) ==
    LET b  == BlockOf(h.slots, ptr)
        ap == ObjectBefore(h.mem, ptr)
        m  == [h.mem EXCEPT ![ap] = h.mem[ptr]]
        f  == IF m[alloc_root] = NULL THEN [m EXCEPT ![free_root] = NULL]
              ELSE Reconnected(m, b, ap, ptr)
    IN  IF HasObject(f, b) THEN [mem |-> f, slots |-> h.slots]
        ELSE [mem   |-> Unlinked(f, b),
              slots |-> [i \in Block |-> IF h.slots[i] = b THEN 0 ELSE h.slots[i]]]

-----------------------------------------------------------------------------
(* realloc                                                                 *)

(* The place whose link is the first free piece of the block after ptr, or *)
(* NULL: the loop of line 318 does not end with the list.                  *)
LinkToPiece(m, b, ptr) ==
    LET Walk[p \in Place] ==
            IF m[p] = NULL THEN NULL
            ELSE IF ~In(b, m[p]) \/ m[p] < ptr THEN Walk[m[p]]
            ELSE p
    IN  Walk[free_root]

(* The object keeps its place. avail reaches to the next object or the end *)
(* of the block, whether or not the free piece pp links lies in between.   *)
Resized(m, b, ptr, size, avail, pp) ==
    IF avail <= size + Header THEN [m EXCEPT ![pp] = m[m[pp]]]
    ELSE IF In(b, m[ptr]) /\ m[ptr] < m[pp]
    THEN [m EXCEPT ![ptr + size] = m[pp], ![pp] = ptr + size]
    ELSE [m EXCEPT ![ptr + size] = m[m[pp]], ![pp] = ptr + size]

Available(m, b, ptr) == (IF In(b, m[ptr]) THEN m[ptr] ELSE End(b)) - ptr

-----------------------------------------------------------------------------

(* Places reached from the roots: the words that hold links.               *)
Nodes(m, root) ==
    LET Follow[S \in SUBSET Int] ==
            LET T == S \cup ({m[p] : p \in S \cap Place} \ {NULL})
            IN  IF T = S THEN S ELSE Follow[T]
    IN  Follow[{root}] \ {root}

Objects == Nodes(mem, alloc_root)
Pieces  == Nodes(mem, free_root)

(* Words that hold no link any more are forgotten.                         *)
Leaves(h) ==
    /\ mem' = [p \in Place |->
                  IF p \in {alloc_root, free_root}
                           \cup Nodes(h.mem, alloc_root) \cup Nodes(h.mem, free_root)
                  THEN h.mem[p] ELSE NULL]
    /\ heap_blocks' = h.slots

Heap == [mem |-> mem, slots |-> heap_blocks]

Without(ptr) == [p \in DOMAIN live \ {ptr} |-> live[p]]
With(objects, ptr, words) ==
    [p \in DOMAIN objects \cup ({ptr} \ {NULL}) |->
        IF p = ptr THEN words ELSE objects[p]]

Init ==
    /\ mem = [p \in Place |-> NULL]
    /\ heap_blocks = [i \in Block |-> 0]
    /\ live = [p \in {} |-> 0]
    /\ wild = FALSE

Malloc(n) ==
    /\ ~wild
    /\ Cardinality(DOMAIN live) < MaxLive
    /\ \E b \in Given(heap_blocks) :
          LET r == malloc(Heap, n, b)
          IN  Leaves(r) /\ live' = With(live, r.ptr, n + Header)
    /\ UNCHANGED wild

Free(ptr) ==
    /\ ~wild
    /\ Leaves(free(Heap, ptr))
    /\ live' = Without(ptr)
    /\ UNCHANGED wild

ReallocWild(ptr) ==
    /\ ~wild
    /\ LinkToPiece(mem, BlockOf(heap_blocks, ptr), ptr) = NULL
    /\ wild' = TRUE
    /\ UNCHANGED <<mem, heap_blocks, live>>

(* realloc frees the object before it asks for its new place.              *)
Realloc(ptr, n) ==
    LET b     == BlockOf(heap_blocks, ptr)
        avail == Available(mem, b, ptr)
        pp    == LinkToPiece(mem, b, ptr)
        freed == free(Heap, ptr)
    IN  /\ ~wild
        /\ pp # NULL
        /\ \/ /\ avail > n + Header
              /\ Leaves([Heap EXCEPT !.mem = Resized(mem, b, ptr, n + Header, avail, pp)])
              /\ live' = [live EXCEPT ![ptr] = n + Header]
           \/ /\ avail <= n + Header
              /\ \E give \in Given(freed.slots) :
                    LET new == malloc(freed, n, give)
                    IN  /\ Leaves(new)
                        /\ live' = With(Without(ptr), new.ptr, n + Header)
        /\ UNCHANGED wild

Next ==
    \/ \E n \in Sizes : Malloc(n)
    \/ \E ptr \in DOMAIN live : Free(ptr) \/ ReallocWild(ptr)
    \/ \E ptr \in DOMAIN live, n \in Sizes : Realloc(ptr, n)

Spec == Init /\ [][Next]_vars

-----------------------------------------------------------------------------

TypeOK ==
    /\ mem \in [Place -> Link]
    /\ heap_blocks \in [Block -> 0 .. Blocks]
    /\ DOMAIN live \subseteq Addr
    /\ \A p \in DOMAIN live : live[p] \in Header + 1 .. BlockWords
    /\ wild \in BOOLEAN

Words(p) == p .. p + live[p] - 1

(* Live objects share no word with each other or with the start of a free  *)
(* piece, and lie in one memory block that the heap has.                   *)
NoOverlap ==
    \A p \in DOMAIN live :
        /\ BlockOf(heap_blocks, p) # 0
        /\ p + live[p] <= End(BlockOf(heap_blocks, p))
        /\ Words(p) \cap Pieces = {}
        /\ \A q \in DOMAIN live \ {p} : Words(p) \cap Words(q) = {}

(* The list of objects has the live objects, all of them.                  *)
ListIsLive == Objects = DOMAIN live

(* "heap is always expected to be sorted in ascending order for individual *)
(* memory blocks" (heap_allocator.c:83): a link within a block goes up.    *)
Sorted ==
    \A p \in Objects \cup Pieces :
        mem[p] # NULL /\ BlockOf(heap_blocks, mem[p]) = BlockOf(heap_blocks, p)
            => p < mem[p]

(* Free pieces have been merged: an object lies between any two of a block. *)
Coalesced ==
    \A p, q \in Pieces :
        p < q /\ BlockOf(heap_blocks, p) = BlockOf(heap_blocks, q)
            => \E o \in Objects : p < o /\ o < q
=============================================================================
