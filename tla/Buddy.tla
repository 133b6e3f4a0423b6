------------------------------- MODULE Buddy -------------------------------
(***************************************************************************)
(* The buddy allocator of CrypthantusOS (util/buddy_alloc.c), one action   *)
(* per call: its bitmap (see BuddyTree.tla), the page tables of the pool,  *)
(* which buddy_alloc and buddy_free rewrite, and the CPU's TLB, which      *)
(* neither of them invalidates.                                            *)
(***************************************************************************)
EXTENDS BuddyTree

CONSTANTS
    LeavesPerPage,  \* smallest blocks in a page: 1 unless min_block < 4096
    TlbEntries      \* bound: pages the CPU has cached at the same time

ASSUME BuddyAssumption ==
    /\ LeavesPerPage \in Nat \ {0}
    /\ TlbEntries \in Nat

VARIABLES
    bits,   \* g_buddy_block: the numbers of the blocks whose bit is set
    held,   \* the blocks that callers were given and have not freed
    asked,  \* the size of the last request
    ret,    \* the block the last buddy_alloc returned, 0 for NULL
    pt,     \* g_buddy_page_tables: where each page of the pool is mapped
    tlb     \* what the CPU has cached of pt

vars == <<bits, held, asked, ret, pt, tlb>>

Page  == 0 .. (Pow2(Layers - 1) - 1) \div LeavesPerPage
Pages == [n \in Node |-> {i \div LeavesPerPage : i \in Leaves[n]}]

(* "none": not present; "own": the page's own frame behind g_buddy_start;  *)
(* "zero": physical page 0.                                                *)
Mapping == {"none", "own", "zero"}

TypeOK ==
    /\ bits \subseteq Node
    /\ held \subseteq Node
    /\ asked \in Request
    /\ ret \in Node \cup {0}
    /\ pt \in [Page -> Mapping]
    /\ tlb \in [Page -> Mapping]

(* Bug: a block larger than a page gets its first page only.               *)
MapPagesFirst(n, where) == [pt EXCEPT ![Min(Pages[n])] = where]

MapPages(n, where) ==
    [p \in Page |-> IF p \in Pages[n] THEN where ELSE pt[p]]

Alloc(size) ==
    LET n == AllocNode(bits, size) IN
    /\ AllocSucceeds(bits, size)
    /\ bits' = AllocBits(bits, size)
    /\ held' = held \cup {n}
    /\ asked' = size
    /\ ret' = n
    /\ pt' = MapPages(n, "own")
    /\ UNCHANGED tlb

(* Bug: an error code instead of NULL.                                     *)
AllocFailsWithCode(size) ==
    /\ ~AllocSucceeds(bits, size)
    /\ asked' = size
    /\ ret' = -1
    /\ UNCHANGED <<bits, held, pt, tlb>>

AllocFails(size) ==
    /\ ~AllocSucceeds(bits, size)
    /\ asked' = size
    /\ ret' = 0
    /\ UNCHANGED <<bits, held, pt, tlb>>

(* Bug: the size to unmap is computed before halves are joined, its        *)
(* start after.                                                            *)
FreeUnmapsShort(n) ==
    /\ n # Reserved
    /\ bits' = FreeBits(bits, n)
    /\ held' = held \ {n}
    /\ LET first == Min(Pages[MergedInto(bits, n)])
           count == Cardinality(Pages[n])
       IN  pt' = [p \in Page |-> IF p \in first .. first + count - 1
                                 THEN "zero" ELSE pt[p]]
    /\ UNCHANGED <<asked, ret, tlb>>

(* Callers free what they were given; nobody frees the heap's metadata.    *)
Free(n) ==
    /\ n # Reserved
    /\ bits' = FreeBits(bits, n)
    /\ held' = held \ {n}
    /\ pt' = MapPages(MergedInto(bits, n), "zero")
    /\ UNCHANGED <<asked, ret, tlb>>

(* The owner of a block uses it: the CPU caches the mapping of a present   *)
(* page.                                                                   *)
Touch(n) ==
    \E p \in Pages[n] :
        /\ pt[p] # "none"
        /\ tlb[p] = "none"
        /\ Cardinality({q \in Page : tlb[q] # "none"}) < TlbEntries
        /\ tlb' = [tlb EXCEPT ![p] = pt[p]]
        /\ UNCHANGED <<bits, held, asked, ret, pt>>

(* isr_com reloads cr3 on the way out of every interrupt.                  *)
ReloadCr3 ==
    /\ tlb' = [p \in Page |-> "none"]
    /\ UNCHANGED <<bits, held, asked, ret, pt>>

Init ==
    /\ bits = InitialBits
    /\ held = {Reserved}
    /\ asked = 0
    /\ ret = 0
    /\ pt = [p \in Page |-> IF p \in Pages[Reserved] THEN "own" ELSE "none"]
    /\ tlb = [p \in Page |-> "none"]

Next ==
    \/ \E size \in Request : Alloc(size) \/ AllocFails(size)
    \/ \E n \in held : Free(n) \/ Touch(n)
    \/ ReloadCr3

Spec == Init /\ [][Next]_vars

-----------------------------------------------------------------------------
(* A block is split exactly when a block inside it is handed out: a split  *)
(* parent whose halves are both clear would look like a live block and be  *)
(* lost (buddy_alloc.c:226-232), a set bit under a clear parent would be   *)
(* handed out a second time (buddy_alloc.c:150-153).                       *)
BitmapIsHeld == IsTree(bits) /\ Blocks(bits) = held

(* Blocks that callers hold share no memory: the search never hands out a  *)
(* part of a live block, nor a block with a live part.                     *)
NoOverlap == \A m, n \in held : m # n => Leaves[m] \cap Leaves[n] = {}

(* free never joins the two halves of the whole pool: it would go on to    *)
(* layer -1 and clear a bit at buddy_layers[-1] (buddy_alloc.c:227-231).   *)
(* The metadata block of the heap, never freed, prevents it.               *)
RootStaysSplit == {2, 3} \cap bits # {}

(* The owner of a live block reaches the block's own memory, through the   *)
(* page table and through what the CPU has cached of it, although          *)
(* buddy_alloc and buddy_free change present entries without invalidating  *)
(* the TLB. "g_buddy_page_tables itself is already aligned with the buddy  *)
(* allocator" (buddy_alloc.c:168, 237).                                    *)
LiveMapped ==
    \A n \in held : \A p \in Pages[n] :
        pt[p] = "own" /\ tlb[p] \in {"none", "own"}

(* Memory that is free can be reached by nobody through the page table.    *)
FreeUnmapped ==
    \A p \in Page : pt[p] = "own" => \E n \in held : p \in Pages[n]

Serves(n, size) == size <= Pow2(Layers - 1) /\ LayerOf[n] = MinLayer[size]

LeafSet(n) == Leaves[n]

Pool == INSTANCE BlockPool
            WITH Block <- Node, Cells <- LeafSet, Null <- 0, live <- held

(* The bitmap implements the pool: a request fails only when every block   *)
(* of the layer is taken, and a release frees that block and no other.     *)
ImplementsPool == Pool!Spec
=============================================================================
