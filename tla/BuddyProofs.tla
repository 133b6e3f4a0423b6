---------------------------- MODULE BuddyProofs ----------------------------
(***************************************************************************)
(* Proofs about Buddy.tla: for every number of layers and every place of   *)
(* the heap's metadata block, however many blocks are live.                *)
(***************************************************************************)
EXTENDS Buddy, BuddyTreeProofs

-----------------------------------------------------------------------------
(* The bitmap                                                              *)

(* The bitmap is a tree whose ends are the live blocks, and the heap's     *)
(* metadata is one of them.                                                *)
TreeInv ==
    /\ bits \subseteq Node
    /\ IsTree(bits)
    /\ Blocks(bits) = held
    /\ Reserved \in held

LEMMA TreeInit == Init => TreeInv
  BY InitialTree DEF Init, TreeInv

LEMMA RootIsSet == TreeInv => 1 \in bits /\ {2, 3} \cap bits # {}
<1> SUFFICES ASSUME TreeInv PROVE 1 \in bits /\ {2, 3} \cap bits # {}
  OBVIOUS
<1>1. Reserved \in bits
  BY DEF TreeInv, Blocks
<1>2. Ancestors(Reserved) \subseteq bits
  BY <1>1, TreeIsClosed DEF TreeInv
<1>3. 1 \in Ancestors(Reserved)
  BY ReservedIs, RootIsAncestor
<1>4. \E x \in Ancestors(Reserved) : x = 2 * 1 \/ x = 2 * 1 + 1
  BY <1>3, ReservedIs, HalfIsAncestor
<1> QED BY <1>2, <1>3, <1>4

LEMMA AllocKeepsTree ==
    ASSUME TreeInv, NEW size \in Request, Alloc(size)
    PROVE  /\ TreeInv'
           /\ AllocNode(bits, size) \in Node \ bits
           /\ LayerOf[AllocNode(bits, size)] = MinLayer[size]
  BY RootIsSet, AllocIs DEF TreeInv, Alloc

LEMMA TreeFreeStep ==
    ASSUME TreeInv, NEW n \in held, Free(n)
    PROVE  TreeInv'
  BY FreeKeepsTree, FreeBlocks DEF TreeInv, Free

LEMMA TreeStep == TreeInv /\ [Next]_vars => TreeInv'
<1> SUFFICES ASSUME TreeInv, [Next]_vars PROVE TreeInv'
  OBVIOUS
<1>1. ASSUME NEW size \in Request, Alloc(size) PROVE TreeInv'
  BY <1>1, AllocKeepsTree
<1>2. ASSUME NEW size \in Request, AllocFails(size) PROVE TreeInv'
  BY <1>2 DEF AllocFails, TreeInv
<1>3. ASSUME NEW n \in held, Free(n) PROVE TreeInv'
  BY <1>3, TreeFreeStep
<1>4. ASSUME NEW n \in held, Touch(n) PROVE TreeInv'
  BY <1>4 DEF Touch, TreeInv
<1>5. CASE ReloadCr3
  BY <1>5 DEF ReloadCr3, TreeInv
<1>6. CASE UNCHANGED vars
  BY <1>6 DEF vars, TreeInv
<1> QED BY <1>1, <1>2, <1>3, <1>4, <1>5, <1>6 DEF Next

LEMMA TreeAlways == Spec => []TreeInv
  BY TreeInit, TreeStep, PTL DEF Spec

(* The bit of every live block is found again, and no other clear or set   *)
(* bit looks like a live block (buddy_alloc.c:150-153, 226-232).           *)
THEOREM BitmapIsHeldAlways == Spec => []BitmapIsHeld
<1>1. TreeInv => BitmapIsHeld
  BY DEF TreeInv, BitmapIsHeld
<1> QED BY <1>1, TreeAlways, PTL

(* No two blocks that are live at the same time share memory.              *)
THEOREM BlocksNeverOverlap == Spec => []NoOverlap
<1>1. TreeInv => NoOverlap
  BY BlocksApart DEF TreeInv, NoOverlap
<1> QED BY <1>1, TreeAlways, PTL

(* The walk of free that joins halves always ends below the root.          *)
THEOREM RootIsAlwaysSplit == Spec => []RootStaysSplit
<1>1. TreeInv => RootStaysSplit
  BY RootIsSet DEF RootStaysSplit
<1> QED BY <1>1, TreeAlways, PTL

-----------------------------------------------------------------------------
(* The page tables of the pool                                             *)

LEMMA TypeInit == Init => TypeOK
<1> SUFFICES ASSUME Init PROVE TypeOK
  OBVIOUS
<1>1. bits \subseteq Node /\ held \subseteq Node
  BY InitialTree, ReservedIs DEF Init
<1>2. 0 \in Request
  BY TreeAssumption, Pow2Table DEF Request
<1> QED BY <1>1, <1>2 DEF Init, TypeOK, Mapping

LEMMA TypeStep == TreeInv /\ TypeOK /\ [Next]_vars => TypeOK'
<1> SUFFICES ASSUME TreeInv, TypeOK, [Next]_vars PROVE TypeOK'
  OBVIOUS
<1> USE DEF TypeOK
<1>1. ASSUME NEW n, NEW where \in Mapping
      PROVE  MapPages(n, where) \in [Page -> Mapping]
  BY <1>1 DEF MapPages
<1>2. "own" \in Mapping /\ "zero" \in Mapping /\ "none" \in Mapping
  BY DEF Mapping
<1>3. bits' \subseteq Node /\ held' \subseteq Node
  <2>1. TreeInv'
    BY TreeStep
  <2> QED BY <2>1 DEF TreeInv, Blocks
<1>4. ASSUME NEW size \in Request, Alloc(size) PROVE TypeOK'
  <2>1. AllocNode(bits, size) \in Node
    BY <1>4, AllocKeepsTree
  <2> QED BY <1>1, <1>2, <1>3, <1>4, <2>1 DEF Alloc
<1>5. ASSUME NEW size \in Request, AllocFails(size) PROVE TypeOK'
  BY <1>3, <1>5 DEF AllocFails
<1>6. ASSUME NEW n \in held, Free(n) PROVE TypeOK'
  BY <1>1, <1>2, <1>3, <1>6 DEF Free
<1>7. ASSUME NEW n \in held, Touch(n) PROVE TypeOK'
  BY <1>3, <1>7 DEF Touch
<1>8. CASE ReloadCr3
  BY <1>2, <1>3, <1>8 DEF ReloadCr3
<1>9. CASE UNCHANGED vars
  BY <1>9 DEF vars
<1> QED BY <1>4, <1>5, <1>6, <1>7, <1>8, <1>9 DEF Next

LEMMA TypeAlways == Spec => []TypeOK
  BY TypeInit, TypeStep, TreeAlways, PTL DEF Spec

THEOREM TypeCorrect == Spec => []TypeOK
  BY TypeAlways

(* What free unmaps covers the freed block.                                *)
LEMMA MergedCovers ==
    ASSUME TreeInv, NEW n \in held
    PROVE  MergedInto(bits, n) \in Node /\ Pages[n] \subseteq Pages[MergedInto(bits, n)]
<1>1. PICK M : M = MergedInto(bits, n)
  OBVIOUS
<1>2. n \in Node /\ M \in Ancestors(n) /\ M \in Node
  BY <1>1, MergedIs, AncestorIs DEF TreeInv, Blocks
<1>3. Leaves[n] \subseteq Leaves[M]
  BY <1>2, LeavesOfAncestor
<1> QED BY <1>1, <1>2, <1>3 DEF Pages

LEMMA UnmappedStep == TreeInv /\ TypeOK /\ FreeUnmapped /\ [Next]_vars => FreeUnmapped'
<1> SUFFICES ASSUME TreeInv, TypeOK, FreeUnmapped, [Next]_vars
             PROVE  FreeUnmapped'
  OBVIOUS
<1> USE DEF FreeUnmapped
<1>1. ASSUME NEW size \in Request, Alloc(size) PROVE FreeUnmapped'
  <2> SUFFICES ASSUME NEW p \in Page, pt'[p] = "own"
               PROVE  \E m \in held' : p \in Pages[m]
    OBVIOUS
  <2>1. p \in Pages[AllocNode(bits, size)] \/ pt[p] = "own"
    BY <1>1 DEF Alloc, MapPages
  <2> QED BY <1>1, <2>1 DEF Alloc
<1>2. ASSUME NEW size \in Request, AllocFails(size) PROVE FreeUnmapped'
  BY <1>2 DEF AllocFails
<1>3. ASSUME NEW n \in held, Free(n) PROVE FreeUnmapped'
  <2> SUFFICES ASSUME NEW p \in Page, pt'[p] = "own"
               PROVE  \E m \in held' : p \in Pages[m]
    OBVIOUS
  <2>1. p \notin Pages[MergedInto(bits, n)] /\ pt[p] = "own"
    BY <1>3 DEF Free, MapPages
  <2>2. p \notin Pages[n]
    BY <2>1, MergedCovers
  <2> QED BY <1>3, <2>1, <2>2 DEF Free
<1>4. ASSUME NEW n \in held, Touch(n) PROVE FreeUnmapped'
  BY <1>4 DEF Touch
<1>5. CASE ReloadCr3
  BY <1>5 DEF ReloadCr3
<1>6. CASE UNCHANGED vars
  BY <1>6 DEF vars
<1> QED BY <1>1, <1>2, <1>3, <1>4, <1>5, <1>6 DEF Next

(* Releasing a block takes its memory out of the page table, however far   *)
(* its halves are joined and however many blocks share a page.             *)
THEOREM FreeIsUnmapped == Spec => []FreeUnmapped
<1>1. Init => FreeUnmapped
  BY DEF Init, FreeUnmapped
<1> QED BY <1>1, UnmappedStep, TypeAlways, TreeAlways, PTL DEF Spec

(* With blocks of whole pages, the pages of a block are its leaves.        *)
LEMMA PagesAreLeaves ==
    ASSUME LeavesPerPage = 1, NEW n \in Node
    PROVE  Pages[n] = Leaves[n] /\ Leaves[n] \subseteq Page
<1>1. Leaves[n] \subseteq 0 .. Pow2(Layers - 1) - 1
  BY LeavesExist
<1>2. Pow2(Layers - 1) \in Nat \ {0}
  BY TreeAssumption, Pow2Table
<1>3. \A i \in Int : i \div 1 = i
  OBVIOUS
<1>4. Page = 0 .. Pow2(Layers - 1) - 1
  BY <1>2, <1>3 DEF Page
<1>5. \A i \in Leaves[n] : i \div 1 = i
  BY <1>1, <1>3
<1>6. Pages[n] = {i \div 1 : i \in Leaves[n]}
  BY DEF Pages
<1> QED BY <1>1, <1>4, <1>5, <1>6

MapInv ==
    /\ \A n \in held : \A p \in Pages[n] : pt[p] = "own"
    /\ \A p \in Page : tlb[p] \in {"none", "own"}

LEMMA MapInit == LeavesPerPage = 1 /\ Init => MapInv
<1> SUFFICES ASSUME LeavesPerPage = 1, Init PROVE MapInv
  OBVIOUS
<1>1. Pages[Reserved] \subseteq Page
  BY ReservedIs, PagesAreLeaves
<1> QED BY <1>1 DEF Init, MapInv

LEMMA MapStep ==
    ASSUME LeavesPerPage = 1
    PROVE  TreeInv /\ TypeOK /\ MapInv /\ [Next]_vars => MapInv'
<1> SUFFICES ASSUME TreeInv, TypeOK, MapInv, [Next]_vars PROVE MapInv'
  OBVIOUS
<1>1. \A n \in held : n \in Node /\ Pages[n] = Leaves[n] /\ Pages[n] \subseteq Page
  BY PagesAreLeaves DEF TreeInv, Blocks
<1>2. ASSUME NEW size \in Request, Alloc(size) PROVE MapInv'
  <2>1. Pages[AllocNode(bits, size)] \subseteq Page
    BY <1>2, AllocKeepsTree, PagesAreLeaves
  <2>2. ASSUME NEW n \in held', NEW p \in Pages[n] PROVE pt'[p] = "own"
    BY <1>1, <1>2, <2>1, <2>2 DEF Alloc, MapPages, MapInv
  <2> QED BY <1>2, <2>2 DEF Alloc, MapInv
<1>3. ASSUME NEW size \in Request, AllocFails(size) PROVE MapInv'
  BY <1>3 DEF AllocFails, MapInv
<1>4. ASSUME NEW n \in held, Free(n) PROVE MapInv'
  <2>1. ASSUME NEW m \in held', NEW p \in Pages[m] PROVE pt'[p] = "own"
    <3>1. m \in held /\ m # n /\ p \in Page /\ p \in Leaves[m] /\ pt[p] = "own"
      BY <1>1, <1>4, <2>1 DEF Free, MapInv
    <3>2. Pages[MergedInto(bits, n)] = Leaves[MergedInto(bits, n)]
      BY MergedCovers, PagesAreLeaves
    <3>3. p \notin Pages[MergedInto(bits, n)]
      BY <3>1, <3>2, MergedIsApart DEF TreeInv
    <3> QED BY <1>4, <3>1, <3>3 DEF Free, MapPages
  <2> QED BY <1>4, <2>1 DEF Free, MapInv
<1>5. ASSUME NEW n \in held, Touch(n) PROVE MapInv'
  <2>1. PICK p \in Pages[n] : tlb' = [tlb EXCEPT ![p] = pt[p]]
    BY <1>5 DEF Touch
  <2>2. pt[p] = "own"
    BY DEF MapInv
  <2>3. \A q \in Page : tlb'[q] \in {"none", "own"}
    BY <2>1, <2>2 DEF MapInv, TypeOK
  <2> QED BY <1>5, <2>3 DEF Touch, MapInv
<1>6. CASE ReloadCr3
  BY <1>6 DEF ReloadCr3, MapInv
<1>7. CASE UNCHANGED vars
  BY <1>7 DEF vars, MapInv
<1> QED BY <1>2, <1>3, <1>4, <1>5, <1>6, <1>7 DEF Next

(* As long as the smallest block is a page, the owner of a live block      *)
(* reaches its own memory and nobody's stale mapping, although nothing     *)
(* invalidates the TLB.                                                    *)
THEOREM LiveIsMapped == LeavesPerPage = 1 => (Spec => []LiveMapped)
<1> SUFFICES ASSUME LeavesPerPage = 1 PROVE Spec => []LiveMapped
  OBVIOUS
<1>1. Init => MapInv
  BY MapInit
<1>2. TreeInv /\ TypeOK /\ MapInv /\ [Next]_vars => MapInv'
  BY MapStep
<1>3. Spec => []MapInv
  BY <1>1, <1>2, TypeAlways, TreeAlways, PTL DEF Spec
<1>4. MapInv /\ TreeInv => LiveMapped
  BY PagesAreLeaves DEF MapInv, LiveMapped, TreeInv, Blocks
<1> QED BY <1>3, <1>4, TreeAlways, PTL

-----------------------------------------------------------------------------
(* The bitmap implements the pool                                          *)

LEMMA PoolInit == Init => Pool!Init
<1>1. 0 \in Request
  BY TreeAssumption, Pow2Table DEF Request
<1> QED BY <1>1 DEF Init, Pool!Init

(* A block that is handed out was free, and of the size asked for.         *)
LEMMA AllocIsGet ==
    ASSUME TreeInv, NEW size \in Request, Alloc(size)
    PROVE  Pool!Get(size)
<1>1. PICK n : n = AllocNode(bits, size)
  OBVIOUS
<1>2. /\ n \in Node \ bits /\ LayerOf[n] = MinLayer[size]
      /\ TreeInv'
  BY <1>1, AllocKeepsTree
<1>3. asked' = size /\ held' = held \cup {n} /\ ret' = n
  BY <1>1 DEF Alloc
<1>4. size <= Pow2(Layers - 1)
  <2>1. Pow2(Layers - 1) \in Nat
    BY TreeAssumption, Pow2Table
  <2>2. ~(size > Pow2(Layers - 1))
    BY DEF Alloc, AllocSucceeds, CandidateLayers
  <2> QED BY <2>1, <2>2 DEF Request
<1>5. \A m \in held : Leaves[n] \cap Leaves[m] = {}
  <2> SUFFICES ASSUME NEW m \in held PROVE Leaves[n] \cap Leaves[m] = {}
    OBVIOUS
  <2>1. n # m
    BY <1>2 DEF TreeInv, Blocks
  <2>2. n \in Blocks(bits') /\ m \in Blocks(bits')
    BY <1>2, <1>3 DEF TreeInv
  <2> QED BY <1>2, <2>1, <2>2, BlocksApart DEF TreeInv
<1>6. n \in Pool!FreeFor(size)
  BY <1>2, <1>4, <1>5 DEF Pool!FreeFor, Pool!IsFree, Serves, LeafSet
<1> QED BY <1>3, <1>6 DEF Pool!Get

(* A request is refused only when no block of its layer is free.           *)
LEMMA AllocFailsIsRefuse ==
    ASSUME TreeInv, NEW size \in Request, AllocFails(size)
    PROVE  Pool!Refuse(size)
<1>1. Pool!FreeFor(size) = {}
  <2> SUFFICES ASSUME NEW b \in Node, Serves(b, size), Pool!IsFree(b)
               PROVE  FALSE
    BY DEF Pool!FreeFor
  <2>1. size <= Pow2(Layers - 1) /\ LayerOf[b] = MinLayer[size]
    BY DEF Serves
  <2>2. \A m \in held : Leaves[b] \cap Leaves[m] = {}
    BY DEF Pool!IsFree, LeafSet
  <2>3. ~AllocSucceeds(bits, size)
    BY DEF AllocFails
  <2>4. \E m \in Blocks(bits) : Leaves[b] \cap Leaves[m] # {}
    BY <2>1, <2>3, RootIsSet, RefusedIsFull DEF TreeInv
  <2> QED BY <2>2, <2>4 DEF TreeInv
<1> QED BY <1>1 DEF AllocFails, Pool!Refuse

LEMMA PoolStep == TreeInv /\ [Next]_vars => [Pool!Next]_(Pool!vars)
<1> SUFFICES ASSUME TreeInv, [Next]_vars PROVE [Pool!Next]_(Pool!vars)
  OBVIOUS
<1>1. ASSUME NEW size \in Request, Alloc(size) PROVE Pool!Next
  BY <1>1, AllocIsGet DEF Pool!Next
<1>2. ASSUME NEW size \in Request, AllocFails(size) PROVE Pool!Next
  BY <1>2, AllocFailsIsRefuse DEF Pool!Next
<1>3. ASSUME NEW n \in held, Free(n) PROVE Pool!Next
  <2>1. Pool!Release(n)
    BY <1>3 DEF Free, Pool!Release
  <2> QED BY <2>1 DEF Pool!Next
<1>4. ASSUME NEW n \in held, Touch(n) PROVE UNCHANGED Pool!vars
  BY <1>4 DEF Touch, Pool!vars
<1>5. CASE ReloadCr3
  BY <1>5 DEF ReloadCr3, Pool!vars
<1>6. CASE UNCHANGED vars
  BY <1>6 DEF vars, Pool!vars
<1> QED BY <1>1, <1>2, <1>3, <1>4, <1>5, <1>6 DEF Next

(* buddy_alloc and buddy_free do to the pool what BlockPool promises:      *)
(* every step of the bitmap is a step of the pool or leaves it alone.      *)
THEOREM BitmapImplementsPool == Spec => ImplementsPool
  BY PoolInit, PoolStep, TreeAlways, PTL DEF Spec, ImplementsPool, Pool!Spec
=============================================================================
