----------------------------- MODULE BuddyTree -----------------------------
(***************************************************************************)
(* The bitmap of the buddy allocator (util/buddy_alloc.c) as a tree, and   *)
(* what one call of buddy_alloc or buddy_free does to it. A bitmap is the  *)
(* set of the blocks whose bit is set; a bit is set when the block is      *)
(* handed out or has been split, so a block is live when its bit is set    *)
(* and the bits of its two halves are clear.                               *)
(*                                                                         *)
(* Block <<layer, idx>> is named by its number in the bitmap plus one:     *)
(* buddy_layers[layer] + idx + 1. Then the root is 1, the halves of n are  *)
(* 2n and 2n+1, and idx >> 1 one layer up is n \div 2.                     *)
(*                                                                         *)
(* Sizes are counted in blocks of g_buddy_min_block bytes.                 *)
(***************************************************************************)
EXTENDS Integers, FiniteSetsExt

CONSTANTS
    Layers,         \* g_buddy_layers
    ReservedLayer   \* layer of the block that heap_init keeps for ever

ASSUME TreeAssumption ==
    /\ Layers \in 2 .. 14           \* BUDDY_LAYERS
    /\ ReservedLayer \in 1 .. Layers - 1

(* The table of buddy_alloc.c:11: number of blocks above each layer.       *)
buddy_layers == <<0, 1, 3, 7, 15, 31, 63, 127, 255, 511, 1023, 2047, 4095,
                  8191, 16383, 32767>>

Pow2(k) == buddy_layers[k + 1] + 1

At(layer)    == Pow2(layer) .. Pow2(layer + 1) - 1
Node         == 1 .. Pow2(Layers) - 1
Parent(n)    == n \div 2
BuddyOf(n)   == IF n % 2 = 0 THEN n + 1 ELSE n - 1
LayerOf      == [n \in Node |-> CHOOSE l \in 0 .. Layers - 1 : n \in At(l)]
Ancestors(n) == {n \div Pow2(k) : k \in 0 .. LayerOf[n]}   \* n included

(* Number of smallest blocks in a block of this layer.                     *)
BlockSize(layer) == Pow2(Layers - 1 - layer)

Leaves == [n \in Node |->
    LET size == BlockSize(LayerOf[n])
        idx  == n - Pow2(LayerOf[n])
    IN  idx * size .. (idx + 1) * size - 1]

(* The live blocks, as the bitmap tells them.                              *)
Blocks(bits) == {n \in bits : 2 * n \notin bits /\ 2 * n + 1 \notin bits}

Reserved == Pow2(ReservedLayer)

(* After buddy_init and heap_init's request for HEAP_METADATA_SIZE.        *)
InitialBits == {Pow2(k) : k \in 0 .. ReservedLayer}

-----------------------------------------------------------------------------
(* buddy_alloc                                                             *)

Request == 0 .. Pow2(Layers - 1) + 1

(* The deepest layer whose blocks are large enough.                        *)
MinLayer == [size \in 0 .. Pow2(Layers - 1) |->
    CHOOSE l \in 0 .. Layers - 1 :
        /\ BlockSize(l) >= size
        /\ l < Layers - 1 => BlockSize(l + 1) < size]

(* Bug: a clear bit under a set parent is enough.                          *)
CandidatesOfLive(bits, layer) ==
    {n \in At(layer) \ bits : n = 1 \/ Parent(n) \in bits}

(* What the search accepts at a layer: a clear bit under a split parent;   *)
(* the parent is split, not handed out, when one of its halves is set.     *)
Candidates(bits, layer) ==
    {n \in At(layer) \ bits :
        n = 1 \/ (Parent(n) \in bits /\ BuddyOf(n) \in bits)}

(* Bug: a request is served from its own layer or not at all.              *)
CandidateLayersNoSplit(bits, size) ==
    IF size > Pow2(Layers - 1) THEN {}
    ELSE {l \in {MinLayer[size]} : Candidates(bits, l) # {}}

(* The search starts at the layer asked for and moves up.                  *)
CandidateLayers(bits, size) ==
    IF size > Pow2(Layers - 1) THEN {}
    ELSE {l \in 0 .. MinLayer[size] : Candidates(bits, l) # {}}

(* From the block found, the first half is split down to the layer asked   *)
(* for: the blocks on that way, the last of them being handed out.         *)
Descent(n, layer) == {n * Pow2(j) : j \in 0 .. layer - LayerOf[n]}

AllocPath(bits, size) ==
    Descent(Min(Candidates(bits, Max(CandidateLayers(bits, size)))),
            MinLayer[size])

AllocSucceeds(bits, size) == CandidateLayers(bits, size) # {}
AllocNode(bits, size)     == Max(AllocPath(bits, size))

(* Bug: the blocks split on the way are not marked.                        *)
AllocBitsLast(bits, size) == bits \cup {AllocNode(bits, size)}

AllocBits(bits, size)     == bits \cup AllocPath(bits, size)

-----------------------------------------------------------------------------
(* buddy_free                                                              *)

(* The address of a block is that of the smallest block at its start; from *)
(* there free walks up to the first set bit.                               *)
FirstLeaf(n) == Pow2(Layers - 1) + Min(Leaves[n])

Found(bits, n) == Max(Ancestors(FirstLeaf(n)) \cap bits)

(* Bug: halves are joined whatever the other half is.                      *)
MergedIntoRoot(bits, n) == 1

(* The block that the freed one merges into: halves are joined upwards as  *)
(* long as the other half is clear.                                        *)
MergedInto(bits, n) ==
    LET stops == {m \in Ancestors(Found(bits, n)) \ {1} : BuddyOf(m) \in bits}
    IN  IF stops = {} THEN 1 ELSE Max(stops)

FreeBits(bits, n) ==
    bits \ {m \in Ancestors(Found(bits, n)) : m >= MergedInto(bits, n)}

(* The bitmap is a tree: a block's bit is set only under a set parent.     *)
IsTree(bits) == \A n \in bits \ {1} : Parent(n) \in bits
=============================================================================
