---------------------------- MODULE BuddySearch ----------------------------
(***************************************************************************)
(* The loops of buddy_alloc and buddy_free (util/buddy_alloc.c:99-232),    *)
(* one action per iteration: the search that climbs from the layer asked   *)
(* for, its jump back down (goto buddy_alloc_top_loop with search_up = 0)  *)
(* that splits blocks on the way, and the walk of buddy_free that finds    *)
(* the block of an address and joins halves. They are shown to compute     *)
(* what BuddyTree.tla says of a whole call. The first call, and what comes *)
(* before it, is in Boot.tla.                                              *)
(***************************************************************************)
EXTENDS BuddyTree

VARIABLES
    bits,       \* g_buddy_block
    ret,        \* value returned by the last buddy_alloc
    pc,         \* where the running call is, "idle" between two calls:
                \* top, for, returned (alloc), find, merge, freed (free)
    arg,        \* size, or the block whose address is freed
    layer, idx, \* the locals of the same names (idx: also min_block_idx)
    min_layer,
    search_up,
    before      \* history: bits when the running call began

vars == <<bits, ret, pc, arg, layer, idx, min_layer, search_up, before>>

Number(l, i) == buddy_layers[l + 1] + i + 1
IsSet(l, i)  == Number(l, i) \in bits       \* buddy_block

-----------------------------------------------------------------------------
(* buddy_alloc                                                             *)

Return(b) ==
    /\ ret' = b
    /\ pc' = "returned"

(* Lines 101-118: too large, or the pool handed out as one block; else the *)
(* search starts at the deepest layer that is large enough.                *)
CallAlloc(size) ==
    /\ pc = "idle"
    /\ arg' = size
    /\ before' = bits
    /\ IF \/ size > BlockSize(0)
          \/ IsSet(0, 0) /\ ~(IsSet(1, 0) \/ IsSet(1, 1))
       THEN /\ Return(0)
            /\ UNCHANGED <<layer, idx, min_layer, search_up>>
       ELSE /\ min_layer' = MinLayer[size]
            /\ layer' = MinLayer[size]
            /\ idx' = 0
            /\ search_up' = TRUE
            /\ pc' = "top"
            /\ UNCHANGED ret
    /\ UNCHANGED bits

(* Line 122, the first statement of an iteration over layers.              *)
TopOfLoop ==
    /\ pc = "top"
    /\ IF layer <= 1 /\ IsSet(1, 0) /\ IsSet(1, 1)
       THEN Return(0)
       ELSE pc' = "for" /\ UNCHANGED ret
    /\ UNCHANGED <<bits, arg, layer, idx, min_layer, search_up, before>>

(* Bug: a parent that is handed out is taken for a split one.              *)
ChosenOfLive ==
    IF layer = 0 THEN {i \in {idx} : ~IsSet(0, i)}
    ELSE IF ~IsSet(layer - 1, idx \div 2) THEN {}
    ELSE IF ~IsSet(layer, idx) THEN {idx}
    ELSE IF ~IsSet(layer, idx + 1) THEN {idx + 1}
    ELSE {}

(* Lines 128-158: which of the two halves idx, idx + 1 the body settles    *)
(* on; none of them is `continue'.                                         *)
Chosen ==
    IF layer = 0 THEN {i \in {idx} : ~IsSet(0, i)}
    ELSE IF ~IsSet(layer - 1, idx \div 2) THEN {}
    ELSE IF search_up /\ ~(IsSet(layer, idx) \/ IsSet(layer, idx + 1)) THEN {}
    ELSE IF ~IsSet(layer, idx) THEN {idx}
    ELSE IF ~IsSet(layer, idx + 1) THEN {idx + 1}
    ELSE {}

InFor == pc = "for" /\ idx < Pow2(layer)

Continue ==
    /\ InFor
    /\ Chosen = {}
    /\ idx' = idx + 2
    /\ UNCHANGED <<bits, ret, pc, arg, layer, min_layer, search_up, before>>

(* Lines 160-175.                                                          *)
Take ==
    /\ InFor
    /\ layer = min_layer
    /\ \E i \in Chosen :
          /\ bits' = bits \cup {Number(layer, i)}
          /\ idx' = i
          /\ Return(Number(layer, i))
    /\ UNCHANGED <<arg, layer, min_layer, search_up, before>>

(* Lines 176-185: split the block and go on in its halves.                 *)
GoDeeper ==
    /\ InFor
    /\ layer # min_layer
    /\ \E i \in Chosen :
          /\ bits' = bits \cup {Number(layer, i)}
          /\ idx' = i * 2
    /\ layer' = layer + 1
    /\ search_up' = FALSE
    /\ pc' = "top"
    /\ UNCHANGED <<ret, arg, min_layer, before>>

(* Bug: the search begins again at the layer asked for.                    *)
LayerDoneAgain ==
    /\ pc = "for"
    /\ idx >= Pow2(layer)
    /\ idx' = 0
    /\ layer' = min_layer
    /\ pc' = "top"
    /\ UNCHANGED <<bits, ret, arg, min_layer, search_up, before>>

(* Lines 188, 119 and 191-205: next layer up, or out of memory. The branch *)
(* of line 196 needs a clear root, which the loop would have taken.        *)
LayerDone ==
    /\ pc = "for"
    /\ idx >= Pow2(layer)
    /\ idx' = 0
    /\ layer' = layer - 1
    /\ IF layer = 0 THEN Return(0) ELSE pc' = "top" /\ UNCHANGED ret
    /\ UNCHANGED <<bits, arg, min_layer, search_up, before>>

-----------------------------------------------------------------------------
(* buddy_free                                                              *)

MayFree(n) == n \in Blocks(bits) \ {Reserved}

(* The address gives the smallest block at the start of n.                 *)
CallFree(n) ==
    /\ pc = "idle"
    /\ MayFree(n)
    /\ arg' = n
    /\ before' = bits
    /\ layer' = Layers - 1
    /\ idx' = Min(Leaves[n])
    /\ pc' = "find"
    /\ UNCHANGED <<bits, ret, min_layer, search_up>>

(* Lines 217-224: walk up to the first set bit and clear it.               *)
FindStep ==
    /\ pc = "find"
    /\ IF IsSet(layer, idx)
       THEN /\ bits' = bits \ {Number(layer, idx)}
            /\ pc' = "merge"
            /\ UNCHANGED <<layer, idx>>
       ELSE /\ layer' = layer - 1
            /\ idx' = idx \div 2
            /\ UNCHANGED <<bits, pc>>
    /\ UNCHANGED <<ret, arg, min_layer, search_up, before>>

(* buddy_block_set(l, i, 0). Layer -1 reads in front of buddy_layers and   *)
(* clears whatever bit that names.                                         *)
Cleared(l, i) ==
    IF l >= 0 THEN {bits \ {Number(l, i)}} ELSE {bits \ {m} : m \in Node}

(* Bug: the index is not rounded down to the left half.                    *)
HalvesClearFromIdx == ~(IsSet(layer, idx) \/ IsSet(layer, idx + 1))

(* Lines 227-232.                                                          *)
HalvesClear ==
    LET left == idx - (idx % 2)
    IN  ~(IsSet(layer, left) \/ IsSet(layer, left + 1))

MergeStep ==
    /\ pc = "merge"
    /\ IF layer >= 0 /\ HalvesClear
       THEN /\ layer' = layer - 1
            /\ idx' = idx \div 2
            /\ bits' \in Cleared(layer - 1, idx \div 2)
            /\ UNCHANGED pc
       ELSE pc' = "freed" /\ UNCHANGED <<layer, idx, bits>>
    /\ UNCHANGED <<ret, arg, min_layer, search_up, before>>

(* The caller goes on.                                                     *)
Done ==
    /\ pc \in {"returned", "freed"}
    /\ pc' = "idle"
    /\ UNCHANGED <<bits, ret, arg, layer, idx, min_layer, search_up, before>>

Next ==
    \/ \E size \in Request : CallAlloc(size)
    \/ TopOfLoop
    \/ Continue
    \/ Take
    \/ GoDeeper
    \/ LayerDone
    \/ \E n \in Node : CallFree(n)
    \/ FindStep
    \/ MergeStep
    \/ Done

(* A call is ordinary code: it goes on until it returns.                   *)
Fairness == WF_vars(TopOfLoop \/ Continue \/ Take \/ GoDeeper
                    \/ LayerDone \/ FindStep \/ MergeStep \/ Done)

-----------------------------------------------------------------------------
(* The search answers what BuddyTree says: it fails only when no layer has *)
(* a candidate, and else takes the first candidate of the lowest such      *)
(* layer, setting the bits on the way down and no other.                   *)
SearchIsAlloc ==
    pc = "returned" =>
        IF AllocSucceeds(before, arg)
        THEN ret = AllocNode(before, arg) /\ bits = AllocBits(before, arg)
        ELSE ret = 0 /\ bits = before

(* buddy_free clears the block of the address and the parents whose halves *)
(* have both become free; its locals then name the block to unmap.         *)
WalkIsFree ==
    pc = "freed" =>
        /\ bits = FreeBits(before, arg)
        /\ Number(layer, idx) = MergedInto(before, arg)

(* Every call returns: the jump back into the loop cannot cycle.           *)
CallsReturn == pc # "idle" ~> pc = "idle"
=============================================================================
