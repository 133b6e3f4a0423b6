-------------------------------- MODULE Boot --------------------------------
(***************************************************************************)
(* From power-on to a working allocator: stage 1 (Stage1.tla) loads stage  *)
(* 2, which asks the BIOS for the memory map (detect_memory); the kernel's *)
(* buddy_init picks the pool from it, heap_init makes the first request,   *)
(* and from then on the kernel allocates and frees (BuddySearch.tla). What *)
(* else stage 2 does is in Stage2.tla.                                     *)
(*                                                                         *)
(* Memory is counted in KB, the grain of memory maps; the tree of the      *)
(* allocator is a small one, whatever the size of the pool.                *)
(***************************************************************************)
EXTENDS Stage1, BuddySearch

CONSTANTS
    Machines,       \* the memory maps there are: sequences of blocks
    KernelSize,     \* of the kernel's image and its .bss
    LowMemory       \* regions below 1 MB that the loaders and the kernel use

Block  == [begin : Nat, length : Nat \ {0, 1}, usable : BOOLEAN]
Region == [begin : Nat, length : Nat]

FourGB == 4194304

(* int size = block.length: the lower 32 bits, with a sign.                *)
AsInt(length) ==
    IF length % FourGB < FourGB \div 2 THEN length % FourGB
    ELSE (length % FourGB) - FourGB

(* What buddy_init relies on: memory below 1 MB is used in its first half  *)
(* and from 640 KB only; behind it no block is smaller than twice the      *)
(* kernel; and a machine with memory behind 4 GB, where addresses begin    *)
(* again at 0, has memory at the same places below 2 GB.                   *)
ASSUME MachineAssumption ==
    /\ KernelSize \in Nat
    /\ LowMemory \subseteq Region
    /\ \A r \in LowMemory :
          \/ r.begin + r.length <= 256
          \/ r.begin >= 640 /\ r.begin + r.length <= 1024
    /\ \A m \in Machines : m \in Seq(Block)
    /\ \A m \in Machines : \A i \in DOMAIN m : m[i].usable =>
          \/ m[i].begin = 0 /\ m[i].length \in 518 .. 640
          \/ /\ m[i].begin >= 1024 /\ m[i].length > 2 * (KernelSize + 4)
             /\ m[i].begin + m[i].length <= FourGB
          \/ /\ m[i].begin = FourGB
             /\ \/ AsInt(m[i].length) <= 0
                \/ AsInt(m[i].length) > 2 * (1024 + KernelSize + 4)
             /\ \E j \in DOMAIN m :
                   /\ m[j].usable /\ m[j].begin = 1024
                   /\ m[j].begin + m[j].length >= FourGB \div 2

VARIABLES
    up,             \* how far the machine is, see Stage
    machine,        \* its memory map
    blocks_count,   \* blocks of it that detect_memory has stored
    pool            \* g_buddy_start and g_buddy_max_block

memory_vars == <<up, machine, blocks_count, pool>>

Stage == {"stage1", "detect", "buddy_init", "heap_init", "running", "ended"}

NoPool == [begin |-> 0, length |-> 0]

BootInit ==
    /\ S1Init
    /\ up = "stage1"
    /\ machine \in Machines
    /\ blocks_count = 0
    /\ pool = NoPool
    /\ bits = {} /\ before = {}         \* .bss is cleared (main.c:59)
    /\ ret = 0 /\ pc = "idle" /\ arg = 0
    /\ layer = 0 /\ idx = 0 /\ min_layer = 0 /\ search_up = TRUE

-----------------------------------------------------------------------------

Load ==
    /\ up = "stage1"
    /\ S1Next
    /\ up' = IF at' = "stage2" THEN "detect" ELSE up
    /\ UNCHANGED <<machine, blocks_count, pool>>

(* One answer of the BIOS: the next block, and whether there are more. The *)
(* loop ends when there are none, before the last block is stored, or when *)
(* the call fails.                                                         *)
DetectMemory ==
    /\ up = "detect"
    /\ \/ /\ blocks_count + 1 < Len(machine)
          /\ blocks_count' = blocks_count + 1
          /\ UNCHANGED up
       \/ /\ up' = "buddy_init"
          /\ UNCHANGED blocks_count
    /\ UNCHANGED <<machine, pool>>

Larger(i, j) ==
    LET size(k) == AsInt(machine[k].length)
    IN  size(i) > size(j) \/ (size(i) = size(j) /\ i <= j)

UsableBlocks ==
    {i \in 1 .. blocks_count :
        machine[i].usable /\ AsInt(machine[i].length) > 0}

(* The powers of two up to half of the largest int, in KB.                 *)
Powers == {1, 2, 4, 8, 16, 32, 64, 128, 256, 512, 1024, 2048, 4096, 8192,
           16384, 32768, 65536, 131072, 262144, 524288}

(* The largest of them that is not above n.                                *)
PowerUpTo(n) == Max({p \in Powers : p <= n})

(* Bug: all of the block is taken for the pool's limit.                    *)
MaxBlockOfWhole(b) == PowerUpTo(AsInt(b.length))

MaxBlock(b) == PowerUpTo(AsInt(b.length) \div 2)

(* The end of the block less max_block, in 32 bits, down to a page.        *)
Start4K(b) ==
    LET from == (b.begin + b.length - MaxBlock(b)) % FourGB
    IN  from - (from % 4)

(* The largest block, the first of several, unless there is none.          *)
BuddyInit ==
    /\ up = "buddy_init"
    /\ \/ /\ UsableBlocks = {}
          /\ up' = "ended"
          /\ UNCHANGED pool
       \/ \E i \in UsableBlocks :
             /\ \A j \in UsableBlocks : Larger(i, j)
             /\ pool' = [begin  |-> Start4K(machine[i]),
                         length |-> MaxBlock(machine[i])]
             /\ up' = "heap_init"
    /\ UNCHANGED <<machine, blocks_count>>

(* The memory for the heap's table, from an empty tree.                    *)
HeapInit ==
    /\ up = "heap_init" /\ pc = "idle"
    /\ CallAlloc(BlockSize(ReservedLayer))
    /\ UNCHANGED memory_vars

(* heap_init goes on when its request returns. The memory map is not used  *)
(* any more: it is forgotten.                                              *)
Allocate ==
    /\ up = "running" \/ (up = "heap_init" /\ pc # "idle")
    /\ Next
    /\ IF pc = "returned" /\ up = "heap_init"
       THEN /\ up' = IF ret = 0 THEN "ended" ELSE "running"
            /\ machine' = <<>>
            /\ blocks_count' = 0
       ELSE UNCHANGED <<up, machine, blocks_count>>
    /\ UNCHANGED pool

BootNext ==
    \/ Load /\ UNCHANGED vars
    \/ (DetectMemory \/ BuddyInit) /\ UNCHANGED <<s1vars, vars>>
    \/ (HeapInit \/ Allocate) /\ UNCHANGED s1vars

bootvars == <<s1vars, memory_vars, vars>>

BootSpec ==
    /\ BootInit
    /\ [][BootNext]_bootvars
    /\ Fairness

-----------------------------------------------------------------------------

Disjoint(r, s) ==
    r.begin + r.length <= s.begin \/ s.begin + s.length <= r.begin

Kernel == [begin |-> 1024, length |-> KernelSize]

(* The pool is memory that the machine has, all of it in one block, and    *)
(* nothing that has been loaded or is used for something else lies in it:  *)
(* "safely allocate the memory at the end of the memory block to avoid     *)
(* collision with the kernel's opcodes" (buddy_alloc.c:76), for maps that  *)
(* end early and for blocks and ends of blocks that 32 bits do not hold.   *)
PoolIsClear ==
    up = "heap_init" =>
        /\ \E i \in DOMAIN machine :
              /\ machine[i].usable
              /\ machine[i].begin <= pool.begin
              /\ pool.begin + pool.length <= machine[i].begin + machine[i].length
        /\ \A r \in LowMemory \cup {Kernel} : Disjoint(pool, r)
=============================================================================
