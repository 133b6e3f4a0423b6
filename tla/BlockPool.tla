----------------------------- MODULE BlockPool -----------------------------
(***************************************************************************)
(* What the physical block allocator promises its callers (heap, shell     *)
(* stack, scheduler, page fault handler), whatever its bitmap looks like:  *)
(* blocks that are live together share no memory, a request fails only     *)
(* when no block that would serve it is free, and releasing a block makes  *)
(* exactly its memory available again.                                     *)
(***************************************************************************)
CONSTANTS
    Block,          \* every block there can be
    Request,        \* the sizes that can be asked for
    Cells(_),       \* the smallest units of memory in a block
    Serves(_, _),   \* does this block have the size that this request gets?
    Reserved,       \* the block heap_init takes and nobody gives back
    Null            \* the answer to a request that fails

VARIABLES
    live,           \* the blocks handed out and not released
    asked,          \* the last request
    ret             \* what it returned

vars == <<live, asked, ret>>

IsFree(b) == \A c \in live : Cells(b) \cap Cells(c) = {}

FreeFor(s) == {b \in Block : Serves(b, s) /\ IsFree(b)}

Init == live = {Reserved} /\ asked \in Request /\ ret = Null

Get(s) ==
    /\ asked' = s
    /\ \E b \in FreeFor(s) : live' = live \cup {b} /\ ret' = b

Refuse(s) ==
    /\ FreeFor(s) = {}
    /\ asked' = s
    /\ ret' = Null
    /\ UNCHANGED live

Release(b) ==
    /\ b # Reserved
    /\ live' = live \ {b}
    /\ UNCHANGED <<asked, ret>>

Next ==
    \/ \E s \in Request : Get(s) \/ Refuse(s)
    \/ \E b \in live : Release(b)

Spec == Init /\ [][Next]_vars
=============================================================================
