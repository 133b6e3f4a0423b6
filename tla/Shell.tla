------------------------------- MODULE Shell -------------------------------
(***************************************************************************)
(* The commands of the shell that use the heap (main.c:150-223), and the   *)
(* stack of pointers they keep what they were given in (include/stack.c).  *)
(* stack_pop returns a pointer into the stack's own memory, and try1 and   *)
(* try4 write through it before they push what is there again. Neither the *)
(* result of stack_push nor a NULL among the pointers is looked at.        *)
(*                                                                         *)
(* Objects that are not on the stack belong to the rest of the kernel,     *)
(* which may use the heap between two commands. The stack's memory is a    *)
(* block of its own (Buddy.tla). Commands that only print, and those that  *)
(* start processes (Scheduler.tla), are left out.                          *)
(***************************************************************************)
EXTENDS Heap

CONSTANTS
    StackSize,      \* pointers that fit the stack's block
    FileSize        \* words in the buffer of try3

ASSUME ShellAssumption ==
    /\ StackSize \in Nat \ {0}
    /\ FileSize \in Sizes

VARIABLE
    stack           \* the pointers, the last one on top

svars == <<vars, stack>>

NotFull(s) == Len(s) < StackSize

(* A full stack is left as it is.                                          *)
stack_push(s, p) == IF NotFull(s) THEN Append(s, p) ELSE s

Top     == stack[Len(stack)]
Under   == stack[Len(stack) - 1]
Popped(k) == SubSeq(stack, 1, Len(stack) - k)

(* What a call that took the objects `gone' away has returned.             *)
Returned(gone) ==
    LET new == DOMAIN live' \ (DOMAIN live \ gone)
    IN  IF new = {} THEN NULL ELSE CHOOSE p \in new : TRUE

SInit == Init /\ stack = <<>>

-----------------------------------------------------------------------------

(* try: the object on top, ptr, is freed. The stack is first looked at,    *)
(* and at address 0 if it is empty.                                        *)
Try(ptr) ==
    /\ stack # <<>> /\ Top = ptr
    /\ stack' = Popped(1)

TryNull ==
    /\ ~wild
    /\ Try(NULL)
    /\ UNCHANGED vars

(* Bug: the pointer is pushed as it was popped.                            *)
ReplacedNot(ptr) == ptr

(* The address that takes the place of a pointer on the stack.             *)
Replaced(ptr) == Returned({ptr})

(* try1: the object on top gets another size, or is NULL from now on.      *)
Try1(ptr) ==
    /\ stack # <<>> /\ Top = ptr
    /\ stack' = stack_push(Popped(1), Replaced(ptr))

(* try4: the same for the object under it.                                 *)
Try4(ptr) ==
    /\ Len(stack) > 1 /\ Under = ptr
    /\ stack' = stack_push(stack_push(Popped(2), Replaced(ptr)), Top)

(* With one pointer on the stack, try4 pops it and says NULL.              *)
Try4Loses ==
    /\ ~wild
    /\ Len(stack) = 1
    /\ stack' = <<>>
    /\ UNCHANGED vars

(* try2: malloc. With a full stack nobody keeps the pointer.               *)
Try2 ==
    stack' = IF Returned({}) = NULL THEN stack ELSE stack_push(stack, Returned({}))

(* try3: a buffer for a file, for the length of the command. Without one   *)
(* the file is written to address 0.                                       *)
Try3 ==
    /\ ~wild
    /\ Cardinality(DOMAIN live) < MaxLive
    /\ \E b \in Given(heap_blocks) : \E r \in {malloc(Heap, FileSize, b)} :
          \/ /\ r.ptr = NULL
             /\ wild' = TRUE
             /\ UNCHANGED <<mem, heap_blocks>>
          \/ /\ r.ptr # NULL
             /\ Leaves(free([mem |-> r.mem, slots |-> r.slots], r.ptr))
             /\ UNCHANGED wild
    /\ UNCHANGED <<live, stack>>

Elsewhere(ptr) ==
    /\ \A i \in DOMAIN stack : stack[i] # ptr
    /\ UNCHANGED stack

SNext ==
    \/ \E ptr \in DOMAIN live : Free(ptr) /\ (Try(ptr) \/ Elsewhere(ptr))
    \/ \E ptr \in DOMAIN live, n \in Sizes :
          Realloc(ptr, n) /\ (Try1(ptr) \/ Try4(ptr) \/ Elsewhere(ptr))
    \/ \E n \in Sizes : Malloc(n) /\ (Try2 \/ UNCHANGED stack)
    \/ \E ptr \in DOMAIN live : ReallocWild(ptr) /\ UNCHANGED stack
    \/ TryNull \/ Try4Loses \/ Try3

SSpec == SInit /\ [][SNext]_svars

-----------------------------------------------------------------------------
(* Whatever the commands do to the heap and in which order, every pointer  *)
(* on the stack is NULL or that of an object of its own that is still      *)
(* live: no command frees or moves an object that another entry names.     *)
StackIsLive ==
    \A i \in DOMAIN stack :
        stack[i] # NULL =>
            /\ stack[i] \in DOMAIN live
            /\ \A j \in DOMAIN stack \ {i} : stack[j] # stack[i]
=============================================================================
