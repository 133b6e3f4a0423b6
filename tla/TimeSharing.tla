---------------------------- MODULE TimeSharing ----------------------------
(***************************************************************************)
(* What preemptive multitasking promises in CrypthantusOS, without trap    *)
(* frames, process control blocks or interrupt flags: several computations *)
(* share one CPU, only the one that has the CPU advances, a computation    *)
(* that does not have it keeps its place, and turns are given in the order *)
(* kernel, then the live slots upwards, then the kernel again.             *)
(* Scheduler.tla is shown to implement this module.                        *)
(***************************************************************************)
EXTENDS Integers

CONSTANTS
    MAX_THREADS,    \* number of process slots
    Steps           \* bound: the places a computation goes round in

Slot   == 0 .. MAX_THREADS - 1
Kernel == -1

Start  == 0             \* a computation that has not run yet
Exited == Steps + 1     \* it has ended and only waits to lose the CPU
Gone   == Steps + 2     \* there is no computation in this slot

VARIABLES
    live,       \* the slots whose process may be given the CPU
    running,    \* who has the CPU
    at          \* the place each computation has reached

vars == <<live, running, at>>

Advance(k) == IF k < Steps THEN k + 1 ELSE 1

Init ==
    /\ live = {}
    /\ running = Kernel
    /\ at = [c \in Slot \cup {Kernel} |-> IF c = Kernel THEN Start ELSE Gone]

(* The computation that has the CPU takes a step.                          *)
Work ==
    /\ at[running] # Exited
    /\ at' = [at EXCEPT ![running] = Advance(@)]
    /\ UNCHANGED <<live, running>>

(* The kernel starts a process in a free slot.                             *)
Spawn ==
    /\ running = Kernel
    /\ \E p \in Slot \ live :
          /\ live' = live \cup {p}
          /\ at' = [at EXCEPT ![p] = Start]
    /\ UNCHANGED running

(* The running process ends; it keeps the CPU until the next switch.       *)
Quit ==
    /\ running \in live
    /\ live' = live \ {running}
    /\ at' = [at EXCEPT ![running] = Exited]
    /\ UNCHANGED running

(* n is next after k: no live slot is skipped.                             *)
IsNextTurn(k, n) ==
    \/ n \in live /\ n > k /\ \A s \in live : s > k => n <= s
    \/ n = Kernel /\ \A s \in live : s <= k

Switch ==
    /\ \E n \in Slot \cup {Kernel} : IsNextTurn(running, n) /\ running' = n
    /\ at' = [c \in Slot \cup {Kernel} |->
                 IF c \in live \cup {Kernel} THEN at[c] ELSE Gone]
    /\ UNCHANGED live

Next == Work \/ Spawn \/ Quit \/ Switch

Spec == Init /\ [][Next]_vars
=============================================================================
