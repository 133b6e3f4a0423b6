--------------------------- MODULE KeyboardReader ---------------------------
(***************************************************************************)
(* The kernel waiting for a line of input: _read_console                   *)
(* (include/stdio.c:448-453) asks hal_wait_keyboard_interrupt for the next *)
(* keyboard interrupt and then looks at what the handler has left in its   *)
(* globals. Interrupts stay enabled, so the keyboard handler runs between  *)
(* any two steps of the reader, and a timer tick may give the CPU to user  *)
(* processes (Scheduler.tla) while the reader is at any of its steps.      *)
(*                                                                         *)
(* The mask 0xFC that is set around the hlt leaves the timer and the       *)
(* keyboard, the two interrupts modelled here, and is not itself modelled. *)
(***************************************************************************)
EXTENDS Naturals

CONSTANTS
    Key,            \* the keys
    Enter, Other,   \* one of them, and another one
    Users,          \* is there a user process that ticks can switch to?
    MaxEvents       \* bound: key events

ASSUME KeyboardAssumption ==
    /\ {Enter, Other} \subseteq Key /\ Enter # Other
    /\ Users \in BOOLEAN
    /\ MaxEvents \in Nat

VARIABLES
    pc,             \* the reader: see Pc
    kernelRuns,     \* FALSE while a user process has the CPU
    is_keyboard_intr,
    last_char,      \* g_last_keyboard_char
    last_up,        \* g_last_keyboard_up
    down,           \* the keys held down
    events,         \* number of key events so far
    since,          \* history: key events since the flag was last reset
    asked           \* history: key events since scanf was last called

handler == <<is_keyboard_intr, last_char, last_up>>
vars == <<pc, kernelRuns, handler, down, events, since, asked>>

Event == [key : Key, up : BOOLEAN]

(* "away": the shell does something else than reading; "asleep": in hlt.   *)
Pc == {"away", "reset", "halt", "asleep", "woken", "up", "char"}

TypeOK ==
    /\ pc \in Pc
    /\ kernelRuns \in BOOLEAN
    /\ is_keyboard_intr \in BOOLEAN
    /\ last_char \in Key
    /\ last_up \in BOOLEAN
    /\ down \subseteq Key
    /\ events \in 0 .. MaxEvents
    /\ since \subseteq Event
    /\ asked \subseteq Event

Init ==
    /\ pc = "away"
    /\ kernelRuns = TRUE
    /\ is_keyboard_intr = FALSE
    /\ last_char = Other
    /\ last_up = TRUE
    /\ down = {}
    /\ events = 0
    /\ since = {}
    /\ asked = {}

-----------------------------------------------------------------------------
(* The reader                                                              *)

Goto(here, next) ==
    /\ kernelRuns
    /\ pc = here
    /\ pc' = next

Scanf ==
    /\ Goto("away", "reset")
    /\ asked' = {}
    /\ UNCHANGED <<kernelRuns, handler, down, events, since>>

(* Bug: the flag of an earlier interrupt is left set.                      *)
ResetNothing ==
    /\ Goto("reset", "halt")
    /\ since' = {}
    /\ UNCHANGED <<kernelRuns, handler, down, events, asked>>

(* i686_isr_reset_keyboard_intr.                                           *)
Reset ==
    /\ Goto("reset", "halt")
    /\ is_keyboard_intr' = FALSE
    /\ since' = {}
    /\ UNCHANGED <<kernelRuns, last_char, last_up, down, events, asked>>

(* sti; hlt. Only an interrupt that comes from now on ends it.             *)
Halt ==
    /\ Goto("halt", "asleep")
    /\ UNCHANGED <<kernelRuns, handler, down, events, since, asked>>

(* The three operands of the && of stdio.c:450, each read on its own.      *)
Test(here, passed, next) ==
    /\ IF passed THEN Goto(here, next) ELSE Goto(here, "reset")
    /\ UNCHANGED <<kernelRuns, handler, down, events, since, asked>>

TestCalled == Test("woken", is_keyboard_intr, "up")
TestUp     == Test("up", ~last_up, "char")
TestChar   == Test("char", last_char = Enter, "away")

Reader == Scanf \/ Reset \/ Halt \/ TestCalled \/ TestUp \/ TestChar

-----------------------------------------------------------------------------
(* Interrupts                                                              *)

WakesReader == pc' = IF pc = "asleep" THEN "woken" ELSE pc

(* Bug: a key that is released leaves no character.                        *)
HandlerLeavesNone(e) ==
    /\ is_keyboard_intr' = TRUE
    /\ last_char' = IF e.up THEN "none" ELSE e.key
    /\ last_up' = e.up

HandlerLeaves(e) ==
    /\ is_keyboard_intr' = TRUE
    /\ last_char' = e.key
    /\ last_up' = e.up

(* A key is pressed, repeats while it is held, or is released.             *)
KeyEvent(e) ==
    /\ events < MaxEvents
    /\ e.up => e.key \in down
    /\ events' = events + 1
    /\ down' = IF e.up THEN down \ {e.key} ELSE down \cup {e.key}
    /\ HandlerLeaves(e)
    /\ since' = since \cup {e}
    /\ asked' = asked \cup {e}
    /\ WakesReader
    /\ UNCHANGED kernelRuns

(* A tick wakes the reader too, and may leave the CPU to someone else.     *)
TickTo(kernel) ==
    /\ kernel \/ Users
    /\ kernelRuns' = kernel
    /\ WakesReader
    /\ UNCHANGED <<handler, down, events, since, asked>>

Next ==
    \/ Reader
    \/ \E e \in Event : KeyEvent(e)
    \/ \E kernel \in BOOLEAN : TickTo(kernel)

Spec == Init /\ [][Next]_vars

(* The timer does not stop, and the scheduler comes back to the kernel     *)
(* (Scheduler!KernelRuns); the kernel then makes progress before the next  *)
(* tick, 50 ms later.                                                      *)
FairSpec == Spec /\ WF_vars(TickTo(TRUE)) /\ SF_vars(Reader)

-----------------------------------------------------------------------------
(* A line is read only after a key went down and after Enter was touched,  *)
(* both since the flag was last reset: an Enter that ended an earlier read *)
(* does not end this one. "is_keyboard_intr guarantees a keyboard          *)
(* interrupt call" (hal.c:49).                                             *)
FreshInput ==
    [][TestChar /\ pc' = "away" =>
        /\ \E e \in since : ~e.up
        /\ \E e \in since : e.key = Enter]_vars

(* "wait until an enter is pressed, then read the input" (stdio.c:448), as *)
(* a promise to the user: pressing Enter during a read ends it.            *)
EnterEnds ==
    (pc # "away" /\ [key |-> Enter, up |-> FALSE] \in asked) ~> pc = "away"
=============================================================================
