------------------------------- MODULE Floppy -------------------------------
(***************************************************************************)
(* Reading a sector from the floppy drive: floppy_seek and floppy_execute  *)
(* (arch/i686/floppy.c) with their retries, i686_wait_ready and            *)
(* i686_wait_max_time (arch/i686/irq.c) on which they wait for IRQ 6, the  *)
(* timer that bounds the wait, and the drive's controller, which may       *)
(* answer in time, late or never.                                          *)
(*                                                                         *)
(* floppy_cmd and floppy_read_port poll the controller for some hundred    *)
(* port reads and give up (their delays are commented out), so a poll is   *)
(* one step that succeeds or fails. Nobody looks at what floppy_cmd        *)
(* returns, and floppy_read_port answers 0 when it gives up. Controllers   *)
(* are not made ready by time, only by the driver, so a command is         *)
(* accepted or dropped as a whole. A sector stands for its own cylinder.   *)
(* The motor is left out: both values written to the DOR are 0x1C.         *)
(***************************************************************************)
EXTENDS Integers, Sequences

CONSTANTS
    Lba,            \* sectors
    None,
    Retries,        \* 5 in the build
    WaitTicks,      \* 3000 ms / MS_PER_IDLE_TICK = 60 in the build
    Users,          \* is there a user process that ticks can switch to?
    Late            \* may a wait time out while the drive is still at work?

ASSUME FloppyAssumption ==
    /\ None \notin Lba
    /\ Retries \in Nat \ {0}
    /\ WaitTicks \in Nat \ {0}
    /\ Users \in BOOLEAN
    /\ Late \in BOOLEAN

VARIABLES
    pc, stage,          \* where the driver is, in floppy_seek or in execute
    lba,                \* argument of floppy_execute
    try,                \* the driver's loop variable i
    taken, wrong,       \* result bytes taken so far; was one of them bad?
    status,             \* what floppy_execute has returned
    data,               \* the caller's sector buffer
    kernelRuns,         \* FALSE while a user process has the CPU
    stepped,            \* has the driver made a step since the last tick?
    irq_handler,        \* irq_handlers[FLOPPY_IRQ]
    old_handler,
    interrupt_called,
    interrupt_called_ready,
    idle_ticks,
    phase,              \* of the controller: "ready", "busy" or "result"
    fifo,               \* the result bytes it holds
    reading,            \* the sector of the read command it executes
    seeking,            \* where the head is moving to
    head,               \* where it is
    seekEnd,            \* status of a finished seek, not yet asked for
    floppy_buffer       \* the sector the DMA has brought into it

call    == <<lba, status, data>>
result  == <<taken, wrong>>
irq     == <<irq_handler, old_handler, interrupt_called, interrupt_called_ready>>
drive   == <<phase, fifo, reading, seeking, head, seekEnd, floppy_buffer>>
cpu     == <<kernelRuns, stepped>>
vars    == <<pc, stage, call, try, result, cpu, irq, idle_ticks, drive>>

(* What a status byte can be to the driver: no error bit, an error bit, or *)
(* the 2 that stands for 512 bytes per sector. "address" bytes (cylinder,  *)
(* head, sector) can be anything to who takes them for status bytes.       *)
Byte   == {"zero", "error", "two"}
InFifo == Byte \cup {"address"}
Expected == [seek |-> 2, read |-> 7]    \* bytes of a result

Pc == {"idle", "prepare", "command", "wait", "test", "halt", "asleep",
       "sense", "answer"}

TypeOK ==
    /\ pc \in Pc
    /\ stage \in {"seek", "read"}
    /\ lba \in Lba
    /\ try \in 0 .. Retries - 1
    /\ taken \in 0 .. 7
    /\ wrong \in BOOLEAN
    /\ status \in 0 .. 1
    /\ data \in Lba \cup {None}
    /\ kernelRuns \in BOOLEAN
    /\ stepped \in BOOLEAN
    /\ irq_handler \in {"null", "sleep"}
    /\ old_handler \in {"null", "sleep"}
    /\ interrupt_called \in BOOLEAN
    /\ interrupt_called_ready \in BOOLEAN
    /\ idle_ticks \in -1 .. WaitTicks
    /\ phase \in {"ready", "busy", "result"}
    /\ Len(fifo) <= 7 /\ \A i \in DOMAIN fifo : fifo[i] \in InFifo
    /\ reading \in Lba
    /\ seeking \in Lba \cup {None}
    /\ head \in Lba \cup {None}
    /\ seekEnd \in Byte \cup {None}
    /\ floppy_buffer \in Lba \cup {None}

Init ==
    /\ pc = "idle"
    /\ stage = "seek"
    /\ lba \in Lba
    /\ try = 0
    /\ taken = 0
    /\ wrong = FALSE
    /\ status = 1
    /\ data = None
    /\ kernelRuns = TRUE
    /\ stepped = TRUE
    /\ irq_handler = "null"
    /\ old_handler = "null"
    /\ interrupt_called = FALSE
    /\ interrupt_called_ready = FALSE
    /\ idle_ticks = -1
    /\ phase = "ready"
    /\ fifo = <<>>
    /\ reading = lba
    /\ seeking = None
    /\ head = None
    /\ seekEnd = None
    /\ floppy_buffer = None

-----------------------------------------------------------------------------
(* irq.c                                                                   *)

(* i686_wait_ready.                                                        *)
WaitReady ==
    IF interrupt_called_ready
    THEN UNCHANGED irq
    ELSE /\ interrupt_called' = FALSE
         /\ interrupt_called_ready' = TRUE
         /\ old_handler' = irq_handler
         /\ irq_handler' = "sleep"

(* Bug: the next i686_wait_ready takes the wait for prepared.              *)
EndOfWaitStaysReady ==
    /\ interrupt_called' = FALSE
    /\ irq_handler' = old_handler
    /\ UNCHANGED <<old_handler, interrupt_called_ready>>

(* The end of i686_wait_max_time.                                          *)
EndOfWait ==
    /\ interrupt_called' = FALSE
    /\ interrupt_called_ready' = FALSE
    /\ irq_handler' = old_handler
    /\ UNCHANGED old_handler

WaitIsOver == interrupt_called \/ idle_ticks = 0

-----------------------------------------------------------------------------
(* The driver                                                              *)

Goto(here, next) ==
    /\ kernelRuns
    /\ pc = here
    /\ pc' = next
    /\ stepped' = TRUE
    /\ UNCHANGED kernelRuns

(* i686_floppy_read_sector is called.                                      *)
ReadSector(l) ==
    /\ Goto("idle", "prepare")
    /\ lba' = l
    /\ stage' = "seek"
    /\ try' = 0
    /\ data' = None
    /\ UNCHANGED <<status, result, irq, idle_ticks, drive>>

Prepare ==
    /\ Goto("prepare", "command")
    /\ WaitReady
    /\ UNCHANGED <<stage, call, try, result, idle_ticks, drive>>

(* floppy_cmd for each byte of the command.                                *)
Command ==
    /\ Goto("command", "wait")
    /\ CASE phase # "ready" -> UNCHANGED drive
         [] phase = "ready" /\ stage = "seek" ->
               /\ seeking' = lba
               /\ seekEnd' = None
               /\ UNCHANGED <<phase, fifo, reading, head, floppy_buffer>>
         [] phase = "ready" /\ stage = "read" ->
               /\ phase' = "busy"
               /\ reading' = lba
               /\ floppy_buffer' = None
               /\ UNCHANGED <<fifo, seeking, head, seekEnd>>
    /\ UNCHANGED <<stage, call, try, result, irq, idle_ticks>>

WaitMaxTime ==
    /\ Goto("wait", "test")
    /\ WaitReady
    /\ idle_ticks' = WaitTicks
    /\ UNCHANGED <<stage, call, try, result, drive>>

KeepWaiting ==
    /\ ~WaitIsOver
    /\ Goto("test", "halt")
    /\ UNCHANGED <<stage, call, try, result, irq, idle_ticks, drive>>

(* sti; hlt. Only an interrupt that comes from now on ends it.             *)
Halt ==
    /\ Goto("halt", "asleep")
    /\ UNCHANGED <<stage, call, try, result, irq, idle_ticks, drive>>

StopWaiting ==
    /\ WaitIsOver
    /\ Goto("test", IF stage = "seek" THEN "sense" ELSE "answer")
    /\ EndOfWait
    /\ taken' = 0
    /\ wrong' = FALSE
    /\ UNCHANGED <<stage, call, try, idle_ticks, drive>>

(* The SENSE INTERRUPT command of floppy_check_interrupt: a seek that is   *)
(* not finished is answered with one byte, "invalid command".              *)
Sense ==
    /\ Goto("sense", "answer")
    /\ IF phase = "ready"
       THEN /\ phase' = "result"
            /\ fifo' = IF seekEnd = None THEN <<"error">>
                       ELSE <<seekEnd, "address">>
            /\ seekEnd' = None
            /\ UNCHANGED <<reading, seeking, head, floppy_buffer>>
       ELSE UNCHANGED drive
    /\ UNCHANGED <<stage, call, try, result, irq, idle_ticks>>

(* What floppy_read_port can return. It does not look at the direction     *)
(* bit: a controller that waits for a command is read as well.             *)
PortReads ==
    CASE phase = "busy"  -> {"zero"}
      [] phase = "ready" -> Byte
      [] OTHER -> IF Head(fifo) = "address" THEN Byte ELSE {Head(fifo)}

(* Bug: the status of a read is not looked at.                             *)
IsWrongSt0(n, b) == n = 1 /\ b = "error" /\ stage = "seek"

(* The tests on the n-th byte: st0, and for a read st1, st2 and bps.       *)
IsWrong(n, b) ==
    \/ n = 1 /\ b = "error"
    \/ stage = "read" /\ n \in {2, 3} /\ b # "zero"
    \/ stage = "read" /\ n = 7 /\ b # "two"

ReadPort ==
    /\ taken < Expected[stage]
    /\ Goto("answer", "answer")
    /\ \E b \in PortReads : wrong' = (wrong \/ IsWrong(taken + 1, b))
    /\ taken' = taken + 1
    /\ IF phase = "result"
       THEN /\ fifo' = Tail(fifo)
            /\ phase' = IF Len(fifo) = 1 THEN "ready" ELSE "result"
       ELSE UNCHANGED <<fifo, phase>>
    /\ UNCHANGED <<stage, call, try, irq, idle_ticks, reading,
                   seeking, head, seekEnd, floppy_buffer>>

Answered == taken = Expected[stage]

(* Bug: the number of attempts is not limited.                             *)
RetryForEver ==
    /\ Answered /\ wrong
    /\ Goto("answer", "prepare")
    /\ try' = try + 1
    /\ UNCHANGED <<stage, call, result, irq, idle_ticks, drive>>

Retry ==
    /\ Answered /\ wrong
    /\ try < Retries - 1
    /\ Goto("answer", "prepare")
    /\ try' = try + 1
    /\ UNCHANGED <<stage, call, result, irq, idle_ticks, drive>>

GiveUp ==
    /\ Answered /\ wrong
    /\ try = Retries - 1
    /\ Goto("answer", "idle")
    /\ status' = 1
    /\ UNCHANGED <<stage, lba, data, try, result, irq, idle_ticks,
                   drive>>

SeekSucceeds ==
    /\ Answered /\ ~wrong
    /\ stage = "seek"
    /\ Goto("answer", "prepare")
    /\ stage' = "read"
    /\ try' = 0
    /\ UNCHANGED <<call, result, irq, idle_ticks, drive>>

(* floppy_execute returns 0 and the sector is copied to the caller.        *)
ReadSucceeds ==
    /\ Answered /\ ~wrong
    /\ stage = "read"
    /\ Goto("answer", "idle")
    /\ status' = 0
    /\ data' = floppy_buffer
    /\ UNCHANGED <<stage, lba, try, result, irq, idle_ticks, drive>>

Driver ==
    \/ Prepare
    \/ Command
    \/ WaitMaxTime
    \/ KeepWaiting
    \/ Halt
    \/ StopWaiting
    \/ Sense
    \/ ReadPort
    \/ Retry
    \/ GiveUp
    \/ SeekSucceeds
    \/ ReadSucceeds

-----------------------------------------------------------------------------
(* The controller and the interrupts                                       *)

Wake == pc' = IF pc = "asleep" THEN "test" ELSE pc

(* Bug: the handler only records an interrupt that finds the kernel asleep.*)
RaiseIfAsleep ==
    /\ interrupt_called' = (irq_handler = "sleep" /\ pc = "asleep")
    /\ UNCHANGED <<irq_handler, old_handler, interrupt_called_ready>>
    /\ Wake

(* IRQ 6: sleep_interrupt_irq, or the message of i686_irq_handler.         *)
Raise ==
    /\ interrupt_called' = (interrupt_called \/ irq_handler = "sleep")
    /\ UNCHANGED <<irq_handler, old_handler, interrupt_called_ready>>
    /\ Wake

SeekDone ==
    /\ seeking # None
    /\ \/ seekEnd' = "zero" /\ head' = seeking
       \/ seekEnd' = "error" /\ head' = None
    /\ seeking' = None
    /\ Raise
    /\ UNCHANGED <<stage, call, try, result, cpu, idle_ticks, phase,
                   fifo, reading, floppy_buffer>>

(* A read that fails says so in st0 and in st1 or st2.                     *)
Failures == {<<"error", "error", "zero">>, <<"error", "zero", "error">>}

ReadDone ==
    /\ phase = "busy"
    /\ phase' = "result"
    /\ \/ /\ head = reading
          /\ floppy_buffer' = reading
          /\ fifo' = <<"zero", "zero", "zero">>
                        \o <<"address", "address", "address", "two">>
       \/ /\ floppy_buffer' = None
          /\ \E st \in Failures :
                fifo' = st \o <<"address", "address", "address", "two">>
    /\ Raise
    /\ UNCHANGED <<stage, call, try, result, cpu, idle_ticks, reading,
                   seeking, head, seekEnd>>

DriveWorks == seeking # None \/ phase = "busy"

(* irq_idle: idle_ticks counts on below 0 (not further than -1 here). The  *)
(* tick may leave the CPU to someone else. While the kernel has it, 50 ms  *)
(* are enough for a step of the driver between two ticks.                  *)
TickTo(kernel) ==
    /\ kernel \/ Users
    /\ kernelRuns => stepped \/ pc \in {"idle", "asleep"}
    /\ stepped' = FALSE
    /\ ~Late => ~(DriveWorks /\ idle_ticks = 1)
    /\ kernelRuns' = kernel
    /\ idle_ticks' = IF idle_ticks = -1 THEN -1 ELSE idle_ticks - 1
    /\ Wake
    /\ UNCHANGED <<stage, call, try, result, irq, drive>>

Next ==
    \/ \E l \in Lba : ReadSector(l)
    \/ Driver
    \/ SeekDone
    \/ ReadDone
    \/ \E kernel \in BOOLEAN : TickTo(kernel)

Spec == Init /\ [][Next]_vars

(* The timer does not stop, and the scheduler comes back to the kernel     *)
(* (Scheduler!KernelRuns), which then makes progress before the next tick. *)
CpuFairness == WF_vars(TickTo(TRUE)) /\ SF_vars(Driver)

(* A drive that may be dead, or absent.                                    *)
DeadSpec == Spec /\ CpuFairness

(* A drive that finishes what it has accepted.                             *)
FairSpec == Spec /\ CpuFairness /\ WF_vars(SeekDone) /\ WF_vars(ReadDone)

-----------------------------------------------------------------------------
(* A read that reports success has brought the sector that was asked for.  *)
(* Three places decide this together: the interrupt that ends the wait,    *)
(* the result bytes, and the retries after a seek or a read that failed.   *)
(* "(success) read head %i, cylinder %i, sector %i." (floppy.c:309).       *)
SuccessIsData == pc = "idle" /\ status = 0 => data = lba

(* Between two reads the interrupt line has the handler it had before the  *)
(* first: no retry leaves sleep_interrupt_irq installed or saves it as the *)
(* old handler (irq.c:71-100).                                             *)
HandlerRestored ==
    /\ pc = "idle" => irq_handler = "null" /\ ~interrupt_called_ready
    /\ interrupt_called_ready => old_handler = "null" /\ irq_handler = "sleep"

(* Every read returns, with the sector or with an error: an interrupt that *)
(* comes before the hlt does not leave the driver asleep, and a drive that *)
(* does not answer is given up ("Floppy execution: failed 5 retries.",     *)
(* floppy.c:397).                                                          *)
ReadReturns == pc # "idle" ~> pc = "idle"
=============================================================================
