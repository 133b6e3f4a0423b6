----------------------------- MODULE Scheduler -----------------------------
(***************************************************************************)
(* The preemptive scheduler of CrypthantusOS: hal/scheduler.c, the timer   *)
(* interrupt that drives it (arch/i686/irq.c, isr.asm), the exit system    *)
(* call (hal/handler.c) and the user entry stub (io.asm).                  *)
(*                                                                         *)
(* A REGISTERS structure is abstracted to three things: whose code and     *)
(* stack it points to (owner: eip, cs, esp, eflags, eax at entry), how far *)
(* that computation has got (pc), and whose values its general registers   *)
(* hold (general: ebp, ebx, ecx, edx, edi, esi, cr0..cr4).                 *)
(***************************************************************************)
EXTENDS Integers

CONSTANTS
    MAX_THREADS,    \* scheduler.c:12 (10 in the build)
    Steps,          \* bound: the places a computation goes round in
    TickInTail      \* may the timer fire between irq_idle's sti and iret?

ASSUME SchedulerAssumption ==
    /\ MAX_THREADS \in Nat \ {0}
    /\ Steps \in Nat \ {0}
    /\ TickInTail \in BOOLEAN

Slot    == 0 .. MAX_THREADS - 1
Kernel  == -1   \* cur_running_process when the kernel runs
Handler == -2   \* owner of a context caught inside the timer handler
Zero    == -3   \* owner of registers that memset has cleared

(* PROCESS_THREAD is never set: preempt's first test (scheduler.c:76, and  *)
(* with it the counter `ticks') never keeps a process on the CPU.          *)
Flag == {"PRESENT", "PRIO"}

Start  == 0             \* first instruction
Exited == Steps + 1     \* in user_entry's .loop_wait, after syscall 0

Owner   == Slot \cup {Kernel, Handler, Zero}
Context == [owner : Owner, pc : 0 .. Exited, general : Owner]

ZeroRegs == [owner |-> Zero, pc |-> Start, general |-> Zero]
TailRegs == [owner |-> Handler, pc |-> Start, general |-> Handler]

VARIABLES
    processes,              \* flags of each slot
    pcbs,                   \* saved registers of each slot, and `valid'
    kernel_pcb,             \* saved registers of the kernel
    cur_running_process,
    regs,                   \* the registers: of the CPU, or of the trap
                            \* frame that iret is about to restore
    intr,                   \* IF in eflags
    mode,                   \* "run", or "tail": in the timer handler, after
                            \* its sti and before its iret
    preempt_handler         \* has the first process registered preempt?

vars == <<processes, pcbs, kernel_pcb, cur_running_process, regs, intr, mode,
          preempt_handler>>

Present == {p \in Slot : "PRESENT" \in processes[p]}

TypeOK ==
    /\ processes \in [Slot -> SUBSET Flag]
    /\ pcbs \in [Slot -> [regs : Context, valid : BOOLEAN]]
    /\ kernel_pcb \in Context
    /\ cur_running_process \in Slot \cup {Kernel}
    /\ regs \in Context
    /\ intr \in BOOLEAN
    /\ mode \in {"run", "tail"}
    /\ preempt_handler \in BOOLEAN

Init ==
    /\ processes = [p \in Slot |-> {}]
    /\ pcbs = [p \in Slot |-> [regs |-> ZeroRegs, valid |-> FALSE]]
    /\ kernel_pcb = ZeroRegs
    /\ cur_running_process = Kernel
    /\ regs = [owner |-> Kernel, pc |-> Start, general |-> Kernel]
    /\ intr = TRUE
    /\ mode = "run"
    /\ preempt_handler = FALSE

-----------------------------------------------------------------------------
(* Bug: the scan starts at slot 0, not at i.                               *)
FindProcessFromZero(i, S) ==
    CHOOSE r \in Slot \cup {Kernel} :
        \/ r \in S /\ \A s \in S : r <= s
        \/ r = -1 /\ S = {}

(* find_process(i, ..): the first slot of S that is not below i, or -1.    *)
FindProcess(i, S) ==
    CHOOSE r \in Slot \cup {Kernel} :
        \/ r \in S /\ r >= i /\ \A s \in S : s >= i => r <= s
        \/ r = -1 /\ \A s \in S : s < i

Advance(k) == IF k < Steps THEN k + 1 ELSE 1

(* The computation that has the CPU executes: the kernel's shell, or the   *)
(* user function of a process. Any system call except 0 is such a step.    *)
Work ==
    /\ mode = "run"
    /\ regs.owner = cur_running_process
    /\ regs.pc # Exited
    /\ regs' = [owner |-> regs.owner, pc |-> Advance(regs.pc),
                general |-> regs.owner]
    /\ UNCHANGED <<processes, pcbs, kernel_pcb, cur_running_process, intr,
                   mode, preempt_handler>>

(* The shell waits for input: sti; hlt.                                    *)
KernelWait ==
    /\ mode = "run"
    /\ cur_running_process = Kernel
    /\ ~intr
    /\ intr' = TRUE
    /\ UNCHANGED <<processes, pcbs, kernel_pcb, cur_running_process, regs,
                   mode, preempt_handler>>

(* hal_create_user_process with a free slot. Interrupts are off from its   *)
(* first statement to its last.                                            *)
CreateUserProcess(prio) ==
    LET idx == FindProcess(0, Slot \ Present) IN
    /\ mode = "run"
    /\ cur_running_process = Kernel
    /\ idx # -1
    /\ processes' = [processes EXCEPT ![idx] =
                        @ \cup {"PRESENT"} \cup IF prio THEN {"PRIO"} ELSE {}]
    /\ pcbs' = [pcbs EXCEPT ![idx] =
                   [regs |-> [@.regs EXCEPT !.owner = idx, !.pc = Start],
                    valid |-> FALSE]]
    /\ preempt_handler' = TRUE
    /\ intr' = TRUE
    /\ UNCHANGED <<kernel_pcb, cur_running_process, regs, mode>>

(* hal_create_user_process with a full table: it returns 0 with interrupts *)
(* still off.                                                              *)
CreateFails ==
    /\ mode = "run"
    /\ cur_running_process = Kernel
    /\ Present = Slot
    /\ intr' = FALSE
    /\ UNCHANGED <<processes, pcbs, kernel_pcb, cur_running_process, regs,
                   mode, preempt_handler>>

(* System call 0, issued by user_entry when the user function returns:     *)
(* hal_remove_current_process, then .loop_wait.                            *)
Exit ==
    LET p == cur_running_process IN
    /\ mode = "run"
    /\ p # Kernel
    /\ regs.owner = p
    /\ regs.pc # Exited
    /\ processes' = [processes EXCEPT ![p] = @ \ {"PRESENT"}]
    /\ pcbs' = [pcbs EXCEPT ![p].regs = ZeroRegs]
    /\ regs' = [regs EXCEPT !.pc = Exited]
    /\ UNCHANGED <<kernel_pcb, cur_running_process, intr, mode,
                   preempt_handler>>

-----------------------------------------------------------------------------
(* preempt, part by part. `frame' is the interrupted context.              *)

(* Bug: the frame of a removed process is saved too.                       *)
SavedPcbsRemoved(frame) ==
    IF cur_running_process # Kernel
    THEN [pcbs EXCEPT ![cur_running_process].regs = frame]
    ELSE pcbs

(* Bug: the copy goes over the whole PCB, not over its registers.          *)
SavedPcbsWhole(frame) ==
    IF cur_running_process \in Present
    THEN [pcbs EXCEPT ![cur_running_process] = frame]
    ELSE pcbs

(* scheduler.c:82: a process that has been removed is not saved.           *)
SavedPcbs(frame) ==
    IF cur_running_process \in Present
    THEN [pcbs EXCEPT ![cur_running_process].regs = frame]
    ELSE pcbs

(* Bug: the kernel is saved once, at the first switch.                     *)
SavedKernelPcbOnce(frame) ==
    IF cur_running_process = Kernel /\ kernel_pcb.owner = Zero
    THEN frame ELSE kernel_pcb

SavedKernelPcb(frame) ==
    IF cur_running_process = Kernel THEN frame ELSE kernel_pcb

(* Bug: the valid flag is not looked at.                                   *)
FirstRegsAlways(pcb, frame) == [pcb.regs EXCEPT !.general = frame.general]

(* scheduler.c:102: the first dispatch completes the registers the creator *)
(* has not set, from the interrupted context.                              *)
FirstRegs(pcb, frame) ==
    IF pcb.valid THEN pcb.regs ELSE [pcb.regs EXCEPT !.general = frame.general]

NextProcess == FindProcess(cur_running_process + 1, Present)

(* Nobody else to run (then the kernel runs and no process is present):    *)
(* the interrupted context is saved, and resumed as it is.                 *)
PreemptSame(frame) ==
    /\ NextProcess = cur_running_process
    /\ pcbs' = SavedPcbs(frame)
    /\ kernel_pcb' = SavedKernelPcb(frame)
    /\ UNCHANGED <<cur_running_process, regs>>

PreemptToKernel(frame) ==
    /\ NextProcess = Kernel
    /\ cur_running_process # Kernel
    /\ pcbs' = SavedPcbs(frame)
    /\ kernel_pcb' = SavedKernelPcb(frame)
    /\ cur_running_process' = Kernel
    /\ regs' = kernel_pcb'

PreemptToProcess(frame) ==
    LET next == NextProcess
        new  == FirstRegs(SavedPcbs(frame)[next], frame)
    IN  /\ next \notin {Kernel, cur_running_process}
        /\ pcbs' = [SavedPcbs(frame) EXCEPT ![next] =
                       [regs |-> new, valid |-> TRUE]]
        /\ kernel_pcb' = SavedKernelPcb(frame)
        /\ cur_running_process' = next
        /\ regs' = new

Preempt(frame) ==
    \/ PreemptSame(frame)
    \/ PreemptToKernel(frame)
    \/ PreemptToProcess(frame)

(* irq_idle up to its sti. Without preempt it only counts, and counters    *)
(* are not part of this module (Floppy.tla has idle_ticks).                *)
TimerTick ==
    /\ mode = "run"
    /\ intr
    /\ preempt_handler
    /\ Preempt(regs)
    /\ mode' = "tail"
    /\ UNCHANGED <<processes, intr, preempt_handler>>

(* After the EOI and before the iret the handler itself can be             *)
(* interrupted: preempt then takes the handler's context for the context   *)
(* of the process it has just dispatched.                                  *)
NestedTick ==
    /\ TickInTail
    /\ mode = "tail"
    /\ Preempt(TailRegs)
    /\ UNCHANGED <<processes, intr, mode, preempt_handler>>

(* isr_com pops the frame and executes iret.                               *)
Iret ==
    /\ mode = "tail"
    /\ mode' = "run"
    /\ UNCHANGED <<processes, pcbs, kernel_pcb, cur_running_process, regs,
                   intr, preempt_handler>>

Next ==
    \/ Work
    \/ KernelWait
    \/ \E prio \in BOOLEAN : CreateUserProcess(prio)
    \/ CreateFails
    \/ Exit
    \/ TimerTick
    \/ NestedTick
    \/ Iret

Spec == Init /\ [][Next]_vars

(* The PIT never stops and the PIC latches a tick that arrives while IF is *)
(* clear, so ticks that are enabled again and again are delivered; a       *)
(* handler returns; and after a failed creation the shell goes back to     *)
(* scanf, which executes sti; hlt.                                         *)
Fairness == SF_vars(TimerTick) /\ WF_vars(Iret) /\ WF_vars(KernelWait)

FairSpec == Spec /\ Fairness

-----------------------------------------------------------------------------
(* Safety.                                                                 *)

(* ctx is a context of c, and holds c's own registers once c has run.      *)
Own(ctx, c) ==
    /\ ctx.owner = c
    /\ ctx.pc \in 1 .. Steps => ctx.general = c

(* Nobody is ever resumed from, or saved as, somebody else: the CPU runs   *)
(* the context of cur_running_process, kernel_pcb holds the kernel while a *)
(* process runs, and the PCB of every waiting process holds that process,  *)
(* not yet validated only if it has never run. This is about the copies in *)
(* preempt (scheduler.c:82-121), which all go through one trap frame.      *)
OwnContext ==
    /\ Own(regs, cur_running_process)
    /\ cur_running_process # Kernel =>
          /\ Own(kernel_pcb, Kernel)
          /\ pcbs[cur_running_process].valid
    /\ \A p \in Present \ {cur_running_process} :
          /\ Own(pcbs[p].regs, p)
          /\ ~pcbs[p].valid => pcbs[p].regs.pc = Start

(* A process that has ended is never saved, so nothing can resume it:      *)
(* "wait until this process is pre-empted so that it will never run again" *)
(* (io.asm:86).                                                            *)
ExitedNeverSaved ==
    /\ \A p \in Slot : pcbs[p].regs.pc # Exited
    /\ kernel_pcb.pc # Exited

(* Refinement: where each computation stands, read off the place its       *)
(* context is kept in.                                                     *)
Lost == Steps + 3       \* the context kept for c is not one of c

PlaceIn(ctx, c) == IF ctx.owner = c THEN ctx.pc ELSE Lost

Place == [c \in Slot \cup {Kernel} |->
    IF c = cur_running_process THEN PlaceIn(regs, c)
    ELSE IF c = Kernel THEN PlaceIn(kernel_pcb, c)
    ELSE IF c \in Present THEN PlaceIn(pcbs[c].regs, c)
    ELSE Steps + 2]

TS == INSTANCE TimeSharing
          WITH live <- Present, running <- cur_running_process, at <- Place

(* The saving and restoring of trap frames implements time sharing: no     *)
(* computation advances, goes back or disappears while another one has the *)
(* CPU, and no live slot is passed over (preempt, scheduler.c:74-125).     *)
ImplementsTimeSharing == TS!Spec

-----------------------------------------------------------------------------
(* Liveness.                                                               *)

(* Every process that is present gets the CPU, or has ended.               *)
EveryProcessRuns ==
    \A p \in Slot : p \in Present ~> (cur_running_process = p \/ p \notin Present)

(* The kernel, and with it the shell, always gets the CPU back.            *)
KernelRuns == []<>(cur_running_process = Kernel /\ mode = "run")
=============================================================================
