-------------------------- MODULE SchedulerProofs --------------------------
(***************************************************************************)
(* Proofs about Scheduler.tla for every number of slots and every Steps.   *)
(***************************************************************************)
EXTENDS Scheduler, WellFoundedInduction, TLAPS

(* A non-empty set of slots has a smallest element.                        *)
LEMMA SmallestSlot ==
    ASSUME NEW S \in SUBSET Nat, S # {}
    PROVE  \E r \in S : \A s \in S : r <= s
<1> DEFINE R == OpToRel(<, Nat)
<1>1. IsWellFoundedOn(R, Nat)
  BY NatLessThanWellFounded
<1>2. PICK r \in S : \A s \in S : ~(<<s, r>> \in R)
  <2> HIDE DEF R
  <2> QED BY <1>1, WFMin
<1>3. \A s \in S : s < r => <<s, r>> \in R
  BY DEF OpToRel
<1>4. \A s \in S : ~(s < r)
  <2> HIDE DEF R
  <2> QED BY <1>2, <1>3
<1>5. \A s \in S : s \in Nat
  OBVIOUS
<1>6. \A s \in S : r <= s
  BY <1>4, <1>5, r \in S
<1> QED BY <1>6

(* find_process returns a slot of S at or after i, with none skipped, or   *)
(* -1 exactly when S has none.                                             *)
LEMMA FindProcessSpec ==
    ASSUME NEW S \in SUBSET Slot, NEW i \in Int
    PROVE  LET r == FindProcess(i, S) IN
           /\ r \in Slot \cup {Kernel}
           /\ \/ r \in S /\ r >= i /\ \A s \in S : s >= i => r <= s
              \/ r = -1 /\ \A s \in S : s < i
<1> DEFINE Q(r) == \/ r \in S /\ r >= i /\ \A s \in S : s >= i => r <= s
                   \/ r = -1 /\ \A s \in S : s < i
<1> DEFINE T == {s \in S : s >= i}
<1>1. \E r \in Slot \cup {Kernel} : Q(r)
  <2>1. CASE T = {}
    <3>1. Q(-1)
      BY <2>1, SchedulerAssumption DEF SchedulerAssumption, Slot
    <3> QED BY <3>1 DEF Kernel
  <2>2. CASE T # {}
    <3>1. T \in SUBSET Nat
      <4>1. Slot \subseteq Nat
        BY SchedulerAssumption DEF SchedulerAssumption, Slot
      <4> QED BY <4>1
    <3>2. PICK r \in T : \A s \in T : r <= s
      BY <2>2, <3>1, SmallestSlot
    <3>3. Q(r)
      BY <3>2
    <3> QED BY <3>2, <3>3
  <2> QED BY <2>1, <2>2
<1>2. FindProcess(i, S) = CHOOSE r \in Slot \cup {Kernel} : Q(r)
  BY DEF FindProcess
<1> HIDE DEF Q
<1>3. LET r == FindProcess(i, S) IN r \in Slot \cup {Kernel} /\ Q(r)
  BY <1>1, <1>2
<1> QED BY <1>3 DEF Q

USE DEF Kernel, Handler, Zero

-----------------------------------------------------------------------------
(* Type correctness.                                                       *)

LEMMA ContextFacts ==
    /\ ZeroRegs \in Context
    /\ TailRegs \in Context
    /\ Start \in 0 .. Exited
    /\ Exited \in 0 .. Exited
    /\ \A k \in 0 .. Exited : k # Exited => Advance(k) \in 1 .. Steps
    /\ 1 .. Steps \subseteq 0 .. Exited
    /\ Slot \subseteq Owner
    /\ Slot \subseteq Nat
    /\ Kernel \in Owner
BY SchedulerAssumption
   DEF SchedulerAssumption, ZeroRegs, TailRegs, Context, Owner, Start, Exited,
       Advance, Slot

(* The slot that gets the CPU next, as preempt computes it.                *)
LEMMA NextProcessSpec ==
    ASSUME TypeOK
    PROVE  /\ NextProcess \in Slot \cup {Kernel}
           /\ NextProcess # Kernel => NextProcess \in Present
           /\ \/ /\ NextProcess \in Present
                 /\ NextProcess > cur_running_process
                 /\ \A s \in Present :
                       s > cur_running_process => NextProcess <= s
              \/ /\ NextProcess = Kernel
                 /\ \A s \in Present : s <= cur_running_process
<1>1. Present \in SUBSET Slot
  BY DEF Present
<1>2. /\ cur_running_process \in Int
      /\ cur_running_process + 1 \in Int
      /\ \A s \in Present : s \in Nat
  BY <1>1, ContextFacts DEF TypeOK
<1>3. /\ NextProcess \in Slot \cup {Kernel}
      /\ \/ /\ NextProcess \in Present
            /\ NextProcess >= cur_running_process + 1
            /\ \A s \in Present :
                  s >= cur_running_process + 1 => NextProcess <= s
         \/ /\ NextProcess = -1
            /\ \A s \in Present : s < cur_running_process + 1
  BY <1>1, <1>2, FindProcessSpec DEF NextProcess
<1> QED BY <1>2, <1>3, ContextFacts

(* What preempt leaves in the PCBs and in the frame is well formed.        *)
LEMMA PreemptTypes ==
    ASSUME TypeOK, NEW frame \in Context, Preempt(frame)
    PROVE  /\ pcbs' \in [Slot -> [regs : Context, valid : BOOLEAN]]
           /\ kernel_pcb' \in Context
           /\ cur_running_process' \in Slot \cup {Kernel}
           /\ regs' \in Context
<1>1. SavedPcbs(frame) \in [Slot -> [regs : Context, valid : BOOLEAN]]
  BY DEF TypeOK, SavedPcbs
<1>2. SavedKernelPcb(frame) \in Context
  BY DEF TypeOK, SavedKernelPcb
<1>3. CASE PreemptSame(frame)
  BY <1>1, <1>2, <1>3 DEF PreemptSame, TypeOK
<1>4. CASE PreemptToKernel(frame)
  BY <1>1, <1>2, <1>4 DEF PreemptToKernel, TypeOK
<1>5. CASE PreemptToProcess(frame)
  <2> DEFINE next == NextProcess
             new  == FirstRegs(SavedPcbs(frame)[next], frame)
  <2>1. next \in Slot
    BY <1>5, NextProcessSpec DEF PreemptToProcess
  <2>2. new \in Context
    BY <1>1, <2>1 DEF FirstRegs, Context
  <2>3. [regs |-> new, valid |-> TRUE] \in [regs : Context, valid : BOOLEAN]
    BY <2>2
  <2>4. /\ pcbs' = [SavedPcbs(frame) EXCEPT ![next] =
                       [regs |-> new, valid |-> TRUE]]
        /\ kernel_pcb' = SavedKernelPcb(frame)
        /\ cur_running_process' = next
        /\ regs' = new
    BY <1>5 DEF PreemptToProcess
  <2> HIDE DEF next, new
  <2> QED BY <1>1, <1>2, <2>1, <2>2, <2>3, <2>4
<1> QED BY <1>3, <1>4, <1>5 DEF Preempt

LEMMA TypeInit == Init => TypeOK
<1> SUFFICES ASSUME Init PROVE TypeOK
  OBVIOUS
<1>1. regs \in Context
  BY ContextFacts DEF Init, Context
<1>2. pcbs \in [Slot -> [regs : Context, valid : BOOLEAN]]
  BY ContextFacts DEF Init
<1>3. processes \in [Slot -> SUBSET Flag]
  BY DEF Init
<1> QED BY <1>1, <1>2, <1>3, ContextFacts DEF Init, TypeOK

LEMMA TypeStep == TypeOK /\ [Next]_vars => TypeOK'
<1> SUFFICES ASSUME TypeOK, [Next]_vars PROVE TypeOK'
  OBVIOUS
<1>1. CASE Work
  BY <1>1, ContextFacts DEF Work, TypeOK, Context
<1>2. CASE KernelWait
  BY <1>2 DEF KernelWait, TypeOK
<1>3. ASSUME NEW prio \in BOOLEAN, CreateUserProcess(prio) PROVE TypeOK'
  <2> DEFINE idx == FindProcess(0, Slot \ Present)
             new == [pcbs[idx].regs EXCEPT !.owner = idx, !.pc = Start]
  <2>1. idx \in Slot
    <3>1. idx \in Slot \cup {Kernel}
      BY FindProcessSpec
    <3> QED BY <3>1, <1>3 DEF CreateUserProcess
  <2>2. new \in Context
    BY <2>1, ContextFacts DEF TypeOK, Context
  <2>3. pcbs' = [pcbs EXCEPT ![idx] = [regs |-> new, valid |-> FALSE]]
    BY <1>3 DEF CreateUserProcess
  <2>4. pcbs' \in [Slot -> [regs : Context, valid : BOOLEAN]]
    <3> HIDE DEF idx, new
    <3> QED BY <2>1, <2>2, <2>3 DEF TypeOK
  <2>5. processes' \in [Slot -> SUBSET Flag]
    <3>1. PICK F \in SUBSET Flag : processes' = [processes EXCEPT ![idx] = @ \cup F]
      <4>1. {"PRESENT"} \cup (IF prio THEN {"PRIO"} ELSE {}) \in SUBSET Flag
        BY DEF Flag
      <4>2. processes' = [processes EXCEPT ![idx] =
                @ \cup ({"PRESENT"} \cup (IF prio THEN {"PRIO"} ELSE {}))]
        BY <1>3 DEF CreateUserProcess
      <4> QED BY <4>1, <4>2
    <3> QED BY <2>1, <3>1 DEF TypeOK
  <2> QED BY <1>3, <2>4, <2>5 DEF CreateUserProcess, TypeOK
<1>4. CASE CreateFails
  BY <1>4 DEF CreateFails, TypeOK
<1>5. CASE Exit
  <2>1. cur_running_process \in Slot
    BY <1>5 DEF Exit, TypeOK
  <2>2. processes' \in [Slot -> SUBSET Flag]
    BY <1>5, <2>1 DEF Exit, TypeOK
  <2>3. pcbs' \in [Slot -> [regs : Context, valid : BOOLEAN]]
    BY <1>5, <2>1, ContextFacts DEF Exit, TypeOK
  <2>4. regs' \in Context
    BY <1>5, ContextFacts DEF Exit, TypeOK, Context
  <2> QED BY <1>5, <2>2, <2>3, <2>4 DEF Exit, TypeOK
<1>6. CASE TimerTick
  BY <1>6, PreemptTypes DEF TimerTick, TypeOK
<1>7. CASE NestedTick
  BY <1>7, PreemptTypes, ContextFacts DEF NestedTick, TypeOK
<1>8. CASE Iret
  BY <1>8 DEF Iret, TypeOK
<1>9. CASE UNCHANGED vars
  BY <1>9 DEF vars, TypeOK
<1> QED BY <1>1, <1>2, <1>3, <1>4, <1>5, <1>6, <1>7, <1>8, <1>9 DEF Next

(* Every variable keeps its type.                                          *)
THEOREM TypeCorrect == Spec => []TypeOK
BY TypeInit, TypeStep, PTL DEF Spec

-----------------------------------------------------------------------------
(* A removed process is never saved. The strengthening says who can be     *)
(* Exited at all: only the context in the CPU, and then its process is no  *)
(* longer present.                                                         *)
ExitedInv ==
    /\ TypeOK
    /\ ExitedNeverSaved
    /\ cur_running_process \in Present \cup {Kernel} => regs.pc # Exited

LEMMA ExitedPreempt ==
    ASSUME ExitedInv, NEW frame \in Context, Preempt(frame),
           UNCHANGED processes,
           cur_running_process \in Present \cup {Kernel} => frame.pc # Exited
    PROVE  /\ ExitedNeverSaved'
           /\ cur_running_process' \in Present' \cup {Kernel} =>
                 regs'.pc # Exited
<1> USE DEF ExitedInv
<1>1. Present' = Present
  BY DEF Present
<1>2. \A p \in Slot : SavedPcbs(frame)[p].regs.pc # Exited
  BY DEF SavedPcbs, ExitedNeverSaved, TypeOK
<1>3. SavedKernelPcb(frame).pc # Exited
  BY DEF SavedKernelPcb, ExitedNeverSaved
<1>4. SavedPcbs(frame) \in [Slot -> [regs : Context, valid : BOOLEAN]]
  BY DEF TypeOK, SavedPcbs
<1>5. CASE PreemptSame(frame)
  BY <1>1, <1>2, <1>3, <1>5 DEF PreemptSame, ExitedNeverSaved
<1>6. CASE PreemptToKernel(frame)
  BY <1>2, <1>3, <1>6 DEF PreemptToKernel, ExitedNeverSaved
<1>7. CASE PreemptToProcess(frame)
  <2> DEFINE next == NextProcess
             new  == FirstRegs(SavedPcbs(frame)[next], frame)
  <2>1. next \in Slot
    BY <1>7, NextProcessSpec DEF PreemptToProcess
  <2>2. new.pc # Exited
    BY <1>2, <1>4, <2>1 DEF FirstRegs, Context
  <2>3. /\ pcbs' = [SavedPcbs(frame) EXCEPT ![next] =
                       [regs |-> new, valid |-> TRUE]]
        /\ kernel_pcb' = SavedKernelPcb(frame)
        /\ regs' = new
    BY <1>7 DEF PreemptToProcess
  <2> HIDE DEF next, new
  <2>4. \A p \in Slot : pcbs'[p].regs.pc # Exited
    BY <1>2, <1>4, <2>1, <2>2, <2>3
  <2> QED BY <1>3, <2>2, <2>3, <2>4 DEF ExitedNeverSaved
<1> QED BY <1>5, <1>6, <1>7 DEF Preempt

LEMMA ExitedInit == Init => ExitedInv
<1>1. Init => TypeOK
  BY TypeInit
<1> QED BY <1>1, SchedulerAssumption
        DEF Init, ExitedInv, ExitedNeverSaved, ZeroRegs, Start, Exited,
            SchedulerAssumption

LEMMA ExitedStep == ExitedInv /\ [Next]_vars => ExitedInv'
<1> SUFFICES ASSUME ExitedInv, [Next]_vars PROVE ExitedInv'
  OBVIOUS
<1>0. TypeOK /\ TypeOK'
  BY TypeStep DEF ExitedInv
<1>1. CASE Work
  <2>1. Advance(regs.pc) # Exited
    BY <1>0, <1>1, SchedulerAssumption
       DEF Work, TypeOK, Context, Advance, Exited, SchedulerAssumption
  <2> QED BY <1>0, <1>1, <2>1 DEF Work, ExitedInv, ExitedNeverSaved, Present
<1>2. CASE KernelWait
  BY <1>0, <1>2 DEF KernelWait, ExitedInv, ExitedNeverSaved, Present
<1>3. ASSUME NEW prio \in BOOLEAN, CreateUserProcess(prio) PROVE ExitedInv'
  <2> DEFINE idx == FindProcess(0, Slot \ Present)
             new == [pcbs[idx].regs EXCEPT !.owner = idx, !.pc = Start]
  <2>1. idx \in Slot
    <3>1. idx \in Slot \cup {Kernel}
      BY FindProcessSpec
    <3> QED BY <3>1, <1>3 DEF CreateUserProcess
  <2>2. new.pc # Exited
    BY <2>1, <1>0, SchedulerAssumption
       DEF TypeOK, Context, Start, Exited, SchedulerAssumption
  <2>3. pcbs' = [pcbs EXCEPT ![idx] = [regs |-> new, valid |-> FALSE]]
    BY <1>3 DEF CreateUserProcess
  <2>4. \A p \in Slot : pcbs'[p].regs.pc # Exited
    <3> HIDE DEF idx, new
    <3> QED BY <1>0, <2>1, <2>2, <2>3 DEF TypeOK, ExitedInv, ExitedNeverSaved
  <2> QED BY <1>0, <1>3, <2>4
          DEF CreateUserProcess, ExitedInv, ExitedNeverSaved
<1>4. CASE CreateFails
  BY <1>0, <1>4 DEF CreateFails, ExitedInv, ExitedNeverSaved, Present
<1>5. CASE Exit
  <2>1. cur_running_process \in Slot
    BY <1>0, <1>5 DEF Exit, TypeOK
  <2>2. cur_running_process \notin Present'
    BY <1>0, <1>5, <2>1 DEF Exit, TypeOK, Present
  <2>3. ZeroRegs.pc # Exited
    BY SchedulerAssumption DEF ZeroRegs, Start, Exited, SchedulerAssumption
  <2>4. ExitedNeverSaved'
    BY <1>0, <1>5, <2>1, <2>3 DEF Exit, TypeOK, ExitedInv, ExitedNeverSaved
  <2>5. cur_running_process' \notin Present' \cup {Kernel}
    BY <1>5, <2>2 DEF Exit
  <2> QED BY <1>0, <2>4, <2>5 DEF ExitedInv
<1>6. CASE TimerTick
  <2>1. regs \in Context
    BY <1>0 DEF TypeOK
  <2> QED BY <1>0, <1>6, <2>1, ExitedPreempt DEF TimerTick, ExitedInv
<1>7. CASE NestedTick
  <2>1. TailRegs.pc # Exited
    BY SchedulerAssumption DEF TailRegs, Start, Exited, SchedulerAssumption
  <2> QED BY <1>0, <1>7, <2>1, ExitedPreempt, ContextFacts
          DEF NestedTick, ExitedInv
<1>8. CASE Iret
  BY <1>0, <1>8 DEF Iret, ExitedInv, ExitedNeverSaved, Present
<1>9. CASE UNCHANGED vars
  BY <1>0, <1>9 DEF vars, ExitedInv, ExitedNeverSaved, Present
<1> QED BY <1>1, <1>2, <1>3, <1>4, <1>5, <1>6, <1>7, <1>8, <1>9 DEF Next

(* "... so that it will never run again" (io.asm:86): no saved context is  *)
(* that of a process that has ended, also when timer interrupts nest.      *)
THEOREM ExitedStaysOut == Spec => []ExitedNeverSaved
<1>1. ExitedInv => ExitedNeverSaved
  BY DEF ExitedInv
<1> QED BY <1>1, ExitedInit, ExitedStep, PTL DEF Spec

-----------------------------------------------------------------------------
(* Context integrity. It holds as long as the timer does not interrupt its *)
(* own handler, so every statement below assumes ~TickInTail.              *)
OwnInv ==
    /\ ExitedInv
    /\ OwnContext
    /\ regs.pc = Exited => cur_running_process \notin Present \cup {Kernel}
    /\ cur_running_process \in Slot \ Present => regs.pc = Exited

(* What preempt reads when it dispatches: the copies it has just made and  *)
(* the ones it made before are all copies of their owner.                  *)
LEMMA SavedOwn ==
    ASSUME OwnInv
    PROVE  /\ SavedPcbs(regs) \in [Slot -> [regs : Context, valid : BOOLEAN]]
           /\ SavedKernelPcb(regs) \in Context
           /\ Own(SavedKernelPcb(regs), Kernel)
           /\ \A p \in Present :
                 /\ Own(SavedPcbs(regs)[p].regs, p)
                 /\ ~SavedPcbs(regs)[p].valid =>
                       SavedPcbs(regs)[p].regs.pc = Start
<1> USE DEF OwnInv, ExitedInv
<1>1. SavedPcbs(regs) \in [Slot -> [regs : Context, valid : BOOLEAN]]
  BY DEF TypeOK, SavedPcbs
<1>2. SavedKernelPcb(regs) \in Context
  BY DEF TypeOK, SavedKernelPcb
<1>3. Own(SavedKernelPcb(regs), Kernel)
  BY DEF SavedKernelPcb, OwnContext
<1>4. ASSUME NEW p \in Present
      PROVE  /\ Own(SavedPcbs(regs)[p].regs, p)
             /\ ~SavedPcbs(regs)[p].valid =>
                   SavedPcbs(regs)[p].regs.pc = Start
  <2>1. p \in Slot
    BY DEF Present
  <2>2. CASE p = cur_running_process
    <3>1. /\ SavedPcbs(regs)[p].regs = regs
          /\ SavedPcbs(regs)[p].valid = pcbs[p].valid
      BY <2>1, <2>2, <1>4 DEF SavedPcbs, TypeOK
    <3>2. pcbs[p].valid
      BY <2>1, <2>2, ContextFacts DEF OwnContext
    <3> QED BY <2>2, <3>1, <3>2 DEF OwnContext
  <2>3. CASE p # cur_running_process
    <3>1. SavedPcbs(regs)[p] = pcbs[p]
      BY <2>1, <2>3 DEF SavedPcbs, TypeOK
    <3> QED BY <2>3, <3>1 DEF OwnContext
  <2> QED BY <2>2, <2>3
<1> QED BY <1>1, <1>2, <1>3, <1>4

(* Preemption, seen from the outside: everybody who may run again is kept  *)
(* as it is, the one who runs next is in the CPU.                          *)
LEMMA PreemptOwn ==
    ASSUME OwnInv, Preempt(regs), UNCHANGED processes
    PROVE  /\ OwnContext'
           /\ cur_running_process' = NextProcess
           /\ cur_running_process' \in Present \cup {Kernel}
           /\ regs'.pc = (IF cur_running_process' = Kernel
                          THEN SavedKernelPcb(regs).pc
                          ELSE SavedPcbs(regs)[cur_running_process'].regs.pc)
           /\ kernel_pcb' = SavedKernelPcb(regs)
           /\ \A p \in Present : pcbs'[p].regs.pc = SavedPcbs(regs)[p].regs.pc
           /\ \A p \in Present : pcbs'[p].regs.owner = p
<1>0. TypeOK /\ Present' = Present /\ Present \subseteq Slot
  BY DEF OwnInv, ExitedInv, Present
<1>1. NextProcess \in Present \cup {Kernel}
  BY <1>0, NextProcessSpec
<1>2. /\ \A p \in Present : Own(SavedPcbs(regs)[p].regs, p)
      /\ Own(SavedKernelPcb(regs), Kernel)
  BY SavedOwn
<1>3. CASE PreemptSame(regs)
  <2>1. cur_running_process = Kernel
    <3>1. \A s \in Present : s \in Int
      BY <1>0, ContextFacts
    <3>2. cur_running_process \in Int
      BY <1>0, ContextFacts DEF TypeOK
    <3>3. ~(cur_running_process > cur_running_process)
      BY <3>2
    <3> QED BY <1>0, <1>3, <3>3, NextProcessSpec DEF PreemptSame
  <2>2. pcbs' = SavedPcbs(regs) /\ kernel_pcb' = regs /\ regs' = regs
    BY <1>3, <2>1 DEF PreemptSame, SavedKernelPcb
  <2>3. \A p \in Present : p # Kernel
    BY <1>0, ContextFacts
  <2>4. OwnContext'
    BY <1>0, <1>3, <2>1, <2>2, <2>3, SavedOwn
       DEF PreemptSame, OwnContext, OwnInv
  <2> QED BY <1>1, <1>2, <1>3, <2>1, <2>2, <2>4
          DEF PreemptSame, SavedKernelPcb, Own
<1>4. CASE PreemptToKernel(regs)
  <2>1. /\ cur_running_process' = Kernel
        /\ pcbs' = SavedPcbs(regs)
        /\ kernel_pcb' = SavedKernelPcb(regs)
        /\ regs' = SavedKernelPcb(regs)
        /\ NextProcess = Kernel
    BY <1>4 DEF PreemptToKernel
  <2>2. OwnContext'
    BY <1>0, <2>1, SavedOwn DEF OwnContext
  <2> QED BY <1>2, <2>1, <2>2 DEF Own
<1>5. CASE PreemptToProcess(regs)
  <2> DEFINE next == NextProcess
             new  == FirstRegs(SavedPcbs(regs)[next], regs)
  <2>1. next \in Present
    BY <1>0, <1>5, NextProcessSpec DEF PreemptToProcess
  <2>2. /\ pcbs' = [SavedPcbs(regs) EXCEPT ![next] =
                       [regs |-> new, valid |-> TRUE]]
        /\ kernel_pcb' = SavedKernelPcb(regs)
        /\ cur_running_process' = next
        /\ regs' = new
    BY <1>5 DEF PreemptToProcess
  <2>3. new.owner = next /\ new.pc = SavedPcbs(regs)[next].regs.pc
    BY <1>0, <2>1, SavedOwn DEF FirstRegs, Own, Context
  <2>4. Own(new, next)
    <3>1. CASE SavedPcbs(regs)[next].valid
      BY <2>1, <3>1, SavedOwn DEF FirstRegs
    <3>2. CASE ~SavedPcbs(regs)[next].valid
      <4>1. SavedPcbs(regs)[next].regs.pc = Start
        BY <2>1, <3>2, SavedOwn
      <4>2. new.pc \notin 1 .. Steps
        BY <2>3, <4>1 DEF Start
      <4> QED BY <2>3, <4>2 DEF Own
    <3> QED BY <3>1, <3>2
  <2>5. next # Kernel
    BY <1>0, <2>1, ContextFacts
  <2> HIDE DEF next, new
  <2>6. /\ pcbs'[next].regs = new
        /\ pcbs'[next].valid
        /\ \A p \in Present : p # next => pcbs'[p] = SavedPcbs(regs)[p]
    BY <1>0, <2>1, <2>2, SavedOwn
  <2>7. OwnContext'
    BY <1>0, <2>2, <2>4, <2>6, SavedOwn DEF OwnContext
  <2>8. \A p \in Present : /\ pcbs'[p].regs.pc = SavedPcbs(regs)[p].regs.pc
                           /\ pcbs'[p].regs.owner = p
    BY <1>2, <2>3, <2>6 DEF Own
  <2> QED BY <2>1, <2>2, <2>3, <2>5, <2>7, <2>8 DEF next
<1> QED BY <1>3, <1>4, <1>5 DEF Preempt

LEMMA OwnInit == Init => OwnInv
<1> SUFFICES ASSUME Init PROVE OwnInv
  OBVIOUS
<1>1. ExitedInv
  BY ExitedInit
<1>2. Present = {}
  BY DEF Init, Present
<1>3. cur_running_process = Kernel /\ Own(regs, Kernel) /\ regs.pc # Exited
  BY SchedulerAssumption
     DEF Init, Own, Start, Exited, SchedulerAssumption
<1>4. Kernel \notin Slot
  BY ContextFacts
<1> QED BY <1>1, <1>2, <1>3, <1>4 DEF OwnInv, OwnContext

LEMMA OwnStep ==
    ASSUME ~TickInTail
    PROVE  OwnInv /\ [Next]_vars => OwnInv'
<1> SUFFICES ASSUME OwnInv, [Next]_vars PROVE OwnInv'
  OBVIOUS
<1>0. TypeOK /\ TypeOK' /\ ExitedInv /\ ExitedInv' /\ Kernel \notin Slot
  BY ExitedStep, ContextFacts DEF OwnInv, ExitedInv
<1>1. CASE Work
  <2>1. regs'.pc \in 1 .. Steps /\ regs'.pc # Exited
    BY <1>0, <1>1, ContextFacts, SchedulerAssumption
       DEF Work, TypeOK, Context, Exited, SchedulerAssumption
  <2>2. Own(regs', cur_running_process)
    BY <1>1 DEF Work, Own
  <2>3. cur_running_process \in Present \cup {Kernel}
    BY <1>0, <1>1 DEF Work, OwnInv, TypeOK
  <2> QED BY <1>0, <1>1, <2>1, <2>2, <2>3
          DEF Work, OwnInv, OwnContext, Present
<1>2. CASE KernelWait
  BY <1>0, <1>2 DEF KernelWait, OwnInv, OwnContext, Present
<1>3. ASSUME NEW prio \in BOOLEAN, CreateUserProcess(prio) PROVE OwnInv'
  <2> DEFINE idx == FindProcess(0, Slot \ Present)
             new == [pcbs[idx].regs EXCEPT !.owner = idx, !.pc = Start]
  <2>1. idx \in Slot
    <3>1. idx \in Slot \cup {Kernel}
      BY FindProcessSpec
    <3> QED BY <3>1, <1>3 DEF CreateUserProcess
  <2>2. new.owner = idx /\ new.pc = Start
    BY <1>0, <2>1 DEF TypeOK, Context
  <2>3. Own(new, idx)
    BY <2>2 DEF Own, Start
  <2>4. /\ pcbs' = [pcbs EXCEPT ![idx] = [regs |-> new, valid |-> FALSE]]
        /\ cur_running_process = Kernel
        /\ UNCHANGED <<regs, cur_running_process, kernel_pcb>>
    BY <1>3 DEF CreateUserProcess
  <2>5. Present' = Present \cup {idx}
    <3>1. /\ "PRESENT" \in processes'[idx]
          /\ \A p \in Slot : p # idx => processes'[p] = processes[p]
      BY <1>0, <1>3, <2>1 DEF CreateUserProcess, TypeOK
    <3> QED BY <2>1, <3>1 DEF Present
  <2> HIDE DEF idx, new
  <2>6. \A p \in Present' : Own(pcbs'[p].regs, p)
                         /\ (~pcbs'[p].valid => pcbs'[p].regs.pc = Start)
    <3> SUFFICES ASSUME NEW p \in Present'
                 PROVE  /\ Own(pcbs'[p].regs, p)
                        /\ ~pcbs'[p].valid => pcbs'[p].regs.pc = Start
      OBVIOUS
    <3>1. p \in Slot
      BY DEF Present
    <3>2. CASE p = idx
      BY <1>0, <2>1, <2>2, <2>3, <2>4, <3>2 DEF TypeOK
    <3>3. CASE p # idx
      <4>1. pcbs'[p] = pcbs[p]
        BY <1>0, <2>1, <2>4, <3>1, <3>3 DEF TypeOK
      <4>2. p \in Present \ {cur_running_process}
        BY <1>0, <2>4, <2>5, <3>1, <3>3
      <4> QED BY <4>1, <4>2 DEF OwnInv, OwnContext
    <3> QED BY <3>2, <3>3
  <2> QED BY <1>0, <2>4, <2>6 DEF OwnInv, OwnContext
<1>4. CASE CreateFails
  BY <1>0, <1>4 DEF CreateFails, OwnInv, OwnContext, Present
<1>5. CASE Exit
  <2> DEFINE p == cur_running_process
  <2>1. p \in Slot /\ regs.owner = p
    BY <1>0, <1>5 DEF Exit, TypeOK
  <2>2. Present' = Present \ {p}
    <3>1. /\ "PRESENT" \notin processes'[p]
          /\ \A q \in Slot : q # p => processes'[q] = processes[q]
      BY <1>0, <1>5, <2>1 DEF Exit, TypeOK
    <3> QED BY <2>1, <3>1 DEF Present
  <2>3. regs'.pc = Exited /\ regs'.owner = p
    BY <1>0, <1>5, <2>1 DEF Exit, TypeOK, Context
  <2>4. Own(regs', p)
    BY <2>3, SchedulerAssumption DEF Own, Exited, SchedulerAssumption
  <2>5. /\ \A q \in Slot : q # p => pcbs'[q] = pcbs[q]
        /\ pcbs'[p].valid = pcbs[p].valid
        /\ UNCHANGED <<kernel_pcb, cur_running_process>>
    BY <1>0, <1>5, <2>1 DEF Exit, TypeOK
  <2>6. \A q \in Present' \ {p} : q \in Present \ {p} /\ q \in Slot
    BY <2>2 DEF Present
  <2>7. OwnContext'
    BY <2>1, <2>2, <2>4, <2>5, <2>6 DEF OwnInv, OwnContext
  <2> QED BY <1>0, <2>1, <2>2, <2>3, <2>5, <2>7 DEF OwnInv
<1>6. CASE TimerTick
  <2>1. Preempt(regs) /\ UNCHANGED processes
    BY <1>6 DEF TimerTick
  <2>2. OwnContext' /\ cur_running_process' \in Present' \cup {Kernel}
    BY <2>1, PreemptOwn DEF Present
  <2>3. regs'.pc # Exited
    BY <1>0, <2>2 DEF ExitedInv
  <2> QED BY <1>0, <2>2, <2>3 DEF OwnInv
<1>7. CASE NestedTick
  BY <1>7 DEF NestedTick
<1>8. CASE Iret
  BY <1>0, <1>8 DEF Iret, OwnInv, OwnContext, Present
<1>9. CASE UNCHANGED vars
  BY <1>0, <1>9 DEF vars, OwnInv, OwnContext, Present
<1> QED BY <1>1, <1>2, <1>3, <1>4, <1>5, <1>6, <1>7, <1>8, <1>9 DEF Next

(* No computation is ever resumed from another one's registers, for any    *)
(* number of slots, provided that the timer handler is not interrupted by  *)
(* the timer.                                                              *)
THEOREM ContextIntegrity ==
    ASSUME ~TickInTail
    PROVE  Spec => []OwnContext
<1>1. OwnInv => OwnContext
  BY DEF OwnInv
<1> QED BY <1>1, OwnInit, OwnStep, PTL DEF Spec

-----------------------------------------------------------------------------
(* Refinement of TimeSharing.                                              *)

(* The place of a computation is the pc of the context kept for it.        *)
KeptPc == [c \in Slot \cup {Kernel} |->
    IF c = cur_running_process THEN regs.pc
    ELSE IF c = Kernel THEN kernel_pcb.pc
    ELSE IF c \in Present THEN pcbs[c].regs.pc
    ELSE Steps + 2]

LEMMA PlaceIs == OwnInv => Place = KeptPc
<1> SUFFICES ASSUME OwnInv PROVE Place = KeptPc
  OBVIOUS
<1>1. Own(regs, cur_running_process)
  BY DEF OwnInv, OwnContext
<1>2. cur_running_process # Kernel => Own(kernel_pcb, Kernel)
  BY DEF OwnInv, OwnContext
<1>3. \A c \in Present : c # cur_running_process => Own(pcbs[c].regs, c)
  BY DEF OwnInv, OwnContext
<1> QED BY <1>1, <1>2, <1>3 DEF Place, PlaceIn, Own, KeptPc

LEMMA PlaceIsNext == OwnInv' => (Place = KeptPc)'
BY PlaceIs, PTL

LEMMA AbstractInit == Init => TS!Init
<1> SUFFICES ASSUME Init PROVE TS!Init
  OBVIOUS
<1>1. Present = {}
  BY DEF Init, Present
<1>2. Kernel \notin Slot
  BY ContextFacts
<1>3. /\ cur_running_process = Kernel
      /\ regs.pc = Start
  BY DEF Init
<1>4. Place = [c \in Slot \cup {Kernel} |->
                  IF c = Kernel THEN Start ELSE Steps + 2]
  BY <1>1, <1>2, <1>3, OwnInit, PlaceIs DEF KeptPc
<1> QED BY <1>1, <1>3, <1>4
        DEF TS!Init, TS!Slot, TS!Kernel, TS!Start, TS!Gone, Slot, Start

LEMMA AbstractStep ==
    ASSUME ~TickInTail
    PROVE  OwnInv /\ [Next]_vars => [TS!Next]_(TS!vars)
<1> SUFFICES ASSUME OwnInv, [Next]_vars PROVE [TS!Next]_(TS!vars)
  OBVIOUS
<1> USE DEF TS!Slot, TS!Kernel
<1>0. OwnInv' /\ TypeOK /\ TypeOK' /\ Kernel \notin Slot
  BY OwnStep, ContextFacts DEF OwnInv, ExitedInv
<1>a. Place = KeptPc
  BY PlaceIs
<1>b. Place' = KeptPc'
  BY <1>0, PlaceIsNext
<1>c. cur_running_process \in Slot \cup {Kernel}
  BY <1>0 DEF TypeOK
<1>1. CASE Work
  <2>1. Present' = Present /\ UNCHANGED <<cur_running_process, kernel_pcb, pcbs>>
    BY <1>1 DEF Work, Present
  <2>2. regs'.pc = Advance(regs.pc) /\ regs.pc # Exited
    BY <1>1 DEF Work
  <2>3. KeptPc' = [KeptPc EXCEPT ![cur_running_process] = Advance(@)]
    BY <1>c, <2>1, <2>2 DEF KeptPc
  <2>4. KeptPc[cur_running_process] # Exited
    BY <1>c, <2>2 DEF KeptPc
  <2>5. TS!Work
    BY <1>a, <1>b, <2>1, <2>3, <2>4
       DEF TS!Work, TS!Advance, Advance, TS!Exited, Exited
  <2> QED BY <2>5 DEF TS!Next
<1>2. CASE KernelWait
  BY <1>2, <1>a, <1>b DEF KernelWait, TS!vars, Present, KeptPc
<1>3. ASSUME NEW prio \in BOOLEAN, CreateUserProcess(prio) PROVE TS!Spawn
  <2> DEFINE idx == FindProcess(0, Slot \ Present)
  <2>1. idx \in Slot \ Present
    <3>1. idx \in Slot \ Present \/ idx = -1
      BY FindProcessSpec
    <3> QED BY <3>1, <1>3 DEF CreateUserProcess
  <2>2. /\ cur_running_process = Kernel
        /\ UNCHANGED <<regs, cur_running_process, kernel_pcb>>
        /\ \A p \in Slot : p # idx => pcbs'[p] = pcbs[p]
        /\ pcbs'[idx].regs.pc = Start
    BY <1>0, <1>3, <2>1 DEF CreateUserProcess, TypeOK, Context
  <2>3. Present' = Present \cup {idx}
    <3>1. /\ "PRESENT" \in processes'[idx]
          /\ \A p \in Slot : p # idx => processes'[p] = processes[p]
      BY <1>0, <1>3, <2>1 DEF CreateUserProcess, TypeOK
    <3> QED BY <2>1, <3>1 DEF Present
  <2> HIDE DEF idx
  <2>4. KeptPc' = [KeptPc EXCEPT ![idx] = Start]
    BY <1>0, <2>1, <2>2, <2>3 DEF KeptPc
  <2> QED BY <1>a, <1>b, <2>1, <2>2, <2>3, <2>4
          DEF TS!Spawn, TS!Start, Start, Slot
<1>4. CASE CreateFails
  BY <1>4, <1>a, <1>b DEF CreateFails, TS!vars, Present, KeptPc
<1>5. CASE Exit
  <2> DEFINE p == cur_running_process
  <2>1. p \in Slot
    BY <1>0, <1>5 DEF Exit, TypeOK
  <2>2. p \in Present
    BY <1>5, <2>1 DEF Exit, OwnInv
  <2>3. Present' = Present \ {p}
    <3>1. /\ "PRESENT" \notin processes'[p]
          /\ \A q \in Slot : q # p => processes'[q] = processes[q]
      BY <1>0, <1>5, <2>1 DEF Exit, TypeOK
    <3> QED BY <2>1, <3>1 DEF Present
  <2>4. /\ UNCHANGED <<cur_running_process, kernel_pcb>>
        /\ regs'.pc = Exited
        /\ \A q \in Slot : q # p => pcbs'[q] = pcbs[q]
    BY <1>0, <1>5, <2>1 DEF Exit, TypeOK, Context
  <2>5. KeptPc' = [KeptPc EXCEPT ![p] = Exited]
    BY <1>0, <2>1, <2>3, <2>4 DEF KeptPc
  <2>6. TS!Quit
    BY <1>a, <1>b, <2>2, <2>3, <2>4, <2>5 DEF TS!Quit, TS!Exited, Exited
  <2> QED BY <2>6 DEF TS!Next
<1>6. CASE TimerTick
  <2>1. Preempt(regs) /\ UNCHANGED processes
    BY <1>6 DEF TimerTick
  <2>2. Present' = Present /\ Present \subseteq Slot
    BY <2>1 DEF Present
  <2>3. /\ cur_running_process' = NextProcess
        /\ TS!IsNextTurn(cur_running_process, NextProcess)
    BY <1>0, <2>1, PreemptOwn, NextProcessSpec DEF TS!IsNextTurn
  <2>4. KeptPc' = [c \in Slot \cup {Kernel} |->
                 IF c \in Present \cup {Kernel} THEN KeptPc[c] ELSE Steps + 2]
    <3> SUFFICES ASSUME NEW c \in Slot \cup {Kernel}
                 PROVE  KeptPc'[c] = IF c \in Present \cup {Kernel} THEN KeptPc[c]
                                ELSE Steps + 2
      BY <2>2 DEF KeptPc
    <3>1. CASE c \notin Present \cup {Kernel}
      <4>1. c # cur_running_process'
        BY <2>1, <3>1, PreemptOwn
      <4> QED BY <2>2, <3>1, <4>1 DEF KeptPc
    <3>2. CASE c = Kernel
      <4>1. KeptPc'[c] = SavedKernelPcb(regs).pc
        BY <1>0, <2>1, <3>2, PreemptOwn DEF KeptPc
      <4>2. KeptPc[c] = SavedKernelPcb(regs).pc
        BY <3>2 DEF SavedKernelPcb, KeptPc
      <4> QED BY <3>2, <4>1, <4>2
    <3>3. CASE c \in Present
      <4>1. c # Kernel /\ c \in Slot
        BY <1>0, <2>2, <3>3
      <4>2. KeptPc'[c] = SavedPcbs(regs)[c].regs.pc
        BY <2>1, <2>2, <3>3, <4>1, PreemptOwn DEF KeptPc
      <4>3. KeptPc[c] = SavedPcbs(regs)[c].regs.pc
        BY <1>0, <3>3, <4>1 DEF SavedPcbs, TypeOK, KeptPc
      <4> QED BY <3>3, <4>2, <4>3
    <3> QED BY <3>1, <3>2, <3>3
  <2>5. NextProcess \in Slot \cup {Kernel}
    BY <1>0, NextProcessSpec
  <2>6. TS!Switch
    BY <1>a, <1>b, <2>2, <2>3, <2>4, <2>5 DEF TS!Switch, TS!Gone, Slot
  <2> QED BY <2>6 DEF TS!Next
<1>7. CASE NestedTick
  BY <1>7 DEF NestedTick
<1>8. CASE Iret
  BY <1>8, <1>a, <1>b DEF Iret, TS!vars, Present, KeptPc
<1>9. CASE UNCHANGED vars
  BY <1>9, <1>a, <1>b DEF vars, TS!vars, Present, KeptPc
<1> QED
  BY <1>1, <1>2, <1>3, <1>4, <1>5, <1>6, <1>7, <1>8, <1>9 DEF Next, TS!Next

(* The trap-frame copying of the scheduler implements time sharing: only   *)
(* the computation that has the CPU advances, nobody loses its place, and  *)
(* turns go round without skipping a live slot.                            *)
THEOREM SchedulerImplementsTimeSharing ==
    ASSUME ~TickInTail
    PROVE  Spec => ImplementsTimeSharing
BY OwnInit, OwnStep, AbstractInit, AbstractStep, PTL
   DEF Spec, ImplementsTimeSharing, TS!Spec
=============================================================================
