---------------------------- MODULE FloppyProofs ----------------------------
(***************************************************************************)
(* Proofs about Floppy.tla, for every number of retries and ticks and for  *)
(* a drive that answers in time, late or never.                            *)
(***************************************************************************)
EXTENDS Floppy, SequenceTheorems, TLAPS

Waiting == {"command", "wait", "test", "halt", "asleep"}

(* The handler is sleep_interrupt_irq exactly while a wait is prepared or  *)
(* under way, and then the handler to go back to is the first one.         *)
HandlerInv ==
    /\ pc \in Pc
    /\ interrupt_called_ready <=> pc \in Waiting
    /\ interrupt_called_ready => old_handler = "null" /\ irq_handler = "sleep"
    /\ ~interrupt_called_ready => irq_handler = "null"

LEMMA HandlerInit == Init => HandlerInv
  BY DEF Init, HandlerInv, Waiting, Pc

LEMMA DriverKeepsHandler == HandlerInv /\ Driver => HandlerInv'
<1> SUFFICES ASSUME HandlerInv, Driver PROVE HandlerInv'
  OBVIOUS
<1> USE DEF HandlerInv, Waiting, Pc, Goto, irq
<1>1. CASE Prepare
  BY <1>1 DEF Prepare, WaitReady
<1>2. CASE Command
  BY <1>2 DEF Command
<1>3. CASE WaitMaxTime
  BY <1>3 DEF WaitMaxTime, WaitReady
<1>4. CASE KeepWaiting
  BY <1>4 DEF KeepWaiting
<1>5. CASE Halt
  BY <1>5 DEF Halt
<1>6. CASE StopWaiting
  BY <1>6 DEF StopWaiting, EndOfWait
<1>7. CASE Sense
  BY <1>7 DEF Sense
<1>8. CASE ReadPort
  BY <1>8 DEF ReadPort
<1>9. CASE Retry \/ GiveUp
  BY <1>9 DEF Retry, GiveUp
<1>10. CASE SeekSucceeds \/ ReadSucceeds
  BY <1>10 DEF SeekSucceeds, ReadSucceeds
<1> QED BY <1>1, <1>2, <1>3, <1>4, <1>5, <1>6, <1>7, <1>8, <1>9, <1>10 DEF Driver

LEMMA HandlerStep == HandlerInv /\ [Next]_vars => HandlerInv'
<1> SUFFICES ASSUME HandlerInv, [Next]_vars PROVE HandlerInv'
  OBVIOUS
<1> USE DEF HandlerInv, Waiting, Pc, irq
<1>1. ASSUME NEW l \in Lba, ReadSector(l) PROVE HandlerInv'
  BY <1>1 DEF ReadSector, Goto
<1>2. CASE Driver
  BY <1>2, DriverKeepsHandler
<1>3. CASE SeekDone
  BY <1>3 DEF SeekDone, Raise, Wake
<1>4. CASE ReadDone
  BY <1>4 DEF ReadDone, Raise, Wake
<1>5. ASSUME NEW kernel \in BOOLEAN, TickTo(kernel) PROVE HandlerInv'
  BY <1>5 DEF TickTo, Wake
<1>6. CASE UNCHANGED vars
  BY <1>6 DEF vars
<1> QED BY <1>1, <1>2, <1>3, <1>4, <1>5, <1>6 DEF Next

(* Whatever the drive does and however often the driver retries, the       *)
(* interrupt line gets back the handler it had (irq.c:71-100).             *)
THEOREM HandlerIsRestored == Spec => []HandlerRestored
<1>1. Spec => []HandlerInv
  BY HandlerInit, HandlerStep, PTL DEF Spec
<1>2. HandlerInv => HandlerRestored
  BY DEF HandlerInv, HandlerRestored, Waiting
<1> QED BY <1>1, <1>2, PTL
-----------------------------------------------------------------------------
(* Types: the flags, the other variables, and the bytes the controller     *)
(* holds, which are there exactly in its result phase.                     *)
Flags ==
    /\ wrong \in BOOLEAN
    /\ kernelRuns \in BOOLEAN
    /\ stepped \in BOOLEAN
    /\ interrupt_called \in BOOLEAN
    /\ interrupt_called_ready \in BOOLEAN

Ranges ==
    /\ pc \in Pc
    /\ stage \in {"seek", "read"}
    /\ lba \in Lba
    /\ try \in 0 .. Retries - 1
    /\ taken \in 0 .. 7
    /\ status \in 0 .. 1
    /\ data \in Lba \cup {None}
    /\ irq_handler \in {"null", "sleep"}
    /\ old_handler \in {"null", "sleep"}
    /\ idle_ticks \in -1 .. WaitTicks
    /\ phase \in {"ready", "busy", "result"}
    /\ reading \in Lba
    /\ seeking \in Lba \cup {None}
    /\ head \in Lba \cup {None}
    /\ seekEnd \in Byte \cup {None}
    /\ floppy_buffer \in Lba \cup {None}

ResultBytes ==
    /\ fifo \in Seq(InFifo)
    /\ Len(fifo) <= 7
    /\ phase = "result" <=> fifo # <<>>

TypeInv == Flags /\ Ranges /\ ResultBytes

(* What the driver knows of a drive that answers before a wait times out.  *)
(* Before a command and between two reads the controller is ready and      *)
(* nothing moves.                                                          *)
QuietInv ==
    pc \in {"idle", "prepare", "command", "sense"}
        => phase = "ready" /\ seeking = None

(* A command is under way only while the driver waits for it, and the      *)
(* interrupt that ends the wait has not come, nor has time run out.        *)
BusyInv ==
    /\ pc = "command" => ~interrupt_called
    /\ DriveWorks =>
          /\ pc \in {"wait", "test", "halt", "asleep"}
          /\ ~interrupt_called
          /\ pc # "wait" => idle_ticks >= 1
    /\ seeking # None => stage = "seek"
    /\ phase = "busy" => stage = "read" /\ reading = lba

(* Whoever reads st0 of a read as good has the sector in the buffer.       *)
St0Tells == fifo[1] \in {"zero", "error"} /\ (fifo[1] = "zero" => floppy_buffer = lba)

WaitInv ==
    pc \in {"wait", "test", "halt", "asleep"} =>
        /\ stage = "seek" => phase = "ready"
        /\ stage = "read" =>
              phase = "busy" \/ (phase = "result" /\ Len(fifo) = 7 /\ St0Tells)

SenseInv == pc = "sense" => taken = 0 /\ stage = "seek"

(* The driver takes the bytes of its own command's result, and all of them.*)
AnswerInv ==
    pc = "answer" =>
        /\ seeking = None
        /\ phase # "busy"
        /\ taken + Len(fifo) <= Expected[stage]
        /\ stage = "read" =>
              /\ taken + Len(fifo) = 7
              /\ IF taken = 0 THEN St0Tells ELSE wrong \/ floppy_buffer = lba

DriveInv ==
    /\ QuietInv
    /\ BusyInv
    /\ WaitInv
    /\ SenseInv
    /\ AnswerInv
    /\ SuccessIsData

LEMMA TypeInit == Init => TypeInv
<1>1. Init => Flags
  BY DEF Init, Flags
<1>2. Init => Ranges
  BY FloppyAssumption DEF Init, Ranges, Pc
<1>3. Init => ResultBytes
  BY DEF Init, ResultBytes
<1> QED BY <1>1, <1>2, <1>3 DEF TypeInv

LEMMA NoLengthNoElement == \A s \in Seq(InFifo) : s = <<>> <=> Len(s) = 0
  BY EmptySeq

LEMMA FlagsStep == Flags /\ [Next]_vars => Flags'
<1> SUFFICES ASSUME Flags, [Next]_vars PROVE Flags'
  OBVIOUS
<1> USE DEF Flags, irq, cpu, result, Goto
<1>1. ASSUME NEW l \in Lba, ReadSector(l) PROVE Flags'
  BY <1>1 DEF ReadSector
<1>2. CASE Prepare \/ WaitMaxTime
  BY <1>2 DEF Prepare, WaitMaxTime, WaitReady
<1>3. CASE Command \/ KeepWaiting \/ Halt \/ Sense
  BY <1>3 DEF Command, KeepWaiting, Halt, Sense
<1>4. CASE StopWaiting
  BY <1>4 DEF StopWaiting, EndOfWait
<1>5. CASE ReadPort
  <2>1. PICK b : wrong' = (wrong \/ IsWrong(taken + 1, b))
    BY <1>5 DEF ReadPort
  <2>2. wrong' \in BOOLEAN
    BY <2>1
  <2> QED BY <1>5, <2>2 DEF ReadPort
<1>6. CASE Retry \/ GiveUp \/ SeekSucceeds \/ ReadSucceeds
  BY <1>6 DEF Retry, GiveUp, SeekSucceeds, ReadSucceeds
<1>7. CASE SeekDone
  BY <1>7 DEF SeekDone, Raise
<1>8. CASE ReadDone
  BY <1>8 DEF ReadDone, Raise
<1>9. ASSUME NEW kernel \in BOOLEAN, TickTo(kernel) PROVE Flags'
  BY <1>9 DEF TickTo
<1>10. CASE UNCHANGED vars
  BY <1>10 DEF vars
<1> QED
  BY <1>1, <1>2, <1>3, <1>4, <1>5, <1>6, <1>7, <1>8, <1>9, <1>10
     DEF Next, Driver

LEMMA DriverKeepsRanges ==
    Ranges /\ ResultBytes /\ Driver => Ranges' /\ ResultBytes'
<1> SUFFICES ASSUME Ranges, ResultBytes, Driver
             PROVE  Ranges' /\ ResultBytes'
  OBVIOUS
<1> USE FloppyAssumption
        DEF Ranges, ResultBytes, Goto, Pc, irq, drive, call, result
<1>1. CASE Prepare
  BY <1>1 DEF Prepare, WaitReady
<1>2. CASE Command
  <2>1. CASE phase # "ready"
    BY <1>2, <2>1 DEF Command
  <2>2. CASE phase = "ready" /\ stage = "seek"
    BY <1>2, <2>2 DEF Command
  <2>3. CASE phase = "ready" /\ stage = "read"
    BY <1>2, <2>3 DEF Command
  <2> QED BY <2>1, <2>2, <2>3
<1>3. CASE WaitMaxTime
  BY <1>3 DEF WaitMaxTime, WaitReady
<1>4. CASE KeepWaiting \/ Halt
  BY <1>4 DEF KeepWaiting, Halt
<1>5. CASE StopWaiting
  BY <1>5 DEF StopWaiting, EndOfWait
<1>6. CASE Sense
  <2>1. CASE phase = "ready"
    <3>1. fifo' \in Seq(InFifo) /\ Len(fifo') <= 7 /\ fifo' # <<>>
      <4>1. CASE seekEnd = None
        <5>1. fifo' = <<"error">> /\ "error" \in InFifo
          BY <1>6, <2>1, <4>1 DEF Sense, InFifo, Byte
        <5> QED BY <5>1
      <4>2. CASE seekEnd # None
        <5>1. fifo' = <<seekEnd, "address">> /\ seekEnd \in InFifo
          BY <1>6, <2>1, <4>2 DEF Sense, InFifo
        <5> QED BY <5>1 DEF InFifo
      <4> QED BY <4>1, <4>2
    <3> QED BY <1>6, <2>1, <3>1 DEF Sense
  <2>2. CASE phase # "ready"
    BY <1>6, <2>2 DEF Sense
  <2> QED BY <2>1, <2>2
<1>7. CASE ReadPort
  <2>1. taken' \in 0 .. 7
    BY <1>7 DEF ReadPort, Expected
  <2>2. CASE phase = "result"
    <3>1. fifo' = Tail(fifo) /\ fifo # <<>>
      BY <1>7, <2>2 DEF ReadPort
    <3>2. fifo' \in Seq(InFifo) /\ Len(fifo') = Len(fifo) - 1
      BY <3>1
    <3>3. phase' = "result" <=> Len(fifo) # 1
      BY <1>7, <2>2 DEF ReadPort
    <3>4. fifo' = <<>> <=> Len(fifo) = 1
      <4>1. PICK q : q = fifo'
        OBVIOUS
      <4>2. PICK k : k = Len(fifo)
        OBVIOUS
      <4>3. q \in Seq(InFifo) /\ Len(q) = k - 1 /\ k \in Nat
        BY <3>2, <4>1, <4>2
      <4>4. q = <<>> <=> Len(q) = 0
        BY ONLY <4>3, NoLengthNoElement
      <4>5. q = <<>> <=> k = 1
        BY ONLY <4>3, <4>4
      <4> QED BY ONLY <4>1, <4>2, <4>5
    <3>5. phase' = "result" <=> fifo' # <<>>
      BY <3>3, <3>4
    <3> QED BY <1>7, <2>1, <2>2, <3>2, <3>5 DEF ReadPort
  <2>3. CASE phase # "result"
    BY <1>7, <2>1, <2>3 DEF ReadPort
  <2> QED BY <2>2, <2>3
<1>8. CASE Retry \/ GiveUp
  BY <1>8 DEF Retry, GiveUp
<1>9. CASE SeekSucceeds \/ ReadSucceeds
  BY <1>9 DEF SeekSucceeds, ReadSucceeds
<1> QED BY <1>1, <1>2, <1>3, <1>4, <1>5, <1>6, <1>7, <1>8, <1>9 DEF Driver

LEMMA RangesStep ==
    Ranges /\ ResultBytes /\ [Next]_vars => Ranges' /\ ResultBytes'
<1> SUFFICES ASSUME Ranges, ResultBytes, [Next]_vars
             PROVE  Ranges' /\ ResultBytes'
  OBVIOUS
<1> USE FloppyAssumption
        DEF Ranges, ResultBytes, Pc, irq, drive, call, result, cpu
<1>1. ASSUME NEW l \in Lba, ReadSector(l) PROVE Ranges' /\ ResultBytes'
  BY <1>1 DEF ReadSector, Goto
<1>2. CASE Driver
  BY <1>2, DriverKeepsRanges
<1>3. CASE SeekDone
  BY <1>3 DEF SeekDone, Raise, Wake, Byte
<1>4. CASE ReadDone
  <2> DEFINE rest == <<"address", "address", "address", "two">>
  <2>1. PICK st \in Failures \cup {<<"zero", "zero", "zero">>} :
            fifo' = st \o rest
    BY <1>4 DEF ReadDone
  <2>2. st \in Seq(InFifo) /\ Len(st) = 3
    <3> HIDE DEF Ranges, ResultBytes
    <3>1. \A x, y, z \in InFifo :
              <<x, y, z>> \in Seq(InFifo) /\ Len(<<x, y, z>>) = 3
      OBVIOUS
    <3>2. {"error", "zero"} \subseteq InFifo
      BY DEF InFifo, Byte
    <3>3. \/ st = <<"error", "error", "zero">>
          \/ st = <<"error", "zero", "error">>
          \/ st = <<"zero", "zero", "zero">>
      BY DEF Failures
    <3> QED BY <3>1, <3>2, <3>3
  <2>3. rest \in Seq(InFifo) /\ Len(rest) = 4
    BY DEF InFifo, Byte
  <2>4. fifo' \in Seq(InFifo) /\ Len(fifo') = 7
    <3> HIDE DEF Ranges, ResultBytes, rest
    <3>1. /\ st \o rest \in Seq(InFifo)
          /\ Len(st \o rest) = Len(st) + Len(rest)
      BY <2>2, <2>3, ConcatProperties
    <3> QED BY <2>1, <2>2, <2>3, <3>1
  <2> QED BY <1>4, <2>4 DEF ReadDone, Raise, Wake
<1>5. ASSUME NEW kernel \in BOOLEAN, TickTo(kernel)
      PROVE  Ranges' /\ ResultBytes'
  BY <1>5 DEF TickTo, Wake
<1>6. CASE UNCHANGED vars
  BY <1>6 DEF vars
<1> QED BY <1>1, <1>2, <1>3, <1>4, <1>5, <1>6 DEF Next

LEMMA TypeAlways == Spec => []TypeInv
<1>1. TypeInv /\ [Next]_vars => TypeInv'
  BY FlagsStep, RangesStep DEF TypeInv
<1> QED BY <1>1, TypeInit, PTL DEF Spec

(* Every variable keeps its range: no retry runs past the limit, no tick   *)
(* below -1, no result past the seven bytes of a read.                     *)
THEOREM TypeCorrect == Spec => []TypeOK
<1>1. TypeInv => TypeOK
  BY DEF TypeInv, Flags, Ranges, ResultBytes, TypeOK
<1> QED BY <1>1, TypeAlways, PTL

-----------------------------------------------------------------------------

LEMMA DriveInit == Init => DriveInv
  BY DEF Init, DriveInv, QuietInv, BusyInv, WaitInv, SenseInv,
            AnswerInv, SuccessIsData,
         DriveWorks

LEMMA DriverKeepsDrive ==
    TypeInv /\ HandlerInv /\ DriveInv /\ Driver => DriveInv'
<1> SUFFICES ASSUME TypeInv, HandlerInv, DriveInv, Driver PROVE DriveInv'
  OBVIOUS
<1> USE DEF DriveInv, QuietInv, BusyInv, WaitInv, SenseInv,
            AnswerInv, SuccessIsData,
            DriveWorks, St0Tells, Goto, irq, drive, call, result
<1>1. CASE Prepare
  BY <1>1 DEF Prepare, WaitReady, HandlerInv, Waiting
<1>2. CASE Command
  BY <1>2 DEF Command, TypeInv, Ranges, ResultBytes
<1>3. CASE WaitMaxTime
  BY <1>3, FloppyAssumption DEF WaitMaxTime, WaitReady, HandlerInv, Waiting
<1>4. CASE KeepWaiting \/ Halt
  BY <1>4 DEF KeepWaiting, Halt
<1>5. CASE StopWaiting
  BY <1>5 DEF StopWaiting, EndOfWait, WaitIsOver, TypeInv, Ranges, ResultBytes, Expected
<1>6. CASE Sense
  <2>1. phase = "ready" /\ stage = "seek" /\ taken = 0 /\ seeking = None
    BY <1>6 DEF Sense
  <2>2. phase' = "result" /\ Len(fifo') <= 2
    <3>1. phase' = "result" /\ (fifo' = <<"error">> \/ fifo' = <<seekEnd, "address">>)
      BY ONLY <1>6, <2>1 DEF Sense
    <3>2. Len(<<"error">>) = 1 /\ Len(<<seekEnd, "address">>) = 2
      OBVIOUS
    <3>3. \A n : n = 1 \/ n = 2 => n <= 2
      OBVIOUS
    <3>4. Len(fifo') = 1 \/ Len(fifo') = 2
      BY ONLY <3>1, <3>2, Zenon
    <3> QED BY ONLY <3>1, <3>3, <3>4, Zenon
  <2>3. pc' = "answer" /\ UNCHANGED <<stage, taken, seeking, interrupt_called>>
    BY <1>6, <2>1 DEF Sense
  <2>4. SuccessIsData'
    BY <1>6, <2>1 DEF Sense
  <2>5. AnswerInv'
    BY ONLY <2>1, <2>2, <2>3 DEF AnswerInv, Expected
  <2> QED BY ONLY <2>1, <2>2, <2>3, <2>4, <2>5
            DEF DriveInv, QuietInv, BusyInv, WaitInv, SenseInv, DriveWorks
<1>7. CASE ReadPort
  <2>1. PICK b \in PortReads : wrong' = (wrong \/ IsWrong(taken + 1, b))
    BY <1>7 DEF ReadPort
  <2>2. /\ seeking' = None /\ phase' # "busy"
        /\ floppy_buffer' = floppy_buffer /\ lba' = lba /\ stage' = stage
        /\ taken' = taken + 1 /\ pc' = "answer"
    BY <1>7 DEF ReadPort
  <2>3. phase = "result" => Len(fifo') = Len(fifo) - 1
    BY <1>7, EmptySeq DEF ReadPort, TypeInv, ResultBytes
  <2>4. phase # "result" => fifo' = fifo /\ fifo = <<>>
    BY <1>7 DEF ReadPort, TypeInv, ResultBytes
  <2>5. taken' + Len(fifo') <= Expected[stage]'
    BY <1>7, <2>2, <2>3, <2>4
       DEF ReadPort, TypeInv, Ranges, ResultBytes, Expected
  <2>6. CASE stage = "read"
    <3>1. phase = "result"
      BY <1>7, <2>4, <2>6 DEF ReadPort, TypeInv, Ranges, ResultBytes, Expected
    <3>2. taken' + Len(fifo') = 7
      BY <1>7, <2>2, <2>3, <2>6, <3>1
         DEF ReadPort, TypeInv, Ranges, ResultBytes
    <3>3. taken # 0 => wrong' \/ floppy_buffer' = lba
      BY <1>7, <2>1, <2>2, <2>6 DEF ReadPort
    <3>4. taken = 0 => wrong' \/ floppy_buffer' = lba
      <4> SUFFICES ASSUME taken = 0, floppy_buffer # lba PROVE wrong'
        BY <2>2
      <4>1. fifo[1] = "error"
        BY <1>7, <2>6 DEF ReadPort
      <4>2. b = "error"
        <5>1. Head(fifo) = "error"
          BY <2>4, <3>1, <4>1 DEF TypeInv, ResultBytes
        <5>2. PortReads = {"error"}
          BY <3>1, <5>1 DEF PortReads
        <5> QED BY <5>2
      <4>3. IsWrong(taken + 1, b)
        BY <4>2 DEF IsWrong
      <4> QED BY <2>1, <4>3
    <3> QED BY <1>7, <2>2, <2>5, <3>2, <3>3, <3>4
            DEF ReadPort, TypeInv, Ranges
  <2>7. CASE stage = "seek"
    BY <1>7, <2>2, <2>5, <2>7 DEF ReadPort
  <2> QED BY <2>6, <2>7 DEF TypeInv, Ranges
<1>8. CASE Retry \/ GiveUp
  BY <1>8 DEF Retry, GiveUp, Answered, TypeInv, Ranges, ResultBytes, Expected
<1>9. CASE SeekSucceeds \/ ReadSucceeds
  BY <1>9 DEF SeekSucceeds, ReadSucceeds, Answered, TypeInv, Ranges, ResultBytes, Expected
<1> QED BY <1>1, <1>2, <1>3, <1>4, <1>5, <1>6, <1>7, <1>8, <1>9 DEF Driver

LEMMA DriveStep ==
    ASSUME ~Late
    PROVE  TypeInv /\ HandlerInv /\ DriveInv /\ [Next]_vars => DriveInv'
<1> SUFFICES ASSUME TypeInv, HandlerInv, DriveInv, [Next]_vars PROVE DriveInv'
  OBVIOUS
<1> USE DEF DriveInv, QuietInv, BusyInv, WaitInv, SenseInv,
            AnswerInv, SuccessIsData,
            DriveWorks, St0Tells, irq, drive, call, result, cpu
<1>1. ASSUME NEW l \in Lba, ReadSector(l) PROVE DriveInv'
  BY <1>1 DEF ReadSector, Goto
<1>2. CASE Driver
  BY <1>2, DriverKeepsDrive
<1>3. CASE SeekDone
  BY <1>3 DEF SeekDone, Raise, Wake, TypeInv, Ranges, ResultBytes
<1>4. CASE ReadDone
  BY <1>4 DEF ReadDone, Raise, Wake, Failures, TypeInv, Ranges, ResultBytes
<1>5. ASSUME NEW kernel \in BOOLEAN, TickTo(kernel) PROVE DriveInv'
  BY <1>5 DEF TickTo, Wake, TypeInv, Ranges, ResultBytes
<1>6. CASE UNCHANGED vars
  BY <1>6 DEF vars
<1> QED BY <1>1, <1>2, <1>3, <1>4, <1>5, <1>6 DEF Next

(* A drive that answers before a wait times out is never believed wrongly: *)
(* floppy_execute returns 0 only with the sector that was asked for in the *)
(* buffer, whatever seeks and reads fail and however many retries it takes *)
(* (floppy.c:300-310).                                                     *)
THEOREM SuccessIsTheSector == ~Late => (Spec => []SuccessIsData)
<1> SUFFICES ASSUME ~Late PROVE Spec => []SuccessIsData
  OBVIOUS
<1>1. Spec => []HandlerInv
  BY HandlerInit, HandlerStep, PTL DEF Spec
<1>2. TypeInv /\ HandlerInv /\ DriveInv /\ [Next]_vars => DriveInv'
  BY DriveStep
<1>3. Spec => []DriveInv
  BY <1>1, <1>2, TypeAlways, DriveInit, PTL DEF Spec
<1>4. DriveInv => SuccessIsData
  BY DEF DriveInv
<1> QED BY <1>3, <1>4, PTL
=============================================================================
