---------------------------- MODULE ConsoleProofs ----------------------------
(***************************************************************************)
(* The console implements KeyboardReader.tla, for screens of any size and  *)
(* any number of keys, key events and calls of printf: what was proved of  *)
(* the wait for Enter holds with the screen, the echo and printf around    *)
(* it, and with user processes. And the cursors stay on the screen, and    *)
(* what is printed stays printed.                                          *)
(***************************************************************************)
EXTENDS Console, Lemmas, TLAPS

-----------------------------------------------------------------------------
(* The wait for Enter alone (KeyboardReader.tla), for any number of key    *)
(* events.                                                                 *)

Latest == [key |-> last_char, up |-> last_up]

(* Why FreshInput holds although the flag and the two globals are read at  *)
(* different times: since the reset, whatever the globals hold came with   *)
(* the flag, and a reader at "char" has seen a key go down.                *)
InSight ==
    /\ pc \notin {"away", "reset"} /\ is_keyboard_intr => Latest \in since
    /\ pc \in {"up", "char"} => is_keyboard_intr
    /\ pc = "char" => \E e \in since : ~e.up

IInv == TypeOK /\ InSight

LEMMA InitIInv == Init => IInv
<1> SUFFICES ASSUME Init PROVE IInv
  OBVIOUS
<1>1. TypeOK
  <2>1. kernelRuns \in BOOLEAN /\ is_keyboard_intr \in BOOLEAN /\ last_up \in BOOLEAN
    BY Zenon DEF Init
  <2>2. pc \in Pc /\ last_char \in Key
    BY KeyboardAssumption DEF KeyboardAssumption, Init, Pc
  <2>3. down \subseteq Key /\ since \subseteq Event /\ asked \subseteq Event
    BY DEF Init
  <2>4. events \in 0 .. MaxEvents
    BY KeyboardAssumption DEF KeyboardAssumption, Init
  <2> QED BY <2>1, <2>2, <2>3, <2>4 DEF TypeOK
<1>2. InSight
  BY DEF Init, InSight
<1> QED BY <1>1, <1>2 DEF IInv

LEMMA StepIInv == IInv /\ [Next]_vars => IInv'
<1> SUFFICES ASSUME IInv, [Next]_vars PROVE IInv'
  OBVIOUS
<1> USE KeyboardAssumption DEF KeyboardAssumption, IInv, TypeOK, InSight,
        Latest, Event, Pc, handler
<1>1. CASE Reader
  <2>1. CASE Scanf
    BY <2>1 DEF Scanf, Goto
  <2>2. CASE Reset
    BY <2>2 DEF Reset, Goto
  <2>3. CASE Halt
    BY <2>3 DEF Halt, Goto
  <2>4. CASE TestCalled
    BY <2>4 DEF TestCalled, Test, Goto
  <2>5. CASE TestUp
    BY <2>5 DEF TestUp, Test, Goto
  <2>6. CASE TestChar
    BY <2>6 DEF TestChar, Test, Goto
  <2> QED BY <1>1, <2>1, <2>2, <2>3, <2>4, <2>5, <2>6 DEF Reader
<1>2. ASSUME NEW e \in Event, KeyEvent(e) PROVE IInv'
  <2>1. e = [key |-> e.key, up |-> e.up] /\ e.key \in Key /\ e.up \in BOOLEAN
    OBVIOUS
  <2>2. TypeOK'
    BY <1>2, <2>1 DEF KeyEvent, HandlerLeaves, WakesReader
  <2>3. Latest' = e /\ e \in since'
    BY <1>2, <2>1 DEF KeyEvent, HandlerLeaves
  <2>4. InSight'
    BY <1>2, <2>3 DEF KeyEvent, HandlerLeaves, WakesReader
  <2> QED BY <2>2, <2>4
<1>3. ASSUME NEW kernel \in BOOLEAN, TickTo(kernel) PROVE IInv'
  BY <1>3 DEF TickTo, WakesReader
<1>4. CASE UNCHANGED vars
  BY <1>4 DEF vars
<1> QED BY <1>1, <1>2, <1>3, <1>4 DEF Next

(* The reader's globals always have the types of the handler's values.     *)
THEOREM TypeCorrect == Spec => []TypeOK
<1>1. Spec => []IInv
  BY InitIInv, StepIInv, PTL DEF Spec
<1>2. IInv => TypeOK
  BY DEF IInv
<1> QED BY <1>1, <1>2, PTL

(* A read never ends on input from before its last reset, however the      *)
(* interrupts fall between its steps (stdio.c:450, hal.c:43-53).           *)
THEOREM ReadsFreshInput == Spec => FreshInput
<1>1. Spec => []IInv
  BY InitIInv, StepIInv, PTL DEF Spec
<1>2. IInv /\ [Next]_vars =>
        [TestChar /\ pc' = "away" =>
            /\ \E e \in since : ~e.up
            /\ \E e \in since : e.key = Enter]_vars
  BY DEF IInv, TypeOK, InSight, Latest, TestChar, Test, Goto
<1> QED BY <1>1, <1>2, PTL DEF Spec, FreshInput

-----------------------------------------------------------------------------
(* The whole console                                                       *)

(* The stages of the kernel's putc.                                        *)
Copying == {"load", "store", "clear"}
Raising == {"raised", "out_up", "test", "top", "corner", "out_test", "out_top", "out_corner"}

InPutc == {"newline", "down", "write", "put", "advance", "forward",
           "settle", "left", "search", "found", "wrap", "return", "feed", "fed",
           "bottom", "cleared", "up", "next"} \cup Copying \cup Raising

Ending == {"endx", "endx2", "endy", "endy2", "same", "same2",
           "least", "least2", "last", "last2"}

(* What a step of the kernel on the console leaves alone.                  *)
LEMMA LineGoes ==
    ASSUME PutcNewline \/ PutcCharacter \/ LineCheck
    PROVE  /\ stage \in InPutc \cup {"putc"} /\ stage' \in InPutc
           /\ stage = "putc" => todo # <<>>
           /\ UNCHANGED <<vars, todo, history_vars>>
<1> USE DEF Reads, Writes, Tests, Does, Goes, InPutc, Copying, Raising
<1>1. CASE PutcNewline
  BY <1>1 DEF PutcNewline
<1>2. CASE PutcCharacter
  BY <1>2 DEF PutcCharacter
<1>3. CASE Lowers("newline", "down", "settle") \/ Lowers("feed", "fed", "bottom")
  BY <1>3 DEF Lowers
<1>4. CASE WritesCharacter
  BY <1>4 DEF WritesCharacter
<1>5. CASE FindsText
  BY <1>5 DEF FindsText
<1>6. CASE Wraps
  BY <1>6 DEF Wraps
<1>7. CASE Copies
  BY <1>7 DEF Copies
<1>8. CASE Raises
  BY <1>8 DEF Raises
<1>9. CASE Clips
  BY <1>9 DEF Clips
<1> QED
  BY <1>1, <1>2, <1>3, <1>4, <1>5, <1>6, <1>7, <1>8, <1>9 DEF LineCheck

LEMMA SetOutGoes ==
    ASSUME NEW read, NEW write, NEW next, SetOutX(read, write, next)
    PROVE  /\ \/ stage = read /\ stage' = write
              \/ stage = write /\ stage' = next
           /\ UNCHANGED <<vars, todo>>
           /\ disturbed => disturbed'
<1>1. disturbed => disturbed'
  <2>1. CASE disturbed' = (disturbed \/ ~BeyondOut(scr, 0))
    BY <2>1, Zenon
  <2>2. CASE Writes(write, next, [scr EXCEPT !.out_x = reg])
    BY <2>2 DEF Writes, Does, history_vars
  <2> QED BY <2>1, <2>2 DEF SetOutX
<1> QED BY <1>1 DEF SetOutX, Writes, Does, Goes

LEMMA SetOutYGoes ==
    ASSUME NEW here, NEW next, SetOutY(here, next)
    PROVE  stage = here /\ stage' = next /\ UNCHANGED <<vars, todo, disturbed>>
BY DEF SetOutY, Goes

LEMMA EndGoes ==
    ASSUME PrintfEnds
    PROVE  /\ stage \in Ending \cup {"putc"} /\ stage' \in Ending \cup {"run"}
           /\ UNCHANGED <<vars, todo>>
           /\ disturbed => disturbed'
<1> USE DEF Ending
<1>1. CASE SetOutX("endx", "endx2", "endy")
  BY <1>1, SetOutGoes
<1>2. CASE SetOutY("last2", "run")
  BY <1>2, SetOutYGoes
<1>3. CASE ~(SetOutX("endx", "endx2", "endy") \/ SetOutY("last2", "run"))
  BY <1>3 DEF PrintfEnds, Reads, Writes, Tests, Does, Goes, history_vars
<1> QED BY <1>1, <1>2, <1>3

(* printf leaves the reader alone, the rest of scanf as well.              *)
LEMMA PrintsStutters == Prints => UNCHANGED vars
<1>1. ASSUME NEW text \in Texts, Printf(text) PROVE UNCHANGED vars
  BY <1>1 DEF Printf
<1>2. PutcDone => UNCHANGED vars
  BY DEF PutcDone, Goes
<1> QED
  BY <1>1, <1>2, LineGoes, EndGoes DEF Prints

LEMMA ReadReads == Read => [Next]_vars
<1>1. Ask => Next
  BY DEF Ask, Next, Reader
<1>2. Wait => Next
  BY DEF Wait, Next, Reader
<1>3. Answer => Next
  BY DEF Answer, Next, Reader
<1>4. CopyRow => UNCHANGED vars
  BY DEF CopyRow, Goes
<1>5. Tests("copy", "outx") \/ Reads("outy", "outy2", scr.y) => UNCHANGED vars
  BY DEF Tests, Reads, Does, Goes
<1>6. SetOutX("outx", "outx2", "outy") => UNCHANGED vars
  BY SetOutGoes
<1>7. ASSUME NEW next, SetOutY("outy2", next) PROVE UNCHANGED vars
  BY <1>7, SetOutYGoes
<1> QED
  BY <1>1, <1>2, <1>3, <1>4, <1>5, <1>6, <1>7 DEF Read

LEMMA StepReads == [CNext]_cvars => [Next]_vars
<1>1. ASSUME NEW e \in Event, Press(e) PROVE Next
  BY <1>1 DEF Press, Next
<1>2. ASSUME NEW kernel \in BOOLEAN, Tick(kernel) PROVE Next
  BY <1>2 DEF Tick, Next
<1>3. UNCHANGED cvars => UNCHANGED vars
  BY DEF cvars
<1> QED
  BY <1>1, <1>2, <1>3, PrintsStutters, ReadReads DEF CNext

(* scanf, printf and the echo together do to the reader's state only what  *)
(* KeyboardReader.tla says (stdio.c:443-470, main.c:14-32).                *)
THEOREM ConsoleImplementsReader == CSpec => Spec
<1>1. CInit => Init
  BY DEF CInit
<1> QED
  BY <1>1, StepReads, PTL DEF CSpec, Spec

(* However printf, scanf, the echo of keys and preemption interleave, no   *)
(* read ends on what an earlier interrupt left behind (stdio.c:450).       *)
THEOREM ConsoleReadsFreshInput == CSpec => FreshInput
BY ConsoleImplementsReader, ReadsFreshInput

(* The kernel prints nothing while it waits for Enter.                     *)
Waiting == pc # "away" => stage = "read"

LEMMA StepWaiting == Waiting /\ [CNext]_cvars => Waiting'
<1> SUFFICES ASSUME Waiting, [CNext]_cvars PROVE Waiting'
  OBVIOUS
<1>1. CASE Prints
  <2>1. stage # "read"
    BY <1>1, LineGoes, EndGoes
       DEF Prints, Printf, PutcDone, Goes, InPutc, Copying, Raising, Ending
  <2>2. pc' = pc
    BY <1>1, PrintsStutters DEF vars
  <2> QED
    BY <2>1, <2>2 DEF Waiting
<1>2. CASE Read
  <2>1. Ask => Waiting'
    BY DEF Ask, Waiting
  <2>2. Wait => Waiting'
    BY DEF Wait, Reset, Halt, TestCalled, TestUp, Test, Goto, kernel_vars, Waiting
  <2>3. Answer => Waiting'
    BY DEF Answer, TestChar, Test, Goto, Waiting
  <2>4. CopyRow => Waiting'
    BY DEF CopyRow, Goes, vars, Waiting
  <2>5. Tests("copy", "outx") \/ Reads("outy", "outy2", scr.y) => Waiting'
    BY DEF Tests, Reads, Does, Goes, vars, Waiting
  <2>6. SetOutX("outx", "outx2", "outy") => Waiting'
    BY SetOutGoes DEF vars, Waiting
  <2>7. ASSUME NEW next, SetOutY("outy2", next) PROVE Waiting'
    BY <2>7, SetOutYGoes DEF vars, Waiting
  <2> QED
    BY <1>2, <2>1, <2>2, <2>3, <2>4, <2>5, <2>6, <2>7 DEF Read
<1>3. ASSUME NEW e \in Event, Press(e) PROVE Waiting'
  BY <1>3 DEF Press, KeyEvent, WakesReader, kernel_vars, Waiting
<1>4. ASSUME NEW kernel \in BOOLEAN, Tick(kernel) PROVE Waiting'
  BY <1>4 DEF Tick, TickTo, WakesReader, kernel_vars, Waiting
<1>5. CASE UNCHANGED cvars
  BY <1>5 DEF cvars, vars, kernel_vars, Waiting
<1> QED
  BY <1>1, <1>2, <1>3, <1>4, <1>5 DEF CNext

-----------------------------------------------------------------------------
(* The cursors. A call of putc may begin with the cursor behind the last   *)
(* column or below the last row, where the kernel's own putc has just put  *)
(* it, but never both; and with both cursors in the row above the screen.  *)
OnGrid(s) ==
    /\ s \in Screen
    /\ s.x \in 0 .. SCREEN_WIDTH /\ s.y \in -1 .. SCREEN_HEIGHT
    /\ s.out_x \in 0 .. SCREEN_WIDTH - 1 /\ s.out_y \in -1 .. SCREEN_HEIGHT - 1
    /\ s.x = SCREEN_WIDTH => s.y < SCREEN_HEIGHT

(* Where the cursor may be when the line has not been wrapped yet.         *)
Ahead(s, t) ==
    /\ t \in Screen
    /\ t.x \in 0 .. SCREEN_WIDTH + 1 /\ t.y \in -1 .. SCREEN_HEIGHT + 1
    /\ t.x >= SCREEN_WIDTH => t.y <= SCREEN_HEIGHT
    /\ s.y < SCREEN_HEIGHT =>
          /\ t.y <= SCREEN_HEIGHT
          /\ t.x >= SCREEN_WIDTH => t.y < SCREEN_HEIGHT
    /\ s.y >= 0 => t.y >= 0
    /\ t.out_x = s.out_x /\ t.out_y = s.out_y

(* Where putc leaves it: below the last row, or above the first, only if   *)
(* it has been there.                                                      *)
Settled(s, t) ==
    /\ OnGrid(t)
    /\ t.x < SCREEN_WIDTH
    /\ s.y < SCREEN_HEIGHT => t.y < SCREEN_HEIGHT
    /\ s.y >= 0 => t.y >= 0
    /\ s.out_y >= 0 => t.out_y >= 0

LEMMA ScreenSize ==
    /\ SCREEN_WIDTH \in Nat /\ SCREEN_WIDTH >= 1
    /\ SCREEN_HEIGHT \in Nat /\ SCREEN_HEIGHT >= 2
BY ConsoleAssumption DEF ConsoleAssumption

(* The cursor is put somewhere else.                                       *)
Placed(s, x, y) == [s EXCEPT !.x = x, !.y = y]

LEMMA PlacedType ==
    ASSUME NEW s \in Screen, NEW x \in Int, NEW y \in Int
    PROVE  /\ Placed(s, x, y) \in Screen
           /\ Placed(s, x, y).x = x /\ Placed(s, x, y).y = y
           /\ Placed(s, x, y).out_x = s.out_x /\ Placed(s, x, y).out_y = s.out_y
BY DEF Placed, Screen

(* One of the four numbers is written.                                     *)
At(t, s, x, y, out_x, out_y) ==
    /\ t \in Screen /\ t.cell = s.cell
    /\ t.x = x /\ t.y = y /\ t.out_x = out_x /\ t.out_y = out_y

WithX(s, n)    == [s EXCEPT !.x = n]
WithY(s, n)    == [s EXCEPT !.y = n]
WithOutX(s, n) == [s EXCEPT !.out_x = n]
WithOutY(s, n) == [s EXCEPT !.out_y = n]

LEMMA Written ==
    ASSUME NEW s \in Screen, NEW n \in Int
    PROVE  /\ At(WithX(s, n), s, n, s.y, s.out_x, s.out_y)
           /\ At(WithY(s, n), s, s.x, n, s.out_x, s.out_y)
           /\ At(WithOutX(s, n), s, s.x, s.y, n, s.out_y)
           /\ At(WithOutY(s, n), s, s.x, s.y, s.out_x, n)
BY DEF At, Screen, WithX, WithY, WithOutX, WithOutY

(* What is put into a cell leaves the screen a screen.                     *)
LEMMA StoredType ==
    ASSUME NEW s \in Screen, NEW at, NEW c \in Char
    PROVE  /\ Stored(s, at, c) \in Screen
           /\ Stored(s, at, c).x = s.x /\ Stored(s, at, c).y = s.y
           /\ Stored(s, at, c).out_x = s.out_x /\ Stored(s, at, c).out_y = s.out_y
           /\ \A i \in Cell : Stored(s, at, c).cell[i] = IF i = at THEN c ELSE s.cell[i]
<1>1. CASE at \in Cell
  <2>1. [s.cell EXCEPT ![at] = c] \in [Cell -> Char]
    BY DEF Screen
  <2>2. Stored(s, at, c) = [s EXCEPT !.cell = [s.cell EXCEPT ![at] = c]]
    BY <1>1 DEF Stored
  <2>3. \A i \in Cell : [s.cell EXCEPT ![at] = c][i] = IF i = at THEN c ELSE s.cell[i]
    BY DEF Screen
  <2>4. Stored(s, at, c).cell = [s.cell EXCEPT ![at] = c]
    BY <2>2 DEF Screen
  <2> QED
    BY <2>1, <2>2, <2>3, <2>4 DEF Screen
<1>2. CASE at \notin Cell
  BY <1>2 DEF Stored
<1> QED
  BY <1>1, <1>2

LEMMA PutcharType ==
    ASSUME NEW s \in Screen, NEW c \in Char
    PROVE  /\ putchar(s, c) \in Screen
           /\ putchar(s, c).x = s.x /\ putchar(s, c).y = s.y
           /\ putchar(s, c).out_x = s.out_x /\ putchar(s, c).out_y = s.out_y
BY StoredType DEF putchar

LEMMA InRowEnds ==
    ASSUME NEW s \in Screen, s.x < 0 => s.y \in Nat
    PROVE  /\ InRow(s) \in Screen
           /\ IF s.x >= 0 THEN InRow(s) = s
              ELSE InRow(s).x = SCREEN_WIDTH - 1 /\ InRow(s).y \in 0 .. s.y
           /\ InRow(s).out_x = s.out_x /\ InRow(s).out_y = s.out_y
<1>0. s.x \in Int
  BY DEF Screen
<1>1. CASE s.x >= 0
  BY <1>1 DEF InRow, Screen
<1>2. CASE ~(s.x >= 0)
  <2>1. PICK y : y = IF s.y > 0 THEN s.y - 1 ELSE 0
    OBVIOUS
  <2>2. y \in 0 .. s.y
    BY <1>0, <1>2, <2>1
  <2>3. InRow(s) = Placed(s, SCREEN_WIDTH - 1, y)
    BY <1>2, <2>1 DEF InRow, Screen, Placed
  <2> QED
    BY <1>2, <2>2, <2>3, PlacedType, ScreenSize
<1> QED
  BY <1>1, <1>2

LEMMA AtTextEnds ==
    ASSUME NEW s \in Screen, s.x \in Nat
    PROVE  /\ AtText(s) \in Screen
           /\ AtText(s).x \in 0 .. s.x
           /\ AtText(s).y = s.y
           /\ AtText(s).out_x = s.out_x /\ AtText(s).out_y = s.out_y
<1> DEFINE text == {i \in 0 .. s.x - 1 : getc(s, i, s.y) # Nul}
           last == CHOOSE i \in text : \A j \in text : j <= i
<1>1. text # {} => last \in 0 .. s.x - 1
  <2> SUFFICES ASSUME text # {} PROVE last \in text
    OBVIOUS
  <2>1. text \subseteq 0 .. s.x
    OBVIOUS
  <2>2. \E i \in text : \A j \in text : j <= i
    BY <2>1, GreatestExists
  <2> QED
    BY <2>2
<1>2. CASE getc(s, s.x, s.y) # Nul
  BY <1>2 DEF AtText
<1>3. CASE getc(s, s.x, s.y) = Nul /\ text = {}
  <2>1. AtText(s) = [s EXCEPT !.x = 0]
    BY <1>3 DEF AtText
  <2> QED
    BY <2>1 DEF Screen
<1>4. CASE getc(s, s.x, s.y) = Nul /\ text # {}
  <2>1. AtText(s) = [s EXCEPT !.x = last + 1]
    BY <1>4 DEF AtText
  <2> HIDE DEF last
  <2>2. last + 1 \in 0 .. s.x
    BY <1>1, <1>4
  <2> QED
    BY <2>1, <2>2 DEF Screen
<1> QED
  BY <1>2, <1>3, <1>4

LEMMA ScrollbackEnds ==
    ASSUME NEW s \in Screen
    PROVE  /\ scrollback(s) \in Screen
           /\ scrollback(s).x = IF s.y > 0 THEN s.x ELSE 0
           /\ scrollback(s).y = IF s.y > 0 THEN s.y - 1 ELSE 0
           /\ scrollback(s).out_x = IF s.out_y > 0 THEN s.out_x ELSE 0
           /\ scrollback(s).out_y = IF s.out_y > 0 THEN s.out_y - 1 ELSE 0
<1> DEFINE low == SCREEN_WIDTH * (SCREEN_HEIGHT - 1)
           all == SCREEN_WIDTH * (SCREEN_HEIGHT + 1)
           cells == [i \in Cell |->
                        IF i < low THEN s.cell[i + SCREEN_WIDTH]
                        ELSE IF i < SCREEN_WIDTH * SCREEN_HEIGHT THEN Nul ELSE s.cell[i]]
<1>1. low \in Int /\ all \in Int /\ low + SCREEN_WIDTH <= all
  <2>1. low = SCREEN_WIDTH * SCREEN_HEIGHT - SCREEN_WIDTH
    BY ScreenSize
  <2>2. all = SCREEN_WIDTH * SCREEN_HEIGHT + SCREEN_WIDTH
    BY ScreenSize
  <2>3. SCREEN_WIDTH * SCREEN_HEIGHT \in Int
    BY ScreenSize
  <2> QED
    BY <2>1, <2>2, <2>3, ScreenSize
<1>2. Cell = 0 .. all - 1
  BY DEF Cell
<1> HIDE DEF low, all
<1>3. \A i \in Cell : i < low => i + SCREEN_WIDTH \in Cell
  BY <1>1, <1>2, ScreenSize
<1>4. cells \in [Cell -> Char]
  BY <1>3 DEF Screen, Char
<1>5. scrollback(s) = [cell  |-> cells,
                       x     |-> IF s.y > 0 THEN s.x ELSE 0,
                       y     |-> IF s.y > 0 THEN s.y - 1 ELSE 0,
                       out_x |-> IF s.out_y > 0 THEN s.out_x ELSE 0,
                       out_y |-> IF s.out_y > 0 THEN s.out_y - 1 ELSE 0]
  BY DEF scrollback, low
<1> HIDE DEF cells
<1> QED
  BY <1>4, <1>5 DEF Screen

(* Wrapping and scrolling bring the cursor back.                           *)
LEMMA WrappedSettles ==
    ASSUME NEW s, OnGrid(s), NEW t, Ahead(s, t)
    PROVE  Settled(s, Scrolled(Wrapped(t)))
<1>1. PICK w : w = Wrapped(t)
  OBVIOUS
<1>2. /\ w \in Screen /\ w.x \in 0 .. SCREEN_WIDTH - 1
      /\ w.y \in -1 .. SCREEN_HEIGHT + 1
      /\ s.y < SCREEN_HEIGHT => w.y <= SCREEN_HEIGHT
      /\ s.y >= 0 => w.y >= 0
      /\ w.out_x = s.out_x /\ w.out_y = s.out_y
  <2>1. CASE t.x >= SCREEN_WIDTH
    <3>1. w = Placed(t, 0, t.y + 1)
      BY <1>1, <2>1 DEF Wrapped, AtLeast, Ahead, Screen, Placed
    <3>2. /\ w \in Screen /\ w.x = 0 /\ w.y = t.y + 1
          /\ w.out_x = t.out_x /\ w.out_y = t.out_y
      BY <3>1, PlacedType DEF Ahead
    <3> QED
      BY <2>1, <3>2, ScreenSize DEF Ahead
  <2>2. CASE ~(t.x >= SCREEN_WIDTH)
    BY <1>1, <2>2, ScreenSize DEF Wrapped, AtLeast, Ahead
  <2> QED
    BY <2>1, <2>2
<1>3. CASE w.y >= 0 /\ w.y < SCREEN_HEIGHT
  <2>1. Scrolled(w) = w
    BY <1>2, <1>3, ScreenSize DEF Scrolled, AtLeast
  <2> QED
    BY <1>1, <1>2, <1>3, <2>1, ScreenSize DEF Settled, OnGrid
<1>4. CASE w.y < 0 \/ w.y >= SCREEN_HEIGHT
  <2>1. Scrolled(w) = scrollback(w)
    BY <1>4 DEF Scrolled, AtLeast
  <2> QED
    BY <1>1, <1>2, <1>4, <2>1, ScrollbackEnds, ScreenSize DEF Settled, OnGrid
<1> QED
  BY <1>2, <1>3, <1>4, ScreenSize

(* A cursor that has been moved, before it is brought back to the text.    *)
LEMMA TextAhead ==
    ASSUME NEW s, OnGrid(s), NEW m \in Screen,
           m.x \in -1 .. SCREEN_WIDTH + 1, m.y \in -1 .. SCREEN_HEIGHT + 1,
           m.x < 0 \/ s.y >= 0 => m.y >= 0,
           m.x >= SCREEN_WIDTH => m.y <= SCREEN_HEIGHT,
           s.y < SCREEN_HEIGHT =>
              m.y <= SCREEN_HEIGHT /\ (m.x >= SCREEN_WIDTH => m.y < SCREEN_HEIGHT),
           m.out_x = s.out_x, m.out_y = s.out_y
    PROVE  Ahead(s, AtText(InRow(m)))
<1>1. PICK r : r = InRow(m)
  OBVIOUS
<1>2. /\ r \in Screen /\ r.x \in 0 .. SCREEN_WIDTH + 1
      /\ r.y \in -1 .. m.y
      /\ s.y >= 0 => r.y >= 0
      /\ r.x >= SCREEN_WIDTH => r.y = m.y /\ r.x = m.x
      /\ r.out_x = s.out_x /\ r.out_y = s.out_y
  BY <1>1, InRowEnds, ScreenSize
<1>3. PICK a : a = AtText(r)
  OBVIOUS
<1>4. /\ a \in Screen /\ a.x \in 0 .. r.x /\ a.y = r.y
      /\ a.out_x = s.out_x /\ a.out_y = s.out_y
  BY <1>2, <1>3, AtTextEnds
<1>5. Ahead(s, a)
  BY <1>2, <1>4, ScreenSize DEF Ahead, OnGrid
<1> QED
  BY <1>1, <1>3, <1>5

LEMMA MovedAhead ==
    ASSUME NEW s, OnGrid(s), NEW c
    PROVE  Ahead(s, AtText(InRow(Moved(s, c))))
<1> USE ScreenSize
<1>0. /\ s \in Screen /\ s.x \in 0 .. SCREEN_WIDTH /\ s.y \in -1 .. SCREEN_HEIGHT
      /\ s.x = SCREEN_WIDTH => s.y < SCREEN_HEIGHT
      /\ s.out_x \in Int /\ s.out_y \in -1 .. SCREEN_HEIGHT - 1
  BY DEF OnGrid
<1>1. CASE Moved(s, c) = [s EXCEPT !.x = 0, !.y = @ + 1]
  <2>1. Moved(s, c) = Placed(s, 0, s.y + 1)
    BY <1>0, <1>1 DEF Screen, Placed
  <2>2. PICK m : m = Moved(s, c)
    OBVIOUS
  <2>3. /\ m \in Screen /\ m.x = 0 /\ m.y = s.y + 1
        /\ m.out_x = s.out_x /\ m.out_y = s.out_y
    BY <1>0, <2>1, <2>2, PlacedType
  <2> QED
    BY <1>0, <2>2, <2>3, TextAhead
<1>2. CASE s.y > 0 /\ Moved(s, c) = [s EXCEPT !.y = @ - 1]
  BY <1>0, <1>2, TextAhead DEF Screen
<1>3. CASE s.y < s.out_y /\ Moved(s, c) = [s EXCEPT !.y = @ + 1]
  BY <1>0, <1>3, TextAhead DEF Screen
<1>4. CASE (s.y > 0 \/ s.x > 0) /\ Moved(s, c) = [s EXCEPT !.x = @ - 1]
  BY <1>0, <1>4, TextAhead DEF Screen
<1>5. CASE Moved(s, c) = [s EXCEPT !.x = @ + 1]
  BY <1>0, <1>5, TextAhead DEF Screen
<1>6. CASE Moved(s, c) = s
  BY <1>0, <1>6, TextAhead
<1>7. CASE (s.y > 0 \/ s.x > 0) /\ Moved(s, c) = Removed(Back(s))
  <2>1. PICK b : b = Back(s)
    OBVIOUS
  <2>2. /\ b \in Screen
        /\ b.x \in 0 .. SCREEN_WIDTH - 1 /\ b.y \in -1 .. s.y
        /\ s.y >= 0 => b.y >= 0
        /\ b.out_x = s.out_x /\ b.out_y = s.out_y
    <3>1. CASE s.x > 0
      BY <1>0, <2>1, <3>1 DEF Back, Screen
    <3>2. CASE ~(s.x > 0)
      <4>1. b = Placed(s, SCREEN_WIDTH - 1, s.y - 1)
        BY <1>0, <2>1, <3>2 DEF Back, Screen, Placed
      <4> QED
        BY <1>0, <1>7, <3>2, <4>1, PlacedType
    <3> QED
      BY <3>1, <3>2
  <2>3. PICK d \in Char : Removed(b) = putchar(b, d)
    BY DEF Removed, Char
  <2>4. PICK m : m = Moved(s, c)
    OBVIOUS
  <2>5. /\ m \in Screen /\ m.x = b.x /\ m.y = b.y
        /\ m.out_x = b.out_x /\ m.out_y = b.out_y
    BY <1>7, <2>1, <2>2, <2>3, <2>4, PutcharType
  <2> QED
    BY <1>0, <2>2, <2>4, <2>5, TextAhead
<1> QED
  BY <1>1, <1>2, <1>3, <1>4, <1>5, <1>6, <1>7 DEF Moved

(* putc, wherever the kernel's own putc has been interrupted.              *)
LEMMA PutPlainSettles ==
    ASSUME NEW s, OnGrid(s), NEW c
    PROVE  Settled(s, PutPlain(s, c))
<1>1. CASE c \in Char /\ BeyondOut(s, 0)
  <2>1. PICK p : p = putchar(s, c)
    OBVIOUS
  <2>2. Ahead(s, Advanced(p))
    <3>1. /\ p \in Screen /\ p.x = s.x /\ p.y = s.y
          /\ p.out_x = s.out_x /\ p.out_y = s.out_y
      BY <1>1, <2>1, PutcharType DEF OnGrid
    <3>2. PICK a : a = [p EXCEPT !.x = p.x + 1]
      OBVIOUS
    <3>3. a = Advanced(p)
      BY <3>1, <3>2 DEF Advanced, Screen
    <3>4. /\ a \in Screen /\ a.x = s.x + 1 /\ a.y = s.y
          /\ a.out_x = s.out_x /\ a.out_y = s.out_y
      BY <3>1, <3>2 DEF Screen
    <3>5. Ahead(s, a)
      BY <3>4, ScreenSize DEF Ahead, OnGrid
    <3> QED
      BY <3>3, <3>5
  <2> QED
    BY <1>1, <2>1, <2>2, WrappedSettles DEF PutPlain
<1>2. CASE ~(c \in Char /\ BeyondOut(s, 0))
  BY <1>2, MovedAhead, WrappedSettles DEF PutPlain
<1> QED
  BY <1>1, <1>2

LEMMA PutcSettles ==
    ASSUME NEW s, OnGrid(s), NEW c
    PROVE  Settled(s, putc(s, c))
<1>1. CASE c # "tab"
  BY <1>1, PutPlainSettles DEF putc
<1>2. CASE c = "tab"
  <2>1. \A t : OnGrid(t) => OnGrid(PutSpace(t)) /\ Settled(t, PutSpace(t))
    BY PutPlainSettles DEF PutSpace, Settled
  <2>2. PICK n \in 1 .. 4 : n = TabStop - (s.x % TabStop)
    BY ScreenSize DEF OnGrid, TabStop
  <2>3. PICK t : t = PutSpaces(s, n)
    OBVIOUS
  <2>4. Settled(s, t)
    <3>1. PICK p1 : p1 = PutSpace(s)
      OBVIOUS
    <3>2. PICK p2 : p2 = PutSpace(p1)
      OBVIOUS
    <3>3. PICK p3 : p3 = PutSpace(p2)
      OBVIOUS
    <3>4. PICK p4 : p4 = PutSpace(p3)
      OBVIOUS
    <3>5. Settled(s, p1) /\ Settled(p1, p2) /\ Settled(p2, p3) /\ Settled(p3, p4)
      BY <2>1, <3>1, <3>2, <3>3, <3>4
    <3>6. Settled(s, p2) /\ Settled(s, p3) /\ Settled(s, p4)
      BY <3>5 DEF Settled
    <3>7. n \in {1, 2, 3, 4} /\ t \in {p1, p2, p3, p4}
      BY <2>3, <3>1, <3>2, <3>3, <3>4 DEF PutSpaces
    <3> QED
      BY <3>5, <3>6, <3>7
  <2>5. Ahead(t, AtText(InRow(t)))
    BY <2>4, TextAhead, ScreenSize DEF Settled, OnGrid
  <2>6. Settled(t, putc(s, c))
    BY <1>2, <2>2, <2>3, <2>4, <2>5, WrappedSettles DEF putc, Settled
  <2> QED
    BY <2>4, <2>6 DEF Settled
<1> QED
  BY <1>1, <1>2


-----------------------------------------------------------------------------
(* The cells are counted through the rows, as Lin does.                    *)
CursorAt(s)  == Lin(s.x, s.y)
OutAt(s)     == Lin(s.out_x, s.out_y)
Bottom       == Lin(0, SCREEN_HEIGHT)
PrintedIn(s) == {i \in Cell : s.cell[i] = Printed}

LEMMA LinFacts ==
    /\ \A y \in Int : Lin(0, y) \in Int
    /\ \A x, y \in Int : Lin(x, y) \in Int /\ Lin(x, y) = Lin(0, y) + x
    /\ \A y \in Int : Lin(0, y + 1) = Lin(0, y) + SCREEN_WIDTH
    /\ \A y, z \in Int : y <= z => Lin(0, y) <= Lin(0, z)
    /\ Lin(0, 0) = 0
<1>1. PICK w \in Nat : w = SCREEN_WIDTH
  BY ScreenSize
<1>2. \A y \in Int : y * w \in Int /\ (y + 1) * w = y * w + w
  BY SMT
<1>3. ASSUME NEW y \in Int, NEW z \in Int, y <= z PROVE y * w <= z * w
  <2>1. PICK d \in Nat : z = y + d
    <3>1. z - y \in Nat /\ z = y + (z - y)
      BY <1>3
    <3> QED BY <3>1
  <2>2. z * w = y * w + d * w /\ d * w >= 0 /\ y * w \in Int /\ d * w \in Int
    BY <2>1
  <2> QED BY <2>2
<1>4. 0 * w = 0
  OBVIOUS
<1>5. \A x, y : Lin(x, y) = y * w + x
  BY <1>1 DEF Lin
<1>6. \A y \in Int : Lin(0, y) = y * w
  BY <1>2, <1>5
<1>7. 0 \in Int /\ \A y \in Int : y + 1 \in Int
  OBVIOUS
<1> QED BY <1>1, <1>2, <1>3, <1>4, <1>5, <1>6, <1>7

LEMMA CellIs == Cell = 0 .. Lin(0, SCREEN_HEIGHT + 1) - 1
<1>1. SCREEN_WIDTH * (SCREEN_HEIGHT + 1) = (SCREEN_HEIGHT + 1) * SCREEN_WIDTH
  BY ScreenSize
<1>2. (SCREEN_HEIGHT + 1) * SCREEN_WIDTH + 0 = (SCREEN_HEIGHT + 1) * SCREEN_WIDTH
  BY ScreenSize
<1> QED BY <1>1, <1>2 DEF Cell, Lin

LEMMA CellsAreInt == Cell \subseteq Nat
BY CellIs, LinFacts, ScreenSize


LEMMA SizeIs ==
    /\ Bottom \in Int /\ Bottom >= SCREEN_WIDTH + SCREEN_WIDTH
    /\ SCREEN_WIDTH * SCREEN_HEIGHT = Bottom
    /\ SCREEN_WIDTH * (SCREEN_HEIGHT - 1) = Bottom - SCREEN_WIDTH
    /\ Cell = 0 .. Bottom + SCREEN_WIDTH - 1
<1>1. PICK h \in Int : h = SCREEN_HEIGHT
  BY ScreenSize
<1>2. PICK w \in Nat : w = SCREEN_WIDTH
  BY ScreenSize
<1>3. /\ Bottom \in Int /\ Bottom = h * w + 0 /\ h * w \in Int
      /\ w * h = h * w /\ w * (h - 1) = h * w - w /\ w * (h + 1) = h * w + w
  BY <1>1, <1>2 DEF Bottom, Lin
<1>4. Bottom >= w + w
  <2>1. /\ Lin(0, 0) = 0 /\ Lin(0, 0 + 1) = Lin(0, 0) + w
        /\ Lin(0, 1 + 1) = Lin(0, 1) + w /\ Lin(0, 2) <= Lin(0, h)
    <3>1. 0 \in Int /\ 1 \in Int /\ 2 \in Int /\ 2 <= h
      BY <1>1, ScreenSize
    <3> QED BY <1>1, <1>2, <3>1, LinFacts
  <2> QED BY <1>1, <1>2, <2>1 DEF Bottom
<1> QED BY <1>1, <1>2, <1>3, <1>4 DEF Cell

-----------------------------------------------------------------------------
(* Why the cursors stay on the screen: each step of the kernel's putc      *)
(* leaves at most one of them at an edge, and says so by where it is; an   *)
(* echo at that place settles the cursor, and the step that follows finds  *)
(* nothing left to do. What the kernel has read and not written yet was on *)
(* the screen, whatever an echo has done since.                            *)
Counts(at, r) ==
    /\ at \in {"down", "fed", "out_up", "endy2", "outy2", "last2"} =>
          r \in 0 .. SCREEN_HEIGHT - 1
    /\ at \in {"forward", "endx2", "outx2", "same2", "least2"} =>
          r \in 0 .. SCREEN_WIDTH - 1
    /\ at = "search" => r \in -1 .. SCREEN_WIDTH - 2
    /\ at = "found" => r \in 0 .. SCREEN_WIDTH - 2
    /\ at \in {"load", "store"} => r \in SCREEN_WIDTH .. Bottom - 1
    /\ at = "clear" => r \in Bottom - SCREEN_WIDTH .. Bottom - 1
    /\ at = "up" => r \in 0 .. SCREEN_HEIGHT

GInv ==
    /\ OnScreen
    /\ scr.x = SCREEN_WIDTH => scr.y < SCREEN_HEIGHT
    /\ Counts(stage, reg) /\ reg \in Int /\ ch \in Char
    /\ todo \in Seq({Printed, Newline})
    /\ stage \in InPutc => todo # <<>>
    /\ stage \in {"write", "put"} => Head(todo) = Printed

LEMMA GInvOnGrid == GInv => OnGrid(scr)
BY DEF GInv, OnScreen, OnGrid, Above

LEMMA InitGInv == CInit => GInv
<1> SUFFICES ASSUME CInit PROVE GInv
  OBVIOUS
<1>1. scr \in Screen /\ scr.x = 0 /\ scr.y = 0 /\ scr.out_x = 0 /\ scr.out_y = 0
  BY DEF CInit, Screen, Char
<1>2. stage = "run" /\ todo = <<>> /\ reg = 0 /\ ch \in Char
  BY DEF CInit, Char
<1> QED
  BY <1>1, <1>2, ScreenSize
     DEF GInv, OnScreen, Stage, Below, Above, InPutc, Copying, Raising, Counts

(* Where both cursors are, at a stage.                                     *)
Fits(at, s) ==
    /\ s \in Screen
    /\ s.x \in 0 .. SCREEN_WIDTH /\ s.y \in -1 .. SCREEN_HEIGHT
    /\ s.out_x \in 0 .. SCREEN_WIDTH - 1 /\ s.out_y \in -1 .. SCREEN_HEIGHT - 1
    /\ s.x = SCREEN_WIDTH => at \in {"wrap", "return"} /\ s.y < SCREEN_HEIGHT
    /\ s.y = SCREEN_HEIGHT => at \in Below
    /\ s.y < 0 => at \in Above
    /\ s.out_y < 0 => at \in {"test", "top", "corner", "out_test", "out_top"}

(* A step of the kernel's putc.                                            *)
LEMMA PutcGInv ==
    ASSUME GInv, PutcNewline \/ PutcCharacter \/ LineCheck
    PROVE  GInv'
<1> USE ScreenSize DEF Reads, Writes, Tests, Does, Goes
<1>0. /\ Fits(stage, scr)
      /\ scr \in Screen /\ scr.x \in 0 .. SCREEN_WIDTH /\ scr.y \in -1 .. SCREEN_HEIGHT
      /\ scr.out_x \in 0 .. SCREEN_WIDTH - 1 /\ scr.out_y \in -1 .. SCREEN_HEIGHT - 1
      /\ Counts(stage, reg) /\ reg \in Int /\ ch \in Char
  BY DEF GInv, OnScreen, Fits
<1>1. /\ todo' = todo /\ todo # <<>> /\ stage' \in InPutc
  BY LineGoes DEF GInv
<1>2. SUFFICES /\ Fits(stage', scr') /\ Counts(stage', reg')
               /\ reg' \in Int /\ ch' \in Char
               /\ stage' \in {"write", "put"} => Head(todo) = Printed
  BY <1>1 DEF GInv, OnScreen, Fits, Stage, Below, Above, InPutc, Copying, Raising
<1> USE DEF Fits, Counts, Below, Above
<1>3. CASE PutcNewline
  <2>1. scr' = WithX(scr, 0) /\ stage' = "newline" /\ stage = "putc"
        /\ reg' = 0 /\ ch' = ch
    BY <1>3 DEF PutcNewline, WithX
  <2>2. At(scr', scr, 0, scr.y, scr.out_x, scr.out_y)
    BY <1>0, <2>1, Written
  <2> QED BY <1>0, <2>1, <2>2 DEF At
<1>4. CASE PutcCharacter
  <2>1. Head(todo) \in {Printed, Newline}
    BY <1>1 DEF GInv
  <2> QED BY <1>0, <1>4, <2>1 DEF PutcCharacter
<1>5. ASSUME NEW read \in {"newline", "feed"}, NEW write \in {"down", "fed"},
             NEW next \in {"settle", "bottom"}, Lowers(read, write, next)
      PROVE  /\ Fits(stage', scr') /\ Counts(stage', reg')
             /\ reg' \in Int /\ ch' \in Char /\ stage' \notin {"write", "put"}
  <2>1. CASE Reads(read, write, scr.y)
    BY <1>0, <2>1
  <2>2. CASE Writes(write, next, [scr EXCEPT !.y = reg + 1])
    <3>1. scr' = WithY(scr, reg + 1) /\ stage' = next /\ stage = write
          /\ reg' = 0 /\ ch' = ch
      BY <2>2 DEF WithY
    <3>2. At(scr', scr, scr.x, reg + 1, scr.out_x, scr.out_y)
      BY <1>0, <3>1, Written
    <3> QED BY <1>0, <3>1, <3>2 DEF At
  <2> QED BY <1>5, <2>1, <2>2 DEF Lowers
<1>6. CASE WritesCharacter
  <2>1. CASE Reads("write", "put", Lin(scr.x, scr.y))
    <3>1. Lin(scr.x, scr.y) \in Int
      <4>1. scr.x \in Int /\ scr.y \in Int
        BY <1>0
      <4> QED BY <4>1, LinFacts
    <3> QED BY <1>0, <2>1, <3>1 DEF GInv
  <2>2. CASE Writes("put", "advance", Stored(scr, reg, Head(todo)))
    <3>1. Head(todo) \in Char
      BY <2>2 DEF GInv, Char
    <3> QED BY <1>0, <2>2, <3>1, StoredType
  <2>3. CASE Reads("advance", "forward", scr.x)
    BY <1>0, <2>3
  <2>4. CASE Writes("forward", "wrap", [scr EXCEPT !.x = reg + 1])
    <3>1. scr' = WithX(scr, reg + 1) /\ stage' = "wrap" /\ stage = "forward"
          /\ reg' = 0 /\ ch' = ch
      BY <2>4 DEF WithX
    <3>2. At(scr', scr, reg + 1, scr.y, scr.out_x, scr.out_y)
      BY <1>0, <3>1, Written
    <3> QED BY <1>0, <3>1, <3>2 DEF At
  <2> QED BY <1>6, <2>1, <2>2, <2>3, <2>4 DEF WritesCharacter
<1>7. CASE FindsText
  <2>1. CASE Tests("settle", IF getc(scr, scr.x, scr.y) = Nul THEN "left" ELSE "wrap")
    BY <1>0, <2>1
  <2>2. CASE Reads("left", "search", scr.x - 1)
    BY <1>0, <2>2
  <2>3. CASE reg < 0 /\ Writes("search", "wrap", [scr EXCEPT !.x = 0])
    <3>1. scr' = WithX(scr, 0) /\ stage' = "wrap" /\ stage = "search"
          /\ reg' = 0 /\ ch' = ch
      BY <2>3 DEF WithX
    <3>2. At(scr', scr, 0, scr.y, scr.out_x, scr.out_y)
      BY <1>0, <3>1, Written
    <3> QED BY <1>0, <3>1, <3>2 DEF At
  <2>4. CASE /\ reg >= 0
             /\ IF getc(scr, reg, scr.y) = Nul THEN Reads("search", "search", reg - 1)
                ELSE Reads("search", "found", reg)
    BY <1>0, <2>4
  <2>5. CASE Writes("found", "wrap", [scr EXCEPT !.x = reg + 1])
    <3>1. scr' = WithX(scr, reg + 1) /\ stage' = "wrap" /\ stage = "found"
          /\ reg' = 0 /\ ch' = ch
      BY <2>5 DEF WithX
    <3>2. At(scr', scr, reg + 1, scr.y, scr.out_x, scr.out_y)
      BY <1>0, <3>1, Written
    <3> QED BY <1>0, <3>1, <3>2 DEF At
  <2> QED BY <1>7, <2>1, <2>2, <2>3, <2>4, <2>5 DEF FindsText
<1>8. CASE Wraps
  <2>1. CASE Tests("wrap", IF AtLeast(scr.x, SCREEN_WIDTH) THEN "return" ELSE "bottom")
    BY <1>0, <2>1 DEF AtLeast
  <2>2. CASE Writes("return", "feed", [scr EXCEPT !.x = 0])
    <3>1. scr' = WithX(scr, 0) /\ stage' = "feed" /\ stage = "return"
          /\ reg' = 0 /\ ch' = ch
      BY <2>2 DEF WithX
    <3>2. At(scr', scr, 0, scr.y, scr.out_x, scr.out_y)
      BY <1>0, <3>1, Written
    <3> QED BY <1>0, <3>1, <3>2 DEF At
  <2> QED BY <1>8, <2>1, <2>2 DEF Wraps
<1>9. CASE Copies
  <2>1. CASE Reads("bottom", IF AtLeast(scr.y, SCREEN_HEIGHT) THEN "load" ELSE "next", SCREEN_WIDTH)
    BY <1>0, <2>1, SizeIs DEF AtLeast
  <2>2. CASE /\ Goes("load", "store")
             /\ ch' = scr.cell[reg]
             /\ UNCHANGED <<scr, reg, todo, place, buffer, history_vars>>
    <3>1. reg \in Cell
      BY <1>0, <2>2, SizeIs
    <3>2. scr.cell[reg] \in Char
      BY <1>0, <3>1 DEF Screen
    <3> QED BY <1>0, <2>2, <3>2
  <2>3. CASE \/ Does("store", "load", Stored(scr, reg - SCREEN_WIDTH, ch), reg + 1)
                /\ reg + 1 < Bottom
             \/ Does("store", "clear", Stored(scr, reg - SCREEN_WIDTH, ch), Bottom - SCREEN_WIDTH)
    <3>1. scr' = Stored(scr, reg - SCREEN_WIDTH, ch) /\ stage = "store" /\ ch' = ch
      BY <2>3
    <3>2. /\ scr' \in Screen /\ scr'.x = scr.x /\ scr'.y = scr.y
          /\ scr'.out_x = scr.out_x /\ scr'.out_y = scr.out_y
      BY <1>0, <3>1, StoredType
    <3>3. \/ stage' = "load" /\ reg' = reg + 1 /\ reg + 1 < Bottom
          \/ stage' = "clear" /\ reg' = Bottom - SCREEN_WIDTH
      BY <2>3
    <3>4. Bottom \in Int /\ Bottom >= SCREEN_WIDTH + SCREEN_WIDTH
      BY SizeIs
    <3>5. reg \in SCREEN_WIDTH .. Bottom - 1
      BY <1>0, <3>1
    <3>6. Fits(stage', scr')
      BY <1>0, <3>1, <3>2, <3>3
    <3>7. Counts(stage', reg') /\ reg' \in Int
      BY <3>3, <3>4, <3>5
    <3> QED BY <1>0, <3>1, <3>3, <3>6, <3>7
  <2>4. CASE Does("clear", IF reg + 1 < Bottom THEN "clear" ELSE "cleared",
                  Stored(scr, reg, Nul), reg + 1)
    <3>1. /\ scr' = Stored(scr, reg, Nul) /\ stage = "clear" /\ ch' = ch
          /\ reg' = reg + 1
          /\ \/ stage' = "clear" /\ reg + 1 < Bottom
             \/ stage' = "cleared"
      BY <2>4
    <3>2. Nul \in Char
      BY DEF Char
    <3>3. /\ scr' \in Screen /\ scr'.x = scr.x /\ scr'.y = scr.y
          /\ scr'.out_x = scr.out_x /\ scr'.out_y = scr.out_y
      BY <1>0, <3>1, <3>2, StoredType
    <3>4. Bottom \in Int
      BY SizeIs
    <3>5. reg \in Bottom - SCREEN_WIDTH .. Bottom - 1
      BY <1>0, <3>1
    <3>6. Fits(stage', scr')
      BY <1>0, <3>1, <3>3
    <3>7. Counts(stage', reg') /\ reg' \in Int
      BY <3>1, <3>4, <3>5
    <3> QED BY <1>0, <3>1, <3>6, <3>7
  <2> QED BY <1>9, <2>1, <2>2, <2>3, <2>4, SizeIs DEF Copies
<1>10. CASE Raises
  <2>1. CASE Reads("cleared", "up", scr.y) \/ Reads("raised", "out_up", scr.out_y)
    BY <1>0, <2>1
  <2>2. CASE Writes("up", "raised", [scr EXCEPT !.y = reg - 1])
    <3>1. scr' = WithY(scr, reg - 1) /\ stage' = "raised" /\ stage = "up"
          /\ reg' = 0 /\ ch' = ch
      BY <2>2 DEF WithY
    <3>2. At(scr', scr, scr.x, reg - 1, scr.out_x, scr.out_y)
      BY <1>0, <3>1, Written
    <3> QED BY <1>0, <3>1, <3>2 DEF At
  <2>3. CASE Writes("out_up", "test", [scr EXCEPT !.out_y = reg - 1])
    <3>1. scr' = WithOutY(scr, reg - 1) /\ stage' = "test" /\ stage = "out_up"
          /\ reg' = 0 /\ ch' = ch
      BY <2>3 DEF WithOutY
    <3>2. At(scr', scr, scr.x, scr.y, scr.out_x, reg - 1)
      BY <1>0, <3>1, Written
    <3> QED BY <1>0, <3>1, <3>2 DEF At
  <2> QED BY <1>10, <2>1, <2>2, <2>3 DEF Raises
<1>11. CASE Clips
  <2>1. CASE \/ Tests("test", IF scr.y < 0 THEN "top" ELSE "out_test")
             \/ Tests("out_test", IF scr.out_y < 0 THEN "out_top" ELSE "next")
    BY <1>0, <2>1
  <2>2. CASE \/ Writes("top", "corner", [scr EXCEPT !.y = 0])
             \/ Writes("corner", "out_test", [scr EXCEPT !.x = 0])
    <3>1. \/ /\ stage = "top" /\ stage' = "corner"
             /\ At(scr', scr, scr.x, 0, scr.out_x, scr.out_y)
          \/ /\ stage = "corner" /\ stage' = "out_test"
             /\ At(scr', scr, 0, scr.y, scr.out_x, scr.out_y)
      <4>1. \/ stage = "top" /\ stage' = "corner" /\ scr' = WithY(scr, 0)
            \/ stage = "corner" /\ stage' = "out_test" /\ scr' = WithX(scr, 0)
        BY <2>2 DEF WithX, WithY
      <4> QED BY <1>0, <4>1, Written
    <3>2. reg' = 0 /\ ch' = ch
      BY <2>2
    <3> QED BY <1>0, <3>1, <3>2 DEF At
  <2>3. CASE \/ Writes("out_top", "out_corner", [scr EXCEPT !.out_y = 0])
             \/ Writes("out_corner", "next", [scr EXCEPT !.out_x = 0])
    <3>1. \/ /\ stage = "out_top" /\ stage' = "out_corner"
             /\ At(scr', scr, scr.x, scr.y, scr.out_x, 0)
          \/ /\ stage = "out_corner" /\ stage' = "next"
             /\ At(scr', scr, scr.x, scr.y, 0, scr.out_y)
      <4>1. \/ stage = "out_top" /\ stage' = "out_corner" /\ scr' = WithOutY(scr, 0)
            \/ stage = "out_corner" /\ stage' = "next" /\ scr' = WithOutX(scr, 0)
        BY <2>3 DEF WithOutX, WithOutY
      <4> QED BY <1>0, <4>1, Written
    <3>2. reg' = 0 /\ ch' = ch
      BY <2>3
    <3> QED BY <1>0, <3>1, <3>2 DEF At
  <2> QED BY <1>11, <2>1, <2>2, <2>3 DEF Clips
<1> QED
  BY <1>3, <1>4, <1>5, <1>6, <1>7, <1>8, <1>9, <1>10, <1>11 DEF LineCheck

(* A step of the kernel outside of putc.                                   *)
Outside == {"run", "putc", "again", "read", "copy", "outx", "outx2", "outy", "outy2"} \cup Ending

LEMMA KeepsGInv ==
    ASSUME GInv, stage' \in Outside, Fits("run", scr'), Counts(stage', reg'),
           reg' \in Int, ch' = ch, todo' \in Seq({Printed, Newline})
    PROVE  GInv'
<1>1. /\ stage' \in Stage
      /\ stage' \notin InPutc /\ stage' \notin {"write", "put"}
  BY DEF Outside, Ending, Stage, Below, Above, InPutc, Copying, Raising
<1> QED
  BY <1>1, ScreenSize DEF GInv, OnScreen, Fits, Below, Above

LEMMA OutsideFits ==
    ASSUME GInv, stage \in Outside
    PROVE  /\ Fits("run", scr)
           /\ scr \in Screen /\ scr.x \in 0 .. SCREEN_WIDTH - 1 /\ scr.y \in 0 .. SCREEN_HEIGHT - 1
           /\ scr.out_x \in 0 .. SCREEN_WIDTH - 1 /\ scr.out_y \in 0 .. SCREEN_HEIGHT - 1
<1>1. stage \notin Below \cup Above \cup {"return", "corner", "out_test", "out_top"}
  BY DEF Outside, Ending, Below, Above
<1> QED
  BY <1>1, ScreenSize DEF GInv, OnScreen, Fits, Below, Above

LEMMA WithOutFits ==
    ASSUME Fits("run", scr), NEW n \in Int
    PROVE  /\ n \in 0 .. SCREEN_WIDTH - 1 => Fits("run", WithOutX(scr, n))
           /\ n \in 0 .. SCREEN_HEIGHT - 1 => Fits("run", WithOutY(scr, n))
<1>1. /\ At(WithOutX(scr, n), scr, scr.x, scr.y, n, scr.out_y)
      /\ At(WithOutY(scr, n), scr, scr.x, scr.y, scr.out_x, n)
  BY Written DEF Fits
<1> QED
  BY <1>1, ScreenSize DEF Fits, At, Below, Above

(* The out cursor is set to where the cursor was.                          *)
LEMMA SetOutXGInv ==
    ASSUME GInv,
           \/ SetOutX("endx", "endx2", "endy")
           \/ SetOutX("outx", "outx2", "outy")
    PROVE  GInv'
<1>1. /\ stage \in Outside /\ stage' \in Outside /\ todo' = todo
  BY SetOutGoes DEF Outside, Ending
<1>2. todo' \in Seq({Printed, Newline}) /\ Counts(stage, reg)
  BY <1>1 DEF GInv
<1>3. CASE /\ stage' \in {"endx2", "outx2"} /\ scr' = scr /\ reg' = scr.x /\ ch' = ch
  <2>1. Counts(stage', reg') /\ reg' \in Int
    BY <1>1, <1>3, OutsideFits DEF Counts
  <2> QED BY <1>1, <1>2, <1>3, <2>1, OutsideFits, KeepsGInv
<1>4. CASE /\ stage \in {"endx2", "outx2"} /\ stage' \in {"endy", "outy"}
           /\ scr' = WithOutX(scr, reg) /\ reg' = 0 /\ ch' = ch
  <2>1. reg \in 0 .. SCREEN_WIDTH - 1 /\ reg \in Int
    BY <1>2, <1>4 DEF Counts
  <2>2. Fits("run", scr')
    BY <1>1, <1>4, <2>1, OutsideFits, WithOutFits
  <2>3. Counts(stage', reg') /\ reg' \in Int
    BY <1>4 DEF Counts
  <2> QED BY <1>1, <1>2, <1>4, <2>2, <2>3, KeepsGInv
<1> QED
  BY <1>3, <1>4 DEF SetOutX, Writes, Does, Goes, WithOutX

LEMMA SetOutYGInv ==
    ASSUME GInv,
           \/ SetOutY("last2", "run")
           \/ SetOutY("outy2", IF buffer = <<>> THEN "again" ELSE "run")
    PROVE  GInv'
<1>1. /\ stage \in {"last2", "outy2"} /\ stage' \in {"run", "again"} /\ todo' = todo
  BY SetOutYGoes
<1>2. scr' = WithOutY(scr, reg) /\ reg' = 0 /\ ch' = ch
  BY DEF SetOutY, WithOutY
<1>3. reg \in 0 .. SCREEN_HEIGHT - 1 /\ reg \in Int /\ todo' \in Seq({Printed, Newline})
  BY <1>1 DEF GInv, Counts
<1>4. stage \in Outside /\ stage' \in Outside
  BY <1>1 DEF Outside, Ending
<1>5. Fits("run", scr')
  BY <1>2, <1>3, <1>4, OutsideFits, WithOutFits
<1>6. Counts(stage', reg') /\ reg' \in Int
  BY <1>1, <1>2 DEF Counts
<1> QED BY <1>1, <1>2, <1>3, <1>4, <1>5, <1>6, KeepsGInv

(* A number is read, or one half of the out cursor written.                *)
LEMMA EndsGInv ==
    ASSUME GInv, stage \in Outside, stage' \in Outside, UNCHANGED <<todo, ch>>,
           \/ scr' = scr /\ Counts(stage', reg') /\ reg' \in Int
           \/ /\ scr' = WithOutX(scr, reg) /\ stage \in {"same2", "least2"}
              /\ stage' \in {"least", "last"} /\ reg' = 0
           \/ /\ scr' = WithOutY(scr, reg) /\ stage = "endy2"
              /\ stage' = "least" /\ reg' = 0
    PROVE  GInv'
<1>1. todo' \in Seq({Printed, Newline}) /\ ch' = ch /\ Counts(stage, reg)
      /\ Fits("run", scr)
  BY OutsideFits DEF GInv
<1>2. CASE scr' = scr /\ Counts(stage', reg') /\ reg' \in Int
  BY <1>1, <1>2, KeepsGInv
<1>3. CASE /\ scr' = WithOutX(scr, reg) /\ stage \in {"same2", "least2"}
           /\ stage' \in {"least", "last"} /\ reg' = 0
  <2>1. reg \in 0 .. SCREEN_WIDTH - 1 /\ reg \in Int /\ Counts(stage', reg') /\ reg' \in Int
    BY <1>1, <1>3 DEF Counts
  <2> QED BY <1>1, <1>3, <2>1, WithOutFits, KeepsGInv
<1>4. CASE /\ scr' = WithOutY(scr, reg) /\ stage = "endy2"
           /\ stage' = "least" /\ reg' = 0
  <2>1. reg \in 0 .. SCREEN_HEIGHT - 1 /\ reg \in Int /\ Counts(stage', reg') /\ reg' \in Int
    BY <1>1, <1>4 DEF Counts
  <2> QED BY <1>1, <1>4, <2>1, WithOutFits, KeepsGInv
<1> QED BY <1>2, <1>3, <1>4

LEMMA PrintfEndsGInv == GInv /\ PrintfEnds => GInv'
<1> SUFFICES ASSUME GInv, PrintfEnds PROVE GInv'
  OBVIOUS
<1>1. /\ stage \in Outside /\ stage' \in Outside
  BY EndGoes DEF Outside
<1>2. /\ scr.x \in 0 .. SCREEN_WIDTH - 1 /\ scr.y \in 0 .. SCREEN_HEIGHT - 1
      /\ scr.out_x \in 0 .. SCREEN_WIDTH - 1 /\ scr.out_y \in 0 .. SCREEN_HEIGHT - 1
  BY <1>1, OutsideFits
<1>3. /\ Greater(scr.out_x, scr.x) \in 0 .. SCREEN_WIDTH - 1
      /\ Greater(scr.out_x, 0) \in 0 .. SCREEN_WIDTH - 1
      /\ Greater(scr.out_y, 0) \in 0 .. SCREEN_HEIGHT - 1
  BY <1>2, ScreenSize DEF Greater
<1>4. CASE SetOutX("endx", "endx2", "endy")
  BY <1>4, SetOutXGInv
<1>5. CASE SetOutY("last2", "run")
  BY <1>5, SetOutYGInv
<1>6. CASE \/ Tests("putc", IF scr.y > scr.out_y THEN "endx" ELSE "same")
           \/ Reads("endy", "endy2", scr.y)
           \/ Reads("same", "same2", Greater(scr.out_x, scr.x))
           \/ Reads("least", "least2", Greater(scr.out_x, 0))
           \/ Reads("last", "last2", Greater(scr.out_y, 0))
  <2>1. scr' = scr /\ UNCHANGED <<todo, ch>>
    BY <1>6 DEF Tests, Reads, Does
  <2>2. Counts(stage', reg') /\ reg' \in Int
    BY <1>2, <1>3, <1>6 DEF Tests, Reads, Does, Goes, Counts
  <2> QED BY <1>1, <2>1, <2>2, EndsGInv
<1>7. CASE \/ Writes("same2", "least", [scr EXCEPT !.out_x = reg])
           \/ Writes("least2", "last", [scr EXCEPT !.out_x = reg])
  <2>1. /\ scr' = WithOutX(scr, reg) /\ stage \in {"same2", "least2"}
        /\ stage' \in {"least", "last"} /\ reg' = 0 /\ UNCHANGED <<todo, ch>>
    BY <1>7 DEF Writes, Does, Goes, WithOutX
  <2> QED BY <1>1, <2>1, EndsGInv
<1>8. CASE Writes("endy2", "least", [scr EXCEPT !.out_y = reg])
  <2>1. /\ scr' = WithOutY(scr, reg) /\ stage = "endy2"
        /\ stage' = "least" /\ reg' = 0 /\ UNCHANGED <<todo, ch>>
    BY <1>8 DEF Writes, Does, Goes, WithOutY
  <2> QED BY <1>1, <2>1, EndsGInv
<1> QED
  BY <1>4, <1>5, <1>6, <1>7, <1>8 DEF PrintfEnds

LEMMA PrintsGInv == GInv /\ Prints => GInv'
<1> SUFFICES ASSUME GInv, Prints PROVE GInv'
  OBVIOUS
<1>1. ASSUME NEW text \in Texts, Printf(text) PROVE GInv'
  <2>1. text \in Seq({Printed, Newline})
    BY ConsoleAssumption DEF ConsoleAssumption
  <2>2. /\ stage \in Outside /\ stage' \in Outside /\ todo' = text
        /\ scr' = scr /\ reg' = reg /\ ch' = ch /\ stage' = "putc"
    BY <1>1 DEF Printf, Outside
  <2>3. Counts(stage', reg') /\ reg' \in Int
    BY <2>2 DEF Counts, GInv
  <2> QED
    BY <2>1, <2>2, <2>3, OutsideFits, KeepsGInv
<1>2. CASE PutcNewline \/ PutcCharacter \/ LineCheck
  BY <1>2, PutcGInv
<1>3. CASE PutcDone
  <2>1. /\ todo # <<>> /\ todo' = Tail(todo) /\ stage = "next" /\ stage' = "putc"
        /\ scr' = scr /\ reg' = reg /\ ch' = ch
    BY <1>3 DEF PutcDone, Goes, GInv, InPutc
  <2>2. todo' \in Seq({Printed, Newline})
    BY <2>1 DEF GInv
  <2>3. Fits("run", scr') /\ Counts(stage', reg') /\ reg' \in Int
    BY <2>1, ScreenSize DEF GInv, OnScreen, Fits, Below, Above, Counts
  <2>4. stage' \in Outside
    BY <2>1 DEF Outside
  <2> QED BY <2>1, <2>2, <2>3, <2>4, KeepsGInv
<1>4. CASE PrintfEnds
  BY <1>4, PrintfEndsGInv
<1> QED
  BY <1>1, <1>2, <1>3, <1>4 DEF Prints

LEMMA ReadGInv == Waiting /\ GInv /\ Read => GInv'
<1> SUFFICES ASSUME Waiting, GInv, Read PROVE GInv'
  OBVIOUS
<1>1. CASE Wait
  BY <1>1 DEF Wait, kernel_vars, GInv, OnScreen
<1>2. CASE \/ SetOutX("outx", "outx2", "outy")
           \/ SetOutY("outy2", IF buffer = <<>> THEN "again" ELSE "run")
  BY <1>2, SetOutXGInv, SetOutYGInv
<1>3. CASE Reads("outy", "outy2", scr.y)
  <2>1. /\ stage \in Outside /\ stage' \in Outside /\ scr' = scr
        /\ UNCHANGED <<todo, ch>> /\ reg' = scr.y
    BY <1>3 DEF Reads, Does, Goes, Outside
  <2>2. Counts(stage', reg') /\ reg' \in Int
    BY <1>3, <2>1, OutsideFits DEF Reads, Does, Goes, Counts
  <2> QED BY <2>1, <2>2, EndsGInv
<1>4. CASE Ask \/ Answer \/ CopyRow \/ Tests("copy", "outx")
  <2>1. /\ stage \in {"run", "again", "read", "copy"}
        /\ stage' \in {"read", "copy", "outx"}
        /\ scr' = scr /\ UNCHANGED <<todo, ch>> /\ reg' \in {0, reg}
    <3>1. CASE Ask
      BY <3>1 DEF Ask
    <3>2. CASE Answer
      BY <3>2 DEF Answer, TestChar, Test, Goto, Waiting
    <3>3. CASE CopyRow
      BY <3>3 DEF CopyRow, Goes
    <3>4. CASE Tests("copy", "outx")
      BY <3>4 DEF Tests, Does, Goes
    <3> QED BY <1>4, <3>1, <3>2, <3>3, <3>4
  <2>2. Counts(stage', reg') /\ reg' \in Int
    BY <2>1 DEF Counts, GInv
  <2>3. stage \in Outside /\ stage' \in Outside
    BY <2>1 DEF Outside
  <2> QED BY <2>1, <2>2, <2>3, EndsGInv
<1> QED
  BY <1>1, <1>2, <1>3, <1>4 DEF Read

(* Wherever the kernel is, an echo is a whole putc.                        *)
LEMMA PressGInv == ASSUME GInv, NEW e \in Event, Press(e) PROVE GInv'
<1>1. UNCHANGED <<stage, todo, reg, ch>> /\ scr' = Echo(e)
  BY DEF Press, kernel_vars
<1>2. CASE scr' = scr
  BY <1>1, <1>2 DEF GInv, OnScreen
<1>3. CASE scr' = putc(scr, CodeOf(e.key, upper))
  <2>1. Settled(scr, scr')
    BY <1>3, GInvOnGrid, PutcSettles
  <2> QED
    BY <1>1, <2>1, ScreenSize DEF Settled, OnGrid, GInv, OnScreen
<1> QED
  BY <1>1, <1>2, <1>3 DEF Echo

LEMMA StepGInv == Waiting /\ GInv /\ [CNext]_cvars => GInv'
<1> SUFFICES ASSUME Waiting, GInv, [CNext]_cvars PROVE GInv'
  OBVIOUS
<1>1. ASSUME NEW kernel \in BOOLEAN, Tick(kernel) PROVE GInv'
  BY <1>1 DEF Tick, kernel_vars, GInv, OnScreen
<1>2. CASE UNCHANGED cvars
  BY <1>2 DEF cvars, kernel_vars, GInv, OnScreen
<1> QED
  BY <1>1, <1>2, PrintsGInv, ReadGInv, PressGInv DEF CNext

(* The cursors leave the screen by one column or row at most, and only at  *)
(* the places that OnScreen names, on screens of any size, for any text    *)
(* and any keys between two steps of the kernel's putc, its scrolling      *)
(* included (stdio.c:61-91, 116-220).                                      *)
THEOREM CursorsStayOnScreen == CSpec => []OnScreen
<1>1. CInit => Waiting
  BY DEF CInit, Init, Waiting
<1>2. CSpec => [](Waiting /\ GInv)
  BY <1>1, InitGInv, StepWaiting, StepGInv, PTL DEF CSpec
<1>3. GInv => OnScreen
  BY DEF GInv
<1> QED
  BY <1>2, <1>3, PTL

-----------------------------------------------------------------------------
(* What is printed.                                                        *)
Idle == {"run", "again", "read", "copy", "outx", "least", "least2", "last", "last2"}

(* Where the out cursor does not count, because it will be moved.          *)
Strict == Idle \cup Raising \cup
          {"endx2", "outx2", "endy", "outy", "endy2", "outy2", "same2", "cleared", "up"}

(* Printed characters are before the out cursor between calls of printf;   *)
(* and before the cursor while it prints, but for the steps between which  *)
(* the cursor has not followed yet, or has been read and not yet written;  *)
(* while scrollback takes the rows up, they have to be before where the    *)
(* cursor will be; and when only a part of the out cursor has been set, to *)
(* before where it will be.                                                *)
Mark(at, s, r) ==
    CASE at \in Idle -> OutAt(s)
      [] at \in {"endx2", "outx2"} -> Lin(r, s.y)
      [] at \in {"endy", "outy"} -> Lin(s.out_x, s.y)
      [] at \in {"endy2", "outy2"} -> Lin(s.out_x, r)
      [] at = "same2" -> Lin(r, s.out_y)
      [] at = "advance" -> CursorAt(s) + 1
      [] at = "forward" -> Lin(r, s.y) + 1
      [] at \in {"newline", "feed"} -> Lin(0, s.y + 1)
      [] at \in {"down", "fed"} -> Lin(0, r + 1)
      [] at \in {"settle", "left", "search", "found"} -> Lin(0, s.y)
      [] at \in Copying -> Bottom
      [] at = "cleared" -> Lin(0, s.y - 1)
      [] at = "up" -> Lin(0, r - 1)
      [] OTHER -> CursorAt(s)

Reaches(at, s, r, i) ==
    /\ i < Mark(at, s, r) \/ (at \notin Strict /\ i < OutAt(s))
    /\ at = "clear" => i \notin Bottom - SCREEN_WIDTH .. r - 1

(* What the kernel has found, and relies on.                               *)
Beside(at, s, r) ==
    /\ s.y >= 0
    /\ at \notin {"top", "corner"}
    /\ at \in Copying => s.y >= SCREEN_HEIGHT
    /\ at = "cleared" => s.y >= 1
    /\ at = "up" => r >= 1
    /\ at = "put" => r = CursorAt(s)
    /\ at = "same" => s.y <= s.out_y
    /\ at \in {"same2", "least2"} => r >= s.out_x
    /\ at = "last2" => r >= s.out_y

Within(at, s, r) ==
    /\ Beside(at, s, r)
    /\ \A i \in PrintedIn(s) : i < Bottom /\ Reaches(at, s, r, i)

PrintedInv == ~disturbed => Within(stage, scr, reg)

(* A put that is not of a printed character prints nothing.                *)
LEMMA PutPrintsNothing ==
    ASSUME NEW s \in Screen, NEW c \in Char, c # Printed
    PROVE  PrintedIn(putchar(s, c)) = PrintedIn(s) \ {CursorAt(s)}
<1>1. \A i \in Cell : putchar(s, c).cell[i] = IF i = Lin(s.x, s.y) THEN c ELSE s.cell[i]
  BY StoredType DEF putchar
<1> QED BY <1>1 DEF PrintedIn, CursorAt

(* Looking for the end of the text never passes a printed character.       *)
LEMMA AtTextKeeps ==
    ASSUME NEW s \in Screen, s.x \in Nat, s.y \in Nat, NEW i \in PrintedIn(s)
    PROVE  /\ AtText(s).cell = s.cell
           /\ i < CursorAt(s) => i < CursorAt(AtText(s))
           /\ i <= CursorAt(s) => i <= CursorAt(AtText(s))
<1> DEFINE text == {k \in 0 .. s.x - 1 : getc(s, k, s.y) # Nul}
           last == CHOOSE k \in text : \A j \in text : j <= k
<1>1. /\ i \in Cell /\ i \in Int /\ s.cell[i] = Printed
      /\ Printed # Nul
  BY CellsAreInt DEF PrintedIn, Printed, Nul
<1>2. PICK left \in Int : left = Lin(0, s.y)
  <2>1. s.y \in Int
    OBVIOUS
  <2> QED BY <2>1, LinFacts
<1>3. \A x \in Int : Lin(x, s.y) = left + x
  <2>1. s.y \in Int
    OBVIOUS
  <2> QED BY <1>2, <2>1, LinFacts
<1>4. CASE getc(s, s.x, s.y) # Nul
  <2>1. AtText(s) = s
    BY <1>4 DEF AtText
  <2> QED BY <2>1
<1>5. CASE getc(s, s.x, s.y) = Nul
  <2>1. i # CursorAt(s)
    BY <1>1, <1>5 DEF getc, CursorAt
  <2>2. CursorAt(s) = left + s.x
    BY <1>3 DEF CursorAt
  <2>3. ASSUME left <= i, i < CursorAt(s) PROVE i - left \in text
    <3>1. i - left \in 0 .. s.x - 1
      BY <1>1, <2>2, <2>3
    <3>2. Lin(i - left, s.y) = i
      BY <1>1, <1>3
    <3> QED BY <1>1, <3>1, <3>2 DEF getc
  <2>4. CASE text = {}
    <3>1. AtText(s) = [s EXCEPT !.x = 0]
      BY <1>5, <2>4 DEF AtText
    <3>2. AtText(s).cell = s.cell /\ CursorAt(AtText(s)) = left
      BY <1>3, <3>1 DEF CursorAt, Screen
    <3> QED BY <1>1, <2>1, <2>2, <2>3, <2>4, <3>2
  <2>5. CASE text # {}
    <3>1. last \in text /\ \A j \in text : j <= last
      <4>1. text \subseteq 0 .. s.x
        OBVIOUS
      <4>2. \E k \in text : \A j \in text : j <= k
        BY <2>5, <4>1, GreatestExists
      <4> QED BY <4>2
    <3>2. AtText(s) = [s EXCEPT !.x = last + 1]
      BY <1>5, <2>5 DEF AtText
    <3> HIDE DEF last
    <3>3. last \in Nat
      BY <3>1
    <3>4. AtText(s).cell = s.cell /\ CursorAt(AtText(s)) = left + (last + 1)
      BY <1>3, <3>2, <3>3 DEF CursorAt, Screen
    <3>5. left <= i /\ i < CursorAt(s) => i - left <= last
      BY <2>3, <3>1
    <3> HIDE DEF text
    <3> QED BY <1>1, <2>1, <2>2, <3>3, <3>4, <3>5
  <2> QED BY <2>4, <2>5
<1> QED BY <1>4, <1>5

(* Scrolling takes everything one row up.                                  *)
LEMMA ScrollKeeps ==
    ASSUME NEW s \in Screen, s.x \in 0 .. SCREEN_WIDTH, s.y \in Nat,
           s.out_x \in 0 .. SCREEN_WIDTH - 1, s.out_y \in Int,
           \A i \in PrintedIn(s) : i < Bottom
    PROVE  /\ \A j \in PrintedIn(scrollback(s)) :
                 j + SCREEN_WIDTH \in PrintedIn(s) /\ j + SCREEN_WIDTH < Bottom
           /\ \A i \in PrintedIn(s) :
                 i >= SCREEN_WIDTH => i - SCREEN_WIDTH \in PrintedIn(scrollback(s))
           /\ OutAt(s) <= OutAt(scrollback(s)) + SCREEN_WIDTH
           /\ CursorAt(s) <= CursorAt(scrollback(s)) + SCREEN_WIDTH
<1>1. PICK w \in Nat : w = SCREEN_WIDTH
  BY ScreenSize
<1>2. PICK low \in Int : low = SCREEN_WIDTH * (SCREEN_HEIGHT - 1)
  <2>1. SCREEN_WIDTH * (SCREEN_HEIGHT - 1) \in Int
    BY ScreenSize
  <2> QED BY <2>1
<1>3. PICK all \in Int : all = SCREEN_WIDTH * SCREEN_HEIGHT
  <2>1. SCREEN_WIDTH * SCREEN_HEIGHT \in Int
    BY ScreenSize
  <2> QED BY <2>1
<1>4. low + w = all /\ Bottom = all /\ Cell = 0 .. all + w - 1
  <2>1. SCREEN_WIDTH * (SCREEN_HEIGHT - 1) + SCREEN_WIDTH = SCREEN_WIDTH * SCREEN_HEIGHT
    BY ScreenSize
  <2>2. SCREEN_HEIGHT * SCREEN_WIDTH + 0 = SCREEN_WIDTH * SCREEN_HEIGHT
    BY ScreenSize
  <2>3. SCREEN_WIDTH * (SCREEN_HEIGHT + 1) = SCREEN_WIDTH * SCREEN_HEIGHT + SCREEN_WIDTH
    BY ScreenSize
  <2> QED BY <1>1, <1>2, <1>3, <2>1, <2>2, <2>3 DEF Bottom, Lin, Cell
<1>5. PICK t : t = scrollback(s)
  OBVIOUS
<1>6. \A j \in Cell : t.cell[j] = IF j < low THEN s.cell[j + w]
                                  ELSE IF j < all THEN Nul ELSE s.cell[j]
  BY <1>1, <1>2, <1>3, <1>5 DEF scrollback
<1>7. Nul # Printed /\ \A i \in PrintedIn(s) : i < all
  BY <1>4 DEF Nul, Printed
<1>8. ASSUME NEW j \in PrintedIn(t) PROVE j + w \in PrintedIn(s) /\ j + w < all
  <2>1. j \in Cell /\ t.cell[j] = Printed
    BY DEF PrintedIn
  <2>2. j < low
    BY <1>4, <1>6, <1>7, <2>1 DEF PrintedIn
  <2>3. j + w \in Cell /\ s.cell[j + w] = Printed
    BY <1>4, <1>6, <2>1, <2>2
  <2> QED BY <1>4, <2>1, <2>2, <2>3 DEF PrintedIn
<1>9. ASSUME NEW i \in PrintedIn(s), i >= w PROVE i - w \in PrintedIn(t)
  <2>1. i \in Cell /\ s.cell[i] = Printed /\ i < all
    BY <1>7 DEF PrintedIn
  <2>2. i - w \in Cell /\ i - w < low /\ (i - w) + w = i
    BY <1>4, <1>9, <2>1
  <2> QED BY <1>6, <2>1, <2>2 DEF PrintedIn
<1>10. \A x, y \in Int : Lin(x, y) = Lin(x, y - 1) + w
  <2> SUFFICES ASSUME NEW x \in Int, NEW y \in Int PROVE Lin(x, y) = Lin(x, y - 1) + w
    OBVIOUS
  <2>1. PICK z \in Int : z = y - 1
    OBVIOUS
  <2>2. /\ Lin(x, y) = Lin(0, y) + x /\ Lin(x, z) = Lin(0, z) + x
        /\ Lin(0, z) \in Int
    BY LinFacts
  <2>3. Lin(0, z + 1) = Lin(0, z) + w /\ z + 1 = y
    BY <1>1, <2>1, LinFacts
  <2> QED BY <2>1, <2>2, <2>3
<1>11. /\ t.x = IF s.y > 0 THEN s.x ELSE 0
       /\ t.y = IF s.y > 0 THEN s.y - 1 ELSE 0
       /\ t.out_x = IF s.out_y > 0 THEN s.out_x ELSE 0
       /\ t.out_y = IF s.out_y > 0 THEN s.out_y - 1 ELSE 0
  BY <1>5, ScrollbackEnds
<1>12. \A x \in Int : Lin(x, 0) = x
  BY LinFacts
<1>13. OutAt(s) <= OutAt(t) + w
  <2>1. CASE s.out_y > 0
    <3>1. s.out_x \in Int /\ s.out_y \in Int /\ s.out_y - 1 \in Int
      BY ScreenSize
    <3>2. OutAt(s) = OutAt(t) + w
      BY <1>10, <1>11, <2>1, <3>1 DEF OutAt
    <3>3. OutAt(t) \in Int
      BY <1>11, <2>1, <3>1, LinFacts DEF OutAt
    <3> QED BY <3>2, <3>3
  <2>2. CASE ~(s.out_y > 0)
    <3>1. OutAt(t) = 0
      BY <1>11, <1>12, <2>2 DEF OutAt
    <3>2. /\ Lin(0, s.out_y) <= Lin(0, 0) /\ Lin(0, 0) = 0 /\ Lin(0, s.out_y) \in Int
          /\ OutAt(s) = Lin(0, s.out_y) + s.out_x
      <4>1. s.out_y <= 0 /\ 0 \in Int /\ s.out_x \in Int /\ s.out_y \in Int
        BY <2>2
      <4> QED BY <4>1, LinFacts DEF OutAt
    <3> QED BY <1>1, <3>1, <3>2
  <2> QED BY <2>1, <2>2
<1>14. CursorAt(s) <= CursorAt(t) + w
  <2>1. CASE s.y > 0
    <3>1. s.x \in Int /\ s.y \in Int /\ s.y - 1 \in Int
      BY ScreenSize
    <3>2. CursorAt(s) = CursorAt(t) + w
      BY <1>10, <1>11, <2>1, <3>1 DEF CursorAt
    <3>3. CursorAt(t) \in Int
      BY <1>11, <2>1, <3>1, LinFacts DEF CursorAt
    <3> QED BY <3>2, <3>3
  <2>2. CASE s.y = 0
    <3>1. CursorAt(s) = s.x /\ CursorAt(t) = 0
      BY <1>11, <1>12, <2>2, ScreenSize DEF CursorAt
    <3> QED BY <1>1, <3>1
  <2> QED BY <2>1, <2>2
<1> QED BY <1>1, <1>4, <1>5, <1>8, <1>9, <1>13, <1>14

(* The cells count upwards: what is beyond the out cursor has a greater    *)
(* number.                                                                 *)
LEMMA BeyondLin ==
    ASSUME NEW s, s.x \in Nat, s.y \in Nat,
           s.out_x \in 0 .. SCREEN_WIDTH - 1, s.out_y \in Int,
           NEW n \in {0, 1}, BeyondOut(s, n)
    PROVE  /\ CursorAt(s) \in Int /\ OutAt(s) \in Int
           /\ CursorAt(s) >= OutAt(s) + n
<1>1. /\ s.x \in Int /\ s.y \in Int /\ s.out_x \in Int /\ s.out_y \in Int
      /\ s.out_y + 1 \in Int /\ SCREEN_WIDTH \in Int
  BY ScreenSize
<1>2. /\ Lin(0, s.y) \in Int /\ Lin(0, s.out_y) \in Int
      /\ CursorAt(s) = Lin(0, s.y) + s.x
      /\ OutAt(s) = Lin(0, s.out_y) + s.out_x
      /\ Lin(0, s.out_y + 1) = Lin(0, s.out_y) + SCREEN_WIDTH
  BY <1>1, LinFacts DEF CursorAt, OutAt
<1>3. CASE s.y > s.out_y
  <2>1. Lin(0, s.out_y + 1) <= Lin(0, s.y)
    <3>1. s.out_y + 1 <= s.y
      BY <1>3
    <3> QED BY <1>1, <3>1, LinFacts
  <2> QED BY <1>1, <1>2, <2>1
<1>4. CASE s.y = s.out_y /\ s.x >= s.out_x + n
  BY <1>1, <1>2, <1>4
<1> QED BY <1>3, <1>4 DEF BeyondOut

LEMMA InRowCell == ASSUME NEW s \in Screen PROVE InRow(s).cell = s.cell
BY DEF InRow, Screen

LEMMA AtTextCell == ASSUME NEW s \in Screen PROVE AtText(s).cell = s.cell
<1> DEFINE text == {k \in 0 .. s.x - 1 : getc(s, k, s.y) # Nul}
<1>1. CASE getc(s, s.x, s.y) # Nul
  BY <1>1 DEF AtText
<1>2. CASE getc(s, s.x, s.y) = Nul
  <2>1. PICK x : AtText(s) = [s EXCEPT !.x = x]
    <3>1. CASE text = {}
      BY <1>2, <3>1 DEF AtText
    <3>2. CASE text # {}
      BY <1>2, <3>2 DEF AtText
    <3> QED BY <3>1, <3>2
  <2> QED BY <2>1 DEF Screen
<1> QED BY <1>1, <1>2

(* A line that is wrapped goes on in the next one.                         *)
LEMMA WrapKeeps ==
    ASSUME NEW u \in Screen, u.x \in 0 .. SCREEN_WIDTH + 1, u.y \in Nat
    PROVE  /\ Wrapped(u) \in Screen
           /\ Wrapped(u).x \in 0 .. SCREEN_WIDTH - 1
           /\ Wrapped(u).out_x = u.out_x /\ Wrapped(u).out_y = u.out_y
           /\ PrintedIn(Wrapped(u)) = PrintedIn(u)
           /\ IF u.x >= SCREEN_WIDTH
              THEN Wrapped(u).x = 0 /\ Wrapped(u).y = u.y + 1
              ELSE Wrapped(u).x = u.x /\ Wrapped(u).y = u.y
           /\ CursorAt(u) \in Int /\ CursorAt(Wrapped(u)) \in Int
           /\ u.x <= SCREEN_WIDTH => CursorAt(Wrapped(u)) = CursorAt(u)
           /\ CursorAt(Wrapped(u)) >= CursorAt(u) - 1
<1>1. /\ u.x \in Int /\ u.y \in Int /\ 0 \in Int /\ u.y + 1 \in Int
      /\ SCREEN_WIDTH \in Int
  BY ScreenSize
<1>2. CursorAt(u) = Lin(0, u.y) + u.x /\ Lin(0, u.y) \in Int
  BY <1>1, LinFacts DEF CursorAt
<1>3. CASE u.x >= SCREEN_WIDTH
  <2>1. PICK v : v = Wrapped(u)
    OBVIOUS
  <2>2. v = Placed(u, 0, u.y + 1)
    BY <1>3, <2>1 DEF Wrapped, AtLeast, Screen, Placed
  <2>3. v \in Screen /\ v.x = 0 /\ v.y = u.y + 1
        /\ v.out_x = u.out_x /\ v.out_y = u.out_y
    BY <1>1, <2>2, PlacedType
  <2>4. v.cell = u.cell
    BY <2>2 DEF Placed, Screen
  <2>5. CursorAt(v) = Lin(0, u.y) + SCREEN_WIDTH
    BY <1>1, <2>3, LinFacts DEF CursorAt
  <2> QED
    BY <1>1, <1>2, <1>3, <2>1, <2>3, <2>4, <2>5, ScreenSize DEF PrintedIn
<1>4. CASE ~(u.x >= SCREEN_WIDTH)
  <2>1. Wrapped(u) = u
    BY <1>1, <1>4 DEF Wrapped, AtLeast
  <2> QED BY <1>1, <1>2, <1>4, <2>1, ScreenSize
<1> QED BY <1>3, <1>4

(* Where a character other than Backspace or an arrow brings the cursor,   *)
(* before the screen is scrolled: no printed character is new, and what    *)
(* was before the cursor still is.                                         *)
Forward(s, w) ==
    /\ w \in Screen
    /\ w.x \in 0 .. SCREEN_WIDTH - 1 /\ w.y \in s.y .. s.y + 1
    /\ w.out_x = s.out_x /\ w.out_y = s.out_y
    /\ PrintedIn(w) \subseteq PrintedIn(s)
    /\ CursorAt(w) \in Int
    /\ \A i \in PrintedIn(w) :
          /\ i < CursorAt(s) => i < CursorAt(w)
          /\ i <= CursorAt(s) => i <= CursorAt(w)

Forwards(s, t) == \E w : t = Scrolled(w) /\ Forward(s, w)

LEMMA PutForward ==
    ASSUME NEW s, OnGrid(s), s.y >= 0, NEW c \in Char, c # Printed, BeyondOut(s, 0)
    PROVE  Forward(s, Wrapped(Advanced(putchar(s, c))))
<1>0. /\ s \in Screen /\ s.x \in 0 .. SCREEN_WIDTH /\ s.y \in Nat
      /\ s.x \in Int /\ s.y \in Int /\ s.x + 1 \in Int
  BY ScreenSize DEF OnGrid
<1>1. PICK p : p = putchar(s, c)
  OBVIOUS
<1>2. /\ p \in Screen /\ p.x = s.x /\ p.y = s.y
      /\ p.out_x = s.out_x /\ p.out_y = s.out_y
      /\ PrintedIn(p) = PrintedIn(s) \ {CursorAt(s)}
  BY <1>0, <1>1, PutcharType, PutPrintsNothing
<1>3. PICK u : u = [p EXCEPT !.x = p.x + 1]
  OBVIOUS
<1>4. u = Advanced(p)
  BY <1>2, <1>3 DEF Advanced, Screen
<1>5. /\ u \in Screen /\ u.x = s.x + 1 /\ u.y = s.y
      /\ u.out_x = s.out_x /\ u.out_y = s.out_y
      /\ u.cell = p.cell
  BY <1>0, <1>2, <1>3 DEF Screen
<1>6. PrintedIn(u) = PrintedIn(s) \ {CursorAt(s)}
  BY <1>2, <1>5 DEF PrintedIn
<1>7. CursorAt(s) \in Int /\ CursorAt(u) = CursorAt(s) + 1
  <2>1. /\ CursorAt(s) = Lin(0, s.y) + s.x /\ Lin(0, s.y) \in Int
        /\ CursorAt(u) = Lin(0, s.y) + (s.x + 1)
    BY <1>0, <1>5, LinFacts DEF CursorAt
  <2> QED BY <1>0, <2>1
<1>8. PICK w : w = Wrapped(u)
  OBVIOUS
<1>9. /\ w \in Screen /\ w.x \in 0 .. SCREEN_WIDTH - 1 /\ w.y \in s.y .. s.y + 1
      /\ w.out_x = s.out_x /\ w.out_y = s.out_y
      /\ PrintedIn(w) = PrintedIn(u)
      /\ CursorAt(w) \in Int /\ CursorAt(w) >= CursorAt(s)
  <2>1. u.x \in 0 .. SCREEN_WIDTH + 1 /\ u.y \in Nat
    BY <1>0, <1>5, ScreenSize
  <2> QED BY <1>0, <1>5, <1>7, <1>8, <2>1, WrapKeeps
<1>10. ASSUME NEW i \in PrintedIn(w)
       PROVE  /\ i \in Int
              /\ i < CursorAt(s) => i < CursorAt(w)
              /\ i <= CursorAt(s) => i <= CursorAt(w)
  <2>1. i \in Int
    BY CellsAreInt DEF PrintedIn
  <2> QED BY <1>7, <1>9, <2>1
<1> QED BY <1>1, <1>4, <1>6, <1>8, <1>9, <1>10 DEF Forward

(* A cursor that stays, or goes to the next line, and then to the text.    *)
LEMMA TextForward ==
    ASSUME NEW s, OnGrid(s), s.y >= 0, NEW m \in Screen, m.cell = s.cell,
           m.out_x = s.out_x, m.out_y = s.out_y,
           m.x \in 0 .. SCREEN_WIDTH, m.y \in s.y .. s.y + 1,
           m.y > s.y => m.x = 0, m.y = s.y => m.x = s.x
    PROVE  Forward(s, Wrapped(AtText(InRow(m))))
<1>0. /\ s \in Screen /\ s.x \in 0 .. SCREEN_WIDTH /\ s.y \in Nat
      /\ s.x \in Int /\ s.y \in Int /\ m.y \in Nat /\ m.x \in Nat
      /\ m.x \in Int /\ m.y \in Int
  BY ScreenSize DEF OnGrid
<1>1. InRow(m) = m
  BY <1>0 DEF InRow
<1>2. PICK u : u = AtText(m)
  OBVIOUS
<1>3. /\ u \in Screen /\ u.x \in 0 .. m.x /\ u.y = m.y
      /\ u.out_x = s.out_x /\ u.out_y = s.out_y
      /\ u.cell = s.cell
  BY <1>0, <1>2, AtTextEnds, AtTextCell
<1>4. PICK w : w = Wrapped(u)
  OBVIOUS
<1>5. u.x \in 0 .. SCREEN_WIDTH + 1 /\ u.y \in Nat /\ u.x <= SCREEN_WIDTH
  BY <1>0, <1>3, ScreenSize
<1>6. /\ w \in Screen /\ w.x \in 0 .. SCREEN_WIDTH - 1
      /\ w.y \in s.y .. s.y + 1
      /\ w.out_x = s.out_x /\ w.out_y = s.out_y
      /\ PrintedIn(w) = PrintedIn(u)
      /\ CursorAt(w) \in Int /\ CursorAt(w) = CursorAt(u)
  <2>1. u.x >= SCREEN_WIDTH => m.y = s.y
    BY <1>0, <1>3, ScreenSize
  <2>2. /\ w \in Screen /\ w.x \in 0 .. SCREEN_WIDTH - 1
        /\ w.out_x = u.out_x /\ w.out_y = u.out_y
        /\ PrintedIn(w) = PrintedIn(u)
        /\ w.y = IF u.x >= SCREEN_WIDTH THEN u.y + 1 ELSE u.y
        /\ CursorAt(w) \in Int /\ CursorAt(w) = CursorAt(u)
    BY <1>3, <1>4, <1>5, WrapKeeps
  <2>3. w.y \in s.y .. s.y + 1
    BY <1>0, <1>3, <2>1, <2>2
  <2> QED BY <1>3, <2>2, <2>3
<1>7. PrintedIn(u) = PrintedIn(s) /\ PrintedIn(m) = PrintedIn(s)
  BY <1>3 DEF PrintedIn
<1>8. CursorAt(s) \in Int /\ CursorAt(m) \in Int /\ CursorAt(m) >= CursorAt(s)
  <2>1. /\ CursorAt(s) = Lin(0, s.y) + s.x /\ Lin(0, s.y) \in Int
        /\ CursorAt(m) = Lin(0, m.y) + m.x /\ Lin(0, m.y) \in Int
    BY <1>0, LinFacts DEF CursorAt
  <2>2. CASE m.y = s.y
    BY <1>0, <2>1, <2>2
  <2>3. CASE m.y = s.y + 1
    <3>1. Lin(0, m.y) = Lin(0, s.y) + SCREEN_WIDTH
      BY <1>0, <2>3, LinFacts
    <3> QED BY <1>0, <2>1, <2>3, <3>1, ScreenSize
  <2> QED BY <1>0, <2>2, <2>3
<1>9. ASSUME NEW i \in PrintedIn(w)
      PROVE  /\ i < CursorAt(s) => i < CursorAt(w)
             /\ i <= CursorAt(s) => i <= CursorAt(w)
  <2>1. i \in PrintedIn(m)
    BY <1>6, <1>7
  <2>2. i \in Int
    BY <2>1, CellsAreInt DEF PrintedIn
  <2>3. /\ i < CursorAt(m) => i < CursorAt(u)
        /\ i <= CursorAt(m) => i <= CursorAt(u)
    BY <1>0, <1>2, <2>1, AtTextKeeps
  <2> QED BY <1>6, <1>8, <2>2, <2>3
<1> QED BY <1>1, <1>2, <1>4, <1>6, <1>7, <1>9 DEF Forward

LEMMA PutPlainForward ==
    ASSUME NEW s, OnGrid(s), s.y >= 0, NEW c \in (Char \ {Printed}) \cup {Newline}
    PROVE  Forwards(s, PutPlain(s, c))
<1>0. s \in Screen /\ s.x \in 0 .. SCREEN_WIDTH /\ s.y \in Nat
  BY ScreenSize DEF OnGrid
<1>1. CASE c \in Char /\ BeyondOut(s, 0)
  BY <1>1, PutForward DEF PutPlain, Forwards, Char, Newline, Nul, Space, Printed, Lower, Upper
<1>2. CASE ~(c \in Char /\ BeyondOut(s, 0))
  <2>1. Forward(s, Wrapped(AtText(InRow(Moved(s, c)))))
    <3>1. CASE c = Newline
      <4>1. Moved(s, c) = Placed(s, 0, s.y + 1)
        BY <1>0, <3>1 DEF Moved, Placed, Screen, Newline, Backspace
      <4>2. PICK m : m = Moved(s, c)
        OBVIOUS
      <4>3. /\ m \in Screen /\ m.x = 0 /\ m.y = s.y + 1
            /\ m.out_x = s.out_x /\ m.out_y = s.out_y
        BY <1>0, <4>1, <4>2, PlacedType
      <4>4. m.cell = s.cell
        BY <1>0, <4>1, <4>2 DEF Placed, Screen
      <4> QED BY <1>0, <4>2, <4>3, <4>4, TextForward, ScreenSize
    <3>2. CASE c # Newline
      <4>1. c \in {"nul", "space", "a", "A"}
        BY <3>2 DEF Char, Nul, Space, Printed, Lower, Upper
      <4>2. Moved(s, c) = s
        BY <4>1 DEF Moved, Newline, Backspace
      <4> QED BY <1>0, <4>2, TextForward
    <3> QED BY <3>1, <3>2
  <2> QED BY <1>2, <2>1 DEF PutPlain, Forwards
<1> QED BY <1>1, <1>2

(* The cells that Within compares.                                         *)
LEMMA PlacesAreInt ==
    ASSUME NEW s, s.x \in Int, s.y \in Int, s.out_x \in Int, s.out_y \in Int
    PROVE  /\ CursorAt(s) \in Int /\ OutAt(s) \in Int /\ Bottom \in Int
           /\ Lin(0, s.y) \in Int /\ Lin(0, s.y + 1) \in Int
           /\ Lin(0, s.y + 1) = Lin(0, s.y) + SCREEN_WIDTH
           /\ Lin(s.out_x, s.y) \in Int
           /\ Lin(s.out_x, s.y) = Lin(0, s.y) + s.out_x
           /\ CursorAt(s) = Lin(0, s.y) + s.x
           /\ OutAt(s) = Lin(0, s.out_y) + s.out_x
           /\ Lin(0, s.out_y) \in Int
<1>1. 0 \in Int /\ SCREEN_HEIGHT \in Int /\ s.y + 1 \in Int
  BY ScreenSize
<1> QED BY <1>1, LinFacts DEF CursorAt, OutAt, Bottom

LEMMA PrintedAreInt == ASSUME NEW s PROVE \A i \in PrintedIn(s) : i \in Int
<1>1. PrintedIn(s) \subseteq Cell
  BY DEF PrintedIn
<1>2. PrintedIn(s) \subseteq Nat
  BY <1>1, CellsAreInt
<1> QED BY <1>2

(* Where the mark is not before the cursor.                                *)
Marked == Idle \cup Copying \cup
          {"endx2", "outx2", "endy", "outy", "endy2", "outy2", "same2",
           "advance", "forward", "newline", "feed", "down", "fed",
           "settle", "left", "search", "found", "cleared", "up"}

LEMMA MarkIs ==
    ASSUME NEW at, NEW s, NEW r
    PROVE  /\ at \in Idle => Mark(at, s, r) = OutAt(s)
           /\ at \in {"endx2", "outx2"} => Mark(at, s, r) = Lin(r, s.y)
           /\ at \in {"endy", "outy"} => Mark(at, s, r) = Lin(s.out_x, s.y)
           /\ at \in {"endy2", "outy2"} => Mark(at, s, r) = Lin(s.out_x, r)
           /\ at = "same2" => Mark(at, s, r) = Lin(r, s.out_y)
           /\ at = "advance" => Mark(at, s, r) = CursorAt(s) + 1
           /\ at = "forward" => Mark(at, s, r) = Lin(r, s.y) + 1
           /\ at \in {"newline", "feed"} => Mark(at, s, r) = Lin(0, s.y + 1)
           /\ at \in {"down", "fed"} => Mark(at, s, r) = Lin(0, r + 1)
           /\ at \in {"settle", "left", "search", "found"} => Mark(at, s, r) = Lin(0, s.y)
           /\ at \in Copying => Mark(at, s, r) = Bottom
           /\ at = "cleared" => Mark(at, s, r) = Lin(0, s.y - 1)
           /\ at = "up" => Mark(at, s, r) = Lin(0, r - 1)
           /\ at \notin Marked => Mark(at, s, r) = CursorAt(s)
BY DEF Mark, Idle, Copying, Marked

(* Going forward keeps what is printed before where it may reach.          *)
LEMMA ForwardWithin ==
    ASSUME NEW at, at \notin Halfway, NEW r \in Int, NEW s, OnGrid(s), Within(at, s, r),
           NEW w, Forward(s, w)
    PROVE  Within(at, w, r)
<1>1. /\ s.x \in Int /\ s.y \in Int /\ s.out_x \in Int /\ s.out_y \in Int
      /\ w.x \in Int /\ w.y \in Int /\ s.y <= w.y /\ s.y >= 0
      /\ w.out_x = s.out_x /\ w.out_y = s.out_y
      /\ PrintedIn(w) \subseteq PrintedIn(s)
  BY ScreenSize DEF OnGrid, Forward, Within, Beside
<1>2. /\ CursorAt(s) \in Int /\ CursorAt(w) \in Int
      /\ OutAt(s) \in Int /\ OutAt(w) = OutAt(s)
  BY <1>1, PlacesAreInt DEF OutAt
<1>3. \A x \in Int : /\ Lin(x, s.y) \in Int /\ Lin(x, w.y) \in Int
                     /\ Lin(x, s.y) <= Lin(x, w.y)
  <2> SUFFICES ASSUME NEW x \in Int
               PROVE  /\ Lin(x, s.y) \in Int /\ Lin(x, w.y) \in Int
                      /\ Lin(x, s.y) <= Lin(x, w.y)
    OBVIOUS
  <2>1. /\ Lin(0, s.y) \in Int /\ Lin(0, w.y) \in Int
        /\ Lin(0, s.y) <= Lin(0, w.y)
        /\ Lin(x, s.y) = Lin(0, s.y) + x
        /\ Lin(x, w.y) = Lin(0, w.y) + x
    BY <1>1, LinFacts
  <2> QED BY <2>1
<1>4. /\ Lin(0, s.y + 1) \in Int /\ Lin(0, w.y + 1) \in Int
      /\ Lin(0, s.y + 1) <= Lin(0, w.y + 1)
      /\ Lin(0, s.y - 1) \in Int /\ Lin(0, w.y - 1) \in Int
      /\ Lin(0, s.y - 1) <= Lin(0, w.y - 1)
  <2>1. /\ s.y + 1 \in Int /\ w.y + 1 \in Int /\ s.y + 1 <= w.y + 1
        /\ s.y - 1 \in Int /\ w.y - 1 \in Int /\ s.y - 1 <= w.y - 1
    BY <1>1
  <2> QED BY <2>1, LinFacts
<1>5. Beside(at, w, r)
  BY <1>1 DEF Within, Beside, Halfway, Copying
<1>6. ASSUME NEW i \in PrintedIn(w) PROVE i < Bottom /\ Reaches(at, w, r, i)
  <2>1. /\ i < Bottom /\ Reaches(at, s, r, i)
        /\ i < CursorAt(s) => i < CursorAt(w)
        /\ i <= CursorAt(s) => i <= CursorAt(w)
    BY <1>1 DEF Within, Forward
  <2>2. i \in Int
    BY PrintedAreInt
  <2>3. i < Mark(at, s, r) => i < Mark(at, w, r)
    <3>1. CASE at \in Idle \cup {"endy2", "outy2", "same2", "down", "fed", "up"} \cup Copying
      BY <1>1, <1>2, <3>1, MarkIs
    <3>2. CASE at \in {"endx2", "outx2", "endy", "outy", "forward"}
      BY <1>1, <1>3, <2>2, <3>2, MarkIs
    <3>3. CASE at \in {"newline", "feed", "cleared"}
      BY <1>4, <2>2, <3>3, MarkIs
    <3>4. CASE at \in {"settle", "left", "search", "found"}
      BY <1>3, <2>2, <3>4, MarkIs
    <3>5. CASE at = "advance"
      BY <1>2, <2>1, <2>2, <3>5, MarkIs
    <3>6. CASE at \notin Marked
      BY <2>1, <3>6, MarkIs
    <3> QED BY <3>1, <3>2, <3>3, <3>4, <3>5, <3>6 DEF Marked
  <2> QED BY <1>2, <2>1, <2>3 DEF Reaches, Halfway
<1> QED BY <1>5, <1>6 DEF Within

(* So does scrolling.                                                      *)
LEMMA ScrollWithin ==
    ASSUME NEW at, at \notin Halfway, NEW r \in Int, Counts(at, r),
           NEW s \in Screen, s.x \in 0 .. SCREEN_WIDTH,
           s.y \in Nat, s.y >= SCREEN_HEIGHT,
           s.out_x \in 0 .. SCREEN_WIDTH - 1, s.out_y \in -1 .. SCREEN_HEIGHT - 1,
           Within(at, s, r)
    PROVE  Within(at, scrollback(s), r)
<1>1. PICK t : t = scrollback(s)
  OBVIOUS
<1>2. PICK w \in Nat : w = SCREEN_WIDTH
  BY ScreenSize
<1>3. \A i \in PrintedIn(s) : i < Bottom
  BY DEF Within
<1>4. /\ \A j \in PrintedIn(t) : j + w \in PrintedIn(s) /\ j + w < Bottom
      /\ OutAt(s) <= OutAt(t) + w
      /\ CursorAt(s) <= CursorAt(t) + w
  <2>1. s.out_y \in Int
    OBVIOUS
  <2> QED BY <1>1, <1>2, <1>3, <2>1, ScrollKeeps
<1>5. /\ t.x \in Int /\ t.y \in Int /\ t.out_x \in Int /\ t.out_y \in Int
      /\ t.x >= 0 /\ t.out_x >= 0 /\ t.out_x <= s.out_x
      /\ t.out_y <= s.out_y \/ t.out_y = 0
      /\ s.out_y <= t.out_y + 1 /\ t.out_y >= 0
      /\ t.y = s.y - 1
  <2>1. t.x = IF s.y > 0 THEN s.x ELSE 0
    BY <1>1, ScrollbackEnds
  <2>2. t.y = IF s.y > 0 THEN s.y - 1 ELSE 0
    BY <1>1, ScrollbackEnds
  <2>3. t.out_x = IF s.out_y > 0 THEN s.out_x ELSE 0
    BY <1>1, ScrollbackEnds
  <2>4. t.out_y = IF s.out_y > 0 THEN s.out_y - 1 ELSE 0
    BY <1>1, ScrollbackEnds
  <2> QED BY <2>1, <2>2, <2>3, <2>4, ScreenSize
<1>6. /\ s.x \in Int /\ s.y \in Int /\ s.out_x \in Int /\ s.out_y \in Int
  BY ScreenSize
<1>7. /\ CursorAt(s) \in Int /\ OutAt(s) \in Int /\ Bottom \in Int
      /\ CursorAt(t) \in Int /\ OutAt(t) \in Int
      /\ Lin(0, t.y) \in Int
  BY <1>5, <1>6, PlacesAreInt
<1>8. Bottom <= Lin(0, t.y) + w
  <2>1. t.y + 1 \in Int /\ SCREEN_HEIGHT \in Int /\ SCREEN_HEIGHT <= t.y + 1
    BY <1>5, <1>6, ScreenSize
  <2>2. Lin(0, t.y + 1) = Lin(0, t.y) + w /\ Lin(0, SCREEN_HEIGHT) <= Lin(0, t.y + 1)
    BY <1>2, <1>5, <2>1, LinFacts
  <2> QED BY <2>2 DEF Bottom
<1>9. Beside(at, t, r)
  <2>1. t.y >= 1
    BY <1>5, <1>6, ScreenSize
  <2>2. at = "same2" => r >= t.out_x
    BY <1>5, <1>6 DEF Within, Beside
  <2>3. at = "least2" => r >= t.out_x
    BY <1>5, <1>6 DEF Within, Beside
  <2>4. ASSUME at = "last2" PROVE r >= t.out_y
    <3>1. r >= s.out_y
      BY <2>4 DEF Within, Beside
    <3>2. r >= 0
      BY <2>4, ScreenSize DEF Counts
    <3> QED BY <1>5, <1>6, <3>1, <3>2
  <2>5. at = "up" => r >= 1
    BY DEF Within, Beside
  <2>6. at \notin Copying /\ at # "put" /\ at # "same"
    BY DEF Halfway, Copying
  <2>7. t.y >= 0
    BY <1>5, <2>1
  <2>8. at \notin {"top", "corner"}
    BY DEF Within, Beside
  <2> QED BY <2>1, <2>2, <2>3, <2>4, <2>5, <2>6, <2>7, <2>8 DEF Beside
<1>10. ASSUME NEW j \in PrintedIn(t) PROVE j < Bottom /\ Reaches(at, t, r, j)
  <2>1. j \in Int /\ j + w \in Int
    BY <1>2, CellsAreInt DEF PrintedIn
  <2>2. PICK i \in PrintedIn(s) : i = j + w
    BY <1>4
  <2>3. i < Bottom /\ Reaches(at, s, r, i)
    BY DEF Within
  <2>4. /\ j < Bottom /\ j < Lin(0, t.y) /\ j + w < Bottom
        /\ i < OutAt(s) => j < OutAt(t)
        /\ i < CursorAt(s) => j < CursorAt(t)
    BY <1>2, <1>4, <1>7, <1>8, <2>1, <2>2, <2>3
  <2>5. \A x \in Nat : j < Lin(x, t.y)
    <3> SUFFICES ASSUME NEW x \in Nat PROVE j < Lin(x, t.y)
      OBVIOUS
    <3>1. Lin(x, t.y) = Lin(0, t.y) + x
      <4>1. x \in Int
        OBVIOUS
      <4> QED BY <1>5, <4>1, LinFacts
    <3> HIDE DEF Lin
    <3> QED BY <1>7, <2>1, <2>4, <3>1, SMTT(20)
  <2>6. i < Mark(at, s, r) => j < Mark(at, t, r)
    <3>1. CASE at \in Idle
      BY <2>4, <3>1, MarkIs
    <3>2. CASE at \in {"endx2", "outx2"}
      <4>1. r \in Nat
        BY <3>2, ScreenSize DEF Counts
      <4> QED BY <2>5, <3>2, <4>1, MarkIs
    <3>3. CASE at \in {"endy", "outy"}
      <4>1. t.out_x \in Nat
        BY <1>5
      <4> QED BY <2>5, <3>3, <4>1, MarkIs
    <3>4. CASE at \in {"endy2", "outy2"}
      <4>1. /\ Lin(s.out_x, r) = Lin(0, r) + s.out_x
            /\ Lin(t.out_x, r) = Lin(0, r) + t.out_x /\ Lin(0, r) \in Int
        BY <1>5, <1>6, LinFacts
      <4>2. s.out_x <= t.out_x + w
        BY <1>2, <1>5, <1>6
      <4>3. i < Lin(s.out_x, r) => j < Lin(t.out_x, r)
        BY <1>2, <1>5, <1>6, <2>1, <2>2, <4>1, <4>2
      <4> QED BY <3>4, <4>3, MarkIs
    <3>5. CASE at = "same2"
      <4>1. /\ Lin(r, s.out_y) = Lin(0, s.out_y) + r
            /\ Lin(r, t.out_y) = Lin(0, t.out_y) + r
            /\ Lin(0, s.out_y) \in Int /\ Lin(0, t.out_y) \in Int
            /\ Lin(0, t.out_y + 1) = Lin(0, t.out_y) + w
        BY <1>2, <1>5, <1>6, LinFacts
      <4>2. Lin(0, s.out_y) <= Lin(0, t.out_y + 1)
        <5>1. t.out_y + 1 \in Int
          BY <1>5
        <5> QED BY <1>5, <1>6, <5>1, LinFacts
      <4>3. i < Lin(r, s.out_y) => j < Lin(r, t.out_y)
        BY <1>2, <2>1, <2>2, <4>1, <4>2
      <4> QED BY <3>5, <4>3, MarkIs
    <3>6. CASE at \in {"advance", "forward"}
      <4>1. /\ CursorAt(t) = Lin(0, t.y) + t.x
            /\ Lin(r, t.y) = Lin(0, t.y) + r
        BY <1>5, LinFacts DEF CursorAt
      <4>2. at = "forward" => r \in Nat
        BY ScreenSize DEF Counts
      <4>3. /\ j < CursorAt(t) + 1
            /\ at = "forward" => j < Lin(r, t.y) + 1
        BY <1>5, <1>7, <2>1, <2>4, <4>1, <4>2
      <4> QED BY <3>6, <4>3, MarkIs
    <3>7. CASE at \in {"newline", "feed"}
      <4>1. Lin(0, t.y + 1) = Lin(0, t.y) + w
        BY <1>2, <1>5, LinFacts
      <4>2. j < Lin(0, t.y + 1)
        BY <1>2, <1>7, <2>1, <2>4, <4>1
      <4> QED BY <3>7, <4>2, MarkIs
    <3>8. CASE at \in {"down", "fed", "up"}
      <4>1. r + 1 \in Int /\ r - 1 \in Int
        OBVIOUS
      <4>2. Lin(0, r + 1) \in Int /\ Lin(0, r - 1) \in Int
        BY <4>1, LinFacts
      <4>3. \A m \in Int : i < m => j < m
        BY <1>2, <2>1, <2>2
      <4> QED BY <3>8, <4>2, <4>3, MarkIs
    <3>9. CASE at \in {"settle", "left", "search", "found"}
      BY <2>4, <3>9, MarkIs
    <3>10. CASE at = "cleared"
      <4>1. /\ t.y - 1 \in Int /\ s.y - 1 = t.y /\ (t.y - 1) + 1 = t.y
        BY <1>5, <1>6
      <4>2. Lin(0, (t.y - 1) + 1) = Lin(0, t.y - 1) + w /\ Lin(0, t.y - 1) \in Int
        BY <1>2, <4>1, LinFacts
      <4>3. i < Lin(0, s.y - 1) => j < Lin(0, t.y - 1)
        BY <1>2, <2>1, <2>2, <4>1, <4>2
      <4> QED BY <3>10, <4>3, MarkIs
    <3>11. CASE at \notin Marked
      BY <2>4, <3>11, MarkIs
    <3> QED
      BY <3>1, <3>2, <3>3, <3>4, <3>5, <3>6, <3>7, <3>8, <3>9, <3>10, <3>11
         DEF Marked, Halfway, Copying
  <2> QED BY <2>3, <2>4, <2>6 DEF Reaches, Halfway
<1> QED BY <1>1, <1>9, <1>10 DEF Within

LEMMA ScrolledWithin ==
    ASSUME NEW at, at \notin Halfway, NEW r \in Int, Counts(at, r),
           NEW s, OnGrid(s), Within(at, s, r), NEW t, Forwards(s, t)
    PROVE  Within(at, t, r)
<1>1. PICK w : t = Scrolled(w) /\ Forward(s, w)
  BY DEF Forwards
<1>2. Within(at, w, r)
  BY <1>1, ForwardWithin
<1>3. CASE w.y >= SCREEN_HEIGHT
  <2>1. /\ w \in Screen /\ w.x \in 0 .. SCREEN_WIDTH /\ w.y \in Nat
        /\ w.out_x \in 0 .. SCREEN_WIDTH - 1 /\ w.out_y \in -1 .. SCREEN_HEIGHT - 1
    BY <1>1, <1>3, ScreenSize DEF Forward, OnGrid
  <2>2. t = scrollback(w)
    BY <1>1, <1>3 DEF Scrolled, AtLeast
  <2> QED BY <1>2, <1>3, <2>1, <2>2, ScrollWithin
<1>4. CASE ~(w.y >= SCREEN_HEIGHT)
  <2>1. w.y \in Int /\ w.y >= 0
    BY <1>1, <1>2, ScreenSize DEF Within, Beside, Forward, OnGrid
  <2>2. t = w
    BY <1>1, <1>4, <2>1 DEF Scrolled, AtLeast
  <2> QED BY <1>2, <2>2
<1> QED BY <1>3, <1>4

(* An echo of a character other than Backspace or an arrow, wherever the   *)
(* kernel's own putc, printf or scanf is, but half way.                    *)
LEMMA PutcWithin ==
    ASSUME NEW at, at \notin Halfway, NEW r \in Int, Counts(at, r),
           NEW s, OnGrid(s), Within(at, s, r),
           NEW c \in (Char \ {Printed}) \cup {Newline, "tab"}
    PROVE  Within(at, putc(s, c), r)
<1>0. \A p : Within(at, p, r) => p.y >= 0
  BY DEF Within, Beside
<1>1. CASE c # "tab"
  BY <1>0, <1>1, PutPlainForward, ScrolledWithin DEF putc
<1>2. CASE c = "tab"
  <2>1. \A p : OnGrid(p) /\ Within(at, p, r) =>
                  OnGrid(PutSpace(p)) /\ Within(at, PutSpace(p), r)
                  /\ PutSpace(p).x < SCREEN_WIDTH
    <3> SUFFICES ASSUME NEW p, OnGrid(p), Within(at, p, r)
                 PROVE  OnGrid(PutSpace(p)) /\ Within(at, PutSpace(p), r)
                        /\ PutSpace(p).x < SCREEN_WIDTH
      OBVIOUS
    <3>1. Space \in (Char \ {Printed}) \cup {Newline}
      BY DEF Char, Space, Printed
    <3>2. Forwards(p, PutSpace(p))
      BY <1>0, <3>1, PutPlainForward DEF PutSpace
    <3>3. Within(at, PutSpace(p), r)
      BY <3>2, ScrolledWithin
    <3>4. Settled(p, PutSpace(p))
      BY PutPlainSettles DEF PutSpace
    <3> QED BY <3>3, <3>4 DEF Settled
  <2>2. PICK n \in 1 .. 4 : n = TabStop - (s.x % TabStop)
    BY ScreenSize DEF OnGrid, TabStop
  <2>3. PICK t : t = PutSpaces(s, n)
    OBVIOUS
  <2>4. OnGrid(t) /\ Within(at, t, r) /\ t.x < SCREEN_WIDTH
    <3>1. PICK p1 : p1 = PutSpace(s)
      OBVIOUS
    <3>2. PICK p2 : p2 = PutSpace(p1)
      OBVIOUS
    <3>3. PICK p3 : p3 = PutSpace(p2)
      OBVIOUS
    <3>4. PICK p4 : p4 = PutSpace(p3)
      OBVIOUS
    <3>5. \A p \in {p1, p2, p3, p4} :
             OnGrid(p) /\ Within(at, p, r) /\ p.x < SCREEN_WIDTH
      BY <2>1, <3>1, <3>2, <3>3, <3>4
    <3>6. n \in {1, 2, 3, 4} /\ t \in {p1, p2, p3, p4}
      BY <2>3, <3>1, <3>2, <3>3, <3>4 DEF PutSpaces
    <3> QED BY <3>5, <3>6
  <2>5. Forwards(t, putc(s, c))
    <3>1. Forward(t, Wrapped(AtText(InRow(t))))
      BY <1>0, <2>4, TextForward, ScreenSize DEF OnGrid
    <3> QED BY <1>2, <2>2, <2>3, <3>1 DEF putc, Forwards
  <2> QED BY <2>4, <2>5, ScrolledWithin
<1> QED BY <1>1, <1>2

(* Between calls of printf, and while scanf reads, any key: nothing that   *)
(* was printed changes before the screen is scrolled.                      *)
Still(s, w) ==
    /\ w \in Screen
    /\ w.x \in 0 .. SCREEN_WIDTH - 1 /\ w.y \in 0 .. s.y + 1
    /\ w.out_x = s.out_x /\ w.out_y = s.out_y
    /\ PrintedIn(w) = PrintedIn(s)

AtRest(s) ==
    /\ OnGrid(s)
    /\ s.x < SCREEN_WIDTH /\ s.y \in 0 .. SCREEN_HEIGHT - 1 /\ s.out_y >= 0
    /\ \A i \in PrintedIn(s) : i < Bottom /\ i < OutAt(s)

(* One step to the right, or into the next line.                           *)
OneStep(s, w) ==
    \/ w.y = s.y /\ w.x <= s.x + 1
    \/ w.x = 0 /\ s.x = SCREEN_WIDTH - 1

LEMMA AtRestEnds ==
    ASSUME NEW s, AtRest(s)
    PROVE  /\ s \in Screen
           /\ s.x \in 0 .. SCREEN_WIDTH - 1 /\ s.y \in 0 .. SCREEN_HEIGHT - 1
           /\ s.out_x \in 0 .. SCREEN_WIDTH - 1 /\ s.out_y \in 0 .. SCREEN_HEIGHT - 1
           /\ \A i \in PrintedIn(s) : i \in Int /\ i < Bottom /\ i < OutAt(s)
<1>1. \A i \in PrintedIn(s) : i \in Int
  BY PrintedAreInt
<1> QED BY <1>1, ScreenSize DEF AtRest, OnGrid

LEMMA PutStill ==
    ASSUME NEW s, AtRest(s), NEW c \in Char, c # Printed, BeyondOut(s, 0)
    PROVE  LET w == Wrapped(Advanced(putchar(s, c))) IN Still(s, w) /\ OneStep(s, w)
<1>0. /\ s \in Screen /\ s.x \in 0 .. SCREEN_WIDTH - 1 /\ s.y \in Nat
      /\ s.x \in Int /\ s.x + 1 \in Int
  BY AtRestEnds, ScreenSize
<1>1. PICK p : p = putchar(s, c)
  OBVIOUS
<1>2. /\ p \in Screen /\ p.x = s.x /\ p.y = s.y
      /\ p.out_x = s.out_x /\ p.out_y = s.out_y
      /\ PrintedIn(p) = PrintedIn(s) \ {CursorAt(s)}
  BY <1>0, <1>1, PutcharType, PutPrintsNothing
<1>3. CursorAt(s) \notin PrintedIn(s)
  <2>1. CursorAt(s) \in Int /\ OutAt(s) \in Int /\ CursorAt(s) >= OutAt(s) + 0
    BY AtRestEnds, BeyondLin, ScreenSize
  <2> QED BY <2>1, AtRestEnds
<1>4. PICK u : u = [p EXCEPT !.x = p.x + 1]
  OBVIOUS
<1>5. u = Advanced(p)
  BY <1>2, <1>4 DEF Advanced, Screen
<1>6. /\ u \in Screen /\ u.x = s.x + 1 /\ u.y = s.y
      /\ u.out_x = s.out_x /\ u.out_y = s.out_y
      /\ u.cell = p.cell
  BY <1>0, <1>2, <1>4 DEF Screen
<1>7. PrintedIn(u) = PrintedIn(s)
  BY <1>2, <1>3, <1>6 DEF PrintedIn
<1>8. PICK w : w = Wrapped(u)
  OBVIOUS
<1>9. u.x \in 0 .. SCREEN_WIDTH + 1 /\ u.y \in Nat
  BY <1>0, <1>6, ScreenSize
<1>10. /\ w \in Screen
       /\ w.x \in 0 .. SCREEN_WIDTH - 1
       /\ w.out_x = s.out_x /\ w.out_y = s.out_y
       /\ PrintedIn(w) = PrintedIn(s)
       /\ IF u.x >= SCREEN_WIDTH THEN w.x = 0 /\ w.y = u.y + 1
                                 ELSE w.x = u.x /\ w.y = u.y
  BY <1>6, <1>7, <1>8, <1>9, WrapKeeps
<1>11. w.y \in 0 .. s.y + 1 /\ OneStep(s, w)
  BY <1>0, <1>6, <1>10, ScreenSize DEF OneStep
<1> QED BY <1>1, <1>5, <1>8, <1>10, <1>11 DEF Still

LEMMA TextStill ==
    ASSUME NEW s, AtRest(s), NEW m \in Screen, PrintedIn(m) = PrintedIn(s),
           m.out_x = s.out_x, m.out_y = s.out_y,
           m.x \in -1 .. SCREEN_WIDTH, m.y \in 0 .. s.y + 1,
           m.y > s.y => m.x < SCREEN_WIDTH
    PROVE  LET w == Wrapped(AtText(InRow(m)))
           IN  /\ Still(s, w)
               /\ m = s => w.y = s.y /\ w.x <= s.x
<1>0. /\ s \in Screen /\ s.x \in 0 .. SCREEN_WIDTH - 1 /\ s.y \in Nat
      /\ m.y \in Nat
  BY AtRestEnds, ScreenSize
<1>1. PICK r : r = InRow(m)
  OBVIOUS
<1>2. /\ r \in Screen /\ r.out_x = s.out_x /\ r.out_y = s.out_y
      /\ IF m.x >= 0 THEN r = m ELSE r.x = SCREEN_WIDTH - 1 /\ r.y \in 0 .. m.y
      /\ r.cell = m.cell
  BY <1>0, <1>1, InRowEnds, InRowCell
<1>3. /\ r.x \in 0 .. SCREEN_WIDTH /\ r.y \in 0 .. m.y
      /\ r.x >= SCREEN_WIDTH => r.y = m.y /\ m.y <= s.y
  BY <1>0, <1>2, ScreenSize
<1>4. PICK u : u = AtText(r)
  OBVIOUS
<1>5. /\ u \in Screen /\ u.x \in 0 .. r.x /\ u.y = r.y
      /\ u.out_x = s.out_x /\ u.out_y = s.out_y
      /\ u.cell = m.cell
  <2>1. r.x \in Nat
    BY <1>3
  <2> QED BY <1>2, <1>4, <2>1, AtTextEnds, AtTextCell
<1>6. PrintedIn(u) = PrintedIn(s)
  BY <1>5 DEF PrintedIn
<1>7. PICK w : w = Wrapped(u)
  OBVIOUS
<1>8. u.x \in 0 .. SCREEN_WIDTH + 1 /\ u.y \in Nat
  BY <1>0, <1>3, <1>5, ScreenSize
<1>9. /\ w \in Screen
      /\ w.x \in 0 .. SCREEN_WIDTH - 1
      /\ w.out_x = s.out_x /\ w.out_y = s.out_y
      /\ PrintedIn(w) = PrintedIn(s)
      /\ IF u.x >= SCREEN_WIDTH THEN w.x = 0 /\ w.y = u.y + 1
                                ELSE w.x = u.x /\ w.y = u.y
  BY <1>5, <1>6, <1>7, <1>8, WrapKeeps
<1>10. w.y \in 0 .. s.y + 1
  BY <1>0, <1>3, <1>5, <1>9, ScreenSize
<1>11. m = s => w.y = s.y /\ w.x <= s.x
  <2> SUFFICES ASSUME m = s PROVE w.y = s.y /\ w.x <= s.x
    OBVIOUS
  <2>1. r.x = s.x /\ r.y = s.y
    BY <1>0, <1>2
  <2> QED BY <1>0, <1>5, <1>9, <2>1, ScreenSize
<1> QED BY <1>1, <1>4, <1>7, <1>9, <1>10, <1>11 DEF Still

(* Backspace needs a cell behind the out cursor to remove.                 *)
LEMMA MovedStill ==
    ASSUME NEW s, AtRest(s), NEW c
    PROVE  LET m == Moved(s, c)
           IN  /\ m \in Screen /\ PrintedIn(m) = PrintedIn(s)
               /\ m.out_x = s.out_x /\ m.out_y = s.out_y
               /\ m.x \in -1 .. SCREEN_WIDTH /\ m.y \in 0 .. s.y + 1
               /\ m.y > s.y => m.x < SCREEN_WIDTH
<1> USE ScreenSize
<1>0. /\ s \in Screen
      /\ s.x \in 0 .. SCREEN_WIDTH - 1 /\ s.y \in 0 .. SCREEN_HEIGHT - 1
      /\ s.out_x \in 0 .. SCREEN_WIDTH - 1 /\ s.out_y \in 0 .. SCREEN_HEIGHT - 1
      /\ s.x \in Int /\ s.y \in Int
  BY AtRestEnds
<1>1. PICK m : m = Moved(s, c)
  OBVIOUS
<1>2. SUFFICES /\ m \in Screen /\ PrintedIn(m) = PrintedIn(s)
               /\ m.out_x = s.out_x /\ m.out_y = s.out_y
               /\ m.x \in -1 .. SCREEN_WIDTH /\ m.y \in 0 .. s.y + 1
               /\ m.y > s.y => m.x < SCREEN_WIDTH
  BY <1>1
<1>3. ASSUME NEW x \in -1 .. SCREEN_WIDTH, NEW y \in 0 .. s.y + 1,
             y > s.y => x < SCREEN_WIDTH, m = Placed(s, x, y)
      PROVE  /\ m \in Screen /\ PrintedIn(m) = PrintedIn(s)
             /\ m.out_x = s.out_x /\ m.out_y = s.out_y
             /\ m.x \in -1 .. SCREEN_WIDTH /\ m.y \in 0 .. s.y + 1
             /\ m.y > s.y => m.x < SCREEN_WIDTH
  <2>1. /\ m \in Screen /\ m.x = x /\ m.y = y
        /\ m.out_x = s.out_x /\ m.out_y = s.out_y
    BY <1>0, <1>3, PlacedType
  <2>2. m.cell = s.cell
    BY <1>0, <1>3 DEF Placed, Screen
  <2> QED BY <2>1, <2>2, <1>3 DEF PrintedIn
<1>4. CASE Moved(s, c) = [s EXCEPT !.x = 0, !.y = @ + 1]
  <2>1. m = Placed(s, 0, s.y + 1)
    BY <1>0, <1>1, <1>4 DEF Screen, Placed
  <2> QED BY <1>0, <1>3, <2>1
<1>5. CASE s.y > 0 /\ Moved(s, c) = [s EXCEPT !.y = @ - 1]
  <2>1. m = Placed(s, s.x, s.y - 1)
    BY <1>0, <1>1, <1>5 DEF Screen, Placed
  <2> QED BY <1>0, <1>3, <1>5, <2>1
<1>6. CASE Moved(s, c) = [s EXCEPT !.y = @ + 1]
  <2>1. m = Placed(s, s.x, s.y + 1)
    BY <1>0, <1>1, <1>6 DEF Screen, Placed
  <2> QED BY <1>0, <1>3, <2>1
<1>7. CASE Moved(s, c) = [s EXCEPT !.x = @ - 1]
  <2>1. m = Placed(s, s.x - 1, s.y)
    BY <1>0, <1>1, <1>7 DEF Screen, Placed
  <2> QED BY <1>0, <1>3, <2>1
<1>8. CASE Moved(s, c) = [s EXCEPT !.x = @ + 1]
  <2>1. m = Placed(s, s.x + 1, s.y)
    BY <1>0, <1>1, <1>8 DEF Screen, Placed
  <2> QED BY <1>0, <1>3, <2>1
<1>9. CASE Moved(s, c) = s
  BY <1>0, <1>1, <1>9
<1>10. CASE /\ s.y > 0 \/ s.x > 0
            /\ BeyondOut(s, 1)
            /\ Moved(s, c) = Removed(Back(s))
  <2>1. PICK b : b = Back(s)
    OBVIOUS
  <2>2. PICK x \in 0 .. SCREEN_WIDTH - 1, y \in 0 .. s.y :
           /\ b = Placed(s, x, y)
           /\ Lin(x, y) = CursorAt(s) - 1
    <3>1. CASE s.x > 0
      <4>1. b = Placed(s, s.x - 1, s.y)
        BY <1>0, <2>1, <3>1 DEF Back, Screen, Placed
      <4>2. s.x - 1 \in 0 .. SCREEN_WIDTH - 1 /\ s.x - 1 \in Int
        BY <1>0, <3>1
      <4>3. /\ Lin(0, s.y) \in Int /\ Lin(s.x - 1, s.y) = Lin(0, s.y) + (s.x - 1)
            /\ CursorAt(s) = Lin(0, s.y) + s.x
        BY <1>0, <4>2, LinFacts DEF CursorAt
      <4>4. Lin(s.x - 1, s.y) = CursorAt(s) - 1
        BY <1>0, <4>3
      <4>5. s.y \in 0 .. s.y
        BY <1>0
      <4> QED BY <4>1, <4>2, <4>4, <4>5
    <3>2. CASE ~(s.x > 0)
      <4>1. b = Placed(s, SCREEN_WIDTH - 1, s.y - 1)
        BY <1>0, <2>1, <3>2 DEF Back, Screen, Placed
      <4>2. /\ SCREEN_WIDTH - 1 \in 0 .. SCREEN_WIDTH - 1 /\ SCREEN_WIDTH - 1 \in Int
            /\ s.y - 1 \in 0 .. s.y /\ s.y - 1 \in Int /\ (s.y - 1) + 1 = s.y
            /\ s.x = 0
        BY <1>0, <1>10, <3>2
      <4>3. /\ Lin(0, s.y - 1) \in Int
            /\ Lin(SCREEN_WIDTH - 1, s.y - 1) = Lin(0, s.y - 1) + (SCREEN_WIDTH - 1)
            /\ Lin(0, (s.y - 1) + 1) = Lin(0, s.y - 1) + SCREEN_WIDTH
        BY <4>2, LinFacts
      <4>4. CursorAt(s) = Lin(0, s.y - 1) + SCREEN_WIDTH
        BY <4>2, <4>3 DEF CursorAt
      <4>5. Lin(SCREEN_WIDTH - 1, s.y - 1) = CursorAt(s) - 1
        BY <4>3, <4>4
      <4> QED BY <4>1, <4>2, <4>5
    <3> QED BY <3>1, <3>2
  <2>3. /\ b \in Screen /\ b.x = x /\ b.y = y
        /\ b.out_x = s.out_x /\ b.out_y = s.out_y
    BY <1>0, <2>2, PlacedType
  <2>4. PrintedIn(b) = PrintedIn(s) /\ CursorAt(b) = CursorAt(s) - 1
    <3>1. b.cell = s.cell
      BY <1>0, <2>2 DEF Placed, Screen
    <3> QED BY <2>2, <2>3, <3>1 DEF PrintedIn, CursorAt
  <2>5. PICK d \in Char : d # Printed /\ Removed(b) = putchar(b, d)
    BY DEF Removed, Char, Space, Nul, Printed
  <2>6. CursorAt(b) \notin PrintedIn(s)
    <3>1. /\ CursorAt(s) \in Int /\ OutAt(s) \in Int
          /\ CursorAt(s) >= OutAt(s) + 1
      BY <1>0, <1>10, BeyondLin
    <3> QED BY <2>4, <3>1, AtRestEnds
  <2>7. /\ m \in Screen /\ m.x = b.x /\ m.y = b.y
        /\ m.out_x = b.out_x /\ m.out_y = b.out_y
        /\ PrintedIn(m) = PrintedIn(b) \ {CursorAt(b)}
    BY <1>1, <1>10, <2>1, <2>3, <2>5, PutcharType, PutPrintsNothing
  <2> QED BY <1>0, <2>2, <2>3, <2>4, <2>6, <2>7
<1> QED
  BY <1>4, <1>5, <1>6, <1>7, <1>8, <1>9, <1>10 DEF Moved

Stays(s, t) == PrintedIn(s) \subseteq PrintedIn(t)

Rises(s, t) ==
    /\ s.y + 1 >= SCREEN_HEIGHT
    /\ \A i \in PrintedIn(s) : i >= SCREEN_WIDTH => i - SCREEN_WIDTH \in PrintedIn(t)

LEMMA PutPlainStill ==
    ASSUME NEW s, AtRest(s), NEW c, c # Printed
    PROVE  \E w : /\ PutPlain(s, c) = Scrolled(w)
                  /\ Still(s, w)
                  /\ c = Space => OneStep(s, w)
<1>1. CASE c \in Char /\ BeyondOut(s, 0)
  BY <1>1, PutStill DEF PutPlain
<1>2. CASE ~(c \in Char /\ BeyondOut(s, 0))
  <2>1. PICK m : m = Moved(s, c)
    OBVIOUS
  <2>2. PICK w : w = Wrapped(AtText(InRow(m)))
    OBVIOUS
  <2>3. Still(s, w) /\ (m = s => w.y = s.y /\ w.x <= s.x)
    BY <2>1, <2>2, MovedStill, TextStill
  <2>4. c = Space => m = s
    BY <2>1 DEF Moved, Newline, Backspace, Space
  <2>5. c = Space => OneStep(s, w)
    BY <2>3, <2>4, AtRestEnds, ScreenSize DEF OneStep, Still
  <2> QED BY <1>2, <2>1, <2>2, <2>3, <2>5 DEF PutPlain
<1> QED BY <1>1, <1>2

LEMMA ScrolledStill ==
    ASSUME NEW s, AtRest(s), NEW w, Still(s, w), Settled(s, Scrolled(w))
    PROVE  LET t == Scrolled(w)
           IN  /\ AtRest(t)
               /\ Stays(s, t) \/ Rises(s, t)
               /\ w.y < SCREEN_HEIGHT => t = w
               /\ w.x = 0 => t.x = 0
<1>0. /\ s.x \in Int /\ s.y \in Nat /\ s.out_x \in 0 .. SCREEN_WIDTH - 1
      /\ s.out_y \in Nat /\ s.y < SCREEN_HEIGHT
      /\ \A i \in PrintedIn(s) : i \in Int /\ i < Bottom /\ i < OutAt(s)
  BY AtRestEnds, ScreenSize
<1>1. PICK t : t = Scrolled(w)
  OBVIOUS
<1>2. /\ w \in Screen /\ w.x \in 0 .. SCREEN_WIDTH /\ w.y \in Nat /\ w.y <= s.y + 1
      /\ w.out_x \in 0 .. SCREEN_WIDTH - 1 /\ w.out_y \in Nat
      /\ PrintedIn(w) = PrintedIn(s)
  BY <1>0, ScreenSize DEF Still
<1>3. OutAt(w) = OutAt(s) /\ OutAt(s) \in Int
  <2>1. s.out_x \in Int /\ s.out_y \in Int
    BY <1>0
  <2> QED BY <2>1, LinFacts DEF Still, OutAt
<1>4. CASE w.y >= SCREEN_HEIGHT
  <2>1. t = scrollback(w)
    BY <1>1, <1>4 DEF Scrolled, AtLeast
  <2>2. \A j \in PrintedIn(t) : j < Bottom /\ j < OutAt(t)
    <3> SUFFICES ASSUME NEW j \in PrintedIn(t) PROVE j < Bottom /\ j < OutAt(t)
      OBVIOUS
    <3>1. PICK i \in PrintedIn(s) : i = j + SCREEN_WIDTH /\ i < Bottom
      BY <1>0, <1>2, <2>1, ScrollKeeps
    <3>2. OutAt(s) <= OutAt(t) + SCREEN_WIDTH
      BY <1>0, <1>2, <1>3, <2>1, ScrollKeeps
    <3>3. OutAt(t) \in Int
      <4>1. t.out_x \in Int /\ t.out_y \in Int
        BY <1>1, <2>1, ScreenSize DEF Settled, OnGrid
      <4> QED BY <4>1, LinFacts DEF OutAt
    <3>4. j \in Int /\ i \in Int /\ Bottom \in Int /\ i < OutAt(s)
      BY <1>0, PrintedAreInt, SizeIs
    <3> QED BY <1>3, <3>1, <3>2, <3>3, <3>4, ScreenSize
  <2>3. Rises(s, t)
    <3>1. s.y + 1 >= SCREEN_HEIGHT
      BY <1>0, <1>2, <1>4, ScreenSize
    <3>2. \A i \in PrintedIn(w) :
             i >= SCREEN_WIDTH => i - SCREEN_WIDTH \in PrintedIn(t)
      BY <1>0, <1>2, <2>1, ScrollKeeps
    <3> QED BY <1>2, <3>1, <3>2 DEF Rises
  <2>4. w.x = 0 => t.x = 0
    BY <1>2, <2>1, ScrollbackEnds
  <2>5. OnGrid(t) /\ t.x < SCREEN_WIDTH /\ t.y \in 0 .. SCREEN_HEIGHT - 1 /\ t.out_y >= 0
    BY <1>0, <1>1, ScreenSize DEF Settled, OnGrid
  <2>6. AtRest(t)
    BY <2>2, <2>5 DEF AtRest
  <2>7. ~(w.y < SCREEN_HEIGHT)
    BY <1>2, <1>4, ScreenSize
  <2> QED BY <1>1, <2>3, <2>4, <2>6, <2>7
<1>5. CASE ~(w.y >= SCREEN_HEIGHT)
  <2>1. t = w
    BY <1>1, <1>2, <1>5 DEF Scrolled, AtLeast
  <2>2. OnGrid(t) /\ t.x < SCREEN_WIDTH /\ t.y \in 0 .. SCREEN_HEIGHT - 1 /\ t.out_y >= 0
    BY <1>0, <1>1, ScreenSize DEF Settled, OnGrid
  <2>3. \A i \in PrintedIn(t) : i < Bottom /\ i < OutAt(t)
    BY <1>0, <1>2, <1>3, <2>1
  <2> QED BY <1>1, <1>2, <2>1, <2>2, <2>3 DEF AtRest, Stays
<1> QED BY <1>4, <1>5

(* A tab puts spaces. They leave the line at most once, when lines have at *)
(* least three columns: so many spaces to come do not leave it again.      *)
TabInv(s, p, more) ==
    /\ AtRest(p)
    /\ \/ Stays(s, p) /\ p.y = s.y /\ p.x + more < SCREEN_WIDTH + SCREEN_WIDTH
       \/ (Stays(s, p) \/ Rises(s, p)) /\ p.x + more < SCREEN_WIDTH

LEMMA TabStep ==
    ASSUME NEW s, AtRest(s), NEW p, NEW more \in Nat, TabInv(s, p, more + 1)
    PROVE  TabInv(s, PutSpace(p), more)
<1>1. AtRest(p)
  BY DEF TabInv
<1>2. PICK w : PutSpace(p) = Scrolled(w) /\ Still(p, w) /\ OneStep(p, w)
  BY <1>1, PutPlainStill DEF PutSpace, Space, Printed
<1>3. PICK t : t = PutSpace(p)
  OBVIOUS
<1>4. /\ AtRest(t)
      /\ Stays(p, t) \/ Rises(p, t)
      /\ w.y < SCREEN_HEIGHT => t = w
      /\ w.x = 0 => t.x = 0
  <2>1. Settled(p, Scrolled(w))
    BY <1>1, <1>2, PutPlainSettles DEF PutSpace, AtRest
  <2> QED BY <1>1, <1>2, <1>3, <2>1, ScrolledStill
<1>5. /\ p.x \in 0 .. SCREEN_WIDTH - 1 /\ p.y \in 0 .. SCREEN_HEIGHT - 1
      /\ s.y \in 0 .. SCREEN_HEIGHT - 1
  BY <1>1, AtRestEnds
<1>6. CASE w.y = p.y /\ w.x <= p.x + 1
  <2>1. t = w /\ PrintedIn(t) = PrintedIn(p) /\ t.x \in Nat
    BY <1>2, <1>4, <1>5, <1>6, ScreenSize DEF Still
  <2>2. /\ Stays(s, p) => Stays(s, t)
        /\ Rises(s, p) => Rises(s, t)
    BY <2>1 DEF Stays, Rises
  <2>3. p.x + (more + 1) < SCREEN_WIDTH => t.x + more < SCREEN_WIDTH
    BY <1>5, <1>6, <2>1, ScreenSize
  <2>4. p.x + (more + 1) < SCREEN_WIDTH + SCREEN_WIDTH =>
           t.x + more < SCREEN_WIDTH + SCREEN_WIDTH
    BY <1>5, <1>6, <2>1, ScreenSize
  <2> QED BY <1>3, <1>4, <1>6, <2>1, <2>2, <2>3, <2>4 DEF TabInv
<1>7. CASE w.x = 0 /\ p.x = SCREEN_WIDTH - 1
  <2>1. ~(p.x + (more + 1) < SCREEN_WIDTH)
    BY <1>7, ScreenSize
  <2>2. Stays(s, p) /\ p.y = s.y /\ p.x + (more + 1) < SCREEN_WIDTH + SCREEN_WIDTH
    BY <2>1 DEF TabInv
  <2>3. t.x + more < SCREEN_WIDTH
    BY <1>4, <1>7, <2>2, ScreenSize
  <2>4. Stays(s, t) \/ Rises(s, t)
    BY <1>4, <2>2 DEF Stays, Rises
  <2> QED BY <1>3, <1>4, <2>3, <2>4 DEF TabInv
<1> QED BY <1>2, <1>6, <1>7 DEF OneStep

(* Any key, between calls of printf or while scanf reads.                  *)
LEMMA PutcKeeps ==
    ASSUME SCREEN_WIDTH >= 3, NEW s, AtRest(s), NEW c, c # Printed
    PROVE  /\ AtRest(putc(s, c))
           /\ Stays(s, putc(s, c)) \/ Rises(s, putc(s, c))
<1>1. CASE c # "tab"
  <2>1. PICK w : PutPlain(s, c) = Scrolled(w) /\ Still(s, w)
    BY PutPlainStill
  <2>2. Settled(s, Scrolled(w))
    BY <2>1, PutPlainSettles DEF AtRest
  <2> QED BY <1>1, <2>1, <2>2, ScrolledStill DEF putc
<1>2. CASE c = "tab"
  <2>1. s.x \in 0 .. SCREEN_WIDTH - 1
    BY AtRestEnds
  <2>2. PICK n \in 1 .. 4 :
           /\ n = TabStop - (s.x % TabStop)
           /\ s.x + n < SCREEN_WIDTH + SCREEN_WIDTH
    <3>1. CASE s.x < 4
      <4>1. s.x % 4 = s.x
        BY <2>1, <3>1
      <4>2. /\ TabStop - (s.x % TabStop) \in 1 .. 4
            /\ s.x + (TabStop - (s.x % TabStop)) = 4
        BY <2>1, <3>1, <4>1, ScreenSize DEF TabStop
      <4> QED BY <4>2, ScreenSize
    <3>2. CASE ~(s.x < 4)
      <4>1. TabStop - (s.x % TabStop) \in 1 .. 4
        BY <2>1, ScreenSize DEF TabStop
      <4> QED BY <2>1, <3>2, <4>1, ScreenSize
    <3> QED BY <3>1, <3>2
  <2>3. PICK p : p = PutSpaces(s, n)
    OBVIOUS
  <2>4. TabInv(s, p, 0)
    <3>1. TabInv(s, s, n)
      BY <2>2 DEF TabInv, Stays
    <3>2. \A q, more : more \in Nat /\ TabInv(s, q, more + 1) => TabInv(s, PutSpace(q), more)
      BY TabStep
    <3>3. /\ 0 + 1 = 1 /\ 1 + 1 = 2 /\ 2 + 1 = 3 /\ 3 + 1 = 4
          /\ 0 \in Nat /\ 1 \in Nat /\ 2 \in Nat /\ 3 \in Nat
      OBVIOUS
    <3>4. CASE n = 1
      <4>1. p = PutSpace(s)
        BY <2>3, <3>4 DEF PutSpaces
      <4> QED BY <3>1, <3>2, <3>3, <3>4, <4>1
    <3>5. CASE n = 2
      <4>1. p = PutSpace(PutSpace(s))
        BY <2>3, <3>5 DEF PutSpaces
      <4>2. TabInv(s, PutSpace(s), 1)
        BY <3>1, <3>2, <3>3, <3>5
      <4> QED BY <3>2, <3>3, <4>1, <4>2
    <3>6. CASE n = 3
      <4>1. p = PutSpace(PutSpace(PutSpace(s)))
        BY <2>3, <3>6 DEF PutSpaces
      <4>2. TabInv(s, PutSpace(s), 2)
        BY <3>1, <3>2, <3>3, <3>6
      <4>3. TabInv(s, PutSpace(PutSpace(s)), 1)
        BY <3>2, <3>3, <4>2
      <4> QED BY <3>2, <3>3, <4>1, <4>3
    <3>7. CASE n = 4
      <4>1. p = PutSpace(PutSpace(PutSpace(PutSpace(s))))
        BY <2>3, <3>7 DEF PutSpaces
      <4>2. TabInv(s, PutSpace(s), 3)
        BY <3>1, <3>2, <3>3, <3>7
      <4>3. TabInv(s, PutSpace(PutSpace(s)), 2)
        BY <3>2, <3>3, <4>2
      <4>4. TabInv(s, PutSpace(PutSpace(PutSpace(s))), 1)
        BY <3>2, <3>3, <4>3
      <4> QED BY <3>2, <3>3, <4>1, <4>4
    <3> QED BY <2>2, <3>4, <3>5, <3>6, <3>7
  <2>5. AtRest(p) /\ (Stays(s, p) \/ Rises(s, p))
    BY <2>4 DEF TabInv
  <2>6. PICK w : w = Wrapped(AtText(InRow(p)))
    OBVIOUS
  <2>7. Still(p, w) /\ w.y < SCREEN_HEIGHT
    <3>1. /\ p \in Screen /\ p.x \in -1 .. SCREEN_WIDTH
          /\ p.y \in 0 .. p.y + 1 /\ p.y < SCREEN_HEIGHT /\ ~(p.y > p.y)
      BY <2>5, AtRestEnds, ScreenSize
    <3> QED BY <2>5, <2>6, <3>1, TextStill
  <2>8. putc(s, c) = w
    BY <1>2, <2>2, <2>3, <2>6, <2>7, ScreenSize DEF putc, Scrolled, AtLeast, Still
  <2>9. AtRest(w) /\ PrintedIn(w) = PrintedIn(p)
    <3>1. OnGrid(w)
      BY <2>5, <2>7, AtRestEnds, ScreenSize DEF Still, OnGrid
    <3>2. OutAt(w) = OutAt(p) /\ PrintedIn(w) = PrintedIn(p)
      BY <2>7 DEF Still, OutAt
    <3>3. w.x < SCREEN_WIDTH /\ w.y \in 0 .. SCREEN_HEIGHT - 1 /\ w.out_y >= 0
      BY <2>5, <2>7, AtRestEnds, ScreenSize DEF Still
    <3> QED BY <2>5, <3>1, <3>2, <3>3 DEF AtRest
  <2> QED BY <2>5, <2>8, <2>9 DEF Stays, Rises
<1> QED BY <1>1, <1>2

(* Where everything is, in numbers.                                        *)
LEMMA Places ==
    ASSUME GInv, Within(stage, scr, reg)
    PROVE  /\ scr \in Screen
           /\ scr.x \in Int /\ scr.y \in Int /\ scr.out_x \in Int /\ scr.out_y \in Int
           /\ reg \in Int
           /\ scr.x >= 0 /\ scr.x <= SCREEN_WIDTH /\ scr.y >= 0 /\ scr.y <= SCREEN_HEIGHT
           /\ scr.out_x >= 0 /\ scr.out_x < SCREEN_WIDTH
           /\ stage \notin {"wrap", "return"} => scr.x < SCREEN_WIDTH
           /\ stage \notin Below => scr.y < SCREEN_HEIGHT
           /\ CursorAt(scr) \in Int /\ OutAt(scr) \in Int
           /\ Lin(0, scr.y) \in Int /\ Lin(0, scr.out_y) \in Int
           /\ Lin(0, scr.y + 1) = Lin(0, scr.y) + SCREEN_WIDTH
           /\ CursorAt(scr) = Lin(0, scr.y) + scr.x
           /\ OutAt(scr) = Lin(0, scr.out_y) + scr.out_x
<1>1. /\ scr \in Screen /\ scr.x \in 0 .. SCREEN_WIDTH /\ scr.y \in -1 .. SCREEN_HEIGHT
      /\ scr.out_x \in 0 .. SCREEN_WIDTH - 1 /\ scr.out_y \in -1 .. SCREEN_HEIGHT - 1
      /\ scr.x = SCREEN_WIDTH => stage \in {"wrap", "return"}
      /\ scr.y = SCREEN_HEIGHT => stage \in Below
      /\ reg \in Int
  BY DEF GInv, OnScreen
<1>2. scr.y >= 0
  BY DEF Within, Beside
<1>3. scr.x \in Int /\ scr.y \in Int /\ scr.out_x \in Int /\ scr.out_y \in Int
  BY <1>1, ScreenSize
<1> QED BY <1>1, <1>2, <1>3, PlacesAreInt, ScreenSize

(* A step that writes no cell keeps what is printed before where it may    *)
(* reach.                                                                  *)
Before(at, s, r, i) == i < Mark(at, s, r) \/ (at \notin Strict /\ i < OutAt(s))

LEMMA StepsWithin ==
    ASSUME NEW at, NEW s, NEW r, Within(at, s, r),
           NEW bt, NEW t, NEW q, Beside(bt, t, q), bt # "clear", t.cell = s.cell,
           \A i \in Int : Before(at, s, r, i) => Before(bt, t, q, i)
    PROVE  Within(bt, t, q)
<1>1. PrintedIn(t) = PrintedIn(s)
  BY DEF PrintedIn
<1>2. ASSUME NEW i \in PrintedIn(s) PROVE i < Bottom /\ Reaches(bt, t, q, i)
  <2>1. i < Bottom /\ Before(at, s, r, i)
    BY DEF Within, Reaches, Before
  <2>2. i \in Int
    BY PrintedAreInt
  <2> QED BY <2>1, <2>2 DEF Reaches, Before
<1> QED BY <1>1, <1>2 DEF Within

(* The cursor has not come to where the out cursor is.                     *)
LEMMA NotBeyondLin ==
    ASSUME NEW s, s.x \in Nat, s.y \in Nat, s.x < SCREEN_WIDTH,
           s.out_x \in 0 .. SCREEN_WIDTH - 1, s.out_y \in Int, ~BeyondOut(s, 0)
    PROVE  CursorAt(s) < OutAt(s)
<1>1. /\ s.x \in Int /\ s.y \in Int /\ s.out_x \in Int /\ s.y + 1 \in Int
      /\ SCREEN_WIDTH \in Int
  BY ScreenSize
<1>2. /\ Lin(0, s.y) \in Int /\ Lin(0, s.out_y) \in Int
      /\ CursorAt(s) = Lin(0, s.y) + s.x
      /\ OutAt(s) = Lin(0, s.out_y) + s.out_x
      /\ Lin(0, s.y + 1) = Lin(0, s.y) + SCREEN_WIDTH
  BY <1>1, LinFacts DEF CursorAt, OutAt
<1>3. CASE s.y < s.out_y
  <2>1. Lin(0, s.y + 1) <= Lin(0, s.out_y)
    <3>1. s.y + 1 <= s.out_y
      BY <1>1, <1>3
    <3> QED BY <1>1, <3>1, LinFacts
  <2> QED BY <1>1, <1>2, <2>1
<1>4. CASE s.y = s.out_y /\ s.x < s.out_x
  BY <1>1, <1>2, <1>4
<1> QED BY <1>1, <1>3, <1>4 DEF BeyondOut

(* The steps of the kernel's own putc.                                     *)
LEMMA BeginsWithin ==
    ASSUME GInv, Within(stage, scr, reg), PutcNewline \/ PutcCharacter
    PROVE  Within(stage', scr', reg')
<1> USE Places, ScreenSize DEF Reads, Writes, Tests, Does, Goes
<1>1. CASE PutcNewline
  <2>1. scr' = WithX(scr, 0) /\ stage' = "newline" /\ stage = "putc" /\ reg' = 0
    BY <1>1 DEF PutcNewline, WithX
  <2>2. At(scr', scr, 0, scr.y, scr.out_x, scr.out_y)
    BY <2>1, Written
  <2>3. /\ Mark("putc", scr, reg) = CursorAt(scr)
        /\ Mark("newline", scr', 0) = Lin(0, scr.y + 1)
        /\ OutAt(scr') = OutAt(scr)
    BY <2>2, MarkIs DEF Marked, Idle, Copying, At, OutAt
  <2>4. CursorAt(scr) < Lin(0, scr.y + 1)
    BY <2>1
  <2>5. "newline" \notin Strict
    BY DEF Strict, Idle, Raising
  <2>6. \A i \in Int : Before("putc", scr, reg, i) => Before("newline", scr', 0, i)
    BY <2>3, <2>4, <2>5 DEF Before
  <2>7. Beside("newline", scr', 0)
    BY <2>2 DEF Beside, At, Copying
  <2> QED BY <2>1, <2>2, <2>6, <2>7, StepsWithin DEF At
<1>2. CASE PutcCharacter
  <2>1. /\ scr' = scr /\ stage = "putc" /\ reg' = 0
        /\ \/ stage' = "write"
           \/ stage' = "settle" /\ ~BeyondOut(scr, 0)
    BY <1>2 DEF PutcCharacter
  <2>2. /\ Mark("putc", scr, reg) = CursorAt(scr)
        /\ Mark("write", scr, 0) = CursorAt(scr)
    BY MarkIs DEF Marked, Idle, Copying
  <2>3. stage' = "settle" => CursorAt(scr) < OutAt(scr)
    BY <2>1, NotBeyondLin
  <2>4. stage' \notin Strict
    BY <2>1 DEF Strict, Idle, Raising
  <2>5. \A i \in Int : Before("putc", scr, reg, i) => Before(stage', scr, 0, i)
    BY <2>1, <2>2, <2>3, <2>4 DEF Before
  <2>6. Beside(stage', scr, 0)
    BY <2>1 DEF Beside, Copying
  <2>7. stage' # "clear"
    BY <2>1
  <2> QED BY <2>1, <2>5, <2>6, <2>7, StepsWithin
<1> QED BY <1>1, <1>2

LEMMA LowersWithin ==
    ASSUME GInv, Within(stage, scr, reg),
           Lowers("newline", "down", "settle") \/ Lowers("feed", "fed", "bottom")
    PROVE  Within(stage', scr', reg')
<1> USE Places, ScreenSize DEF Reads, Writes, Tests, Does, Goes
<1>1. CASE Reads("newline", "down", scr.y) \/ Reads("feed", "fed", scr.y)
  <2>1. /\ scr' = scr /\ reg' = scr.y
        /\ stage \in {"newline", "feed"} /\ stage' \in {"down", "fed"}
    BY <1>1
  <2>2. /\ Mark(stage, scr, reg) = Lin(0, scr.y + 1)
        /\ Mark(stage', scr, scr.y) = Lin(0, scr.y + 1)
    BY <2>1, MarkIs
  <2>3. stage' \notin Strict /\ stage' # "clear"
    BY <2>1 DEF Strict, Idle, Raising
  <2>4. \A i \in Int : Before(stage, scr, reg, i) => Before(stage', scr, scr.y, i)
    BY <2>2, <2>3 DEF Before
  <2>5. Beside(stage', scr, scr.y)
    BY <2>1 DEF Beside, Copying
  <2> QED BY <2>1, <2>3, <2>4, <2>5, StepsWithin
<1>2. CASE \/ Writes("down", "settle", [scr EXCEPT !.y = reg + 1])
           \/ Writes("fed", "bottom", [scr EXCEPT !.y = reg + 1])
  <2>1. /\ scr' = WithY(scr, reg + 1) /\ reg' = 0
        /\ \/ stage = "down" /\ stage' = "settle"
           \/ stage = "fed" /\ stage' = "bottom"
    BY <1>2 DEF WithY
  <2>2. At(scr', scr, scr.x, reg + 1, scr.out_x, scr.out_y)
    BY <2>1, Written
  <2>3. /\ Lin(0, reg + 1) \in Int
        /\ CursorAt(scr') = Lin(0, reg + 1) + scr.x
        /\ OutAt(scr') = OutAt(scr)
    <3>1. reg + 1 \in Int
      OBVIOUS
    <3> QED BY <2>2, <3>1, LinFacts DEF At, CursorAt, OutAt
  <2>4. /\ Mark(stage, scr, reg) = Lin(0, reg + 1)
        /\ stage' = "settle" => Mark(stage', scr', 0) = Lin(0, reg + 1)
        /\ stage' = "bottom" => Mark(stage', scr', 0) = CursorAt(scr')
    BY <2>1, <2>2, MarkIs DEF At, Marked, Idle, Copying
  <2>5. stage' \notin Strict /\ stage' # "clear"
    BY <2>1 DEF Strict, Idle, Raising
  <2>6. \A i \in Int : Before(stage, scr, reg, i) => Before(stage', scr', 0, i)
    BY <2>1, <2>3, <2>4, <2>5 DEF Before
  <2>7. reg >= 0
    BY <2>1 DEF GInv, Counts
  <2>8. Beside(stage', scr', 0)
    BY <2>1, <2>2, <2>7 DEF Beside, At, Copying
  <2> QED BY <2>1, <2>2, <2>5, <2>6, <2>8, StepsWithin DEF At
<1> QED BY <1>1, <1>2 DEF Lowers

LEMMA WritesWithin ==
    ASSUME GInv, Within(stage, scr, reg), WritesCharacter
    PROVE  Within(stage', scr', reg')
<1> USE Places, ScreenSize DEF Reads, Writes, Tests, Does, Goes
<1>1. CASE Reads("write", "put", Lin(scr.x, scr.y))
  <2>1. scr' = scr /\ reg' = CursorAt(scr) /\ stage = "write" /\ stage' = "put"
    BY <1>1 DEF CursorAt
  <2>2. /\ Mark("write", scr, reg) = CursorAt(scr)
        /\ Mark("put", scr, CursorAt(scr)) = CursorAt(scr)
    BY MarkIs DEF Marked, Idle, Copying
  <2>3. "put" \notin Strict
    BY DEF Strict, Idle, Raising
  <2>4. \A i \in Int : Before("write", scr, reg, i) => Before("put", scr, CursorAt(scr), i)
    BY <2>2, <2>3 DEF Before
  <2>5. Beside("put", scr, CursorAt(scr))
    BY DEF Beside, Copying
  <2> QED BY <2>1, <2>4, <2>5, StepsWithin
<1>2. CASE Writes("put", "advance", Stored(scr, reg, Head(todo)))
  <2>1. /\ scr' = Stored(scr, reg, Printed) /\ reg' = 0
        /\ stage = "put" /\ stage' = "advance" /\ Printed \in Char
    BY <1>2 DEF GInv, Char
  <2>2. /\ scr'.x = scr.x /\ scr'.y = scr.y
        /\ scr'.out_x = scr.out_x /\ scr'.out_y = scr.out_y
        /\ \A i \in Cell : scr'.cell[i] = IF i = reg THEN Printed ELSE scr.cell[i]
    BY <2>1, StoredType
  <2>3. CursorAt(scr') = CursorAt(scr) /\ OutAt(scr') = OutAt(scr) /\ reg = CursorAt(scr)
    BY <2>1, <2>2 DEF CursorAt, OutAt, Within, Beside
  <2>4. PrintedIn(scr') \subseteq PrintedIn(scr) \cup {reg}
    BY <2>2 DEF PrintedIn
  <2>5. reg < Bottom
    <3>1. scr.x < SCREEN_WIDTH /\ scr.y + 1 <= SCREEN_HEIGHT
      BY <2>1 DEF Below
    <3>2. Lin(0, scr.y + 1) <= Bottom /\ Bottom \in Int
      <4>1. scr.y + 1 \in Int /\ SCREEN_HEIGHT \in Int
        OBVIOUS
      <4> QED BY <3>1, <4>1, LinFacts DEF Bottom
    <3> QED BY <2>3, <3>1, <3>2
  <2>6. /\ Mark("put", scr, reg) = CursorAt(scr)
        /\ Mark("advance", scr', 0) = CursorAt(scr) + 1
    BY <2>3, MarkIs DEF Marked, Idle, Copying
  <2>7. "advance" \notin Strict
    BY DEF Strict, Idle, Raising
  <2>8. ASSUME NEW i \in PrintedIn(scr')
        PROVE i < Bottom /\ Reaches("advance", scr', 0, i)
    <3>1. CASE i = reg
      BY <2>3, <2>5, <2>6, <3>1 DEF Reaches
    <3>2. CASE i \in PrintedIn(scr)
      <4>1. i < Bottom /\ Reaches("put", scr, reg, i) /\ i \in Int
        BY <2>1, <3>2, PrintedAreInt DEF Within
      <4> QED BY <2>3, <2>6, <2>7, <4>1 DEF Reaches
    <3> QED BY <2>4, <3>1, <3>2
  <2>9. Beside("advance", scr', 0)
    BY <2>2 DEF Beside, Copying
  <2> QED BY <2>1, <2>8, <2>9 DEF Within
<1>3. CASE Reads("advance", "forward", scr.x)
  <2>1. scr' = scr /\ reg' = scr.x /\ stage = "advance" /\ stage' = "forward"
    BY <1>3
  <2>2. /\ Mark("advance", scr, reg) = CursorAt(scr) + 1
        /\ Mark("forward", scr, scr.x) = CursorAt(scr) + 1
    BY MarkIs DEF CursorAt
  <2>3. "forward" \notin Strict
    BY DEF Strict, Idle, Raising
  <2>4. \A i \in Int : Before("advance", scr, reg, i) => Before("forward", scr, scr.x, i)
    BY <2>2, <2>3 DEF Before
  <2>5. Beside("forward", scr, scr.x)
    BY DEF Beside, Copying
  <2> QED BY <2>1, <2>4, <2>5, StepsWithin
<1>4. CASE Writes("forward", "wrap", [scr EXCEPT !.x = reg + 1])
  <2>1. /\ scr' = WithX(scr, reg + 1) /\ stage' = "wrap" /\ stage = "forward" /\ reg' = 0
    BY <1>4 DEF WithX
  <2>2. At(scr', scr, reg + 1, scr.y, scr.out_x, scr.out_y)
    BY <2>1, Written
  <2>3. /\ CursorAt(scr') = Lin(reg, scr.y) + 1 /\ Lin(reg, scr.y) \in Int
        /\ OutAt(scr') = OutAt(scr)
    <3>1. reg + 1 \in Int
      OBVIOUS
    <3>2. /\ Lin(reg + 1, scr.y) = Lin(0, scr.y) + (reg + 1)
          /\ Lin(reg, scr.y) = Lin(0, scr.y) + reg
      BY <3>1, LinFacts
    <3>3. CursorAt(scr') = Lin(reg + 1, scr.y) /\ OutAt(scr') = OutAt(scr)
      BY <2>2 DEF At, CursorAt, OutAt
    <3> QED BY <3>2, <3>3
  <2>4. /\ Mark("forward", scr, reg) = Lin(reg, scr.y) + 1
        /\ Mark("wrap", scr', 0) = CursorAt(scr')
    BY MarkIs DEF Marked, Idle, Copying
  <2>5. "wrap" \notin Strict
    BY DEF Strict, Idle, Raising
  <2>6. \A i \in Int : Before("forward", scr, reg, i) => Before("wrap", scr', 0, i)
    BY <2>3, <2>4, <2>5 DEF Before
  <2>7. Beside("wrap", scr', 0)
    BY <2>2 DEF Beside, At, Copying
  <2> QED BY <2>1, <2>2, <2>6, <2>7, StepsWithin DEF At
<1> QED BY <1>1, <1>2, <1>3, <1>4 DEF WritesCharacter

LEMMA FindsWithin ==
    ASSUME GInv, Within(stage, scr, reg), FindsText
    PROVE  Within(stage', scr', reg')
<1> USE Places, ScreenSize DEF Reads, Writes, Tests, Does, Goes
<1> DEFINE At0 == {"settle", "left", "search", "found"}
<1>0. /\ \A at \in At0 \cup {"wrap"} : at \notin Strict /\ at # "clear"
      /\ \A at \in At0 : \A s, r : Mark(at, s, r) = Lin(0, s.y)
      /\ \A s, r : Mark("wrap", s, r) = CursorAt(s)
  <2>1. \A at \in At0 \cup {"wrap"} : at \notin Strict /\ at # "clear"
    BY DEF Strict, Idle, Raising
  <2>2. \A s, r : Mark("wrap", s, r) = CursorAt(s)
    BY MarkIs DEF Marked, Idle, Copying
  <2> QED BY <2>1, <2>2, MarkIs
<1>1. CASE stage' \in At0
  <2>1. scr' = scr /\ stage \in At0
    BY <1>1 DEF FindsText
  <2>2. \A i \in Int : Before(stage, scr, reg, i) => Before(stage', scr, reg', i)
    BY <1>0, <1>1, <2>1 DEF Before
  <2>3. Beside(stage', scr, reg')
    BY <1>1 DEF Beside, Copying
  <2> QED BY <1>0, <1>1, <2>1, <2>2, <2>3, StepsWithin
<1>2. CASE stage' \notin At0
  <2>1. /\ stage \in At0 /\ stage' = "wrap"
        /\ \/ scr' = scr
           \/ scr' = WithX(scr, 0)
           \/ scr' = WithX(scr, reg + 1) /\ stage = "found"
    BY <1>2 DEF FindsText, WithX
  <2>2. /\ scr'.cell = scr.cell /\ scr'.y = scr.y /\ OutAt(scr') = OutAt(scr)
        /\ scr'.x \in Int /\ scr'.x >= 0
    <3>1. CASE scr' = scr
      BY <3>1
    <3>2. CASE scr' = WithX(scr, 0)
      <4>1. At(scr', scr, 0, scr.y, scr.out_x, scr.out_y)
        BY <3>2, Written
      <4> QED BY <4>1 DEF At, OutAt
    <3>3. CASE scr' = WithX(scr, reg + 1) /\ stage = "found"
      <4>1. At(scr', scr, reg + 1, scr.y, scr.out_x, scr.out_y)
        BY <3>3, Written
      <4>2. reg >= 0
        BY <3>3 DEF GInv, Counts
      <4> QED BY <4>1, <4>2 DEF At, OutAt
    <3> QED BY <2>1, <3>1, <3>2, <3>3
  <2>3. CursorAt(scr') \in Int /\ CursorAt(scr') >= Lin(0, scr.y)
    <3>1. CursorAt(scr') = Lin(0, scr.y) + scr'.x
      BY <2>2, LinFacts DEF CursorAt
    <3> QED BY <2>2, <3>1
  <2>4. \A i \in Int : Before(stage, scr, reg, i) => Before("wrap", scr', reg', i)
    BY <1>0, <2>1, <2>2, <2>3 DEF Before
  <2>5. Beside("wrap", scr', reg')
    BY <2>2 DEF Beside, Copying
  <2> QED BY <2>1, <2>2, <2>4, <2>5, StepsWithin
<1> QED BY <1>1, <1>2

LEMMA WrapsWithin ==
    ASSUME GInv, Within(stage, scr, reg), Wraps
    PROVE  Within(stage', scr', reg')
<1> USE Places, ScreenSize DEF Reads, Writes, Tests, Does, Goes
<1>1. CASE Tests("wrap", IF AtLeast(scr.x, SCREEN_WIDTH) THEN "return" ELSE "bottom")
  <2>1. scr' = scr /\ reg' = 0 /\ stage = "wrap" /\ stage' \in {"return", "bottom"}
    BY <1>1
  <2>2. /\ Mark("wrap", scr, reg) = CursorAt(scr)
        /\ Mark(stage', scr, 0) = CursorAt(scr)
    BY <2>1, MarkIs DEF Marked, Idle, Copying
  <2>3. stage' \notin Strict /\ stage' # "clear"
    BY <2>1 DEF Strict, Idle, Raising
  <2>4. \A i \in Int : Before("wrap", scr, reg, i) => Before(stage', scr, 0, i)
    BY <2>2, <2>3 DEF Before
  <2>5. Beside(stage', scr, 0)
    BY <2>1 DEF Beside, Copying
  <2> QED BY <2>1, <2>3, <2>4, <2>5, StepsWithin
<1>2. CASE Writes("return", "feed", [scr EXCEPT !.x = 0])
  <2>1. scr' = WithX(scr, 0) /\ reg' = 0 /\ stage = "return" /\ stage' = "feed"
    BY <1>2 DEF WithX
  <2>2. At(scr', scr, 0, scr.y, scr.out_x, scr.out_y)
    BY <2>1, Written
  <2>3. /\ Mark("return", scr, reg) = CursorAt(scr)
        /\ Mark("feed", scr', 0) = Lin(0, scr.y) + SCREEN_WIDTH
        /\ OutAt(scr') = OutAt(scr)
    BY <2>2, MarkIs DEF Marked, Idle, Copying, At, OutAt
  <2>4. CursorAt(scr) <= Lin(0, scr.y) + SCREEN_WIDTH
    OBVIOUS
  <2>5. "feed" \notin Strict
    BY DEF Strict, Idle, Raising
  <2>6. \A i \in Int : Before("return", scr, reg, i) => Before("feed", scr', 0, i)
    BY <2>3, <2>4, <2>5 DEF Before
  <2>7. Beside("feed", scr', 0)
    BY <2>2 DEF Beside, At, Copying
  <2> QED BY <2>1, <2>2, <2>6, <2>7, StepsWithin DEF At
<1> QED BY <1>1, <1>2 DEF Wraps

LEMMA CopiesWithin ==
    ASSUME GInv, Within(stage, scr, reg), Copies
    PROVE  Within(stage', scr', reg')
<1> USE Places, ScreenSize DEF Reads, Writes, Tests, Does, Goes
<1>0. /\ \A at \in Copying : \A s, r : Mark(at, s, r) = Bottom
      /\ \A i \in PrintedIn(scr) :
            i \in Int /\ i < Bottom /\ Reaches(stage, scr, reg, i)
      /\ stage \in Copying => scr.y >= SCREEN_HEIGHT
      /\ Beside(stage, scr, reg)
  BY MarkIs, PrintedAreInt DEF Within, Beside
<1>1. CASE Reads("bottom", IF AtLeast(scr.y, SCREEN_HEIGHT) THEN "load" ELSE "next", SCREEN_WIDTH)
  <2>1. /\ scr' = scr /\ reg' = SCREEN_WIDTH /\ stage = "bottom"
        /\ \/ stage' = "load" /\ scr.y >= SCREEN_HEIGHT
           \/ stage' = "next"
    BY <1>1 DEF AtLeast
  <2>2. Beside(stage', scr, SCREEN_WIDTH)
    BY <2>1 DEF Beside, Copying
  <2>3. CASE stage' = "load"
    BY <1>0, <2>1, <2>2, <2>3 DEF Within, Reaches, Copying
  <2>4. CASE stage' = "next"
    <3>1. /\ Mark("bottom", scr, reg) = CursorAt(scr)
          /\ Mark("next", scr, SCREEN_WIDTH) = CursorAt(scr)
          /\ "next" \notin Strict
      BY MarkIs DEF Marked, Idle, Copying, Strict, Raising
    <3>2. \A i \in Int : Before("bottom", scr, reg, i) => Before("next", scr, SCREEN_WIDTH, i)
      BY <3>1 DEF Before
    <3> QED BY <2>1, <2>2, <2>4, <3>2, StepsWithin
  <2> QED BY <2>1, <2>3, <2>4
<1>2. CASE /\ Goes("load", "store")
           /\ ch' = scr.cell[reg]
           /\ UNCHANGED <<scr, reg, todo, place, buffer, history_vars>>
  <2>1. scr' = scr /\ reg' = reg /\ stage = "load" /\ stage' = "store"
    BY <1>2
  <2>2. Beside("store", scr, reg)
    BY <1>0, <2>1 DEF Beside, Copying
  <2> QED BY <1>0, <2>1, <2>2 DEF Within, Reaches, Copying
<1>3. CASE \/ Does("store", "load", Stored(scr, reg - SCREEN_WIDTH, ch), reg + 1)
           \/ Does("store", "clear", Stored(scr, reg - SCREEN_WIDTH, ch), Bottom - SCREEN_WIDTH)
  <2>1. /\ scr' = Stored(scr, reg - SCREEN_WIDTH, ch) /\ stage = "store"
        /\ \/ stage' = "load"
           \/ stage' = "clear" /\ reg' = Bottom - SCREEN_WIDTH
    BY <1>3
  <2>2. /\ scr'.y = scr.y
        /\ \A i \in Cell : scr'.cell[i] = IF i = reg - SCREEN_WIDTH THEN ch ELSE scr.cell[i]
    BY <2>1, StoredType DEF GInv
  <2>3. reg - SCREEN_WIDTH < Bottom
    BY <2>1, SizeIs DEF GInv, Counts
  <2>4. \A i \in PrintedIn(scr') : i \in Int /\ i < Bottom
    <3>1. PrintedIn(scr') \subseteq PrintedIn(scr) \cup {reg - SCREEN_WIDTH}
      BY <2>2 DEF PrintedIn
    <3> QED BY <1>0, <2>3, <3>1
  <2>5. Beside(stage', scr', reg')
    BY <1>0, <2>1, <2>2 DEF Beside, Copying
  <2>6. ASSUME NEW i \in PrintedIn(scr') PROVE Reaches(stage', scr', reg', i)
    <3>1. i < Mark(stage', scr', reg')
      BY <1>0, <2>1, <2>4 DEF Copying
    <3>2. stage' = "clear" => i \notin Bottom - SCREEN_WIDTH .. reg' - 1
      <4>1. Bottom - SCREEN_WIDTH .. (Bottom - SCREEN_WIDTH) - 1 = {}
        BY SizeIs
      <4> QED BY <2>1, <4>1
    <3> QED BY <3>1, <3>2 DEF Reaches
  <2> QED BY <2>4, <2>5, <2>6 DEF Within
<1>4. CASE Does("clear", IF reg + 1 < Bottom THEN "clear" ELSE "cleared",
                Stored(scr, reg, Nul), reg + 1)
  <2>1. /\ scr' = Stored(scr, reg, Nul) /\ stage = "clear" /\ reg' = reg + 1
        /\ \/ stage' = "clear"
           \/ stage' = "cleared" /\ ~(reg + 1 < Bottom)
        /\ reg \in Bottom - SCREEN_WIDTH .. Bottom - 1
    BY <1>4 DEF GInv, Counts
  <2>2. /\ scr'.y = scr.y
        /\ \A i \in Cell : scr'.cell[i] = IF i = reg THEN Nul ELSE scr.cell[i]
    BY <2>1, StoredType DEF Char
  <2>3. PrintedIn(scr') \subseteq PrintedIn(scr) \ {reg}
    BY <2>2 DEF PrintedIn, Nul, Printed
  <2>4. \A i \in PrintedIn(scr') :
           i \in Int /\ i < Bottom /\ i # reg /\ i \notin Bottom - SCREEN_WIDTH .. reg - 1
    BY <1>0, <2>1, <2>3 DEF Reaches
  <2>5. scr.y >= SCREEN_HEIGHT
    BY <1>0, <2>1 DEF Copying
  <2>6. Beside(stage', scr', reg')
    BY <2>1, <2>2, <2>5 DEF Beside, Copying
  <2>7. ASSUME NEW i \in PrintedIn(scr') PROVE Reaches(stage', scr', reg', i)
    <3>0. Bottom \in Int /\ i \in Int /\ i < Bottom /\ i # reg
          /\ i \notin Bottom - SCREEN_WIDTH .. reg - 1
      BY <2>4, SizeIs
    <3>1. i \notin Bottom - SCREEN_WIDTH .. reg
      BY <2>1, <3>0
    <3>2. CASE stage' = "clear"
      <4>1. reg' - 1 = reg /\ Mark("clear", scr', reg') = Bottom
        BY <1>0, <2>1 DEF Copying
      <4> QED BY <3>0, <3>1, <3>2, <4>1 DEF Reaches
    <3>3. CASE stage' = "cleared" /\ ~(reg + 1 < Bottom)
      <4>1. i < Bottom - SCREEN_WIDTH
        BY <2>1, <3>0, <3>1, <3>3
      <4>2. Bottom - SCREEN_WIDTH <= Lin(0, scr.y - 1) /\ Lin(0, scr.y - 1) \in Int
        <5>1. /\ scr.y - 1 \in Int /\ (scr.y - 1) + 1 = scr.y
              /\ SCREEN_HEIGHT \in Int
          OBVIOUS
        <5>2. /\ Lin(0, (scr.y - 1) + 1) = Lin(0, scr.y - 1) + SCREEN_WIDTH
              /\ Lin(0, scr.y - 1) \in Int
              /\ Lin(0, SCREEN_HEIGHT) <= Lin(0, scr.y)
          BY <2>5, <5>1, LinFacts
        <5> QED BY <5>1, <5>2, SizeIs DEF Bottom
      <4>3. Mark("cleared", scr', reg') = Lin(0, scr.y - 1)
        BY <2>2, MarkIs
      <4> QED BY <3>0, <3>3, <4>1, <4>2, <4>3 DEF Reaches
    <3> QED BY <2>1, <3>2, <3>3
  <2> QED BY <2>4, <2>6, <2>7 DEF Within
<1>5. /\ SCREEN_WIDTH * SCREEN_HEIGHT = Bottom
      /\ SCREEN_WIDTH * (SCREEN_HEIGHT - 1) = Bottom - SCREEN_WIDTH
  BY SizeIs
<1>6. Copies => \/ Reads("bottom", IF AtLeast(scr.y, SCREEN_HEIGHT) THEN "load" ELSE "next", SCREEN_WIDTH)
                \/ /\ Goes("load", "store")
                   /\ ch' = scr.cell[reg]
                   /\ UNCHANGED <<scr, reg, todo, place, buffer, history_vars>>
                \/ Does("store", "load", Stored(scr, reg - SCREEN_WIDTH, ch), reg + 1)
                \/ Does("store", "clear", Stored(scr, reg - SCREEN_WIDTH, ch), Bottom - SCREEN_WIDTH)
                \/ Does("clear", IF reg + 1 < Bottom THEN "clear" ELSE "cleared",
                        Stored(scr, reg, Nul), reg + 1)
  BY <1>5 DEF Copies
<1> QED BY <1>1, <1>2, <1>3, <1>4, <1>6

LEMMA RaisesWithin ==
    ASSUME GInv, Within(stage, scr, reg), Raises
    PROVE  Within(stage', scr', reg')
<1> USE Places, ScreenSize DEF Reads, Writes, Tests, Does, Goes
<1>0. /\ \A at \in Raising : at # "clear" /\ at \in Strict
      /\ \A at \in Raising : \A s, r : Mark(at, s, r) = CursorAt(s)
      /\ \A s, r : /\ Mark("cleared", s, r) = Lin(0, s.y - 1)
                   /\ Mark("up", s, r) = Lin(0, r - 1)
      /\ {"cleared", "up"} \subseteq Strict
      /\ Beside(stage, scr, reg)
  <2>1. \A at \in Raising : at \notin Marked
    BY DEF Marked, Raising, Idle, Copying
  <2>2. Beside(stage, scr, reg)
    BY DEF Within
  <2> QED BY <2>1, <2>2, MarkIs DEF Strict, Raising
<1>1. CASE Reads("cleared", "up", scr.y)
  <2>1. scr' = scr /\ reg' = scr.y /\ stage = "cleared" /\ stage' = "up" /\ scr.y >= 1
    BY <1>0, <1>1 DEF Beside
  <2>2. \A i \in Int : Before("cleared", scr, reg, i) => Before("up", scr, scr.y, i)
    BY <1>0 DEF Before
  <2>3. Beside("up", scr, scr.y)
    BY <2>1 DEF Beside, Copying
  <2> QED BY <2>1, <2>2, <2>3, StepsWithin
<1>2. CASE Writes("up", "raised", [scr EXCEPT !.y = reg - 1])
  <2>1. scr' = WithY(scr, reg - 1) /\ reg' = 0 /\ stage = "up" /\ stage' = "raised" /\ reg >= 1
    BY <1>0, <1>2 DEF WithY, Beside
  <2>2. At(scr', scr, scr.x, reg - 1, scr.out_x, scr.out_y)
    BY <2>1, Written
  <2>3. /\ Lin(0, reg - 1) \in Int /\ CursorAt(scr') = Lin(0, reg - 1) + scr.x
    <3>1. reg - 1 \in Int
      OBVIOUS
    <3> QED BY <2>2, <3>1, LinFacts DEF At, CursorAt
  <2>4. Mark("raised", scr', 0) = CursorAt(scr') /\ "raised" \in Strict
    BY <1>0 DEF Raising
  <2>5. \A i \in Int : Before("up", scr, reg, i) => Before("raised", scr', 0, i)
    BY <1>0, <2>3, <2>4 DEF Before
  <2>6. Beside("raised", scr', 0)
    BY <2>1, <2>2 DEF Beside, At, Copying
  <2> QED BY <2>1, <2>2, <2>5, <2>6, StepsWithin DEF At
<1>3. CASE Reads("raised", "out_up", scr.out_y)
  <2>1. scr' = scr /\ reg' = scr.out_y /\ stage = "raised" /\ stage' = "out_up"
    BY <1>3
  <2>2. \A i \in Int : Before("raised", scr, reg, i) => Before("out_up", scr, scr.out_y, i)
    BY <1>0 DEF Before, Raising
  <2>3. Beside("out_up", scr, scr.out_y)
    BY DEF Beside, Copying
  <2> QED BY <2>1, <2>2, <2>3, StepsWithin
<1>4. CASE Writes("out_up", "test", [scr EXCEPT !.out_y = reg - 1])
  <2>1. scr' = WithOutY(scr, reg - 1) /\ reg' = 0 /\ stage = "out_up" /\ stage' = "test"
    BY <1>4 DEF WithOutY
  <2>2. At(scr', scr, scr.x, scr.y, scr.out_x, reg - 1)
    BY <2>1, Written
  <2>3. CursorAt(scr') = CursorAt(scr)
    BY <2>2 DEF At, CursorAt
  <2>4. \A i \in Int : Before("out_up", scr, reg, i) => Before("test", scr', 0, i)
    BY <1>0, <2>3 DEF Before, Raising
  <2>5. Beside("test", scr', 0)
    BY <2>2 DEF Beside, At, Copying
  <2> QED BY <2>1, <2>2, <2>4, <2>5, StepsWithin DEF At
<1> QED BY <1>1, <1>2, <1>3, <1>4 DEF Raises

LEMMA ClipsWithin ==
    ASSUME GInv, Within(stage, scr, reg), Clips
    PROVE  Within(stage', scr', reg')
<1> USE Places, ScreenSize DEF Reads, Writes, Tests, Does, Goes
<1>0. /\ \A at \in Raising : at # "clear" /\ at \in Strict
      /\ \A at \in Raising \cup {"next"} : \A s, r : Mark(at, s, r) = CursorAt(s)
      /\ Beside(stage, scr, reg)
  <2>1. \A at \in Raising \cup {"next"} : at \notin Marked
    BY DEF Marked, Raising, Idle, Copying
  <2>2. Beside(stage, scr, reg)
    BY DEF Within
  <2> QED BY <2>1, <2>2, MarkIs DEF Strict, Raising
<1>1. /\ stage \in {"test", "out_test", "out_top", "out_corner"}
      /\ stage' \in {"out_test", "out_top", "out_corner", "next"}
      /\ scr' \in {scr, WithOutY(scr, 0), WithOutX(scr, 0)}
  <2>1. stage \notin {"top", "corner"} /\ ~(scr.y < 0)
    BY <1>0 DEF Beside
  <2> QED BY <2>1 DEF Clips, WithOutX, WithOutY
<1>2. /\ scr'.cell = scr.cell /\ scr'.x = scr.x /\ scr'.y = scr.y
  <2>1. 0 \in Int
    OBVIOUS
  <2>2. CASE scr' = WithOutY(scr, 0)
    <3>1. At(scr', scr, scr.x, scr.y, scr.out_x, 0)
      BY <2>1, <2>2, Written
    <3> QED BY <3>1 DEF At
  <2>3. CASE scr' = WithOutX(scr, 0)
    <3>1. At(scr', scr, scr.x, scr.y, 0, scr.out_y)
      BY <2>1, <2>3, Written
    <3> QED BY <3>1 DEF At
  <2> QED BY <1>1, <2>2, <2>3
<1>3. CursorAt(scr') = CursorAt(scr)
  BY <1>2 DEF CursorAt
<1>4. \A i \in Int : Before(stage, scr, reg, i) => Before(stage', scr', reg', i)
  BY <1>0, <1>1, <1>3 DEF Before, Raising
<1>5. Beside(stage', scr', reg') /\ stage' # "clear"
  BY <1>1, <1>2 DEF Beside, Copying
<1> QED BY <1>2, <1>4, <1>5, StepsWithin

LEMMA PutcPrintedInv ==
    ASSUME GInv, Within(stage, scr, reg), PutcNewline \/ PutcCharacter \/ LineCheck
    PROVE  Within(stage', scr', reg')
BY BeginsWithin, LowersWithin, WritesWithin, FindsWithin, WrapsWithin, CopiesWithin,
   RaisesWithin, ClipsWithin DEF LineCheck

(* The out cursor follows the cursor, behind what has been printed.        *)
LEMMA OutXWithin ==
    ASSUME GInv, Within(stage, scr, reg), ~disturbed',
           \/ SetOutX("endx", "endx2", "endy")
           \/ SetOutX("outx", "outx2", "outy")
    PROVE  Within(stage', scr', reg')
<1> USE Places, ScreenSize DEF Reads, Writes, Tests, Does, Goes
<1>1. CASE /\ Goes("endx", "endx2") \/ Goes("outx", "outx2")
           /\ reg' = scr.x
           /\ disturbed' = (disturbed \/ ~BeyondOut(scr, 0))
           /\ scr' = scr
  <2>1. BeyondOut(scr, 0)
    <3>1. disturbed' = (disturbed \/ ~BeyondOut(scr, 0))
      BY <1>1
    <3> QED BY <3>1, Zenon
  <2>2. stage \in {"endx", "outx"} /\ stage' \in {"endx2", "outx2"} /\ scr' = scr
    BY <1>1
  <2>3. /\ Mark(stage, scr, reg) \in {CursorAt(scr), OutAt(scr)}
        /\ Mark(stage', scr, scr.x) = CursorAt(scr)
    BY <2>2, MarkIs DEF Marked, Idle, Copying, CursorAt
  <2>4. CursorAt(scr) >= OutAt(scr)
    <3>1. CursorAt(scr) >= OutAt(scr) + 0
      BY <2>1, BeyondLin
    <3> QED BY <3>1
  <2>5. stage' # "clear"
    BY <2>2
  <2>6. \A i \in Int : Before(stage, scr, reg, i) => Before(stage', scr, scr.x, i)
    BY <2>3, <2>4 DEF Before
  <2>7. Beside(stage', scr, scr.x)
    BY <2>2 DEF Beside, Copying
  <2> QED BY <1>1, <2>2, <2>5, <2>6, <2>7, StepsWithin
<1>2. CASE \/ Writes("endx2", "endy", [scr EXCEPT !.out_x = reg])
           \/ Writes("outx2", "outy", [scr EXCEPT !.out_x = reg])
  <2>1. /\ scr' = WithOutX(scr, reg) /\ reg' = 0
        /\ stage \in {"endx2", "outx2"} /\ stage' \in {"endy", "outy"}
    BY <1>2 DEF WithOutX
  <2>2. At(scr', scr, scr.x, scr.y, reg, scr.out_y)
    BY <2>1, Written
  <2>3. /\ Mark(stage, scr, reg) = Lin(reg, scr.y)
        /\ Mark(stage', scr', 0) = Lin(reg, scr.y)
    BY <2>1, <2>2, MarkIs DEF At
  <2>4. stage \in Strict /\ stage' # "clear"
    BY <2>1 DEF Strict
  <2>5. \A i \in Int : Before(stage, scr, reg, i) => Before(stage', scr', 0, i)
    BY <2>3, <2>4 DEF Before
  <2>6. Beside(stage', scr', 0)
    BY <2>1, <2>2 DEF Beside, At, Copying
  <2> QED BY <2>1, <2>2, <2>4, <2>5, <2>6, StepsWithin DEF At
<1> QED BY <1>1, <1>2 DEF SetOutX

LEMMA OutYWithin ==
    ASSUME GInv, Within(stage, scr, reg),
           \/ Reads("endy", "endy2", scr.y)
           \/ Writes("endy2", "least", [scr EXCEPT !.out_y = reg])
           \/ Reads("outy", "outy2", scr.y)
           \/ SetOutY("outy2", IF buffer = <<>> THEN "again" ELSE "run")
    PROVE  Within(stage', scr', reg')
<1> USE Places, ScreenSize DEF Reads, Writes, Tests, Does, Goes
<1>1. CASE Reads("endy", "endy2", scr.y) \/ Reads("outy", "outy2", scr.y)
  <2>1. /\ scr' = scr /\ reg' = scr.y
        /\ stage \in {"endy", "outy"} /\ stage' \in {"endy2", "outy2"}
    BY <1>1
  <2>2. /\ Mark(stage, scr, reg) = Lin(scr.out_x, scr.y)
        /\ Mark(stage', scr, scr.y) = Lin(scr.out_x, scr.y)
    BY <2>1, MarkIs
  <2>3. stage \in Strict /\ stage' # "clear"
    BY <2>1 DEF Strict
  <2>4. \A i \in Int : Before(stage, scr, reg, i) => Before(stage', scr, scr.y, i)
    BY <2>2, <2>3 DEF Before
  <2>5. Beside(stage', scr, scr.y)
    BY <2>1 DEF Beside, Copying
  <2> QED BY <2>1, <2>3, <2>4, <2>5, StepsWithin
<1>2. CASE \/ Writes("endy2", "least", [scr EXCEPT !.out_y = reg])
           \/ SetOutY("outy2", IF buffer = <<>> THEN "again" ELSE "run")
  <2>1. /\ scr' = WithOutY(scr, reg) /\ reg' = 0
        /\ stage \in {"endy2", "outy2"} /\ stage' \in {"least", "again", "run"}
    BY <1>2 DEF WithOutY, SetOutY
  <2>2. At(scr', scr, scr.x, scr.y, scr.out_x, reg)
    BY <2>1, Written
  <2>3. /\ Mark(stage, scr, reg) = Lin(scr.out_x, reg)
        /\ Mark(stage', scr', 0) = Lin(scr.out_x, reg)
    BY <2>1, <2>2, MarkIs DEF At, OutAt, Idle
  <2>4. stage \in Strict /\ stage' # "clear"
    BY <2>1 DEF Strict
  <2>5. \A i \in Int : Before(stage, scr, reg, i) => Before(stage', scr', 0, i)
    BY <2>3, <2>4 DEF Before
  <2>6. Beside(stage', scr', 0)
    BY <2>1, <2>2 DEF Beside, At, Copying
  <2> QED BY <2>1, <2>2, <2>4, <2>5, <2>6, StepsWithin DEF At
<1> QED BY <1>1, <1>2

(* The rest of the end of printf.                                          *)
LEMMA SameWithin ==
    ASSUME GInv, Within(stage, scr, reg),
           \/ Tests("putc", IF scr.y > scr.out_y THEN "endx" ELSE "same")
           \/ Reads("same", "same2", Greater(scr.out_x, scr.x))
           \/ Writes("same2", "least", [scr EXCEPT !.out_x = reg])
    PROVE  Within(stage', scr', reg')
<1> USE Places, ScreenSize DEF Reads, Writes, Tests, Does, Goes
<1>1. CASE Tests("putc", IF scr.y > scr.out_y THEN "endx" ELSE "same")
  <2>1. /\ scr' = scr /\ reg' = 0 /\ stage = "putc"
        /\ \/ stage' = "endx"
           \/ stage' = "same" /\ scr.y <= scr.out_y
    BY <1>1
  <2>2. /\ Mark("putc", scr, reg) = CursorAt(scr)
        /\ Mark(stage', scr, 0) = CursorAt(scr)
        /\ stage' \notin Strict /\ stage' # "clear"
    BY <2>1, MarkIs DEF Marked, Idle, Copying, Strict, Raising
  <2>3. \A i \in Int : Before("putc", scr, reg, i) => Before(stage', scr, 0, i)
    BY <2>2 DEF Before
  <2>4. Beside(stage', scr, 0)
    BY <2>1 DEF Beside, Copying
  <2> QED BY <2>1, <2>2, <2>3, <2>4, StepsWithin
<1>2. CASE Reads("same", "same2", Greater(scr.out_x, scr.x))
  <2>1. PICK o : o = Greater(scr.out_x, scr.x)
    OBVIOUS
  <2>2. /\ scr' = scr /\ reg' = o /\ stage = "same" /\ stage' = "same2"
        /\ scr.y <= scr.out_y /\ scr.x < SCREEN_WIDTH
    BY <1>2, <2>1 DEF Within, Beside
  <2>3. o \in Int /\ o >= scr.x /\ o >= scr.out_x
    BY <2>1 DEF Greater
  <2>4. /\ Mark("same", scr, reg) = CursorAt(scr)
        /\ Mark("same2", scr, o) = Lin(0, scr.out_y) + o
        /\ "same2" \in Strict
    <3>1. Lin(o, scr.out_y) = Lin(0, scr.out_y) + o
      BY <2>3, LinFacts
    <3> QED BY <3>1, MarkIs DEF Marked, Idle, Copying, Strict
  <2>5. Lin(0, scr.y) <= Lin(0, scr.out_y)
    BY <2>2, LinFacts
  <2>6. \A i \in Int : Before("same", scr, reg, i) => Before("same2", scr, o, i)
    BY <2>3, <2>4, <2>5 DEF Before
  <2>7. Beside("same2", scr, o)
    BY <2>3 DEF Beside, Copying
  <2> QED BY <2>2, <2>6, <2>7, StepsWithin
<1>3. CASE Writes("same2", "least", [scr EXCEPT !.out_x = reg])
  <2>1. scr' = WithOutX(scr, reg) /\ reg' = 0 /\ stage = "same2" /\ stage' = "least"
    BY <1>3 DEF WithOutX
  <2>2. At(scr', scr, scr.x, scr.y, reg, scr.out_y)
    BY <2>1, Written
  <2>3. /\ Mark("same2", scr, reg) = Lin(reg, scr.out_y)
        /\ Mark("least", scr', 0) = Lin(reg, scr.out_y)
        /\ "same2" \in Strict
    BY <2>2, MarkIs DEF At, OutAt, Idle, Strict
  <2>4. \A i \in Int : Before("same2", scr, reg, i) => Before("least", scr', 0, i)
    BY <2>3 DEF Before
  <2>5. Beside("least", scr', 0)
    BY <2>2 DEF Beside, At, Copying
  <2> QED BY <2>1, <2>2, <2>4, <2>5, StepsWithin DEF At
<1> QED BY <1>1, <1>2, <1>3

LEMMA LastWithin ==
    ASSUME GInv, Within(stage, scr, reg),
           \/ Reads("least", "least2", Greater(scr.out_x, 0))
           \/ Writes("least2", "last", [scr EXCEPT !.out_x = reg])
           \/ Reads("last", "last2", Greater(scr.out_y, 0))
           \/ SetOutY("last2", "run")
    PROVE  Within(stage', scr', reg')
<1> USE Places, ScreenSize DEF Reads, Writes, Tests, Does, Goes
<1>0. /\ stage \in Idle /\ stage' \in Idle
      /\ Mark(stage, scr, reg) = OutAt(scr) /\ Mark(stage', scr', reg') = OutAt(scr')
      /\ stage \in Strict /\ stage' # "clear"
  <2>1. stage \in {"least", "least2", "last", "last2"} /\ stage' \in {"least2", "last", "last2", "run"}
    BY DEF SetOutY
  <2>2. stage \in Idle /\ stage' \in Idle /\ stage' # "clear" /\ stage \in Strict
    BY <2>1 DEF Idle, Strict
  <2> QED BY <2>2, MarkIs
<1>1. Beside(stage, scr, reg)
  BY DEF Within
<1>2. /\ scr'.cell = scr.cell /\ OutAt(scr') \in Int /\ OutAt(scr) <= OutAt(scr')
      /\ Beside(stage', scr', reg')
  <2>1. CASE \/ Reads("least", "least2", Greater(scr.out_x, 0))
             \/ Reads("last", "last2", Greater(scr.out_y, 0))
    <3>1. /\ scr' = scr
          /\ \/ stage' = "least2" /\ reg' = Greater(scr.out_x, 0)
             \/ stage' = "last2" /\ reg' = Greater(scr.out_y, 0)
      BY <2>1
    <3> QED BY <3>1 DEF Beside, Copying, Greater
  <2>2. CASE Writes("least2", "last", [scr EXCEPT !.out_x = reg])
    <3>1. scr' = WithOutX(scr, reg) /\ stage = "least2" /\ stage' = "last"
      BY <2>2 DEF WithOutX
    <3>2. At(scr', scr, scr.x, scr.y, reg, scr.out_y)
      BY <3>1, Written
    <3>3. OutAt(scr') = Lin(0, scr.out_y) + reg /\ reg >= scr.out_x
      BY <1>1, <3>1, <3>2, LinFacts DEF At, OutAt, Beside
    <3>4. Beside("last", scr', reg')
      BY <3>2 DEF Beside, At, Copying
    <3> QED BY <3>1, <3>2, <3>3, <3>4 DEF At
  <2>3. CASE SetOutY("last2", "run")
    <3>1. scr' = WithOutY(scr, reg) /\ stage = "last2" /\ stage' = "run"
      BY <2>3 DEF WithOutY, SetOutY
    <3>2. At(scr', scr, scr.x, scr.y, scr.out_x, reg)
      BY <3>1, Written
    <3>3. /\ OutAt(scr') = Lin(0, reg) + scr.out_x
          /\ Lin(0, scr.out_y) <= Lin(0, reg) /\ Lin(0, reg) \in Int
      <4>1. reg >= scr.out_y
        BY <1>1, <3>1 DEF Beside
      <4> QED BY <3>2, <4>1, LinFacts DEF At, OutAt
    <3>4. Beside("run", scr', reg')
      BY <3>2 DEF Beside, At, Copying
    <3> QED BY <3>1, <3>2, <3>3, <3>4 DEF At
  <2> QED BY <2>1, <2>2, <2>3
<1>3. \A i \in Int : Before(stage, scr, reg, i) => Before(stage', scr', reg', i)
  BY <1>0, <1>2 DEF Before
<1> QED BY <1>0, <1>2, <1>3, StepsWithin

LEMMA PrintsWithin ==
    ASSUME GInv, Within(stage, scr, reg), ~disturbed', Prints
    PROVE  Within(stage', scr', reg')
<1>1. ASSUME NEW text \in Texts, Printf(text) PROVE Within(stage', scr', reg')
  <2>1. /\ stage = "run" /\ stage' = "putc" /\ scr' = scr /\ reg' = reg
    BY <1>1 DEF Printf
  <2>2. /\ Mark("run", scr, reg) = OutAt(scr) /\ "run" \in Strict /\ "putc" \notin Strict
    BY MarkIs DEF Idle, Strict, Raising
  <2>3. \A i \in Int : Before("run", scr, reg, i) => Before("putc", scr, reg, i)
    BY <2>2 DEF Before
  <2>4. Beside("putc", scr, reg)
    BY Places DEF Beside, Copying
  <2> QED BY <2>1, <2>3, <2>4, StepsWithin
<1>2. CASE PutcNewline \/ PutcCharacter \/ LineCheck
  BY <1>2, PutcPrintedInv
<1>3. CASE PutcDone
  <2>1. stage = "next" /\ stage' = "putc" /\ scr' = scr /\ reg' = reg
    BY <1>3 DEF PutcDone, Goes
  <2>2. /\ Mark("next", scr, reg) = CursorAt(scr) /\ Mark("putc", scr, reg) = CursorAt(scr)
        /\ "putc" \notin Strict
    BY MarkIs DEF Marked, Idle, Copying, Strict, Raising
  <2>3. \A i \in Int : Before("next", scr, reg, i) => Before("putc", scr, reg, i)
    BY <2>2 DEF Before
  <2>4. Beside("putc", scr, reg)
    BY Places DEF Beside, Copying
  <2> QED BY <2>1, <2>3, <2>4, StepsWithin
<1>4. CASE PrintfEnds
  BY <1>4, OutXWithin, OutYWithin, SameWithin, LastWithin DEF PrintfEnds
<1> QED BY <1>1, <1>2, <1>3, <1>4 DEF Prints

LEMMA IdleWithin ==
    ASSUME NEW at \in Idle, NEW then \in {"run", "again", "read", "copy", "outx"},
           NEW s, NEW r, NEW q, Within(at, s, r)
    PROVE  Within(then, s, q)
<1>1. /\ then \in Idle /\ then # "clear" /\ at \in Strict
      /\ Mark(at, s, r) = OutAt(s) /\ Mark(then, s, q) = OutAt(s)
  <2>1. then \in Idle /\ then # "clear" /\ at \in Strict
    BY DEF Idle, Strict
  <2> QED BY <2>1, MarkIs
<1>2. \A i \in Int : Before(at, s, r, i) => Before(then, s, q, i)
  BY <1>1 DEF Before
<1>3. Beside(then, s, q)
  BY DEF Within, Beside, Copying
<1> QED BY <1>1, <1>2, <1>3, StepsWithin

LEMMA ReadWithin ==
    ASSUME Waiting, GInv, Within(stage, scr, reg), ~disturbed', Read
    PROVE  Within(stage', scr', reg')
<1> USE DEF Reads, Writes, Tests, Does, Goes
<1>1. CASE Ask
  BY <1>1, IdleWithin DEF Ask, Idle
<1>2. CASE Wait
  BY <1>2 DEF Wait, kernel_vars
<1>3. CASE Answer
  <2>1. stage = "read" /\ stage' \in {"read", "copy"} /\ scr' = scr
    BY <1>3 DEF Answer, TestChar, Test, Goto, Waiting
  <2> QED BY <2>1, IdleWithin DEF Idle
<1>4. CASE CopyRow
  BY <1>4, IdleWithin DEF CopyRow, Idle
<1>5. CASE Tests("copy", "outx")
  BY <1>5, IdleWithin DEF Idle
<1>6. CASE SetOutX("outx", "outx2", "outy")
  BY <1>6, OutXWithin
<1>7. CASE \/ Reads("outy", "outy2", scr.y)
           \/ SetOutY("outy2", IF buffer = <<>> THEN "again" ELSE "run")
  BY <1>7, OutYWithin
<1> QED BY <1>1, <1>2, <1>3, <1>4, <1>5, <1>6, <1>7 DEF Read

LEMMA DisturbedStays == [CNext]_cvars /\ ~disturbed' => ~disturbed
<1> SUFFICES ASSUME [CNext]_cvars PROVE disturbed => disturbed'
  OBVIOUS
<1>1. CASE Prints
  <2>1. ASSUME NEW text \in Texts, Printf(text) PROVE disturbed => disturbed'
    BY <2>1 DEF Printf, history_vars
  <2>2. PutcNewline \/ PutcCharacter \/ LineCheck => (disturbed => disturbed')
    BY LineGoes DEF history_vars
  <2>3. PutcDone => (disturbed => disturbed')
    BY DEF PutcDone, history_vars
  <2>4. PrintfEnds => (disturbed => disturbed')
    BY EndGoes
  <2> QED BY <1>1, <2>1, <2>2, <2>3, <2>4 DEF Prints
<1>2. CASE Read
  <2>1. Ask \/ Wait \/ Answer \/ CopyRow => (disturbed => disturbed')
    BY DEF Ask, Wait, Answer, CopyRow, history_vars
  <2>2. Tests("copy", "outx") \/ Reads("outy", "outy2", scr.y) => (disturbed => disturbed')
    BY DEF Tests, Reads, Does, history_vars
  <2>3. SetOutX("outx", "outx2", "outy") => (disturbed => disturbed')
    BY SetOutGoes
  <2>4. ASSUME NEW next, SetOutY("outy2", next) PROVE disturbed => disturbed'
    BY <2>4, SetOutYGoes
  <2> QED BY <1>2, <2>1, <2>2, <2>3, <2>4 DEF Read
<1>3. ASSUME NEW e \in Event, Press(e) PROVE disturbed => disturbed'
  BY <1>3 DEF Press
<1>4. ASSUME NEW kernel \in BOOLEAN, Tick(kernel) PROVE disturbed => disturbed'
  BY <1>4 DEF Tick, history_vars
<1>5. CASE UNCHANGED cvars
  BY <1>5 DEF cvars, history_vars
<1> QED BY <1>1, <1>2, <1>3, <1>4, <1>5 DEF CNext

(* The codes of the keys.                                                  *)
LEMMA CodeKinds ==
    ASSUME NEW e \in Event, e.key \notin Modifier, NEW up
    PROVE  /\ CodeOf(e.key, up) # Printed
           /\ e.key \notin Arrow \cup {Backspace} =>
                 CodeOf(e.key, up) \in (Char \ {Printed}) \cup {Newline, "tab"}
<1>1. e.key \in {Enter, "letter", "numlock", "tab", Backspace} \cup Arrow \cup Modifier
  BY ConsoleAssumption DEF ConsoleAssumption, Event
<1>2. CASE e.key \in {Enter, "letter", "numlock"}
  <2>1. CodeOf(e.key, up) \in {Newline, Upper, Lower, Nul}
    <3>1. CASE e.key = "letter" /\ Enter # "letter"
      BY <3>1 DEF CodeOf
    <3>2. CASE e.key = "numlock" /\ Enter # "numlock"
      BY <3>2 DEF CodeOf
    <3>3. CASE e.key = Enter /\ Enter \notin {"letter", "numlock"}
      BY <3>3 DEF CodeOf
    <3>4. CASE e.key = Enter /\ Enter = "letter"
      BY <3>4 DEF CodeOf
    <3>5. CASE e.key = Enter /\ Enter = "numlock"
      BY <3>5 DEF CodeOf
    <3> QED BY <1>2, <3>1, <3>2, <3>3, <3>4, <3>5
  <2> QED BY <2>1 DEF Newline, Upper, Lower, Nul, Printed, Char
<1>3. CASE /\ e.key \notin {Enter, "letter", "numlock"}
           /\ e.key \in {"tab", Backspace} \cup Arrow
  <2>1. CodeOf(e.key, up) = e.key
    BY <1>3 DEF CodeOf, Backspace, Arrow
  <2> QED BY <1>3, <2>1 DEF Backspace, Arrow, Printed
<1> QED BY <1>1, <1>2, <1>3

(* At rest no key disturbs anything; in the middle of printf, none that    *)
(* does not move the cursor back, but half way.                            *)
LEMMA RestsWithin ==
    ASSUME GInv, Within(stage, scr, reg), stage \in {"run", "again", "read", "copy"}
    PROVE  AtRest(scr)
<1>1. stage \in Idle /\ stage \in Strict
  BY DEF Idle, Strict
<1>2. \A i \in PrintedIn(scr) : i < Bottom /\ i < OutAt(scr)
  BY <1>1, MarkIs DEF Within, Reaches
<1>3. scr.x < SCREEN_WIDTH /\ scr.y \in 0 .. SCREEN_HEIGHT - 1 /\ scr.out_y >= 0
  <2>1. /\ scr.x \in 0 .. SCREEN_WIDTH /\ scr.y \in -1 .. SCREEN_HEIGHT
        /\ scr.out_y \in -1 .. SCREEN_HEIGHT - 1
        /\ scr.x # SCREEN_WIDTH /\ scr.y # SCREEN_HEIGHT
        /\ ~(scr.y < 0) /\ ~(scr.out_y < 0)
    BY DEF GInv, OnScreen, Below, Above
  <2> QED BY <2>1, ScreenSize
<1> QED BY <1>2, <1>3, GInvOnGrid DEF AtRest

LEMMA RestIsWithin ==
    ASSUME NEW s, AtRest(s), NEW at \in {"run", "again", "read", "copy"}, NEW r
    PROVE  Within(at, s, r)
<1>1. at \in Idle /\ at # "clear"
  BY DEF Idle
<1>2. \A i : i < OutAt(s) => Reaches(at, s, r, i)
  BY <1>1, MarkIs DEF Reaches
<1>3. s.y >= 0
  BY AtRestEnds, ScreenSize
<1>4. Beside(at, s, r)
  BY <1>3 DEF Beside, Copying
<1> QED BY <1>2, <1>4, AtRestEnds DEF Within

LEMMA PressWithin ==
    ASSUME SCREEN_WIDTH >= 3, GInv, Within(stage, scr, reg),
           NEW e \in Event, Press(e), ~disturbed'
    PROVE  Within(stage', scr', reg')
<1>1. stage' = stage /\ reg' = reg /\ scr' = Echo(e) /\ ~Disturbs(e)
  <2>1. stage' = stage /\ reg' = reg /\ scr' = Echo(e)
    BY DEF Press, kernel_vars
  <2>2. ~Disturbs(e)
    BY Zenon DEF Press
  <2> QED BY <2>1, <2>2
<1>2. CASE e.up \/ e.key \in Modifier
  BY <1>1, <1>2 DEF Echo
<1>3. CASE ~(e.up \/ e.key \in Modifier)
  <2>1. PICK c : c = CodeOf(e.key, upper)
    OBVIOUS
  <2>2. scr' = putc(scr, c)
    BY <1>1, <1>3, <2>1 DEF Echo
  <2>3. CASE e.key \notin Arrow \cup {Backspace}
    <3>1. c \in (Char \ {Printed}) \cup {Newline, "tab"}
      BY <1>3, <2>1, <2>3, CodeKinds
    <3>2. stage \notin Halfway
      BY <1>1, <1>3 DEF Disturbs
    <3>3. reg \in Int /\ Counts(stage, reg)
      BY DEF GInv
    <3> QED BY <1>1, <2>2, <3>1, <3>2, <3>3, GInvOnGrid, PutcWithin
  <2>4. CASE e.key \in Arrow \cup {Backspace}
    <3>1. stage \in {"run", "again", "read", "copy"}
      BY <1>1, <1>3, <2>4 DEF Disturbs
    <3>2. AtRest(scr)
      BY <3>1, RestsWithin
    <3>3. c # Printed
      BY <1>3, <2>1, CodeKinds
    <3>4. AtRest(scr')
      BY <2>2, <3>2, <3>3, PutcKeeps
    <3> QED BY <1>1, <3>1, <3>4, RestIsWithin
  <2> QED BY <2>3, <2>4
<1> QED BY <1>2, <1>3

LEMMA StepPrintedInv ==
    ASSUME SCREEN_WIDTH >= 3, Waiting, GInv, PrintedInv, [CNext]_cvars
    PROVE  PrintedInv'
<1> SUFFICES ASSUME ~disturbed' PROVE Within(stage', scr', reg')
  BY DEF PrintedInv, Within, Beside, Reaches, Mark
<1>1. Within(stage, scr, reg)
  BY DisturbedStays DEF PrintedInv
<1>2. ASSUME NEW kernel \in BOOLEAN, Tick(kernel) PROVE Within(stage', scr', reg')
  BY <1>1, <1>2 DEF Tick, kernel_vars
<1>3. CASE UNCHANGED cvars
  BY <1>1, <1>3 DEF cvars, kernel_vars
<1> QED
  BY <1>1, <1>2, <1>3, PrintsWithin, ReadWithin, PressWithin DEF CNext

(* On screens of at least three columns, no key changes what a printf that *)
(* has returned has printed, but for scrolling one line (stdio.h:15),      *)
(* whatever else is printed and typed, in the middle of printing too: but  *)
(* for an arrow or Backspace there, and for a key that is echoed half way  *)
(* (Halfway), as while scrollback copies the screen (stdio.c:61-75).       *)
THEOREM PrintedIsKept == SCREEN_WIDTH >= 3 => (CSpec => PrintedStays)
<1> SUFFICES ASSUME SCREEN_WIDTH >= 3 PROVE CSpec => PrintedStays
  OBVIOUS
<1>1. CInit => Waiting
  BY DEF CInit, Init, Waiting
<1>2. CInit => PrintedInv
  <2> SUFFICES ASSUME CInit PROVE Within(stage, scr, reg)
    BY DEF PrintedInv
  <2>1. PrintedIn(scr) = {}
    BY DEF CInit, PrintedIn, Nul, Printed
  <2>2. Beside(stage, scr, reg)
    BY DEF CInit, Beside, Copying
  <2> QED BY <2>1, <2>2 DEF Within
<1>3. ASSUME GInv, PrintedInv, NEW e \in Event, Press(e),
             stage \in {"run", "again", "read", "copy"}, ~disturbed
      PROVE  \E lines \in 0 .. 1 :
                /\ lines > 0 => scr.y + lines >= SCREEN_HEIGHT
                /\ \A i \in Cell :
                      scr.cell[i] = Printed /\ i >= lines * SCREEN_WIDTH =>
                          scr'.cell[i - lines * SCREEN_WIDTH] = Printed
  <2>1. AtRest(scr)
    BY <1>3, RestsWithin DEF PrintedInv
  <2>2. Stays(scr, scr') \/ Rises(scr, scr')
    <3>1. CASE e.up \/ e.key \in Modifier
      <4>1. scr' = scr
        BY <1>3, <3>1 DEF Press, Echo
      <4> QED BY <4>1 DEF Stays
    <3>2. CASE ~(e.up \/ e.key \in Modifier)
      <4>1. scr' = putc(scr, CodeOf(e.key, upper))
        BY <1>3, <3>2 DEF Press, Echo
      <4>2. CodeOf(e.key, upper) # Printed
        BY <3>2, CodeKinds
      <4> QED BY <2>1, <4>1, <4>2, PutcKeeps
    <3> QED BY <3>1, <3>2
  <2>3. \A i \in Cell : i \in Int /\ i - 0 * SCREEN_WIDTH = i
    BY CellsAreInt, ScreenSize
  <2>4. 1 * SCREEN_WIDTH = SCREEN_WIDTH
    BY ScreenSize
  <2>5. CASE Stays(scr, scr')
    <3>1. \A i \in Cell : scr.cell[i] = Printed =>
                             scr'.cell[i - 0 * SCREEN_WIDTH] = Printed
      BY <2>3, <2>5 DEF Stays, PrintedIn
    <3>2. 0 \in 0 .. 1 /\ ~(0 > 0)
      OBVIOUS
    <3> QED BY <3>1, <3>2
  <2>6. CASE Rises(scr, scr')
    <3>1. \A i \in Cell : scr.cell[i] = Printed /\ i >= 1 * SCREEN_WIDTH =>
                             scr'.cell[i - 1 * SCREEN_WIDTH] = Printed
      BY <2>4, <2>6 DEF Rises, PrintedIn
    <3>2. 1 \in 0 .. 1 /\ scr.y + 1 >= SCREEN_HEIGHT
      BY <2>6 DEF Rises
    <3> QED BY <3>1, <3>2
  <2> QED BY <2>2, <2>5, <2>6
<1>4. GInv /\ PrintedInv /\ [CNext]_cvars =>
         [\A e \in Event :
            Press(e) /\ stage \in {"run", "again", "read", "copy"} /\ ~disturbed =>
              \E lines \in 0 .. 1 :
                /\ lines > 0 => scr.y + lines >= SCREEN_HEIGHT
                /\ \A i \in Cell :
                      scr.cell[i] = Printed /\ i >= lines * SCREEN_WIDTH =>
                          scr'.cell[i - lines * SCREEN_WIDTH] = Printed]_cvars
  BY <1>3
<1>5. Waiting /\ GInv /\ PrintedInv /\ [CNext]_cvars => Waiting' /\ GInv' /\ PrintedInv'
  BY StepWaiting, StepGInv, StepPrintedInv
<1>6. CInit => GInv
  BY InitGInv
<1> QED
  BY <1>1, <1>2, <1>4, <1>5, <1>6, PTL DEF CSpec, PrintedStays
=============================================================================
