------------------------------ MODULE Console ------------------------------
(***************************************************************************)
(* The text console (include/stdio.c): putc and the screen it writes, the  *)
(* out cursor before which nothing typed may go, printf, and scanf, which  *)
(* reads a line off the screen. The keyboard handler (hal/handler.c)       *)
(* echoes keys with the same putc (main.c:14-32), and may do so between    *)
(* any two steps of the kernel's own putc, printf and scanf. A step of     *)
(* putc evaluates one expression or writes one variable or cell: what is   *)
(* read to be changed, or to be written elsewhere, is in reg and ch until  *)
(* then. scanf copies a row at a time. The wait for Enter in the middle of *)
(* scanf is KeyboardReader.tla.                                            *)
(*                                                                         *)
(* Colours and the hardware cursor are left out. Formatting is left out:   *)
(* what is printed is given by its characters.                             *)
(***************************************************************************)
EXTENDS KeyboardReader, Integers, Sequences

CONSTANTS
    SCREEN_WIDTH, SCREEN_HEIGHT,    \* 80 and 25 in the code
    Texts,                          \* what the kernel may print at a time
    Elsewhere,                      \* what is read before and behind the memory of Cell
    MaxPrints                       \* bound: calls of printf

(* Characters: what the kernel prints, and what the keys type.             *)
Nul     == "nul"
Space   == "space"
Printed == "#"
Lower   == "a"
Upper   == "A"
Newline == "newline"
Char    == {Nul, Space, Printed, Lower, Upper}

Backspace == "backspace"
Arrow     == {"up", "down", "left", "right"}
Modifier  == {"lshift", "rshift", "caps"}

(* us_keyboard_down and us_keyboard_up: the same but for letters. A key    *)
(* that is not in the tables, as NumLock, has the code 0.                  *)
CodeOf(key, upper) ==
    CASE key = Enter -> Newline
      [] key = "letter" -> IF upper THEN Upper ELSE Lower
      [] key = "numlock" -> Nul
      [] OTHER -> key

ASSUME ConsoleAssumption ==
    /\ SCREEN_WIDTH \in Nat \ {0} /\ SCREEN_HEIGHT \in Nat \ {0, 1}
    /\ \A text \in Texts : text \in Seq({Printed, Newline})
    /\ Key \subseteq {Enter, "letter", "numlock", "tab", Backspace} \cup Arrow \cup Modifier
    /\ Elsewhere \in Char
    /\ MaxPrints \in Nat

VARIABLES
    scr,        \* the screen and both cursors: see Screen
    key_state,  \* the modifiers the handler believes to be on
    stage,      \* where the kernel is: see Stage
    todo,       \* what printf has still to print
    reg,        \* a number the kernel has read, or counts with: see Reading
    ch,         \* the character that scrollback has read
    place,      \* x and y in _read_console
    buffer,     \* the line that is being read
    prints,     \* number of calls of printf
    typed,      \* history: what was typed since the out cursor was set
    plain,      \* history: and was that simple? see PlainAfter
    disturbed   \* history: see Disturbs and SetOutX

kernel_vars  == <<stage, todo, reg, ch, place, buffer, prints>>
history_vars == <<typed, plain, disturbed>>
cvars == <<vars, scr, key_state, kernel_vars, history_vars>>

(* One row more than the screen has: the memory behind it. There is a row  *)
(* before it too, to which a cursor may point, but no memory of the screen.*)
Cell == 0 .. SCREEN_WIDTH * (SCREEN_HEIGHT + 1) - 1

Screen == [cell : [Cell -> Char], x : Int, y : Int, out_x : Int, out_y : Int]

-----------------------------------------------------------------------------
(* putc and its parts                                                      *)

Lin(x, y) == y * SCREEN_WIDTH + x

getc(s, x, y) == IF Lin(x, y) \in Cell THEN s.cell[Lin(x, y)] ELSE Elsewhere

Stored(s, at, c) ==
    IF at \in Cell THEN [s EXCEPT !.cell = [@ EXCEPT ![at] = c]] ELSE s

putchar(s, c) == Stored(s, Lin(s.x, s.y), c)

(* Bug: the cell before the out cursor can be written and removed.         *)
BeyondOutAnd(s, least) ==
    s.y > s.out_y \/ (s.y = s.out_y /\ s.x + 1 >= s.out_x + least)

(* The cursor is at least so many cells behind the out cursor.             *)
BeyondOut(s, least) ==
    s.y > s.out_y \/ (s.y = s.out_y /\ s.x >= s.out_x + least)

Back(s) ==
    IF s.x > 0 THEN [s EXCEPT !.x = @ - 1]
    ELSE [s EXCEPT !.x = SCREEN_WIDTH - 1, !.y = @ - 1]

(* With text behind it in its row, a character is replaced with a space.   *)
Removed(s) ==
    putchar(s, IF \E i \in s.x + 1 .. SCREEN_WIDTH - 1 : getc(s, i, s.y) # Nul
               THEN Space ELSE Nul)

Moved(s, c) ==
    CASE c = Newline -> [s EXCEPT !.x = 0, !.y = @ + 1]
      [] c = Backspace /\ (s.y > 0 \/ s.x > 0) /\ BeyondOut(s, 1) -> Removed(Back(s))
      [] c = "up" /\ s.y > 0 -> [s EXCEPT !.y = @ - 1]
      [] c = "down" /\ s.y < s.out_y -> [s EXCEPT !.y = @ + 1]
      [] c = "left" /\ (s.y > 0 \/ s.x > 0) -> [s EXCEPT !.x = @ - 1]
      [] c = "right" /\ getc(s, s.x, s.y) # Nul -> [s EXCEPT !.x = @ + 1]
      [] c = "right" /\ getc(s, s.x, s.y) = Nul /\ s.y < s.out_y ->
            [s EXCEPT !.x = 0, !.y = @ + 1]
      [] OTHER -> s

InRow(s) ==
    IF s.x >= 0 THEN s
    ELSE [s EXCEPT !.x = SCREEN_WIDTH - 1, !.y = IF @ > 0 THEN @ - 1 ELSE 0]

(* Behind the text of its row, the cursor goes back to the end of it.      *)
AtText(s) ==
    LET text == {i \in 0 .. s.x - 1 : getc(s, i, s.y) # Nul}
    IN  IF getc(s, s.x, s.y) # Nul THEN s
        ELSE IF text = {} THEN [s EXCEPT !.x = 0]
        ELSE [s EXCEPT !.x = (CHOOSE i \in text : \A j \in text : j <= i) + 1]

(* SCREEN_WIDTH and SCREEN_HEIGHT are unsigned: compared with them, a      *)
(* cursor above the screen is far below it.                                *)
AtLeast(n, limit) == n < 0 \/ n >= limit

Wrapped(s) ==
    IF AtLeast(s.x, SCREEN_WIDTH) THEN [s EXCEPT !.x = 0, !.y = @ + 1] ELSE s

(* One line up, with both cursors.                                         *)
scrollback(s) ==
    [cell  |-> [i \in Cell |->
                   IF i < SCREEN_WIDTH * (SCREEN_HEIGHT - 1) THEN s.cell[i + SCREEN_WIDTH]
                   ELSE IF i < SCREEN_WIDTH * SCREEN_HEIGHT THEN Nul ELSE s.cell[i]],
     x     |-> IF s.y > 0 THEN s.x ELSE 0,
     y     |-> IF s.y > 0 THEN s.y - 1 ELSE 0,
     out_x |-> IF s.out_y > 0 THEN s.out_x ELSE 0,
     out_y |-> IF s.out_y > 0 THEN s.out_y - 1 ELSE 0]

Scrolled(s) == IF AtLeast(s.y, SCREEN_HEIGHT) THEN scrollback(s) ELSE s

Advanced(s) == [s EXCEPT !.x = @ + 1]

PutPlain(s, c) ==
    Scrolled(Wrapped(IF c \in Char /\ BeyondOut(s, 0) THEN Advanced(putchar(s, c))
                     ELSE AtText(InRow(Moved(s, c)))))

PutSpace(s) == PutPlain(s, Space)

TabStop == 4

PutSpaces(s, n) ==
    CASE n = 1 -> PutSpace(s)
      [] n = 2 -> PutSpace(PutSpace(s))
      [] n = 3 -> PutSpace(PutSpace(PutSpace(s)))
      [] n = 4 -> PutSpace(PutSpace(PutSpace(PutSpace(s))))

putc(s, c) ==
    IF c = "tab"
    THEN Scrolled(Wrapped(AtText(InRow(PutSpaces(s, TabStop - (s.x % TabStop))))))
    ELSE PutPlain(s, c)

-----------------------------------------------------------------------------
(* The keyboard handler                                                    *)

upper == (key_state.lshift \/ key_state.rshift) # key_state.caps_lock

(* While it is held, the caps key repeats as every key does.               *)
KeyStateAfter(e) ==
    CASE e.key = "lshift" -> [key_state EXCEPT !.lshift = ~e.up]
      [] e.key = "rshift" -> [key_state EXCEPT !.rshift = ~e.up]
      [] e.key = "caps" /\ ~e.up -> [key_state EXCEPT !.caps_lock = ~@]
      [] OTHER -> key_state

(* keyboard_listener: a key that goes down is echoed if it has a character *)
(* or moves the cursor.                                                    *)
Echo(e) ==
    IF e.up \/ e.key \in Modifier THEN scr ELSE putc(scr, CodeOf(e.key, upper))

-----------------------------------------------------------------------------
(* History: what a user who looks at the keyboard only has typed. Enter    *)
(* counts as a character that Backspace removes.                           *)

ButLast(q) == IF q = <<>> THEN q ELSE SubSeq(q, 1, Len(q) - 1)

TypedAfter(e) ==
    CASE e.up \/ e.key \in Modifier -> typed
      [] ~e.up /\ e.key = Backspace -> ButLast(typed)
      [] ~e.up /\ e.key = "tab" ->
            typed \o [i \in 1 .. TabStop - (scr.x % TabStop) |-> Space]
      [] OTHER -> Append(typed, CodeOf(e.key, upper))

(* The lines a key scrolls away are more than there are above the input.   *)
Overflows(e) ==
    LET new  == Len(TypedAfter(e)) - Len(typed)
        last == IF e.key = Enter THEN scr.y + 1
                ELSE (Lin(scr.x, scr.y) + new) \div SCREEN_WIDTH
    IN  ~e.up /\ last - (SCREEN_HEIGHT - 1) > scr.out_y

(* The line stays simple while it is typed and corrected at its end, fits  *)
(* the screen, and is not changed or scrolled while it is being read or    *)
(* the kernel is printing.                                                 *)
PlainAfter(e) ==
    /\ plain
    /\ e.up \/ e.key \notin Arrow \cup {"numlock"}
    /\ ~Overflows(e)
    /\ stage \in {"run", "again", "read", "copy"}
    /\ stage = "copy" => /\ e.up \/ e.key # Backspace
                         /\ Echo(e).out_y = scr.out_y

(* The kernel has read where to put a character and not put it yet, has    *)
(* moved a part of the screen, or has found both cursors in one row and    *)
(* not compared their columns yet.                                         *)
Halfway == {"put", "load", "store", "clear", "same"}

(* A key that moves the cursor back while the kernel is printing, or any   *)
(* that is echoed when it is half way.                                     *)
Disturbs(e) ==
    /\ ~e.up /\ e.key \notin Modifier
    /\ \/ stage \in Halfway
       \/ /\ e.key \in Arrow \cup {Backspace}
          /\ stage \notin {"run", "again", "read", "copy"}

(* A fresh line: nothing behind the out cursor, and no gap before it (a    *)
(* key that comes inside of putc may leave one).                           *)
Clean(s) ==
    /\ s.x = s.out_x /\ s.y = s.out_y
    /\ s.x > 0 => getc(s, s.x - 1, s.y) # Nul
    /\ \A i \in Cell : i >= Lin(s.out_x, s.out_y) => s.cell[i] = Nul

Forget == typed' = <<>> /\ plain' = Clean(scr')

-----------------------------------------------------------------------------

CInit ==
    /\ Init
    /\ scr = [cell |-> [i \in Cell |-> Nul], x |-> 0, y |-> 0, out_x |-> 0, out_y |-> 0]
    /\ key_state = [lshift |-> FALSE, rshift |-> FALSE, caps_lock |-> FALSE]
    /\ stage = "run"
    /\ todo = <<>>
    /\ reg = 0
    /\ ch = Nul
    /\ place = <<0, 0>>
    /\ buffer = <<>>
    /\ prints = 0
    /\ typed = <<>>
    /\ plain = TRUE
    /\ disturbed = FALSE

Goes(here, next) ==
    /\ kernelRuns
    /\ stage = here
    /\ stage' = next
    /\ UNCHANGED <<vars, key_state, prints>>

(* printf: the characters one after the other, each through putc.          *)
Printf(text) ==
    /\ kernelRuns
    /\ stage = "run"
    /\ prints < MaxPrints
    /\ stage' = "putc"
    /\ prints' = prints + 1
    /\ todo' = text
    /\ UNCHANGED <<vars, key_state, scr, reg, ch, place, buffer, history_vars>>

(* A step of the kernel that leaves the screen as s, and n in reg.         *)
Does(here, next, s, n) ==
    /\ Goes(here, next)
    /\ scr' = s
    /\ reg' = n
    /\ UNCHANGED <<todo, ch, place, buffer, history_vars>>

Reads(here, next, n)  == Does(here, next, scr, n)
Writes(here, next, s) == Does(here, next, s, 0)
Tests(here, next)     == Does(here, next, scr, 0)

PutcNewline ==
    /\ todo # <<>> /\ Head(todo) = Newline
    /\ Writes("putc", "newline", [scr EXCEPT !.x = 0])

PutcCharacter ==
    /\ todo # <<>> /\ Head(todo) # Newline
    /\ Tests("putc", IF BeyondOut(scr, 0) THEN "write" ELSE "settle")

(* g_scr_y++                                                               *)
Lowers(read, write, next) ==
    \/ Reads(read, write, scr.y)
    \/ Writes(write, next, [scr EXCEPT !.y = reg + 1])

WritesCharacter ==
    \/ Reads("write", "put", Lin(scr.x, scr.y))
    \/ Writes("put", "advance", Stored(scr, reg, Head(todo)))
    \/ Reads("advance", "forward", scr.x)
    \/ Writes("forward", "wrap", [scr EXCEPT !.x = reg + 1])

(* AtText. What the kernel prints never takes the cursor to the left of    *)
(* its row, so there is no InRow.                                          *)
FindsText ==
    \/ Tests("settle", IF getc(scr, scr.x, scr.y) = Nul THEN "left" ELSE "wrap")
    \/ Reads("left", "search", scr.x - 1)
    \/ reg < 0 /\ Writes("search", "wrap", [scr EXCEPT !.x = 0])
    \/ /\ reg >= 0
       /\ IF getc(scr, reg, scr.y) = Nul THEN Reads("search", "search", reg - 1)
          ELSE Reads("search", "found", reg)
    \/ Writes("found", "wrap", [scr EXCEPT !.x = reg + 1])

Wraps ==
    \/ Tests("wrap", IF AtLeast(scr.x, SCREEN_WIDTH) THEN "return" ELSE "bottom")
    \/ Writes("return", "feed", [scr EXCEPT !.x = 0])

(* scrollback(1): cell by cell, each read before it is written.            *)
Copies ==
    LET all == SCREEN_WIDTH * SCREEN_HEIGHT
        low == SCREEN_WIDTH * (SCREEN_HEIGHT - 1)
    IN  \/ Reads("bottom", IF AtLeast(scr.y, SCREEN_HEIGHT) THEN "load" ELSE "next",
                 SCREEN_WIDTH)
        \/ /\ Goes("load", "store")
           /\ ch' = scr.cell[reg]
           /\ UNCHANGED <<scr, reg, todo, place, buffer, history_vars>>
        \/ /\ IF reg + 1 < all THEN Does("store", "load", Stored(scr, reg - SCREEN_WIDTH, ch), reg + 1)
              ELSE Does("store", "clear", Stored(scr, reg - SCREEN_WIDTH, ch), low)
        \/ Does("clear", IF reg + 1 < all THEN "clear" ELSE "cleared", Stored(scr, reg, Nul), reg + 1)

Raises ==
    \/ Reads("cleared", "up", scr.y)
    \/ Writes("up", "raised", [scr EXCEPT !.y = reg - 1])
    \/ Reads("raised", "out_up", scr.out_y)
    \/ Writes("out_up", "test", [scr EXCEPT !.out_y = reg - 1])

(* Bug: the out cursor is looked after only when the cursor is.            *)
ClipsTogether ==
    \/ Tests("test", IF scr.y < 0 THEN "top" ELSE "next")
    \/ Writes("top", "corner", [scr EXCEPT !.y = 0])
    \/ Writes("corner", "out_top", [scr EXCEPT !.x = 0])
    \/ Writes("out_top", "out_corner", [scr EXCEPT !.out_y = 0])
    \/ Writes("out_corner", "next", [scr EXCEPT !.out_x = 0])

(* Neither cursor is left above the screen.                                *)
Clips ==
    \/ Tests("test", IF scr.y < 0 THEN "top" ELSE "out_test")
    \/ Writes("top", "corner", [scr EXCEPT !.y = 0])
    \/ Writes("corner", "out_test", [scr EXCEPT !.x = 0])
    \/ Tests("out_test", IF scr.out_y < 0 THEN "out_top" ELSE "next")
    \/ Writes("out_top", "out_corner", [scr EXCEPT !.out_y = 0])
    \/ Writes("out_corner", "next", [scr EXCEPT !.out_x = 0])

LineCheck ==
    \/ Lowers("newline", "down", "settle")
    \/ WritesCharacter
    \/ FindsText
    \/ Wraps
    \/ Lowers("feed", "fed", "bottom")
    \/ Copies
    \/ Raises
    \/ Clips

PutcDone ==
    /\ Goes("next", "putc")
    /\ todo' = Tail(todo)
    /\ UNCHANGED <<scr, reg, ch, place, buffer, history_vars>>

(* The out cursor goes to where the cursor is.                             *)
SetOutX(read, write, next) ==
    \/ /\ Goes(read, write)
       /\ reg' = scr.x
       /\ disturbed' = (disturbed \/ ~BeyondOut(scr, 0))
       /\ UNCHANGED <<scr, todo, ch, place, buffer, typed, plain>>
    \/ Writes(write, next, [scr EXCEPT !.out_x = reg])

(* The last write of printf and of scanf: a line that is read begins here. *)
SetOutY(here, next) ==
    /\ Goes(here, next)
    /\ scr' = [scr EXCEPT !.out_y = reg]
    /\ reg' = 0
    /\ buffer' = <<>>
    /\ Forget
    /\ UNCHANGED <<todo, ch, place, disturbed>>

Greater(m, n) == IF m < n THEN n ELSE m

(* The end of writef: what was printed is now out of reach.                *)
PrintfEnds ==
    \/ todo = <<>> /\ Tests("putc", IF scr.y > scr.out_y THEN "endx" ELSE "same")
    \/ SetOutX("endx", "endx2", "endy")
    \/ Reads("endy", "endy2", scr.y)
    \/ Writes("endy2", "least", [scr EXCEPT !.out_y = reg])
    \/ Reads("same", "same2", Greater(scr.out_x, scr.x))
    \/ Writes("same2", "least", [scr EXCEPT !.out_x = reg])
    \/ Reads("least", "least2", Greater(scr.out_x, 0))
    \/ Writes("least2", "last", [scr EXCEPT !.out_x = reg])
    \/ Reads("last", "last2", Greater(scr.out_y, 0))
    \/ SetOutY("last2", "run")

Prints ==
    \/ \E text \in Texts : Printf(text)
    \/ PutcNewline \/ PutcCharacter \/ LineCheck \/ PutcDone \/ PrintfEnds

(* scanf: the wait for Enter, with the steps of KeyboardReader.            *)
Ask ==
    /\ Scanf
    /\ stage \in {"run", "again"}
    /\ stage' = "read"
    /\ UNCHANGED <<scr, key_state, todo, reg, ch, place, buffer, prints, history_vars>>

Wait ==
    /\ Reset \/ Halt \/ TestCalled \/ TestUp
    /\ UNCHANGED <<scr, key_state, kernel_vars, history_vars>>

Answer ==
    /\ TestChar
    /\ stage' = IF pc' = "away" THEN "copy" ELSE stage
    /\ place' = IF pc' = "away" THEN <<scr.out_x, scr.out_y>> ELSE place
    /\ UNCHANGED <<scr, key_state, todo, reg, ch, buffer, prints, history_vars>>

(* The text of a row, from a column to the first cell without text.        *)
RowText(s, x, y) ==
    LET ends == {i \in x .. SCREEN_WIDTH - 1 : getc(s, i, y) = Nul}
        end  == IF ends = {} THEN SCREEN_WIDTH
                ELSE CHOOSE i \in ends : \A j \in ends : i <= j
    IN  [i \in 1 .. end - x |-> getc(s, x + i - 1, y)]

(* Bug: every row is read from the column of the out cursor.               *)
CopyRowIndented ==
    /\ place[2] < scr.y
    /\ Goes("copy", "copy")
    /\ buffer' = buffer \o RowText(scr, place[1], place[2])
    /\ place' = <<place[1], place[2] + 1>>
    /\ UNCHANGED <<scr, todo, reg, ch, history_vars>>

CopyRow ==
    /\ place[2] < scr.y
    /\ Goes("copy", "copy")
    /\ buffer' = buffer \o RowText(scr, place[1], place[2])
    /\ place' = <<0, place[2] + 1>>
    /\ UNCHANGED <<scr, todo, reg, ch, history_vars>>

(* With an empty line the format is not used up, and scanf reads again.    *)
Read ==
    \/ Ask \/ Wait \/ Answer \/ CopyRow
    \/ place[2] >= scr.y /\ Tests("copy", "outx")
    \/ SetOutX("outx", "outx2", "outy")
    \/ Reads("outy", "outy2", scr.y)
    \/ SetOutY("outy2", IF buffer = <<>> THEN "again" ELSE "run")

(* The keyboard interrupt.                                                 *)
Press(e) ==
    /\ KeyEvent(e)
    /\ scr' = Echo(e)
    /\ key_state' = KeyStateAfter(e)
    /\ plain' = PlainAfter(e)
    /\ typed' = IF PlainAfter(e) THEN TypedAfter(e) ELSE <<>>
    /\ disturbed' = (disturbed \/ Disturbs(e))
    /\ UNCHANGED kernel_vars

Tick(kernel) ==
    /\ TickTo(kernel)
    /\ UNCHANGED <<scr, key_state, kernel_vars, history_vars>>

CNext ==
    \/ Prints
    \/ Read
    \/ \E e \in Event : Press(e)
    \/ \E kernel \in BOOLEAN : Tick(kernel)

CSpec == CInit /\ [][CNext]_cvars

-----------------------------------------------------------------------------

(* The cursor may be in the row below the screen, and above it.            *)
Below == {"settle", "left", "search", "found", "wrap", "bottom",
          "load", "store", "clear", "cleared", "up"}
Above == {"raised", "out_up", "test", "top"}

Stage == Below \cup Above \cup
         {"run", "putc", "newline", "down", "write", "put", "advance", "forward",
          "return", "feed", "fed", "corner", "out_test", "out_top", "out_corner", "next",
          "endx", "endx2", "endy", "endy2", "same", "same2", "least", "least2", "last", "last2",
          "read", "copy", "outx", "outx2", "outy", "outy2", "again"}

(* Whatever the keys do in the middle of the kernel's putc, both cursors   *)
(* stay on the screen between two calls of it, and within it they leave    *)
(* the screen by one column or row at most, at few places: the cursor to   *)
(* the right or below before it wraps or scrolls, and both to above while  *)
(* scrollback takes them one row up.                                       *)
OnScreen ==
    /\ scr \in Screen
    /\ stage \in Stage
    /\ scr.x \in 0 .. SCREEN_WIDTH /\ scr.y \in -1 .. SCREEN_HEIGHT
    /\ scr.out_x \in 0 .. SCREEN_WIDTH - 1 /\ scr.out_y \in -1 .. SCREEN_HEIGHT - 1
    /\ scr.x = SCREEN_WIDTH => stage \in {"wrap", "return"}
    /\ scr.y = SCREEN_HEIGHT => stage \in Below
    /\ scr.y < 0 => stage \in Above
    /\ scr.out_y < 0 => stage \in {"test", "top", "corner", "out_test", "out_top"}

(* "any characters printed with printf cannot be removed (backspace)       *)
(* unless it goes above the screen" (include/stdio.h:15): no key changes   *)
(* a printed character, once its printf has returned, but for scrolling -- *)
(* if no earlier key came while a printf was half way (see Disturbs).      *)
PrintedStays ==
    [][\A e \in Event :
        Press(e) /\ stage \in {"run", "again", "read", "copy"} /\ ~disturbed =>
            \E lines \in 0 .. 1 :
                /\ lines > 0 => scr.y + lines >= SCREEN_HEIGHT
                /\ \A i \in Cell :
                      scr.cell[i] = Printed /\ i >= lines * SCREEN_WIDTH =>
                          scr'.cell[i - lines * SCREEN_WIDTH] = Printed]_cvars

Text(q) == SelectSeq(q, LAMBDA c : c # Newline)

(* What was typed up to the last Enter.                                    *)
Entered(q) ==
    LET ends == {i \in DOMAIN q : q[i] = Newline}
    IN  IF ends = {} THEN <<>>
        ELSE SubSeq(q, 1, CHOOSE i \in ends : \A j \in ends : j <= i)

StartsWith(q, p) == Len(p) <= Len(q) /\ SubSeq(q, 1, Len(p)) = p

(* "copy the input from the console to the buffer" (stdio.c:455): the line *)
(* that scanf reads off the screen is what was typed, with what Backspace  *)
(* took back left out and the shift keys heeded, across rows, tabs, the    *)
(* scrolling of the screen and whatever was printed before it. A key after *)
(* the Enter may add to the line, and never takes from it.                 *)
LineIsTyped ==
    stage = "outx" /\ plain =>
        /\ StartsWith(Text(typed), buffer)
        /\ StartsWith(buffer, Text(Entered(typed)))
=============================================================================
