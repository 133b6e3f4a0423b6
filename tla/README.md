# CrypthantusOS in TLA+

A verification project for the kernel of CrypthantusOS: TLA+ modules translated
from its C and assembly source, TLC configurations that check them on small
instances, and proofs that TLAPS checks for every value of the constants. Paths
below are relative to `src/src/kernel/` unless they begin with `src/`.

## 1. The system

CrypthantusOS is a 32-bit kernel for one i686 CPU, run on QEMU. A two-stage boot
loader reads the kernel from a FAT12 floppy, detects memory, switches to
protected mode with paging and jumps to `main`. `main` initialises the parts
below in order and then is the shell: it reads a line and runs a command. Two of
its commands start user processes, which share the CPU with the shell from then
on. Everything in the kernel runs on the one CPU; concurrency comes from
interrupts (timer every 50 ms, keyboard, floppy), from the preemption the timer
drives, and from the drive, which works on its own.

| component | state | operations | interacts with |
|---|---|---|---|
| scheduler, `hal/scheduler.c` | flags and saved registers of 10 slots, saved registers of the kernel, who runs | create, remove, `preempt` | called by the timer interrupt, system call 0 and the shell; asks the buddy allocator for a page table |
| interrupts, `arch/i686/isr.*`, `irq.c`, `io.asm` | handlers, `is_keyboard_intr`, `idle_ticks`, `interrupt_called(_ready)` | dispatch, timed waits, `sti; hlt` | every driver; the trap frame on the stack is what `preempt` copies |
| system calls and exceptions, `hal/handler.c` | last key, modifier keys | exit, write, page fault, keyboard handler | scheduler, console, buddy allocator |
| buddy allocator, `util/buddy_alloc.c` | bitmap of a binary tree, page tables of the pool | `buddy_init`, `buddy_alloc`, `buddy_free` | heap, shell stack, scheduler, page fault handler |
| heap, `include/heap_allocator.c` | list of objects, list of free pieces, memory blocks | `malloc`, `realloc`, `free` | buddy allocator |
| console, `include/stdio.c` | screen, cursor, where output ends | `putc`, `printf`, `scanf` | keyboard handler (echo), `_read_console` waits for Enter |
| floppy driver, `arch/i686/floppy.c` | the DMA buffer, the wait | seek, read with five attempts each | `irq.c` waits, the controller, FAT |
| file system, `hal/fat.c` | open files with a sector buffer each, position, cluster | open, read, close, find | floppy driver |
| paging and descriptor tables, `arch/i686/page.c`, `gdt.c`, `idt.c`, `tss.c` | page directory, constant tables | set an entry, translate | everyone, at start-up |
| shell, `main.c`, `util/cmd.c`, `include/stack.c` | a stack of pointers in a buddy block | `try` to `try4` on heap and stack, `m` and `n` (processes), `read` | all of the above |
| stage 1, `src/src/bootloader/stage1` | registers, one buffer, what it has loaded | find, follow the chain, read with three attempts, reboot | BIOS; jumps to stage 2 |
| stage 2, `src/src/bootloader/stage2` | its own FAT driver's structure, the kernel's image, the memory map | `fat_init`, load the kernel, `detect_memory` | BIOS; hands `BOOT_DATA` and the structure of open files to the kernel |

**What is hard in it.** A trap frame is copied in several directions in `preempt`,
and only some interleavings of ticks, creations and exits show a wrong copy. The
timer handler enables interrupts before its `iret`. The shell waits by
`sti; hlt` with a flag it resets first, and reads three globals the keyboard
handler writes. The floppy driver's waits count ticks that may pass while it
does not have the CPU, and what it reads after a timeout may belong to an
earlier command. The buddy bitmap has one bit for "handed out" and "split", so a
long enough sequence of calls must never leave a bit that looks like the other.
Page table entries are rewritten without invalidating the TLB. The heap's two lists
run through several memory blocks, and which piece follows which object depends on
every call made before. The root directory's position and its buffer are two
things that a close has to bring back together, and a read can fail between any two
updates of a descriptor. The echo of a key runs the same `putc` as `printf`, on the same
cursors, in the middle of it. The boot loader reads through a BIOS that may fail at any
call, and what one stage leaves in memory is what the next one begins with: the memory
map decides where the pool lies, and stage 2's open files become the kernel's.
`stack_pop` returns a pointer into the stack's own memory, which its caller writes to
after the pop.
`PROJECT.json` lists these hazards at their lines, with the properties that
cover them.

**What makes each part correct.** *Scheduler*: a computation resumes exactly
where it stopped, an ended one never does, everybody gets a turn. *Buddy*: live
blocks are disjoint and mapped to their own memory, a request fails only when it
must. *Heap*: objects are disjoint, the two lists are sorted and account for
all memory of the heap's blocks. *Console*: a read ends when Enter is pressed, and only
then; the line that is read is the line that was typed; printed text cannot be
removed; the cursors stay on the screen. *Floppy*: a read returns, and success means the
right sector. *FAT*: reading a file returns its bytes in order whatever reads
fail, handles are not leaked. *Shell*: every pointer on the stack is that of a live object
of its own. *Stage 1*: it jumps to all of stage 2 or not at all. *Stage 2*: the kernel that
starts is the file, but for sectors that could not be read; the pool lies in memory that
exists and that nobody else uses.

## 2. Modules

| module | models | EXTENDS / INSTANCE |
|---|---|---|
| `TimeSharing` | abstract: what preemptive multitasking promises | |
| `Scheduler` | `hal/scheduler.c`, timer path, system call 0 | refines `TimeSharing` |
| `SchedulerProofs` | proofs about `Scheduler` | EXTENDS it |
| `BlockPool` | abstract: what a block allocator promises | |
| `BuddyTree` | the bitmap, and a whole call as operators on it | |
| `Buddy` | allocator, page tables, TLB; one action per call | EXTENDS `BuddyTree`, refines `BlockPool` |
| `Lemmas` | lemmas about numbers, division and loops that several proofs cite | |
| `BuddyTreeProofs` | lemmas about the tree and about the operators of a whole call | EXTENDS `BuddyTree`, `Lemmas` |
| `BuddyProofs` | proofs about `Buddy` | EXTENDS `Buddy`, `BuddyTreeProofs` |
| `BuddySearch` | the loops of both calls; one action per iteration | EXTENDS `BuddyTree` |
| `Stage1` | the boot sector, `stage1/boot.asm` | EXTENDS `Fat12` |
| `Boot`, `MCBoot` | power-on to a working allocator: stage 1, `detect_memory`, `buddy_init`, `heap_init`'s request, then every call | EXTENDS `Stage1`, `BuddySearch` |
| `BootProofs` | proofs about the machine's start: the allocation table, stage 1, the pool, every call, with the lemmas about the loops of a call | EXTENDS `Boot`, `BuddyTreeProofs` |
| `KeyboardReader` | `_read_console`'s wait against the keyboard interrupt | |
| `Console`, `MCConsole` | `putc`, `printf`, `scanf`, the echo of keys in the middle of them | EXTENDS `KeyboardReader` |
| `ConsoleProofs` | proofs about both: the wait, that the console implements it, the cursors, what is printed | EXTENDS `Console`, `Lemmas` |
| `Floppy` | seek, read, `i686_wait_max_time`, controller, timer | |
| `FloppyProofs` | proofs about it | EXTENDS it |
| `FileReader` | abstract: what an open file promises | |
| `Fat12` | the allocation table: packing, decoding, chains | |
| `Fat`, `MCFat` | `hal/fat.c` over a disk with unreadable sectors | EXTENDS `Fat12`, refines `FileReader` |
| `Stage2`, `MCStage2` | stage 2's FAT driver and loader, then the kernel's file system on the same structure | EXTENDS `Fat` |
| `FatProofs` | proofs about the driver, on its own and from stage 2 on | EXTENDS `Stage2`, `Lemmas` |
| `Heap` | `include/heap_allocator.c`; one action per call | |
| `Shell` | `include/stack.c` and the shell's commands on the heap | EXTENDS `Heap` |

### Scheduler

`processes`, `pcbs`, `kernel_pcb`, `cur_running_process` are the variables of
`scheduler.c`. `regs` is the register contents: of the CPU, or, in the tail of the
timer handler, of the trap frame that `iret` is about to restore. A `REGISTERS`
structure is abstracted to whose code and stack it points to (`owner`), how far
that computation has got (`pc`) and whose general registers it holds
(`general`); the three are exactly the groups that `preempt` fills from
different places (`scheduler.c:102-121` and `163-176`). Actions: `CreateUserProcess`
and `CreateFails` (both returns of `hal_create_user_process`), `Exit` (system
call 0), `TimerTick` (`irq_idle` with all of `preempt`), `NestedTick`, `Iret`,
`KernelWait` (the `sti; hlt` of the shell), `Work` (any other step of the computation
that has the CPU).

- `preempt`'s first test (`scheduler.c:76-80`) needs `PROCESS_THREAD`, which no
  code sets; the test and the counter `ticks` are left out.
- `TickInTail`. `irq_idle` executes `sti` (`irq.c:51`); after the EOI
  (`irq.c:27`) a second tick can be taken before the `iret`. It needs a tick that
  became pending while the handler ran with interrupts off, so it needs a handler
  that takes longer than 50 ms, e.g. a slow host. With `TickInTail = TRUE`
  the context saved is that of the handler (`owner = Handler`) and `OwnContext`
  fails; this is why `OwnContext` and the refinement are checked and proved
  with `TickInTail = FALSE`, while `TypeOK` and `ExitedNeverSaved` hold in both
  cases.
- Not modelled: `esp` and `ss` of a frame, see section 6.

### BuddyTree, Buddy, BuddySearch

A bitmap is the set of the tree nodes whose bit is set, the root being 1 and the
halves of n being 2n and 2n+1 (bit number plus one). `BuddyTree` says what a whole call does;
`Buddy` makes it a state machine with the blocks that callers hold, the page
tables and the TLB (which `isr_com` empties when it reloads `cr3`); `BuddySearch` has the C
loops with their `goto` and `continue` and is shown to compute `BuddyTree`'s
operators (`SearchIsAlloc`, `WalkIsFree`), so that what holds of `Buddy` holds
of the loops. `BuddySearch` has no initial state of its own: it is run from the one that
`Boot` leaves it. Sizes are in units of the smallest block. Callers are taken to free only what
they hold, once (the heap does, see the plan), and `heap_init`'s block is never freed.

### Stage1, Boot

An attempt of `disk_read` is one action, with all the code up to the next one; a failed
attempt may leave anything where it should have read to, a reset may fail, and after an error a
key reboots the machine, whose memory keeps what is in it. `lba_to_chs` is what the code
computes and `SectorAt` what a drive does with it. Kept as they are: the size of the root
directory is computed from the number of sectors of the table (`boot.asm:97`), so that its first sector
alone is searched; the first data sector is the constant 31 (+2); and the 12-bit unpacking is the
boot sector's own, checked against `Table`, what the table means.
`Stage1Assumption` states what it relies on: a table that fits its nine sectors, tracks of ten
sectors or more, and a stage 2 whose own chain, wherever it lies on the disk, has no more sectors than fit between 0x500 and the stack
below 0x7C00: 57, with 1 KB for the stack of the boot sector and the BIOS. The disk of `MCBoot` has the
2847 clusters of a 1.44 MB floppy; stage 2's chain goes through table entries that
begin with a sector's last byte, one at an odd and one at an even cluster, to the last cluster, which the ninth sector has.

`Boot` goes on with `detect_memory`, which stops when the BIOS says that there is no more,
before it has stored the last block, or when a call fails, which may be at once after the first block: the
pool is then picked from low memory. `BuddyInit` is `buddy_init` with its widths:
the length of a block goes through an `int`, the start of the pool through 32 bits. Memory is counted in KB.
`MachineAssumption` says which maps keep the pool away from the kernel: `buddy_init` does
not look at where the kernel ends, so a block behind 1 MB must be twice the kernel
and more, and low memory must be used in its lower half only. `HeapInit` is the first request, from an empty bitmap,
and leaves the bitmap that `Buddy` begins with (an `ASSUME` of `MCBoot`).

### KeyboardReader

The reader's program counter goes through reset, halt, the three reads of the
`&&`; `KeyEvent` is `i686_isr_handler` with `_hal_irq_keyboard`; a tick ends
the `hlt` as well and may give the CPU to a user process. The keys are a constant of which
only Enter matters to the wait: `keyboard_lost` has one other key, `Console` the keys
that it tells apart. Auto-repeat is a second press without release.

### Console

`scr` is the screen with the cursor (`g_scr_x`, `g_scr_y`) and the out cursor, before which
nothing typed may go. An echo may come between any two steps of the kernel's own `putc`, `printf` and
`scanf`, and such a step evaluates one expression, or writes one variable or one cell; what has
been evaluated and not been written yet is in `reg` (a number) or `ch` (a character). So `g_scr_y++` is
two steps, `putchar(g_scr_x, g_scr_y, c)` is two, the search for the end of a row's text goes
cell by cell (`FindsText`), and `scrollback` copies and clears cell by cell (`Copies`), takes the two cursors up one after the other
(`Raises`) and then looks after each coordinate by itself (`Clips`): an echo can see half of
the screen moved, or the out cursor in row -1. The build does not optimise (no `-O` in `kernel/Makefile`), so
each statement goes to memory. Coarser than that are only the loads of one expression, as the two coordinates
in `putchar`'s arguments or the cursors in the test of line 180, which happen together, and the copy of the line in `scanf`,
which goes row by row. In the handler, which interrupts and is not interrupted by keys, `putc` is one operator. A cursor is an
`int` and the screen's size is unsigned, so that an echo in row -1 scrolls (`AtLeast`). `scanf`
is `KeyboardReader`'s wait followed by the copy of the rows and by setting the two parts
of the out cursor, one after the other. The row behind the last is there because the code
writes it when a key comes between `g_scr_y++` and the scrolling.

Not everything a user can do is promised to work, and three history variables say what is:
`typed` is what the keys alone say the line is; `plain` that so far the line has been typed and corrected at its end,
on a clean row, while the kernel was not in `printf`, and fits the screen
(`Overflows`); `disturbed` that, while the kernel was printing or setting the out cursor, an arrow or Backspace has moved the cursor
back, or that any key was echoed half way (`Halfway`): between evaluating and doing `putchar`, in the copying
and clearing of `scrollback`, or between finding both cursors in one row and comparing their columns. `PrintedStays` is claimed
without `disturbed`, `LineIsTyped` with `plain`. What happens outside of that is in section 3.

Left out: colours, the hardware cursor, the formats of `printf` and `scanf` (what is
printed is given by its characters, what is read is the buffer), the size of the buffer.

### Floppy

The driver's steps, `floppy_seek` and `floppy_execute` sharing their loop
(prepare, command, wait, test, halt, sense, answer, retry). `floppy_cmd` and
`floppy_read_port` poll some hundred times without delay, so a poll is one step;
`floppy_read_port` returns 0 when the controller is busy, an arbitrary byte when
it waits for a command, and the next result byte otherwise, because the direction
bit is not tested. Status bytes are "zero", "error" or "two" (the code of 512
bytes per sector). A tick is taken only after the driver has made a step since
the last one or while it sleeps: 50 ms are many instructions. `idle_ticks` stops at -1; the code wraps
around after 2^31 ticks of 50 ms, over three years.
`Late` says whether a wait may time out while the drive is still at work (3 s in the code).
Left out: DOR (both "on" and "off" write 0x1C), reset and calibration
(dead code behind `return 0`, `floppy.c:154`), writing (never called), the DMA set-up
(constant).

### Fat

`fd` is `g_driver->root_dir` and `opened_files`; actions are whole calls, since only the
kernel calls the driver and calls do not overlap. Data is counted in records of a
directory entry (32 bytes), a record is named by where it lies on the disk, and a
sector buffer by the sector it holds; so a stale buffer shows as records of the wrong
place. The disk is given by constants: the allocation table, the directory entries and
the paths to open. The table is packed into bytes as FAT12 packs it, and
`fat_next_cluster` unpacks them as the code does. In each call any one sector may be
unreadable (`Floppy` says when `i686_floppy_read_sector` fails). Three things that the
code does and one might not expect are kept: the test for "not a directory"
(`fat.c:181`) is never true, since `==` binds before `&`; a failed `fat_open_entry`
makes `fat_open` go on with a null pointer, which ends the run (`wild`); and a read whose next
sector is unreadable has moved the position on but not the buffer, so the handle is
`failed` from then on and `FileReader` promises nothing of it.
The loops of `fat_read`, `fat_find_file` and `fat_open` are recursive functions on the
states in which they can be (`Reading`, `Walking`): a descriptor that can be read
(`Sound`) names a cluster of the disk while it has records left.
Left out: the conversion of a name to 11 letters and the bytes of the records.

### Stage2

Stage 2's `fat.c` is the kernel's but for the BIOS it reads with and for its names, so `Stage2`
uses `Fat`'s operators under the names `find`, `open_entry`, `read` and `close`, each mapped to stage 2's
lines. `fd` is the structure at `MEMORY_FAT_ADDR`: the kernel does not build a new one, so
what stage 2's searches leave in the root directory's buffer is what the kernel begins
with, and `Fat`'s properties are checked from there. The loop that loads the kernel
(`stage2/main.c:52`) takes a short read for a read, so where a sector could not be
read the image silently holds something else; `KernelIsFile` says that it does nowhere else.
`ReadBootSector` keeps the one test of sizes (`DriverSectors`, `FatSectors`).

### Heap

`mem` has the links: the word in front of an object and the first word of a free piece
hold the address of the next one. `heap_blocks` has the memory blocks. A call is an operator on
both (`malloc`, `free`) or an action (`Realloc`), and the loops of the code are recursive
functions on the list. Memory is counted in words of a header (4 bytes), and all memory
blocks have one size; `buddy_alloc` is what `BlockPool` promises. `live` is a history of
the objects that callers hold, with their sizes, which the heap itself does not know. A
`realloc` that finds no free piece behind its object runs off the end of the list
(`heap_allocator.c:318`), which ends the run (`wild`). `heap_init` clears nothing; its
block is taken to hold zeros, as the pool's first block does on QEMU, whose memory
starts as zeros. System calls 4 to 7 are not dispatched (`handler.c:186`), so the shell is the heap's only user.
Left out: the contents of objects.

### Shell

The commands `try` to `try4` of `main.c` as actions that take one of `Heap`'s actions and say what becomes of
the stack; `Elsewhere` is a call by someone else on an object that is not on the stack. `stack_pop` returns a
pointer into the stack's memory: `try1` and `try4` write the new address through it and push
what is there, which is `Replaced`. Kept: a full stack drops what is pushed, `try4` with one
entry loses it, NULLs stay on the stack, and `try3` writes to address 0 when its `malloc` fails (`wild`).

## 3. Runs

| run | bounds | shows |
|---|---|---|
| `scheduler` | 3 slots, 2 steps | types, `OwnContext`, `ExitedNeverSaved`, refinement of `TimeSharing`; every process runs, the shell runs again and again |
| `scheduler_nested` | 3 slots, 1 step, nested ticks | `ExitedNeverSaved` |
| `buddy` | 4 layers (8 leaves), 1 TLB entry | bitmap = blocks held, disjointness, mapping, merge stays below the root, refinement of `BlockPool` |
| `buddy_search` | a floppy of 1.44 MB, stage 2 in 4 clusters; QEMU's memory maps for 128 MB and 4 GB; 4 layers | stage 1 loads stage 2 or nothing; the pool is clear; loops compute the operators and return |
| `keyboard` | 9 keys, 3 key events, screen of 3 by 3, 1 `printf` of one of 2 texts | types, cursors on the screen, `LineIsTyped`, `FreshInput`, `PrintedStays` |
| `keyboard_lost` | 2 keys, 2 key events | *violation*: an Enter is lost |
| `floppy` | 2 sectors, 2 attempts, 2 ticks, preemption, timely drive | types, success is the right sector, handler restored, every read returns |
| `floppy_hang` | dead drive | *violation*: a read that never returns |
| `fat` | 2 handles, 3 records to a sector, 2 sectors to a cluster, reads of up to 4 records, any one sector unreadable in a call | types, the kernel is the file, handles, names, refinement of `FileReader` |
| `fat_root` | the kernel alone, 2 records to a sector | *violation*: a file that is there is "not found" |
| `heap` | 1 memory block of 13 words, 4 objects, 5 sizes, a stack of 2 | types, no overlap, no object lost, both lists in order, pieces merged, the stack's pointers live |
| `heap_blocks` | 2 memory blocks of 8 words | *violation*: a link within a block goes backwards |

**Bounds.** Three slots are enough for a process before, at and after any slot, with the wrap to the
kernel; a computation's steps only have to tell first, later and ended apart.
Four layers give a root that cannot be handed out, two layers between which the
search moves up and down, and a layer of smallest blocks; the reserved block is a
smallest one, the code's case of a pool much larger than 16 KB.
The floppy of `MCBoot` is one of 1.44 MB with stage 2 behind another file, over four clusters
that do not follow each other, up to the last one of the disk: entries of the table are odd and
even, and some lie across two of its sectors; its machines have a map that ends
in a device's hole, and one whose largest block does not fit an `int` and whose second
ends behind 4 GB; the map may end early everywhere.
A screen of three rows of three cells has a first, an inner and a last row and column, wraps, and
scrolls after three lines; three key events are enough to type a character, correct it and end
the line, or to come at any three places of one `printf`. Nine keys are pressed: letter, Enter,
Backspace, tab, up, left, right, a shift and caps. The module has the arrow down, the right
shift and NumLock as well, but this run does not press them. Three arrows in the middle of
one `scrollback` take the cursor to the row above the screen; an echo that finds it there would be the
fourth key, which the run does not have. The theorem about the cursors covers every number of keys, of all kinds.
The keyboard runs have no user process (`Users = FALSE`): `FreshInput` is proved for both.
Two attempts and two ticks have a first, a last, a
tick that ends the wait and one that does not; two sectors tell a right sector from a
wrong one. The disk of `MCStage2` has the kernel in two clusters that do not follow each
other, a directory, and root entries in both root sectors; two handles run out; reads of
four records cross a sector, and one can begin, end and cross at any record. The heap's sizes include those that fill a memory block and
that leave one word of it, and both sides of the first-fit limit; with four objects a
block can have three free pieces with objects between them; a stack of two can be empty,
full, and have an entry under the top.

**Fairness.** The timer never stops and the PIC keeps a tick that arrives with
interrupts off, so `TimerTick` is strongly fair; handlers return (`Iret`); after a
failed creation, which leaves interrupts off, the shell goes back to `scanf`, which
executes `sti` (`KernelWait`). No fairness is assumed of processes. In
`KeyboardReader` and `Floppy` the fairness of the reader is the scheduler's
`KernelRuns`, and the drive is fair only in `FairSpec`: `floppy_hang` uses
`DeadSpec`, a drive that may never answer, which is the case
`i686_wait_max_time` exists for.

`Boot` assumes that a call, once begun, goes on (`Fairness` of `BuddySearch`); nothing is assumed of the BIOS.

**Deadlock** is checked in every run but those of `Fat`, `Stage2`, `Heap` and `Shell`, where a null
pointer that the code follows ends the run, and of `Boot`, where a machine without memory
halts.

### Findings

1. *Not found* (`fat_root`): `fat_close` rewinds the root directory but keeps its buffer; a
   search that went into a later sector makes the next one miss the first sector's files.
   With the first sector in the buffer, nothing is missed (`FindsFromFirstSector` in `fat`, proved as `WhatIsThereIsFound`).
2. *Heap out of order* (`heap_blocks`): with two memory blocks a link comes to point
   backwards within its block. With one block the lists are right (`heap`).
3. *Lost Enter* (`keyboard_lost`): an event between two waits is erased by the reset.
4. *Missed zero* (`floppy_hang`): the wait tests `idle_ticks != 0`, but the counter
   goes on below zero.

Seen while modelling, each in the model but without a run of its own:

- `hal_remove_current_process` clears only the present bit, so a new process inherits
  the priority bit of its slot's last owner (`scheduler.c:54`, `137`).
- For a pool of up to 16 MB the smallest buddy block is smaller than a page, and
  `buddy_free` unmaps the page of a live neighbour (`LiveMapped` with `LeavesPerPage = 2`).
- A key pressed, and Enter released, between the reads of the two keyboard globals ends a line.
- `floppy_read_port` returns 0, the good status, when a poll gives up, so a read whose wait
  timed out can succeed with a wrong sector (`SuccessIsData` with `Late = TRUE`).
- Two memory blocks confuse `free` alone, without `realloc`: free pieces of one block end up
  behind another block's and are not merged.
- A key in the middle of `printf`: between `putchar` and `g_scr_x++`, or between the two halves of
  the out cursor, an echo leaves a gap, and an arrow or Backspace moves the cursor back over
  what is being printed, which is then overwritten (`plain` and `disturbed` exclude these).
- Without an arrow or Backspace, too, a key in the middle of `printf` can leave printed text at or behind the out cursor, where
  what is typed next overwrites it, against `include/stdio.h:15`: an echo in the middle of `scrollback` that scrolls
  by itself (the kernel goes on to copy and clear, and takes both cursors up once more), an echo that
  scrolls between the evaluation of `putchar`'s arguments and its write, or one that wraps between the tests of lines 431 and 435.
  Each place in `Halfway` is there for a reason: in the run `keyboard`, `PrintedStays` is violated when "same" is taken out
  of it, and on a screen of two rows, with a text of two characters, four keys and no arrow among them, when "put", "load", "store" or "clear" is.
- With Up or Left, then Enter, a read ends where the cursor is: the line is cut, the out cursor moves back
  with it, and text that was printed can be removed from then on, against
  `include/stdio.h:15`.
- NumLock, and every key without an entry in the tables, is echoed as the character 0 and leaves a gap at which
  the copy of the line ends. The caps key toggles with every repeat while it is held.
- A line may fill the screen, 24 rows of 80; `scanf` copies all of it into its caller's buffer.
- A BIOS that fails after the first block of the memory map leaves low memory alone, and the
  pool is then less than 640 KB; a map whose only large block is less than twice the kernel puts the
  pool over it.
- `realloc` frees an object before it copies it; `free` and `malloc` may write a link into
  the old contents, and when `malloc` fails they are lost. When it stays in place and no free piece
  is next to the object, it drops a free piece that lies elsewhere (`heap_allocator.c:335-348`).

## 4. Proofs

All proofs are in the `*Proofs` modules and use only the named assumptions of the modules
they extend.

- `SchedulerProofs!TypeCorrect`, `ExitedStaysOut`: `TypeOK` is inductive. `ExitedNeverSaved`
  is not: that a frame about to be saved is not an ended process' follows from
  more, namely that the CPU runs an ended context only while `cur_running_process` is not
  present. The strengthening relates `regs.pc`, the slot's flag and the mode.
- `SchedulerProofs!ContextIntegrity`, `SchedulerImplementsTimeSharing` (assuming
  `~TickInTail`): the invariant adds that a slot that is not yet validated has never
  run, and that the running slot is validated; the refinement maps each place in
  which a context is kept (CPU, `kernel_pcb`, PCB) to the abstract place of its
  computation and shows every action to be a step of `TimeSharing` or a stutter.
- `ConsoleProofs!TypeCorrect`, `ReadsFreshInput`: for any number of events. The
  invariant says that what a test has passed on is in the events since the last
  reset, as long as the reader is past that test.
- `ConsoleProofs!ConsoleImplementsReader`: every step of the console is a step of
  `KeyboardReader` or leaves it alone, so `FreshInput` holds with `printf`, the echo and user processes around the
  wait (`ConsoleReadsFreshInput`).
- `ConsoleProofs!CursorsStayOnScreen`: for screens of any size from 1 by 2, any texts of characters and newlines, any keys. What is
  needed besides `OnScreen` (`GInv`): the cursor is never behind the last column and below the last row
  at once, what `reg` holds at each place of `putc` is where the next write may take a cursor,
  and the kernel is not in `printf` while it waits for Enter. The core is `PutcSettles`: from wherever the
  kernel's `putc` has been interrupted, with a cursor one row below the screen or above it, a whole `putc` leaves the
  cursor on the screen, or off it only on the side where it has been. The search for the end of a row's text chooses a
  maximum; that it exists is a lemma of `Lemmas`, from the library's theorem that `<` is well-founded.
- `ConsoleProofs!PrintedIsKept` (`PrintedStays`): for any texts and keys, screens of at least three columns (the
  code has 80; on a narrower one a tab can leave two lines). The invariant, `PrintedInv`, says for each place of the kernel how
  far what is printed may reach (`Mark`, `Reaches`): not beyond the out cursor between calls; in `printf` not beyond the farther of both
  cursors, with one cell or one row more between the statements of `putc` that move them apart; up to the end of the screen while
  `scrollback` copies, less a row where it has been and less the cells it has cleared; and
  between the two halves of setting the out cursor, not beyond where it is about to be. `Beside` ties `reg` to the cursors at
  each place. An echo keeps it at every one of
  these places that is not half way, the statements of `scrollback` that move the cursors included, because it only moves the cursor on, or is Backspace
  or an arrow at rest (`PutcWithin`, `PutcKeeps`), and
  a tab's four spaces leave the line at most once (`TabInv`). Half way it does not, which is why `disturbed` counts any
  key there (section 3).
- `FloppyProofs!HandlerIsRestored`: for any number of attempts and ticks, any drive. The
  invariant ties `interrupt_called_ready` to the places between preparing a wait and its
  end.
- `FloppyProofs!TypeCorrect`: any drive. The types of the result bytes need that their
  number and `taken` agree with the place of the driver.
- `FloppyProofs!SuccessIsTheSector` (assuming `~Late`, a drive that answers within the wait or not
  at all): the invariant says what the drive and its arm are doing at each place of the
  driver, and that a status of success is only ever in the result of the command that was last given.
- `BuddyTreeProofs`: lemmas for any number of layers from 2 to 14 and any place of the heap's
  metadata. The tree (ancestors, layers, leaves: two nodes overlap only if one is above the other) is derived
  from the arithmetic of node numbers, without induction, because the number of layers is
  bounded by 14 and a table of the powers of two can be checked. On it rest the lemmas about a
  whole call: a bitmap that is closed under parents stays so, and its ends are the blocks before and
  the new one (`AllocIs`), or without the freed one (`FreeKeepsTree`, `FreeBlocks`), however many halves are joined; a
  request that is refused finds a live block under every block of its size (`RefusedIsFull`).
- `BuddyProofs!BitmapIsHeldAlways`, `BlocksNeverOverlap`, `RootIsAlwaysSplit`, `BitmapImplementsPool`:
  from one inductive invariant, `TreeInv`: the bitmap is a tree, its ends are the live blocks, and
  the reserved block is one of them. None of the properties is inductive alone: that `free` joins the right
  halves needs the bitmap to be closed, and that a split block is not handed out needs the blocks to be
  the ends.
- `BuddyProofs!TypeCorrect`, `FreeIsUnmapped`, `LiveIsMapped`: the page tables and the TLB; the last
  assumes `LeavesPerPage = 1`, without which it is false (section 3, Findings). Its strengthening is that every page
  of a live block is mapped and that the TLB never holds another mapping than a page's own.
- `BootProofs!SearchIsAlwaysAlloc`, `WalkIsAlwaysFree`: what is proved of `Buddy` holds of the C
  loops. The invariant (`CallInv`) says which candidates the search has passed on its way up, which way
  it has come down and what it has set on it, and where the walk of `free` is; that `heap_init`'s
  call is the only one on an empty bitmap is in `PoolInv`.
- `BootProofs!StageTwoIsLoaded`: for any disk whose table fits nine sectors. The clusters in memory are the first ones of the chain,
  `boot_cluster` is the next, and with those that are left they fit the room for stage 2; that an entry of the table is decoded rightly needs that the table is
  still in `buffer`, and that a sector is the one asked for that `lba_to_chs` is inverted by the drive.
- `BootProofs!PoolIsAlwaysClear`: for every memory map that `MachineAssumption` allows, wherever
  `detect_memory` stops. There is nothing to strengthen but where the pool was chosen; the proof is arithmetic modulo
  2^32 by cases on where the chosen block lies: below 1 MB, from there to 4 GB, or at 4 GB, where its address wraps around.
- `BootProofs!ChainsAreDecoded`: for an allocation table of any size, with entries of 12 bits. Two lemmas say what the packed bytes
  are; the theorem follows by cases on the parity of the cluster. It rests on `TableAssumption`, and
  holds for `Fat` and `Stage2`, which share `Fat12`; `Stage1Decodes` proves the same of the boot sector's own decoding.
- `FatProofs`: ten theorems about `hal/fat.c`, for any disk, number of handles, sector and cluster
  size; each holds of `Stage2` and so of the kernel behind the boot loader, and most are stated a second time for the kernel's driver
  alone (`Kernel...`). See below.

**The file system's proofs.** A loop of the driver is a recursive function, which TLA+ only
*chooses*: that it exists has to be shown. `Lemmas!LoopExists` does it for any loop with a measure that
every turn lowers, by the least value of the measure at which the loop could not be given a
result, and `LoopKeeps` is the rule of invariants for such a loop. The measures are the records and sectors that are left
of a file, and the names that are left of a path; they go down because the chains of
`TableAssumption` go upwards. `Chain`, `Named` and `Contents` are recursive as well and treated the same.

- `FatIsTyped`, `NoHandleIsLost` (`KernelFatIsSafe`): the invariant `FatInv` is that every
  descriptor is `Sound`. That `fat_open` loses no handle is `EnterIs`: one name of a path frees the handle it came from and
  takes at most one.
- `OpensWhatIsNamed` (`KernelOpensWhatIsNamed`): `OpensTheNamed` is not inductive. `AllPlaced` adds that the buffer of an open file
  holds some sector of that file, so that even a search that goes on after an error, from a
  stale buffer, sees only entries of the directory it is in; the root directory's
  buffer may also hold the first data sector, which `FirstClusterAssumption` says is no directory's.
  Down a path, `Leads` says that the open directory is one that the names so far lead to.
- `FilesAreReadInOrder` (`KernelFilesAreReadInOrder`), the refinement of `FileReader`: `FilesInOrder` says of every open file no read has
  failed on that its cluster, sector and buffer are those of its position (`Cursor`, `Fresh`), and that its size,
  of a directory when its end has been seen, is the length of its contents (`Whole`). `Progress` is the same in the
  middle of a read: what has been copied are the records from the position on.
- `KernelIsLoadedWhole` (`KernelIsFile`): after a failed read the buffer is not that of the position, so
  `FilesInOrder` is silent. `BootLoads` says that it is, but for a sector in `missing`, and that the image
  is the file up to the position with the same exception.
- `WhatIsThereIsFound` (`KernelFindsWhatIsThere`): what is claimed of a call that has not been made needs, of the state before it, only that the
  root directory is at its start (`Rests`): every `fat_open` rewinds it, however it ends, and nobody
  else reads it. Within the call every directory on the path is searched from its own first record (`Ready`),
  and no two entries share a path (`OneAt`), so the search of each comes to the entry that the path names.

The invariants that the proofs use (`TreeInv`, `CallInv`, `PoolInv`, `MapInv`, `S1Inv`, `PrintedInv`, ...) have
been model-checked on the instances of the runs before they were proved.

**Assumptions.** `TableAssumption`: chains go upwards and end. The image is written by `mcopy` onto an
empty disk (`src/Makefile`), which takes free clusters in ascending order; a chain ends below the table's reserved values (`LastCluster < EndOfChain`); a chain with a cycle
would keep all three drivers reading for ever. `Stage1Assumption`: names in the root directory are
unique, as in any FAT directory; the table fits its nine sectors, which is up to cluster 3071; and stage 2's chain, not the
disk, is bounded (`StageTwoRoom`): the code does not look where its load ends. `MachineAssumption`: what `buddy_init` takes
for granted about the memory map, which it does not test. `TreeAssumption`: 2 to 14 layers
(`BUDDY_LAYERS`, which every pool of 16 KB and more has; the runs have fewer). `DiskAssumption`: a disk as
`mkfs.fat` and `mcopy` make it, where a file fits its clusters, only an empty one has none, a directory's entry gives no size, and two
entries with one first cluster agree; and no caller opens "/" itself (`main.c:43` of stage 2 and
`main.c:210` of the kernel are the callers). `PlaceAssumption` and `DirectoryAssumption`: entries are records of the disk, lie in
directories, and no directory has a name twice. `FirstClusterAssumption`: the first data cluster is not a directory's, since
`stage2.bin` is the first file that goes onto the image (`src/Makefile:16-20`). None is about the state of the program.

Only model-checked: the heap's and the shell's invariants (the heap's two lists run through `mem` itself and are cut and joined at any
place, and how far a call follows them depends on every link; the proofs of the
file system, whose loops leave the chains alone, do not carry over); `LineIsTyped`, which compares texts of any
length; and every liveness property: liveness under fairness and `ENABLED` are out of TLAPS' reach here.

## 5. Plan

1. Proofs. `Heap`'s lists: that both are finite and in order, as an invariant on the set of the pieces rather
   than on walks along them, and then `NoOverlap` and `ListIsLive`.
2. `Heap`: the contents of objects across `realloc`; composed with `Buddy`, whose pages
   `free` unmaps before it has read the links in them, and with the page fault handler,
   which calls `buddy_alloc` in the middle of whatever runs.
3. `ProcessMemory`: `Scheduler` and `Buddy` composed, with the page table that each creation takes.

## 6. Not modelled

- *The stack of an interrupted kernel.* An interrupt in ring 0 pushes no `esp` and `ss`, but
  `preempt` copies a whole `REGISTERS` (`isr.h:10`): when it saves the kernel it takes the two words
  above the frame, which belong to the interrupted code, and when it resumes the kernel it writes them
  below `tss.esp0`. At the one place where the kernel is
  meant to be interrupted, `i686_wait_keyboard_interrupt`, the code behind the `hlt` (`pop eax; ret`)
  consumes exactly these two words, so it works; elsewhere the kernel's locals are lost. That
  depends on what the compiler keeps on the stack, and no property holds beyond that one
  wait, so there is no model of it: `Scheduler` abstracts a frame to the computation it belongs to.
- *Page tables of processes* and what a page fault maps: `Scheduler` takes the address space to come with the context.
- *Formats* of `printf` and `scanf`, string and memory functions, comparison of command names: pure
  functions of bytes.
- *Descriptor tables, PIC, port I/O*: constant data and straight-line code.
- *Stage 2's* changes between real and protected mode, its console (an earlier copy of
  the kernel's, with no keyboard) and its C library.
- *Unused code*: `floppy_calibrate`, `i686_floppy_writer_sector`, `zmalloc` behind a system call that is not dispatched.
