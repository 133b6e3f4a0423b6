------------------------------- MODULE Stage2 -------------------------------
(***************************************************************************)
(* Stage 2 of the boot loader (bootloader/stage2), from fat_init to the    *)
(* jump to the kernel, and after it the kernel's file system. Stage 2 has  *)
(* a FAT12 driver of its own, which but for the BIOS it reads with is the  *)
(* kernel's; and the structure at MEMORY_FAT_ADDR in which it keeps the    *)
(* open files, the root directory with its buffer among them, is not       *)
(* copied: the kernel goes on with the same one (fat_export_data). fd is   *)
(* that structure.                                                         *)
(*                                                                         *)
(* The BIOS is asked three times for a sector, with a reset in between     *)
(* (disk.c:28-34); a sector is unreadable here when all three fail.        *)
(***************************************************************************)
EXTENDS Fat

CONSTANTS
    Kernel,         \* the name of /kernel.bin in the root directory
    BufferRecords,  \* records in the buffer at MEMORY_FREE_BUFFER
    DriverSectors,  \* sectors of memory that FAT_DRIVER and the table take
    FatSectors      \* and how many there are at MEMORY_FAT_ADDR

ASSUME Stage2Assumption ==
    /\ <<Kernel>> \in Paths
    /\ BufferRecords \in 1 .. MaxRead
    /\ DriverSectors \in Nat /\ FatSectors \in Nat

VARIABLES
    phase,      \* see Phase
    image,      \* the records loaded at MEMORY_KERNEL_ADDR so far
    missing     \* history: the sectors of the kernel that could not be read

boot_vars == <<phase, image, missing>>
bvars == <<vars, boot_vars>>

(* fat_init reads the boot sector, the table and the root directory.       *)
Phase == {"boot sector", "table", "root", "open", "load", "loaded",
          "kernel", "stopped"}

BInit ==
    /\ fd = [h \in Desc |-> Unused(h)]
    /\ held = [h \in {} |-> <<>>]
    /\ failed = {}
    /\ data = <<>>
    /\ wild = FALSE
    /\ phase = "boot sector"
    /\ image = <<>>
    /\ missing = {}

(* Every failure is final: main returns, and its caller halts.             *)
Stops(here) ==
    /\ phase = here
    /\ phase' = "stopped"
    /\ UNCHANGED <<vars, image, missing>>

Reads(here, next) ==
    /\ phase = here
    /\ phase' = next
    /\ UNCHANGED <<vars, image, missing>>

ReadBootSector ==
    \/ Stops("boot sector")
    \/ Reads("boot sector", IF DriverSectors < FatSectors THEN "table" ELSE "stopped")

ReadTable == Stops("table") \/ Reads("table", "root")

ReadRoot ==
    \/ Stops("root")
    \/ /\ phase = "root"
       /\ phase' = "open"
       /\ fd' = Driver
       /\ UNCHANGED <<held, failed, data, wild, image, missing>>

(* Stage 2's own functions on the root directory, and on an open file h;   *)
(* they are the kernel's, letter by letter but for the names.              *)
find(name, bad)           == fat_find_file(fd[ROOT_DIR_HANDLE], name, bad)
open_entry(f, place, bad) == fat_open_entry(f, Entries[place], bad)
read(h, bad)              == fat_read(fd[h], BufferRecords, bad)
close(f, h)               == fat_close(f, h)

(* fat_open of "/kernel.bin", a path of one name.                          *)
KernelOpened(bad) ==
    LET found  == find(Kernel, bad)
        closed == close([fd EXCEPT ![ROOT_DIR_HANDLE] = found.d], ROOT_DIR_HANDLE)
    IN  IF found.place = NoPlace THEN [fd |-> closed, file |-> Null]
        ELSE open_entry(closed, found.place, bad)

OpenKernel(bad) ==
    LET o == KernelOpened(bad)
    IN  /\ phase = "open"
        /\ phase' = IF o.file = Null THEN "stopped" ELSE "load"
        /\ Returns(<<Kernel>>, o)
        /\ UNCHANGED <<image, missing>>

(* Bug: the bytes of a read that failed in the middle are not counted.     *)
LoadedWhole(r) == IF r.err THEN image ELSE image \o r.data

Loaded(r) == image \o r.data

(* One turn of the loop of main.c:52. fat_read does not say that it has    *)
(* failed: what it had read counts, and the next call goes on.             *)
Load(h, bad) ==
    LET r == read(h, bad)
    IN  /\ phase = "load"
        /\ phase' = IF r.data = <<>> THEN "loaded" ELSE "load"
        /\ Gives(h, r)
        /\ image' = Loaded(r)
        /\ missing' = IF r.err THEN missing \cup bad ELSE missing

(* The file is closed, and the kernel's fat_init takes the structure over. *)
(* Nothing is asked about the image any more: it is forgotten.             *)
StartKernel(h) ==
    /\ phase = "loaded"
    /\ phase' = "kernel"
    /\ Close(h)
    /\ image' = <<>>
    /\ missing' = {}

BNext ==
    \/ ReadBootSector \/ ReadTable \/ ReadRoot
    \/ \E bad \in Unreadable : OpenKernel(bad)
    \/ \E h \in DOMAIN held, bad \in Unreadable : Load(h, bad)
    \/ \E h \in DOMAIN held : StartKernel(h)
    \/ phase = "kernel" /\ Next /\ UNCHANGED boot_vars

BSpec == BInit /\ [][BNext]_bvars

-----------------------------------------------------------------------------

KernelFile == Contents[Entries[CHOOSE p \in Named[<<Kernel>>] : TRUE].first]

(* The kernel that is started is the file kernel.bin, from its first       *)
(* record to its last, each at its place, however the reads are cut and    *)
(* whatever sectors had to be given up: only these hold something else,    *)
(* which nobody is told (main.c:52-56).                                    *)
KernelIsFile ==
    phase = "loaded" =>
        /\ Len(image) = Len(KernelFile)
        /\ \A i \in DOMAIN image :
              image[i] = KernelFile[i] \/ KernelFile[i][1] \in missing
=============================================================================
