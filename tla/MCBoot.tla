------------------------------- MODULE MCBoot -------------------------------
(***************************************************************************)
(* Two machines and a floppy disk of 1.44 MB for Boot.tla: clusters 2 to   *)
(* 2848. Stage 2 is the second file, in four clusters: the table's entries *)
(* of 341, which is odd, and of 682 each begin with a sector's last byte,  *)
(* and that of 2848 is in its ninth sector. The machines have the maps     *)
(* that QEMU's BIOS gives for 128 MB and for 4 GB: in the second, 3 GB lie *)
(* below the hole for devices, and 1 GB begins at 4 GB.                    *)
(***************************************************************************)
EXTENDS Boot

DiskTable == [c \in 0 .. 2848 |-> CASE c = 0   -> 4080
                                    [] c = 3   -> 341
                                    [] c = 341 -> 682
                                    [] c = 682 -> 2848
                                    [] OTHER   -> 4095]

DiskDirectory == <<[name |-> "other", first |-> 2], [name |-> "stage2", first |-> 3]>>

Usable(begin, length)  == [begin |-> begin, length |-> length, usable |-> TRUE]
InUse(begin, length)   == [begin |-> begin, length |-> length, usable |-> FALSE]

Qemu == {
    <<Usable(0, 639), InUse(960, 64), Usable(1024, 129920),
      InUse(130944, 128), InUse(4194048, 256)>>,
    <<Usable(0, 639), InUse(960, 64), Usable(1024, 3144576),
      InUse(3145600, 128), Usable(4194304, 1048576), InUse(1061158912, 12582912)>>}

(* Stage 2 with its stack; FAT_DRIVER and the table; the buffer for the    *)
(* kernel (stage2's x86.h); the screen and the BIOS.                       *)
Low == {[begin |-> 0, length |-> 64], [begin |-> 128, length |-> 64],
        [begin |-> 192, length |-> 64], [begin |-> 640, length |-> 384]}

(* The first request leaves the tree that Buddy.tla begins with.           *)
ASSUME AllocBits({}, BlockSize(ReservedLayer)) = InitialBits
=============================================================================
