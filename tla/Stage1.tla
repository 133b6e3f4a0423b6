------------------------------- MODULE Stage1 -------------------------------
(***************************************************************************)
(* The boot sector (bootloader/stage1/boot.asm): it looks for stage 2 in   *)
(* the root directory, follows its chain in the allocation table and loads *)
(* it, sector by sector. An attempt of disk_read is one action, and so is  *)
(* all the code up to the next disk_read. The BIOS (int 13h) may fail at   *)
(* any call; a call to read that fails may leave anything where it should  *)
(* have read to.                                                           *)
(*                                                                         *)
(* The values of the BIOS parameter block (lines 15-27) are the code's.    *)
(***************************************************************************)
EXTENDS Fat12, FiniteSetsExt

CONSTANTS
    bdb_track_sectors,  \* the drive's sectors in a track
    bdb_heads,          \* and heads, as the BIOS tells them
    Directory,          \* the root directory: a sequence of entries
    StageTwo            \* the name of stage 2's file there

bdb_sector_bytes == 512
bdb_res_sectors  == 1
bdb_fats         == 2
bdb_dir_entries  == 224
bdb_fat_sectors  == 9

BOOT_LOAD_OFFSET == 1280

(* The sectors from there to the boot sector's stack, which goes down from *)
(* 0x7C00; this code and the BIOS are taken to need no more than 1 KB.     *)
StackBytes   == 1024
StageTwoRoom == (31744 - StackBytes - BOOT_LOAD_OFFSET) \div bdb_sector_bytes

DirEntry == [name : STRING, first : 2 .. LastCluster]

(* The table fits in the sectors that the disk has for it. A directory has *)
(* one entry of a name. Stage 2's file, wherever it lies on the disk, fits *)
(* between where it is loaded and the stack.                               *)
ASSUME Stage1Assumption ==
    /\ bdb_track_sectors \in 10 .. 63 /\ bdb_heads \in 1 .. 255
    /\ (LastCluster * 3) \div 2 + 1 < bdb_fat_sectors * bdb_sector_bytes
    /\ Directory \in Seq(DirEntry) /\ Len(Directory) <= bdb_dir_entries
    /\ \A i, j \in DOMAIN Directory :
          Directory[i].name = Directory[j].name => i = j
    /\ \A i \in DOMAIN Directory : Directory[i].name = StageTwo =>
          Len(Chain[Directory[i].first]) <= StageTwoRoom

VARIABLES
    at,             \* see Place
    di,             \* attempts that disk_read has left
    buffer,         \* the sectors read to `buffer'
    boot_cluster,
    bx,             \* sectors loaded since the boot sector was started
    loaded          \* the sectors behind BOOT_LOAD_OFFSET

s1vars == <<at, di, buffer, boot_cluster, bx, loaded>>

Place == {"start", "root", "table", "cluster", "error", "stage2"}

Garbage == -1

S1Init ==
    /\ at = "start"
    /\ di = 3
    /\ buffer = <<>>
    /\ boot_cluster = 0
    /\ bx = 0
    /\ loaded = [i \in 0 .. StageTwoRoom - 1 |-> Garbage]

-----------------------------------------------------------------------------

lba_to_chs(lba) ==
    [cylinder |-> (lba \div bdb_track_sectors) \div bdb_heads,
     head     |-> (lba \div bdb_track_sectors) % bdb_heads,
     sector   |-> (lba % bdb_track_sectors) + 1]

(* The sector of the disk that the BIOS reads there.                       *)
SectorAt(chs) ==
    (chs.cylinder * bdb_heads + chs.head) * bdb_track_sectors + chs.sector - 1

(* A run of sectors does not leave its track here.                         *)
Sectors(lba, count) == [i \in 1 .. count |-> SectorAt(lba_to_chs(lba)) + i - 1]

Reboots ==
    /\ at' = "error"
    /\ UNCHANGED <<di, buffer, boot_cluster, bx>>

(* Bug: after the last attempt the code runs on into .done.                *)
AttemptFailsQuietly(next) ==
    \/ Reboots
    \/ /\ at' = IF di = 1 THEN next ELSE at
       /\ di' = IF di = 1 THEN 3 ELSE di - 1
       /\ bx' = IF di = 1 /\ at = "cluster" THEN bx + 1 ELSE bx
       /\ UNCHANGED <<buffer, boot_cluster>>

(* A failed attempt: the reset may fail as well; after three, an error.    *)
(* What it left in the buffer is overwritten before anyone looks at it.    *)
AttemptFails(next) ==
    \/ Reboots
    \/ /\ di > 1
       /\ di' = di - 1
       /\ UNCHANGED <<at, buffer, boot_cluster, bx>>

(* Lines 64-95: the drive's parameters. RootSectorsRead is computed from   *)
(* the size of the table, not from the number of entries.                  *)
Start ==
    /\ at = "start"
    /\ at' \in {"root", "error"}
    /\ UNCHANGED <<di, buffer, boot_cluster, bx, loaded>>

root_lba == bdb_fat_sectors * bdb_fats + bdb_res_sectors

RootSectorsRead ==
    (bdb_fat_sectors * 32 + bdb_sector_bytes - 1) \div bdb_sector_bytes

(* The entries that the search finds in the buffer, in its order. Behind   *)
(* what was read lies whatever was there, which has not that name.         *)
Matches ==
    {i \in DOMAIN Directory :
        /\ Directory[i].name = StageTwo
        /\ root_lba + ((i - 1) * 32) \div bdb_sector_bytes
              \in {buffer'[k] : k \in DOMAIN buffer'}}

(* Lines 97-126.                                                           *)
ReadRootDir ==
    /\ at = "root"
    /\ \/ /\ di' = 3
          /\ buffer' = Sectors(root_lba, RootSectorsRead)
          /\ at' = IF Matches = {} THEN "error" ELSE "table"
          /\ boot_cluster' = IF Matches = {} THEN boot_cluster
                             ELSE Directory[Min(Matches)].first
          /\ UNCHANGED bx
       \/ AttemptFails("table")
    /\ UNCHANGED loaded

(* Lines 128-138.                                                          *)
ReadFat ==
    /\ at = "table"
    /\ \/ /\ di' = 3
          /\ buffer' = Sectors(bdb_res_sectors, bdb_fat_sectors)
          /\ at' = "cluster"
          /\ bx' = 0
          /\ UNCHANGED boot_cluster
       \/ AttemptFails("cluster")
    /\ UNCHANGED loaded

(* A byte of the table, if the buffer holds it.                            *)
Byte(k) ==
    IF k \div bdb_sector_bytes + 1 \in DOMAIN buffer
       /\ buffer[k \div bdb_sector_bytes + 1] = bdb_res_sectors + k \div bdb_sector_bytes
    THEN g_fat[k] ELSE 0

(* Lines 150-168.                                                          *)
next_cluster(c) ==
    LET ax   == (c * 3) \div 2
        word == Byte(ax) + 256 * Byte(ax + 1)
    IN  IF c % 2 = 1 THEN word \div 16 ELSE word % 4096

(* Lines 140-184: the 31 is the first data sector, less two.               *)
LoadCluster ==
    /\ at = "cluster"
    /\ \/ /\ di' = 3
          /\ loaded' = [loaded EXCEPT ![bx] = Sectors(boot_cluster + 31, 1)[1]]
          /\ bx' = bx + 1
          /\ IF next_cluster(boot_cluster) >= EndOfChain
             THEN at' = "stage2" /\ UNCHANGED boot_cluster
             ELSE boot_cluster' = next_cluster(boot_cluster) /\ UNCHANGED at
          /\ UNCHANGED buffer
       \/ /\ AttemptFails("cluster")
          /\ loaded' \in {loaded, [loaded EXCEPT ![bx] = Garbage]}

(* key_press_reboot. The BIOS loads the boot sector again, and the memory  *)
(* behind it may still hold what was there.                                *)
Reboot ==
    /\ at = "error"
    /\ at' = "start"
    /\ di' = 3
    /\ boot_cluster' = 0
    /\ bx' = 0
    /\ UNCHANGED <<buffer, loaded>>

S1Next == Start \/ ReadRootDir \/ ReadFat \/ LoadCluster \/ Reboot

S1Spec == S1Init /\ [][S1Next]_s1vars

-----------------------------------------------------------------------------

(* Where the directory says that the file of this name begins.             *)
FirstOf(name) ==
    Directory[CHOOSE i \in DOMAIN Directory : Directory[i].name = name].first

(* These clusters, in this order, are the whole of the file that begins in *)
(* the cluster `first': the disk's own table leads from one to the next.   *)
IsFile(clusters, first) ==
    /\ Len(clusters) > 0
    /\ clusters[1] = first
    /\ \A i \in 1 .. Len(clusters) - 1 : clusters[i + 1] = Table[clusters[i]]
    /\ Table[clusters[Len(clusters)]] >= EndOfChain

(* What stage 1 jumps to is the whole of stage2.bin, each sector at its    *)
(* place: the first cluster's sector is the disk's 33rd (19 before the     *)
(* root directory, 14 in it), whatever had to be read again and however    *)
(* often the machine was started anew.                                     *)
StageTwoIsFile ==
    at = "stage2" =>
        LET clusters == [i \in 1 .. bx |-> loaded[i - 1] - 33 + 2]
        IN  /\ \A i \in 1 .. bx : clusters[i] \in 2 .. LastCluster
            /\ IsFile(clusters, FirstOf(StageTwo))
=============================================================================
