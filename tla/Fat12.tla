------------------------------- MODULE Fat12 -------------------------------
(***************************************************************************)
(* The allocation table of a FAT12 disk, as bytes and as what they mean,   *)
(* and how the drivers find the next cluster of a file in it (hal/fat.c,   *)
(* bootloader/stage2/fat.c; stage 1 does it in Stage1.tla).                *)
(***************************************************************************)
EXTENDS Integers, Sequences

CONSTANTS
    LastCluster,        \* the disk's last cluster
    Table               \* the disk's allocation table: cluster -> next cluster

EndOfChain == 4088                      \* 0xFF8

TableValue == 0 .. 4095                 \* 12 bits

(* Chains end, and go upwards as mcopy writes them. Clusters of no file,   *)
(* which no chain reaches, count as ends.                                  *)
ASSUME TableAssumption ==
    /\ LastCluster \in Nat /\ LastCluster < EndOfChain
    /\ Table \in [0 .. LastCluster -> TableValue]
    /\ \A c \in 2 .. LastCluster :
          Table[c] \in c + 1 .. LastCluster \/ Table[c] >= EndOfChain

(* Two table entries of 12 bits are packed into three bytes.               *)
Slot(c) == IF c \in DOMAIN Table THEN Table[c] ELSE 0

g_fat == [k \in 0 .. (LastCluster * 3) \div 2 + 1 |->
    LET even == Slot(2 * (k \div 3))
        odd  == Slot(2 * (k \div 3) + 1)
    IN  CASE k % 3 = 0 -> even % 256
          [] k % 3 = 1 -> even \div 256 + 16 * (odd % 16)
          [] k % 3 = 2 -> odd \div 16]

fat_next_cluster(c) ==
    LET idx  == (c * 3) \div 2
        word == g_fat[idx] + 256 * g_fat[idx + 1]
    IN  IF c % 2 = 0 THEN word % 4096 ELSE word \div 16

(* The clusters of a file, in order.                                       *)
Chain[c \in Nat] ==
    IF c \in 2 .. LastCluster THEN <<c>> \o Chain[Table[c]] ELSE <<>>

(* Decoding the packed table gives the next cluster the disk means, for    *)
(* even and odd clusters (fat.c:56-64).                                    *)
DecodesTable == \A c \in 0 .. LastCluster : fat_next_cluster(c) = Table[c]
=============================================================================
