----------------------------- MODULE BootProofs -----------------------------
(***************************************************************************)
(* Proofs about Boot.tla: the table on the disk is decoded as it was       *)
(* packed, stage 1 loads the file it should, the pool is memory that nobody*)
(* uses, and every call of the allocator computes what BuddyTree.tla says  *)
(* of it, for every disk, drive, memory map, bitmap and request.           *)
(***************************************************************************)
EXTENDS Boot, BuddyTreeProofs

-----------------------------------------------------------------------------
(* The packing of the allocation table (Fat12.tla), for tables of any size *)

LEMMA SlotType == \A c : Slot(c) \in TableValue
<1>1. 0 \in TableValue
  BY DEF TableValue
<1> QED
  BY <1>1, TableAssumption DEF Slot

(* The driver follows the chains the disk has, for every table: decoding   *)
(* is the inverse of the format's packing, at odd and even clusters        *)
(* (fat.c:56-64).                                                          *)
THEOREM ChainsAreDecoded == DecodesTable
<1> SUFFICES ASSUME NEW c \in 0 .. LastCluster
             PROVE  fat_next_cluster(c) = Table[c]
  BY DEF DecodesTable
<1>1. LastCluster \in Nat /\ Slot(c) = Table[c]
  BY TableAssumption DEF Slot
<1>2. PICK slot : slot = [i \in Nat |-> Slot(i)]
  OBVIOUS
<1>3. \A i \in Nat : slot[i] \in 0 .. 4095
  BY <1>2, SlotType DEF TableValue
<1>4. ASSUME NEW k \in 0 .. (LastCluster * 3) \div 2 + 1
      PROVE  /\ k % 3 = 0 => g_fat[k] = slot[2 * (k \div 3)] % 256
             /\ k % 3 = 1 => g_fat[k] = slot[2 * (k \div 3)] \div 256
                                        + 16 * (slot[2 * (k \div 3) + 1] % 16)
             /\ k % 3 = 2 => g_fat[k] = slot[2 * (k \div 3) + 1] \div 16
  <2>1. 2 * (k \div 3) \in Nat /\ 2 * (k \div 3) + 1 \in Nat
    BY <1>1
  <2>2. /\ Slot(2 * (k \div 3)) = slot[2 * (k \div 3)]
        /\ Slot(2 * (k \div 3) + 1) = slot[2 * (k \div 3) + 1]
    BY <1>2, <2>1
  <2> QED BY <2>2 DEF g_fat
<1>5. PICK w : w = g_fat[(c * 3) \div 2] + 256 * g_fat[(c * 3) \div 2 + 1]
  OBVIOUS
<1>6. Packed(g_fat, LastCluster, slot)
  BY <1>3, <1>4 DEF Packed
<1>7. slot[c] = IF c % 2 = 0 THEN w % 4096 ELSE w \div 16
  BY ONLY <1>1, <1>5, <1>6, Unpacked, c \in 0 .. LastCluster
<1>8. fat_next_cluster(c) = slot[c]
  BY ONLY <1>5, <1>7 DEF fat_next_cluster
<1> QED BY <1>1, <1>2, <1>8

-----------------------------------------------------------------------------
(* Stage 1                                                                 *)

LEMMA Quotients ==
    ASSUME NEW n \in Nat, NEW d \in Nat \ {0}
    PROVE  /\ n = d * (n \div d) + (n % d)
           /\ n \div d \in Nat /\ n % d \in 0 .. d - 1
  OBVIOUS

(* The BIOS reads the sector that disk_read was asked for (boot.asm:263).  *)
LEMMA ChsIsLba ==
    ASSUME NEW lba \in Nat
    PROVE  SectorAt(lba_to_chs(lba)) = lba
<1>1. bdb_track_sectors \in Nat \ {0} /\ bdb_heads \in Nat \ {0}
  BY Stage1Assumption
<1>2. PICK t \in Nat : t = lba \div bdb_track_sectors
  BY <1>1, Quotients
<1>3. PICK s \in Nat : s = lba % bdb_track_sectors
  BY <1>1, Quotients
<1>4. lba = bdb_track_sectors * t + s
  BY <1>1, <1>2, <1>3, Quotients
<1>5. PICK c \in Nat : c = t \div bdb_heads
  BY <1>1, Quotients
<1>6. PICK h \in Nat : h = t % bdb_heads
  BY <1>1, Quotients
<1>7. t = bdb_heads * c + h
  BY <1>1, <1>5, <1>6, Quotients
<1>8. SectorAt(lba_to_chs(lba)) = (c * bdb_heads + h) * bdb_track_sectors + (s + 1) - 1
  BY <1>2, <1>3, <1>5, <1>6 DEF SectorAt, lba_to_chs
<1>9. c * bdb_heads + h = t
  BY <1>1, <1>7
<1>10. t * bdb_track_sectors = bdb_track_sectors * t /\ t * bdb_track_sectors \in Nat
  BY <1>1
<1> QED BY <1>4, <1>8, <1>9, <1>10

(* The table is in the buffer.                                             *)
TableRead == \A i \in 1 .. 9 : i \in DOMAIN buffer /\ buffer[i] = i

LEMMA TableIsRead ==
    ASSUME buffer' = Sectors(bdb_res_sectors, bdb_fat_sectors)
    PROVE  TableRead'
<1>1. SectorAt(lba_to_chs(1)) = 1
  BY ChsIsLba
<1> QED BY <1>1 DEF TableRead, Sectors, bdb_res_sectors, bdb_fat_sectors

(* Its decoder in assembly code follows the chains the disk has.           *)
LEMMA Stage1Decodes ==
    ASSUME TableRead, NEW c \in 2 .. LastCluster
    PROVE  next_cluster(c) = Table[c]
<1>1. LastCluster \in Nat /\ (LastCluster * 3) \div 2 + 1 < 4608
      /\ c \in Nat /\ c <= LastCluster
  BY TableAssumption, Stage1Assumption DEF bdb_fat_sectors, bdb_sector_bytes
<1>2. PICK k \in Nat : k = (c * 3) \div 2
  BY <1>1
<1>3. k < 4608 /\ k + 1 \in Nat /\ k + 1 < 4608
  BY <1>1, <1>2
<1>4. ASSUME NEW i \in Nat, i < 4608 PROVE Byte(i) = g_fat[i]
  <2>1. PICK q \in 0 .. 8 : q = i \div bdb_sector_bytes
    BY <1>4 DEF bdb_sector_bytes
  <2>2. q + 1 \in DOMAIN buffer /\ buffer[q + 1] = 1 + q
    BY <2>1 DEF TableRead
  <2> QED BY <2>1, <2>2 DEF Byte, bdb_res_sectors
<1>5. PICK w : w = g_fat[k] + 256 * g_fat[k + 1]
  OBVIOUS
<1>6. next_cluster(c) = IF c % 2 = 1 THEN w \div 16 ELSE w % 4096
  <2>1. Byte(k) = g_fat[k] /\ Byte(k + 1) = g_fat[k + 1]
    BY <1>3, <1>4
  <2> QED BY <1>2, <1>5, <2>1 DEF next_cluster
<1>7. fat_next_cluster(c) = IF c % 2 = 0 THEN w % 4096 ELSE w \div 16
  BY <1>2, <1>5 DEF fat_next_cluster
<1>8. fat_next_cluster(c) = Table[c]
  BY <1>1, ChainsAreDecoded DEF DecodesTable
<1>9. c % 2 = 0 \/ c % 2 = 1
  BY <1>1
<1> QED BY <1>6, <1>7, <1>8, <1>9

(* How far the file has been read: the clusters in memory are the first    *)
(* bx of it, and boot_cluster is the next one.                             *)
Cluster(i) == loaded[i - 1] - 33 + 2

LoadedSoFar ==
    /\ bx \in Nat
    /\ \A i \in 1 .. bx : Cluster(i) \in 2 .. LastCluster
    /\ bx > 0 => Cluster(1) = FirstOf(StageTwo)
    /\ \A i \in 1 .. bx - 1 : Cluster(i + 1) = Table[Cluster(i)]

(* With `done' clusters of stage 2's file loaded, there is room for those  *)
(* that are left.                                                          *)
Upcoming(done) == done + Len(Chain[boot_cluster]) <= StageTwoRoom

NextToLoad ==
    /\ boot_cluster \in 2 .. LastCluster
    /\ Upcoming(bx)
    /\ IF bx = 0 THEN boot_cluster = FirstOf(StageTwo)
       ELSE boot_cluster = Table[Cluster(bx)]

S1Inv ==
    /\ at \in Place
    /\ DOMAIN loaded = 0 .. StageTwoRoom - 1
    /\ at = "table" => /\ boot_cluster = FirstOf(StageTwo)
                       /\ boot_cluster \in 2 .. LastCluster
                       /\ Upcoming(0)
    /\ at = "cluster" => TableRead /\ LoadedSoFar /\ NextToLoad
    /\ at = "stage2" => /\ LoadedSoFar /\ bx > 0
                        /\ Table[Cluster(bx)] >= EndOfChain

LEMMA S1InvInit == S1Init => S1Inv
  BY DEF S1Init, S1Inv, Place

LEMMA RoomIs == StageTwoRoom = 57
  BY DEF StageTwoRoom, StackBytes, BOOT_LOAD_OFFSET, bdb_sector_bytes

LEMMA TableIs ==
    ASSUME NEW c \in 0 .. LastCluster
    PROVE  Table[c] \in Nat
<1>1. Table[c] \in TableValue
  BY TableAssumption
<1>2. TableValue \subseteq Nat
  BY DEF TableValue
<1> QED BY <1>1, <1>2

LEMMA ChainIs ==
    /\ Chain \in [Nat -> Seq(Nat)]
    /\ \A c \in Nat : Chain[c] = IF c \in 2 .. LastCluster THEN <<c>> \o Chain[Table[c]]
                                 ELSE <<>>
<1>1. Upwards(LastCluster, Table)
  <2>1. LastCluster \in Nat /\ LastCluster < EndOfChain
    BY TableAssumption
  <2>2. ASSUME NEW c \in 2 .. LastCluster
        PROVE  /\ Table[c] \in Nat
               /\ Table[c] \in c + 1 .. LastCluster \/ Table[c] \notin 2 .. LastCluster
    <3>1. c \in 0 .. LastCluster /\ (Table[c] \in c + 1 .. LastCluster \/ Table[c] >= EndOfChain)
      BY TableAssumption
    <3>2. Table[c] \in Nat
      BY <3>1, TableIs
    <3> QED BY <2>1, <3>1, <3>2 DEF EndOfChain
  <2> QED BY <2>1, <2>2 DEF Upwards
<1>2. PICK L : L = [c \in Nat |-> IF c \in 2 .. LastCluster THEN <<c>> \o L[Table[c]]
                                 ELSE <<>>]
  BY <1>1, PathExists
<1>3. Chain = [c \in Nat |-> IF c \in 2 .. LastCluster THEN <<c>> \o Chain[Table[c]]
                             ELSE <<>>]
  BY <1>2 DEF Chain
<1> QED BY <1>1, <1>3, PathIs

LEMMA ChainFrom ==
    ASSUME NEW c \in 2 .. LastCluster
    PROVE  /\ c \in Nat /\ Table[c] \in Nat
           /\ Len(Chain[c]) = 1 + Len(Chain[Table[c]]) /\ Len(Chain[Table[c]]) \in Nat
<1>1. c \in Nat /\ Table[c] \in Nat
  <2>1. c \in 0 .. LastCluster
    OBVIOUS
  <2> QED BY <2>1, TableIs
<1>2. PICK s \in Seq(Nat) : s = Chain[Table[c]]
  BY <1>1, ChainIs
<1>3. Chain[c] = <<c>> \o s
  BY <1>1, <1>2, ChainIs
<1> QED BY <1>1, <1>2, <1>3

(* The cluster after the next one, when there is one.                      *)
LEMMA UpcomingStep ==
    ASSUME NEW b \in Nat, Upcoming(b), boot_cluster \in 2 .. LastCluster,
           ~(Table[boot_cluster] >= EndOfChain), boot_cluster' = Table[boot_cluster]
    PROVE  Upcoming(b + 1)' /\ boot_cluster' \in 2 .. LastCluster
<1>1. PICK c \in 2 .. LastCluster : c = boot_cluster
  OBVIOUS
<1>2. Table[c] \in 2 .. LastCluster
  BY <1>1, TableAssumption
<1>3. PICK n \in Nat : n = Len(Chain[Table[c]])
  BY ChainFrom
<1>4. Len(Chain[c]) = 1 + n
  BY <1>3, ChainFrom
<1>5. b + Len(Chain[c]) <= StageTwoRoom
  BY <1>1 DEF Upcoming
<1>6. (b + 1) + n <= StageTwoRoom
  BY <1>4, <1>5, RoomIs
<1>7. boot_cluster' = Table[c]
  BY <1>1
<1> QED BY <1>2, <1>3, <1>6, <1>7 DEF Upcoming

LEMMA FirstMatch ==
    ASSUME Matches # {}
    PROVE  /\ Directory[Min(Matches)].first = FirstOf(StageTwo)
           /\ FirstOf(StageTwo) \in 2 .. LastCluster
           /\ boot_cluster' = FirstOf(StageTwo) => Upcoming(0)'
<1>1. Directory \in Seq(DirEntry)
  BY Stage1Assumption
<1>2. Matches \subseteq Nat
  BY <1>1 DEF Matches
<1>3. PICK i : i = Min(Matches)
  OBVIOUS
<1>4. i \in Matches
  BY <1>2, <1>3, MinIs
<1>5. i \in DOMAIN Directory /\ Directory[i].name = StageTwo
  BY <1>4 DEF Matches
<1>6. PICK j : j = CHOOSE k \in DOMAIN Directory : Directory[k].name = StageTwo
  OBVIOUS
<1>7. j \in DOMAIN Directory /\ Directory[j].name = StageTwo
  BY <1>5, <1>6
<1>8. i = j
  BY <1>5, <1>7, Stage1Assumption
<1>9. Directory[j] \in DirEntry
  BY <1>1, <1>7
<1>10. Directory[Min(Matches)].first = FirstOf(StageTwo) /\ FirstOf(StageTwo) \in 2 .. LastCluster
  BY <1>3, <1>6, <1>8, <1>9 DEF FirstOf, DirEntry
<1>11. Len(Chain[FirstOf(StageTwo)]) <= StageTwoRoom
  BY <1>6, <1>7, Stage1Assumption DEF FirstOf
<1>12. Len(Chain[FirstOf(StageTwo)]) \in Nat
  BY <1>10, ChainFrom
<1>13. boot_cluster' = FirstOf(StageTwo) => Upcoming(0)'
  BY <1>11, <1>12 DEF Upcoming
<1> QED BY <1>10, <1>13

(* One cluster more.                                                       *)
LEMMA LoadStep ==
    ASSUME S1Inv, at = "cluster", bx' = bx + 1,
           loaded' = [loaded EXCEPT ![bx] = Sectors(boot_cluster + 31, 1)[1]]
    PROVE  /\ LoadedSoFar'
           /\ Cluster(bx)' = boot_cluster
           /\ DOMAIN loaded' = 0 .. StageTwoRoom - 1
<1>1. /\ TableRead /\ LoadedSoFar /\ NextToLoad
      /\ DOMAIN loaded = 0 .. StageTwoRoom - 1
  BY DEF S1Inv
<1>2. PICK b \in Nat : b = bx
  BY <1>1 DEF LoadedSoFar
<1>3. /\ LastCluster \in Nat /\ boot_cluster \in Nat
      /\ b \in 0 .. StageTwoRoom - 1
  <2>1. b + Len(Chain[boot_cluster]) <= StageTwoRoom /\ boot_cluster \in 2 .. LastCluster
    BY <1>1, <1>2 DEF NextToLoad, Upcoming
  <2>2. Len(Chain[boot_cluster]) \in Nat /\ Len(Chain[boot_cluster]) >= 1
    BY <2>1, ChainFrom
  <2> QED BY <1>2, <2>1, <2>2, TableAssumption, RoomIs
<1>4. Sectors(boot_cluster + 31, 1)[1] = boot_cluster + 31
  <2>1. SectorAt(lba_to_chs(boot_cluster + 31)) = boot_cluster + 31
    BY <1>3, ChsIsLba
  <2> QED BY <1>3, <2>1 DEF Sectors
<1>5. /\ loaded'[b] = boot_cluster + 31
      /\ \A k \in 0 .. b - 1 : loaded'[k] = loaded[k]
  BY <1>1, <1>2, <1>3, <1>4
<1>6. Cluster(b + 1)' = boot_cluster
  <2>1. (b + 1) - 1 = b
    OBVIOUS
  <2> QED BY <1>3, <1>5, <2>1 DEF Cluster
<1>7. ASSUME NEW i \in 1 .. b PROVE Cluster(i)' = Cluster(i)
  <2>1. i - 1 \in 0 .. b - 1
    OBVIOUS
  <2> QED BY <1>5, <2>1 DEF Cluster
<1>8. DOMAIN loaded' = 0 .. StageTwoRoom - 1
  BY <1>1
<1>9. \A i \in 1 .. b + 1 : Cluster(i)' \in 2 .. LastCluster
  <2> SUFFICES ASSUME NEW i \in 1 .. b + 1 PROVE Cluster(i)' \in 2 .. LastCluster
    OBVIOUS
  <2>1. CASE i = b + 1
    BY <1>1, <1>6, <2>1 DEF NextToLoad
  <2>2. CASE i \in 1 .. b
    BY <1>1, <1>2, <1>7, <2>2 DEF LoadedSoFar
  <2> QED BY <2>1, <2>2
<1>10. Cluster(1)' = FirstOf(StageTwo)
  <2>1. CASE b = 0
    BY <1>1, <1>2, <1>6, <2>1 DEF NextToLoad
  <2>2. CASE b > 0
    <3>1. 1 \in 1 .. b
      BY <2>2
    <3> QED BY <1>1, <1>2, <1>7, <2>2, <3>1 DEF LoadedSoFar
  <2> QED BY <2>1, <2>2
<1>11. ASSUME NEW i \in 1 .. b PROVE Cluster(i + 1)' = Table[Cluster(i)']
  <2>1. CASE i = b
    <3>1. Table[Cluster(b)] = boot_cluster
      BY <1>1, <1>2, <2>1 DEF NextToLoad
    <3> QED BY <1>6, <1>7, <2>1, <3>1
  <2>2. CASE i # b
    <3>1. i \in 1 .. b - 1 /\ i + 1 \in 1 .. b
      BY <2>2
    <3>2. Cluster(i + 1)' = Cluster(i + 1) /\ Cluster(i)' = Cluster(i)
      BY <1>7, <3>1
    <3> QED BY <1>1, <1>2, <3>1, <3>2 DEF LoadedSoFar
  <2> QED BY <2>1, <2>2
<1>12. bx' = b + 1 /\ (b + 1) - 1 = b /\ b + 1 > 0 /\ b + 1 \in Nat
  BY <1>2
<1>13. Cluster(bx)' = boot_cluster
  BY <1>6, <1>12 DEF Cluster
<1>14. LoadedSoFar'
  BY <1>9, <1>10, <1>11, <1>12 DEF LoadedSoFar
<1> QED BY <1>8, <1>13, <1>14

LEMMA S1InvStep == S1Inv /\ S1Next => S1Inv'
<1> SUFFICES ASSUME S1Inv, S1Next PROVE S1Inv'
  OBVIOUS
<1>1. CASE Start
  BY <1>1 DEF Start, S1Inv, Place
<1>2. CASE ReadRootDir
  <2>1. CASE AttemptFails("table")
    BY <1>2, <2>1 DEF ReadRootDir, AttemptFails, Reboots, S1Inv, Place
  <2>2. CASE Matches = {}
    BY <1>2, <2>1, <2>2 DEF ReadRootDir, S1Inv, Place
  <2>3. CASE Matches # {} /\ ~AttemptFails("table")
    BY <1>2, <2>3, FirstMatch DEF ReadRootDir, S1Inv, Place
  <2> QED BY <2>1, <2>2, <2>3
<1>3. CASE ReadFat
  <2>1. CASE AttemptFails("cluster")
    BY <1>3, <2>1 DEF ReadFat, AttemptFails, Reboots, S1Inv, Place, Upcoming
  <2>2. CASE ~AttemptFails("cluster")
    <3>1. /\ at' = "cluster" /\ bx' = 0 /\ UNCHANGED <<boot_cluster, loaded>>
          /\ buffer' = Sectors(bdb_res_sectors, bdb_fat_sectors)
      BY <1>3, <2>2 DEF ReadFat
    <3>2. TableRead'
      BY <3>1, TableIsRead
    <3>3. /\ boot_cluster = FirstOf(StageTwo) /\ boot_cluster \in 2 .. LastCluster
          /\ Upcoming(0)
      BY <1>3 DEF ReadFat, S1Inv
    <3>4. LoadedSoFar'
      BY <3>1 DEF LoadedSoFar
    <3>5. NextToLoad'
      <4>1. Upcoming(0)'
        BY <3>1, <3>3 DEF Upcoming
      <4> QED BY <3>1, <3>3, <4>1 DEF NextToLoad, FirstOf
    <3> QED BY <3>1, <3>2, <3>4, <3>5 DEF S1Inv, Place
  <2> QED BY <2>1, <2>2
<1>4. CASE LoadCluster
  <2>1. /\ at = "cluster" /\ TableRead /\ LoadedSoFar /\ NextToLoad
        /\ DOMAIN loaded = 0 .. StageTwoRoom - 1
    BY <1>4 DEF LoadCluster, S1Inv
  <2>2. CASE AttemptFails("cluster") /\ loaded' \in {loaded, [loaded EXCEPT ![bx] = Garbage]}
    <3>1. UNCHANGED <<bx, boot_cluster, buffer>> /\ (at' = at \/ at' = "error")
      BY <2>2 DEF AttemptFails, Reboots
    <3>2. DOMAIN loaded' = 0 .. StageTwoRoom - 1
      BY <2>1, <2>2
    <3>3. \A i \in 1 .. bx : Cluster(i)' = Cluster(i)
      <4> SUFFICES ASSUME NEW i \in 1 .. bx PROVE Cluster(i)' = Cluster(i)
        OBVIOUS
      <4>1. bx \in Nat /\ i \in Int /\ i - 1 # bx /\ i - 1 \in 0 .. StageTwoRoom - 1
        <5>1. bx + Len(Chain[boot_cluster]) <= StageTwoRoom /\ boot_cluster \in 2 .. LastCluster
          BY <2>1 DEF NextToLoad, Upcoming
        <5>2. Len(Chain[boot_cluster]) \in Nat /\ Len(Chain[boot_cluster]) >= 1
          BY <5>1, ChainFrom
        <5> QED BY <2>1, <5>1, <5>2, RoomIs DEF LoadedSoFar
      <4>2. loaded'[i - 1] = loaded[i - 1]
        BY <2>1, <2>2, <4>1
      <4> QED BY <4>2 DEF Cluster
    <3>4. LoadedSoFar' /\ NextToLoad'
      <4>1. bx \in Nat /\ bx' = bx /\ boot_cluster' = boot_cluster
        BY <2>1, <3>1 DEF LoadedSoFar
      <4>2. \A i \in 1 .. bx - 1 : i \in 1 .. bx /\ i + 1 \in 1 .. bx
        BY <4>1
      <4>3. bx > 0 => 1 \in 1 .. bx /\ bx \in 1 .. bx
        BY <4>1
      <4>4. LoadedSoFar'
        BY <2>1, <3>3, <4>1, <4>2, <4>3 DEF LoadedSoFar
      <4>5. Upcoming(bx)'
        BY <2>1, <4>1 DEF Upcoming, NextToLoad
      <4> QED BY <2>1, <3>3, <4>1, <4>3, <4>4, <4>5 DEF NextToLoad
    <3>5. TableRead'
      BY <2>1, <3>1 DEF TableRead
    <3> QED BY <2>1, <3>1, <3>2, <3>4, <3>5 DEF S1Inv, Place
  <2>3. CASE ~(AttemptFails("cluster") /\ loaded' \in {loaded, [loaded EXCEPT ![bx] = Garbage]})
    <3>1. /\ loaded' = [loaded EXCEPT ![bx] = Sectors(boot_cluster + 31, 1)[1]]
          /\ bx' = bx + 1
          /\ buffer' = buffer
          /\ IF next_cluster(boot_cluster) >= EndOfChain
             THEN at' = "stage2" /\ UNCHANGED boot_cluster
             ELSE boot_cluster' = next_cluster(boot_cluster) /\ UNCHANGED at
      BY <1>4, <2>3 DEF LoadCluster
    <3>2. /\ LoadedSoFar' /\ DOMAIN loaded' = 0 .. StageTwoRoom - 1
          /\ Cluster(bx)' = boot_cluster
      BY <2>1, <3>1, LoadStep
    <3>3. next_cluster(boot_cluster) = Table[boot_cluster]
      BY <2>1, Stage1Decodes DEF NextToLoad
    <3>4. bx \in Nat /\ Upcoming(bx) /\ boot_cluster \in 2 .. LastCluster
      BY <2>1 DEF LoadedSoFar, NextToLoad
    <3>5. CASE Table[boot_cluster] >= EndOfChain
      <4>1. at' = "stage2" /\ bx' > 0
        BY <3>1, <3>3, <3>4, <3>5
      <4>2. Table[Cluster(bx)'] >= EndOfChain
        BY <3>1, <3>2, <3>5
      <4> QED BY <3>2, <4>1, <4>2, <3>1 DEF S1Inv, Place
    <3>6. CASE ~(Table[boot_cluster] >= EndOfChain)
      <4>1. at' = "cluster" /\ boot_cluster' = Table[boot_cluster]
        BY <2>1, <3>1, <3>3, <3>6
      <4>0. PICK b \in Nat : b = bx
        BY <3>4
      <4>2. Upcoming(b + 1)' /\ boot_cluster' \in 2 .. LastCluster
        BY <3>4, <3>6, <4>1, <4>0, UpcomingStep
      <4>3. NextToLoad'
        <5>1. Upcoming(bx)'
          BY <3>1, <4>0, <4>2 DEF Upcoming
        <5> QED BY <3>1, <3>2, <3>4, <4>1, <4>2, <5>1 DEF NextToLoad
      <4>4. TableRead'
        BY <2>1, <3>1 DEF TableRead
      <4> QED BY <3>2, <4>1, <4>3, <4>4 DEF S1Inv, Place
    <3> QED BY <3>5, <3>6
  <2> QED BY <2>2, <2>3
<1>5. CASE Reboot
  BY <1>5 DEF Reboot, S1Inv, Place
<1> QED BY <1>1, <1>2, <1>3, <1>4, <1>5 DEF S1Next

LEMMA S1InvMeans == S1Inv => StageTwoIsFile
<1> SUFFICES ASSUME S1Inv, at = "stage2" PROVE StageTwoIsFile
  BY DEF StageTwoIsFile
<1> DEFINE clusters == [i \in 1 .. bx |-> loaded[i - 1] - 33 + 2]
<1>1. LoadedSoFar /\ bx > 0 /\ Table[Cluster(bx)] >= EndOfChain /\ bx \in Nat
  BY DEF S1Inv, LoadedSoFar
<1>2. Len(clusters) = bx
  BY <1>1
<1>3. \A i \in 1 .. bx : clusters[i] = Cluster(i)
  BY DEF Cluster
<1>4. 1 \in 1 .. bx /\ bx \in 1 .. bx
      /\ \A i \in 1 .. bx - 1 : i \in 1 .. bx /\ i + 1 \in 1 .. bx
  BY <1>1
<1> HIDE DEF clusters
<1>5. IsFile(clusters, FirstOf(StageTwo))
  BY <1>1, <1>2, <1>3, <1>4 DEF IsFile, LoadedSoFar
<1>6. \A i \in 1 .. bx : clusters[i] \in 2 .. LastCluster
  BY <1>1, <1>3 DEF LoadedSoFar
<1> QED BY <1>5, <1>6 DEF StageTwoIsFile, clusters

-----------------------------------------------------------------------------
(* The pool                                                                *)

(* A limit of a pool is a power of two that is not above n; and the 256th  *)
(* kilobyte is the last one such for what memory below 1 MB can offer.     *)
LEMMA PowerIs ==
    ASSUME NEW n \in Nat, n >= 1
    PROVE  /\ PowerUpTo(n) \in 1 .. n
           /\ n \in 259 .. 320 => PowerUpTo(n) = 256
<1> DEFINE T == {p \in Powers : p <= n}
<1>1. T \subseteq 0 .. n /\ 1 \in T
  BY SMT DEF Powers
<1>2. PICK m : m = Max(T)
  OBVIOUS
<1>3. m \in T /\ \A p \in T : p <= m
  BY <1>1, <1>2, MaxIs
<1>4. m \in 1 .. n
  BY SMT, <1>3 DEF Powers
<1>5. ASSUME n \in 259 .. 320 PROVE m = 256
  <2>1. 256 \in T /\ m \in Powers /\ m <= 320
    BY SMT, <1>3, <1>5 DEF Powers
  <2>2. 256 <= m
    BY SMT, <1>3, <2>1
  <2> QED BY SMT, <2>1, <2>2 DEF Powers
<1> QED BY SMT, <1>2, <1>4, <1>5 DEF PowerUpTo

LEMMA Remainder ==
    ASSUME NEW F \in Nat, NEW q \in Nat, NEW x \in Nat, x < F
    PROVE  (F * q + x) % F = x
<1>1. PICK m \in Nat : m = F * q + x
  OBVIOUS
<1>2. m \div F = q
  BY <1>1, QuotientIs
<1>3. m = F * (m \div F) + (m % F)
  BY <1>1, Quotients
<1>4. m % F \in Nat /\ F * q \in Nat
  BY <1>1, Quotients
<1> QED BY <1>1, <1>2, <1>3, <1>4

(* A length that buddy_init takes for a positive one.                      *)
LEMMA AsIntIs ==
    ASSUME NEW length \in Nat, AsInt(length) > 0
    PROVE  /\ AsInt(length) \in Nat \ {0}
           /\ AsInt(length) < FourGB \div 2
           /\ \E q \in Nat : length = FourGB * q + AsInt(length)
           /\ length < FourGB => AsInt(length) = length
<1>1. PICK F \in Nat : F = FourGB /\ F > 2
  BY SMT DEF FourGB
<1>2. PICK r : r = length % F
  OBVIOUS
<1>3. PICK q : q = length \div F
  OBVIOUS
<1>4. /\ r \in Nat /\ r < F /\ q \in Nat /\ length = F * q + r
      /\ F \div 2 \in Nat
  BY SMT, <1>1, <1>2, <1>3
<1>5. r < F \div 2 /\ AsInt(length) = r
  <2>1. AsInt(length) = IF r < F \div 2 THEN r ELSE r - F
    BY <1>1, <1>2 DEF AsInt
  <2> QED BY SMT, <1>1, <1>4, <2>1
<1>6. length < F => r = length
  BY SMT, <1>1, <1>2
<1>7. r # 0
  BY <1>5
<1> HIDE DEF AsInt, FourGB
<1> QED BY <1>1, <1>4, <1>5, <1>6, <1>7

(* What buddy_init computes from a block of n KB that ends at `end', when  *)
(* no address of it is out of 32 bits.                                     *)
LEMMA StartIs ==
    ASSUME NEW b \in Block, NEW n, n = AsInt(b.length), n >= 2,
           NEW end \in Nat, n <= end, end <= FourGB,
           NEW q \in Nat, b.begin + b.length = FourGB * q + end
    PROVE  /\ MaxBlock(b) \in 1 .. n \div 2
           /\ n \in 518 .. 640 => MaxBlock(b) = 256
           /\ Start4K(b) \in Nat
           /\ Start4K(b) + MaxBlock(b) <= end
           /\ Start4K(b) + MaxBlock(b) + 3 >= end
<1>1. b.length \in Nat /\ b.begin \in Nat
  BY DEF Block
<1>2. n \in Nat
  <2>1. AsInt(b.length) \in Int
    BY SMT, <1>1 DEF AsInt, FourGB
  <2> QED BY <2>1
<1>3. PICK F \in Nat : F = FourGB /\ F > 2
  BY SMT DEF FourGB
<1>4. PICK m : m = MaxBlock(b)
  OBVIOUS
<1>5. m \in 1 .. n \div 2 /\ (n \in 518 .. 640 => m = 256)
  <2>1. PICK h \in Nat : h = n \div 2
    BY <1>2
  <2>2. h >= 1 /\ (n \in 518 .. 640 => h \in 259 .. 320)
    BY <1>2, <2>1
  <2>3. m = PowerUpTo(h)
    BY <1>4, <2>1 DEF MaxBlock
  <2> QED BY <2>1, <2>2, <2>3, PowerIs
<1>6. m \in Nat /\ 1 <= m /\ m <= end
  BY <1>2, <1>5
<1>7. PICK from : from = (b.begin + b.length - m) % F
  OBVIOUS
<1>8. from = end - m
  <2>1. PICK x \in Nat : x = end - m /\ x < F
    BY <1>3, <1>6
  <2>2. b.begin + b.length - m = F * q + x
    <3>1. F * q \in Nat
      BY <1>3
    <3> QED BY <1>1, <1>3, <1>6, <2>1, <3>1
  <2>3. (F * q + x) % F = x
    BY <1>3, <2>1, Remainder
  <2> QED BY <1>7, <2>1, <2>2, <2>3
<1>9. Start4K(b) = from - (from % 4)
  BY <1>3, <1>4, <1>7 DEF Start4K
<1>10. from \in Nat
  BY <1>6, <1>8
<1>11. /\ from - (from % 4) \in Nat /\ from - (from % 4) <= from
       /\ from - (from % 4) + 3 >= from
  BY <1>10
<1> QED BY <1>4, <1>5, <1>6, <1>8, <1>9, <1>10, <1>11

(* The pool of the block that buddy_init has chosen: memory that the       *)
(* machine has, behind what is loaded and used.                            *)
IsClear(m, p) ==
    /\ \E i \in DOMAIN m :
          /\ m[i].usable
          /\ m[i].begin <= p.begin
          /\ p.begin + p.length <= m[i].begin + m[i].length
    /\ \A r \in LowMemory \cup {Kernel} : Disjoint(p, r)

(* A usable block b of the map m, as MachineAssumption has it.             *)
MapAllows(m, b) ==
    \/ b.begin = 0 /\ b.length \in 518 .. 640
    \/ /\ b.begin >= 1024 /\ b.length > 2 * (KernelSize + 4)
       /\ b.begin + b.length <= FourGB
    \/ /\ b.begin = FourGB
       /\ \/ AsInt(b.length) <= 0
          \/ AsInt(b.length) > 2 * (1024 + KernelSize + 4)
       /\ \E j \in DOMAIN m :
             /\ m[j].usable /\ m[j].begin = 1024
             /\ m[j].begin + m[j].length >= FourGB \div 2

LEMMA BlocksAllowed ==
    \A m \in Machines : \A i \in DOMAIN m :
        m[i].usable => MapAllows(m, m[i])
BY Zenon, MachineAssumption DEF MapAllows

LEMMA ChosenIsClear ==
    ASSUME NEW m \in Machines, NEW i \in DOMAIN m, m[i].usable,
           AsInt(m[i].length) > 0,
           NEW p, p = [begin |-> Start4K(m[i]), length |-> MaxBlock(m[i])]
    PROVE  IsClear(m, p)
<1>1. PICK b : b = m[i]
  OBVIOUS
<1>2. PICK n : n = AsInt(b.length)
  OBVIOUS
<1>3. PICK s : s = Start4K(b)
  OBVIOUS
<1>4. PICK k : k = MaxBlock(b)
  OBVIOUS
<1>0. \A j \in DOMAIN m : m[j] \in Block
  <2>1. m \in Seq(Block)
    BY MachineAssumption
  <2> QED BY <2>1
<1>5. b \in Block /\ b.begin \in Nat /\ b.length \in Nat /\ b.length # 0
  BY <1>0, <1>1 DEF Block
<1>6. /\ n \in Nat \ {0} /\ n < FourGB \div 2
      /\ \E q \in Nat : b.length = FourGB * q + n
      /\ b.length < FourGB => n = b.length
  BY <1>1, <1>2, <1>5, AsIntIs
<1>7. p.begin = s /\ p.length = k
  BY <1>1, <1>3, <1>4
<1>8. PICK F \in Nat : F = FourGB /\ F > 2000
  BY SMT DEF FourGB
<1>9. KernelSize \in Nat /\ Kernel.begin = 1024 /\ Kernel.length = KernelSize
  BY MachineAssumption DEF Kernel
<1>10. \A r \in LowMemory :
          /\ r.begin \in Nat /\ r.length \in Nat
          /\ \/ r.begin + r.length <= 256
             \/ r.begin >= 640 /\ r.begin + r.length <= 1024
  BY MachineAssumption DEF Region
<1> DEFINE Above(end) == /\ k \in Nat /\ 1 <= k /\ 2 * k <= n /\ s \in Nat
                         /\ s + k <= end /\ end <= s + k + 3
<1>11. ASSUME NEW end \in Nat, n >= 2, n <= end, end <= F,
              NEW q \in Nat, b.begin + b.length = F * q + end
       PROVE  Above(end) /\ (n \in 518 .. 640 => k = 256)
  <2>1. /\ k \in 1 .. n \div 2
        /\ n \in 518 .. 640 => k = 256
        /\ s \in Nat
        /\ s + k <= end
        /\ s + k + 3 >= end
    BY <1>2, <1>3, <1>4, <1>5, <1>8, <1>11, StartIs
  <2> QED BY <1>6, <2>1
<1>12. ASSUME s \in Nat, s >= 1024 + KernelSize
       PROVE  \A r \in LowMemory \cup {Kernel} : s + k <= r.begin \/ r.begin + r.length <= s
  BY <1>9, <1>10, <1>12
<1> HIDE DEF Above
<1>13. CASE b.begin = 0 /\ b.length \in 518 .. 640
  <2>1. n = b.length /\ n \in 518 .. 640
    BY <1>6, <1>8, <1>13
  <2>2. b.begin + b.length = F * 0 + n
    BY <1>5, <1>8, <1>13, <2>1
  <2>3. Above(n) /\ k = 256
    BY <1>8, <1>11, <2>1, <2>2
  <2>4. s >= 256 /\ s + k <= 640
    BY <2>1, <2>3 DEF Above
  <2>5. \A r \in LowMemory \cup {Kernel} : s + k <= r.begin \/ r.begin + r.length <= s
    <3>1. s \in Nat /\ k \in Nat
      BY <2>3 DEF Above
    <3> QED BY <1>9, <1>10, <2>4, <3>1
  <2>6. m[i].begin <= s /\ s + k <= m[i].begin + m[i].length
    BY <1>1, <1>13, <2>1, <2>3, <2>4 DEF Above
  <2> QED BY <1>7, <2>5, <2>6 DEF IsClear, Disjoint
<1>14. CASE /\ b.begin >= 1024 /\ b.length > 2 * (KernelSize + 4)
            /\ b.begin + b.length <= FourGB
  <2>1. PICK end \in Nat : end = b.begin + b.length
    BY <1>5
  <2>2. n = b.length /\ n >= 2 /\ n <= end /\ end <= F
    BY <1>5, <1>6, <1>8, <1>9, <1>14, <2>1
  <2>3. end = F * 0 + end
    BY <1>8, <2>1
  <2>4. Above(end)
    BY <1>5, <1>11, <2>1, <2>2, <2>3
  <2>5. s >= b.begin + KernelSize
    BY <1>5, <1>9, <1>14, <2>1, <2>2, <2>4 DEF Above
  <2>6. \A r \in LowMemory \cup {Kernel} : s + k <= r.begin \/ r.begin + r.length <= s
    BY <1>5, <1>9, <1>12, <1>14, <2>4, <2>5 DEF Above
  <2>7. m[i].begin <= s /\ s + k <= m[i].begin + m[i].length
    BY <1>1, <1>5, <1>9, <2>1, <2>4, <2>5 DEF Above
  <2> QED BY <1>7, <2>6, <2>7 DEF IsClear, Disjoint
<1>15. CASE /\ b.begin = FourGB
            /\ n <= 0 \/ n > 2 * (1024 + KernelSize + 4)
            /\ \E j \in DOMAIN m :
                  /\ m[j].usable /\ m[j].begin = 1024
                  /\ m[j].begin + m[j].length >= FourGB \div 2
  <2>1. n > 2 * (1024 + KernelSize + 4)
    BY <1>6, <1>15
  <2>2. PICK q \in Nat : b.length = F * q + n
    BY <1>6, <1>8
  <2>3. PICK t \in Nat : t = q + 1
    OBVIOUS
  <2>9. b.begin + b.length = F * t + n
    BY <1>5, <1>6, <1>8, <1>15, <2>2, <2>3
  <2>4. Above(n)
    <3>1. n \in Nat /\ n >= 2 /\ n <= n /\ n <= F
      BY <1>6, <1>8, <1>9, <2>1
    <3> QED BY <1>11, <2>9, <3>1
  <2>5. s >= 1024 + KernelSize /\ s + k <= F \div 2
    BY <1>6, <1>8, <1>9, <2>1, <2>4 DEF Above
  <2>6. \A r \in LowMemory \cup {Kernel} : s + k <= r.begin \/ r.begin + r.length <= s
    BY <1>12, <2>4, <2>5 DEF Above
  <2>7. PICK j \in DOMAIN m : /\ m[j].usable /\ m[j].begin = 1024
                              /\ m[j].begin + m[j].length >= F \div 2
    BY <1>8, <1>15
  <2>8. m[j].begin <= s /\ s + k <= m[j].begin + m[j].length
    <3>1. m[j].length \in Nat
      BY <1>0 DEF Block
    <3>2. KernelSize \in Nat /\ s \in Nat /\ k \in Nat /\ F \div 2 \in Nat
      BY <1>8, <1>9, <2>4 DEF Above
    <3> QED BY <2>5, <2>7, <3>1, <3>2
  <2> QED BY <1>7, <2>6, <2>7, <2>8 DEF IsClear, Disjoint
<1>16. MapAllows(m, b)
  <2>1. MapAllows(m, m[i])
    BY BlocksAllowed
  <2> QED BY ONLY <1>1, <2>1
<1> QED BY <1>2, <1>13, <1>14, <1>15, <1>16 DEF MapAllows

-----------------------------------------------------------------------------
(* The loops of BuddySearch.tla compute what BuddyTree.tla says of a whole *)
(* call, for every number of layers, every bitmap that is a tree and every *)
(* request.                                                                *)

LEMMA NumberIs ==
    ASSUME NEW l \in 0 .. 15, NEW i \in Int
    PROVE  Number(l, i) = Pow2(l) + i
<1>1. \/ l = 0 \/ l = 1 \/ l = 2 \/ l = 3 \/ l = 4 \/ l = 5 \/ l = 6 \/ l = 7
      \/ l = 8 \/ l = 9 \/ l = 10 \/ l = 11 \/ l = 12 \/ l = 13 \/ l = 14 \/ l = 15
  OBVIOUS
<1>2. buddy_layers[l + 1] \in Int
  BY <1>1 DEF buddy_layers
<1> QED BY <1>2 DEF Number, Pow2

(* Block <<l, i>>, its parent and its other half.                          *)
LEMMA BlockIs ==
    ASSUME NEW l \in 0 .. Layers - 1, NEW i \in Nat, i < Pow2(l)
    PROVE  /\ Number(l, i) = Pow2(l) + i
           /\ Number(l, i) \in At(l) /\ Number(l, i) \in Node
           /\ LayerOf[Number(l, i)] = l
<1>1. l \in 0 .. 13 /\ l \in 0 .. 14
  BY TreeAssumption
<1>2. Pow2(l) \in Nat /\ Pow2(l + 1) = 2 * Pow2(l)
  BY <1>1, Pow2Table
<1>3. Number(l, i) = Pow2(l) + i
  BY <1>1, NumberIs
<1>4. Number(l, i) \in At(l)
  BY <1>2, <1>3 DEF At
<1> QED BY <1>3, <1>4, LayerIs

LEMMA NodeIsBlock ==
    ASSUME NEW l \in 0 .. Layers - 1, NEW i \in Int, Number(l, i) \in Node,
           LayerOf[Number(l, i)] = l
    PROVE  i \in Nat /\ i < Pow2(l)
<1>1. l \in 0 .. 13 /\ l \in 0 .. 14
  BY TreeAssumption
<1>2. Pow2(l) \in Nat /\ Pow2(l + 1) = 2 * Pow2(l)
  BY <1>1, Pow2Table
<1>3. Number(l, i) = Pow2(l) + i
  BY <1>1, NumberIs
<1>4. Number(l, i) \in At(l)
  BY LayerDef
<1> QED BY <1>2, <1>3, <1>4 DEF At

LEMMA ParentBlock ==
    ASSUME NEW l \in 1 .. Layers - 1, NEW i \in Nat, i < Pow2(l)
    PROVE  /\ i \div 2 \in Nat /\ i \div 2 < Pow2(l - 1)
           /\ Number(l - 1, i \div 2) = Parent(Number(l, i))
<1>1. l \in 0 .. 13 /\ l - 1 \in 0 .. 14 /\ l - 1 \in 0 .. 15 /\ l \in 0 .. 15
      /\ (l - 1) + 1 = l
  BY TreeAssumption
<1>2. PICK p \in Nat : p = Pow2(l - 1)
  BY <1>1, Pow2Table
<1>3. Pow2(l) = 2 * p
  BY <1>1, <1>2, Pow2Table
<1>4. i \div 2 \in Nat /\ i \div 2 < p /\ (2 * p + i) \div 2 = p + (i \div 2)
  BY <1>2, <1>3
<1>5. Number(l - 1, i \div 2) = p + (i \div 2) /\ Number(l, i) = 2 * p + i
  BY <1>1, <1>2, <1>3, <1>4, NumberIs
<1> QED BY <1>2, <1>4, <1>5 DEF Parent

LEMMA OtherHalfBlock ==
    ASSUME NEW l \in 1 .. Layers - 1, NEW i \in Nat, i < Pow2(l)
    PROVE  /\ i % 2 = 0 => i + 1 < Pow2(l) /\ Number(l, i + 1) = Number(l, i) + 1
                           /\ BuddyOf(Number(l, i)) = Number(l, i + 1)
                           /\ BuddyOf(Number(l, i + 1)) = Number(l, i)
           /\ i % 2 = 1 => /\ i - 1 \in Nat
                           /\ BuddyOf(Number(l, i)) = Number(l, i - 1)
<1>1. l \in 0 .. 13 /\ l - 1 \in 0 .. 14 /\ l \in 0 .. 15 /\ (l - 1) + 1 = l
  BY TreeAssumption
<1>2. PICK p \in Nat : p = Pow2(l - 1)
  BY <1>1, Pow2Table
<1>3. Pow2(l) = 2 * p
  BY <1>1, <1>2, Pow2Table
<1>4. \A j \in Int : Number(l, j) = 2 * p + j
  BY <1>1, <1>3, NumberIs
<1>5. CASE i % 2 = 0
  <2>1. i + 1 < 2 * p
    BY <1>3, <1>5
  <2>2. Number(l, i) = 2 * p + i /\ Number(l, i + 1) = 2 * p + i + 1
    BY <1>4
  <2>3. (2 * p + i) % 2 = 0 /\ (2 * p + i + 1) % 2 = 1
    BY <1>5
  <2> QED BY <1>3, <1>5, <2>1, <2>2, <2>3 DEF BuddyOf
<1>6. CASE i % 2 = 1
  <2>1. i - 1 \in Nat
    BY <1>6
  <2>2. Number(l, i) = 2 * p + i /\ Number(l, i - 1) = 2 * p + i - 1
    BY <1>4
  <2>3. (2 * p + i) % 2 = 1
    BY <1>6
  <2> QED BY <1>6, <2>1, <2>2, <2>3 DEF BuddyOf
<1> QED BY <1>5, <1>6

-----------------------------------------------------------------------------
(* One iteration of the search                                             *)

(* On its way up the body settles on the first candidate of the two halves *)
(* it looks at, if there is one (buddy_alloc.c:136-158).                   *)
LEMMA ChosenUp ==
    ASSUME layer \in 0 .. Layers - 1, idx \in Nat, idx % 2 = 0,
           idx < Pow2(layer), search_up
    PROVE  \/ /\ Chosen = {}
              /\ \A n \in Candidates(bits, layer) :
                    n # Number(layer, idx) /\ n # Number(layer, idx) + 1
           \/ /\ Chosen = {idx}
              /\ Number(layer, idx) \in Candidates(bits, layer)
           \/ /\ Chosen = {idx + 1}
              /\ idx + 1 < Pow2(layer)
              /\ Number(layer, idx + 1) = Number(layer, idx) + 1
              /\ Number(layer, idx + 1) \in Candidates(bits, layer)
              /\ Number(layer, idx) \notin Candidates(bits, layer)
<1>1. PICK m : m = Number(layer, idx)
  OBVIOUS
<1>2. m \in At(layer) /\ m \in Node /\ LayerOf[m] = layer /\ m = Pow2(layer) + idx
  BY <1>1, BlockIs
<1>3. CASE layer = 0
  <2>1. m = 1
    BY <1>2, <1>3, RootLayer
  <2>2. idx = 0
    BY <1>2, <1>3, <2>1, Pow2Table
  <2>3. Chosen = IF 1 \in bits THEN {} ELSE {idx}
    BY <1>1, <1>3, <2>1, <2>2 DEF Chosen, IsSet
  <2>4. 1 \notin bits => m \in Candidates(bits, layer)
    BY <1>2, <2>1 DEF Candidates
  <2>5. \A n \in Candidates(bits, layer) : n = 1 /\ n \notin bits
    <3>1. \A n \in At(0) : n = 1
      BY TreeAssumption, LayerIs, RootLayer
    <3> QED BY <1>3, <3>1 DEF Candidates
  <2>6. CASE 1 \in bits
    BY <2>3, <2>5, <2>6
  <2>7. CASE 1 \notin bits
    BY <1>1, <2>3, <2>4, <2>7
  <2> QED BY <2>6, <2>7
<1>4. CASE layer # 0
  <2>1. layer \in 1 .. Layers - 1
    BY <1>4, TreeAssumption
  <2>2. /\ idx \div 2 \in Nat
        /\ Number(layer - 1, idx \div 2) = Parent(m)
        /\ idx + 1 < Pow2(layer)
        /\ Number(layer, idx + 1) = m + 1
        /\ BuddyOf(m) = m + 1 /\ BuddyOf(m + 1) = m
    BY <1>1, <2>1, ParentBlock, OtherHalfBlock
  <2>3. m + 1 \in At(layer) /\ m + 1 \in Node /\ m # 1 /\ m + 1 # 1
    <3>1. m + 1 \in At(layer) /\ m + 1 \in Node
      BY <2>2, BlockIs
    <3>2. m \in Nat /\ m >= 1 /\ m # 1
      BY <1>2, <1>4, NodeIsNat, RootLayer
    <3> QED BY <3>1, <3>2
  <2>4. Parent(m + 1) = Parent(m)
    <3>1. Number(layer - 1, (idx + 1) \div 2) = Parent(m + 1)
      BY <2>1, <2>2, ParentBlock
    <3>2. (idx + 1) \div 2 = idx \div 2
      OBVIOUS
    <3> QED BY <2>2, <3>1, <3>2
  <2>5. \A n \in {m, m + 1} :
           n \in Candidates(bits, layer) <=>
               n \notin bits /\ Parent(m) \in bits /\ BuddyOf(n) \in bits
    BY <1>2, <2>3, <2>4 DEF Candidates
  <2>6. Chosen = IF Parent(m) \notin bits THEN {}
                 ELSE IF m \notin bits /\ m + 1 \notin bits THEN {}
                 ELSE IF m \notin bits THEN {idx}
                 ELSE IF m + 1 \notin bits THEN {idx + 1}
                 ELSE {}
    BY <1>1, <1>4, <2>2 DEF Chosen, IsSet
  <2>7. CASE Parent(m) \notin bits \/ (m \notin bits /\ m + 1 \notin bits)
             \/ (m \in bits /\ m + 1 \in bits)
    <3>1. Chosen = {}
      BY <2>6, <2>7
    <3>2. m \notin Candidates(bits, layer) /\ m + 1 \notin Candidates(bits, layer)
      BY <2>2, <2>5, <2>7
    <3> QED BY <1>1, <3>1, <3>2
  <2>8. CASE Parent(m) \in bits /\ m \notin bits /\ m + 1 \in bits
    BY <1>1, <2>2, <2>5, <2>6, <2>8
  <2>9. CASE Parent(m) \in bits /\ m \in bits /\ m + 1 \notin bits
    BY <1>1, <2>2, <2>5, <2>6, <2>9
  <2> QED BY <2>7, <2>8, <2>9
<1> QED BY <1>3, <1>4

(* On its way down it takes the first half of the block just split.        *)
LEMMA ChosenDown ==
    ASSUME layer \in 1 .. Layers - 1, idx \in Nat, idx < Pow2(layer), ~search_up,
           Parent(Number(layer, idx)) \in bits, Number(layer, idx) \notin bits
    PROVE  Chosen = {idx}
<1>1. Number(layer - 1, idx \div 2) = Parent(Number(layer, idx))
  BY ParentBlock
<1>2. layer # 0
  OBVIOUS
<1> QED BY <1>1, <1>2 DEF Chosen, IsSet

(* The first candidate of the lowest layer that has one is the block that  *)
(* BuddyTree.tla takes, and below it lies what is handed out.              *)
WayDown(b, size, c) ==
    /\ c \in Node \ b
    /\ LayerOf[c] <= MinLayer[size]
    /\ AllocSucceeds(b, size)
    /\ AllocPath(b, size) = {Down(c, j) : j \in 0 .. MinLayer[size] - LayerOf[c]}
    /\ AllocNode(b, size) = Down(c, MinLayer[size] - LayerOf[c])

LEMMA FirstCandidate ==
    ASSUME NEW b, b \subseteq Node, NEW size \in 0 .. Pow2(Layers - 1),
           NEW l \in 0 .. MinLayer[size], NEW c \in Candidates(b, l),
           \A n \in Candidates(b, l) : n >= c,
           \A k \in l + 1 .. MinLayer[size] : Candidates(b, k) = {}
    PROVE  WayDown(b, size, c) /\ LayerOf[c] = l
<1>1. PICK L \in 0 .. Layers - 1 : L = MinLayer[size]
  BY MinLayerIs
<1>2. L \in Nat /\ L <= Layers - 1 /\ l \in 0 .. Layers - 1 /\ l \in 0 .. L
      /\ Layers \in Nat /\ L - l \in Nat /\ l + (L - l) = L
  BY <1>1, TreeAssumption
<1>3. Pow2(Layers - 1) \in Nat
  BY TreeAssumption, Pow2Table
<1> DEFINE T == {k \in 0 .. L : Candidates(b, k) # {}}
<1>4. CandidateLayers(b, size) = T
  BY <1>1, <1>3 DEF CandidateLayers
<1>5. l \in T /\ \A k \in T : k <= l
  BY <1>1, <1>2
<1>6. Max(CandidateLayers(b, size)) = l
  <2>1. T \subseteq 0 .. L /\ T # {}
    BY <1>5
  <2> HIDE DEF T
  <2>2. PICK m : m = Max(T)
    OBVIOUS
  <2>3. m \in T /\ \A j \in T : j <= m
    BY <1>2, <2>1, <2>2, MaxIs
  <2>4. m \in Nat /\ m <= l /\ l <= m
    BY <1>2, <1>5, <2>1, <2>3
  <2> QED BY <1>2, <1>4, <2>2, <2>4
<1>7. c \in Node \ b /\ LayerOf[c] = l /\ c \in Nat
  BY <1>2, LayerIs, NodeIsNat DEF Candidates
<1>8. Min(Candidates(b, l)) = c
  <2>1. Candidates(b, l) \subseteq Nat /\ Candidates(b, l) # {}
    BY <1>2, LayerIs, NodeIsNat DEF Candidates
  <2>2. PICK m : m = Min(Candidates(b, l))
    OBVIOUS
  <2>3. m \in Candidates(b, l) /\ \A j \in Candidates(b, l) : m <= j
    BY <2>1, <2>2, MinIs
  <2>4. m \in Nat /\ m >= c /\ m <= c
    BY <2>1, <2>3
  <2> QED BY <1>7, <2>2, <2>4
<1>9. AllocSucceeds(b, size)
  BY <1>4, <1>5 DEF AllocSucceeds
<1>10. AllocPath(b, size) = {Down(c, j) : j \in 0 .. L - l}
  BY <1>1, <1>6, <1>7, <1>8 DEF AllocPath, Descent, Down
<1>11. size \in Request
  BY <1>3 DEF Request
<1>12. AllocNode(b, size) = Down(c, L - l)
  <2>1. PICK d \in Nat : d = L - l
    BY <1>2
  <2>2. LayerOf[c] + d <= Layers - 1
    BY <1>2, <1>7, <2>1
  <2>3. AllocPath(b, size) = {Down(c, j) : j \in 0 .. d}
    BY <1>10, <2>1
  <2>4. PICK n : n = AllocNode(b, size)
    OBVIOUS
  <2>5. n = Down(c, d)
    <3>1. b \subseteq Node /\ size \in Request /\ c \in Node /\ d \in Nat
      BY <1>7, <1>11
    <3> QED BY ONLY <2>2, <2>3, <2>4, <3>1, AllocNodeIs
  <2> QED BY <2>1, <2>4, <2>5
<1> QED BY <1>1, <1>2, <1>7, <1>9, <1>10, <1>12 DEF WayDown

-----------------------------------------------------------------------------
(* The search of buddy_alloc                                               *)

(* A bitmap between two calls: nothing has been handed out, or the heap    *)
(* keeps its block.                                                        *)
IsPool(b) ==
    /\ b \subseteq Node
    /\ IsTree(b)
    /\ b # {} => Reserved \in Blocks(b)

(* The block c has been found and split down to the layer above `l': its   *)
(* first halves are set so far, and n is the next of them.                 *)
SplitTo(c, l, n) ==
    /\ WayDown(before, arg, c)
    /\ LayerOf[c] <= l
    /\ n = Down(c, l - LayerOf[c])
    /\ bits = before \cup {Down(c, j) : j \in 0 .. l - LayerOf[c] - 1}

(* Nothing has changed, and what has been looked at has no candidate.      *)
Climbing ==
    /\ bits = before
    /\ \A k \in layer + 1 .. min_layer : Candidates(before, k) = {}
    /\ \A n \in Candidates(before, layer) : n >= Number(layer, idx)

Descending ==
    \E c \in Node : SplitTo(c, layer, Number(layer, idx)) /\ LayerOf[c] < layer

Searching ==
    /\ arg \in 0 .. Pow2(Layers - 1)
    /\ min_layer = MinLayer[arg]
    /\ layer \in 0 .. min_layer
    /\ idx \in Nat /\ idx % 2 = 0
    /\ search_up => Climbing
    /\ ~search_up => Descending

LEMMA SearchLayers ==
    ASSUME Searching
    PROVE  /\ min_layer \in 0 .. Layers - 1 /\ layer \in 0 .. Layers - 1
           /\ min_layer \in Nat /\ layer \in Nat /\ layer <= min_layer
           /\ layer \in 0 .. 13
<1>1. min_layer \in 0 .. Layers - 1 /\ layer \in 0 .. min_layer
  BY MinLayerIs DEF Searching
<1> QED BY <1>1, TreeAssumption

LEMMA NextIsClear ==
    ASSUME NEW c \in Node, NEW l \in 0 .. Layers - 1, NEW n,
           SplitTo(c, l, n), LayerOf[c] < l, IsPool(before)
    PROVE  /\ n \in Node /\ LayerOf[n] = l
           /\ n \notin bits /\ Parent(n) \in bits
<1>1. LayerOf[c] \in Nat /\ l \in Nat /\ Layers \in 2 .. 14 /\ c \in Node \ before
  BY LayerIsNat, TreeAssumption DEF SplitTo, WayDown
<1>2. PICK d \in 1 .. 13 : d = l - LayerOf[c] /\ d \in 0 .. Layers - 1 - LayerOf[c]
  BY <1>1
<1>3. n = Down(c, d) /\ bits = before \cup {Down(c, j) : j \in 0 .. d - 1}
  BY <1>2 DEF SplitTo
<1>4. n \in Node /\ LayerOf[n] = l
  BY <1>1, <1>2, <1>3, DownIs
<1>5. n \notin before
  BY <1>1, <1>2, <1>3, BelowClear DEF IsPool
<1>6. \A j \in 0 .. d - 1 : Down(c, j) # n
  <2> SUFFICES ASSUME NEW j \in 0 .. d - 1 PROVE LayerOf[Down(c, j)] # l
    BY <1>4
  <2>1. j \in 0 .. Layers - 1 - LayerOf[c]
    BY <1>1, <1>2
  <2>2. LayerOf[Down(c, j)] = LayerOf[c] + j
    BY <2>1, DownIs
  <2> QED BY <1>1, <1>2, <2>2
<1>7. Parent(n) = Down(c, d - 1)
  <2>1. d - 1 \in 0 .. 14 /\ (d - 1) + 1 = d /\ d - 1 \in 0 .. Layers - 1 - LayerOf[c]
    BY <1>1, <1>2
  <2>2. PICK m : m = Down(c, d - 1)
    OBVIOUS
  <2>3. n = 2 * m /\ m \in Nat
    BY <1>3, <2>1, <2>2, DownStep, DownIs, NodeIsNat
  <2> QED BY <2>2, <2>3, HalfFacts DEF Parent
<1>8. Parent(n) \in bits
  BY <1>2, <1>3, <1>7
<1> QED BY <1>3, <1>4, <1>5, <1>6, <1>8

LEMMA DescendingIs ==
    ASSUME Searching, ~search_up, IsPool(before)
    PROVE  /\ layer \in 1 .. Layers - 1 /\ idx < Pow2(layer)
           /\ Number(layer, idx) \notin bits
           /\ Parent(Number(layer, idx)) \in bits
<1>1. PICK c \in Node : SplitTo(c, layer, Number(layer, idx)) /\ LayerOf[c] < layer
  BY DEF Searching, Descending
<1>2. layer \in 0 .. Layers - 1 /\ idx \in Nat
  BY SearchLayers DEF Searching
<1>3. /\ Number(layer, idx) \in Node /\ LayerOf[Number(layer, idx)] = layer
      /\ Number(layer, idx) \notin bits /\ Parent(Number(layer, idx)) \in bits
  BY <1>1, <1>2, NextIsClear
<1>4. idx < Pow2(layer)
  BY <1>2, <1>3, NodeIsBlock
<1>5. layer # 0
  BY <1>1, LayerIsNat
<1> QED BY <1>2, <1>3, <1>4, <1>5

(* What the body of the loop settles on is the next block to set.          *)
LEMMA ChosenIsNext ==
    ASSUME Searching, InFor, IsPool(before), NEW i \in Chosen
    PROVE  /\ i \in Nat /\ i < Pow2(layer)
           /\ \E c \in Node : SplitTo(c, layer, Number(layer, i))
<1>1. /\ layer \in 0 .. Layers - 1 /\ idx \in Nat /\ idx % 2 = 0 /\ idx < Pow2(layer)
      /\ layer \in Nat
  BY SearchLayers DEF Searching, InFor
<1>2. CASE search_up
  <2>1. Climbing /\ bits = before
    BY <1>2 DEF Searching, Climbing
  <2>2. PICK c : c = Number(layer, i)
    OBVIOUS
  <2>3. PICK m : m = Number(layer, idx)
    OBVIOUS
  <2>4. /\ i \in Nat /\ i < Pow2(layer)
        /\ c \in Candidates(before, layer)
        /\ c = m \/ (c = m + 1 /\ m \notin Candidates(before, layer))
    BY <1>1, <1>2, <2>1, <2>2, <2>3, ChosenUp
  <2>5. m \in Nat
    BY <1>1, <2>3, BlockIs, NodeIsNat
  <2>6. \A n \in Candidates(before, layer) : n >= c
    <3> SUFFICES ASSUME NEW n \in Candidates(before, layer) PROVE n >= c
      OBVIOUS
    <3>1. n \in Nat
      BY <1>1, LayerIs, NodeIsNat DEF Candidates
    <3>2. n >= m
      BY <2>1, <2>3 DEF Climbing
    <3> QED BY <2>4, <2>5, <3>1, <3>2
  <2>7. /\ arg \in 0 .. Pow2(Layers - 1) /\ layer \in 0 .. MinLayer[arg]
        /\ \A k \in layer + 1 .. MinLayer[arg] : Candidates(before, k) = {}
    BY <2>1 DEF Searching, Climbing
  <2>8. WayDown(before, arg, c) /\ LayerOf[c] = layer
    BY <2>4, <2>6, <2>7, FirstCandidate DEF IsPool
  <2>9. c \in Node /\ c = Down(c, layer - LayerOf[c])
    <3>1. c \in Node /\ layer - LayerOf[c] = 0
      BY <1>1, <2>8 DEF WayDown
    <3> QED BY <3>1, DownStep
  <2>10. {Down(c, j) : j \in 0 .. layer - LayerOf[c] - 1} = {}
    BY <1>1, <2>8
  <2>11. SplitTo(c, layer, c)
    BY <1>1, <2>1, <2>8, <2>9, <2>10 DEF SplitTo
  <2> QED BY <2>2, <2>4, <2>9, <2>11
<1>3. CASE ~search_up
  <2>1. Chosen = {idx}
    BY <1>1, <1>3, DescendingIs, ChosenDown
  <2>2. \E c \in Node : SplitTo(c, layer, Number(layer, idx))
    BY <1>3 DEF Searching, Descending
  <2> QED BY <1>1, <2>1, <2>2
<1> QED BY <1>2, <1>3

LEMMA ContinueStep ==
    ASSUME Searching, IsPool(before), Continue
    PROVE  Searching'
<1>1. /\ layer \in 0 .. Layers - 1 /\ idx \in Nat /\ idx % 2 = 0 /\ idx < Pow2(layer)
      /\ layer \in 0 .. 15
  BY SearchLayers, TreeAssumption DEF Searching, Continue, InFor
<1>2. /\ Chosen = {} /\ idx' = idx + 2
      /\ UNCHANGED <<bits, arg, layer, min_layer, search_up, before>>
  BY DEF Continue
<1>3. search_up
  BY <1>1, <1>2, DescendingIs, ChosenDown
<1>4. Climbing
  BY <1>3 DEF Searching
<1>5. \A n \in Candidates(before, layer) : n >= Number(layer, idx + 2)
  <2> SUFFICES ASSUME NEW n \in Candidates(before, layer)
               PROVE  n >= Number(layer, idx + 2)
    OBVIOUS
  <2>1. n \in Nat /\ n >= Number(layer, idx) /\ n \in Candidates(bits, layer)
    BY <1>1, <1>4, LayerIs, NodeIsNat DEF Climbing, Candidates
  <2>2. n # Number(layer, idx) /\ n # Number(layer, idx) + 1
    BY <1>1, <1>2, <1>3, <2>1, ChosenUp
  <2>3. PICK p \in Nat : p = Pow2(layer)
    BY <1>1, Pow2Table
  <2>4. Number(layer, idx) = p + idx /\ Number(layer, idx + 2) = p + idx + 2
    BY <1>1, <2>3, NumberIs
  <2> QED BY <1>1, <2>1, <2>2, <2>4
<1>6. Climbing'
  <2>1. Number(layer, idx)' = Number(layer, idx + 2)
    BY <1>2 DEF Number
  <2> QED BY <1>2, <1>4, <1>5, <2>1 DEF Climbing
<1>7. idx' \in Nat /\ idx' % 2 = 0
  BY <1>1, <1>2
<1>8. search_up'
  BY <1>2, <1>3
<1> QED BY <1>2, <1>6, <1>7, <1>8 DEF Searching

(* The next layer up, or no block at all.                                  *)
LEMMA LayerDoneStep ==
    ASSUME Searching, IsPool(before), LayerDone
    PROVE  \/ pc' = "top" /\ Searching'
           \/ pc' = "returned" /\ SearchIsAlloc'
<1>1. /\ layer \in 0 .. Layers - 1 /\ idx \in Nat /\ idx >= Pow2(layer)
      /\ layer \in 0 .. 14 /\ layer \in 0 .. 15 /\ layer \in Nat
      /\ min_layer \in Nat /\ min_layer \in 0 .. Layers - 1 /\ layer <= min_layer
  BY SearchLayers, TreeAssumption DEF Searching, LayerDone
<1>2. PICK p \in Nat : p = Pow2(layer) /\ Pow2(layer + 1) = 2 * p
  BY <1>1, Pow2Table
<1>3. search_up
  BY <1>1, <1>2, DescendingIs
<1>4. Climbing
  BY <1>3 DEF Searching
<1>5. Candidates(before, layer) = {}
  <2> SUFFICES ASSUME NEW n \in Candidates(before, layer) PROVE FALSE
    OBVIOUS
  <2>1. n >= Number(layer, idx)
    BY <1>4 DEF Climbing
  <2>2. n \in At(layer)
    BY DEF Candidates
  <2>3. Number(layer, idx) = p + idx
    BY <1>1, <1>2, NumberIs
  <2> QED BY <1>1, <1>2, <2>1, <2>2, <2>3, TreeAssumption DEF At
<1>6. \A k \in layer .. min_layer : Candidates(before, k) = {}
  <2> SUFFICES ASSUME NEW k \in layer .. min_layer PROVE Candidates(before, k) = {}
    OBVIOUS
  <2>1. k = layer \/ k \in layer + 1 .. min_layer
    BY <1>1
  <2> QED BY <1>4, <1>5, <2>1 DEF Climbing
<1>7. UNCHANGED <<bits, arg, min_layer, search_up, before>>
      /\ idx' = 0 /\ layer' = layer - 1
  BY DEF LayerDone
<1>8. CASE layer = 0
  <2>1. pc' = "returned" /\ ret' = 0
    BY <1>8 DEF LayerDone, Return
  <2>2. CandidateLayers(before, arg) = {}
    BY <1>6, <1>8 DEF CandidateLayers, Searching
  <2>3. ~AllocSucceeds(before, arg)
    BY <2>2 DEF AllocSucceeds
  <2>4. bits' = before /\ before' = before /\ arg' = arg
    BY <1>4, <1>7 DEF Climbing
  <2> QED BY <2>1, <2>3, <2>4 DEF SearchIsAlloc
<1>9. CASE layer # 0
  <2>1. pc' = "top"
    BY <1>9 DEF LayerDone
  <2>2. layer - 1 \in 0 .. Layers - 1 /\ layer - 1 \in 0 .. min_layer
        /\ (layer - 1) + 1 = layer /\ layer - 1 \in 0 .. 15 /\ layer - 1 \in 0 .. 13
    BY <1>1, <1>9, TreeAssumption
  <2>3. PICK l : l = layer - 1
    OBVIOUS
  <2>4. \A n \in Candidates(before, l) : n >= Number(l, 0)
    <3>1. l \in 0 .. 15 /\ 0 \in Int
      BY <2>2, <2>3
    <3>2. Number(l, 0) = Pow2(l) + 0 /\ Pow2(l) \in Nat
      BY ONLY <3>1, NumberIs, Pow2Table
    <3> QED BY <3>2 DEF Candidates, At
  <2>5. Number(layer, idx)' = Number(l, 0)
    BY <1>7, <2>3 DEF Number
  <2>6. Climbing'
    BY <1>4, <1>6, <1>7, <2>2, <2>3, <2>4, <2>5 DEF Climbing
  <2> QED BY <1>3, <1>7, <2>1, <2>2, <2>6 DEF Searching
<1> QED BY <1>8, <1>9

LEMMA TakeStep ==
    ASSUME Searching, IsPool(before), Take
    PROVE  pc' = "returned" /\ SearchIsAlloc'
<1>1. PICK i \in Chosen : /\ bits' = bits \cup {Number(layer, i)}
                          /\ Return(Number(layer, i))
  BY DEF Take
<1>2. /\ InFor /\ layer = min_layer /\ layer = MinLayer[arg] /\ layer \in Nat
      /\ arg' = arg /\ before' = before
  BY SearchLayers DEF Take, Searching
<1>3. PICK n : n = Number(layer, i)
  OBVIOUS
<1>4. PICK c \in Node : SplitTo(c, layer, n)
  BY <1>2, <1>3, ChosenIsNext
<1>5. PICK d : d = layer - LayerOf[c]
  OBVIOUS
<1>6. d \in Nat
  BY <1>2, <1>4, <1>5, LayerIsNat DEF SplitTo
<1>7. /\ n = Down(c, d) /\ bits = before \cup {Down(c, j) : j \in 0 .. d - 1}
      /\ AllocSucceeds(before, arg)
      /\ AllocPath(before, arg) = {Down(c, j) : j \in 0 .. d}
      /\ AllocNode(before, arg) = Down(c, d)
  BY <1>2, <1>4, <1>5 DEF SplitTo, WayDown
<1>8. {Down(c, j) : j \in 0 .. d} = {Down(c, j) : j \in 0 .. d - 1} \cup {Down(c, d)}
  <2>1. \A j \in 0 .. d : j \in 0 .. d - 1 \/ j = d
    BY <1>6
  <2>2. \A j \in 0 .. d - 1 : j \in 0 .. d
    BY <1>6
  <2>3. d \in 0 .. d
    BY <1>6
  <2> QED BY <2>1, <2>2, <2>3
<1>9. ret' = n /\ pc' = "returned" /\ bits' = AllocBits(before, arg)
  BY <1>1, <1>3, <1>7, <1>8 DEF Return, AllocBits
<1> QED BY <1>2, <1>7, <1>9 DEF SearchIsAlloc

LEMMA GoDeeperStep ==
    ASSUME Searching, IsPool(before), GoDeeper
    PROVE  Searching'
<1>1. PICK i \in Chosen : bits' = bits \cup {Number(layer, i)} /\ idx' = i * 2
  BY DEF GoDeeper
<1>2. /\ InFor /\ layer # min_layer /\ layer' = layer + 1 /\ search_up' = FALSE
      /\ UNCHANGED <<arg, min_layer, before>>
  BY DEF GoDeeper
<1>3. /\ layer \in Nat /\ min_layer \in Nat /\ layer \in 0 .. Layers - 1
      /\ layer + 1 \in 0 .. min_layer /\ min_layer \in 0 .. Layers - 1
      /\ layer \in 0 .. 14 /\ layer \in 0 .. 15 /\ layer + 1 \in 0 .. 15
  BY <1>2, SearchLayers, TreeAssumption
<1>4. PICK n : n = Number(layer, i)
  OBVIOUS
<1>5. i \in Nat /\ \E c \in Node : SplitTo(c, layer, n)
  BY <1>2, <1>4, ChosenIsNext
<1>6. PICK c \in Node : SplitTo(c, layer, n)
  BY <1>5
<1>7. PICK l : l = layer + 1
  OBVIOUS
<1>8. PICK d : d = layer - LayerOf[c]
  OBVIOUS
<1>9. /\ d \in 0 .. 13 /\ LayerOf[c] \in Nat /\ l - LayerOf[c] = d + 1
      /\ LayerOf[c] < l
  BY <1>3, <1>6, <1>7, <1>8, LayerIsNat, TreeAssumption DEF SplitTo
<1>10. Number(l, i * 2) = Down(c, d + 1)
  <2>1. PICK p \in Nat : p = Pow2(layer) /\ Pow2(l) = 2 * p
    BY <1>3, <1>7, Pow2Table
  <2>2. n = p + i
    BY <1>3, <1>4, <1>5, <2>1, NumberIs
  <2>3. Number(l, i * 2) = 2 * p + i * 2
    BY <1>3, <1>5, <1>7, <2>1, NumberIs
  <2>4. n = Down(c, d)
    BY <1>6, <1>8 DEF SplitTo
  <2>5. Down(c, d + 1) = 2 * n
    BY <1>9, <2>4, DownStep
  <2> QED BY <1>5, <2>2, <2>3, <2>5
<1>11. bits' = before \cup {Down(c, j) : j \in 0 .. d}
  <2>1. bits = before \cup {Down(c, j) : j \in 0 .. d - 1} /\ n = Down(c, d)
    BY <1>6, <1>8 DEF SplitTo
  <2>2. \A j \in 0 .. d : j \in 0 .. d - 1 \/ j = d
    BY <1>9
  <2>3. (\A j \in 0 .. d - 1 : j \in 0 .. d) /\ d \in 0 .. d
    BY <1>9
  <2> QED BY <1>1, <1>4, <2>1, <2>2, <2>3
<1>12. Descending'
  <2>1. WayDown(before, arg, c)'
    BY <1>2, <1>6 DEF SplitTo, WayDown
  <2>2. l - LayerOf[c] - 1 = d /\ LayerOf[c] <= l
    BY <1>3, <1>7, <1>9
  <2>3. Number(layer, idx)' = Down(c, l - LayerOf[c])
    BY <1>1, <1>2, <1>7, <1>9, <1>10 DEF Number
  <2>4. bits' = before' \cup {Down(c, j) : j \in 0 .. l - LayerOf[c] - 1}
    BY <1>2, <1>11, <2>2
  <2>5. layer' = l
    BY <1>2, <1>7
  <2>6. SplitTo(c, layer, Number(layer, idx))'
    BY <2>1, <2>2, <2>3, <2>4, <2>5 DEF SplitTo
  <2> QED BY <1>9, <2>5, <2>6 DEF Descending
<1>13. idx' \in Nat /\ idx' % 2 = 0
  BY <1>1, <1>5
<1>14. ~search_up'
  BY <1>2
<1> QED BY <1>2, <1>3, <1>12, <1>13, <1>14 DEF Searching

LEMMA TopOfLoopStep ==
    ASSUME Searching, IsPool(before), TopOfLoop
    PROVE  \/ pc' = "for" /\ Searching'
           \/ pc' = "returned" /\ SearchIsAlloc'
<1>1. UNCHANGED <<bits, arg, layer, idx, min_layer, search_up, before>>
  BY DEF TopOfLoop
<1>2. CASE ~(layer <= 1 /\ IsSet(1, 0) /\ IsSet(1, 1))
  <2>1. pc' = "for"
    BY <1>2 DEF TopOfLoop
  <2>2. Searching'
    BY <1>1 DEF Searching, Climbing, Descending, SplitTo, WayDown, Number
  <2> QED BY <2>1, <2>2
<1>3. CASE layer <= 1 /\ IsSet(1, 0) /\ IsSet(1, 1)
  <2>1. pc' = "returned" /\ ret' = 0
    BY <1>3 DEF TopOfLoop, Return
  <2>2. 1 \in 0 .. 15 /\ 1 \in 0 .. 13 /\ 0 \in 0 .. 14 /\ Layers \in 2 .. 14
        /\ 1 \in 0 .. Layers - 1 /\ 0 \in 0 .. Layers - 1
    BY TreeAssumption
  <2>3. Pow2(0) = 1 /\ Pow2(1) = 2 /\ Pow2(2) = 4
    BY DEF Pow2, buddy_layers
  <2>4. 2 \in bits /\ 3 \in bits
    BY <1>3, <2>2, <2>3, NumberIs DEF IsSet
  <2>5. At(0) = {1} /\ At(1) = {2, 3}
    BY <2>3 DEF At
  <2>6. 2 \in Node /\ 3 \in Node /\ LayerOf[2] = 1 /\ LayerOf[3] = 1 /\ Parent(2) = 1
    BY <2>2, <2>5, LayerIs DEF Parent
  <2>7. search_up
    <3> SUFFICES ASSUME ~search_up PROVE FALSE
      OBVIOUS
    <3>1. PICK c \in Node : SplitTo(c, layer, Number(layer, idx)) /\ LayerOf[c] < layer
      BY DEF Searching, Descending
    <3>2. layer = 1 /\ LayerOf[c] = 0 /\ c = 1
      BY <1>3, <3>1, SearchLayers, LayerIsNat, RootLayer
    <3>3. 1 \notin before
      BY <3>1, <3>2 DEF SplitTo, WayDown
    <3>4. 2 \notin before
      BY <2>6, <3>3 DEF IsPool, IsTree
    <3>5. bits = before \cup {Down(1, j) : j \in 0 .. 0}
      BY <3>1, <3>2 DEF SplitTo
    <3>6. Down(1, 0) = 1
      BY <2>3 DEF Down
    <3> QED BY <2>4, <3>4, <3>5, <3>6
  <2>8. Climbing /\ bits = before
    BY <2>7 DEF Searching, Climbing
  <2>9. 1 \in before
    BY <2>4, <2>6, <2>8 DEF IsPool, IsTree
  <2>10. Candidates(before, 0) = {} /\ Candidates(before, 1) = {}
    BY <2>4, <2>5, <2>8, <2>9 DEF Candidates
  <2>11. \A k \in 0 .. min_layer : Candidates(before, k) = {}
    <3> SUFFICES ASSUME NEW k \in 0 .. min_layer PROVE Candidates(before, k) = {}
      OBVIOUS
    <3>1. k = 0 \/ k = 1 \/ k \in layer + 1 .. min_layer
      BY <1>3, SearchLayers
    <3> QED BY <2>8, <2>10, <3>1 DEF Climbing
  <2>12. ~AllocSucceeds(before, arg)
    BY <2>11 DEF AllocSucceeds, CandidateLayers, Searching
  <2> QED BY <1>1, <2>1, <2>8, <2>12 DEF SearchIsAlloc
<1> QED BY <1>2, <1>3

LEMMA CallAllocStep ==
    ASSUME IsPool(bits), NEW size \in Request, CallAlloc(size)
    PROVE  /\ before' = bits /\ bits' = bits /\ arg' = size
           /\ \/ pc' = "top" /\ Searching'
              \/ pc' = "returned" /\ SearchIsAlloc'
<1>1. before' = bits /\ bits' = bits /\ arg' = size
  BY DEF CallAlloc
<1>2. /\ Layers \in 2 .. 14 /\ BlockSize(0) = Pow2(Layers - 1)
      /\ Pow2(Layers - 1) \in Nat /\ size \in Nat
  <2>1. Layers - 1 - 0 = Layers - 1 /\ Layers - 1 \in 0 .. 15
    BY TreeAssumption
  <2>2. Pow2(Layers - 1) \in Nat
    BY <2>1, Pow2Table
  <2> QED BY <2>1, <2>2, TreeAssumption DEF BlockSize, Request
<1>3. CASE size > BlockSize(0)
  <2>1. ret' = 0 /\ pc' = "returned"
    BY <1>3 DEF CallAlloc, Return
  <2>2. ~AllocSucceeds(bits, size)
    BY <1>2, <1>3 DEF AllocSucceeds, CandidateLayers
  <2> QED BY <1>1, <2>1, <2>2 DEF SearchIsAlloc
<1>4. CASE IsSet(0, 0) /\ ~(IsSet(1, 0) \/ IsSet(1, 1))
  <2>1. ret' = 0 /\ pc' = "returned"
    BY <1>4 DEF CallAlloc, Return
  <2>2. Number(0, 0) = 1 /\ Number(1, 0) = 2 /\ Number(1, 1) = 3
    BY DEF Number, buddy_layers
  <2>3. 1 \in bits /\ 2 \notin bits /\ 3 \notin bits
    BY <1>4, <2>2 DEF IsSet
  <2>4. ASSUME NEW l, NEW n \in Candidates(bits, l), n \in Nat PROVE FALSE
    <3>1. n # 1 /\ Parent(n) \in bits /\ BuddyOf(n) \in bits /\ n \notin bits
      BY <2>3, <2>4 DEF Candidates
    <3>2. BuddyOf(n) \in Node /\ BuddyOf(n) # 1
      <4>1. BuddyOf(n) \in Node
        BY <3>1 DEF IsPool
      <4>2. CASE BuddyOf(n) = 1
        <5>1. n = 0
          BY <2>4, <3>1, <4>2 DEF BuddyOf
        <5>2. Parent(n) = 0
          BY <5>1 DEF Parent
        <5> QED BY <3>1, <5>2, NodeIsNat DEF IsPool
      <4> QED BY <4>1, <4>2
    <3>3. PICK x \in Ancestors(BuddyOf(n)) : /\ x = 2 * 1 \/ x = 2 * 1 + 1
                                             /\ x # 1
      BY <3>2, NodeIsNat, RootIsAncestor, HalfIsAncestor
    <3>4. x \in bits
      BY <3>1, <3>3, TreeIsClosed DEF IsPool
    <3> QED BY <2>3, <3>3, <3>4
  <2>5. ~AllocSucceeds(bits, size)
    <3> SUFFICES ASSUME AllocSucceeds(bits, size) PROVE FALSE
      OBVIOUS
    <3>1. size \in 0 .. Pow2(Layers - 1)
      BY <1>2 DEF AllocSucceeds, CandidateLayers
    <3>2. PICK L \in 0 .. Layers - 1 : L = MinLayer[size]
      BY <3>1, MinLayerIs
    <3>3. PICK l \in 0 .. L : Candidates(bits, l) # {}
      BY <3>2 DEF AllocSucceeds, CandidateLayers
    <3>4. l \in 0 .. Layers - 1
      BY <1>2, <3>2, <3>3
    <3>5. \A n \in Candidates(bits, l) : n \in Nat
      BY <3>4, LayerIs, NodeIsNat DEF Candidates
    <3> QED BY <2>4, <3>3, <3>5
  <2> QED BY <1>1, <2>1, <2>5 DEF SearchIsAlloc
<1>5. CASE ~(size > BlockSize(0)) /\ ~(IsSet(0, 0) /\ ~(IsSet(1, 0) \/ IsSet(1, 1)))
  <2>1. /\ min_layer' = MinLayer[size] /\ layer' = MinLayer[size]
        /\ idx' = 0 /\ search_up' = TRUE /\ pc' = "top"
    BY <1>5 DEF CallAlloc
  <2>2. size \in 0 .. Pow2(Layers - 1)
    BY <1>2, <1>5
  <2>3. PICK L \in 0 .. Layers - 1 : L = MinLayer[size]
    BY <2>2, MinLayerIs
  <2>4. L \in Nat /\ L \in 0 .. 15 /\ L \in 0 .. L /\ L + 1 .. L = {}
    BY <1>2, <2>3
  <2>5. \A n \in Candidates(bits, L) : n >= Number(L, 0)
    <3>1. L \in 0 .. 15 /\ 0 \in Int
      BY <2>4
    <3>2. Number(L, 0) = Pow2(L) + 0 /\ Pow2(L) \in Nat
      BY ONLY <3>1, NumberIs, Pow2Table
    <3> QED BY <3>2 DEF Candidates, At
  <2>6. Number(layer, idx)' = Number(L, 0)
    BY <2>1, <2>3 DEF Number
  <2>7. Climbing'
    BY <1>1, <2>1, <2>3, <2>4, <2>5, <2>6 DEF Climbing
  <2>8. search_up'
    BY <2>1
  <2> QED BY <1>1, <2>1, <2>2, <2>3, <2>4, <2>7, <2>8 DEF Searching
<1> QED BY <1>1, <1>3, <1>4, <1>5

-----------------------------------------------------------------------------
(* The walk of buddy_free                                                  *)

(* No set bit has been seen on the way up from the address.                *)
Finding ==
    /\ arg \in Blocks(before) \ {Reserved}
    /\ bits = before
    /\ layer \in 0 .. Layers - 1
    /\ idx \in Nat /\ idx < Pow2(layer)
    /\ arg \in Ancestors(Number(layer, idx))

(* The bits of the blocks from the freed one up to this are clear.         *)
Merging ==
    /\ arg \in Blocks(before) \ {Reserved}
    /\ layer \in 0 .. Layers - 1
    /\ idx \in Nat /\ idx < Pow2(layer)
    /\ Number(layer, idx) \in Ancestors(arg)
    /\ MergedInto(before, arg) <= Number(layer, idx)
    /\ bits = before \ {x \in Ancestors(arg) : LayerOf[x] >= layer}

LEMMA CallFreeStep ==
    ASSUME IsPool(bits), NEW n \in Node, CallFree(n)
    PROVE  pc' = "find" /\ before' = bits /\ Finding'
<1>1. /\ n \in Blocks(bits) \ {Reserved} /\ arg' = n /\ before' = bits /\ bits' = bits
      /\ layer' = Layers - 1 /\ idx' = Min(Leaves[n]) /\ pc' = "find"
  BY DEF CallFree, MayFree
<1>2. PICK l : l = Layers - 1
  OBVIOUS
<1>3. PICK i : i = Min(Leaves[n])
  OBVIOUS
<1>4. l \in 0 .. Layers - 1 /\ l \in 0 .. 15 /\ Pow2(l) \in Nat
  <2>1. l \in 0 .. Layers - 1 /\ l \in 0 .. 15
    BY <1>2, TreeAssumption
  <2> QED BY <2>1, Pow2Table
<1>5. i \in Nat /\ i < Pow2(l)
  <2>1. Leaves[n] # {} /\ Leaves[n] \subseteq 0 .. Pow2(l) - 1
    BY <1>2, LeavesExist
  <2>2. i \in Leaves[n]
    BY <1>3, <1>4, <2>1, MinIs
  <2> QED BY <1>4, <2>1, <2>2
<1>6. Number(l, i) = FirstLeaf(n)
  <2>1. Number(l, i) = Pow2(l) + i
    BY <1>4, <1>5, NumberIs
  <2> QED BY <1>2, <1>3, <2>1 DEF FirstLeaf
<1>7. n \in Ancestors(Number(l, i))
  BY <1>6, FirstLeafIsInside
<1>8. Number(layer, idx)' = Number(l, i)
  BY <1>1, <1>2, <1>3 DEF Number
<1> QED BY <1>1, <1>2, <1>3, <1>4, <1>5, <1>7, <1>8 DEF Finding

LEMMA FindStepStep ==
    ASSUME IsPool(before), Finding, FindStep
    PROVE  \/ pc' = pc /\ Finding'
           \/ pc' = "merge" /\ Merging'
<1>1. PICK m : m = Number(layer, idx)
  OBVIOUS
<1>2. PICK a : a = arg
  OBVIOUS
<1>3. /\ layer \in 0 .. Layers - 1 /\ layer \in Nat /\ idx \in Nat /\ idx < Pow2(layer)
      /\ a \in Ancestors(m) /\ bits = before /\ a \in Blocks(before) \ {Reserved}
      /\ a \in before /\ a \in Node
  BY <1>1, <1>2 DEF Finding, Blocks, IsPool
<1>4. m \in Node /\ LayerOf[m] = layer
  BY <1>1, <1>3, BlockIs
<1>5. UNCHANGED <<arg, before>>
  BY DEF FindStep
<1>6. CASE m \in bits
  <2>1. bits' = bits \ {m} /\ pc' = "merge" /\ UNCHANGED <<layer, idx>>
    BY <1>1, <1>6 DEF FindStep, IsSet
  <2>2. m = a
    <3> SUFFICES ASSUME m # a PROVE FALSE
      OBVIOUS
    <3>1. PICK x \in Ancestors(m) : x = 2 * a \/ x = 2 * a + 1
      BY <1>3, <1>4, HalfIsAncestor
    <3>2. x \in before
      BY <1>3, <1>6, <3>1, TreeIsClosed DEF IsPool
    <3> QED BY <1>3, <3>1, <3>2 DEF Blocks
  <2>3. a \in Ancestors(a)
    BY <1>3, RootIsAncestor
  <2>4. MergedInto(before, a) <= a
    BY <1>3, MergedIs, AncestorNotGreater DEF IsPool
  <2>5. {x \in Ancestors(a) : LayerOf[x] >= layer} = {a}
    <3>1. ASSUME NEW x \in Ancestors(a), LayerOf[x] >= layer PROVE x = a
      BY <1>3, <1>4, <2>2, <3>1, AncestorIs, LayerIsNat
    <3> QED BY <1>3, <1>4, <2>2, <2>3, <3>1
  <2>6. Number(layer, idx)' = m
    BY <1>1, <2>1 DEF Number
  <2> QED BY <1>2, <1>3, <1>5, <2>1, <2>2, <2>3, <2>4, <2>5, <2>6 DEF Merging
<1>7. CASE m \notin bits
  <2>1. layer' = layer - 1 /\ idx' = idx \div 2 /\ UNCHANGED <<bits, pc>>
    BY <1>1, <1>7 DEF FindStep, IsSet
  <2>2. m # a /\ LayerOf[a] < LayerOf[m]
    BY <1>3, <1>4, <1>7, AncestorIs
  <2>3. m # 1
    BY <1>3, <2>2, LayerIsNat, RootLayer
  <2>4. layer \in 1 .. Layers - 1 /\ layer - 1 \in 0 .. Layers - 1
    BY <1>3, <1>4, <2>3, RootLayer, TreeAssumption
  <2>5. /\ idx \div 2 \in Nat /\ idx \div 2 < Pow2(layer - 1)
        /\ Number(layer - 1, idx \div 2) = Parent(m)
    BY <1>1, <1>3, <2>4, ParentBlock
  <2>6. PICK p : p = Parent(m)
    OBVIOUS
  <2>7. p \in Ancestors(m) /\ LayerOf[p] = layer - 1 /\ LayerOf[a] \in Nat
    BY <1>3, <1>4, <2>3, <2>6, RootIsAncestor, ParentIsAncestor, ParentOfHalf, LayerIsNat
  <2>8. LayerOf[a] <= LayerOf[p]
    BY <1>3, <1>4, <2>2, <2>7
  <2>9. a \in Ancestors(p)
    BY <1>3, <1>4, <2>7, <2>8, AncestorsAreChain
  <2>10. Number(layer, idx)' = p
    BY <2>1, <2>5, <2>6 DEF Number
  <2> QED BY <1>2, <1>3, <1>5, <2>1, <2>4, <2>5, <2>9, <2>10 DEF Finding
<1> QED BY <1>6, <1>7

(* The block that the heap keeps is on the other side of some block of the *)
(* walk: it ends below the root.                                           *)
LEMMA MergeIsBelowRoot ==
    ASSUME IsPool(before), NEW a \in Blocks(before) \ {Reserved}
    PROVE  MergedInto(before, a) # 1
<1>1. Reserved \in Blocks(before) /\ Reserved \in Node
  BY DEF IsPool, Blocks
<1>2. SUFFICES ASSUME MergedInto(before, a) = 1 PROVE FALSE
  OBVIOUS
<1>3. Leaves[Reserved] \cap Leaves[1] = {}
  BY <1>1, <1>2, MergedIsApart DEF IsPool
<1>4. Leaves[Reserved] \subseteq Leaves[1]
  BY <1>1, RootIsAncestor, LeavesOfAncestor
<1> QED BY <1>1, <1>3, <1>4, LeavesExist

LEMMA MergeStepStep ==
    ASSUME IsPool(before), Merging, MergeStep
    PROVE  \/ pc' = pc /\ Merging'
           \/ pc' = "freed" /\ WalkIsFree' /\ UNCHANGED <<before, arg>>
              /\ arg \in Blocks(before) \ {Reserved}
<1>1. PICK m : m = Number(layer, idx)
  OBVIOUS
<1>2. PICK a : a = arg
  OBVIOUS
<1>3. PICK M : M = MergedInto(before, a)
  OBVIOUS
<1>4. /\ layer \in 0 .. Layers - 1 /\ layer \in Nat /\ idx \in Nat /\ idx < Pow2(layer)
      /\ a \in Blocks(before) \ {Reserved} /\ a \in before /\ a \in Node
      /\ before \subseteq Node /\ IsTree(before)
      /\ m \in Ancestors(a) /\ M <= m
      /\ bits = before \ {x \in Ancestors(a) : LayerOf[x] >= layer}
  BY <1>1, <1>2, <1>3 DEF Merging, Blocks, IsPool
<1>5. m \in Node /\ LayerOf[m] = layer /\ m \in Nat /\ m >= 1
  BY <1>1, <1>4, BlockIs, NodeIsNat
<1>6. /\ M \in Ancestors(a) /\ M \in Node /\ M \in Nat /\ M # 1 /\ M >= 1
      /\ BuddyOf(M) \in before
      /\ \A x \in Ancestors(a) \ {1} : BuddyOf(x) \in before => x <= M
  BY <1>3, <1>4, MergedIs, MergeIsBelowRoot, AncestorIs, NodeIsNat
<1>7. m # 1
  BY <1>4, <1>5, <1>6
<1>8. layer \in 1 .. Layers - 1 /\ layer - 1 \in 0 .. Layers - 1 /\ layer >= 0
      /\ layer - 1 >= 0
  BY <1>4, <1>5, <1>7, RootLayer, TreeAssumption
<1>9. UNCHANGED <<arg, before>>
  BY DEF MergeStep
<1>10. m \notin bits /\ (BuddyOf(m) \in bits <=> BuddyOf(m) \in before)
  <2>1. m \notin bits
    BY <1>4, <1>5
  <2>2. BuddyOf(m) # m
    BY <1>5 DEF BuddyOf
  <2>3. ASSUME BuddyOf(m) \in before PROVE BuddyOf(m) \in bits
    <3>1. PICK y : y = BuddyOf(m)
      OBVIOUS
    <3>2. LayerOf[y] = layer
      <4>1. m = 2 * Parent(m) \/ m = 2 * Parent(m) + 1
        BY <1>5, <1>7, ParentOfHalf
      <4>2. PICK p : p = Parent(m)
        OBVIOUS
      <4>3. p \in Node /\ LayerOf[p] = layer - 1 /\ p \in Nat
        BY <1>5, <1>7, <4>2, ParentOfHalf, NodeIsNat
      <4>4. y = 2 * p \/ y = 2 * p + 1
        BY <3>1, <4>1, <4>2, <4>3, BuddyIsOtherHalf
      <4>5. LayerOf[p] < Layers - 1 /\ (layer - 1) + 1 = layer
        BY <1>4, <4>3, TreeAssumption
      <4> QED BY <4>3, <4>4, <4>5, Halves
    <3>3. y \notin Ancestors(a)
      BY <1>4, <1>5, <2>2, <3>1, <3>2, OneAncestorPerLayer
    <3> QED BY <1>4, <2>3, <3>1, <3>3
  <2> QED BY <1>4, <2>1, <2>3
<1>11. HalvesClear <=> BuddyOf(m) \notin before
  <2>1. CASE idx % 2 = 0
    <3>1. idx - (idx % 2) = idx
      BY <1>4, <2>1
    <3>2. Number(layer, idx + 1) = BuddyOf(m)
      BY <1>1, <1>4, <1>8, <2>1, OtherHalfBlock
    <3>3. HalvesClear <=> ~(m \in bits \/ BuddyOf(m) \in bits)
      BY <1>1, <3>1, <3>2 DEF HalvesClear, IsSet
    <3> QED BY <1>10, <3>3
  <2>2. CASE idx % 2 = 1
    <3>1. idx - (idx % 2) = idx - 1 /\ (idx - 1) + 1 = idx
      BY <1>4, <2>2
    <3>2. Number(layer, idx - 1) = BuddyOf(m)
      BY <1>1, <1>4, <1>8, <2>2, OtherHalfBlock
    <3>3. HalvesClear <=> ~(BuddyOf(m) \in bits \/ m \in bits)
      BY <1>1, <3>1, <3>2 DEF HalvesClear, IsSet
    <3> QED BY <1>10, <3>3
  <2>3. idx % 2 = 0 \/ idx % 2 = 1
    BY <1>4
  <2> QED BY <2>1, <2>2, <2>3
<1>12. CASE BuddyOf(m) \notin before
  <2>1. PICK p : p = Parent(m)
    OBVIOUS
  <2>2. /\ layer' = layer - 1 /\ idx' = idx \div 2 /\ pc' = pc
        /\ bits' \in Cleared(layer - 1, idx \div 2)
    BY <1>8, <1>11, <1>12 DEF MergeStep
  <2>3. /\ idx \div 2 \in Nat /\ idx \div 2 < Pow2(layer - 1)
        /\ Number(layer - 1, idx \div 2) = p
    BY <1>1, <1>4, <1>8, <2>1, ParentBlock
  <2>4. bits' = bits \ {p}
    BY <1>8, <2>2, <2>3 DEF Cleared
  <2>5. p \in Ancestors(a) /\ p \in Node /\ LayerOf[p] = layer - 1 /\ p \in Nat
    BY <1>4, <1>5, <1>7, <2>1, ParentIsAncestor, ParentOfHalf, NodeIsNat
  <2>6. M <= p
    <3>1. M # m
      BY <1>6, <1>12
    <3>2. LayerOf[M] \in Nat
      BY <1>6, LayerIsNat
    <3>3. LayerOf[M] < layer
      <4>1. CASE LayerOf[M] = layer
        BY <1>4, <1>5, <1>6, <3>1, <4>1, OneAncestorPerLayer
      <4>2. CASE LayerOf[M] > layer
        BY <1>4, <1>5, <1>6, <3>1, <4>2, LayerGrows
      <4> QED BY <1>4, <3>2, <4>1, <4>2
    <3>4. CASE LayerOf[M] = layer - 1
      BY <1>4, <1>6, <2>5, <3>4, OneAncestorPerLayer
    <3>5. CASE LayerOf[M] < layer - 1
      BY <1>6, <2>5, <3>5, LayerGrows
    <3> QED BY <1>4, <3>2, <3>3, <3>4, <3>5
  <2>7. bits' = before \ {x \in Ancestors(a) : LayerOf[x] >= layer - 1}
    <3>1. ASSUME NEW x \in Ancestors(a)
          PROVE  LayerOf[x] >= layer - 1 <=> LayerOf[x] >= layer \/ x = p
      <4>1. LayerOf[x] \in Nat
        BY <1>4, AncestorIs, LayerIsNat
      <4>2. LayerOf[x] = layer - 1 => x = p
        BY <1>4, <2>5, OneAncestorPerLayer
      <4> QED BY <1>4, <2>5, <4>1, <4>2
    <3> QED BY <1>4, <2>4, <2>5, <3>1
  <2>8. Number(layer, idx)' = p
    BY <2>2, <2>3 DEF Number
  <2> QED BY <1>2, <1>3, <1>4, <1>8, <1>9, <2>2, <2>3, <2>5, <2>6, <2>7, <2>8 DEF Merging
<1>13. CASE BuddyOf(m) \in before
  <2>1. pc' = "freed" /\ UNCHANGED <<layer, idx, bits>>
    BY <1>11, <1>13 DEF MergeStep
  <2>2. m = M
    BY <1>4, <1>5, <1>6, <1>7, <1>13
  <2>3. \A x \in Ancestors(a) : LayerOf[x] >= layer <=> x >= M
    <3> SUFFICES ASSUME NEW x \in Ancestors(a)
                 PROVE  LayerOf[x] >= layer <=> x >= M
      OBVIOUS
    <3>1. x \in Node /\ x \in Nat /\ LayerOf[x] \in Nat
      BY <1>4, AncestorIs, LayerIsNat, NodeIsNat
    <3>2. CASE LayerOf[x] = layer
      BY <1>4, <1>5, <1>6, <2>2, <3>1, <3>2, OneAncestorPerLayer
    <3>3. CASE LayerOf[x] < layer
      BY <1>4, <1>5, <1>6, <2>2, <3>1, <3>3, LayerGrows
    <3>4. CASE LayerOf[x] > layer
      BY <1>4, <1>5, <1>6, <2>2, <3>1, <3>4, LayerGrows
    <3> QED BY <1>4, <3>1, <3>2, <3>3, <3>4
  <2>4. bits = FreeBits(before, a)
    <3>1. FreeBits(before, a) = before \ {x \in Ancestors(a) : x >= M}
      BY <1>3, <1>4, FreeBitsAre
    <3> QED BY <1>4, <2>3, <3>1
  <2>5. Number(layer, idx)' = m
    BY <1>1, <2>1 DEF Number
  <2>6. WalkIsFree'
    BY <1>2, <1>3, <1>9, <2>1, <2>2, <2>4, <2>5 DEF WalkIsFree
  <2> QED BY <1>2, <1>4, <1>9, <2>1, <2>6
<1> QED BY <1>12, <1>13

-----------------------------------------------------------------------------
(* The first request, and what a call leaves                               *)

LEMMA ReservedSize ==
    /\ BlockSize(ReservedLayer) \in 0 .. Pow2(Layers - 1)
    /\ BlockSize(ReservedLayer) \in Request
    /\ MinLayer[BlockSize(ReservedLayer)] = ReservedLayer
<1>1. /\ Layers \in 2 .. 14 /\ ReservedLayer \in 1 .. Layers - 1
      /\ ReservedLayer \in 0 .. Layers - 1
  BY TreeAssumption
<1>2. PICK r : r = ReservedLayer
  OBVIOUS
<1>3. PICK s : s = BlockSize(r)
  OBVIOUS
<1>4. \A l \in 0 .. Layers - 1 : BlockSize(l) \in Nat \ {0}
  BY BlockSizes
<1>5. \A i, j \in 0 .. Layers - 1 : i < j => BlockSize(j) < BlockSize(i)
  <2> SUFFICES ASSUME NEW i \in 0 .. Layers - 1, NEW j \in 0 .. Layers - 1, i < j
               PROVE  BlockSize(j) < BlockSize(i)
    OBVIOUS
  <2>1. PICK x \in 0 .. 14 : x = Layers - 1 - j
    BY <1>1
  <2>2. PICK y \in 0 .. 14 : y = Layers - 1 - i
    BY <1>1
  <2>3. x < y
    BY <1>1, <2>1, <2>2
  <2>4. Pow2(x + 1) <= Pow2(y) /\ Pow2(x + 1) = 2 * Pow2(x) /\ Pow2(x) \in Nat \ {0}
        /\ Pow2(y) \in Nat
    BY <2>3, Pow2Grows, Pow2Table
  <2> QED BY <2>1, <2>2, <2>4 DEF BlockSize
<1>6. s \in Nat \ {0} /\ s < Pow2(Layers - 1) /\ Pow2(Layers - 1) \in Nat
  <2>1. BlockSize(0) = Pow2(Layers - 1)
    BY <1>1 DEF BlockSize
  <2>2. 0 < r /\ 0 \in 0 .. Layers - 1 /\ r \in 0 .. Layers - 1
    BY <1>1, <1>2
  <2>3. BlockSize(r) < BlockSize(0) /\ BlockSize(0) \in Nat /\ BlockSize(r) \in Nat \ {0}
    BY <1>4, <1>5, <2>2
  <2> QED BY <1>3, <2>1, <2>3
<1>7. s \in 0 .. Pow2(Layers - 1) /\ s \in Request
  BY <1>6 DEF Request
<1> DEFINE Fits(l) == BlockSize(l) >= s /\ (l < Layers - 1 => BlockSize(l + 1) < s)
<1>8. r \in 0 .. Layers - 1 /\ Fits(r)
  <2>1. r < Layers - 1 => BlockSize(r + 1) < BlockSize(r)
    <3>1. r < Layers - 1 => r + 1 \in 0 .. Layers - 1 /\ r < r + 1 /\ r \in 0 .. Layers - 1
      BY <1>1, <1>2
    <3> QED BY <1>5, <3>1
  <2> QED BY <1>1, <1>2, <1>3, <1>6, <2>1
<1>9. \A l \in 0 .. Layers - 1 : Fits(l) => l = r
  <2> SUFFICES ASSUME NEW l \in 0 .. Layers - 1, Fits(l) PROVE l = r
    OBVIOUS
  <2>1. CASE l < r
    <3>1. l + 1 \in 0 .. Layers - 1 /\ l < Layers - 1
          /\ (l + 1 = r \/ l + 1 < r)
      BY <1>1, <1>8, <2>1
    <3>2. BlockSize(l + 1) >= s
      BY <1>3, <1>4, <1>5, <1>6, <1>8, <3>1
    <3>3. BlockSize(l + 1) \in Nat /\ BlockSize(l + 1) < s
      BY <1>4, <3>1
    <3> QED BY <1>6, <3>2, <3>3
  <2>2. CASE r < l
    <3>1. BlockSize(l) < s /\ BlockSize(l) >= s /\ BlockSize(l) \in Nat
      BY <1>3, <1>4, <1>5, <1>8, <2>2
    <3> QED BY <1>6, <3>1
  <2> QED BY <1>1, <1>8, <2>1, <2>2
<1>10. MinLayer[s] = CHOOSE l \in 0 .. Layers - 1 : Fits(l)
  BY <1>7 DEF MinLayer
<1> HIDE DEF Fits
<1>11. MinLayer[s] = r
  BY <1>8, <1>9, <1>10
<1> QED BY <1>2, <1>3, <1>7, <1>11

(* It splits the root down to the heap's block.                            *)
LEMMA FirstAlloc ==
    /\ AllocSucceeds({}, BlockSize(ReservedLayer))
    /\ AllocBits({}, BlockSize(ReservedLayer)) = InitialBits
<1>1. PICK s : s = BlockSize(ReservedLayer)
  OBVIOUS
<1>2. s \in 0 .. Pow2(Layers - 1) /\ MinLayer[s] = ReservedLayer
  BY <1>1, ReservedSize
<1>3. Layers \in 2 .. 14 /\ ReservedLayer \in 1 .. Layers - 1
  BY TreeAssumption
<1>4. 1 \in Node /\ LayerOf[1] = 0 /\ 1 \in At(0)
  BY NodeIsNat, RootLayer, LayerDef
<1>5. 1 \in Candidates({}, 0) /\ \A n \in Candidates({}, 0) : n >= 1
  <2>1. \A n \in At(0) : n = 1
    BY <1>3, LayerIs, RootLayer
  <2> QED BY <1>4, <2>1 DEF Candidates
<1>6. \A k \in 1 .. ReservedLayer : Candidates({}, k) = {}
  <2> SUFFICES ASSUME NEW k \in 1 .. ReservedLayer, NEW n \in Candidates({}, k)
               PROVE  FALSE
    OBVIOUS
  <2>1. k \in 0 .. Layers - 1 /\ k # 0
    BY <1>3
  <2>2. LayerOf[n] = k
    BY <2>1, LayerIs DEF Candidates
  <2>3. n = 1
    BY DEF Candidates
  <2> QED BY <1>4, <2>1, <2>2, <2>3
<1>7. WayDown({}, s, 1)
  <2>1. 0 \in 0 .. MinLayer[s] /\ 0 + 1 = 1
    BY <1>2, <1>3
  <2> QED BY <1>2, <1>5, <1>6, <2>1, FirstCandidate
<1>8. AllocPath({}, s) = {Down(1, j) : j \in 0 .. ReservedLayer}
  <2>1. ReservedLayer - 0 = ReservedLayer
    BY <1>3
  <2> QED BY <1>2, <1>4, <1>7, <2>1 DEF WayDown
<1>9. \A j \in 0 .. ReservedLayer : Down(1, j) = Pow2(j)
  <2> SUFFICES ASSUME NEW j \in 0 .. ReservedLayer PROVE Down(1, j) = Pow2(j)
    OBVIOUS
  <2>1. j \in 0 .. 15
    BY <1>3
  <2>2. Pow2(j) \in Nat
    BY <2>1, Pow2Table
  <2> QED BY <2>2 DEF Down
<1>10. AllocPath({}, s) = InitialBits
  BY <1>8, <1>9 DEF InitialBits
<1> QED BY <1>1, <1>7, <1>10 DEF WayDown, AllocBits

LEMMA AfterAlloc ==
    ASSUME NEW b, IsPool(b), NEW size \in Request, AllocSucceeds(b, size),
           b = {} => size = BlockSize(ReservedLayer)
    PROVE  IsPool(AllocBits(b, size)) /\ AllocBits(b, size) # {}
<1>1. CASE b = {}
  <2>1. AllocBits(b, size) = InitialBits
    BY <1>1, FirstAlloc
  <2>2. Reserved \in InitialBits /\ Reserved \in Blocks(InitialBits)
    <3>1. Reserved \in Blocks(InitialBits)
      BY InitialTree
    <3> QED BY <3>1 DEF Blocks
  <2> QED BY <2>1, <2>2, InitialTree DEF IsPool
<1>2. CASE b # {}
  <2>1. Reserved \in Blocks(b) /\ Reserved \in b /\ b \subseteq Node /\ IsTree(b)
    BY <1>2 DEF IsPool, Blocks
  <2>2. 1 \in b
    BY <2>1, TreeIsClosed, RootIsAncestor
  <2>3. PICK B : B = AllocBits(b, size)
    OBVIOUS
  <2>4. /\ B \subseteq Node /\ IsTree(B)
        /\ Blocks(B) = Blocks(b) \cup {AllocNode(b, size)}
    BY <2>1, <2>2, <2>3, AllocIs
  <2>5. Reserved \in Blocks(B) /\ Reserved \in B
    BY <2>1, <2>4 DEF Blocks
  <2> QED BY <2>3, <2>4, <2>5 DEF IsPool
<1> QED BY <1>1, <1>2

LEMMA AfterFree ==
    ASSUME NEW b, IsPool(b), NEW n \in Blocks(b) \ {Reserved}
    PROVE  IsPool(FreeBits(b, n)) /\ FreeBits(b, n) # {}
<1>1. Reserved \in Blocks(b) /\ b \subseteq Node /\ IsTree(b)
  BY DEF IsPool, Blocks
<1>2. PICK B : B = FreeBits(b, n)
  OBVIOUS
<1>3. IsTree(B) /\ B \subseteq Node /\ Blocks(B) = Blocks(b) \ {n}
  BY <1>1, <1>2, FreeKeepsTree, FreeBlocks
<1>4. Reserved \in Blocks(B) /\ Reserved \in B
  BY <1>1, <1>3 DEF Blocks
<1> QED BY <1>2, <1>3, <1>4 DEF IsPool

-----------------------------------------------------------------------------
(* Every call                                                              *)

CallInv ==
    /\ pc \in {"idle", "top", "for", "returned", "find", "merge", "freed"}
    /\ pc = "idle" => IsPool(bits)
    /\ pc # "idle" => IsPool(before)
    /\ pc \in {"top", "for"} => Searching
    /\ pc \in {"top", "for", "returned"} =>
          arg \in Request /\ (before = {} => arg = BlockSize(ReservedLayer))
    /\ pc = "find" => Finding
    /\ pc = "merge" => Merging
    /\ pc = "freed" => arg \in Blocks(before) \ {Reserved}
    /\ SearchIsAlloc
    /\ WalkIsFree

(* A call leaves a tree, and not an empty one unless it failed.            *)
LEMMA CallLeavesPool ==
    ASSUME CallInv, pc \in {"returned", "freed"}
    PROVE  /\ IsPool(bits)
           /\ before # {} => bits # {}
           /\ pc = "returned" /\ ret # 0 => bits # {}
<1>1. IsPool(before)
  BY DEF CallInv
<1>2. CASE pc = "returned"
  <2>1. /\ arg \in Request /\ (before = {} => arg = BlockSize(ReservedLayer))
        /\ IF AllocSucceeds(before, arg)
           THEN bits = AllocBits(before, arg) ELSE ret = 0 /\ bits = before
    BY <1>2 DEF CallInv, SearchIsAlloc
  <2>2. CASE AllocSucceeds(before, arg)
    BY <1>1, <1>2, <2>1, <2>2, AfterAlloc
  <2>3. CASE ~AllocSucceeds(before, arg)
    BY <1>1, <1>2, <2>1, <2>3
  <2> QED BY <2>2, <2>3
<1>3. CASE pc = "freed"
  <2>1. arg \in Blocks(before) \ {Reserved} /\ bits = FreeBits(before, arg)
    BY <1>3 DEF CallInv, WalkIsFree
  <2> QED BY <1>1, <1>3, <2>1, AfterFree
<1> QED BY <1>2, <1>3

LEMMA AllocCalled ==
    ASSUME CallInv, pc = "idle", NEW size \in Request, CallAlloc(size),
           bits = {} => size = BlockSize(ReservedLayer)
    PROVE  CallInv' /\ pc' # "idle" /\ before' = bits /\ bits' = bits
<1>1. IsPool(bits)
  BY DEF CallInv
<1>2. /\ before' = bits /\ bits' = bits /\ arg' = size
      /\ \/ pc' = "top" /\ Searching'
         \/ pc' = "returned" /\ SearchIsAlloc'
  BY <1>1, CallAllocStep
<1>3. IsPool(before)'
  BY <1>1, <1>2 DEF IsPool
<1> QED BY <1>2, <1>3 DEF CallInv, SearchIsAlloc, WalkIsFree

LEMMA CallInvStep ==
    ASSUME CallInv, Next, pc = "idle" => bits # {}
    PROVE  CallInv'
<1>1. ASSUME NEW size \in Request, CallAlloc(size) PROVE CallInv'
  BY <1>1, AllocCalled DEF CallAlloc
<1>2. CASE TopOfLoop
  <2>1. /\ pc = "top" /\ Searching /\ IsPool(before) /\ before' = before /\ arg' = arg
        /\ arg \in Request /\ (before = {} => arg = BlockSize(ReservedLayer))
    BY <1>2 DEF TopOfLoop, CallInv
  <2>2. \/ pc' = "for" /\ Searching'
        \/ pc' = "returned" /\ SearchIsAlloc'
    BY <1>2, <2>1, TopOfLoopStep
  <2>3. IsPool(before)'
    BY <2>1 DEF IsPool
  <2> QED BY <2>1, <2>2, <2>3 DEF CallInv, SearchIsAlloc, WalkIsFree
<1>3. CASE Continue
  <2>1. /\ pc = "for" /\ pc' = pc /\ Searching /\ IsPool(before) /\ before' = before
        /\ arg' = arg
        /\ arg \in Request /\ (before = {} => arg = BlockSize(ReservedLayer))
    BY <1>3 DEF Continue, InFor, CallInv
  <2>2. Searching'
    BY <1>3, <2>1, ContinueStep
  <2>3. IsPool(before)'
    BY <2>1 DEF IsPool
  <2> QED BY <2>1, <2>2, <2>3 DEF CallInv, SearchIsAlloc, WalkIsFree
<1>4. CASE Take
  <2>1. /\ pc = "for" /\ Searching /\ IsPool(before) /\ before' = before
        /\ arg' = arg
        /\ arg \in Request /\ (before = {} => arg = BlockSize(ReservedLayer))
    BY <1>4 DEF Take, InFor, CallInv
  <2>2. pc' = "returned" /\ SearchIsAlloc'
    BY <1>4, <2>1, TakeStep
  <2>3. IsPool(before)'
    BY <2>1 DEF IsPool
  <2> QED BY <2>1, <2>2, <2>3 DEF CallInv, WalkIsFree
<1>5. CASE GoDeeper
  <2>1. /\ pc = "for" /\ pc' = "top" /\ Searching /\ IsPool(before) /\ before' = before
        /\ arg' = arg
        /\ arg \in Request /\ (before = {} => arg = BlockSize(ReservedLayer))
    BY <1>5 DEF GoDeeper, InFor, CallInv
  <2>2. Searching'
    BY <1>5, <2>1, GoDeeperStep
  <2>3. IsPool(before)'
    BY <2>1 DEF IsPool
  <2> QED BY <2>1, <2>2, <2>3 DEF CallInv, SearchIsAlloc, WalkIsFree
<1>6. CASE LayerDone
  <2>1. /\ pc = "for" /\ Searching /\ IsPool(before) /\ before' = before /\ arg' = arg
        /\ arg \in Request /\ (before = {} => arg = BlockSize(ReservedLayer))
    BY <1>6 DEF LayerDone, CallInv
  <2>2. \/ pc' = "top" /\ Searching'
        \/ pc' = "returned" /\ SearchIsAlloc'
    BY <1>6, <2>1, LayerDoneStep
  <2>3. IsPool(before)'
    BY <2>1 DEF IsPool
  <2> QED BY <2>1, <2>2, <2>3 DEF CallInv, SearchIsAlloc, WalkIsFree
<1>7. ASSUME NEW n \in Node, CallFree(n) PROVE CallInv'
  <2>1. pc = "idle" /\ IsPool(bits)
    BY <1>7 DEF CallFree, CallInv
  <2>2. pc' = "find" /\ before' = bits /\ Finding'
    BY <1>7, <2>1, CallFreeStep
  <2>3. IsPool(before)'
    BY <2>1, <2>2 DEF IsPool
  <2> QED BY <2>2, <2>3 DEF CallInv, SearchIsAlloc, WalkIsFree
<1>8. CASE FindStep
  <2>1. pc = "find" /\ Finding /\ IsPool(before) /\ before' = before
    BY <1>8 DEF FindStep, CallInv
  <2>2. \/ pc' = pc /\ Finding'
        \/ pc' = "merge" /\ Merging'
    BY <1>8, <2>1, FindStepStep
  <2>3. IsPool(before)'
    BY <2>1 DEF IsPool
  <2> QED BY <2>1, <2>2, <2>3 DEF CallInv, SearchIsAlloc, WalkIsFree
<1>9. CASE MergeStep
  <2>1. pc = "merge" /\ Merging /\ IsPool(before) /\ before' = before
    BY <1>9 DEF MergeStep, CallInv
  <2>2. \/ pc' = pc /\ Merging'
        \/ /\ pc' = "freed" /\ WalkIsFree' /\ UNCHANGED <<before, arg>>
           /\ arg \in Blocks(before) \ {Reserved}
    BY <1>9, <2>1, MergeStepStep
  <2>3. IsPool(before)'
    BY <2>1 DEF IsPool
  <2> QED BY <2>1, <2>2, <2>3 DEF CallInv, SearchIsAlloc, WalkIsFree
<1>10. CASE Done
  <2>1. pc \in {"returned", "freed"} /\ pc' = "idle" /\ bits' = bits
    BY <1>10 DEF Done
  <2>2. IsPool(bits)'
    BY <2>1, CallLeavesPool DEF IsPool
  <2> QED BY <2>1, <2>2 DEF CallInv, SearchIsAlloc, WalkIsFree
<1> QED BY <1>1, <1>2, <1>3, <1>4, <1>5, <1>6, <1>7, <1>8, <1>9, <1>10 DEF Next

-----------------------------------------------------------------------------
(* The machine from power-on                                               *)

MapInv ==
    /\ up \in {"stage1", "detect", "buddy_init", "heap_init"} =>
          machine \in Machines /\ blocks_count \in 0 .. Len(machine)
    /\ up = "heap_init" => IsClear(machine, pool)

LEMMA MapInvInit == BootInit => MapInv
<1> SUFFICES ASSUME BootInit PROVE MapInv
  OBVIOUS
<1>1. machine \in Machines /\ blocks_count = 0 /\ up = "stage1"
  BY DEF BootInit
<1>2. Len(machine) \in Nat
  BY <1>1, MachineAssumption
<1> QED BY <1>1, <1>2 DEF MapInv

LEMMA MapInvStep == MapInv /\ [BootNext]_bootvars => MapInv'
<1> SUFFICES ASSUME MapInv, [BootNext]_bootvars PROVE MapInv'
  OBVIOUS
<1>1. CASE Load
  BY <1>1 DEF Load, MapInv
<1>2. CASE DetectMemory
  <2>1. machine \in Machines /\ blocks_count \in 0 .. Len(machine)
    BY <1>2 DEF DetectMemory, MapInv
  <2>2. Len(machine) \in Nat
    BY <2>1, MachineAssumption
  <2> QED BY <1>2, <2>1, <2>2 DEF DetectMemory, MapInv
<1>3. CASE BuddyInit
  <2>1. machine \in Machines /\ blocks_count \in 0 .. Len(machine)
    BY <1>3 DEF BuddyInit, MapInv
  <2>2. CASE up' = "ended"
    BY <2>2 DEF MapInv
  <2>3. CASE UsableBlocks # {} /\ up' # "ended"
    <3>1. PICK i \in UsableBlocks :
             /\ pool' = [begin  |-> Start4K(machine[i]),
                         length |-> MaxBlock(machine[i])]
             /\ UNCHANGED <<machine, blocks_count>>
      BY <1>3, <2>3 DEF BuddyInit
    <3>2. i \in DOMAIN machine /\ machine[i].usable /\ AsInt(machine[i].length) > 0
      BY <2>1, MachineAssumption DEF UsableBlocks
    <3>3. IsClear(machine, pool')
      BY <2>1, <3>1, <3>2, ChosenIsClear
    <3> QED BY <2>1, <3>1, <3>3 DEF MapInv
  <2> QED BY <1>3, <2>2, <2>3 DEF BuddyInit
<1>4. CASE HeapInit
  BY <1>4 DEF HeapInit, MapInv, memory_vars
<1>5. CASE Allocate
  <2>1. up \in {"running", "heap_init"} /\ UNCHANGED pool
    BY <1>5 DEF Allocate
  <2>2. CASE pc = "returned" /\ up = "heap_init"
    BY <1>5, <2>2 DEF Allocate, MapInv
  <2>3. CASE ~(pc = "returned" /\ up = "heap_init")
    BY <1>5, <2>1, <2>3 DEF Allocate, MapInv
  <2> QED BY <2>2, <2>3
<1>6. CASE UNCHANGED bootvars
  BY <1>6 DEF bootvars, memory_vars, MapInv
<1> QED BY <1>1, <1>2, <1>3, <1>4, <1>5, <1>6 DEF BootNext

(* The pool lies in memory that the machine has, all of it, and in none    *)
(* that the loaders or the kernel use: for every memory map that           *)
(* MachineAssumption allows, wherever detect_memory stopped, and for the   *)
(* lengths and ends that 32 bits do not hold.                              *)
THEOREM PoolIsAlwaysClear == BootSpec => []PoolIsClear
<1>1. MapInv => PoolIsClear
  BY DEF MapInv, PoolIsClear, IsClear
<1> QED BY <1>1, MapInvInit, MapInvStep, PTL DEF BootSpec

(* Stage 1 jumps to stage 2 only with the whole file in memory, each       *)
(* sector at its place: for every disk, drive and directory that the       *)
(* assumptions allow, whichever reads failed and were tried again, and     *)
(* however often the machine was started anew before.                      *)
THEOREM StageTwoIsLoaded == BootSpec => []StageTwoIsFile
<1>1. BootInit => S1Inv
  BY S1InvInit DEF BootInit
<1>2. S1Inv /\ [BootNext]_bootvars => S1Inv'
  <2> SUFFICES ASSUME S1Inv, [BootNext]_bootvars PROVE S1Inv'
    OBVIOUS
  <2>1. S1Next \/ UNCHANGED s1vars
    BY DEF BootNext, bootvars, Load
  <2>2. CASE S1Next
    BY <2>2, S1InvStep
  <2>3. CASE UNCHANGED s1vars
    BY <2>3 DEF s1vars, S1Inv, TableRead, LoadedSoFar, NextToLoad, Cluster, Upcoming
  <2> QED BY <2>1, <2>2, <2>3
<1> QED BY <1>1, <1>2, S1InvMeans, PTL DEF BootSpec

-----------------------------------------------------------------------------
(* The allocator                                                           *)

(* When the loops of BuddySearch.tla run: heap_init's request is the first *)
(* one, from an empty bitmap, and nothing is freed before it is answered.  *)
PoolInv ==
    /\ CallInv
    /\ up \in {"stage1", "detect", "buddy_init"} => pc = "idle" /\ bits = {}
    /\ up = "heap_init" => IF pc = "idle" THEN bits = {} ELSE before = {}
    /\ up = "running" => IF pc = "idle" THEN bits # {} ELSE before # {}

LEMMA PoolInvInit == BootInit => PoolInv
<1> SUFFICES ASSUME BootInit PROVE PoolInv
  OBVIOUS
<1>1. bits = {} /\ pc = "idle" /\ up = "stage1"
  BY DEF BootInit
<1>2. IsPool({})
  BY DEF IsPool, IsTree
<1> QED BY <1>1, <1>2 DEF PoolInv, CallInv, SearchIsAlloc, WalkIsFree

LEMMA IdleLeavesCalls ==
    ASSUME CallInv, UNCHANGED vars
    PROVE  CallInv'
  BY DEF vars, CallInv, IsPool, Searching, Climbing, Descending, SplitTo,
         WayDown, Finding, Merging, SearchIsAlloc, WalkIsFree, Number

LEMMA PoolInvStep == PoolInv /\ [BootNext]_bootvars => PoolInv'
<1> SUFFICES ASSUME PoolInv, [BootNext]_bootvars PROVE PoolInv'
  OBVIOUS
<1>1. CallInv
  BY DEF PoolInv
<1>2. CASE Load /\ UNCHANGED vars
  BY <1>1, <1>2, IdleLeavesCalls DEF Load, vars, PoolInv
<1>3. CASE (DetectMemory \/ BuddyInit) /\ UNCHANGED vars
  <2>1. up \in {"detect", "buddy_init"} /\ up' \in {"detect", "buddy_init", "heap_init", "ended"}
    BY <1>3 DEF DetectMemory, BuddyInit
  <2> QED BY <1>1, <1>3, <2>1, IdleLeavesCalls DEF vars, PoolInv
<1>4. CASE HeapInit
  <2>1. pc = "idle" /\ bits = {} /\ up' = up /\ up = "heap_init"
    BY <1>4 DEF HeapInit, PoolInv, memory_vars
  <2>2. CallInv' /\ pc' # "idle" /\ before' = bits
    BY <1>1, <1>4, <2>1, ReservedSize, AllocCalled DEF HeapInit
  <2> QED BY <2>1, <2>2 DEF PoolInv
<1>5. CASE Allocate
  <2>1. Next /\ (up = "running" \/ (up = "heap_init" /\ pc # "idle"))
    BY <1>5 DEF Allocate
  <2>2. pc = "idle" => bits # {}
    BY <2>1 DEF PoolInv
  <2>3. CallInv'
    BY <1>1, <2>1, <2>2, CallInvStep
  <2>4. CASE pc = "idle"
    <3>1. pc' # "idle" /\ before' = bits
      <4>1. (\E size \in Request : CallAlloc(size)) \/ (\E n \in Node : CallFree(n))
        BY <2>1, <2>4 DEF Next, TopOfLoop, Continue, Take, GoDeeper, LayerDone,
                          InFor, FindStep, MergeStep, Done
      <4>2. ASSUME NEW size \in Request, CallAlloc(size) PROVE pc' # "idle" /\ before' = bits
        BY <1>1, <2>2, <2>4, <4>2, AllocCalled
      <4>3. ASSUME NEW n \in Node, CallFree(n) PROVE pc' # "idle" /\ before' = bits
        BY <4>3 DEF CallFree
      <4> QED BY <4>1, <4>2, <4>3
    <3>2. up = "running" /\ up' = up
      BY <1>5, <2>1, <2>4 DEF Allocate
    <3> QED BY <2>2, <2>3, <2>4, <3>1, <3>2 DEF PoolInv
  <2>5. CASE pc \in {"returned", "freed"}
    <3>1. Done
      BY <2>1, <2>5 DEF Next, CallAlloc, CallFree, TopOfLoop, Continue, Take,
                        GoDeeper, LayerDone, InFor, FindStep, MergeStep
    <3>2. pc' = "idle" /\ bits' = bits
      BY <3>1 DEF Done
    <3>3. before # {} => bits # {}
      BY <1>1, <2>5, CallLeavesPool
    <3>4. pc = "returned" /\ ret # 0 => bits # {}
      BY <1>1, CallLeavesPool
    <3>5. CASE up = "running"
      BY <1>5, <2>3, <2>5, <3>2, <3>3, <3>5 DEF Allocate, PoolInv
    <3>6. CASE up = "heap_init" /\ pc = "returned"
      <4>1. up' = IF ret = 0 THEN "ended" ELSE "running"
        BY <1>5, <3>6 DEF Allocate
      <4> QED BY <2>3, <3>2, <3>4, <3>6, <4>1 DEF PoolInv
    <3>7. CASE up = "heap_init" /\ pc = "freed"
      <4>1. before = {} /\ arg \in Blocks(before)
        BY <1>1, <3>7 DEF PoolInv, CallInv
      <4> QED BY <4>1 DEF Blocks
    <3> QED BY <2>1, <2>5, <3>5, <3>6, <3>7
  <2>6. CASE pc \notin {"idle", "returned", "freed"}
    <3>1. pc' # "idle" /\ before' = before
      BY <2>1, <2>6 DEF Next, CallAlloc, CallFree, TopOfLoop, Continue, Take,
                        GoDeeper, LayerDone, InFor, FindStep, MergeStep, Done, Return
    <3>2. up' = up
      BY <1>5, <2>6 DEF Allocate
    <3> QED BY <2>1, <2>3, <2>6, <3>1, <3>2 DEF PoolInv
  <2> QED BY <2>4, <2>5, <2>6
<1>6. CASE UNCHANGED bootvars
  BY <1>1, <1>6, IdleLeavesCalls DEF bootvars, memory_vars, vars, PoolInv
<1> QED BY <1>2, <1>3, <1>4, <1>5, <1>6 DEF BootNext

LEMMA PoolAlways == BootSpec => []PoolInv
  BY PoolInvInit, PoolInvStep, PTL DEF BootSpec

(* buddy_alloc's search, with its jump back down, answers every request    *)
(* with the first block of the lowest layer that has one, and fails only   *)
(* when no layer has one: for any number of layers and any calls before.   *)
THEOREM SearchIsAlwaysAlloc == BootSpec => []SearchIsAlloc
<1>1. PoolInv => SearchIsAlloc
  BY DEF PoolInv, CallInv
<1> QED BY <1>1, PoolAlways, PTL

(* buddy_free's walk clears the block of the address it is given and joins *)
(* what can be joined, and stops below the root, so that it never reads in *)
(* front of buddy_layers.                                                  *)
THEOREM WalkIsAlwaysFree == BootSpec => []WalkIsFree
<1>1. PoolInv => WalkIsFree
  BY DEF PoolInv, CallInv
<1> QED BY <1>1, PoolAlways, PTL

=============================================================================
