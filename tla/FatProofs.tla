----------------------------- MODULE FatProofs ------------------------------
(***************************************************************************)
(* Proofs about the file system, from stage 2 on (Stage2.tla, Fat.tla),    *)
(* for every disk, any number of handles and sectors of any size.          *)
(***************************************************************************)
EXTENDS Stage2, Lemmas, SequenceTheorems

-----------------------------------------------------------------------------
(* The allocation table                                                    *)

LEMMA SlotType == \A c : Slot(c) \in TableValue
<1>1. 0 \in TableValue
  BY DEF TableValue
<1> QED
  BY <1>1, TableAssumption DEF Slot

LEMMA NextCluster ==
    ASSUME NEW c \in 0 .. LastCluster
    PROVE  fat_next_cluster(c) = Table[c]
<1>1. LastCluster \in Nat /\ Slot(c) = Table[c]
  BY TableAssumption DEF Slot
<1>2. PICK slot : slot = [i \in Nat |-> Slot(i)]
  OBVIOUS
<1>3. \A i \in Nat : slot[i] \in 0 .. 4095
  BY <1>2, SlotType DEF TableValue
<1>4. ASSUME NEW k \in 0 .. (LastCluster * 3) \div 2 + 1
      PROVE  /\ k % 3 = 0 => g_fat[k] = slot[2 * (k \div 3)] % 256
             /\ k % 3 = 1 => g_fat[k] = slot[2 * (k \div 3)] \div 256
                                        + 16 * (slot[2 * (k \div 3) + 1] % 16)
             /\ k % 3 = 2 => g_fat[k] = slot[2 * (k \div 3) + 1] \div 16
  <2>1. 2 * (k \div 3) \in Nat /\ 2 * (k \div 3) + 1 \in Nat
    BY <1>1
  <2>2. /\ Slot(2 * (k \div 3)) = slot[2 * (k \div 3)]
        /\ Slot(2 * (k \div 3) + 1) = slot[2 * (k \div 3) + 1]
    BY <1>2, <2>1
  <2> QED BY <2>2 DEF g_fat
<1>5. PICK w : w = g_fat[(c * 3) \div 2] + 256 * g_fat[(c * 3) \div 2 + 1]
  OBVIOUS
<1>6. Packed(g_fat, LastCluster, slot)
  BY <1>3, <1>4 DEF Packed
<1>7. slot[c] = IF c % 2 = 0 THEN w % 4096 ELSE w \div 16
  BY ONLY <1>1, <1>5, <1>6, Unpacked, c \in 0 .. LastCluster, SMTT(20)
<1>8. fat_next_cluster(c) = slot[c]
  BY ONLY <1>5, <1>7 DEF fat_next_cluster
<1> QED BY <1>1, <1>2, <1>8

(* The cluster after one of a file is one further on, or there is none.    *)
LEMMA ChainGoesUp ==
    ASSUME NEW c \in 2 .. LastCluster
    PROVE  /\ fat_next_cluster(c) = Table[c]
           /\ Table[c] \in Nat
           /\ Table[c] \in c + 1 .. LastCluster \/ Table[c] >= EndOfChain
<1>1. c \in 0 .. LastCluster
  OBVIOUS
<1>2. Table[c] \in Nat
  <2>1. Table[c] \in TableValue
    BY <1>1, TableAssumption
  <2>2. TableValue \subseteq Nat
    BY DEF TableValue
  <2> QED BY <2>1, <2>2
<1> QED BY <1>1, <1>2, NextCluster, TableAssumption

LEMMA ClusterAfter ==
    ASSUME NEW c \in 2 .. LastCluster
    PROVE  /\ Table[c] \in Nat
           /\ Table[c] \in c + 1 .. LastCluster \/ Table[c] \notin 2 .. LastCluster
BY ChainGoesUp, TableAssumption DEF EndOfChain

-----------------------------------------------------------------------------
(* One turn of the loop of fat_read                                        *)

LEMMA Sizes ==
    /\ PerSector \in Nat \ {0} /\ cluster_sectors \in Nat \ {0}
    /\ RootSectors \in Nat \ {0} /\ RootLba \in Nat
    /\ data_lba \in Nat /\ LastCluster \in Nat
    /\ MAX_FILE_HANDLE \in Nat
BY DiskAssumption, TableAssumption DEF data_lba

LEMMA Remainder ==
    ASSUME NEW n \in Nat, NEW d \in Nat \ {0}
    PROVE  n % d \in 0 .. d - 1
OBVIOUS

(* Two descriptors of the same open file.                                  *)
SameFile(d, e) ==
    /\ e.handle = d.handle /\ e.opened = d.opened
    /\ e.is_dir = d.is_dir /\ e.first_cluster = d.first_cluster

(* The place of d is in a sector of the disk.                              *)
HasSector(d) ==
    IsRoot(d) \/ (/\ d.cur_sector_in_cluster < cluster_sectors
                  /\ d.cur_cluster \in 2 .. LastCluster)

LEMMA NextSectorIs ==
    ASSUME NEW d \in FileDesc, HasSector(d), NEW x, x = NextSector(d)
    PROVE  /\ x \in FileDesc /\ SameFile(d, x)
           /\ x.pos = d.pos /\ x.size = d.size /\ x.buffer = d.buffer
           /\ HasSector(x)
              \/ (~IsRoot(x) /\ x.cur_sector_in_cluster = 0 /\ x.cur_cluster >= EndOfChain)
<1> USE DEF SameFile, HasSector, IsRoot
<1>1. CASE IsRoot(d)
  <2>1. x = [d EXCEPT !.cur_cluster = @ + 1]
    BY <1>1 DEF NextSector
  <2> QED BY <1>1, <2>1 DEF FileDesc
<1>2. CASE ~IsRoot(d) /\ d.cur_sector_in_cluster + 1 < cluster_sectors
  <2>1. x = [d EXCEPT !.cur_sector_in_cluster = @ + 1]
    BY <1>2 DEF NextSector
  <2> QED BY <1>2, <2>1 DEF FileDesc
<1>3. CASE ~IsRoot(d) /\ ~(d.cur_sector_in_cluster + 1 < cluster_sectors)
  <2>1. PICK c : c = fat_next_cluster(d.cur_cluster)
    OBVIOUS
  <2>2. x = [d EXCEPT !.cur_sector_in_cluster = 0, !.cur_cluster = c]
    BY <1>3, <2>1 DEF NextSector, FileDesc
  <2>3. c \in Nat /\ (c \in 2 .. LastCluster \/ c >= EndOfChain)
    <3>1. PICK b \in 2 .. LastCluster : b = d.cur_cluster
      BY <1>3
    <3>2. c = Table[b] /\ c \in Nat /\ (c \in b + 1 .. LastCluster \/ c >= EndOfChain)
      BY <2>1, <3>1, ChainGoesUp
    <3>3. b \in Nat /\ b >= 2 /\ LastCluster \in Nat
      BY Sizes
    <3> QED BY <3>2, <3>3
  <2>4. /\ x \in FileDesc /\ SameFile(d, x)
        /\ x.pos = d.pos /\ x.size = d.size /\ x.buffer = d.buffer
        /\ x.cur_sector_in_cluster = 0 /\ x.cur_cluster = c
    <3>1. PICK y : y = [d EXCEPT !.cur_sector_in_cluster = 0]
      OBVIOUS
    <3>2. y \in FileDesc /\ y.cur_sector_in_cluster = 0 /\ SameFile(d, y)
          /\ y.pos = d.pos /\ y.size = d.size /\ y.buffer = d.buffer
      BY <3>1 DEF FileDesc
    <3>3. x = [y EXCEPT !.cur_cluster = c]
      BY <2>2, <3>1
    <3> QED BY <2>3, <3>2, <3>3 DEF FileDesc
  <2> QED BY <1>3, <2>3, <2>4, Sizes
<1> QED BY <1>1, <1>2, <1>3

LEMMA SectorOfType ==
    ASSUME NEW d \in FileDesc, HasSector(d)
    PROVE  SectorOf(d) \in Nat
<1>1. CASE IsRoot(d)
  BY <1>1 DEF SectorOf, FileDesc
<1>2. CASE ~IsRoot(d)
  <2>1. PICK c \in Nat : c = d.cur_cluster - 2
    BY <1>2, Sizes DEF HasSector
  <2>2. c * cluster_sectors \in Nat
    BY <2>1, Sizes
  <2>3. d.cur_sector_in_cluster \in Nat
    BY DEF FileDesc
  <2> QED BY <1>2, <2>1, <2>2, <2>3, Sizes DEF SectorOf, cluster_to_lba
<1> QED BY <1>1, <1>2

(* What is left to copy is in sectors that the descriptor reaches.         *)
LEMMA ReadingHasSector ==
    ASSUME NEW r \in Reading, r.n # 0
    PROVE  /\ HasSector(r.d)
           /\ HasSize(r.d) => r.d.pos + r.n <= r.d.size
<1>1. r.d \in FileDesc /\ Sound(r.d) /\ r.n \in Nat /\ Clip(r.d, r.n) = r.n
  BY DEF Reading, SoundDesc
<1>2. PICK pos \in Nat, size \in Nat : pos = r.d.pos /\ size = r.d.size
  BY <1>1 DEF FileDesc
<1>3. HasSize(r.d) => pos + r.n <= size
  BY <1>1, <1>2 DEF Clip
<1>4. ~(HasSize(r.d) /\ pos = size)
  BY <1>1, <1>2, <1>3
<1> QED BY <1>1, <1>2, <1>3, <1>4 DEF Sound, HasSector

(* The records of the buffer from the descriptor's place on.               *)
InBuffer(d) == PerSector - (d.pos % PerSector)

Piece(d, k) == [i \in 1 .. k |-> <<d.buffer, (d.pos % PerSector) + i - 1>>]

LEMMA InBufferType ==
    ASSUME NEW d \in FileDesc
    PROVE  InBuffer(d) \in 1 .. PerSector
<1>1. d.pos \in Nat
  BY DEF FileDesc
<1>2. d.pos % PerSector \in 0 .. PerSector - 1
  BY <1>1, Sizes, Remainder
<1> QED BY <1>2, Sizes DEF InBuffer

LEMMA PieceType ==
    ASSUME NEW d \in FileDesc, NEW k \in Nat, k <= InBuffer(d)
    PROVE  Piece(d, k) \in Seq(Nat \X Nat) /\ Len(Piece(d, k)) = k
<1>1. PICK at \in Nat : at = d.pos % PerSector
  <2>1. d.pos \in Nat
    BY DEF FileDesc
  <2> QED BY <2>1, Sizes, Remainder
<1>2. d.buffer \in Nat
  BY DEF FileDesc
<1>3. \A i \in 1 .. k : <<d.buffer, at + i - 1>> \in Nat \X Nat
  BY <1>1, <1>2
<1>4. Piece(d, k) = [i \in 1 .. k |-> <<d.buffer, at + i - 1>>]
  BY <1>1 DEF Piece
<1>5. Piece(d, k) \in [1 .. k -> Nat \X Nat]
  BY <1>3, <1>4
<1>6. Piece(d, k) \in Seq(Nat \X Nat)
  BY <1>5, SeqDef
<1>7. DOMAIN Piece(d, k) = 1 .. k /\ DOMAIN Piece(d, k) = 1 .. Len(Piece(d, k))
  BY <1>5, <1>6, LenProperties
<1>8. Len(Piece(d, k)) \in Nat
  BY <1>6, LenProperties
<1>9. Len(Piece(d, k)) = k
  BY ONLY <1>7, <1>8, k \in Nat
<1> QED BY <1>6, <1>9

(* The records that one turn takes out of the buffer, all that are wanted  *)
(* or all there are, and the read after that.                              *)
Taken(r) == IF r.n <= InBuffer(r.d) THEN r.n ELSE InBuffer(r.d)

Copied(r) == r.data \o Piece(r.d, Taken(r))

Advanced(r) ==
    [d |-> [r.d EXCEPT !.pos = @ + Taken(r)], n |-> r.n - Taken(r),
     data |-> r.data \o Piece(r.d, Taken(r)), err |-> r.err]

LEMMA CopyIs ==
    ASSUME NEW r \in Reading, NEW bad
    PROVE  CopyFromBuffer(r, bad) =
              IF Taken(r) = InBuffer(r.d) THEN Refill(Advanced(r), bad) ELSE Advanced(r)
<1>1. DOMAIN r = {"d", "n", "data", "err"} /\ r.d \in FileDesc
  BY DEF Reading, SoundDesc
<1>2. PICK k : k = Taken(r)
  OBVIOUS
<1>3. PICK got : got = [r EXCEPT !.d.pos = @ + k, !.n = @ - k,
                          !.data = @ \o Piece(r.d, k)]
  OBVIOUS
<1>4. got = Advanced(r)
  <2>1. got = [d |-> [r.d EXCEPT !.pos = @ + k], n |-> r.n - k,
               data |-> r.data \o Piece(r.d, k), err |-> r.err]
    BY <1>3 DEF Reading
  <2> QED BY <1>2, <2>1 DEF Advanced
<1>5. CopyFromBuffer(r, bad) =
          IF k = InBuffer(r.d) THEN Refill(got, bad) ELSE got
  BY <1>2, <1>3 DEF CopyFromBuffer, Taken, InBuffer, Piece
<1> QED BY <1>2, <1>4, <1>5

LEMMA AdvancedIs ==
    ASSUME NEW r \in Reading, r.n # 0, NEW g, g = Advanced(r)
    PROVE  /\ g \in Reading /\ HasSector(g.d)
           /\ Taken(r) \in 1 .. InBuffer(r.d) /\ Taken(r) <= r.n
           /\ g.d.pos = r.d.pos + Taken(r) /\ g.n = r.n - Taken(r)
           /\ g.data = r.data \o Piece(r.d, Taken(r)) /\ g.err = r.err
           /\ SameFile(r.d, g.d) /\ g.d.size = r.d.size /\ g.d.buffer = r.d.buffer
           /\ g.d.cur_cluster = r.d.cur_cluster
           /\ g.d.cur_sector_in_cluster = r.d.cur_sector_in_cluster
<1>1. /\ r.d \in FileDesc /\ r.n \in Nat \ {0} /\ r.data \in Seq(Nat \X Nat)
      /\ r.err \in BOOLEAN
  BY DEF Reading, SoundDesc
<1>2. PICK k : k = Taken(r)
  OBVIOUS
<1>3. k \in Nat /\ k \in 1 .. InBuffer(r.d) /\ k <= r.n
  BY <1>1, <1>2, InBufferType, Sizes DEF Taken
<1>4. PICK e : e = [r.d EXCEPT !.pos = @ + k]
  OBVIOUS
<1>5. /\ e \in FileDesc /\ SameFile(r.d, e) /\ e.pos = r.d.pos + k
      /\ e.size = r.d.size /\ e.buffer = r.d.buffer
      /\ e.cur_cluster = r.d.cur_cluster
      /\ e.cur_sector_in_cluster = r.d.cur_sector_in_cluster
  <2>1. r.d.pos \in Nat
    BY <1>1 DEF FileDesc
  <2>2. PICK p \in Nat : p = r.d.pos + k
    BY <1>3, <2>1
  <2>3. e = [r.d EXCEPT !.pos = p]
    BY <1>4, <2>2
  <2> QED BY <1>1, <2>2, <2>3 DEF FileDesc, SameFile
<1>6. g = [d |-> e, n |-> r.n - k, data |-> r.data \o Piece(r.d, k), err |-> r.err]
  BY <1>2, <1>4 DEF Advanced
<1>7. HasSector(r.d) /\ (HasSize(r.d) => r.d.pos + r.n <= r.d.size)
  BY ReadingHasSector
<1>8. HasSector(e) /\ (HasSize(e) <=> HasSize(r.d))
  BY <1>5, <1>7 DEF HasSector, IsRoot, HasSize, SameFile
<1>9. r.d.pos \in Nat /\ r.d.size \in Nat /\ e.pos \in Nat
  BY <1>1, <1>5 DEF FileDesc
<1>10. HasSize(e) => e.pos + (r.n - k) <= e.size /\ e.pos <= e.size
  BY <1>1, <1>3, <1>5, <1>7, <1>8, <1>9
<1>11. Sound(e) /\ Clip(e, r.n - k) = r.n - k
  <2>1. Sound(e)
    <3>1. IsRoot(e) => HasSize(e)
      <4>1. Sound(r.d)
        BY DEF Reading, SoundDesc
      <4> QED BY <1>5, <1>8, <4>1 DEF Sound, SameFile, IsRoot
    <3> QED BY <1>8, <1>10, <3>1 DEF Sound, HasSector
  <2>2. Clip(e, r.n - k) = r.n - k
    BY <1>1, <1>3, <1>5, <1>9, <1>10 DEF Clip
  <2> QED BY <2>1, <2>2
<1>12. r.data \o Piece(r.d, k) \in Seq(Nat \X Nat)
  <2>1. Piece(r.d, k) \in Seq(Nat \X Nat)
    BY <1>1, <1>3, PieceType, InBufferType, Sizes
  <2> QED BY <1>1, <2>1
<1>13. r.n - k \in Nat
  BY <1>1, <1>3
<1>14. g \in Reading
  <2>1. e \in SoundDesc
    BY <1>5, <1>11 DEF SoundDesc
  <2>2. g \in [d : SoundDesc, n : Nat, data : Seq(Nat \X Nat), err : BOOLEAN]
    BY <1>1, <1>6, <1>12, <1>13, <2>1
  <2>3. Clip(g.d, g.n) = g.n
    BY <1>6, <1>11
  <2> QED BY <2>2, <2>3 DEF Reading
<1>15. g.d = e /\ g.n = r.n - k /\ g.data = r.data \o Piece(r.d, k) /\ g.err = r.err
  <2>1. PICK all : all = r.data \o Piece(r.d, k)
    OBVIOUS
  <2>2. g = [d |-> e, n |-> r.n - k, data |-> all, err |-> r.err]
    BY <1>6, <2>1
  <2>3. g.d = e /\ g.n = r.n - k /\ g.data = all /\ g.err = r.err
    BY ONLY <2>2
  <2> QED BY <2>1, <2>3
<1> QED BY ONLY <1>2, <1>3, <1>5, <1>8, <1>14, <1>15

(* After the end of a buffer, g with y the next place has become x: the    *)
(* file is at its end, or the sector cannot be read, or it is there.       *)
AtEnd(g, x, y) ==
    /\ ~IsRoot(g.d) /\ y.cur_cluster >= EndOfChain
    /\ x.n = 0 /\ x.err = g.err
    /\ x.d.size = x.d.pos /\ x.d.buffer = g.d.buffer

GivenUp(g, x, y, bad) ==
    /\ HasSector(x.d) /\ SectorOf(y) \in bad
    /\ x.n = 0 /\ x.err = TRUE
    /\ x.d.size = g.d.size /\ x.d.buffer = g.d.buffer

Fetched(g, x, y, bad) ==
    /\ HasSector(x.d) /\ SectorOf(y) \notin bad
    /\ x.n = g.n /\ x.err = g.err
    /\ x.d.size = g.d.size /\ x.d.buffer = SectorOf(y)

(* What is read stays within the size.                                     *)
LEMMA RefillIs ==
    ASSUME NEW g \in Reading, HasSector(g.d), g.d.pos # 0, NEW bad,
           NEW x, x = Refill(g, bad), NEW y, y = NextSector(g.d)
    PROVE  /\ x \in Reading /\ SameFile(g.d, x.d)
           /\ x.d.pos = g.d.pos /\ x.data = g.data
           /\ x.d.cur_cluster = y.cur_cluster
           /\ x.d.cur_sector_in_cluster = y.cur_sector_in_cluster
           /\ AtEnd(g, x, y) \/ GivenUp(g, x, y, bad) \/ Fetched(g, x, y, bad)
<1>1. /\ g.d \in FileDesc /\ Sound(g.d) /\ g.n \in Nat /\ Clip(g.d, g.n) = g.n
      /\ g.data \in Seq(Nat \X Nat) /\ g.err \in BOOLEAN
  BY DEF Reading, SoundDesc
<1>2. /\ y \in FileDesc /\ SameFile(g.d, y)
      /\ y.pos = g.d.pos /\ y.size = g.d.size /\ y.buffer = g.d.buffer
      /\ HasSector(y)
         \/ (~IsRoot(y) /\ y.cur_sector_in_cluster = 0 /\ y.cur_cluster >= EndOfChain)
  BY <1>1, NextSectorIs
<1>3. /\ IsRoot(y) <=> IsRoot(g.d)
      /\ HasSize(y) <=> HasSize(g.d)
  BY <1>2 DEF SameFile, IsRoot, HasSize
<1>4. /\ g.d.pos \in Nat \ {0} /\ g.d.size \in Nat
  BY <1>1 DEF FileDesc
<1>5. Refill(g, bad) = Fetch(g, y, bad)
  BY DEF Refill
<1>6. ASSUME NEW d \in SoundDesc, NEW n \in Nat, NEW err \in BOOLEAN, Clip(d, n) = n,
             x = [g EXCEPT !.d = d, !.n = n, !.err = err]
      PROVE  x \in Reading /\ x.d = d /\ x.n = n /\ x.err = err /\ x.data = g.data
  <2>1. x = [d |-> d, n |-> n, data |-> g.data, err |-> err]
    BY <1>6 DEF Reading
  <2>2. x.d = d /\ x.n = n /\ x.err = err /\ x.data = g.data
    BY ONLY <2>1
  <2>3. x \in [d : SoundDesc, n : Nat, data : Seq(Nat \X Nat), err : BOOLEAN]
    BY <1>1, <1>6, <2>1
  <2> QED BY <1>6, <2>2, <2>3 DEF Reading
<1>7. (HasSize(y) => y.pos <= y.size) /\ (IsRoot(y) => HasSize(y))
  BY <1>1, <1>2, <1>3 DEF Sound
<1>8. CASE ~IsRoot(y) /\ y.cur_cluster >= EndOfChain
  <2>1. PICK d : d = [y EXCEPT !.size = y.pos]
    OBVIOUS
  <2>2. /\ d \in FileDesc /\ SameFile(g.d, d) /\ d.pos = g.d.pos /\ d.size = d.pos
        /\ d.cur_cluster = y.cur_cluster /\ d.buffer = y.buffer
        /\ d.cur_sector_in_cluster = y.cur_sector_in_cluster
    BY <1>2, <1>4, <2>1 DEF FileDesc, SameFile
  <2>3. d.cur_sector_in_cluster < cluster_sectors
    BY <1>2, <1>8, <2>2, Sizes DEF HasSector
  <2>4. HasSize(d) /\ d.pos <= d.size
    BY <1>4, <2>2 DEF HasSize
  <2>5. d \in SoundDesc /\ Clip(d, 0) = 0
    BY <1>4, <2>2, <2>3, <2>4 DEF SoundDesc, Sound, Clip
  <2>6. Fetch(g, y, bad) = [g EXCEPT !.d = d, !.n = 0]
    BY <1>8, <2>1 DEF Fetch
  <2>7. x = [g EXCEPT !.d = d, !.n = 0, !.err = g.err]
    BY <1>5, <2>6 DEF Reading
  <2>8. x \in Reading /\ x.d = d /\ x.n = 0 /\ x.err = g.err /\ x.data = g.data
    BY <1>1, <1>6, <2>5, <2>7
  <2>9. AtEnd(g, x, y)
    BY <1>2, <1>3, <1>8, <2>2, <2>8 DEF AtEnd
  <2> QED BY <2>2, <2>8, <2>9
<1>9. CASE ~(~IsRoot(y) /\ y.cur_cluster >= EndOfChain) /\ SectorOf(y) \in bad
  <2>1. HasSector(y)
    BY <1>2, <1>9
  <2>2. y \in SoundDesc /\ Clip(y, 0) = 0
    BY <1>2, <1>4, <1>7, <2>1 DEF SoundDesc, Sound, Clip, HasSector
  <2>3. x = [g EXCEPT !.d = y, !.n = 0, !.err = TRUE]
    BY <1>5, <1>9 DEF Fetch
  <2>4. x \in Reading /\ x.d = y /\ x.n = 0 /\ x.err = TRUE /\ x.data = g.data
    BY <1>6, <2>2, <2>3
  <2>5. GivenUp(g, x, y, bad)
    BY <1>2, <1>9, <2>1, <2>4 DEF GivenUp
  <2> QED BY <1>2, <2>4, <2>5
<1>10. CASE ~(~IsRoot(y) /\ y.cur_cluster >= EndOfChain) /\ SectorOf(y) \notin bad
  <2>1. HasSector(y)
    BY <1>2, <1>10
  <2>2. PICK b \in Nat : b = SectorOf(y)
    BY <1>2, <2>1, SectorOfType
  <2>3. PICK d : d = [y EXCEPT !.buffer = b]
    OBVIOUS
  <2>4. /\ d \in FileDesc /\ SameFile(g.d, d) /\ d.pos = g.d.pos /\ d.size = g.d.size
        /\ d.cur_cluster = y.cur_cluster /\ d.buffer = b
        /\ d.cur_sector_in_cluster = y.cur_sector_in_cluster
    BY <1>2, <2>3 DEF FileDesc, SameFile
  <2>5. /\ HasSector(d) /\ (HasSize(d) <=> HasSize(g.d))
        /\ IsRoot(d) => HasSize(d)
    BY <1>2, <1>7, <2>1, <2>4 DEF HasSector, IsRoot, HasSize, SameFile
  <2>6. d \in SoundDesc /\ Clip(d, g.n) = g.n
    BY <1>1, <1>4, <2>4, <2>5 DEF SoundDesc, Sound, Clip, HasSector
  <2>7. Fetch(g, y, bad) = [g EXCEPT !.d = d]
    BY <1>10, <2>2, <2>3 DEF Fetch
  <2>8. x = [g EXCEPT !.d = d, !.n = g.n, !.err = g.err]
    BY <1>5, <2>7 DEF Reading
  <2>9. x \in Reading /\ x.d = d /\ x.n = g.n /\ x.err = g.err /\ x.data = g.data
    BY <1>1, <1>6, <2>6, <2>8
  <2>10. Fetched(g, x, y, bad)
    BY <1>10, <2>2, <2>4, <2>5, <2>9 DEF Fetched
  <2> QED BY <2>4, <2>9, <2>10
<1> QED BY <1>8, <1>9, <1>10

(* A turn copies what it takes, and leaves less to copy.                   *)
LEMMA CopyStep ==
    ASSUME NEW r \in Reading, r.n # 0, NEW bad, NEW x, x = CopyFromBuffer(r, bad)
    PROVE  /\ x \in Reading /\ SameFile(r.d, x.d)
           /\ Taken(r) \in 1 .. InBuffer(r.d) /\ Taken(r) <= r.n
           /\ x.n <= r.n - Taken(r)
           /\ x.d.pos = r.d.pos + Taken(r)
           /\ x.data = Copied(r)
<1> USE DEF Copied
<1>1. PICK g : g = Advanced(r)
  OBVIOUS
<1>2. /\ g \in Reading /\ HasSector(g.d)
      /\ Taken(r) \in 1 .. InBuffer(r.d) /\ Taken(r) <= r.n
      /\ g.d.pos = r.d.pos + Taken(r) /\ g.n = r.n - Taken(r)
      /\ g.data = r.data \o Piece(r.d, Taken(r))
      /\ SameFile(r.d, g.d)
  BY <1>1, AdvancedIs
<1>3. r.d.pos \in Nat /\ r.n \in Nat /\ g.n \in Nat /\ r.d \in FileDesc
  BY <1>2 DEF Reading, SoundDesc, FileDesc
<1>4. x = IF Taken(r) = InBuffer(r.d) THEN Refill(g, bad) ELSE g
  BY <1>1, CopyIs
<1>5. CASE Taken(r) = InBuffer(r.d)
  <2>1. g.d.pos # 0
    BY <1>2, <1>3
  <2>2. x = Refill(g, bad)
    BY <1>4, <1>5
  <2>3. /\ x \in Reading /\ SameFile(g.d, x.d)
        /\ x.d.pos = g.d.pos /\ x.data = g.data /\ (x.n = 0 \/ x.n = g.n)
    <3>1. PICK y : y = NextSector(g.d)
      OBVIOUS
    <3>2. g \in Reading /\ HasSector(g.d)
      BY <1>2
    <3>3. /\ x \in Reading /\ SameFile(g.d, x.d)
          /\ x.d.pos = g.d.pos /\ x.data = g.data
          /\ AtEnd(g, x, y) \/ GivenUp(g, x, y, bad) \/ Fetched(g, x, y, bad)
      BY ONLY <2>1, <2>2, <3>1, <3>2, RefillIs
    <3> QED BY <3>3 DEF AtEnd, GivenUp, Fetched
  <2>4. SameFile(r.d, x.d)
    BY <1>2, <2>3 DEF SameFile
  <2> QED BY <1>2, <1>3, <2>3, <2>4
<1>6. CASE Taken(r) # InBuffer(r.d)
  <2>1. x = g
    BY <1>4, <1>6
  <2>2. x.n <= r.n - Taken(r)
    BY ONLY <1>2, <1>3, <2>1
  <2> QED BY ONLY <1>2, <2>1, <2>2
<1> QED BY <1>5, <1>6

-----------------------------------------------------------------------------
(* The loops                                                               *)

First(d, n) == [d |-> d, n |-> Clip(d, n), data |-> <<>>, err |-> FALSE]

LEMMA FirstIs ==
    ASSUME NEW d \in SoundDesc, NEW n \in Nat
    PROVE  /\ First(d, n) \in Reading
           /\ First(d, n).d = d /\ First(d, n).n = Clip(d, n)
           /\ First(d, n).data = <<>> /\ First(d, n).err = FALSE
           /\ Clip(d, n) \in Nat /\ Clip(d, n) <= n
<1>1. d \in FileDesc /\ Sound(d)
  BY DEF SoundDesc
<1>2. d.pos \in Nat /\ d.size \in Nat /\ (HasSize(d) => d.pos <= d.size)
  BY <1>1 DEF FileDesc, Sound
<1>3. Clip(d, n) \in Nat /\ Clip(d, n) <= n /\ Clip(d, Clip(d, n)) = Clip(d, n)
  BY <1>2 DEF Clip
<1>4. <<>> \in Seq(Nat \X Nat)
  OBVIOUS
<1> QED BY <1>3, <1>4 DEF First, Reading

(* What fat_read has at the end of its loop has every property that it     *)
(* begins with and every turn keeps.                                       *)
LEMMA FatReadKeeps ==
    ASSUME NEW d \in SoundDesc, NEW n \in Nat, NEW bad,
           NEW I, I \subseteq Reading, First(d, n) \in I,
           \A r \in I : r.n # 0 => CopyFromBuffer(r, bad) \in I
    PROVE  fat_read(d, n, bad) \in I /\ fat_read(d, n, bad).n = 0
<1> DEFINE D == {r \in Reading : r.n = 0}
           next == [r \in Reading |-> CopyFromBuffer(r, bad)]
           out == [r \in Reading |-> r]
           m == [r \in Reading |-> r.n]
           L == CHOOSE f : f = [r \in Reading |->
                   IF r.n = 0 THEN r ELSE f[CopyFromBuffer(r, bad)]]
<1>1. Ends(Reading, D, next, m)
  <2>1. ASSUME NEW r \in Reading, r.n # 0
        PROVE  next[r] \in Reading /\ m[next[r]] < m[r]
    <3>1. PICK x : x = CopyFromBuffer(r, bad)
      OBVIOUS
    <3>2. /\ x \in Reading /\ x.n <= r.n - Taken(r)
          /\ Taken(r) \in 1 .. InBuffer(r.d) /\ Taken(r) <= r.n
      BY <2>1, <3>1, CopyStep
    <3>3. x.n \in Nat /\ r.n \in Nat /\ InBuffer(r.d) \in Nat
      <4>1. r.d \in FileDesc
        BY DEF Reading, SoundDesc
      <4> QED BY <3>2, <4>1, InBufferType, Sizes DEF Reading
    <3>4. x.n < r.n
      BY <3>2, <3>3
    <3> QED BY <3>1, <3>2, <3>4
  <2>2. \A r \in Reading : m[r] \in Nat
    BY DEF Reading
  <2> HIDE DEF next, m
  <2> QED BY <2>1, <2>2 DEF Ends
<1>2. \A f : Computes(f, Reading, D, next, out) <=>
               f = [r \in Reading |-> IF r.n = 0 THEN r ELSE f[CopyFromBuffer(r, bad)]]
  BY DEF Computes
<1>3. Computes(L, Reading, D, next, out)
  <2>1. \E f : Computes(f, Reading, D, next, out)
    <3> HIDE DEF D, next, out, m
    <3> QED BY <1>1, LoopExists
  <2>2. \E f : f = [r \in Reading |-> IF r.n = 0 THEN r ELSE f[CopyFromBuffer(r, bad)]]
    <3> HIDE DEF D, next, out
    <3> QED BY <1>2, <2>1
  <2>3. L = [r \in Reading |-> IF r.n = 0 THEN r ELSE L[CopyFromBuffer(r, bad)]]
    BY <2>2
  <2> HIDE DEF D, next, out, L
  <2> QED BY <1>2, <2>3
<1>4. \A r \in I \ D : next[r] \in I
  OBVIOUS
<1>5. \E q \in I : q \in D /\ L[First(d, n)] = out[q]
  <2> HIDE DEF D, next, out, L, m
  <2> QED BY <1>1, <1>3, <1>4, LoopKeeps
<1>6. L[First(d, n)] \in I /\ L[First(d, n)].n = 0
  <2> HIDE DEF L
  <2> QED BY <1>5
<1>7. fat_read(d, n, bad) = L[First(d, n)]
  BY DEF fat_read, First
<1> HIDE DEF L
<1> QED BY <1>6, <1>7

-----------------------------------------------------------------------------
(* A search ends: what is left of the file, or of the clusters of the disk *)
(* while the size of a directory is not known, gets less with every turn.  *)

SectorsLeft(d) ==
    (LastCluster + 1 - d.cur_cluster) * cluster_sectors - d.cur_sector_in_cluster

Left(d) ==
    IF HasSize(d) THEN d.size - d.pos
    ELSE SectorsLeft(d) * PerSector - (d.pos % PerSector)

LEMMA SectorsLeftDrops ==
    ASSUME NEW d \in FileDesc, HasSector(d), ~IsRoot(d)
    PROVE  /\ SectorsLeft(d) \in Nat \ {0}
           /\ HasSector(NextSector(d)) =>
                 SectorsLeft(NextSector(d)) \in 0 .. SectorsLeft(d) - 1
<1>1. PICK c \in Nat, s \in Nat, cs \in Nat \ {0}, lc \in Nat :
          c = d.cur_cluster /\ s = d.cur_sector_in_cluster
          /\ cs = cluster_sectors /\ lc = LastCluster
  BY Sizes DEF FileDesc
<1>2. c <= lc /\ s < cs /\ 2 <= c
  BY <1>1 DEF HasSector
<1>3. PICK u \in Nat : u = lc - c
  BY <1>1, <1>2
<1>4. PICK v \in Nat : v = u * cs
  BY <1>1, <1>3
<1>5. (u + 1) * cs = v + cs
  BY ONLY <1>3, <1>4, <1>1, <1>2, u \in Nat, v \in Nat, cs \in Nat
<1>6. SectorsLeft(d) = v + cs - s
  <2>1. lc + 1 - c = u + 1
    BY <1>1, <1>3
  <2>2. SectorsLeft(d) = (lc + 1 - c) * cs - s
    BY <1>1 DEF SectorsLeft
  <2> QED BY ONLY <1>5, <2>1, <2>2
<1>7. ASSUME NEW y, y = NextSector(d), HasSector(y)
      PROVE  SectorsLeft(y) \in 0 .. SectorsLeft(d) - 1
  <2>1. CASE s + 1 < cs
    <3>1. y = [d EXCEPT !.cur_sector_in_cluster = @ + 1]
      BY <1>1, <1>7, <2>1 DEF NextSector
    <3>2. y.cur_cluster = c /\ y.cur_sector_in_cluster = s + 1
      BY <1>1, <3>1 DEF FileDesc
    <3>3. lc + 1 - c = u + 1
      BY <1>1, <1>3
    <3>4. SectorsLeft(y) = v + cs - (s + 1)
      <4>1. SectorsLeft(y) = (lc + 1 - c) * cs - (s + 1)
        BY <1>1, <3>2 DEF SectorsLeft
      <4> QED BY ONLY <1>5, <3>3, <4>1
    <3> QED BY <1>2, <1>4, <1>6, <2>1, <3>4
  <2>2. CASE ~(s + 1 < cs)
    <3>1. PICK b : b = fat_next_cluster(c)
      OBVIOUS
    <3>2. y = [d EXCEPT !.cur_sector_in_cluster = 0, !.cur_cluster = b]
      BY <1>1, <1>7, <2>2, <3>1 DEF NextSector, FileDesc
    <3>3. y.cur_cluster = b /\ y.cur_sector_in_cluster = 0
          /\ y.handle = d.handle
      BY <3>2 DEF FileDesc
    <3>4. b \in Nat /\ b >= c + 1 /\ b <= lc
      <4>1. c \in 2 .. LastCluster
        BY <1>1, <1>2
      <4>2. b = Table[c] /\ b \in Nat
            /\ (b \in c + 1 .. LastCluster \/ b >= EndOfChain)
        BY <3>1, <4>1, ChainGoesUp
      <4>3. b \in 2 .. lc
        BY <1>1, <1>7, <3>3 DEF HasSector, IsRoot
      <4>4. ASSUME b \notin c + 1 .. LastCluster PROVE FALSE
        BY <1>1, <4>2, <4>3, <4>4, TableAssumption DEF EndOfChain
      <4> QED BY <1>1, <4>2, <4>4
    <3>5. PICK w \in Nat : w = lc + 1 - b /\ w <= u
      BY <1>1, <1>3, <3>4
    <3>6. w * cs \in Nat /\ w * cs <= v
      <4>1. PICK t \in Nat : t = u - w
        BY <3>5
      <4>2. u = w + t
        BY <4>1, <3>5, <1>3
      <4>3. u * cs = w * cs + t * cs /\ t * cs \in Nat /\ w * cs \in Nat
        BY ONLY <4>2, w \in Nat, t \in Nat, cs \in Nat
      <4> QED BY <1>4, <4>3
    <3>7. SectorsLeft(y) = w * cs
      BY <1>1, <3>3, <3>5, <3>6 DEF SectorsLeft
    <3> QED BY <1>2, <1>4, <1>6, <2>2, <3>6, <3>7
  <2> QED BY <2>1, <2>2
<1> QED BY <1>2, <1>4, <1>6, <1>7

LEMMA LeftDrops ==
    ASSUME NEW r \in Reading, r.n # 0, NEW bad, NEW x, x = CopyFromBuffer(r, bad)
    PROVE  Left(r.d) \in Nat /\ Left(x.d) \in Nat /\ Left(x.d) < Left(r.d)
<1>1. PICK g : g = Advanced(r)
  OBVIOUS
<1>2. PICK k : k = Taken(r)
  OBVIOUS
<1>3. /\ g \in Reading /\ HasSector(g.d) /\ k \in 1 .. InBuffer(r.d) /\ k <= r.n
      /\ g.d.pos = r.d.pos + k /\ g.n = r.n - k
      /\ SameFile(r.d, g.d) /\ g.d.size = r.d.size
      /\ g.d.cur_cluster = r.d.cur_cluster
      /\ g.d.cur_sector_in_cluster = r.d.cur_sector_in_cluster
  BY <1>1, <1>2, AdvancedIs
<1>4. x = IF k = InBuffer(r.d) THEN Refill(g, bad) ELSE g
  BY <1>1, <1>2, CopyIs
<1>5. HasSector(r.d) /\ (HasSize(r.d) => r.d.pos + r.n <= r.d.size)
  BY ReadingHasSector
<1>6. /\ r.d \in FileDesc /\ g.d \in FileDesc /\ Sound(r.d)
      /\ r.n \in Nat
  BY <1>3 DEF Reading, SoundDesc
<1>7. PICK pos \in Nat, size \in Nat : pos = r.d.pos /\ size = r.d.size
  BY <1>6 DEF FileDesc
<1>8. InBuffer(r.d) \in 1 .. PerSector
  BY <1>6, InBufferType
<1>9. k \in Nat \ {0} /\ g.d.pos = pos + k /\ g.d.pos # 0
  BY <1>3, <1>7, <1>8, Sizes
<1>10. CASE HasSize(r.d)
  <2>1. pos + k <= size
    BY <1>3, <1>5, <1>6, <1>7, <1>9, <1>10
  <2>2. Left(r.d) = size - pos
    BY <1>7, <1>10 DEF Left
  <2>3. HasSize(g.d) /\ Left(g.d) = size - (pos + k)
    BY <1>3, <1>7, <1>9, <1>10 DEF Left, HasSize, SameFile
  <2>4. CASE k # InBuffer(r.d)
    BY <1>4, <1>9, <2>1, <2>2, <2>3, <2>4
  <2>5. CASE k = InBuffer(r.d)
    <3>1. PICK y : y = NextSector(g.d)
      OBVIOUS
    <3>2. x = Refill(g, bad)
      BY <1>4, <2>5
    <3>3. /\ SameFile(g.d, x.d) /\ x.d.pos = g.d.pos
          /\ AtEnd(g, x, y) \/ GivenUp(g, x, y, bad) \/ Fetched(g, x, y, bad)
      BY ONLY <1>3, <1>9, <3>1, <3>2, RefillIs
    <3>4. x.d.size = x.d.pos \/ x.d.size = size
      BY <1>3, <1>7, <3>3 DEF AtEnd, GivenUp, Fetched
    <3>5. HasSize(x.d)
      BY <1>9, <1>10, <2>3, <3>3, <3>4, <2>1, <1>7 DEF HasSize, SameFile
    <3>6. Left(x.d) = x.d.size - (pos + k)
      BY <1>9, <3>3, <3>5 DEF Left
    <3> QED BY <1>9, <1>7, <2>1, <2>2, <3>3, <3>4, <3>6
  <2> QED BY <2>4, <2>5
<1>11. CASE ~HasSize(r.d)
  <2>1. ~IsRoot(r.d) /\ ~IsRoot(g.d) /\ ~HasSize(g.d)
    BY <1>3, <1>6, <1>11 DEF Sound, HasSize, SameFile, IsRoot
  <2>2. PICK s : s = SectorsLeft(r.d)
    OBVIOUS
  <2>3. s \in Nat \ {0} /\ SectorsLeft(g.d) = s
    BY <1>3, <1>5, <1>6, <2>1, <2>2, SectorsLeftDrops DEF SectorsLeft
  <2>4. PICK at \in 0 .. PerSector - 1 : at = pos % PerSector
    BY <1>7, Sizes, Remainder
  <2>5. PICK ps \in Nat \ {0} : ps = PerSector
    BY Sizes
  <2>6. PICK t \in Nat : t = (s - 1) * ps
    BY <2>3, <2>5
  <2>7. s * ps = t + ps
    <3>1. PICK u \in Nat : u = s - 1
      BY <2>3
    <3>2. s = u + 1 /\ t = u * ps
      BY <2>3, <2>6, <3>1
    <3> QED BY ONLY <3>2, u \in Nat, ps \in Nat \ {0}
  <2>8. Left(r.d) = t + ps - at
    <3>1. Left(r.d) = s * ps - at
      BY <1>7, <1>11, <2>2, <2>4, <2>5 DEF Left
    <3> QED BY ONLY <2>7, <3>1
  <2>9. InBuffer(r.d) = ps - at
    BY <1>7, <2>4, <2>5 DEF InBuffer
  <2>10. CASE k # InBuffer(r.d)
    <3>1. at + k \in 0 .. ps - 1
      BY <1>3, <1>9, <2>4, <2>5, <2>9, <2>10
    <3>2. (pos + k) % ps = at + k
      <4>1. (pos % ps) + k < ps /\ (pos % ps) + k <= ps /\ at = pos % ps /\ k \in Nat
        BY <1>9, <2>4, <2>5, <3>1
      <4>2. (pos + k) % ps = (pos % ps) + k
        BY ONLY <4>1, DivisionAfter, pos \in Nat, ps \in Nat \ {0}
      <4> QED BY ONLY <4>1, <4>2
    <3>3. x = g /\ Left(g.d) = s * ps - (at + k)
      BY <1>4, <1>9, <2>1, <2>3, <2>5, <2>10, <3>2 DEF Left
    <3>4. Left(x.d) = t + ps - (at + k)
      <4>1. Left(x.d) = s * ps - (at + k)
        BY <3>3
      <4>2. at + k \in Nat
        BY <3>1, <2>4, <2>5
      <4> QED BY ONLY <2>6, <2>7, <4>1, <4>2, <2>3, ps \in Nat \ {0}, t \in Nat
    <3> QED BY <1>9, <2>4, <2>5, <2>6, <2>8, <3>1, <3>4
  <2>11. CASE k = InBuffer(r.d)
    <3>1. PICK y : y = NextSector(g.d)
      OBVIOUS
    <3>2. x = Refill(g, bad)
      BY <1>4, <2>11
    <3>3. /\ SameFile(g.d, x.d) /\ x.d.pos = g.d.pos
          /\ x.d.cur_cluster = y.cur_cluster
          /\ x.d.cur_sector_in_cluster = y.cur_sector_in_cluster
          /\ AtEnd(g, x, y) \/ GivenUp(g, x, y, bad) \/ Fetched(g, x, y, bad)
      BY ONLY <1>3, <1>9, <3>1, <3>2, RefillIs
    <3>4. CASE AtEnd(g, x, y)
      <4>1. HasSize(x.d) /\ Left(x.d) = 0
        BY <1>9, <3>3, <3>4, <1>7 DEF AtEnd, HasSize, Left
      <4> QED BY <2>4, <2>5, <2>6, <2>8, <4>1
    <3>5. CASE GivenUp(g, x, y, bad) \/ Fetched(g, x, y, bad)
      <4>1. x.d.size = g.d.size /\ HasSector(x.d)
        BY <3>5 DEF GivenUp, Fetched
      <4>2. ~HasSize(x.d)
        BY <2>1, <3>3, <4>1 DEF HasSize, SameFile
      <4>3. y.handle = g.d.handle
        BY <1>3, <1>6, <3>1, NextSectorIs DEF SameFile
      <4>4. HasSector(y)
        BY <2>1, <3>3, <4>1, <4>3 DEF HasSector, IsRoot, SameFile
      <4>5. SectorsLeft(y) \in 0 .. s - 1
        BY <1>3, <1>6, <2>1, <2>3, <3>1, <4>4, SectorsLeftDrops
      <4>6. PICK u \in 0 .. s - 1 : u = SectorsLeft(x.d)
        BY <3>3, <4>5 DEF SectorsLeft
      <4>7. HasSector(x.d) /\ ~IsRoot(x.d) /\ x.d \in FileDesc
        <5>1. x \in Reading
          BY ONLY <1>3, <1>9, <3>1, <3>2, RefillIs
        <5> QED BY <2>1, <3>3, <4>1, <5>1 DEF SameFile, IsRoot, Reading, SoundDesc
      <4>8. u \in Nat \ {0}
        BY <4>6, <4>7, SectorsLeftDrops
      <4>9. PICK v \in 0 .. PerSector - 1 : v = (pos + k) % PerSector
        <5>1. pos + k \in Nat
          BY <1>9
        <5> QED BY <5>1, Sizes, Remainder
      <4>10. Left(x.d) = u * ps - v
        BY <1>9, <3>3, <4>2, <4>6, <4>9, <2>5 DEF Left
      <4>11. u * ps <= t /\ u * ps >= ps /\ u * ps \in Nat
        <5>1. PICK a \in Nat, b \in Nat : a = (s - 1) - u /\ b = u - 1
          BY <2>3, <4>6, <4>8
        <5>2. s - 1 = u + a /\ u = b + 1
          BY <2>3, <4>8, <5>1
        <5>3. t = u * ps + a * ps /\ a * ps \in Nat /\ u * ps = b * ps + ps /\ b * ps \in Nat
          BY ONLY <2>6, <5>2, u \in Nat, <4>8, a \in Nat, b \in Nat, ps \in Nat \ {0}
        <5> QED BY <4>8, <5>3
      <4> QED BY ONLY <2>4, <2>5, <2>6, <2>8, <4>9, <4>10, <4>11, at \in 0 .. PerSector - 1, t \in Nat, v \in 0 .. PerSector - 1
    <3> QED BY <3>3, <3>4, <3>5
  <2> QED BY <2>10, <2>11
<1> QED BY <1>10, <1>11

LEMMA LeftType ==
    ASSUME NEW d \in SoundDesc
    PROVE  Left(d) \in Nat
<1>1. d \in FileDesc /\ Sound(d)
  BY DEF SoundDesc
<1>2. CASE HasSize(d)
  <2>1. d.pos \in Nat /\ d.size \in Nat /\ d.pos <= d.size
    BY <1>1, <1>2 DEF FileDesc, Sound
  <2> QED BY <1>2, <2>1 DEF Left
<1>3. CASE ~HasSize(d)
  <2>1. HasSector(d) /\ ~IsRoot(d)
    BY <1>1, <1>3 DEF Sound, HasSector
  <2>2. PICK s \in Nat \ {0} : s = SectorsLeft(d)
    BY <1>1, <2>1, SectorsLeftDrops
  <2>3. PICK at \in 0 .. PerSector - 1 : at = d.pos % PerSector
    <3>1. d.pos \in Nat
      BY <1>1 DEF FileDesc
    <3> QED BY <3>1, Sizes, Remainder
  <2>4. PICK ps \in Nat \ {0}, u \in Nat : ps = PerSector /\ s = u + 1
    <3>1. s - 1 \in Nat /\ s = (s - 1) + 1
      OBVIOUS
    <3> QED BY <3>1, Sizes
  <2>5. s * ps = u * ps + ps /\ u * ps \in Nat
    BY ONLY <2>4, u \in Nat, ps \in Nat \ {0}
  <2>6. Left(d) = s * ps - at
    BY <1>3, <2>2, <2>3, <2>4 DEF Left
  <2> QED BY ONLY <2>3, <2>4, <2>5, <2>6, ps \in Nat \ {0}, at \in 0 .. PerSector - 1
<1> QED BY <1>2, <1>3

LEMMA ReadIs ==
    ASSUME NEW d \in SoundDesc, NEW n \in Nat, NEW bad, NEW x, x = fat_read(d, n, bad)
    PROVE  x \in Reading /\ SameFile(d, x.d) /\ x.n = 0
<1> DEFINE I == {r \in Reading : SameFile(d, r.d)}
<1>1. First(d, n) \in I
  BY FirstIs DEF SameFile
<1>2. ASSUME NEW r \in I, r.n # 0 PROVE CopyFromBuffer(r, bad) \in I
  <2>1. PICK y : y = CopyFromBuffer(r, bad)
    OBVIOUS
  <2>2. y \in Reading /\ SameFile(r.d, y.d)
    BY <1>2, <2>1, CopyStep
  <2> QED BY <2>1, <2>2 DEF SameFile
<1>3. I \subseteq Reading
  OBVIOUS
<1>4. x \in I /\ x.n = 0
  <2> HIDE DEF I
  <2> QED BY <1>1, <1>2, <1>3, FatReadKeeps
<1> QED BY <1>4

(* A read of one record takes one turn, or none at the end of the file.    *)
LEMMA OneRead ==
    ASSUME NEW d \in SoundDesc, NEW bad, NEW x, x = fat_read(d, 1, bad)
    PROVE  /\ x \in Reading /\ SameFile(d, x.d)
           /\ \/ Clip(d, 1) = 0 /\ x = First(d, 1) /\ x.data = <<>>
              \/ /\ Clip(d, 1) = 1 /\ x = CopyFromBuffer(First(d, 1), bad)
                 /\ Left(x.d) \in Nat /\ Left(d) \in Nat /\ Left(x.d) < Left(d)
                 /\ x.data = <<<<d.buffer, d.pos % PerSector>>>>
<1>1. PICK f : f = First(d, 1)
  OBVIOUS
<1>2. /\ f \in Reading /\ f.d = d /\ f.n = Clip(d, 1) /\ f.data = <<>>
      /\ Clip(d, 1) \in Nat /\ Clip(d, 1) <= 1
  <2>1. 1 \in Nat
    OBVIOUS
  <2>2. /\ First(d, 1) \in Reading
        /\ First(d, 1).d = d /\ First(d, 1).n = Clip(d, 1)
        /\ First(d, 1).data = <<>>
        /\ Clip(d, 1) \in Nat /\ Clip(d, 1) <= 1
    BY ONLY <2>1, FirstIs, d \in SoundDesc
  <2> QED BY ONLY <1>1, <2>2
<1>3. d \in FileDesc
  BY DEF SoundDesc
<1>4. CASE f.n = 0
  <2>1. \A r \in {f} : r.n # 0 => CopyFromBuffer(r, bad) \in {f}
    BY <1>4
  <2>2. x \in {f}
    <3>1. {f} \subseteq Reading /\ First(d, 1) \in {f}
      BY <1>1, <1>2
    <3> QED BY <2>1, <3>1, FatReadKeeps
  <2> QED BY <1>1, <1>2, <1>4, <2>2 DEF SameFile
<1>5. CASE f.n = 1
  <2>1. PICK c : c = CopyFromBuffer(f, bad)
    OBVIOUS
  <2>2. /\ c \in Reading /\ SameFile(d, c.d)
        /\ Taken(f) \in 1 .. InBuffer(f.d) /\ Taken(f) <= f.n
        /\ c.n <= f.n - Taken(f)
        /\ c.data = Copied(f)
    <3>1. f \in Reading /\ f.n # 0
      BY <1>2, <1>5
    <3> QED BY <1>2, <2>1, <3>1, CopyStep
  <2>3. Taken(f) = 1 /\ c.n = 0
    <3>1. InBuffer(f.d) \in Nat
      BY <1>2, <1>3, InBufferType, Sizes
    <3>2. c.n \in Nat
      BY <2>2 DEF Reading
    <3> QED BY <1>5, <2>2, <3>1, <3>2
  <2>4. Left(c.d) \in Nat /\ Left(d) \in Nat /\ Left(c.d) < Left(d)
    BY <1>2, <1>5, <2>1, LeftDrops
  <2>5. c.data = <<<<d.buffer, d.pos % PerSector>>>>
    <3>1. PICK at \in Nat : at = d.pos % PerSector
      <4>1. d.pos \in Nat
        BY <1>3 DEF FileDesc
      <4> QED BY <4>1, Sizes, Remainder
    <3>2. d.buffer \in Nat
      BY <1>3 DEF FileDesc
    <3>3. Piece(d, 1) = [i \in 1 .. 1 |-> <<d.buffer, at + i - 1>>]
      BY <3>1 DEF Piece
    <3>4. \A i \in 1 .. 1 : i = 1 /\ <<d.buffer, at + i - 1>> = <<d.buffer, at>>
      OBVIOUS
    <3>5. Piece(d, 1) = <<<<d.buffer, at>>>>
      BY <3>3, <3>4
    <3>6. <<<<d.buffer, at>>>> \in Seq(Nat \X Nat)
      BY <3>2
    <3>7. c.data = <<>> \o Piece(d, 1)
      BY <1>2, <2>2, <2>3 DEF Copied
    <3>8. <<>> \o <<<<d.buffer, at>>>> = <<<<d.buffer, at>>>>
      BY ONLY <3>6, ConcatEmptySeq
    <3> QED BY ONLY <3>1, <3>5, <3>7, <3>8
  <2>6. \A r \in {f, c} : r.n # 0 => CopyFromBuffer(r, bad) \in {f, c}
    BY <2>1, <2>3
  <2>7. x \in {f, c} /\ x.n = 0
    <3>1. {f, c} \subseteq Reading /\ First(d, 1) \in {f, c}
      BY <1>1, <1>2, <2>2
    <3> QED BY <2>6, <3>1, FatReadKeeps
  <2>8. x = c
    BY <1>5, <2>7
  <2> QED BY <1>1, <1>2, <1>5, <2>1, <2>2, <2>4, <2>5, <2>8
<1> QED BY <1>2, <1>4, <1>5

(* A record that is the entry of that name.                                *)
HasName(p, name) == p \in DOMAIN Entries /\ Entries[p].name = name

(* What fat_find_file has read last has every property that its first read *)
(* has and every other keeps that has not found the name.                  *)
LEMMA FindKeeps ==
    ASSUME NEW d \in SoundDesc, NEW name, NEW bad,
           NEW I, I \subseteq Reading, fat_read(d, 1, bad) \in I,
           \A r \in I : r.data # <<>> /\ ~HasName(r.data[1], name) =>
              fat_read(r.d, 1, bad) \in I,
           NEW f, f = fat_find_file(d, name, bad)
    PROVE  \E q \in I :
              /\ f.d = q.d
              /\ \/ f.place = NoPlace /\ q.data = <<>>
                 \/ /\ q.data # <<>> /\ f.place = q.data[1]
                    /\ f.place \in DOMAIN Entries /\ Entries[f.place].name = name
<1> DEFINE Here(r) == r.data[1] \in DOMAIN Entries /\ Entries[r.data[1]].name = name
           D == {r \in Reading : r.data = <<>> \/ Here(r)}
           next == [r \in Reading |-> fat_read(r.d, 1, bad)]
           out == [r \in Reading |-> IF r.data = <<>> THEN [d |-> r.d, place |-> NoPlace]
                                     ELSE [d |-> r.d, place |-> r.data[1]]]
           m == [r \in Reading |-> IF r.data = <<>> THEN 0 ELSE Left(r.d) + 1]
           L == CHOOSE g : g = [r \in Reading |->
                   IF r.data = <<>> THEN [d |-> r.d, place |-> NoPlace]
                   ELSE IF r.data[1] \in DOMAIN Entries /\ Entries[r.data[1]].name = name
                   THEN [d |-> r.d, place |-> r.data[1]]
                   ELSE g[fat_read(r.d, 1, bad)]]
<1>1. \A r \in Reading : r.d \in SoundDesc
  BY DEF Reading
<1>2. Ends(Reading, D, next, m)
  <2>1. ASSUME NEW e \in SoundDesc PROVE Left(e) \in Nat
    BY LeftType
  <2>2. \A r \in Reading : m[r] \in Nat
    BY <1>1, <2>1
  <2>3. ASSUME NEW r \in Reading, r.data # <<>>
        PROVE  next[r] \in Reading /\ m[next[r]] < m[r]
    <3>1. PICK x : x = fat_read(r.d, 1, bad)
      OBVIOUS
    <3>2. /\ x \in Reading
          /\ x.data = <<>> \/ (Left(x.d) \in Nat /\ Left(r.d) \in Nat /\ Left(x.d) < Left(r.d))
      BY <1>1, <3>1, OneRead
    <3>3. Left(r.d) \in Nat
      BY <1>1, <2>1
    <3> QED BY <2>3, <3>1, <3>2, <3>3
  <2> HIDE DEF next, m
  <2> QED BY <2>2, <2>3 DEF Ends
<1>3. \A g : Computes(g, Reading, D, next, out) <=>
               g = [r \in Reading |->
                   IF r.data = <<>> THEN [d |-> r.d, place |-> NoPlace]
                   ELSE IF r.data[1] \in DOMAIN Entries /\ Entries[r.data[1]].name = name
                   THEN [d |-> r.d, place |-> r.data[1]]
                   ELSE g[fat_read(r.d, 1, bad)]]
  BY DEF Computes
<1>4. Computes(L, Reading, D, next, out)
  <2>1. \E g : Computes(g, Reading, D, next, out)
    <3> HIDE DEF D, next, out, m
    <3> QED BY <1>2, LoopExists
  <2>2. \E g : g = [r \in Reading |->
                   IF r.data = <<>> THEN [d |-> r.d, place |-> NoPlace]
                   ELSE IF r.data[1] \in DOMAIN Entries /\ Entries[r.data[1]].name = name
                   THEN [d |-> r.d, place |-> r.data[1]]
                   ELSE g[fat_read(r.d, 1, bad)]]
    <3> HIDE DEF D, next, out
    <3> QED BY <1>3, <2>1
  <2>3. L = [r \in Reading |->
                   IF r.data = <<>> THEN [d |-> r.d, place |-> NoPlace]
                   ELSE IF r.data[1] \in DOMAIN Entries /\ Entries[r.data[1]].name = name
                   THEN [d |-> r.d, place |-> r.data[1]]
                   ELSE L[fat_read(r.d, 1, bad)]]
    BY <2>2
  <2> HIDE DEF D, next, out, L
  <2> QED BY <1>3, <2>3
<1>5. \A r \in I \ D : next[r] \in I
  BY DEF HasName
<1>6. PICK q \in I : q \in D /\ L[fat_read(d, 1, bad)] = out[q]
  <2> HIDE DEF D, next, out, L, m
  <2> QED BY <1>2, <1>4, <1>5, LoopKeeps
<1>7. f = out[q]
  <2>1. f = L[fat_read(d, 1, bad)]
    BY DEF fat_find_file
  <2> HIDE DEF L, out
  <2> QED BY <1>6, <2>1
<1>8. f.d = q.d /\ f.place = IF q.data = <<>> THEN NoPlace ELSE q.data[1]
  <2> HIDE DEF L
  <2> QED BY <1>6, <1>7
<1> HIDE DEF L
<1> QED BY <1>6, <1>8

(* What is found is in the same file, and is an entry or none.             *)
LEMMA FindIs ==
    ASSUME NEW d \in SoundDesc, NEW name, NEW bad,
           NEW f, f = fat_find_file(d, name, bad)
    PROVE  /\ f.d \in SoundDesc /\ SameFile(d, f.d)
           /\ f.place = NoPlace \/ f.place \in DOMAIN Entries
<1> DEFINE I == {r \in Reading : SameFile(d, r.d)}
<1>1. fat_read(d, 1, bad) \in I
  BY OneRead
<1>2. ASSUME NEW r \in I PROVE fat_read(r.d, 1, bad) \in I
  <2>1. r.d \in SoundDesc /\ SameFile(d, r.d)
    BY DEF Reading
  <2>2. fat_read(r.d, 1, bad) \in Reading /\ SameFile(r.d, fat_read(r.d, 1, bad).d)
    BY <2>1, OneRead
  <2> QED BY <2>1, <2>2 DEF SameFile
<1>3. PICK q \in I : /\ f.d = q.d
                     /\ f.place = NoPlace \/ f.place \in DOMAIN Entries
  <2>1. I \subseteq Reading /\ \A r \in I : r.data # <<>> => fat_read(r.d, 1, bad) \in I
    BY <1>2
  <2> HIDE DEF I
  <2> QED BY <1>1, <2>1, FindKeeps
<1> QED BY <1>3 DEF Reading

-----------------------------------------------------------------------------
(* Opening and closing                                                     *)

LEMMA UnusedIs ==
    ASSUME NEW h \in Handle
    PROVE  Unused(h) \in SoundDesc /\ Unused(h).handle = h /\ Unused(h).opened = FALSE
<1>1. h \in Desc /\ h # ROOT_DIR_HANDLE
  BY Sizes DEF Handle, Desc, ROOT_DIR_HANDLE
<1> QED BY <1>1, Sizes DEF Unused, SoundDesc, FileDesc, Sound, HasSize, IsRoot

LEMMA CloseIs ==
    ASSUME NEW f \in Descriptors, NEW h \in Desc, NEW x, x = fat_close(f, h)
    PROVE  /\ x \in Descriptors
           /\ \A g \in Desc : x[g].opened = (f[g].opened /\ ~(g = h /\ g \in Handle))
           /\ \A g \in Desc \ {h} : x[g] = f[g]
<1>1. f \in [Desc -> SoundDesc] /\ \A g \in Desc : f[g].handle = g
  BY DEF Descriptors
<1>2. \A g \in Desc : f[g].opened \in BOOLEAN
  BY <1>1 DEF SoundDesc, FileDesc
<1>3. CASE h = ROOT_DIR_HANDLE
  <2>1. PICK b : b = f[h].first_cluster
    OBVIOUS
  <2>2. x = [f EXCEPT ![h].pos = 0, ![h].cur_cluster = b]
    BY <1>3, <2>1 DEF fat_close
  <2>3. PICK e : e = [f[h] EXCEPT !.pos = 0, !.cur_cluster = b]
    OBVIOUS
  <2>4. x = [f EXCEPT ![h] = e]
    BY <1>1, <2>2, <2>3
  <2>5. /\ e \in SoundDesc /\ e.handle = h /\ e.opened = f[h].opened
    <3>1. f[h] \in FileDesc /\ Sound(f[h]) /\ IsRoot(f[h])
      BY <1>1, <1>3 DEF SoundDesc, IsRoot
    <3>2. b \in Nat
      BY <2>1, <3>1 DEF FileDesc
    <3>3. PICK c : c = [f[h] EXCEPT !.pos = 0]
      OBVIOUS
    <3>4. /\ c \in FileDesc /\ c.handle = f[h].handle /\ c.opened = f[h].opened
          /\ c.is_dir = f[h].is_dir /\ c.size = f[h].size /\ c.pos = 0
      BY <3>1, <3>3 DEF FileDesc
    <3>5. e = [c EXCEPT !.cur_cluster = b]
      BY <2>3, <3>3
    <3>6. /\ e \in FileDesc /\ e.handle = f[h].handle /\ e.opened = f[h].opened
          /\ e.is_dir = f[h].is_dir /\ e.size = f[h].size /\ e.pos = 0
      BY <3>2, <3>4, <3>5 DEF FileDesc
    <3>7. IsRoot(e) /\ HasSize(e) /\ e.pos <= e.size
      BY <3>1, <3>6 DEF IsRoot, HasSize, Sound, FileDesc
    <3> QED BY <1>1, <3>6, <3>7 DEF SoundDesc, Sound
  <2>6. h \notin Handle
    BY <1>3, Sizes DEF Handle, ROOT_DIR_HANDLE
  <2> QED BY <1>1, <1>2, <2>4, <2>5, <2>6 DEF Descriptors
<1>4. CASE h # ROOT_DIR_HANDLE
  <2>1. h \in Handle
    BY <1>4 DEF Desc
  <2>2. x = [f EXCEPT ![h] = Unused(h)]
    BY <1>4 DEF fat_close
  <2>3. PICK e : e = Unused(h)
    OBVIOUS
  <2>4. e \in SoundDesc /\ e.handle = h /\ e.opened = FALSE
    BY ONLY <2>1, <2>3, UnusedIs
  <2>5. x = [f EXCEPT ![h] = e] /\ x[h] = e /\ \A g \in Desc \ {h} : x[g] = f[g]
    BY <1>1, <2>2, <2>3
  <2>6. x \in Descriptors
    BY <1>1, <2>4, <2>5 DEF Descriptors
  <2> QED BY <1>2, <2>1, <2>4, <2>5, <2>6
<1> QED BY <1>3, <1>4

LEMMA EntryType ==
    ASSUME NEW p \in DOMAIN Entries
    PROVE  /\ Entries[p].name \in STRING /\ Entries[p].is_dir \in BOOLEAN
           /\ Entries[p].first \in Nat /\ Entries[p].size \in Nat
           /\ HasCluster(Entries[p])
BY DiskAssumption DEF Entry

AtStart(x, h, e) ==
    /\ x.handle = h /\ x.is_dir = e.is_dir /\ x.first_cluster = e.first
    /\ x.pos = 0 /\ x.size = e.size
    /\ x.cur_cluster = e.first /\ x.cur_sector_in_cluster = 0
    /\ x.buffer = cluster_to_lba(e.first)

LEMMA OpenedIs ==
    ASSUME NEW p \in DOMAIN Entries, NEW h \in Handle, NEW x, x = Opened(h, Entries[p])
    PROVE  x \in SoundDesc /\ x.opened = TRUE /\ AtStart(x, h, Entries[p])
<1>1. h \in Desc /\ h # ROOT_DIR_HANDLE
  BY Sizes DEF Handle, Desc, ROOT_DIR_HANDLE
<1>2. PICK b : b = cluster_to_lba(Entries[p].first)
  OBVIOUS
<1>3. PICK first \in Nat, size \in Nat, dir \in BOOLEAN :
          first = Entries[p].first /\ size = Entries[p].size /\ dir = Entries[p].is_dir
  BY EntryType
<1>4. b \in Nat
  <2>1. PICK cs \in Nat \ {0}, lba \in Nat : cs = cluster_sectors /\ lba = data_lba
    BY Sizes
  <2>2. lba >= 2 * cs
    BY <2>1, DiskAssumption DEF data_lba
  <2>3. b = lba + (first - 2) * cs
    BY <1>2, <1>3, <2>1 DEF cluster_to_lba
  <2>4. (first - 2) * cs = first * cs - 2 * cs /\ first * cs \in Nat
    BY ONLY first \in Nat, cs \in Nat \ {0}
  <2> QED BY <2>2, <2>3, <2>4
<1>5. x = [handle |-> h, opened |-> TRUE, is_dir |-> dir, pos |-> 0, size |-> size,
           first_cluster |-> first, cur_cluster |-> first,
           cur_sector_in_cluster |-> 0, buffer |-> b]
  BY <1>2, <1>3 DEF Opened
<1>6. first \in 2 .. LastCluster \/ (size = 0 /\ ~dir)
  BY <1>3, EntryType DEF HasCluster
<1>7. x \in FileDesc
  BY <1>1, <1>4, <1>5 DEF FileDesc
<1>8. Sound(x)
  BY <1>1, <1>5, <1>6, Sizes DEF Sound, HasSize, IsRoot
<1> QED BY <1>2, <1>3, <1>5, <1>7, <1>8 DEF SoundDesc, AtStart

(* An entry is opened at a free handle, or nothing changes.                *)
LEMMA OpenEntryIs ==
    ASSUME NEW f \in Descriptors, NEW p \in DOMAIN Entries, NEW bad,
           NEW o, o = fat_open_entry(f, Entries[p], bad)
    PROVE  /\ o.fd \in Descriptors
           /\ \/ o.file = Null /\ o.fd = f
              \/ /\ o.file \in Handle /\ ~f[o.file].opened
                 /\ o.fd = [f EXCEPT ![o.file] = Opened(o.file, Entries[p])]
<1> DEFINE free == {h \in Handle : ~f[h].opened}
           h == CHOOSE g \in free : \A k \in free : g <= k
<1>1. CASE free = {} \/ cluster_to_lba(Entries[p].first) \in bad
  <2>1. o = [fd |-> f, file |-> Null]
    <3> HIDE DEF h
    <3> QED BY <1>1 DEF fat_open_entry
  <2> QED BY <2>1
<1>2. CASE ~(free = {} \/ cluster_to_lba(Entries[p].first) \in bad)
  <2>1. h \in free
    <3>1. \E g \in free : \A k \in free : g <= k
      <4>1. free \subseteq Nat
        BY Sizes DEF Handle
      <4> HIDE DEF free
      <4> QED BY <1>2, <4>1, LeastExists
    <3> HIDE DEF free
    <3> QED BY <3>1
  <2>2. o = [fd |-> [f EXCEPT ![h] = Opened(h, Entries[p])], file |-> h]
    <3>1. fat_open_entry(f, Entries[p], bad)
             = [fd |-> [f EXCEPT ![h] = Opened(h, Entries[p])], file |-> h]
      <4>1. fat_open_entry(f, Entries[p], bad) =
               IF free = {} \/ cluster_to_lba(Entries[p].first) \in bad
               THEN [fd |-> f, file |-> Null]
               ELSE [fd |-> [f EXCEPT ![h] = Opened(h, Entries[p])], file |-> h]
        BY DEF fat_open_entry
      <4> HIDE DEF h, free
      <4> QED BY <1>2, <4>1
    <3> HIDE DEF h
    <3> QED BY <3>1
  <2>3. PICK g \in Handle : g = h /\ ~f[g].opened
    <3> HIDE DEF h
    <3> QED BY <2>1
  <2>4. PICK e : e = Opened(g, Entries[p])
    OBVIOUS
  <2>5. o = [fd |-> [f EXCEPT ![g] = e], file |-> g]
    <3> HIDE DEF h
    <3> QED BY <2>2, <2>3, <2>4
  <2>6. e \in SoundDesc /\ e.handle = g
    BY <2>4, OpenedIs DEF AtStart
  <2>7. g \in Desc
    BY DEF Desc
  <2>8. o.fd = [f EXCEPT ![g] = e] /\ o.file = g
    BY <2>5
  <2>9. o.fd \in Descriptors
    BY <2>6, <2>7, <2>8 DEF Descriptors
  <2> QED BY <2>3, <2>4, <2>8, <2>9
<1> HIDE DEF free
<1> QED BY <1>1, <1>2

OpenHandles(f) == {h \in Handle : f[h].opened}

Freed(f, closed, h) ==
    /\ closed \in Descriptors
    /\ OpenHandles(closed) = OpenHandles(f) \ {h}
    /\ \A g \in Handle \ {h} : closed[g] = f[g]

(* With the directory closed, the file at the place is open, or none.      *)
Entered(s, x, closed, place) ==
    \/ x.fd = closed /\ x.file = Null
    \/ /\ place \in DOMAIN Entries /\ place # NoPlace
       /\ x.file \in Handle \ OpenHandles(closed)
       /\ x.fd = [closed EXCEPT ![x.file] = Opened(x.file, Entries[place])]
       /\ x.rest = Tail(s.rest)

(* One name of a path: the handle it came from is free again, and that of  *)
(* what was found, if any, is the only new one.                            *)
LEMMA EnterIs ==
    ASSUME NEW s \in Walking, s.rest # <<>>, s.file # Null, NEW bad,
           NEW found, found = fat_find_file(s.fd[s.file], Head(s.rest), bad),
           NEW x, x = Enter(s, found, bad),
           NEW closed, closed = fat_close([s.fd EXCEPT ![s.file] = found.d], s.file)
    PROVE  /\ x \in Walking /\ Len(x.rest) < Len(s.rest)
           /\ Freed(s.fd, closed, s.file)
           /\ Entered(s, x, closed, found.place)
<1> USE DEF Entered, Freed
<1>1. /\ s.fd \in Descriptors /\ s.file \in Desc
      /\ s.rest \in Seq(STRING)
  BY DEF Walking
<1>2. s.fd \in [Desc -> SoundDesc] /\ \A g \in Desc : s.fd[g].handle = g
  BY <1>1 DEF Descriptors
<1>3. /\ found.d \in SoundDesc /\ SameFile(s.fd[s.file], found.d)
      /\ found.place = NoPlace \/ found.place \in DOMAIN Entries
  BY <1>1, <1>2, FindIs
<1>4. PICK f : f = [s.fd EXCEPT ![s.file] = found.d]
  OBVIOUS
<1>5. /\ f \in Descriptors
      /\ \A g \in Desc : f[g].opened = s.fd[g].opened
      /\ \A g \in Desc \ {s.file} : f[g] = s.fd[g]
  BY <1>1, <1>2, <1>3, <1>4 DEF Descriptors, SameFile
<1>6. closed = fat_close(f, s.file)
  BY <1>4
<1>7. /\ closed \in Descriptors
      /\ \A g \in Desc : closed[g].opened = (f[g].opened /\ ~(g = s.file /\ g \in Handle))
      /\ \A g \in Desc \ {s.file} : closed[g] = f[g]
  BY <1>1, <1>5, <1>6, CloseIs
<1>8. Handle \subseteq Desc
  BY DEF Desc
<1>9. OpenHandles(closed) = OpenHandles(s.fd) \ {s.file}
  BY <1>5, <1>7, <1>8 DEF OpenHandles
<1>10. \A g \in Handle \ {s.file} : closed[g] = s.fd[g]
  BY <1>5, <1>7, <1>8
<1>11. PICK t \in Seq(STRING) : t = Tail(s.rest) /\ Len(t) < Len(s.rest)
  <2>1. PICK rest \in Seq(STRING) : rest = s.rest /\ rest # <<>>
    BY <1>1
  <2>2. Tail(rest) \in Seq(STRING) /\ Len(Tail(rest)) = Len(rest) - 1
    BY ONLY <2>1, HeadTailProperties, rest \in Seq(STRING)
  <2>3. Len(rest) \in Nat
    BY ONLY LenProperties, rest \in Seq(STRING)
  <2>4. Len(Tail(rest)) < Len(rest)
    BY ONLY <2>2, <2>3
  <2> QED BY <2>1, <2>2, <2>4
<1>12. PICK e \in Seq(STRING) : e = <<>> /\ Len(e) < Len(s.rest)
  <2>1. PICK rest \in Seq(STRING) : rest = s.rest /\ rest # <<>>
    BY <1>1
  <2>2. Len(rest) \in Nat \ {0} /\ <<>> \in Seq(STRING) /\ Len(<<>>) = 0
    BY ONLY <2>1, EmptySeq, rest \in Seq(STRING)
  <2>3. Len(<<>>) < Len(rest)
    BY ONLY <2>2
  <2> QED BY <2>1, <2>2, <2>3
<1>13. CASE found.place = NoPlace
  <2>1. x = [fd |-> closed, file |-> Null, rest |-> e]
    BY <1>4, <1>6, <1>12, <1>13 DEF Enter
  <2>2. x \in Walking
    BY <1>7, <2>1 DEF Walking
  <2>3. x.fd = closed /\ x.file = Null /\ x.rest = e
    BY ONLY <2>1
  <2> QED BY <1>4, <1>6, <1>7, <1>9, <1>10, <1>12, <2>2, <2>3
<1>14. CASE found.place # NoPlace
  <2>1. PICK p \in DOMAIN Entries : p = found.place
    BY <1>3, <1>14
  <2>2. PICK o : o = fat_open_entry(closed, Entries[p], bad)
    OBVIOUS
  <2>3. /\ o.fd \in Descriptors
        /\ \/ o.file = Null /\ o.fd = closed
           \/ /\ o.file \in Handle /\ ~closed[o.file].opened
              /\ o.fd = [closed EXCEPT ![o.file] = Opened(o.file, Entries[p])]
    BY ONLY <1>7, <2>2, OpenEntryIs, p \in DOMAIN Entries
  <2>4. x = [fd |-> o.fd, file |-> o.file, rest |-> t]
    BY <1>4, <1>6, <1>11, <1>14, <2>1, <2>2 DEF Enter
  <2>5. x.fd = o.fd /\ x.file = o.file /\ x.rest = t
    BY ONLY <2>4
  <2>6. x \in Walking
    BY <1>8, <2>3, <2>4 DEF Walking
  <2> QED BY <1>4, <1>6, <1>7, <1>9, <1>10, <1>11, <1>14, <2>1, <2>3, <2>5, <2>6 DEF OpenHandles
<1> QED BY <1>13, <1>14

(* Where fat_open ends has every property that it begins with and every    *)
(* name keeps.                                                             *)
LEMMA FatOpenKeeps ==
    ASSUME NEW f \in Descriptors, NEW path \in Seq(STRING), NEW bad,
           NEW I, I \subseteq Walking,
           [fd |-> f, file |-> ROOT_DIR_HANDLE, rest |-> path] \in I,
           \A s \in I : s.rest # <<>> /\ s.file # Null =>
              Enter(s, fat_find_file(s.fd[s.file], Head(s.rest), bad), bad) \in I,
           NEW o, o = fat_open(f, path, bad)
    PROVE  \E s \in I :
              \/ s.rest = <<>> /\ o = s
              \/ s.file = Null /\ o.fd = s.fd /\ o.file = Wild
<1> DEFINE D == {s \in Walking : s.rest = <<>> \/ s.file = Null}
           next == [s \in Walking |->
                      Enter(s, fat_find_file(s.fd[s.file], Head(s.rest), bad), bad)]
           out == [s \in Walking |-> IF s.rest = <<>> THEN s ELSE [s EXCEPT !.file = Wild]]
           m == [s \in Walking |-> Len(s.rest)]
           L == CHOOSE g : g = [s \in Walking |->
                   IF s.rest = <<>> THEN s
                   ELSE IF s.file = Null THEN [s EXCEPT !.file = Wild]
                   ELSE g[Enter(s, fat_find_file(s.fd[s.file], Head(s.rest), bad), bad)]]
           init == [fd |-> f, file |-> ROOT_DIR_HANDLE, rest |-> path]
<1>1. Ends(Walking, D, next, m)
  <2>1. \A s \in Walking : m[s] \in Nat
    BY LenProperties DEF Walking
  <2>2. ASSUME NEW s \in Walking, s.rest # <<>>, s.file # Null
        PROVE  next[s] \in Walking /\ m[next[s]] < m[s]
    <3>1. PICK found, x, closed :
             /\ found = fat_find_file(s.fd[s.file], Head(s.rest), bad)
             /\ x = Enter(s, found, bad)
             /\ closed = fat_close([s.fd EXCEPT ![s.file] = found.d], s.file)
      OBVIOUS
    <3>2. x \in Walking /\ Len(x.rest) < Len(s.rest)
      BY <2>2, <3>1, EnterIs
    <3> QED BY <3>1, <3>2
  <2> HIDE DEF next, m
  <2> QED BY <2>1, <2>2 DEF Ends
<1>2. \A g : Computes(g, Walking, D, next, out) <=>
               g = [s \in Walking |->
                   IF s.rest = <<>> THEN s
                   ELSE IF s.file = Null THEN [s EXCEPT !.file = Wild]
                   ELSE g[Enter(s, fat_find_file(s.fd[s.file], Head(s.rest), bad), bad)]]
  BY DEF Computes
<1>3. Computes(L, Walking, D, next, out)
  <2>1. \E g : Computes(g, Walking, D, next, out)
    <3> HIDE DEF D, next, out, m
    <3> QED BY <1>1, LoopExists
  <2>2. \E g : g = [s \in Walking |->
                   IF s.rest = <<>> THEN s
                   ELSE IF s.file = Null THEN [s EXCEPT !.file = Wild]
                   ELSE g[Enter(s, fat_find_file(s.fd[s.file], Head(s.rest), bad), bad)]]
    <3> HIDE DEF D, next, out
    <3> QED BY <1>2, <2>1
  <2>3. L = [s \in Walking |->
                   IF s.rest = <<>> THEN s
                   ELSE IF s.file = Null THEN [s EXCEPT !.file = Wild]
                   ELSE L[Enter(s, fat_find_file(s.fd[s.file], Head(s.rest), bad), bad)]]
    BY <2>2
  <2> HIDE DEF D, next, out, L
  <2> QED BY <1>2, <2>3
<1>4. \A s \in I \ D : next[s] \in I
  OBVIOUS
<1>5. PICK s \in I : s \in D /\ L[init] = out[s]
  <2> HIDE DEF D, next, out, L, m
  <2> QED BY <1>1, <1>3, <1>4, LoopKeeps
<1>6. o = out[s]
  <2>1. o = L[init]
    BY DEF fat_open
  <2> HIDE DEF L, out, init
  <2> QED BY <1>5, <2>1
<1>7. CASE s.rest = <<>>
  <2>1. o = s
    <3> HIDE DEF L
    <3> QED BY <1>5, <1>6, <1>7
  <2> QED BY <1>7, <2>1
<1>8. CASE s.rest # <<>>
  <2>1. s.file = Null /\ o = [s EXCEPT !.file = Wild] /\ s \in Walking
    <3> HIDE DEF L
    <3> QED BY <1>5, <1>6, <1>8
  <2>2. o.fd = s.fd /\ o.file = Wild
    BY <2>1 DEF Walking
  <2> QED BY <2>1, <2>2
<1> QED BY <1>7, <1>8

(* The handles marked open after fat_open are those of before and, if      *)
(* there is one, the handle it returns, which was free; the descriptors of *)
(* other files are as they were.                                           *)
LEMMA OpenIs ==
    ASSUME NEW f \in Descriptors, NEW path \in Seq(STRING), NEW bad,
           NEW o, o = fat_open(f, path, bad)
    PROVE  /\ o.fd \in Descriptors
           /\ o.file \in Handle => o.file \notin OpenHandles(f)
           /\ OpenHandles(o.fd) = OpenHandles(f) \cup ({o.file} \cap Handle)
           /\ \A h \in OpenHandles(f) : o.fd[h] = f[h]
<1> DEFINE I == {s \in Walking :
                   /\ OpenHandles(s.fd) = OpenHandles(f) \cup ({s.file} \cap Handle)
                   /\ s.file \notin OpenHandles(f)
                   /\ \A h \in OpenHandles(f) : s.fd[h] = f[h]}
           init == [fd |-> f, file |-> ROOT_DIR_HANDLE, rest |-> path]
<1>1. ROOT_DIR_HANDLE \notin Handle /\ ROOT_DIR_HANDLE \in Desc
      /\ Null \notin Handle /\ Wild \notin Handle
  BY Sizes DEF Handle, Desc, ROOT_DIR_HANDLE, Null, Wild
<1>2. init \in I
  <2>1. init \in Walking /\ init.fd = f /\ init.file = ROOT_DIR_HANDLE
    BY <1>1 DEF Walking
  <2> HIDE DEF init
  <2> QED BY <1>1, <2>1 DEF OpenHandles
<1>3. ASSUME NEW s \in I, s.rest # <<>>, s.file # Null
      PROVE  Enter(s, fat_find_file(s.fd[s.file], Head(s.rest), bad), bad) \in I
  <2>1. PICK found, x : /\ found = fat_find_file(s.fd[s.file], Head(s.rest), bad)
                        /\ x = Enter(s, found, bad)
    OBVIOUS
  <2>2. PICK closed : closed = fat_close([s.fd EXCEPT ![s.file] = found.d], s.file)
    OBVIOUS
  <2>3. /\ x \in Walking
        /\ OpenHandles(closed) = OpenHandles(s.fd) \ {s.file}
        /\ \A g \in Handle \ {s.file} : closed[g] = s.fd[g]
        /\ closed \in Descriptors
        /\ Entered(s, x, closed, found.place)
    <3>1. s \in Walking /\ s.rest # <<>> /\ s.file # Null
      BY <1>3
    <3>2. /\ x \in Walking /\ Freed(s.fd, closed, s.file)
          /\ Entered(s, x, closed, found.place)
      BY ONLY <2>1, <2>2, <3>1, EnterIs
    <3> QED BY ONLY <3>2 DEF Freed
  <2>4. OpenHandles(closed) = OpenHandles(f)
    BY <2>3 DEF OpenHandles
  <2>5. \A h \in OpenHandles(f) : h \in Handle \ {s.file} /\ closed[h] = f[h]
    BY <2>3 DEF OpenHandles
  <2>6. CASE x.fd = closed /\ x.file = Null
    BY <1>1, <2>1, <2>3, <2>4, <2>5, <2>6 DEF OpenHandles
  <2>7. CASE /\ found.place \in DOMAIN Entries
             /\ x.file \in Handle \ OpenHandles(closed)
             /\ x.fd = [closed EXCEPT ![x.file] = Opened(x.file, Entries[found.place])]
    <3>1. PICK e : e = Opened(x.file, Entries[found.place])
      OBVIOUS
    <3>2. e.opened = TRUE
      BY <2>7, <3>1, OpenedIs
    <3>3. x.fd = [closed EXCEPT ![x.file] = e] /\ closed \in [Desc -> SoundDesc]
      BY <2>3, <2>7, <3>1 DEF Descriptors
    <3>4. OpenHandles(x.fd) = OpenHandles(closed) \cup {x.file}
      BY <2>7, <3>2, <3>3 DEF OpenHandles, Desc
    <3>5. \A h \in OpenHandles(f) : x.fd[h] = f[h]
      BY <2>4, <2>5, <2>7, <3>3 DEF Desc
    <3>6. OpenHandles(x.fd) = OpenHandles(f) \cup ({x.file} \cap Handle)
          /\ x.file \notin OpenHandles(f)
      BY <2>4, <2>7, <3>4
    <3> QED BY <2>1, <2>3, <3>5, <3>6
  <2> QED BY <2>3, <2>6, <2>7 DEF Entered
<1>4. PICK s \in I : \/ s.rest = <<>> /\ o = s
                     \/ s.file = Null /\ o.fd = s.fd /\ o.file = Wild
  <2>1. I \subseteq Walking
    OBVIOUS
  <2> HIDE DEF I
  <2> QED BY <1>2, <1>3, <2>1, FatOpenKeeps
<1>5. s.fd \in Descriptors
  BY DEF Walking
<1> QED BY <1>1, <1>4, <1>5 DEF OpenHandles

-----------------------------------------------------------------------------
(* The clusters of a file                                                  *)

LEMMA ChainIs ==
    /\ Chain \in [Nat -> Seq(Nat)]
    /\ \A c \in Nat : Chain[c] = IF c \in 2 .. LastCluster THEN <<c>> \o Chain[Table[c]]
                                 ELSE <<>>
<1>1. Upwards(LastCluster, Table)
  BY ClusterAfter, Sizes DEF Upwards
<1>2. PICK L : L = [c \in Nat |-> IF c \in 2 .. LastCluster THEN <<c>> \o L[Table[c]]
                                 ELSE <<>>]
  BY <1>1, PathExists
<1>3. Chain = [c \in Nat |-> IF c \in 2 .. LastCluster THEN <<c>> \o Chain[Table[c]]
                             ELSE <<>>]
  BY <1>2 DEF Chain
<1> QED BY <1>1, <1>3, PathIs

Members(c) == {Chain[c][j] : j \in 1 .. Len(Chain[c])}

LEMMA MembersIs ==
    ASSUME NEW c \in Nat
    PROVE  Members(c) = IF c \in 2 .. LastCluster THEN {c} \cup Members(Table[c]) ELSE {}
<1>1. CASE c \notin 2 .. LastCluster
  <2>1. Chain[c] = <<>>
    BY <1>1, ChainIs
  <2> QED BY <1>1, <2>1 DEF Members
<1>2. CASE c \in 2 .. LastCluster
  <2>1. PICK t \in Seq(Nat) : t = Chain[Table[c]]
    BY <1>2, ChainIs, ChainGoesUp
  <2>2. PICK s \in Seq(Nat) : s = <<c>> \o t /\ s = Chain[c]
    BY <1>2, <2>1, ChainIs
  <2>3. /\ Len(s) = Len(t) + 1 /\ Len(t) \in Nat
        /\ s[1] = c /\ \A j \in 1 .. Len(t) : s[j + 1] = t[j]
    BY ONLY <2>2, s \in Seq(Nat), t \in Seq(Nat), c \in Nat
  <2>4. Members(c) = {s[j] : j \in 1 .. Len(s)} /\ Members(Table[c]) = {t[j] : j \in 1 .. Len(t)}
    BY <2>1, <2>2 DEF Members
  <2>5. ASSUME NEW j \in 1 .. Len(s) PROVE s[j] \in {c} \cup Members(Table[c])
    <3>1. CASE j = 1
      BY <2>3, <3>1
    <3>2. CASE j # 1
      <4>1. j - 1 \in 1 .. Len(t) /\ (j - 1) + 1 = j
        BY <2>3, <3>2
      <4>2. s[j] = t[j - 1]
        BY <2>3, <4>1
      <4> QED BY <2>4, <4>1, <4>2
    <3> QED BY <3>1, <3>2
  <2>6. c \in Members(c)
    <3>1. 1 \in 1 .. Len(s)
      BY <2>3
    <3> QED BY <2>3, <2>4, <3>1
  <2>7. ASSUME NEW j \in 1 .. Len(t) PROVE t[j] \in Members(c)
    <3>1. j + 1 \in 1 .. Len(s)
      BY <2>3
    <3> QED BY <2>3, <2>4, <3>1
  <2>8. Members(c) \subseteq {c} \cup Members(Table[c])
    BY ONLY <2>4, <2>5
  <2>9. Members(Table[c]) \subseteq Members(c)
    BY ONLY <2>4, <2>7
  <2> QED BY ONLY <1>2, <2>6, <2>8, <2>9
<1> QED BY <1>1, <1>2

(* With a cluster, a file has the cluster after it.                        *)
LEMMA MembersClosed ==
    ASSUME NEW f \in Nat, NEW c \in Members(f)
    PROVE  /\ c \in 2 .. LastCluster
           /\ Table[c] \in 2 .. LastCluster => Table[c] \in Members(f)
<1> DEFINE Good(g) == \A b \in Members(g) :
              /\ b \in 2 .. LastCluster
              /\ Table[b] \in 2 .. LastCluster => Table[b] \in Members(g)
           T == {i \in Nat : \E g \in 2 .. LastCluster : ~Good(g) /\ i = LastCluster - g}
<1>1. \A g \in Nat : g \notin 2 .. LastCluster => Good(g)
  BY MembersIs
<1>2. T = {}
  <2> SUFFICES ASSUME T # {} PROVE FALSE
    OBVIOUS
  <2>1. PICK i \in T : \A j \in T : i <= j
    <3>1. T \subseteq Nat
      OBVIOUS
    <3> HIDE DEF T
    <3> QED BY <3>1, LeastExists
  <2>2. PICK g \in 2 .. LastCluster : ~Good(g) /\ i = LastCluster - g
    BY <2>1
  <2>3. PICK b \in Nat : b = Table[g]
                         /\ (b \in g + 1 .. LastCluster \/ b \notin 2 .. LastCluster)
    BY ClusterAfter
  <2>4. Members(g) = {g} \cup Members(b)
    BY <2>3, MembersIs, Sizes
  <2>5. Good(b)
    <3>1. CASE b \notin 2 .. LastCluster
      BY <1>1, <3>1
    <3>2. CASE b \in 2 .. LastCluster
      <4>1. LastCluster - b \in Nat /\ LastCluster - b < i
        BY <2>2, <2>3, <3>2, Sizes
      <4>2. LastCluster - b \notin T
        <5> HIDE DEF T
        <5> QED BY <2>1, <2>2, <4>1, Sizes
      <4> HIDE DEF Good
      <4> QED BY <3>2, <4>1, <4>2
    <3> QED BY <3>1, <3>2
  <2>6. Table[g] \in 2 .. LastCluster => Table[g] \in Members(b)
    BY <2>3, MembersIs
  <2>7. Good(g)
    BY <2>4, <2>5, <2>6
  <2> QED BY <2>2, <2>7
<1>3. Good(f)
  <2>1. CASE f \notin 2 .. LastCluster
    BY <1>1, <2>1
  <2>2. CASE f \in 2 .. LastCluster
    <3>1. LastCluster - f \in Nat
      BY <2>2, Sizes
    <3> HIDE DEF Good
    <3> QED BY <1>2, <2>2, <3>1
  <2> QED BY <2>1, <2>2
<1> QED BY <1>3

-----------------------------------------------------------------------------
(* What a search finds is in the directory                                 *)

SectorsOf(f) == {cluster_to_lba(c) + s : c \in Members(f), s \in 0 .. cluster_sectors - 1}

(* The buffer of a file with records left holds a sector of that file; the *)
(* root directory's may hold the sector after it too.                      *)
Placed(d) ==
    IF IsRoot(d)
    THEN /\ d.first_cluster = RootLba /\ d.is_dir
         /\ d.size = RootSectors * PerSector
         /\ d.cur_cluster = RootLba + (d.pos \div PerSector)
         /\ d.buffer \in RootLba .. data_lba
    ELSE \/ HasSize(d) /\ d.pos = d.size
         \/ /\ d.cur_cluster \in Members(d.first_cluster)
            /\ d.buffer \in SectorsOf(d.first_cluster)

LEMMA NextClusterIs ==
    ASSUME NEW d \in FileDesc, ~IsRoot(d), d.cur_cluster \in Members(d.first_cluster),
           NEW y, y = NextSector(d), HasSector(y)
    PROVE  y.cur_cluster \in Members(d.first_cluster)
<1>1. d.cur_cluster \in 2 .. LastCluster
      /\ (Table[d.cur_cluster] \in 2 .. LastCluster
             => Table[d.cur_cluster] \in Members(d.first_cluster))
  <2>1. d.first_cluster \in Nat
    BY DEF FileDesc
  <2> QED BY <2>1, MembersClosed
<1>2. CASE d.cur_sector_in_cluster + 1 < cluster_sectors
  <2>1. y = [d EXCEPT !.cur_sector_in_cluster = @ + 1]
    BY <1>2 DEF NextSector
  <2>2. y.cur_cluster = d.cur_cluster
    BY <2>1 DEF FileDesc
  <2> QED BY <2>2
<1>3. CASE ~(d.cur_sector_in_cluster + 1 < cluster_sectors)
  <2>1. PICK b : b = fat_next_cluster(d.cur_cluster)
    OBVIOUS
  <2>2. y = [d EXCEPT !.cur_sector_in_cluster = 0, !.cur_cluster = b]
    BY <1>3, <2>1 DEF NextSector, FileDesc
  <2>3. y.cur_cluster = b /\ y.handle = d.handle
    BY <2>2 DEF FileDesc
  <2>4. b = Table[d.cur_cluster]
    BY <1>1, <2>1, ChainGoesUp
  <2>5. b \in 2 .. LastCluster
    BY <2>3 DEF HasSector, IsRoot
  <2> QED BY <1>1, <2>3, <2>4, <2>5
<1> QED BY <1>2, <1>3

LEMMA CopyPlaced ==
    ASSUME NEW r \in Reading, Placed(r.d), r.n # 0, NEW bad,
           NEW x, x = CopyFromBuffer(r, bad)
    PROVE  Placed(x.d)
<1>1. PICK g : g = Advanced(r)
  OBVIOUS
<1>2. PICK k : k = Taken(r)
  OBVIOUS
<1>3. /\ g \in Reading /\ HasSector(g.d) /\ k \in 1 .. InBuffer(r.d) /\ k <= r.n
      /\ g.d.pos = r.d.pos + k /\ g.n = r.n - k
      /\ SameFile(r.d, g.d) /\ g.d.size = r.d.size /\ g.d.buffer = r.d.buffer
      /\ g.d.cur_cluster = r.d.cur_cluster
      /\ g.d.cur_sector_in_cluster = r.d.cur_sector_in_cluster
  BY <1>1, <1>2, AdvancedIs
<1>4. x = IF k = InBuffer(r.d) THEN Refill(g, bad) ELSE g
  BY <1>1, <1>2, CopyIs
<1>5. HasSector(r.d) /\ (HasSize(r.d) => r.d.pos + r.n <= r.d.size)
  BY ReadingHasSector
<1>6. /\ r.d \in FileDesc /\ g.d \in FileDesc /\ r.n \in Nat
  BY <1>3 DEF Reading, SoundDesc
<1>7. PICK pos \in Nat, size \in Nat : pos = r.d.pos /\ size = r.d.size
  BY <1>6 DEF FileDesc
<1>8. InBuffer(r.d) \in 1 .. PerSector
  BY <1>6, InBufferType
<1>9. k \in Nat \ {0} /\ g.d.pos = pos + k /\ g.d.pos # 0
  BY <1>3, <1>7, <1>8, Sizes
<1>10. PICK y : y = NextSector(g.d)
  OBVIOUS
<1>11. ASSUME k = InBuffer(r.d)
       PROVE  /\ x \in Reading /\ SameFile(g.d, x.d)
              /\ x.d.pos = g.d.pos
              /\ x.d.cur_cluster = y.cur_cluster
              /\ x.d.cur_sector_in_cluster = y.cur_sector_in_cluster
              /\ AtEnd(g, x, y) \/ GivenUp(g, x, y, bad) \/ Fetched(g, x, y, bad)
  <2>1. x = Refill(g, bad)
    BY <1>4, <1>11
  <2> QED BY ONLY <1>3, <1>9, <1>10, <2>1, RefillIs
<1>12. CASE IsRoot(r.d)
  <2>1. IsRoot(g.d)
    BY <1>3, <1>12 DEF IsRoot, SameFile
  <2>2. /\ r.d.first_cluster = RootLba /\ r.d.is_dir
        /\ size = RootSectors * PerSector
        /\ r.d.cur_cluster = RootLba + (pos \div PerSector)
        /\ r.d.buffer \in RootLba .. data_lba
    BY <1>7, <1>12 DEF Placed
  <2>3. PICK ps \in Nat \ {0}, q \in Nat : ps = PerSector /\ q = pos \div PerSector
    BY <1>7, Sizes, Division
  <2>4. InBuffer(r.d) = ps - (pos % ps) /\ pos % ps \in 0 .. ps - 1
    BY <1>7, <2>3, Remainder DEF InBuffer
  <2>5. (pos % ps) + k <= ps
    BY <1>3, <1>9, <2>4
  <2>6. /\ (pos % ps) + k < ps => (pos + k) \div ps = q
        /\ (pos % ps) + k = ps => (pos + k) \div ps = q + 1
    <3>1. k \in Nat
      BY <1>9
    <3>2. /\ (pos % ps) + k < ps => (pos + k) \div ps = pos \div ps
          /\ (pos % ps) + k = ps => (pos + k) \div ps = (pos \div ps) + 1
      BY ONLY <2>5, <3>1, DivisionAfter, pos \in Nat, ps \in Nat \ {0}, Zenon
    <3>3. pos \div ps = q
      BY <2>3
    <3> QED BY ONLY <3>2, <3>3, Zenon
  <2>7. CASE k # InBuffer(r.d)
    <3>1. x = g /\ (pos % ps) + k < ps
      BY <1>3, <1>4, <1>9, <2>4, <2>7
    <3>2. g.d.cur_cluster = RootLba + (g.d.pos \div PerSector)
      BY <1>3, <1>9, <2>2, <2>3, <2>6, <3>1
    <3> QED BY <1>3, <1>7, <2>1, <2>2, <3>1, <3>2 DEF Placed, SameFile
  <2>8. CASE k = InBuffer(r.d)
    <3>1. (pos % ps) + k = ps
      BY <1>9, <2>4, <2>8
    <3>2. (pos + k) \div ps = q + 1
      BY <2>6, <3>1
    <3>3. y.cur_cluster = RootLba + (q + 1)
      <4>1. y = [g.d EXCEPT !.cur_cluster = @ + 1]
        BY <1>10, <2>1 DEF NextSector
      <4>2. y.cur_cluster = g.d.cur_cluster + 1
        BY <1>6, <4>1 DEF FileDesc
      <4> QED BY <1>3, <2>2, <2>3, <4>2, Sizes
    <3>4. q + 1 <= RootSectors
      <4>1. pos + k <= RootSectors * ps
        <5>1. HasSize(r.d)
          <6>1. Sound(r.d)
            BY DEF Reading, SoundDesc
          <6> QED BY <1>12, <6>1 DEF Sound
        <5> QED BY <1>3, <1>5, <1>6, <1>7, <1>9, <2>2, <2>3, <5>1
      <4>2. pos + k \in Nat /\ RootSectors \in Nat
        BY <1>9, Sizes
      <4>3. (pos + k) \div ps <= RootSectors
        BY ONLY <4>1, <4>2, QuotientAtMost, ps \in Nat \ {0}
      <4> QED BY <3>2, <4>3
    <3>5. IsRoot(x.d) /\ SectorOf(y) = y.cur_cluster
      <4>1. y.handle = g.d.handle
        BY <1>3, <1>6, <1>10, NextSectorIs DEF SameFile
      <4> QED BY <1>11, <2>1, <2>8, <4>1 DEF IsRoot, SameFile, SectorOf
    <3>6. /\ x.d.size = size
          /\ x.d.buffer = r.d.buffer \/ x.d.buffer = y.cur_cluster
      BY <1>3, <1>7, <1>11, <2>1, <2>8, <3>5 DEF AtEnd, GivenUp, Fetched
    <3>7. x.d.buffer \in RootLba .. data_lba
      <4>1. RootLba + (q + 1) \in RootLba .. data_lba
        BY <3>4, Sizes DEF data_lba
      <4> QED BY <2>2, <3>3, <3>6, <4>1
    <3>8. x.d.cur_cluster = RootLba + (x.d.pos \div PerSector)
      BY <1>9, <1>11, <2>3, <2>8, <3>2, <3>3
    <3>9. x.d.first_cluster = RootLba /\ x.d.is_dir
      BY <1>3, <1>11, <2>2, <2>8 DEF SameFile
    <3> QED BY <2>2, <3>5, <3>6, <3>7, <3>8, <3>9 DEF Placed
  <2> QED BY <2>7, <2>8
<1>13. CASE ~IsRoot(r.d)
  <2>1. ~IsRoot(g.d)
    BY <1>3, <1>13 DEF IsRoot, SameFile
  <2>2. PICK f : f = r.d.first_cluster
    OBVIOUS
  <2>3. r.d.cur_cluster \in Members(f) /\ r.d.buffer \in SectorsOf(f)
    <3>1. ~(HasSize(r.d) /\ r.d.pos = r.d.size)
      BY <1>5, <1>6, <1>7
    <3> QED BY <1>13, <2>2, <3>1 DEF Placed
  <2>4. g.d.cur_cluster \in Members(f) /\ g.d.buffer \in SectorsOf(f)
        /\ g.d.first_cluster = f
    BY <1>3, <2>2, <2>3 DEF SameFile
  <2>5. CASE k # InBuffer(r.d)
    <3>1. x = g
      BY <1>4, <2>5
    <3> QED BY <2>1, <2>4, <3>1 DEF Placed
  <2>6. CASE k = InBuffer(r.d)
    <3>1. ~IsRoot(x.d) /\ x.d.first_cluster = f
      BY <1>11, <2>1, <2>4, <2>6 DEF IsRoot, SameFile
    <3>2. CASE AtEnd(g, x, y)
      <4>1. HasSize(x.d) /\ x.d.pos = x.d.size
        BY <1>9, <1>11, <2>6, <3>2 DEF AtEnd, HasSize
      <4> QED BY <3>1, <4>1 DEF Placed
    <3>3. CASE GivenUp(g, x, y, bad) \/ Fetched(g, x, y, bad)
      <4>1. HasSector(x.d) /\ (x.d.buffer = g.d.buffer \/ x.d.buffer = SectorOf(y))
        BY <3>3 DEF GivenUp, Fetched
      <4>2. y.handle = g.d.handle
        BY <1>3, <1>6, <1>10, NextSectorIs DEF SameFile
      <4>3. HasSector(y) /\ ~IsRoot(y)
        BY <1>11, <2>1, <2>6, <3>1, <4>1, <4>2 DEF HasSector, IsRoot
      <4>4. y.cur_cluster \in Members(f)
        BY <1>6, <1>10, <2>1, <2>4, <4>3, NextClusterIs
      <4>5. SectorOf(y) \in SectorsOf(f)
        <5>1. y \in FileDesc
          BY <1>3, <1>6, <1>10, NextSectorIs
        <5>2. y.cur_sector_in_cluster \in 0 .. cluster_sectors - 1
          BY <4>3, <5>1, Sizes DEF HasSector, FileDesc
        <5> QED BY <4>3, <4>4, <5>2 DEF SectorsOf, SectorOf
      <4> QED BY <1>11, <2>4, <2>6, <3>1, <4>1, <4>4, <4>5 DEF Placed
    <3> QED BY <1>11, <2>6, <3>2, <3>3
  <2> QED BY <2>5, <2>6
<1> QED BY <1>12, <1>13

LEMMA ReadPlaced ==
    ASSUME NEW d \in SoundDesc, Placed(d), NEW n \in Nat, NEW bad
    PROVE  Placed(fat_read(d, n, bad).d)
<1> DEFINE I == {r \in Reading : Placed(r.d)}
<1>1. First(d, n) \in I
  BY FirstIs
<1>2. ASSUME NEW r \in I, r.n # 0 PROVE CopyFromBuffer(r, bad) \in I
  <2>1. PICK y : y = CopyFromBuffer(r, bad)
    OBVIOUS
  <2>2. y \in Reading /\ Placed(y.d)
    BY <1>2, <2>1, CopyStep, CopyPlaced
  <2> QED BY <2>1, <2>2
<1>3. I \subseteq Reading
  OBVIOUS
<1>4. fat_read(d, n, bad) \in I
  <2> HIDE DEF I
  <2> QED BY <1>1, <1>2, <1>3, FatReadKeeps
<1> QED BY <1>4

(* The sectors whose records a search of d can come upon.                  *)
Searched(d) == IF IsRoot(d) THEN RootLba .. data_lba ELSE SectorsOf(d.first_cluster)

LEMMA FindPlaced ==
    ASSUME NEW d \in SoundDesc, Placed(d), NEW name, NEW bad,
           NEW f, f = fat_find_file(d, name, bad)
    PROVE  /\ Placed(f.d)
           /\ \/ f.place = NoPlace
              \/ /\ f.place \in DOMAIN Entries /\ Entries[f.place].name = name
                 /\ \E b \in Searched(d), k \in 0 .. PerSector - 1 : f.place = <<b, k>>
<1> DEFINE I == {r \in Reading :
                   /\ SameFile(d, r.d) /\ Placed(r.d)
                   /\ r.data # <<>> =>
                        \E b \in Searched(d), k \in 0 .. PerSector - 1 : r.data[1] = <<b, k>>}
<1>1. ASSUME NEW e \in SoundDesc, SameFile(d, e), Placed(e)
      PROVE  fat_read(e, 1, bad) \in I
  <2>1. PICK x : x = fat_read(e, 1, bad)
    OBVIOUS
  <2>2. /\ x \in Reading /\ SameFile(e, x.d)
        /\ \/ x.data = <<>>
           \/ Clip(e, 1) = 1 /\ x.data = <<<<e.buffer, e.pos % PerSector>>>>
    BY <1>1, <2>1, OneRead
  <2>3. Placed(x.d)
    BY <1>1, <2>1, ReadPlaced
  <2>4. SameFile(d, x.d)
    BY <1>1, <2>2 DEF SameFile
  <2>5. ASSUME x.data # <<>>
        PROVE  \E b \in Searched(d), k \in 0 .. PerSector - 1 : x.data[1] = <<b, k>>
    <3>1. e.pos \in Nat /\ e.size \in Nat
      BY DEF SoundDesc, FileDesc
    <3>2. PICK b, k : b = e.buffer /\ k = e.pos % PerSector
      OBVIOUS
    <3>3. k \in 0 .. PerSector - 1
      BY <3>1, <3>2, Sizes, Remainder
    <3>4. ~(HasSize(e) /\ e.pos = e.size)
      BY <2>2, <2>5, <3>1 DEF Clip
    <3>5. IsRoot(e) <=> IsRoot(d)
      BY <1>1 DEF SameFile, IsRoot
    <3>6. b \in Searched(d)
      BY <1>1, <3>2, <3>4, <3>5 DEF Placed, Searched, SameFile
    <3>7. x.data = <<<<b, k>>>>
      BY <2>2, <2>5, <3>2
    <3>8. x.data[1] = <<b, k>>
      BY ONLY <3>7
    <3> QED BY <3>3, <3>6, <3>8
  <2> QED BY <2>1, <2>2, <2>3, <2>4, <2>5
<1>2. fat_read(d, 1, bad) \in I
  BY <1>1 DEF SameFile
<1>3. \A r \in I : r.data # <<>> => fat_read(r.d, 1, bad) \in I
  <2>1. \A r \in I : r.d \in SoundDesc /\ SameFile(d, r.d) /\ Placed(r.d)
    BY DEF Reading
  <2> HIDE DEF I
  <2> QED BY <1>1, <2>1
<1>4. PICK q \in I : /\ f.d = q.d
                     /\ \/ f.place = NoPlace
                        \/ /\ q.data # <<>> /\ f.place = q.data[1]
                           /\ f.place \in DOMAIN Entries /\ Entries[f.place].name = name
  <2>1. I \subseteq Reading
    OBVIOUS
  <2> HIDE DEF I
  <2> QED BY <1>2, <1>3, <2>1, FindKeeps
<1> QED BY <1>4

(* The sectors of a file's clusters hold its records.                      *)
LEMMA PlacesIn ==
    ASSUME NEW f \in Nat, NEW b \in SectorsOf(f), NEW k \in 0 .. PerSector - 1
    PROVE  <<b, k>> \in PlacesOf(f)
<1>1. PICK c \in Members(f), s \in 0 .. cluster_sectors - 1 : b = cluster_to_lba(c) + s
  BY DEF SectorsOf
<1>2. PICK chain \in Seq(Nat) : chain = Chain[f]
  BY ChainIs
<1>3. PICK j \in 1 .. Len(chain) : c = chain[j]
  BY <1>2 DEF Members
<1>4. PICK ps \in Nat \ {0}, cs \in Nat \ {0}, len \in Nat :
          ps = PerSector /\ cs = cluster_sectors /\ len = Len(chain)
  <2>1. Len(chain) \in Nat
    BY LenProperties
  <2> QED BY <2>1, Sizes
<1>5. PICK j0 \in Nat : j = j0 + 1 /\ j0 + 1 <= len
  <2>1. j - 1 \in Nat /\ j = (j - 1) + 1 /\ (j - 1) + 1 <= len
    BY <1>4
  <2> QED BY <2>1
<1>6. PICK sec \in Nat : sec = cs * j0 + s /\ s \in 0 .. cs - 1
  BY <1>4
<1>7. PICK n \in Nat : n = ps * sec + k /\ k \in 0 .. ps - 1
  BY <1>4
<1>8. n \div ps = sec /\ n % ps = k
  BY ONLY <1>7, DivisionIs, ps \in Nat \ {0}, sec \in Nat, n \in Nat
<1>9. sec \div cs = j0 /\ sec % cs = s
  BY ONLY <1>6, DivisionIs, cs \in Nat \ {0}, sec \in Nat, j0 \in Nat
<1>10. PICK pc \in Nat \ {0} : pc = cs * ps
  BY ONLY cs \in Nat \ {0}, ps \in Nat \ {0}
<1>11. n \div pc = j0
  BY ONLY <1>8, <1>9, <1>10, DivisionTwice, n \in Nat, cs \in Nat \ {0}, ps \in Nat \ {0}
<1>12. n + 1 \in 1 .. len * pc
  <2>1. PICK t \in Nat : t = len - (j0 + 1)
    BY <1>5
  <2>2. len * pc = pc * j0 + pc + t * pc /\ t * pc \in Nat
    BY ONLY <1>5, <2>1, pc \in Nat \ {0}, j0 \in Nat, t \in Nat, len \in Nat
  <2>3. n < pc * j0 + pc
    <3>1. n % pc \in 0 .. pc - 1 /\ n = pc * j0 + (n % pc)
      BY ONLY <1>11, Division, n \in Nat, pc \in Nat \ {0}
    <3>2. pc * j0 \in Nat
      OBVIOUS
    <3> QED BY ONLY <3>1, <3>2, pc \in Nat \ {0}
  <2>4. pc * j0 \in Nat
    OBVIOUS
  <2> QED BY ONLY <2>2, <2>3, <2>4, n \in Nat, pc \in Nat \ {0}
<1>13. (n + 1) - 1 = n
  OBVIOUS
<1>14. Records(f) = [i \in 1 .. len * pc |->
            <<cluster_to_lba(chain[((i - 1) \div pc) + 1]) + (((i - 1) \div ps) % cs),
              (i - 1) % ps>>]
  BY <1>2, <1>4, <1>10 DEF Records
<1>15. Records(f)[n + 1] = <<cluster_to_lba(chain[(n \div pc) + 1]) + ((n \div ps) % cs), n % ps>>
  <2> HIDE DEF Records
  <2> QED BY <1>12, <1>13, <1>14
<1>16. Records(f)[n + 1] = <<b, k>>
  BY <1>1, <1>3, <1>5, <1>8, <1>9, <1>11, <1>15
<1>17. DOMAIN Records(f) = 1 .. len * pc
  BY <1>14
<1> QED BY <1>12, <1>16, <1>17 DEF PlacesOf

-----------------------------------------------------------------------------
(* What is opened is what the path names                                   *)

(* The entries that the first names of a path lead to, level by level.     *)
NamedAt(In, path) ==
    \A i \in 1 .. Len(path) :
        In[i] = {p \in DOMAIN Entries :
                    /\ Entries[p].name = path[i]
                    /\ IF i = 1 THEN InRoot(p)
                       ELSE \E d \in In[i - 1] : p \in PlacesOf(Entries[d].first)}

LEMMA NamedIs ==
    ASSUME NEW path \in Paths
    PROVE  \E In : NamedAt(In, path) /\ Named[path] = In[Len(path)]
<1>1. path \in Seq(STRING) /\ Len(path) \in Nat
  BY DiskAssumption, LenProperties
<1>2. PICK n \in Nat : n = Len(path)
  BY <1>1
<1> DEFINE R == 1 .. n
           V == SUBSET DOMAIN Entries
           D == {i \in R : i = 1}
           next == [i \in R |-> i - 1]
           out == [i \in R |-> {p \in DOMAIN Entries :
                       Entries[p].name = path[i] /\ InRoot(p)}]
           F == [i \in R |-> [v \in V |-> {p \in DOMAIN Entries :
                       /\ Entries[p].name = path[i]
                       /\ \E d \in v : p \in PlacesOf(Entries[d].first)}]]
           m == [i \in R |-> i]
           Body(L) == [i \in R |-> {p \in DOMAIN Entries :
                       /\ Entries[p].name = path[i]
                       /\ IF i = 1 THEN InRoot(p)
                          ELSE \E d \in L[i - 1] : p \in PlacesOf(Entries[d].first)}]
           In == CHOOSE L : L = Body(L)
<1>3. Ends(R, D, next, m)
  BY DEF Ends
<1>4. PICK L \in [R -> V] : Solves(L, R, D, next, out, F)
  <2>1. \A i \in R \cap D : out[i] \in V
    OBVIOUS
  <2>2. \A i \in R \ D, v \in V : F[i][v] \in V
    OBVIOUS
  <2> HIDE DEF R, V, D, next, out, F, m
  <2> QED BY <1>3, <2>1, <2>2, RecursionExists
<1>5. L = Body(L)
  <2>1. ASSUME NEW i \in R PROVE L[i] = Body(L)[i]
    <3>1. CASE i = 1
      <4>1. L[i] = out[i]
        BY <1>4, <3>1 DEF Solves
      <4> QED BY <3>1, <4>1
    <3>2. CASE i # 1
      <4>1. i \notin D /\ i - 1 \in R /\ next[i] = i - 1
        BY <3>2
      <4>2. L[i] = F[i][L[next[i]]]
        <5> HIDE DEF next, out, F
        <5> QED BY <1>4, <4>1 DEF Solves
      <4>3. L[i - 1] \in V
        BY <4>1
      <4> QED BY <3>2, <4>1, <4>2, <4>3
    <3> QED BY <3>1, <3>2
  <2>2. L = [i \in R |-> L[i]] /\ Body(L) = [i \in R |-> Body(L)[i]]
    OBVIOUS
  <2> HIDE DEF Body
  <2> QED BY <2>1, <2>2
<1>6. In = Body(In)
  <2> HIDE DEF Body
  <2> QED BY <1>5
<1>7. Named[path] = In[Len(path)]
  BY <1>2 DEF Named
<1>8. NamedAt(In, path)
  <2>1. \A i \in R : In[i] = Body(In)[i]
    <3> HIDE DEF In, Body
    <3> QED BY <1>6
  <2> HIDE DEF In
  <2> QED BY <1>2, <2>1 DEF NamedAt
<1> HIDE DEF In
<1> QED BY <1>7, <1>8

AllPlaced(f) == \A h \in Desc : Placed(f[h])

LEMMA ClosePlaced ==
    ASSUME NEW f \in Descriptors, AllPlaced(f), NEW h \in Desc, NEW x, x = fat_close(f, h)
    PROVE  AllPlaced(x)
<1>1. f \in [Desc -> SoundDesc] /\ \A g \in Desc : f[g].handle = g
  BY DEF Descriptors
<1>2. \A g \in Desc \ {h} : x[g] = f[g]
  BY CloseIs
<1>3. Placed(x[h])
  <2>1. CASE h = ROOT_DIR_HANDLE
    <3>1. PICK d : d = f[h]
      OBVIOUS
    <3>2. d \in FileDesc /\ IsRoot(d) /\ Placed(d)
      BY <1>1, <2>1, <3>1 DEF SoundDesc, IsRoot, AllPlaced
    <3>3. d.first_cluster = RootLba
      BY <3>2 DEF Placed
    <3>4. x[h] = [d EXCEPT !.pos = 0, !.cur_cluster = RootLba]
      BY <1>1, <2>1, <3>1, <3>3 DEF fat_close
    <3>5. PICK e : e = [d EXCEPT !.pos = 0]
      OBVIOUS
    <3>6. /\ e.handle = d.handle /\ e.first_cluster = d.first_cluster /\ e.is_dir = d.is_dir
          /\ e.size = d.size /\ e.pos = 0 /\ e.buffer = d.buffer /\ e \in FileDesc
      BY <3>2, <3>5 DEF FileDesc
    <3>7. PICK y : y = [e EXCEPT !.cur_cluster = RootLba]
      OBVIOUS
    <3>8. /\ y.handle = d.handle /\ y.first_cluster = d.first_cluster /\ y.is_dir = d.is_dir
          /\ y.size = d.size /\ y.pos = 0 /\ y.buffer = d.buffer
          /\ y.cur_cluster = RootLba
      BY <3>6, <3>7 DEF FileDesc
    <3>9. x[h] = y
      BY <3>4, <3>5, <3>7
    <3>10. RootLba = RootLba + (0 \div PerSector)
      <4>1. 0 \div PerSector = 0
        BY Sizes
      <4> QED BY <4>1, Sizes
    <3> QED BY <3>2, <3>8, <3>9, <3>10 DEF Placed, IsRoot
  <2>2. CASE h # ROOT_DIR_HANDLE
    <3>1. x[h] = Unused(h)
      BY <1>1, <2>2 DEF fat_close
    <3> QED BY <2>2, <3>1 DEF Unused, Placed, IsRoot, HasSize
  <2> QED BY <2>1, <2>2
<1> QED BY <1>2, <1>3 DEF AllPlaced

LEMMA OpenedPlaced ==
    ASSUME NEW p \in DOMAIN Entries, NEW h \in Handle, NEW x, x = Opened(h, Entries[p])
    PROVE  Placed(x)
<1>1. /\ x.handle = h
      /\ x.is_dir = Entries[p].is_dir /\ x.first_cluster = Entries[p].first
      /\ x.pos = 0 /\ x.size = Entries[p].size
      /\ x.cur_cluster = Entries[p].first
      /\ x.buffer = cluster_to_lba(Entries[p].first)
  <2>1. AtStart(x, h, Entries[p])
    BY OpenedIs
  <2> QED BY <2>1 DEF AtStart
<1>2. ~IsRoot(x)
  BY <1>1, Sizes DEF IsRoot, Handle, ROOT_DIR_HANDLE
<1>3. PICK first \in Nat : first = Entries[p].first
  BY EntryType
<1>4. CASE first \in 2 .. LastCluster
  <2>1. first \in Members(first)
    BY <1>4, MembersIs
  <2>2. PICK b : b = cluster_to_lba(first)
    OBVIOUS
  <2>3. b + 0 = b
    BY <2>1, <2>2, <1>4, Sizes DEF cluster_to_lba
  <2>4. b \in SectorsOf(first)
    <3>1. 0 \in 0 .. cluster_sectors - 1
      BY Sizes
    <3>2. cluster_to_lba(first) + 0 \in SectorsOf(first)
      BY <2>1, <3>1 DEF SectorsOf
    <3> QED BY <2>2, <2>3, <3>2
  <2> QED BY <1>1, <1>2, <1>3, <2>1, <2>2, <2>4 DEF Placed
<1>5. CASE first \notin 2 .. LastCluster
  <2>1. x.size = 0 /\ ~x.is_dir
    BY <1>1, <1>3, <1>5, EntryType DEF HasCluster
  <2> QED BY <1>1, <1>2, <2>1 DEF Placed, HasSize
<1> QED BY <1>4, <1>5

OfEntry(d, p) ==
    d.first_cluster = Entries[p].first /\ d.is_dir = Entries[p].is_dir

(* The file found in a directory is one that the next name leads to.       *)
LEMMA FoundIsNamed ==
    ASSUME NEW path \in Seq(STRING), NEW In, NamedAt(In, path),
           NEW i \in 1 .. Len(path),
           NEW d \in SoundDesc,
           IF i = 1 THEN IsRoot(d) ELSE ~IsRoot(d) /\ \E p \in In[i - 1] : OfEntry(d, p),
           NEW p \in DOMAIN Entries, Entries[p].name = path[i],
           NEW b \in Searched(d), NEW k \in 0 .. PerSector - 1, p = <<b, k>>
    PROVE  p \in In[i]
<1>1. CASE i = 1
  <2>1. b \in RootLba .. data_lba /\ p[1] = b /\ b # data_lba
    BY <1>1, FirstClusterAssumption DEF Searched
  <2>2. InRoot(p)
    BY <2>1, Sizes DEF InRoot
  <2> QED BY <1>1, <2>2 DEF NamedAt
<1>2. CASE i # 1
  <2>1. PICK q \in In[i - 1] : OfEntry(d, q)
    BY <1>2
  <2>2. d.first_cluster \in Nat
    BY DEF SoundDesc, FileDesc
  <2>3. b \in SectorsOf(d.first_cluster)
    BY <1>2 DEF Searched
  <2>4. p \in PlacesOf(Entries[q].first)
    BY <2>1, <2>2, <2>3, PlacesIn DEF OfEntry
  <2> QED BY <1>2, <2>1, <2>4 DEF NamedAt
<1> QED BY <1>1, <1>2

(* The walk has come down the first i names of the path.                   *)
Down(s, i, In, path) ==
    /\ Len(s.rest) = Len(path) - i
    /\ \A j \in 1 .. Len(s.rest) : s.rest[j] = path[i + j]
    /\ IF i = 0 THEN s.file = ROOT_DIR_HANDLE
       ELSE s.file \in Handle /\ \E p \in In[i] : OfEntry(s.fd[s.file], p)

Leads(s, In, path) ==
    /\ AllPlaced(s.fd)
    /\ s.file = Null \/ \E i \in 0 .. Len(path) : Down(s, i, In, path)

LEMMA EnterLeads ==
    ASSUME NEW path \in Seq(STRING), NEW In, NamedAt(In, path),
           NEW s \in Walking, Leads(s, In, path), s.rest # <<>>, s.file # Null, NEW bad,
           NEW found, found = fat_find_file(s.fd[s.file], Head(s.rest), bad),
           NEW x, x = Enter(s, found, bad)
    PROVE  Leads(x, In, path)
<1>1. PICK d : d = s.fd[s.file]
  OBVIOUS
<1>2. /\ s.fd \in Descriptors /\ s.fd \in [Desc -> SoundDesc] /\ s.file \in Desc
      /\ \A g \in Desc : s.fd[g].handle = g
  BY DEF Walking, Descriptors
<1>3. d \in SoundDesc /\ d.handle = s.file /\ Placed(d) /\ AllPlaced(s.fd)
  BY <1>1, <1>2 DEF Leads, AllPlaced
<1>4. /\ found.d \in SoundDesc /\ SameFile(d, found.d)
  BY <1>1, <1>3, FindIs
<1>5. /\ Placed(found.d)
      /\ \/ found.place = NoPlace
         \/ /\ found.place \in DOMAIN Entries /\ Entries[found.place].name = Head(s.rest)
            /\ \E b \in Searched(d), k \in 0 .. PerSector - 1 : found.place = <<b, k>>
  BY <1>1, <1>3, FindPlaced
<1>6. PICK f : f = [s.fd EXCEPT ![s.file] = found.d]
  OBVIOUS
<1>7. f \in Descriptors /\ AllPlaced(f)
  BY <1>2, <1>3, <1>4, <1>5, <1>6 DEF Descriptors, SameFile, AllPlaced
<1>8. PICK closed : closed = fat_close(f, s.file)
  OBVIOUS
<1>9. AllPlaced(closed)
  BY <1>2, <1>7, <1>8, ClosePlaced
<1>10. Freed(s.fd, closed, s.file) /\ Entered(s, x, closed, found.place)
  <2>1. closed = fat_close([s.fd EXCEPT ![s.file] = found.d], s.file)
    BY <1>6, <1>8
  <2> QED BY ONLY <2>1, EnterIs, s \in Walking, s.rest # <<>>, s.file # Null,
                  found = fat_find_file(s.fd[s.file], Head(s.rest), bad),
                  x = Enter(s, found, bad)
<1>11. CASE x.fd = closed /\ x.file = Null
  BY <1>9, <1>11 DEF Leads
<1>12. CASE /\ found.place \in DOMAIN Entries /\ found.place # NoPlace
            /\ x.file \in Handle \ OpenHandles(closed)
            /\ x.fd = [closed EXCEPT ![x.file] = Opened(x.file, Entries[found.place])]
            /\ x.rest = Tail(s.rest)
  <2>1. PICK p \in DOMAIN Entries : p = found.place
    BY <1>12
  <2>2. PICK b \in Searched(d), k \in 0 .. PerSector - 1 : p = <<b, k>>
    BY <1>5, <1>12, <2>1
  <2>3. PICK e : e = Opened(x.file, Entries[p])
    OBVIOUS
  <2>4. Placed(e) /\ OfEntry(e, p)
    <3>1. x.file \in Handle
      BY <1>12
    <3>2. e = Opened(x.file, Entries[p])
      BY <2>3
    <3>3. AtStart(e, x.file, Entries[p])
      BY ONLY <2>1, <3>1, <3>2, OpenedIs
    <3>4. Placed(e)
      BY ONLY <2>1, <3>1, <3>2, OpenedPlaced
    <3> QED BY <3>3, <3>4 DEF OfEntry, AtStart
  <2>5. closed \in [Desc -> SoundDesc] /\ x.file \in Desc
    BY <1>10, <1>12 DEF Freed, Descriptors, Desc
  <2>6. x.fd = [closed EXCEPT ![x.file] = e]
    BY <1>12, <2>1, <2>3
  <2>7. AllPlaced(x.fd) /\ x.fd[x.file] = e
    BY <1>9, <2>4, <2>5, <2>6 DEF AllPlaced
  <2>8. PICK i \in 0 .. Len(path) : Down(s, i, In, path)
    BY DEF Leads
  <2>9. PICK rest \in Seq(STRING) : rest = s.rest /\ rest # <<>>
    BY DEF Walking
  <2>10. /\ Len(rest) \in Nat \ {0} /\ Head(rest) = rest[1]
         /\ Len(Tail(rest)) = Len(rest) - 1
         /\ \A j \in 1 .. Len(Tail(rest)) : Tail(rest)[j] = rest[j + 1]
    <3>1. Len(rest) \in Nat \ {0}
      BY ONLY <2>9, EmptySeq, rest \in Seq(STRING)
    <3>2. Head(rest) = rest[1]
      BY <2>9
    <3> QED BY ONLY <2>9, <3>1, <3>2, HeadTailProperties, rest \in Seq(STRING)
  <2>11. /\ Len(rest) = Len(path) - i /\ Len(path) \in Nat
         /\ \A j \in 1 .. Len(rest) : rest[j] = path[i + j]
    <3>1. Len(path) \in Nat
      BY LenProperties
    <3> QED BY <2>8, <2>9, <3>1 DEF Down
  <2>12. i + 1 \in 1 .. Len(path) /\ i \in Nat
    BY ONLY <2>10, <2>11, i \in 0 .. Len(path)
  <2>13. Entries[p].name = path[i + 1]
    <3>1. 1 \in 1 .. Len(rest)
      BY <2>10
    <3>2. rest[1] = path[i + 1]
      BY ONLY <2>11, <3>1
    <3> QED BY <1>5, <1>12, <2>1, <2>9, <2>10, <3>2
  <2>14. IF i + 1 = 1 THEN IsRoot(d)
         ELSE ~IsRoot(d) /\ \E q \in In[(i + 1) - 1] : OfEntry(d, q)
    <3>1. CASE i = 0
      <4>1. IsRoot(d)
        BY <1>3, <2>8, <3>1 DEF Down, IsRoot
      <4> QED BY <3>1, <4>1
    <3>2. CASE i # 0
      <4>1. s.file \in Handle /\ \E q \in In[i] : OfEntry(d, q)
        BY <1>1, <2>8, <3>2 DEF Down
      <4>2. ~IsRoot(d)
        BY <1>3, <4>1, Sizes DEF IsRoot, Handle, ROOT_DIR_HANDLE
      <4>3. (i + 1) - 1 = i /\ i + 1 # 1
        BY <2>12, <3>2
      <4> QED BY ONLY <4>1, <4>2, <4>3
    <3> QED BY <3>1, <3>2
  <2>15. p \in In[i + 1]
    BY <1>3, <2>2, <2>12, <2>13, <2>14, FoundIsNamed
  <2>16. Down(x, i + 1, In, path)
    <3>1. x.rest = Tail(rest)
      BY <1>12, <2>9
    <3>2. Len(x.rest) = Len(path) - (i + 1)
      BY ONLY <2>10, <2>11, <2>12, <3>1
    <3>3. ASSUME NEW j \in 1 .. Len(x.rest) PROVE x.rest[j] = path[(i + 1) + j]
      <4>1. Tail(rest)[j] = rest[j + 1]
        BY ONLY <2>10, <3>1, j \in 1 .. Len(x.rest)
      <4>2. j + 1 \in 1 .. Len(rest) /\ i + (j + 1) = (i + 1) + j
        BY ONLY <2>10, <2>12, <3>1, j \in 1 .. Len(x.rest)
      <4>3. rest[j + 1] = path[i + (j + 1)]
        BY ONLY <2>11, <4>2
      <4> QED BY ONLY <3>1, <4>1, <4>2, <4>3
    <3>4. x.file \in Handle /\ OfEntry(x.fd[x.file], p) /\ i + 1 # 0
      <4>1. i + 1 # 0
        BY ONLY <2>12
      <4> QED BY ONLY <1>12, <2>4, <2>7, <4>1
    <3> QED BY ONLY <2>15, <3>2, <3>3, <3>4 DEF Down
  <2>17. i + 1 \in 0 .. Len(path)
    BY <2>12
  <2> QED BY ONLY <2>7, <2>16, <2>17 DEF Leads
<1> QED BY <1>10, <1>11, <1>12 DEF Entered

LEMMA OpenIsNamed ==
    ASSUME NEW f \in Descriptors, AllPlaced(f), NEW path \in Paths, NEW bad,
           NEW o, o = fat_open(f, path, bad)
    PROVE  /\ AllPlaced(o.fd)
           /\ o.file \in Handle => \E p \in Named[path] : OfEntry(o.fd[o.file], p)
<1>1. PICK In : NamedAt(In, path) /\ Named[path] = In[Len(path)]
  BY NamedIs
<1>2. path \in Seq(STRING) /\ Len(path) \in Nat
  BY DiskAssumption, LenProperties
<1> DEFINE I == {s \in Walking : Leads(s, In, path)}
           init == [fd |-> f, file |-> ROOT_DIR_HANDLE, rest |-> path]
<1>3. init \in I
  <2>1. /\ init \in Walking /\ init.fd = f /\ init.file = ROOT_DIR_HANDLE
        /\ init.rest = path
    BY <1>2 DEF Walking, Desc
  <2>2. /\ 0 \in 0 .. Len(path) /\ Len(path) = Len(path) - 0
        /\ \A j \in 1 .. Len(path) : path[j] = path[0 + j]
    BY <1>2
  <2>3. Down(init, 0, In, path)
    <3> HIDE DEF init
    <3> QED BY <2>1, <2>2 DEF Down
  <2> HIDE DEF init
  <2> QED BY <2>1, <2>2, <2>3 DEF Leads
<1>4. ASSUME NEW s \in I, s.rest # <<>>, s.file # Null
      PROVE  Enter(s, fat_find_file(s.fd[s.file], Head(s.rest), bad), bad) \in I
  <2>1. PICK found, x, closed :
           /\ found = fat_find_file(s.fd[s.file], Head(s.rest), bad)
           /\ x = Enter(s, found, bad)
           /\ closed = fat_close([s.fd EXCEPT ![s.file] = found.d], s.file)
    OBVIOUS
  <2>2. s \in Walking /\ Leads(s, In, path) /\ s.rest # <<>> /\ s.file # Null
    BY <1>4
  <2>3. x \in Walking
    BY ONLY <2>1, <2>2, EnterIs
  <2>4. Leads(x, In, path)
    BY ONLY <1>1, <1>2, <2>1, <2>2, EnterLeads
  <2> QED BY <2>1, <2>3, <2>4
<1>5. PICK s \in I : \/ s.rest = <<>> /\ o = s
                     \/ s.file = Null /\ o.fd = s.fd /\ o.file = Wild
  <2>1. I \subseteq Walking
    OBVIOUS
  <2> HIDE DEF I
  <2> QED BY <1>2, <1>3, <1>4, <2>1, FatOpenKeeps
<1>6. Leads(s, In, path)
  OBVIOUS
<1>7. ROOT_DIR_HANDLE \notin Handle /\ Null \notin Handle /\ Wild \notin Handle
  BY Sizes DEF Handle, Desc, ROOT_DIR_HANDLE, Null, Wild
<1>8. ASSUME o.file \in Handle
      PROVE  \E p \in Named[path] : OfEntry(o.fd[o.file], p)
  <2>1. s.rest = <<>> /\ o = s
    BY <1>5, <1>7, <1>8
  <2>2. PICK i \in 0 .. Len(path) : Down(s, i, In, path)
    BY <1>6, <1>7, <1>8, <2>1 DEF Leads
  <2>3. i # 0
    BY <1>7, <1>8, <2>1, <2>2 DEF Down
  <2>4. Len(s.rest) = 0
    BY <2>1
  <2>5. i = Len(path)
    BY <1>2, <2>2, <2>4 DEF Down
  <2> QED BY <1>1, <2>1, <2>2, <2>3, <2>5 DEF Down
<1>9. AllPlaced(o.fd)
  BY <1>5, <1>6 DEF Leads
<1> QED BY <1>8, <1>9

-----------------------------------------------------------------------------
(* A file is read in order                                                 *)

LEMMA ChainStarts ==
    ASSUME NEW c \in Nat
    PROVE  /\ Chain[c] \in Seq(Nat) /\ Len(Chain[c]) \in Nat
           /\ IF c \in 2 .. LastCluster THEN Len(Chain[c]) >= 1 /\ Chain[c][1] = c
              ELSE Len(Chain[c]) = 0
<1>1. Chain[c] \in Seq(Nat) /\ Len(Chain[c]) \in Nat
  BY ChainIs, LenProperties
<1>2. CASE c \in 2 .. LastCluster
  <2>1. PICK t \in Seq(Nat) : t = Chain[Table[c]]
    BY <1>2, ChainIs, ChainGoesUp
  <2>2. PICK s \in Seq(Nat) : s = <<c>> \o t /\ s = Chain[c]
    BY <1>2, <2>1, ChainIs
  <2>3. Len(s) = Len(t) + 1 /\ Len(t) \in Nat /\ s[1] = c
    BY ONLY <2>2, s \in Seq(Nat), t \in Seq(Nat), c \in Nat
  <2> QED BY <1>1, <1>2, <2>2, <2>3
<1>3. CASE c \notin 2 .. LastCluster
  <2>1. Chain[c] = <<>>
    BY <1>3, ChainIs
  <2> QED BY <1>1, <1>3, <2>1
<1> QED BY <1>2, <1>3

(* A chain is linked by the table, and the table ends it.                  *)
Linked(g) ==
    \A i \in 1 .. Len(Chain[g]) :
        /\ Chain[g][i] \in 2 .. LastCluster
        /\ IF i = Len(Chain[g]) THEN Table[Chain[g][i]] \notin 2 .. LastCluster
           ELSE Table[Chain[g][i]] = Chain[g][i + 1]

LEMMA ChainLinked ==
    ASSUME NEW f \in Nat
    PROVE  Linked(f)
<1> DEFINE T == {i \in Nat : \E g \in 2 .. LastCluster : ~Linked(g) /\ i = LastCluster - g}
<1>1. \A g \in Nat : g \notin 2 .. LastCluster => Linked(g)
  BY ChainStarts DEF Linked
<1>2. T = {}
  <2> SUFFICES ASSUME T # {} PROVE FALSE
    OBVIOUS
  <2>1. PICK i \in T : \A j \in T : i <= j
    <3>1. T \subseteq Nat
      OBVIOUS
    <3> HIDE DEF T
    <3> QED BY <3>1, LeastExists
  <2>2. PICK g \in 2 .. LastCluster : ~Linked(g) /\ i = LastCluster - g
    BY <2>1
  <2>3. PICK b \in Nat : b = Table[g]
                         /\ (b \in g + 1 .. LastCluster \/ b \notin 2 .. LastCluster)
    BY ClusterAfter
  <2>4. Linked(b)
    <3>1. CASE b \notin 2 .. LastCluster
      BY <1>1, <3>1
    <3>2. CASE b \in 2 .. LastCluster
      <4>1. LastCluster - b \in Nat /\ LastCluster - b < i
        BY <2>2, <2>3, <3>2, Sizes
      <4>2. LastCluster - b \notin T
        <5> HIDE DEF T
        <5> QED BY <2>1, <2>2, <4>1, Sizes
      <4> QED BY <3>2, <4>1, <4>2
    <3> QED BY <3>1, <3>2
  <2>5. g \in Nat
    BY Sizes
  <2>6. PICK t \in Seq(Nat) : t = Chain[b]
    BY <2>3, ChainIs
  <2>7. PICK s \in Seq(Nat) : s = <<g>> \o t /\ s = Chain[g]
    BY <2>3, <2>5, <2>6, ChainIs
  <2>8. /\ Len(s) = Len(t) + 1 /\ Len(t) \in Nat
        /\ s[1] = g /\ \A j \in 1 .. Len(t) : s[j + 1] = t[j]
    BY ONLY <2>5, <2>7, s \in Seq(Nat), t \in Seq(Nat)
  <2>9. IF b \in 2 .. LastCluster THEN Len(t) >= 1 /\ t[1] = b ELSE Len(t) = 0
    BY <2>3, <2>6, ChainStarts
  <2>10. \A j \in 1 .. Len(t) :
            /\ t[j] \in 2 .. LastCluster
            /\ IF j = Len(t) THEN Table[t[j]] \notin 2 .. LastCluster
               ELSE Table[t[j]] = t[j + 1]
    BY <2>4, <2>6 DEF Linked
  <2>11. ASSUME NEW j \in 1 .. Len(s)
         PROVE  /\ s[j] \in 2 .. LastCluster
                /\ IF j = Len(s) THEN Table[s[j]] \notin 2 .. LastCluster
                   ELSE Table[s[j]] = s[j + 1]
    <3>1. CASE j = 1
      <4>1. CASE Len(t) = 0
        BY <2>3, <2>8, <2>9, <3>1, <4>1
      <4>2. CASE Len(t) # 0
        <5>1. 1 \in 1 .. Len(t) /\ s[1 + 1] = t[1]
          BY <2>8, <4>2
        <5>2. t[1] = b /\ j # Len(s)
          BY <2>8, <2>9, <3>1, <4>2
        <5> QED BY <2>3, <2>8, <3>1, <5>1, <5>2
      <4> QED BY <4>1, <4>2
    <3>2. CASE j # 1
      <4>1. PICK h \in 1 .. Len(t) : j = h + 1
        <5>1. j - 1 \in 1 .. Len(t) /\ j = (j - 1) + 1
          BY <2>8, <3>2
        <5> QED BY <5>1
      <4>2. s[j] = t[h] /\ (j = Len(s) <=> h = Len(t))
        <5>1. s[j] = t[h]
          BY ONLY <2>8, <4>1
        <5>2. PICK m \in Nat : m = Len(t) /\ Len(s) = m + 1
          BY ONLY <2>8
        <5>3. h = Len(t) <=> j = Len(s)
          BY ONLY <4>1, <5>2
        <5> QED BY ONLY <5>1, <5>3
      <4>3. h # Len(t) => s[j + 1] = t[h + 1]
        <5>1. h # Len(t) => h + 1 \in 1 .. Len(t) /\ j + 1 = (h + 1) + 1
          BY <2>8, <4>1
        <5> QED BY <2>8, <5>1
      <4> QED BY <2>10, <4>1, <4>2, <4>3
    <3> QED BY <3>1, <3>2
  <2> QED BY <2>2, <2>7, <2>11 DEF Linked
<1>3. CASE f \notin 2 .. LastCluster
  BY <1>1, <1>3
<1>4. CASE f \in 2 .. LastCluster
  <2>1. LastCluster - f \in Nat
    BY <1>4, Sizes
  <2> QED BY <1>2, <1>4, <2>1
<1> QED BY <1>3, <1>4

(* The sectors of a file, and its records, counted from 0.                 *)
Sectors(d) ==
    IF IsRoot(d) THEN RootSectors
    ELSE Len(Chain[d.first_cluster]) * cluster_sectors

SectorAt(d, q) ==
    IF IsRoot(d) THEN RootLba + q
    ELSE cluster_to_lba(Chain[d.first_cluster][(q \div cluster_sectors) + 1])
         + (q % cluster_sectors)

RecordAt(d, i) == <<SectorAt(d, i \div PerSector), i % PerSector>>

(* The place of d is in the q-th sector.                                   *)
AtSector(d, q) ==
    IF IsRoot(d) THEN d.cur_cluster = RootLba + q
    ELSE /\ d.cur_cluster = Chain[d.first_cluster][(q \div cluster_sectors) + 1]
         /\ d.cur_sector_in_cluster = q % cluster_sectors

LEMMA SectorsType ==
    ASSUME NEW d \in FileDesc
    PROVE  Sectors(d) \in Nat
<1>1. PICK f \in Nat : f = d.first_cluster
  BY DEF FileDesc
<1>2. PICK len \in Nat, cs \in Nat : len = Len(Chain[f]) /\ cs = cluster_sectors
  BY ChainStarts, Sizes
<1>3. len * cs \in Nat
  OBVIOUS
<1> QED BY <1>1, <1>2, <1>3, Sizes DEF Sectors

(* The q-th sector of a file is in this cluster of its chain.              *)
LEMMA ClusterOf ==
    ASSUME NEW d \in FileDesc, ~IsRoot(d), NEW q \in Nat, q < Sectors(d),
           NEW j, j = (q \div cluster_sectors) + 1
    PROVE  /\ j \in 1 .. Len(Chain[d.first_cluster])
           /\ q % cluster_sectors \in 0 .. cluster_sectors - 1
           /\ q = cluster_sectors * (j - 1) + (q % cluster_sectors)
<1>1. PICK f \in Nat : f = d.first_cluster
  BY DEF FileDesc
<1>2. PICK len \in Nat, cs \in Nat \ {0} : len = Len(Chain[f]) /\ cs = cluster_sectors
  BY ChainStarts, Sizes
<1>3. q < len * cs
  BY <1>1, <1>2 DEF Sectors
<1>4. PICK c \in Nat, s \in 0 .. cs - 1 : /\ c = q \div cs /\ s = q % cs
                                          /\ q = cs * c + s
  <2>1. q \div cs \in Nat /\ q % cs \in 0 .. cs - 1 /\ q = cs * (q \div cs) + (q % cs)
    BY ONLY Division, q \in Nat, cs \in Nat \ {0}
  <2> QED BY ONLY <2>1
<1>5. c < len
  <2> SUFFICES ASSUME ~(c < len) PROVE FALSE
    OBVIOUS
  <2>1. PICK t \in Nat : c = len + t
    <3>1. c - len \in Nat /\ c = len + (c - len)
      BY ONLY ~(c < len), c \in Nat, len \in Nat
    <3> QED BY <3>1
  <2>2. cs * c = len * cs + cs * t /\ cs * t \in Nat /\ len * cs \in Nat
    BY ONLY <2>1, cs \in Nat \ {0}, t \in Nat, len \in Nat
  <2> QED BY ONLY <1>3, <1>4, <2>2, s \in 0 .. cs - 1, q \in Nat, cs \in Nat \ {0}
<1>6. j = c + 1 /\ j - 1 = c
  BY <1>2, <1>4
<1> QED BY <1>1, <1>2, <1>4, <1>5, <1>6

LEMMA AtSectorHas ==
    ASSUME NEW d \in FileDesc, NEW q \in Nat, q < Sectors(d), AtSector(d, q)
    PROVE  HasSector(d) /\ SectorOf(d) = SectorAt(d, q)
<1>1. CASE IsRoot(d)
  BY <1>1 DEF HasSector, SectorOf, SectorAt, AtSector
<1>2. CASE ~IsRoot(d)
  <2>1. PICK f \in Nat : f = d.first_cluster
    BY DEF FileDesc
  <2>2. PICK j : j = (q \div cluster_sectors) + 1
    OBVIOUS
  <2>3. j \in 1 .. Len(Chain[f]) /\ q % cluster_sectors \in 0 .. cluster_sectors - 1
    BY <1>2, <2>1, <2>2, ClusterOf
  <2>4. Chain[f][j] \in 2 .. LastCluster
    BY <2>3, ChainLinked DEF Linked
  <2>5. d.cur_cluster = Chain[f][j] /\ d.cur_sector_in_cluster = q % cluster_sectors
    BY <1>2, <2>1, <2>2 DEF AtSector
  <2>6. HasSector(d)
    BY <2>3, <2>4, <2>5, Sizes DEF HasSector
  <2> QED BY <1>2, <2>1, <2>2, <2>5, <2>6 DEF SectorOf, SectorAt
<1> QED BY <1>1, <1>2

(* From a sector, NextSector goes to the next, and from the last one to    *)
(* where the chain ends.                                                   *)
LEMMA NextAt ==
    ASSUME NEW d \in FileDesc, NEW q \in Nat, q < Sectors(d), AtSector(d, q),
           NEW y, y = NextSector(d)
    PROVE  /\ q + 1 < Sectors(d) => AtSector(y, q + 1)
           /\ q + 1 = Sectors(d) /\ ~IsRoot(d) => y.cur_cluster \notin 2 .. LastCluster
<1>1. HasSector(d)
  BY AtSectorHas
<1>2. y \in FileDesc /\ SameFile(d, y) /\ (IsRoot(y) <=> IsRoot(d))
  BY <1>1, NextSectorIs DEF SameFile, IsRoot
<1>3. CASE IsRoot(d)
  <2>1. y = [d EXCEPT !.cur_cluster = @ + 1]
    BY <1>3 DEF NextSector
  <2>2. y.cur_cluster = d.cur_cluster + 1
    BY <2>1 DEF FileDesc
  <2> QED BY <1>2, <1>3, <2>2, Sizes DEF AtSector
<1>4. CASE ~IsRoot(d)
  <2>1. PICK f \in Nat : f = d.first_cluster /\ f = y.first_cluster
    BY <1>2 DEF FileDesc, SameFile
  <2>2. PICK len \in Nat, cs \in Nat \ {0} : len = Len(Chain[f]) /\ cs = cluster_sectors
    BY ChainStarts, Sizes
  <2>3. PICK c \in Nat, s \in 0 .. cs - 1 : /\ c = q \div cs /\ s = q % cs
                                            /\ q = cs * c + s
    <3>1. q \div cs \in Nat /\ q % cs \in 0 .. cs - 1 /\ q = cs * (q \div cs) + (q % cs)
      BY ONLY Division, q \in Nat, cs \in Nat \ {0}
    <3> QED BY ONLY <3>1
  <2>4. c + 1 \in 1 .. len
    BY <1>4, <2>1, <2>2, <2>3, ClusterOf
  <2>5. Sectors(d) = len * cs
    BY <1>4, <2>1, <2>2 DEF Sectors
  <2>6. d.cur_cluster = Chain[f][c + 1] /\ d.cur_sector_in_cluster = s
    BY <1>4, <2>1, <2>2, <2>3 DEF AtSector
  <2>7. /\ s + 1 < cs => (q + 1) % cs = s + 1 /\ (q + 1) \div cs = c
        /\ s + 1 = cs => (q + 1) % cs = 0 /\ (q + 1) \div cs = c + 1
    <3>1. (q % cs) + 1 <= cs /\ 1 \in Nat
      BY <2>3
    <3>2. /\ (q % cs) + 1 < cs => (q + 1) % cs = (q % cs) + 1 /\ (q + 1) \div cs = q \div cs
          /\ (q % cs) + 1 = cs => (q + 1) % cs = 0 /\ (q + 1) \div cs = (q \div cs) + 1
      BY ONLY <3>1, DivisionAfter, q \in Nat, cs \in Nat \ {0}, Zenon
    <3>3. q % cs = s /\ q \div cs = c
      BY <2>3
    <3> QED BY ONLY <3>2, <3>3, Zenon
  <2>8. CASE s + 1 < cs
    <3>1. y = [d EXCEPT !.cur_sector_in_cluster = @ + 1]
      BY <1>4, <2>2, <2>6, <2>8 DEF NextSector
    <3>2. y.cur_cluster = d.cur_cluster /\ y.cur_sector_in_cluster = s + 1
      BY <2>6, <3>1 DEF FileDesc
    <3>3. AtSector(y, q + 1)
      BY <1>2, <1>4, <2>1, <2>2, <2>6, <2>7, <2>8, <3>2 DEF AtSector
    <3>4. q + 1 # len * cs
      <4>1. PICK t \in Nat : len = c + 1 + t
        <5>1. len - (c + 1) \in Nat /\ len = c + 1 + (len - (c + 1))
          BY <2>4
        <5> QED BY <5>1
      <4>2. len * cs = cs * c + cs + t * cs /\ t * cs \in Nat /\ cs * c \in Nat
        BY ONLY <4>1, cs \in Nat \ {0}, t \in Nat, c \in Nat
      <4> QED BY ONLY <2>3, <2>8, <4>2, s \in 0 .. cs - 1, cs \in Nat \ {0}
    <3> QED BY <2>5, <3>3, <3>4
  <2>9. CASE s + 1 = cs
    <3>1. PICK b : b = fat_next_cluster(d.cur_cluster)
      OBVIOUS
    <3>2. y = [d EXCEPT !.cur_sector_in_cluster = 0, !.cur_cluster = b]
      BY <1>4, <2>2, <2>6, <2>9, <3>1 DEF NextSector, FileDesc
    <3>3. y.cur_cluster = b /\ y.cur_sector_in_cluster = 0
      <4>1. PICK z : z = [d EXCEPT !.cur_sector_in_cluster = 0]
        OBVIOUS
      <4>2. z \in FileDesc /\ z.cur_sector_in_cluster = 0
        BY <4>1 DEF FileDesc
      <4>3. y = [z EXCEPT !.cur_cluster = b]
        BY <3>2, <4>1
      <4> QED BY <4>2, <4>3 DEF FileDesc
    <3>4. Chain[f][c + 1] \in 2 .. LastCluster
          /\ IF c + 1 = len THEN Table[Chain[f][c + 1]] \notin 2 .. LastCluster
             ELSE Table[Chain[f][c + 1]] = Chain[f][(c + 1) + 1]
      BY <2>2, <2>4, ChainLinked DEF Linked
    <3>5. b = Table[Chain[f][c + 1]]
      BY <2>6, <3>1, <3>4, ChainGoesUp
    <3>6. q + 1 = cs * (c + 1)
      BY ONLY <2>3, <2>9, cs \in Nat \ {0}, c \in Nat, q \in Nat, s \in 0 .. cs - 1
    <3>7. c + 1 = len <=> q + 1 = len * cs
      <4>1. c + 1 = len => q + 1 = len * cs
        BY ONLY <3>6, cs \in Nat \ {0}, c \in Nat, len \in Nat
      <4>2. PICK t \in Nat : len = c + 1 + t
        <5>1. len - (c + 1) \in Nat /\ len = c + 1 + (len - (c + 1))
          BY <2>4
        <5> QED BY <5>1
      <4>3. ASSUME t # 0 PROVE q + 1 # len * cs
        <5>1. PICK u \in Nat : t = u + 1
          <6>1. t - 1 \in Nat /\ t = (t - 1) + 1
            BY <4>3
          <6> QED BY <6>1
        <5>2. len * cs = cs * (c + 1) + cs + u * cs /\ u * cs \in Nat /\ cs * (c + 1) \in Nat
          BY ONLY <4>2, <5>1, cs \in Nat \ {0}, u \in Nat, c \in Nat
        <5> QED BY ONLY <3>6, <5>2, cs \in Nat \ {0}
      <4> QED BY <4>1, <4>2, <4>3
    <3>8. c + 1 # len => AtSector(y, q + 1)
      BY <1>2, <1>4, <2>1, <2>2, <2>7, <2>9, <3>3, <3>4, <3>5 DEF AtSector
    <3>9. c + 1 = len => y.cur_cluster \notin 2 .. LastCluster
      BY <3>3, <3>4, <3>5
    <3>10. q \in Nat /\ len * cs \in Nat
      OBVIOUS
    <3> QED BY <2>5, <3>7, <3>8, <3>9, <3>10
  <2>10. s + 1 < cs \/ s + 1 = cs
    BY <2>3
  <2> QED BY <2>8, <2>9, <2>10
<1> QED BY <1>3, <1>4

(* The file of d has n records; a directory's size is not known before its *)
(* end.                                                                    *)
Capacity(d) == Sectors(d) * PerSector

Whole(d, n) ==
    /\ n \in Nat /\ d.pos <= n /\ n <= Capacity(d)
    /\ IF d.is_dir /\ ~IsRoot(d)
       THEN n = Capacity(d) /\ n # 0 /\ d.size = (IF d.pos < n THEN 0 ELSE n)
       ELSE d.size = n /\ (IsRoot(d) => n # 0)

(* The place of d is where its position says.                              *)
Cursor(d) == d.pos < Capacity(d) => AtSector(d, d.pos \div PerSector)

(* The buffer holds the sector of the place, but for a sector in M.        *)
Fresh(d, M) == d.pos < Capacity(d) => d.buffer = SectorOf(d) \/ SectorOf(d) \in M

LEMMA SectorIn ==
    ASSUME NEW d \in FileDesc, d.pos < Capacity(d),
           NEW q, q = d.pos \div PerSector, NEW at, at = d.pos % PerSector
    PROVE  /\ q \in Nat /\ q < Sectors(d) /\ at \in 0 .. PerSector - 1
           /\ d.pos + (PerSector - at) <= Capacity(d)
           /\ (d.pos + (PerSector - at) = Capacity(d) <=> q + 1 = Sectors(d))
<1>1. PICK pos \in Nat : pos = d.pos
  BY DEF FileDesc
<1>2. PICK ps \in Nat \ {0}, n \in Nat : ps = PerSector /\ n = Sectors(d)
  BY Sizes, SectorsType
<1>3. q \in Nat /\ at \in 0 .. ps - 1 /\ pos = ps * q + at
  BY ONLY Division, <1>1, <1>2, pos \in Nat, ps \in Nat \ {0},
          q = d.pos \div PerSector, at = d.pos % PerSector
<1>4. Capacity(d) = n * ps
  BY <1>2 DEF Capacity
<1>5. q < n
  <2> SUFFICES ASSUME ~(q < n) PROVE FALSE
    OBVIOUS
  <2>1. PICK t \in Nat : q = n + t
    <3>1. q - n \in Nat /\ q = n + (q - n)
      BY ONLY <1>3, ~(q < n), n \in Nat
    <3> QED BY <3>1
  <2>2. ps * q = n * ps + ps * t /\ ps * t \in Nat /\ n * ps \in Nat
    BY ONLY <2>1, ps \in Nat \ {0}, t \in Nat, n \in Nat
  <2>3. pos < n * ps
    BY <1>1, <1>4
  <2> QED BY ONLY <1>3, <2>2, <2>3, pos \in Nat, ps \in Nat \ {0}
<1>6. PICK t \in Nat : n = q + 1 + t
  <2>1. n - (q + 1) \in Nat /\ n = q + 1 + (n - (q + 1))
    BY ONLY <1>3, <1>5, n \in Nat
  <2> QED BY <2>1
<1>7. n * ps = ps * q + ps + t * ps /\ t * ps \in Nat /\ ps * q \in Nat
  BY ONLY <1>3, <1>6, ps \in Nat \ {0}, t \in Nat
<1>8. t * ps = 0 <=> t = 0
  BY ONLY ps \in Nat \ {0}, t \in Nat
<1>9. pos + (ps - at) = ps * q + ps
  BY ONLY <1>3, <1>7, pos \in Nat, ps \in Nat \ {0}
<1>10. pos + (ps - at) <= n * ps /\ (pos + (ps - at) = n * ps <=> q + 1 = n)
  BY ONLY <1>3, <1>6, <1>7, <1>8, <1>9, ps \in Nat \ {0}, t \in Nat
<1> QED BY <1>1, <1>2, <1>3, <1>4, <1>5, <1>10

(* After a turn: on in the file, or at its end, or given up.               *)
TurnEnds(r, x, n, M, bad) ==
    \/ x.n = r.n - Taken(r) /\ x.err = r.err /\ Fresh(x.d, M)
    \/ x.n = 0 /\ x.err = r.err /\ Fresh(x.d, M) /\ x.d.pos = n
    \/ x.n = 0 /\ x.err = TRUE /\ Fresh(x.d, bad)

(* What a turn of fat_read begins with, in order.                          *)
LEMMA TurnStarts ==
    ASSUME NEW r \in Reading, r.n # 0, NEW n, Whole(r.d, n)
    PROVE  /\ r.d.pos < n /\ r.d.pos < Capacity(r.d)
           /\ r.d.pos + Taken(r) <= n
           /\ Taken(r) \in 1 .. InBuffer(r.d) /\ InBuffer(r.d) \in 1 .. PerSector
           /\ r.d.is_dir /\ ~IsRoot(r.d) => r.d.size = 0
<1>1. r.d \in FileDesc /\ r.n \in Nat \ {0}
  BY DEF Reading, SoundDesc
<1>2. Taken(r) \in 1 .. InBuffer(r.d) /\ Taken(r) <= r.n
  BY CopyStep
<1>3. HasSize(r.d) => r.d.pos + r.n <= r.d.size
  BY ReadingHasSector
<1>4. r.d.pos \in Nat /\ r.d.size \in Nat /\ Capacity(r.d) \in Nat
  <2>1. PICK s \in Nat, ps \in Nat : s = Sectors(r.d) /\ ps = PerSector
    BY <1>1, SectorsType, Sizes
  <2>2. s * ps \in Nat
    OBVIOUS
  <2> QED BY <1>1, <2>1, <2>2 DEF Capacity, FileDesc
<1>5. InBuffer(r.d) \in 1 .. PerSector /\ PerSector \in Nat
  BY <1>1, InBufferType, Sizes
<1>6. CASE r.d.is_dir /\ ~IsRoot(r.d)
  <2>1. n = Capacity(r.d) /\ n # 0 /\ r.d.size = (IF r.d.pos < n THEN 0 ELSE n) /\ r.d.pos <= n
    BY <1>6 DEF Whole
  <2>2. r.d.pos < n /\ r.d.size = 0
    <3>1. CASE ~(r.d.pos < n)
      <4>1. r.d.size = n /\ r.d.pos = n /\ HasSize(r.d)
        BY <1>4, <2>1, <3>1 DEF HasSize
      <4> QED BY <1>1, <1>3, <1>4, <4>1
    <3> QED BY <2>1, <3>1
  <2>3. r.d.pos + InBuffer(r.d) <= Capacity(r.d)
    BY <1>1, <2>1, <2>2, SectorIn DEF InBuffer
  <2> QED BY <1>2, <1>4, <1>5, <2>1, <2>2, <2>3
<1>7. CASE ~(r.d.is_dir /\ ~IsRoot(r.d))
  <2>1. r.d.size = n /\ n <= Capacity(r.d)
    BY <1>7 DEF Whole
  <2>2. HasSize(r.d)
    BY <1>7, <2>1 DEF HasSize, Whole
  <2> QED BY <1>1, <1>2, <1>3, <1>4, <1>5, <1>7, <2>1, <2>2
<1> QED BY <1>6, <1>7

LEMMA TurnIs ==
    ASSUME NEW r \in Reading, r.n # 0, NEW n, Whole(r.d, n), Cursor(r.d),
           NEW M, Fresh(r.d, M), NEW bad, NEW x, x = CopyFromBuffer(r, bad)
    PROVE  Whole(x.d, n) /\ Cursor(x.d) /\ TurnEnds(r, x, n, M, bad)
<1>1. PICK g : g = Advanced(r)
  OBVIOUS
<1>2. PICK k : k = Taken(r)
  OBVIOUS
<1>3. /\ g \in Reading /\ HasSector(g.d) /\ k \in 1 .. InBuffer(r.d) /\ k <= r.n
      /\ g.d.pos = r.d.pos + k /\ g.n = r.n - k /\ g.err = r.err
      /\ SameFile(r.d, g.d) /\ g.d.size = r.d.size /\ g.d.buffer = r.d.buffer
      /\ g.d.cur_cluster = r.d.cur_cluster
      /\ g.d.cur_sector_in_cluster = r.d.cur_sector_in_cluster
  BY <1>1, <1>2, AdvancedIs
<1>4. x = IF k = InBuffer(r.d) THEN Refill(g, bad) ELSE g
  BY <1>1, <1>2, CopyIs
<1>5. /\ r.d.pos < n /\ r.d.pos < Capacity(r.d) /\ r.d.pos + k <= n
      /\ InBuffer(r.d) \in 1 .. PerSector
      /\ r.d.is_dir /\ ~IsRoot(r.d) => r.d.size = 0
  BY <1>2, TurnStarts
<1>6. /\ r.d \in FileDesc /\ g.d \in FileDesc /\ r.n \in Nat
  BY <1>3 DEF Reading, SoundDesc
<1>7. PICK pos \in Nat, size \in Nat, cap \in Nat, ps \in Nat \ {0} :
          /\ pos = r.d.pos /\ size = r.d.size /\ cap = Capacity(r.d) /\ ps = PerSector
  <2>1. PICK s \in Nat, ps \in Nat \ {0} : s = Sectors(r.d) /\ ps = PerSector
    BY <1>6, SectorsType, Sizes
  <2>2. s * ps \in Nat
    OBVIOUS
  <2> QED BY <1>6, <2>1, <2>2 DEF Capacity, FileDesc
<1>8. n \in Nat /\ n <= cap /\ pos + k <= n /\ pos < cap /\ k \in Nat \ {0}
  BY <1>3, <1>5, <1>7 DEF Whole
<1>9. PICK q \in Nat, at \in 0 .. ps - 1 :
          /\ q = pos \div ps /\ at = pos % ps /\ q < Sectors(r.d)
          /\ InBuffer(r.d) = ps - at /\ pos + (ps - at) <= cap
          /\ (pos + (ps - at) = cap <=> q + 1 = Sectors(r.d))
  BY <1>5, <1>6, <1>7, SectorIn DEF InBuffer
<1>10. AtSector(r.d, q)
  BY <1>5, <1>7, <1>9 DEF Cursor
<1>11. \A e : SameFile(r.d, e) =>
          /\ (IsRoot(e) <=> IsRoot(r.d)) /\ Sectors(e) = Sectors(r.d)
          /\ Capacity(e) = cap /\ e.is_dir = r.d.is_dir
  BY <1>7 DEF SameFile, IsRoot, Sectors, Capacity
<1>12. AtSector(g.d, q) /\ SectorOf(g.d) = SectorOf(r.d)
  BY <1>3, <1>10, <1>11 DEF AtSector, SameFile, SectorOf
<1>13. PICK y : y = NextSector(g.d)
  OBVIOUS
<1>14. CASE k # InBuffer(r.d)
  <2>1. x = g
    BY <1>4, <1>14
  <2>2. at + k < ps /\ pos + k < cap
    BY <1>3, <1>7, <1>8, <1>9, <1>14
  <2>3. (pos + k) \div ps = q
    <3>1. (pos % ps) + k < ps /\ (pos % ps) + k <= ps /\ k \in Nat
      BY <1>8, <1>9, <2>2
    <3>2. (pos + k) \div ps = pos \div ps
      BY ONLY <3>1, DivisionAfter, pos \in Nat, ps \in Nat \ {0}, Zenon
    <3> QED BY ONLY <1>9, <3>2, Zenon
  <2>4. Cursor(x.d)
    BY <1>3, <1>7, <1>12, <2>1, <2>3 DEF Cursor
  <2>5. Fresh(x.d, M)
    BY <1>3, <1>5, <1>11, <1>12, <2>1 DEF Fresh
  <2>6. Whole(x.d, n)
    BY <1>3, <1>5, <1>7, <1>8, <1>11, <2>1, <2>2 DEF Whole
  <2> QED BY <1>2, <1>3, <2>1, <2>4, <2>5, <2>6 DEF TurnEnds
<1>15. CASE k = InBuffer(r.d)
  <2>1. x = Refill(g, bad) /\ g.d.pos # 0 /\ g.d.pos = pos + k
    BY <1>3, <1>4, <1>7, <1>8, <1>15
  <2>2. /\ x \in Reading /\ SameFile(g.d, x.d)
        /\ x.d.pos = g.d.pos
        /\ x.d.cur_cluster = y.cur_cluster
        /\ x.d.cur_sector_in_cluster = y.cur_sector_in_cluster
        /\ AtEnd(g, x, y) \/ GivenUp(g, x, y, bad) \/ Fetched(g, x, y, bad)
    BY ONLY <1>3, <1>13, <2>1, RefillIs
  <2>3. SameFile(r.d, x.d) /\ x.d.pos = pos + k
    BY <1>3, <2>1, <2>2 DEF SameFile
  <2>4. /\ q + 1 < Sectors(g.d) => AtSector(y, q + 1)
        /\ q + 1 = Sectors(g.d) /\ ~IsRoot(g.d) => y.cur_cluster \notin 2 .. LastCluster
    BY <1>3, <1>6, <1>9, <1>11, <1>12, <1>13, NextAt
  <2>5. Sectors(g.d) = Sectors(r.d) /\ (IsRoot(g.d) <=> IsRoot(r.d))
        /\ (IsRoot(x.d) <=> IsRoot(r.d)) /\ Capacity(x.d) = cap /\ x.d.is_dir = r.d.is_dir
        /\ Sectors(x.d) = Sectors(r.d) /\ Sectors(r.d) \in Nat
    BY <1>3, <1>6, <1>11, <2>3, SectorsType
  <2>6. SameFile(g.d, y)
    BY <1>3, <1>6, <1>13, NextSectorIs
  <2>7. (pos + k) \div ps = q + 1
    <3>1. (pos % ps) + k = ps /\ k \in Nat /\ (pos % ps) + k <= ps
      BY <1>8, <1>9, <1>15
    <3> QED BY ONLY <1>9, <3>1, DivisionAfter, pos \in Nat, ps \in Nat \ {0}
  <2>8. SectorOf(x.d) = SectorOf(y)
    BY <2>2, <2>6 DEF SectorOf, SameFile, IsRoot
  <2>9. CASE q + 1 < Sectors(r.d)
    <3>1. AtSector(y, q + 1) /\ pos + k < cap
      BY <1>7, <1>8, <1>9, <1>15, <2>4, <2>5, <2>9
    <3>2. AtSector(x.d, q + 1)
      BY <2>2, <2>6, <3>1 DEF AtSector, SameFile, IsRoot
    <3>3. Cursor(x.d)
      BY <1>7, <2>3, <2>7, <3>2 DEF Cursor
    <3>4. HasSector(x.d)
      <4>1. x.d \in FileDesc /\ q + 1 \in Nat
        BY <2>2 DEF Reading, SoundDesc
      <4> QED BY <2>5, <2>9, <3>2, <4>1, AtSectorHas
    <3>5. ~AtEnd(g, x, y)
      <4>1. ASSUME AtEnd(g, x, y) PROVE FALSE
        <5>1. y.cur_cluster >= EndOfChain /\ ~IsRoot(x.d)
          BY <2>5, <4>1 DEF AtEnd
        <5>2. y.cur_cluster \in 2 .. LastCluster
          BY <2>2, <3>4, <5>1 DEF HasSector
        <5> QED BY <5>1, <5>2, TableAssumption DEF EndOfChain
      <4> QED BY <4>1
    <3>6. x.d.size = size
      BY <1>3, <1>7, <2>2, <3>5 DEF GivenUp, Fetched
    <3>7. Whole(x.d, n)
      BY <1>5, <1>7, <1>8, <2>3, <2>5, <3>1, <3>6 DEF Whole
    <3>8. CASE GivenUp(g, x, y, bad)
      <4>1. Fresh(x.d, bad) /\ x.n = 0 /\ x.err = TRUE
        BY <2>8, <3>8 DEF GivenUp, Fresh
      <4> QED BY <3>3, <3>7, <4>1 DEF TurnEnds
    <3>9. CASE Fetched(g, x, y, bad)
      <4>1. Fresh(x.d, M) /\ x.n = r.n - k /\ x.err = r.err
        BY <1>3, <2>8, <3>9 DEF Fetched, Fresh
      <4> QED BY <1>2, <3>3, <3>7, <4>1 DEF TurnEnds
    <3> QED BY <2>2, <3>5, <3>8, <3>9
  <2>10. CASE q + 1 = Sectors(r.d)
    <3>1. pos + k = cap /\ n = cap /\ x.d.pos = cap /\ ~(x.d.pos < Capacity(x.d))
      BY <1>8, <1>9, <1>15, <2>3, <2>5, <2>10
    <3>2. Cursor(x.d) /\ Fresh(x.d, M) /\ Fresh(x.d, bad)
      BY <3>1 DEF Cursor, Fresh
    <3>3. CASE AtEnd(g, x, y)
      <4>1. x.d.size = cap /\ ~IsRoot(x.d) /\ x.n = 0 /\ x.err = r.err
        BY <1>3, <2>5, <3>1, <3>3 DEF AtEnd
      <4>2. Whole(x.d, n)
        BY <1>8, <2>5, <3>1, <4>1 DEF Whole
      <4> QED BY <3>1, <3>2, <4>1, <4>2 DEF TurnEnds
    <3>4. CASE ~AtEnd(g, x, y)
      <4>1. HasSector(x.d) /\ x.d.size = size
        BY <1>3, <1>7, <2>2, <3>4 DEF GivenUp, Fetched
      <4>2. IsRoot(x.d)
        BY <2>2, <2>4, <2>5, <2>10, <4>1 DEF HasSector
      <4>3. Whole(x.d, n)
        BY <1>7, <1>8, <2>5, <3>1, <4>1, <4>2 DEF Whole
      <4>4. \/ x.n = 0 /\ x.err = TRUE
            \/ x.n = r.n - k /\ x.err = r.err
        BY <1>3, <2>2, <3>4 DEF GivenUp, Fetched
      <4> QED BY <1>2, <3>2, <4>3, <4>4 DEF TurnEnds
    <3> QED BY <3>3, <3>4
  <2>11. q + 1 < Sectors(r.d) \/ q + 1 = Sectors(r.d)
    BY ONLY <1>9, <2>5, q \in Nat
  <2> QED BY <2>9, <2>10, <2>11
<1> QED BY <1>14, <1>15

Joined(u, s, t) ==
    /\ Len(s) \in Nat /\ Len(t) \in Nat /\ Len(u) = Len(s) + Len(t)
    /\ \A i \in 1 .. Len(s) : u[i] = s[i]
    /\ \A j \in 1 .. Len(t) : u[Len(s) + j] = t[j]

LEMMA JoinedIs ==
    ASSUME NEW S, NEW s \in Seq(S), NEW t \in Seq(S), NEW u, u = s \o t
    PROVE  Joined(u, s, t) /\ u \in Seq(S)
<1>1. Len(s) \in Nat /\ Len(t) \in Nat
  BY LenProperties
<1>2. /\ u \in Seq(S) /\ Len(u) = Len(s) + Len(t)
      /\ \A i \in 1 .. Len(s) + Len(t) : u[i] = IF i <= Len(s) THEN s[i] ELSE t[i - Len(s)]
  BY ONLY ConcatProperties, s \in Seq(S), t \in Seq(S), u = s \o t
<1> QED BY <1>1, <1>2 DEF Joined

(* r is read where record s is, whose sector may be one of those in M.     *)
IsRecord(r, s, M) == r = s \/ s[1] \in M

LEMMA PieceOf ==
    ASSUME NEW d \in FileDesc, d.pos < Capacity(d), Cursor(d), NEW M, Fresh(d, M),
           NEW k \in Nat, k <= InBuffer(d), NEW i \in 1 .. k
    PROVE  IsRecord(Piece(d, k)[i], RecordAt(d, d.pos + i - 1), M)
<1>1. PICK pos \in Nat, ps \in Nat \ {0} : pos = d.pos /\ ps = PerSector
  BY Sizes DEF FileDesc
<1>2. PICK q \in Nat, at \in 0 .. ps - 1 :
          /\ q = pos \div ps /\ at = pos % ps /\ q < Sectors(d) /\ InBuffer(d) = ps - at
  BY <1>1, SectorIn DEF InBuffer
<1>3. PICK j \in Nat : i = j + 1 /\ at + j < ps
  <2>1. i - 1 \in Nat /\ i = (i - 1) + 1 /\ at + (i - 1) < ps
    BY <1>2
  <2> QED BY <2>1
<1>4. (pos + j) \div ps = q /\ (pos + j) % ps = at + j
  <2>1. (pos % ps) + j < ps /\ (pos % ps) + j <= ps
    BY <1>2, <1>3
  <2> QED BY ONLY <1>2, <2>1, DivisionAfter, pos \in Nat, ps \in Nat \ {0}, j \in Nat
<1>5. d.pos + i - 1 = pos + j
  BY <1>1, <1>3
<1>6. RecordAt(d, d.pos + i - 1) = <<SectorAt(d, q), at + j>>
  BY <1>1, <1>4, <1>5 DEF RecordAt
<1>7. Piece(d, k)[i] = <<d.buffer, at + j>>
  <2>1. Piece(d, k)[i] = <<d.buffer, at + i - 1>>
    BY <1>1, <1>2 DEF Piece
  <2>2. at + i - 1 = at + j
    BY <1>3
  <2> QED BY <2>1, <2>2
<1>8. SectorOf(d) = SectorAt(d, q)
  BY <1>1, <1>2, AtSectorHas DEF Cursor
<1>9. d.buffer = SectorAt(d, q) \/ SectorAt(d, q) \in M
  BY <1>8 DEF Fresh
<1>10. <<SectorAt(d, q), at + j>>[1] = SectorAt(d, q)
  OBVIOUS
<1> QED BY <1>6, <1>7, <1>9, <1>10 DEF IsRecord

(* The records of s are those of d's file from d's place on.               *)
InSequence(s, d, M) ==
    \A i \in 1 .. Len(s) : IsRecord(s[i], RecordAt(d, d.pos + i - 1), M)

(* How far a read of m records, from d on, has come with r.                *)
Progress(r, d, m, n, M, bad) ==
    /\ SameFile(d, r.d) /\ Whole(r.d, n) /\ Cursor(r.d)
    /\ Len(r.data) \in Nat /\ Len(r.data) + r.n <= Clip(d, m)
    /\ r.d.pos = d.pos + Len(r.data)
    /\ InSequence(r.data, d, M)
    /\ IF r.err THEN r.n = 0 /\ Fresh(r.d, bad) /\ Len(r.data) # 0
       ELSE Fresh(r.d, M) /\ (Len(r.data) + r.n = Clip(d, m) \/ r.d.pos = n)

LEMMA ProgressKeeps ==
    ASSUME NEW d \in SoundDesc, NEW m \in Nat, NEW n, NEW M, NEW bad,
           NEW r \in Reading, r.n # 0, Progress(r, d, m, n, M, bad),
           NEW x, x = CopyFromBuffer(r, bad)
    PROVE  x \in Reading /\ Progress(x, d, m, n, M, bad)
<1>1. /\ SameFile(d, r.d) /\ Whole(r.d, n) /\ Cursor(r.d) /\ Fresh(r.d, M)
      /\ r.err = FALSE /\ Len(r.data) \in Nat /\ Len(r.data) + r.n <= Clip(d, m)
      /\ Len(r.data) + r.n = Clip(d, m) \/ r.d.pos = n
  BY DEF Progress, Reading
<1>2. PICK k : k = Taken(r)
  OBVIOUS
<1>3. /\ x \in Reading /\ SameFile(r.d, x.d) /\ x.d.pos = r.d.pos + k
      /\ x.data = Copied(r) /\ k <= r.n
  BY <1>2, CopyStep
<1>4. /\ r.d.pos < n /\ r.d.pos < Capacity(r.d) /\ k \in 1 .. InBuffer(r.d)
      /\ InBuffer(r.d) \in 1 .. PerSector
  BY <1>1, <1>2, TurnStarts
<1>5. Whole(x.d, n) /\ Cursor(x.d) /\ TurnEnds(r, x, n, M, bad)
  BY <1>1, TurnIs
<1>6. /\ r.d \in FileDesc /\ d \in FileDesc /\ r.data \in Seq(Nat \X Nat)
      /\ r.n \in Nat /\ k \in Nat /\ k <= InBuffer(r.d) /\ PerSector \in Nat
  BY <1>4, Sizes DEF Reading, SoundDesc
<1>7. Clip(d, m) \in Nat
  BY FirstIs
<1>8. PICK piece \in Seq(Nat \X Nat) : piece = Piece(r.d, k) /\ Len(piece) = k
  BY <1>6, PieceType
<1>9. PICK old \in Seq(Nat \X Nat) : old = r.data
  BY <1>6
<1>10. PICK all : all = x.data /\ Joined(all, old, piece)
  <2>1. PICK u : u = x.data
    OBVIOUS
  <2>2. u = old \o piece
    BY <1>2, <1>3, <1>8, <1>9, <2>1 DEF Copied
  <2>3. Joined(u, old, piece)
    BY ONLY <2>2, JoinedIs, old \in Seq(Nat \X Nat), piece \in Seq(Nat \X Nat)
  <2> QED BY <2>1, <2>3
<1>11. PICK len \in Nat : len = Len(old)
  BY <1>1, <1>9
<1>12. /\ Len(all) = len + k
       /\ \A i \in 1 .. len : all[i] = old[i]
       /\ \A j \in 1 .. k : all[len + j] = piece[j]
  BY <1>8, <1>10, <1>11 DEF Joined
<1>13. PICK pos \in Nat : pos = d.pos /\ r.d.pos = pos + len
  BY <1>6, <1>9, <1>11 DEF Progress, FileDesc
<1>14. x.d.pos = d.pos + Len(x.data)
  BY <1>3, <1>6, <1>10, <1>12, <1>13
<1>15. InSequence(x.data, d, M)
  <2>1. ASSUME NEW i \in 1 .. Len(all)
        PROVE  IsRecord(all[i], RecordAt(d, d.pos + i - 1), M)
    <3>1. CASE i \in 1 .. len
      BY <1>9, <1>11, <1>12, <3>1 DEF Progress, InSequence
    <3>2. CASE i \notin 1 .. len
      <4>1. PICK j \in 1 .. k : i = len + j
        <5>1. i - len \in 1 .. k /\ i = len + (i - len)
          BY <1>6, <1>12, <3>2
        <5> QED BY <5>1
      <4>2. all[i] = piece[j]
        BY <1>12, <4>1
      <4>3. IsRecord(piece[j], RecordAt(r.d, r.d.pos + j - 1), M)
        BY <1>1, <1>4, <1>6, <1>8, PieceOf
      <4>4. RecordAt(r.d, r.d.pos + j - 1) = RecordAt(d, d.pos + i - 1)
        <5>1. j \in Nat
          BY <1>6
        <5>2. r.d.pos + j - 1 = d.pos + i - 1
          BY ONLY <1>13, <4>1, <5>1, pos \in Nat, len \in Nat
        <5> QED BY <1>1, <5>2 DEF RecordAt, SectorAt, SameFile, IsRoot
      <4> QED BY <4>2, <4>3, <4>4
    <3> QED BY <3>1, <3>2
  <2> QED BY <1>10, <2>1 DEF InSequence
<1>16. SameFile(d, x.d)
  BY <1>1, <1>3 DEF SameFile
<1>17. x.n \in Nat /\ x.err \in BOOLEAN
  BY <1>3 DEF Reading
<1>18. Len(x.data) \in Nat /\ Len(x.data) + x.n <= Clip(d, m)
  <2>1. x.n = r.n - k \/ x.n = 0
    BY <1>2, <1>5 DEF TurnEnds
  <2>2. Len(x.data) = Len(r.data) + k
    BY <1>9, <1>10, <1>11, <1>12
  <2> QED BY ONLY <1>1, <1>3, <1>6, <1>7, <2>1, <2>2
<1>19. IF x.err THEN x.n = 0 /\ Fresh(x.d, bad) /\ Len(x.data) # 0
       ELSE Fresh(x.d, M) /\ (Len(x.data) + x.n = Clip(d, m) \/ x.d.pos = n)
  <2>1. CASE x.n = r.n - k /\ x.err = r.err /\ Fresh(x.d, M)
    <3>1. Len(x.data) + x.n = Len(r.data) + r.n
      <4>1. Len(x.data) = Len(r.data) + k
        BY <1>9, <1>10, <1>11, <1>12
      <4> QED BY ONLY <1>1, <1>6, <2>1, <4>1
    <3>2. Len(r.data) + r.n = Clip(d, m)
      <4>1. r.d.pos # n
        <5>1. r.d.pos \in Nat /\ n \in Nat
          BY <1>1, <1>6 DEF FileDesc, Whole
        <5> QED BY ONLY <1>4, <5>1
      <4> QED BY <1>1, <4>1
    <3> QED BY <1>1, <2>1, <3>1, <3>2
  <2>2. CASE x.n = 0 /\ x.err = r.err /\ Fresh(x.d, M) /\ x.d.pos = n
    BY <1>1, <2>2
  <2>3. CASE x.n = 0 /\ x.err = TRUE /\ Fresh(x.d, bad)
    <3>1. Len(x.data) = len + k
      BY <1>10, <1>12
    <3>2. Len(x.data) # 0
      BY ONLY <1>4, <1>6, <3>1, len \in Nat
    <3> QED BY <2>3, <3>2
  <2> QED BY <1>2, <1>5, <2>1, <2>2, <2>3 DEF TurnEnds
<1> QED BY <1>3, <1>5, <1>14, <1>15, <1>16, <1>18, <1>19 DEF Progress

(* fat_read gives the records of the file from its place on, as many as    *)
(* are asked for or as there are; all this until a sector cannot be read,  *)
(* and then at least one.                                                  *)
InOrder(x, d, m, n, M, bad) ==
    /\ SameFile(d, x.d) /\ Whole(x.d, n) /\ Cursor(x.d)
    /\ Len(x.data) \in 0 .. m /\ x.d.pos = d.pos + Len(x.data)
    /\ InSequence(x.data, d, M)
    /\ IF x.err THEN Fresh(x.d, bad) /\ Len(x.data) # 0
       ELSE Fresh(x.d, M) /\ (Len(x.data) = m \/ x.d.pos = n)

LEMMA ReadInOrder ==
    ASSUME NEW d \in SoundDesc, NEW n, Whole(d, n), Cursor(d), NEW M, Fresh(d, M),
           NEW m \in Nat, NEW bad, NEW x, x = fat_read(d, m, bad)
    PROVE  x \in Reading /\ InOrder(x, d, m, n, M, bad)
<1> DEFINE I == {r \in Reading : Progress(r, d, m, n, M, bad)}
<1>1. PICK c \in 0 .. m : c = Clip(d, m)
  <2>1. Clip(d, m) \in Nat /\ Clip(d, m) <= m
    BY FirstIs
  <2> QED BY <2>1
<1>2. First(d, m) \in I
  <2>1. PICK f : f = First(d, m)
    OBVIOUS
  <2>2. /\ f \in Reading /\ f.d = d /\ f.n = c /\ f.data = <<>> /\ f.err = FALSE
    BY <1>1, <2>1, FirstIs
  <2>3. Len(f.data) = 0 /\ d.pos \in Nat
    BY <2>2 DEF SoundDesc, FileDesc
  <2>4. InSequence(f.data, d, M)
    BY <2>3 DEF InSequence
  <2>5. Progress(f, d, m, n, M, bad)
    BY <1>1, <2>2, <2>3, <2>4 DEF Progress, SameFile
  <2> QED BY <2>1, <2>2, <2>5
<1>3. ASSUME NEW r \in I, r.n # 0 PROVE CopyFromBuffer(r, bad) \in I
  BY <1>3, ProgressKeeps
<1>4. x \in I /\ x.n = 0
  <2>1. I \subseteq Reading
    OBVIOUS
  <2> HIDE DEF I
  <2> QED BY <1>2, <1>3, <2>1, FatReadKeeps
<1>5. x \in Reading /\ Progress(x, d, m, n, M, bad) /\ x.n = 0
  BY <1>4
<1>6. Len(x.data) \in 0 .. m
  BY <1>1, <1>5 DEF Progress
<1>7. ASSUME ~x.err PROVE Len(x.data) = m \/ x.d.pos = n
  <2>1. Len(x.data) = c \/ x.d.pos = n
    BY <1>1, <1>5, <1>6, <1>7 DEF Progress
  <2>2. CASE Len(x.data) = c /\ c # m
    <3>1. PICK pos \in Nat, size \in Nat : pos = d.pos /\ size = d.size
      BY DEF SoundDesc, FileDesc
    <3>2. HasSize(d) /\ c = size - pos
      BY <1>1, <2>2, <3>1 DEF Clip
    <3>3. size = n
      <4>1. CASE d.is_dir /\ ~IsRoot(d)
        BY <3>1, <3>2, <4>1 DEF Whole, HasSize
      <4>2. CASE ~(d.is_dir /\ ~IsRoot(d))
        BY <3>1, <4>2 DEF Whole
      <4> QED BY <4>1, <4>2
    <3>4. x.d.pos = pos + c
      BY <1>5, <2>2, <3>1 DEF Progress
    <3>5. x.d.pos = n
      BY ONLY <3>2, <3>3, <3>4, pos \in Nat, size \in Nat, c \in 0 .. m
    <3> QED BY <3>5
  <2> QED BY <2>1, <2>2
<1> QED BY <1>5, <1>6, <1>7 DEF Progress, InOrder

-----------------------------------------------------------------------------
(* What a file holds                                                       *)

LEMMA RecordsIs ==
    ASSUME NEW d \in FileDesc, ~IsRoot(d), NEW f, f = d.first_cluster, NEW s, s = Records(f)
    PROVE  /\ DOMAIN s = 1 .. Capacity(d) /\ s \in Seq(PlacesOf(f))
           /\ Len(s) = Capacity(d) /\ Capacity(d) \in Nat
           /\ \A i \in 1 .. Capacity(d) : s[i] = RecordAt(d, i - 1)
<1>1. f \in Nat
  BY DEF FileDesc
<1>2. PICK chain \in Seq(Nat), len \in Nat : chain = Chain[f] /\ len = Len(chain)
  BY <1>1, ChainStarts
<1>3. PICK ps \in Nat \ {0}, cs \in Nat \ {0} : ps = PerSector /\ cs = cluster_sectors
  BY Sizes
<1>4. PICK pc \in Nat \ {0} : pc = cs * ps
  BY ONLY cs \in Nat \ {0}, ps \in Nat \ {0}
<1>5. PICK cap \in Nat : cap = len * pc
  OBVIOUS
<1>6. Capacity(d) = cap
  <2>1. Capacity(d) = (len * cs) * ps
    BY <1>2, <1>3 DEF Capacity, Sectors
  <2>2. (len * cs) * ps = len * pc
    BY ONLY <1>4, len \in Nat, cs \in Nat \ {0}, ps \in Nat \ {0}
  <2> QED BY <1>5, <2>1, <2>2
<1>7. s = [i \in 1 .. cap |->
              <<cluster_to_lba(chain[((i - 1) \div pc) + 1]) + (((i - 1) \div ps) % cs),
                (i - 1) % ps>>]
  BY <1>2, <1>3, <1>4, <1>5 DEF Records
<1>8. ASSUME NEW i \in 1 .. cap PROVE s[i] = RecordAt(d, i - 1)
  <2>1. PICK n \in Nat : n = i - 1
    <3>1. i - 1 \in Nat
      OBVIOUS
    <3> QED BY <3>1
  <2>2. n \div pc = (n \div ps) \div cs
    BY ONLY <1>4, DivisionTwice, n \in Nat, cs \in Nat \ {0}, ps \in Nat \ {0}
  <2>3. s[i] = <<cluster_to_lba(chain[(n \div pc) + 1]) + ((n \div ps) % cs), n % ps>>
    BY <1>7, <2>1
  <2>4. RecordAt(d, n) = <<SectorAt(d, n \div ps), n % ps>>
    BY <1>3 DEF RecordAt
  <2>5. SectorAt(d, n \div ps) =
            cluster_to_lba(chain[((n \div ps) \div cs) + 1]) + ((n \div ps) % cs)
    BY <1>2, <1>3 DEF SectorAt
  <2> QED BY <2>1, <2>2, <2>3, <2>4, <2>5
<1>9. DOMAIN s = 1 .. cap
  BY <1>7
<1>10. s \in Seq(PlacesOf(f))
  <2>1. \A i \in 1 .. cap : s[i] \in PlacesOf(f)
    BY <1>9 DEF PlacesOf
  <2>2. s \in [1 .. cap -> PlacesOf(f)]
    BY <1>7, <2>1
  <2> QED BY <2>2, SeqDef
<1>11. Len(s) = cap
  BY <1>9, <1>10, LenProperties
<1> QED BY <1>6, <1>8, <1>9, <1>10, <1>11

(* The contents c of the file of d, in d's terms.                          *)
Holds(d, c) ==
    /\ c \in Seq(PlacesOf(d.first_cluster)) /\ Len(c) \in Nat /\ Len(c) <= Capacity(d)
    /\ \A i \in 1 .. Len(c) : c[i] = RecordAt(d, i - 1)

LEMMA ContentsIs ==
    ASSUME NEW p \in DOMAIN Entries, NEW d \in FileDesc, ~IsRoot(d),
           d.first_cluster = Entries[p].first, NEW c, c = Contents[d.first_cluster]
    PROVE  /\ Holds(d, c)
           /\ Len(c) = IF Entries[p].is_dir THEN Capacity(d) ELSE Entries[p].size
<1>1. PICK f \in Nat : f = d.first_cluster
  BY DEF FileDesc
<1>2. PICK q \in DOMAIN Entries :
          /\ q = CHOOSE w \in DOMAIN Entries : Entries[w].first = f
          /\ Entries[q].first = f
  <2>1. \E w \in DOMAIN Entries : Entries[w].first = f
    BY <1>1
  <2> QED BY <2>1
<1>3. Entries[q].is_dir = Entries[p].is_dir /\ Entries[q].size = Entries[p].size
  BY <1>1, <1>2, DiskAssumption
<1>4. PICK s : s = Records(f)
  OBVIOUS
<1>5. /\ s \in Seq(PlacesOf(f)) /\ Len(s) = Capacity(d) /\ Capacity(d) \in Nat
      /\ \A i \in 1 .. Capacity(d) : s[i] = RecordAt(d, i - 1)
  BY <1>1, <1>4, RecordsIs
<1>6. PICK size \in Nat : size = Entries[p].size
  BY EntryType
<1>7. size <= Capacity(d)
  <2>1. size <= Room(f)
    BY <1>1, <1>6, DiskAssumption
  <2> QED BY <1>1, <2>1 DEF Room, Capacity, Sectors
<1>8. c = IF Entries[p].is_dir THEN s ELSE SubSeq(s, 1, size)
  <2>1. f \in File
    BY <1>2 DEF File
  <2>2. Contents[f] = IF Entries[q].is_dir THEN Records(f)
                      ELSE SubSeq(Records(f), 1, Entries[q].size)
    BY <1>2, <2>1 DEF Contents
  <2> QED BY <1>1, <1>3, <1>4, <1>6, <2>2
<1>9. CASE Entries[p].is_dir
  BY <1>1, <1>5, <1>8, <1>9 DEF Holds
<1>10. CASE ~Entries[p].is_dir
  <2>1. \A i \in 1 .. size : s[i] \in PlacesOf(f)
    BY <1>5, <1>7
  <2>2. PICK sub : sub = SubSeq(s, 1, size)
    OBVIOUS
  <2>3. /\ sub \in Seq(PlacesOf(f))
        /\ Len(sub) = IF 1 <= size THEN size - 1 + 1 ELSE 0
        /\ \A i \in 1 .. size - 1 + 1 : sub[i] = s[1 + i - 1]
    BY ONLY <2>1, <2>2, SubSeqProperties, size \in Nat
  <2>4. Len(sub) = size /\ \A i \in 1 .. size : sub[i] = s[i]
    BY <2>3
  <2> QED BY <1>1, <1>5, <1>7, <1>8, <1>10, <1>6, <2>2, <2>3, <2>4 DEF Holds
<1> QED BY <1>9, <1>10

(* The descriptor of an open file that is read in order.                   *)
InFile(d) ==
    /\ d.first_cluster \in File /\ ~IsRoot(d)
    /\ Whole(d, Len(Contents[d.first_cluster])) /\ Cursor(d)

LEMMA OpenedInOrder ==
    ASSUME NEW p \in DOMAIN Entries, NEW h \in Handle, NEW x, x = Opened(h, Entries[p])
    PROVE  InFile(x) /\ Fresh(x, {})
<1>1. AtStart(x, h, Entries[p]) /\ x \in FileDesc
  BY OpenedIs DEF SoundDesc
<1>2. ~IsRoot(x)
  BY <1>1, Sizes DEF IsRoot, Handle, ROOT_DIR_HANDLE, AtStart
<1>3. PICK c : c = Contents[x.first_cluster]
  OBVIOUS
<1>4. /\ x.first_cluster = Entries[p].first /\ x.cur_cluster = Entries[p].first
      /\ x.pos = 0 /\ x.cur_sector_in_cluster = 0 /\ x.size = Entries[p].size
      /\ x.is_dir = Entries[p].is_dir /\ x.buffer = cluster_to_lba(Entries[p].first)
  BY <1>1 DEF AtStart
<1>5. /\ Holds(x, c)
      /\ Len(c) = IF Entries[p].is_dir THEN Capacity(x) ELSE Entries[p].size
  BY <1>1, <1>2, <1>3, <1>4, ContentsIs
<1>6. PICK f \in Nat, len \in Nat, cs \in Nat \ {0}, ps \in Nat \ {0} :
          /\ f = Entries[p].first /\ len = Len(Chain[f])
          /\ cs = cluster_sectors /\ ps = PerSector
  BY EntryType, ChainStarts, Sizes
<1>7. Capacity(x) = (len * cs) * ps
  BY <1>2, <1>4, <1>6 DEF Capacity, Sectors
<1>8. HasCluster(Entries[p])
  BY DiskAssumption
<1>9. CASE f \in 2 .. LastCluster
  <2>1. len >= 1 /\ Chain[f][1] = f
    BY <1>6, <1>9, ChainStarts
  <2>2. (len * cs) * ps \in Nat \ {0}
    <3>1. len * cs \in Nat \ {0}
      BY ONLY <2>1, len \in Nat, cs \in Nat \ {0}
    <3>2. PICK n \in Nat \ {0} : n = len * cs
      BY <3>1
    <3>3. n * ps \in Nat \ {0}
      BY ONLY n \in Nat \ {0}, ps \in Nat \ {0}
    <3> QED BY <3>2, <3>3
  <2>3. 0 \div ps = 0 /\ 0 \div cs = 0 /\ 0 % cs = 0
    OBVIOUS
  <2>4. AtSector(x, 0)
    BY <1>2, <1>4, <1>6, <2>1, <2>3 DEF AtSector
  <2>5. SectorOf(x) = x.buffer
    <3>1. PICK b \in Nat : b = cluster_to_lba(f) /\ b = x.buffer
      BY <1>1, <1>4, <1>6 DEF FileDesc
    <3> QED BY <1>2, <1>4, <1>6, <3>1 DEF SectorOf
  <2>6. Cursor(x) /\ Fresh(x, {})
    BY <1>4, <1>6, <2>3, <2>4, <2>5 DEF Cursor, Fresh
  <2>7. Whole(x, Len(c))
    <3>1. CASE Entries[p].is_dir
      <4>1. x.size = 0
        BY <1>4, <1>8, <3>1 DEF HasCluster
      <4> QED BY <1>2, <1>4, <1>5, <1>7, <2>2, <3>1, <4>1 DEF Whole, Holds
    <3>2. CASE ~Entries[p].is_dir
      BY <1>2, <1>4, <1>5, <3>2 DEF Whole, Holds
    <3> QED BY <3>1, <3>2
  <2> QED BY <1>2, <1>3, <1>4, <2>6, <2>7 DEF InFile, File
<1>10. CASE f \notin 2 .. LastCluster
  <2>1. len = 0 /\ x.size = 0 /\ ~x.is_dir
    BY <1>4, <1>6, <1>8, <1>10, ChainStarts DEF HasCluster
  <2>2. Capacity(x) = 0
    BY <1>7, <2>1
  <2>3. Cursor(x) /\ Fresh(x, {})
    BY <1>4, <2>2 DEF Cursor, Fresh
  <2>4. Whole(x, Len(c))
    BY <1>2, <1>4, <1>5, <2>1, <2>2 DEF Whole, Holds
  <2> QED BY <1>2, <1>3, <1>4, <2>3, <2>4 DEF InFile, File
<1> QED BY <1>9, <1>10

(* Whatever the buffer holds is the sector of the place or some sector.    *)
LEMMA FreshFrom ==
    ASSUME NEW d PROVE \E M : Fresh(d, M)
<1>1. Fresh(d, {SectorOf(d)})
  BY DEF Fresh
<1> QED BY <1>1

LEMMA FreshMore ==
    ASSUME NEW d, NEW M, NEW N, Fresh(d, M), M \subseteq N PROVE Fresh(d, N)
BY DEF Fresh

(* A read of the contents c, from place pos on, that gives s.              *)
GoesOn(s, c, pos, M) ==
    /\ Len(c) \in Nat /\ Len(s) \in Nat /\ pos + Len(s) <= Len(c)
    /\ \A i \in 1 .. Len(s) : IsRecord(s[i], c[pos + i], M)

LEMMA FileGoesOn ==
    ASSUME NEW d \in SoundDesc, InFile(d), NEW M, Fresh(d, M), NEW m \in Nat, NEW bad,
           NEW x, x = fat_read(d, m, bad), NEW c, c = Contents[d.first_cluster]
    PROVE  /\ x.d \in SoundDesc /\ SameFile(d, x.d) /\ InFile(x.d)
           /\ x.data \in Seq(Nat \X Nat) /\ c \in Seq(PlacesOf(d.first_cluster))
           /\ x.d.pos = d.pos + Len(x.data) /\ Len(x.data) <= m
           /\ GoesOn(x.data, c, d.pos, M)
           /\ IF x.err THEN Fresh(x.d, bad) /\ Len(x.data) # 0
              ELSE Fresh(x.d, M) /\ (Len(x.data) = m \/ x.d.pos = Len(c))
<1>1. d \in FileDesc /\ d.first_cluster \in File /\ ~IsRoot(d) /\ Whole(d, Len(c)) /\ Cursor(d)
  BY DEF InFile, SoundDesc
<1>2. x \in Reading /\ InOrder(x, d, m, Len(c), M, bad)
  BY <1>1, ReadInOrder
<1>3. PICK p \in DOMAIN Entries : d.first_cluster = Entries[p].first
  BY <1>1 DEF File
<1>4. Holds(d, c)
  BY <1>1, <1>3, ContentsIs
<1>5. PICK pos \in Nat, len \in Nat : pos = d.pos /\ len = Len(x.data)
  BY <1>1, <1>2 DEF FileDesc, InOrder
<1>6. x.d \in SoundDesc /\ x.data \in Seq(Nat \X Nat)
  BY <1>2 DEF Reading
<1>7. SameFile(d, x.d) /\ x.d.pos = pos + len /\ Whole(x.d, Len(c)) /\ Cursor(x.d)
  BY <1>2, <1>5 DEF InOrder
<1>8. x.d.first_cluster = d.first_cluster /\ ~IsRoot(x.d)
  BY <1>1, <1>7 DEF SameFile, IsRoot
<1>9. InFile(x.d)
  BY <1>1, <1>7, <1>8 DEF InFile
<1>10. Len(c) \in Nat /\ pos + len <= Len(c)
  BY <1>7 DEF Whole
<1>11. ASSUME NEW i \in 1 .. len PROVE IsRecord(x.data[i], c[pos + i], M)
  <2>1. IsRecord(x.data[i], RecordAt(d, pos + i - 1), M)
    BY <1>2, <1>5 DEF InOrder, InSequence
  <2>2. PICK j \in 1 .. Len(c) : j = pos + i
    <3>1. pos + i \in 1 .. Len(c)
      BY <1>10
    <3> QED BY <3>1
  <2>3. c[j] = RecordAt(d, j - 1)
    BY <1>4 DEF Holds
  <2> QED BY <2>1, <2>2, <2>3
<1>12. GoesOn(x.data, c, d.pos, M)
  BY <1>5, <1>10, <1>11 DEF GoesOn
<1>13. c \in Seq(PlacesOf(d.first_cluster))
  BY <1>4 DEF Holds
<1> QED BY <1>2, <1>5, <1>6, <1>7, <1>9, <1>12, <1>13 DEF InOrder

(* A file as fat_open gives it.                                            *)
Starts(d) == InFile(d) /\ Fresh(d, {}) /\ d.pos = 0

LEMMA EnteredStarts ==
    ASSUME NEW s \in Walking, NEW x, x.file \in Handle, NEW closed, NEW place,
           Freed(s.fd, closed, s.file), Entered(s, x, closed, place)
    PROVE  Starts(x.fd[x.file])
<1>1. Null \notin Handle /\ Handle \subseteq Desc
  BY Sizes DEF Handle, Desc, Null
<1>2. PICK p \in DOMAIN Entries, h \in Handle :
          h = x.file /\ x.fd = [closed EXCEPT ![h] = Opened(h, Entries[p])]
  BY <1>1 DEF Entered
<1>3. PICK e : e = Opened(h, Entries[p])
  OBVIOUS
<1>4. InFile(e) /\ Fresh(e, {}) /\ AtStart(e, h, Entries[p])
  BY ONLY <1>2, <1>3, OpenedInOrder, OpenedIs, p \in DOMAIN Entries, h \in Handle
<1>5. x.fd[h] = e
  BY <1>1, <1>2, <1>3 DEF Freed, Descriptors
<1> QED BY <1>2, <1>4, <1>5 DEF Starts, AtStart

LEMMA OpenStarts ==
    ASSUME NEW f \in Descriptors, NEW path \in Paths, NEW bad,
           NEW o, o = fat_open(f, path, bad), o.file \in Handle
    PROVE  Starts(o.fd[o.file])
<1>1. path \in Seq(STRING) /\ path # <<>>
  BY DiskAssumption
<1>2. /\ ROOT_DIR_HANDLE \notin Handle /\ Null \notin Handle /\ Wild \notin Handle
      /\ ROOT_DIR_HANDLE \in Desc /\ Handle \subseteq Desc
  BY Sizes DEF Handle, Desc, ROOT_DIR_HANDLE, Null, Wild
<1> DEFINE Good(s) == s.file \in Handle => Starts(s.fd[s.file])
           I == {s \in Walking : Good(s)}
<1>3. [fd |-> f, file |-> ROOT_DIR_HANDLE, rest |-> path] \in I
  BY <1>1, <1>2 DEF Walking
<1>4. ASSUME NEW s \in I, s.rest # <<>>, s.file # Null
      PROVE  Enter(s, fat_find_file(s.fd[s.file], Head(s.rest), bad), bad) \in I
  <2>1. PICK found, x, closed :
           /\ found = fat_find_file(s.fd[s.file], Head(s.rest), bad)
           /\ x = Enter(s, found, bad)
           /\ closed = fat_close([s.fd EXCEPT ![s.file] = found.d], s.file)
    OBVIOUS
  <2>2. s \in Walking
    OBVIOUS
  <2>3. /\ x \in Walking /\ Freed(s.fd, closed, s.file)
        /\ Entered(s, x, closed, found.place)
    BY ONLY <1>4, <2>1, <2>2, EnterIs
  <2>4. ASSUME x.file \in Handle PROVE Starts(x.fd[x.file])
    BY ONLY <2>2, <2>3, <2>4, EnteredStarts
  <2> QED BY <2>1, <2>3, <2>4
<1>5. PICK s \in I : \/ s.rest = <<>> /\ o = s
                     \/ s.file = Null /\ o.fd = s.fd /\ o.file = Wild
  <2>1. I \subseteq Walking
    OBVIOUS
  <2> HIDE DEF I
  <2> QED BY <1>1, <1>3, <1>4, <2>1, FatOpenKeeps
<1> QED BY <1>2, <1>5

-----------------------------------------------------------------------------
(* The calls of the interface                                              *)

(* What holds between calls: descriptors that can be read, each handle     *)
(* marked open held by a caller.                                           *)
FatInv ==
    /\ fd \in Descriptors
    /\ OpenHandles(fd) = DOMAIN held
    /\ \A h \in DOMAIN held : held[h] \in Paths
    /\ failed \subseteq DOMAIN held
    /\ wild \in BOOLEAN

LEMMA DriverIs == Driver \in Descriptors /\ OpenHandles(Driver) = {}
<1>1. ROOT_DIR_HANDLE \notin Handle
  BY Sizes DEF Handle, ROOT_DIR_HANDLE
<1>2. ASSUME NEW h \in Handle
      PROVE  Driver[h] \in SoundDesc /\ Driver[h].handle = h /\ ~Driver[h].opened
  BY UnusedIs DEF Driver, Desc
<1>3. Driver[ROOT_DIR_HANDLE] \in SoundDesc
      /\ Driver[ROOT_DIR_HANDLE].handle = ROOT_DIR_HANDLE
  <2>1. PICK size \in Nat \ {0} : size = RootSectors * PerSector
    BY Sizes
  <2>2. PICK d : d = Driver[ROOT_DIR_HANDLE]
    OBVIOUS
  <2>3. d = [handle |-> ROOT_DIR_HANDLE, opened |-> TRUE, is_dir |-> TRUE, pos |-> 0,
             size |-> size, first_cluster |-> RootLba, cur_cluster |-> RootLba,
             cur_sector_in_cluster |-> 0, buffer |-> RootLba]
    BY <1>1, <2>1, <2>2 DEF Driver, Desc
  <2>4. d \in FileDesc /\ IsRoot(d) /\ HasSize(d) /\ d.pos <= d.size
    BY <2>3, Sizes DEF FileDesc, IsRoot, HasSize, Desc
  <2> QED BY <2>2, <2>3, <2>4 DEF SoundDesc, Sound
<1>4. Driver = [h \in Desc |-> Driver[h]]
  BY DEF Driver
<1> QED BY <1>2, <1>3, <1>4 DEF Descriptors, OpenHandles, Desc

LEMMA FatInit == Init => FatInv
BY DriverIs DEF Init, FatInv

LEMMA FatOpened ==
    ASSUME FatInv, NEW path \in Paths, NEW bad, NEW o, o = fat_open(fd, path, bad),
           Returns(path, o)
    PROVE  FatInv'
<1>1. path \in Seq(STRING)
  BY DiskAssumption
<1>2. /\ o.fd \in Descriptors
      /\ OpenHandles(o.fd) = OpenHandles(fd) \cup ({o.file} \cap Handle)
  BY <1>1, OpenIs DEF FatInv
<1>3. /\ fd' = o.fd /\ failed' = failed /\ wild' \in BOOLEAN
      /\ held' = [h \in DOMAIN held \cup ({o.file} \cap Handle) |->
                     IF h = o.file THEN path ELSE held[h]]
  BY DEF Returns
<1>4. DOMAIN held' = DOMAIN held \cup ({o.file} \cap Handle)
      /\ \A h \in DOMAIN held' : held'[h] \in Paths
  BY <1>3 DEF FatInv
<1>5. OpenHandles(fd)' = OpenHandles(fd')
  BY DEF OpenHandles
<1> QED BY <1>2, <1>3, <1>4, <1>5 DEF FatInv

LEMMA FatReads ==
    ASSUME FatInv, NEW h \in DOMAIN held, NEW n \in Nat, NEW bad,
           NEW r, r = fat_read(fd[h], n, bad), Gives(h, r)
    PROVE  FatInv'
<1>1. h \in Handle /\ h \in Desc
  BY DEF FatInv, OpenHandles, Desc
<1>2. fd \in [Desc -> SoundDesc] /\ \A g \in Desc : fd[g].handle = g
  BY DEF FatInv, Descriptors
<1>3. r \in Reading /\ SameFile(fd[h], r.d)
  BY <1>1, <1>2, ReadIs
<1>4. fd' = [fd EXCEPT ![h] = r.d] /\ held' = held /\ wild' = wild
      /\ failed' \subseteq DOMAIN held
  BY DEF Gives, FatInv
<1>5. r.d \in SoundDesc
  BY <1>3 DEF Reading
<1>6. fd' \in Descriptors /\ \A g \in Desc : fd'[g].opened = fd[g].opened
  BY <1>1, <1>2, <1>3, <1>4, <1>5 DEF Descriptors, SameFile
<1>7. OpenHandles(fd)' = OpenHandles(fd)
  BY <1>6 DEF OpenHandles, Desc
<1> QED BY <1>4, <1>6, <1>7 DEF FatInv

LEMMA FatCloses ==
    ASSUME FatInv, NEW h \in DOMAIN held, Close(h)
    PROVE  FatInv'
<1>1. h \in Handle /\ h \in Desc
  BY DEF FatInv, OpenHandles, Desc
<1>2. fd' = fat_close(fd, h)
      /\ held' = [g \in DOMAIN held \ {h} |-> held[g]]
      /\ failed' = failed \ {h} /\ wild' = wild
  BY DEF Close
<1>3. /\ fd' \in Descriptors
      /\ \A g \in Desc : fd'[g].opened = (fd[g].opened /\ ~(g = h /\ g \in Handle))
  BY <1>1, <1>2, CloseIs DEF FatInv
<1>4. OpenHandles(fd)' = OpenHandles(fd) \ {h}
  BY <1>1, <1>3 DEF OpenHandles, Desc
<1> QED BY <1>2, <1>3, <1>4 DEF FatInv

LEMMA FatStep == FatInv /\ [Next]_vars => FatInv'
<1> SUFFICES ASSUME FatInv, [Next]_vars PROVE FatInv'
  OBVIOUS
<1>1. ASSUME NEW path \in Paths, NEW bad, Open(path, bad) PROVE FatInv'
  BY <1>1, FatOpened DEF Open
<1>2. ASSUME NEW h \in DOMAIN held, NEW n \in 1 .. MaxRead, NEW bad, Read(h, n, bad)
      PROVE  FatInv'
  <2>1. n \in Nat
    BY DiskAssumption
  <2> QED BY <1>2, <2>1, FatReads DEF Read
<1>3. ASSUME NEW h \in DOMAIN held, Close(h) PROVE FatInv'
  BY <1>3, FatCloses
<1>4. CASE UNCHANGED vars
  BY <1>4 DEF vars, FatInv, OpenHandles
<1> QED BY <1>1, <1>2, <1>3, <1>4 DEF Next

LEMMA FatInvImplies == FatInv => TypeOK /\ HandlesAreHeld
<1> SUFFICES ASSUME FatInv PROVE TypeOK /\ HandlesAreHeld
  OBVIOUS
<1>1. fd \in [Desc -> SoundDesc] /\ \A h \in Desc : fd[h].handle = h
  BY DEF FatInv, Descriptors
<1>2. fd \in [Desc -> FileDesc]
  BY <1>1 DEF SoundDesc
<1>3. ASSUME NEW h \in Handle PROVE fd[h].cur_sector_in_cluster < cluster_sectors
  <2>1. h \in Desc /\ h # ROOT_DIR_HANDLE
    BY Sizes DEF Handle, Desc, ROOT_DIR_HANDLE
  <2>2. Sound(fd[h]) /\ ~IsRoot(fd[h])
    BY <1>1, <2>1 DEF SoundDesc, IsRoot
  <2> QED BY <2>2 DEF Sound
<1> QED BY <1>1, <1>2, <1>3 DEF FatInv, TypeOK, HandlesAreHeld, OpenHandles

-----------------------------------------------------------------------------
(* Stage 2 and the kernel after it                                         *)

BootFatInv ==
    /\ FatInv
    /\ phase \in {"boot sector", "table", "root"} => DOMAIN held = {}

LEMMA BootFatInit == BInit => BootFatInv
<1> SUFFICES ASSUME BInit PROVE BootFatInv
  OBVIOUS
<1>1. fd = [h \in Desc |-> Unused(h)]
  BY DEF BInit
<1>2. ASSUME NEW h \in Desc
      PROVE  fd[h] \in SoundDesc /\ fd[h].handle = h /\ ~fd[h].opened
  BY <1>1, Sizes DEF Unused, SoundDesc, FileDesc, Sound, HasSize
<1>3. fd \in Descriptors /\ OpenHandles(fd) = {}
  BY <1>1, <1>2 DEF Descriptors, OpenHandles, Desc
<1> QED BY <1>3 DEF BInit, BootFatInv, FatInv

(* Stage 2 opens the kernel as fat_open does a path of one name.           *)
LEMMA KernelOpenedIs ==
    ASSUME fd \in Descriptors, NEW bad, NEW o, o = KernelOpened(bad)
    PROVE  /\ o.fd \in Descriptors
           /\ o.file = Null \/ o.file \in Handle \ OpenHandles(fd)
           /\ OpenHandles(o.fd) = OpenHandles(fd) \cup ({o.file} \cap Handle)
<1>1. /\ ROOT_DIR_HANDLE \in Desc /\ ROOT_DIR_HANDLE \notin Handle
      /\ ROOT_DIR_HANDLE # Null /\ Null \notin Handle
  BY Sizes DEF Desc, Handle, ROOT_DIR_HANDLE, Null
<1>2. PICK found : found = fat_find_file(fd[ROOT_DIR_HANDLE], Kernel, bad)
  OBVIOUS
<1>3. PICK f : f = [fd EXCEPT ![ROOT_DIR_HANDLE] = found.d]
  OBVIOUS
<1>4. PICK closed : closed = fat_close(f, ROOT_DIR_HANDLE)
  OBVIOUS
<1>5. fd \in [Desc -> SoundDesc] /\ \A g \in Desc : fd[g].handle = g
  BY DEF Descriptors
<1>6. /\ found.d \in SoundDesc /\ SameFile(fd[ROOT_DIR_HANDLE], found.d)
      /\ found.place = NoPlace \/ found.place \in DOMAIN Entries
  BY <1>1, <1>2, <1>5, FindIs
<1>7. f \in Descriptors /\ \A g \in Desc : f[g].opened = fd[g].opened
  BY <1>1, <1>3, <1>5, <1>6 DEF Descriptors, SameFile
<1>8. /\ closed \in Descriptors
      /\ \A g \in Desc : closed[g].opened =
            (f[g].opened /\ ~(g = ROOT_DIR_HANDLE /\ g \in Handle))
  BY <1>1, <1>4, <1>7, CloseIs
<1>9. OpenHandles(closed) = OpenHandles(fd)
  BY <1>1, <1>7, <1>8 DEF OpenHandles, Desc
<1>10. CASE found.place = NoPlace
  <2>1. o = [fd |-> closed, file |-> Null]
    BY <1>2, <1>3, <1>4, <1>10 DEF KernelOpened, find, close
  <2>2. o.fd = closed /\ o.file = Null
    BY ONLY <2>1
  <2> QED BY <1>1, <1>8, <1>9, <2>2
<1>11. CASE found.place # NoPlace
  <2>1. found.place \in DOMAIN Entries
    BY <1>6, <1>11
  <2>2. o = fat_open_entry(closed, Entries[found.place], bad)
    BY <1>2, <1>3, <1>4, <1>11 DEF KernelOpened, find, close, open_entry
  <2>3. /\ o.fd \in Descriptors
        /\ \/ o.file = Null /\ o.fd = closed
           \/ /\ o.file \in Handle /\ ~closed[o.file].opened
              /\ o.fd = [closed EXCEPT ![o.file] = Opened(o.file, Entries[found.place])]
    BY <1>8, <2>1, <2>2, OpenEntryIs
  <2>4. CASE o.file = Null /\ o.fd = closed
    BY <1>1, <1>8, <1>9, <2>4
  <2>5. CASE /\ o.file \in Handle /\ ~closed[o.file].opened
             /\ o.fd = [closed EXCEPT ![o.file] = Opened(o.file, Entries[found.place])]
    <3>1. PICK e : e = Opened(o.file, Entries[found.place])
      OBVIOUS
    <3>2. e.opened = TRUE
      <4>1. o.file \in Handle
        BY <2>5
      <4> QED BY ONLY <2>1, <3>1, <4>1, OpenedIs
    <3>3. o.fd = [closed EXCEPT ![o.file] = e] /\ closed \in [Desc -> SoundDesc]
      BY <1>8, <2>5, <3>1 DEF Descriptors
    <3>4. OpenHandles(o.fd) = OpenHandles(closed) \cup {o.file}
      BY <2>5, <3>2, <3>3 DEF OpenHandles, Desc
    <3> QED BY <1>9, <2>3, <2>5, <3>4 DEF OpenHandles
  <2> QED BY <2>3, <2>4, <2>5
<1> QED BY <1>10, <1>11

LEMMA BootFatStep == BootFatInv /\ [BNext]_bvars => BootFatInv'
<1> SUFFICES ASSUME BootFatInv, [BNext]_bvars PROVE BootFatInv'
  OBVIOUS
<1> DEFINE Early == {"boot sector", "table", "root"}
<1>1. FatInv /\ (phase \in Early => DOMAIN held = {})
  BY DEF BootFatInv
<1>2. ASSUME UNCHANGED vars PROVE FatInv'
  BY <1>1, <1>2 DEF vars, FatInv, OpenHandles
<1>3. CASE UNCHANGED bvars
  BY <1>1, <1>2, <1>3 DEF bvars, boot_vars, vars, BootFatInv
<1>4. CASE ReadBootSector \/ ReadTable
  <2>1. UNCHANGED vars /\ phase \in Early
    BY <1>4 DEF ReadBootSector, ReadTable, Stops, Reads
  <2> QED BY <1>1, <1>2, <2>1 DEF BootFatInv, vars
<1>5. CASE ReadRoot
  <2>1. CASE Stops("root")
    BY <1>1, <1>2, <2>1 DEF Stops, BootFatInv, vars
  <2>2. CASE ~Stops("root")
    <3>1. /\ fd' = Driver /\ held' = held /\ failed' = failed /\ wild' = wild
          /\ DOMAIN held = {}
      BY <1>1, <1>5, <2>2 DEF ReadRoot
    <3>2. OpenHandles(fd)' = {}
      BY <3>1, DriverIs DEF OpenHandles
    <3> QED BY <1>1, <3>1, <3>2, DriverIs DEF BootFatInv, FatInv
  <2> QED BY <2>1, <2>2
<1>6. ASSUME NEW bad, OpenKernel(bad) PROVE BootFatInv'
  <2>1. PICK o : o = KernelOpened(bad)
    OBVIOUS
  <2>2. Returns(<<Kernel>>, o) /\ phase' \in {"stopped", "load"}
    BY <1>6, <2>1 DEF OpenKernel
  <2>3. /\ o.fd \in Descriptors
        /\ OpenHandles(o.fd) = OpenHandles(fd) \cup ({o.file} \cap Handle)
    BY <1>1, <2>1, KernelOpenedIs DEF FatInv
  <2>4. PICK path \in Paths : path = <<Kernel>>
    BY Stage2Assumption
  <2>5. /\ fd' = o.fd /\ failed' = failed /\ wild' \in BOOLEAN
        /\ held' = [h \in DOMAIN held \cup ({o.file} \cap Handle) |->
                       IF h = o.file THEN path ELSE held[h]]
    BY <2>2, <2>4 DEF Returns
  <2>6. DOMAIN held' = DOMAIN held \cup ({o.file} \cap Handle)
        /\ \A h \in DOMAIN held' : held'[h] \in Paths
    BY <1>1, <2>5 DEF FatInv
  <2>7. OpenHandles(fd)' = OpenHandles(fd')
    BY DEF OpenHandles
  <2>8. FatInv'
    BY <1>1, <2>3, <2>5, <2>6, <2>7 DEF FatInv
  <2> QED BY <2>2, <2>8 DEF BootFatInv
<1>7. ASSUME NEW h \in DOMAIN held, NEW bad, Load(h, bad) PROVE BootFatInv'
  <2>1. PICK r : r = fat_read(fd[h], BufferRecords, bad)
    OBVIOUS
  <2>2. Gives(h, r) /\ phase' \in {"loaded", "load"}
    BY <1>7, <2>1 DEF Load, read
  <2>3. BufferRecords \in Nat
    BY Stage2Assumption, DiskAssumption
  <2>4. FatInv'
    BY <1>1, <2>1, <2>2, <2>3, FatReads
  <2> QED BY <2>2, <2>4 DEF BootFatInv
<1>8. ASSUME NEW h \in DOMAIN held, StartKernel(h) PROVE BootFatInv'
  <2>1. Close(h) /\ phase' = "kernel"
    BY <1>8 DEF StartKernel
  <2> QED BY <1>1, <2>1, FatCloses DEF BootFatInv
<1>9. CASE phase = "kernel" /\ Next /\ UNCHANGED boot_vars
  <2>1. FatInv'
    BY <1>1, <1>9, FatStep
  <2> QED BY <1>9, <2>1 DEF BootFatInv, boot_vars
<1> QED BY <1>3, <1>4, <1>5, <1>6, <1>7, <1>8, <1>9 DEF BNext

LEMMA BootFatInvariant == BSpec => []BootFatInv
BY BootFatInit, BootFatStep, PTL DEF BSpec

(* Whatever is opened, read and closed, in whatever order and with any     *)
(* sector unreadable at any time, on any disk of the kind: the descriptors *)
(* stay in their ranges, and no cluster's number of sectors is exceeded.   *)
THEOREM FatIsTyped == BSpec => []TypeOK
<1>1. BootFatInv => TypeOK
  BY FatInvImplies DEF BootFatInv
<1> QED BY <1>1, BootFatInvariant, PTL

(* No call of fat_open, however deep the path and whatever fails on the    *)
(* way down it, leaves a handle open that nobody has, or gives one twice,  *)
(* from stage 2 on: the handles marked open are the held ones.             *)
THEOREM NoHandleIsLost == BSpec => []HandlesAreHeld
<1>1. BootFatInv => HandlesAreHeld
  BY FatInvImplies DEF BootFatInv
<1> QED BY <1>1, BootFatInvariant, PTL

(* The same of a kernel that starts on a driver as fat_init leaves it.     *)
THEOREM KernelFatIsSafe == Spec => [](TypeOK /\ HandlesAreHeld)
<1>1. Spec => []FatInv
  BY FatInit, FatStep, PTL DEF Spec
<1> QED BY <1>1, FatInvImplies, PTL

(* What a call of fat_open owes its caller: whoever has a file keeps it,   *)
(* and the handle that is given is a new one, of the file the path names.  *)
Delivers(f, path, o) ==
    /\ \A h \in OpenHandles(f) : o.fd[h] = f[h]
    /\ o.file \in Handle =>
          /\ o.file \notin OpenHandles(f)
          /\ \E p \in Named[path] : OfEntry(o.fd[o.file], p)

LEMMA OpenDelivers ==
    ASSUME NEW f \in Descriptors, AllPlaced(f), NEW path \in Paths, NEW bad,
           NEW o, o = fat_open(f, path, bad)
    PROVE  Delivers(f, path, o) /\ AllPlaced(o.fd)
<1>1. path \in Seq(STRING)
  BY DiskAssumption
<1>2. /\ o.file \in Handle => o.file \notin OpenHandles(f)
      /\ \A h \in OpenHandles(f) : o.fd[h] = f[h]
  BY <1>1, OpenIs
<1>3. /\ AllPlaced(o.fd)
      /\ o.file \in Handle => \E p \in Named[path] : OfEntry(o.fd[o.file], p)
  BY OpenIsNamed
<1> QED BY <1>2, <1>3 DEF Delivers

LEMMA NamesOpened ==
    ASSUME FatInv, OpensTheNamed, NEW path \in Paths, NEW o, Delivers(fd, path, o),
           Returns(path, o)
    PROVE  OpensTheNamed'
<1>1. /\ fd' = o.fd
      /\ held' = [h \in DOMAIN held \cup ({o.file} \cap Handle) |->
                     IF h = o.file THEN path ELSE held[h]]
  BY DEF Returns
<1>2. ASSUME NEW h \in DOMAIN held'
      PROVE  \E p \in Named[held'[h]] : OfEntry(fd'[h], p)
  <2>1. CASE h = o.file /\ h \in Handle
    <3>1. held'[h] = path
      BY <1>1, <2>1
    <3> QED BY <1>1, <2>1, <3>1 DEF Delivers
  <2>2. CASE ~(h = o.file /\ h \in Handle)
    <3>1. h \in DOMAIN held
      BY <1>1, <1>2, <2>2
    <3>2. h \in OpenHandles(fd) /\ h \in Handle
      BY <3>1 DEF FatInv, OpenHandles
    <3>3. held'[h] = held[h] /\ fd'[h] = fd[h]
      BY <1>1, <2>2, <3>1, <3>2 DEF Delivers
    <3> QED BY <3>1, <3>3 DEF OpensTheNamed, OfEntry
  <2> QED BY <2>1, <2>2
<1> QED BY <1>2 DEF OpensTheNamed, OfEntry

LEMMA NamesRead ==
    ASSUME FatInv, AllPlaced(fd), OpensTheNamed, NEW h \in DOMAIN held, NEW n \in Nat,
           NEW bad, NEW r, r = fat_read(fd[h], n, bad), Gives(h, r)
    PROVE  AllPlaced(fd') /\ OpensTheNamed'
<1>1. h \in Handle /\ h \in Desc
  BY DEF FatInv, OpenHandles, Desc
<1>2. fd \in [Desc -> SoundDesc]
  BY DEF FatInv, Descriptors
<1>3. SameFile(fd[h], r.d)
  BY <1>1, <1>2, ReadIs
<1>4. Placed(r.d)
  BY <1>1, <1>2, ReadPlaced DEF AllPlaced
<1>5. fd' = [fd EXCEPT ![h] = r.d] /\ held' = held
  BY DEF Gives
<1>6. AllPlaced(fd')
  BY <1>1, <1>2, <1>4, <1>5 DEF AllPlaced
<1>7. DOMAIN held \subseteq Desc
  BY DEF FatInv, OpenHandles, Desc
<1>8. \A g \in DOMAIN held :
         fd'[g].first_cluster = fd[g].first_cluster /\ fd'[g].is_dir = fd[g].is_dir
  BY <1>1, <1>2, <1>3, <1>5, <1>7 DEF SameFile
<1> QED BY <1>5, <1>6, <1>8 DEF OpensTheNamed

LEMMA NamesClosed ==
    ASSUME FatInv, AllPlaced(fd), OpensTheNamed, NEW h \in DOMAIN held, Close(h)
    PROVE  AllPlaced(fd') /\ OpensTheNamed'
<1>1. h \in Desc /\ DOMAIN held \subseteq Desc
  BY DEF FatInv, OpenHandles, Desc
<1>2. fd' = fat_close(fd, h) /\ held' = [g \in DOMAIN held \ {h} |-> held[g]]
  BY DEF Close
<1>3. AllPlaced(fd')
  BY <1>1, <1>2, ClosePlaced DEF FatInv
<1>4. \A g \in DOMAIN held' : fd'[g] = fd[g]
  BY <1>1, <1>2, CloseIs DEF FatInv
<1> QED BY <1>2, <1>3, <1>4 DEF OpensTheNamed

(* FatInv, and that every file is what its path names and is read in its   *)
(* own sectors.                                                            *)
FatNamed == FatInv /\ AllPlaced(fd) /\ OpensTheNamed

LEMMA DriverPlaced == AllPlaced(Driver)
<1>1. ROOT_DIR_HANDLE \notin Handle
  BY Sizes DEF Handle, ROOT_DIR_HANDLE
<1>2. ASSUME NEW h \in Handle PROVE Placed(Driver[h])
  <2>1. Driver[h] = Unused(h)
    BY DEF Driver, Desc
  <2>2. PICK d : d = Unused(h)
    OBVIOUS
  <2>3. d.size = 0 /\ d.pos = 0 /\ ~d.is_dir /\ d.handle = h
    BY <2>2 DEF Unused
  <2> QED BY <1>1, <2>1, <2>2, <2>3 DEF Placed, IsRoot, HasSize
<1>3. Placed(Driver[ROOT_DIR_HANDLE])
  <2>1. PICK size : size = RootSectors * PerSector
    OBVIOUS
  <2>2. PICK d : d = Driver[ROOT_DIR_HANDLE]
    OBVIOUS
  <2>3. d = [handle |-> ROOT_DIR_HANDLE, opened |-> TRUE, is_dir |-> TRUE, pos |-> 0,
             size |-> size, first_cluster |-> RootLba, cur_cluster |-> RootLba,
             cur_sector_in_cluster |-> 0, buffer |-> RootLba]
    BY <1>1, <2>1, <2>2 DEF Driver, Desc
  <2>4. /\ d.handle = ROOT_DIR_HANDLE /\ d.first_cluster = RootLba /\ d.is_dir
        /\ d.size = size /\ d.cur_cluster = RootLba /\ d.pos = 0 /\ d.buffer = RootLba
    BY ONLY <2>3
  <2>5. RootLba = RootLba + (0 \div PerSector)
    <3>1. 0 \div PerSector = 0
      BY Sizes
    <3> QED BY <3>1, Sizes
  <2>6. RootLba \in RootLba .. data_lba
    BY Sizes DEF data_lba
  <2> QED BY <2>1, <2>2, <2>4, <2>5, <2>6 DEF Placed, IsRoot
<1> QED BY <1>2, <1>3 DEF AllPlaced, Desc

LEMMA NamedStep == FatNamed /\ [Next]_vars => FatNamed'
<1> SUFFICES ASSUME FatNamed, [Next]_vars PROVE AllPlaced(fd') /\ OpensTheNamed'
  BY FatStep DEF FatNamed, AllPlaced
<1>1. FatInv /\ AllPlaced(fd) /\ OpensTheNamed
  BY DEF FatNamed
<1>2. ASSUME NEW path \in Paths, NEW bad, Open(path, bad)
      PROVE  AllPlaced(fd') /\ OpensTheNamed'
  <2>1. PICK o : o = fat_open(fd, path, bad)
    OBVIOUS
  <2>2. Returns(path, o) /\ fd' = o.fd
    BY <1>2, <2>1 DEF Open, Returns
  <2>3. Delivers(fd, path, o) /\ AllPlaced(o.fd)
    BY <1>1, <2>1, OpenDelivers DEF FatInv
  <2> QED BY <1>1, <2>2, <2>3, NamesOpened
<1>3. ASSUME NEW h \in DOMAIN held, NEW n \in 1 .. MaxRead, NEW bad, Read(h, n, bad)
      PROVE  AllPlaced(fd') /\ OpensTheNamed'
  <2>1. n \in Nat
    BY DiskAssumption
  <2> QED BY <1>1, <1>3, <2>1, NamesRead DEF Read
<1>4. ASSUME NEW h \in DOMAIN held, Close(h)
      PROVE  AllPlaced(fd') /\ OpensTheNamed'
  BY <1>1, <1>4, NamesClosed
<1>5. CASE UNCHANGED vars
  BY <1>1, <1>5 DEF vars, OpensTheNamed
<1> QED BY <1>2, <1>3, <1>4, <1>5 DEF Next

(* The same of stage 2's fat_open.                                         *)
LEMMA KernelDelivers ==
    ASSUME fd \in Descriptors, AllPlaced(fd), NEW bad, NEW o, o = KernelOpened(bad)
    PROVE  Delivers(fd, <<Kernel>>, o) /\ AllPlaced(o.fd)
<1>1. /\ ROOT_DIR_HANDLE \in Desc /\ ROOT_DIR_HANDLE \notin Handle
      /\ ROOT_DIR_HANDLE # Null /\ Null \notin Handle
  BY Sizes DEF Desc, Handle, ROOT_DIR_HANDLE, Null
<1>2. PICK found : found = fat_find_file(fd[ROOT_DIR_HANDLE], Kernel, bad)
  OBVIOUS
<1>3. PICK f : f = [fd EXCEPT ![ROOT_DIR_HANDLE] = found.d]
  OBVIOUS
<1>4. PICK closed : closed = fat_close(f, ROOT_DIR_HANDLE)
  OBVIOUS
<1>5. /\ fd \in [Desc -> SoundDesc] /\ \A g \in Desc : fd[g].handle = g
      /\ OpenHandles(fd) \subseteq Handle /\ Handle \subseteq Desc
  BY DEF Descriptors, OpenHandles, Desc
<1>6. PICK d \in SoundDesc : d = fd[ROOT_DIR_HANDLE] /\ IsRoot(d) /\ Placed(d)
  BY <1>1, <1>5 DEF IsRoot, AllPlaced
<1>7. /\ found.d \in SoundDesc /\ SameFile(d, found.d) /\ Placed(found.d)
      /\ \/ found.place = NoPlace
         \/ /\ found.place \in DOMAIN Entries /\ Entries[found.place].name = Kernel
            /\ \E b \in Searched(d), k \in 0 .. PerSector - 1 : found.place = <<b, k>>
  BY <1>2, <1>6, FindIs, FindPlaced
<1>8. f \in Descriptors /\ AllPlaced(f)
  BY <1>1, <1>3, <1>5, <1>6, <1>7 DEF Descriptors, SameFile, AllPlaced
<1>9. /\ closed \in Descriptors /\ AllPlaced(closed)
      /\ \A g \in Desc \ {ROOT_DIR_HANDLE} : closed[g] = fd[g]
  <2>1. /\ closed \in Descriptors /\ AllPlaced(closed)
        /\ \A g \in Desc \ {ROOT_DIR_HANDLE} : closed[g] = f[g]
    BY <1>1, <1>4, <1>8, CloseIs, ClosePlaced
  <2>2. \A g \in Desc \ {ROOT_DIR_HANDLE} : f[g] = fd[g]
    BY <1>3, <1>5
  <2> QED BY <2>1, <2>2
<1>10. CASE found.place = NoPlace
  <2>1. o = [fd |-> closed, file |-> Null]
    BY <1>2, <1>3, <1>4, <1>10 DEF KernelOpened, find, close
  <2>2. o.fd = closed /\ o.file = Null
    BY ONLY <2>1
  <2> QED BY <1>1, <1>5, <1>9, <2>2 DEF Delivers
<1>11. CASE found.place # NoPlace
  <2>1. PICK p \in DOMAIN Entries : p = found.place /\ Entries[p].name = Kernel
    BY <1>7, <1>11
  <2>2. o = fat_open_entry(closed, Entries[p], bad)
    BY <1>2, <1>3, <1>4, <1>11, <2>1 DEF KernelOpened, find, close, open_entry
  <2>3. \/ o.file = Null /\ o.fd = closed
        \/ /\ o.file \in Handle /\ ~closed[o.file].opened
           /\ o.fd = [closed EXCEPT ![o.file] = Opened(o.file, Entries[p])]
    BY <1>9, <2>2, OpenEntryIs
  <2>4. CASE o.file = Null /\ o.fd = closed
    BY <1>1, <1>5, <1>9, <2>4 DEF Delivers
  <2>5. CASE /\ o.file \in Handle /\ ~closed[o.file].opened
             /\ o.fd = [closed EXCEPT ![o.file] = Opened(o.file, Entries[p])]
    <3>1. PICK e : e = Opened(o.file, Entries[p])
      OBVIOUS
    <3>2. PICK h \in Handle : h = o.file
      BY <2>5
    <3>3. Placed(e) /\ AtStart(e, h, Entries[p])
      <4>1. e = Opened(h, Entries[p])
        BY <3>1, <3>2
      <4> QED BY ONLY <2>1, <3>2, <4>1, OpenedIs, OpenedPlaced
    <3>4. o.fd = [closed EXCEPT ![h] = e] /\ closed \in [Desc -> SoundDesc]
      BY <1>9, <2>5, <3>1, <3>2 DEF Descriptors
    <3>5. AllPlaced(o.fd) /\ o.fd[h] = e
      BY <1>5, <1>9, <3>3, <3>4 DEF AllPlaced
    <3>6. h \notin OpenHandles(fd) /\ \A g \in OpenHandles(fd) : o.fd[g] = fd[g]
      BY <1>1, <1>5, <1>9, <2>5, <3>2, <3>4 DEF OpenHandles
    <3>7. p \in Named[<<Kernel>>]
      <4>1. PICK path \in Paths : path = <<Kernel>>
        BY Stage2Assumption
      <4>2. /\ path \in Seq(STRING) /\ Len(path) = 1 /\ path[1] = Kernel
            /\ 1 \in 1 .. Len(path)
        <5>1. path \in Seq(STRING)
          BY DiskAssumption
        <5> QED BY <4>1, <5>1
      <4>3. PICK In : NamedAt(In, path) /\ Named[path] = In[1]
        BY <4>2, NamedIs
      <4>4. PICK i \in 1 .. Len(path) : i = 1
        BY <4>2
      <4>5. IF i = 1 THEN IsRoot(d) ELSE ~IsRoot(d) /\ \E q \in In[i - 1] : OfEntry(d, q)
        BY <1>6, <4>4
      <4>6. Entries[p].name = path[i]
        BY <2>1, <4>2, <4>4
      <4>7. PICK b \in Searched(d), k \in 0 .. PerSector - 1 : p = <<b, k>>
        BY <1>7, <1>11, <2>1
      <4>8. p \in In[i]
        BY ONLY <1>6, <2>1, <4>2, <4>3, <4>4, <4>5, <4>6, <4>7, FoundIsNamed
      <4> QED BY <4>1, <4>3, <4>4, <4>8
    <3> QED BY <3>2, <3>3, <3>5, <3>6, <3>7 DEF Delivers, OfEntry, AtStart
  <2> QED BY <2>3, <2>4, <2>5
<1> QED BY <1>10, <1>11

(* Until fat_init has read the root directory no file is open.             *)
BootNamed ==
    /\ BootFatInv
    /\ OpensTheNamed
    /\ phase \in {"open", "load", "loaded", "kernel"} => AllPlaced(fd)

LEMMA BootNamedStep == BootNamed /\ [BNext]_bvars => BootNamed'
<1> DEFINE Late == {"open", "load", "loaded", "kernel"}
<1> SUFFICES ASSUME BootNamed, [BNext]_bvars
             PROVE  OpensTheNamed' /\ (phase' \in Late => AllPlaced(fd'))
  BY BootFatStep DEF BootNamed, AllPlaced
<1>1. /\ FatInv /\ OpensTheNamed
      /\ phase \in Late => AllPlaced(fd)
      /\ phase = "root" => DOMAIN held = {}
  BY DEF BootNamed, BootFatInv
<1>2. ASSUME UNCHANGED vars PROVE OpensTheNamed' /\ fd' = fd
  BY <1>1, <1>2 DEF vars, OpensTheNamed
<1>3. CASE UNCHANGED bvars
  BY <1>1, <1>2, <1>3 DEF bvars, boot_vars
<1>4. CASE ReadBootSector \/ ReadTable
  <2>1. UNCHANGED vars /\ phase' \notin Late
    BY <1>4 DEF ReadBootSector, ReadTable, Stops, Reads
  <2> QED BY <1>2, <2>1
<1>5. CASE ReadRoot
  <2>1. CASE Stops("root")
    BY <1>2, <2>1 DEF Stops
  <2>2. CASE ~Stops("root")
    <3>1. fd' = Driver /\ held' = held /\ DOMAIN held = {}
      BY <1>1, <1>5, <2>2 DEF ReadRoot
    <3> QED BY <3>1, DriverPlaced DEF OpensTheNamed
  <2> QED BY <2>1, <2>2
<1>6. ASSUME NEW bad, OpenKernel(bad)
      PROVE  OpensTheNamed' /\ AllPlaced(fd')
  <2>1. PICK o : o = KernelOpened(bad)
    OBVIOUS
  <2>2. Returns(<<Kernel>>, o) /\ fd' = o.fd /\ phase = "open"
    BY <1>6, <2>1 DEF OpenKernel, Returns
  <2>3. Delivers(fd, <<Kernel>>, o) /\ AllPlaced(o.fd)
    BY <1>1, <2>1, <2>2, KernelDelivers DEF FatInv
  <2>4. PICK path \in Paths : path = <<Kernel>>
    BY Stage2Assumption
  <2> QED BY <1>1, <2>2, <2>3, <2>4, NamesOpened
<1>7. ASSUME NEW h \in DOMAIN held, NEW bad, Load(h, bad)
      PROVE  OpensTheNamed' /\ AllPlaced(fd')
  <2>1. PICK r : r = fat_read(fd[h], BufferRecords, bad)
    OBVIOUS
  <2>2. Gives(h, r) /\ phase = "load"
    BY <1>7, <2>1 DEF Load, read
  <2>3. BufferRecords \in Nat
    BY Stage2Assumption, DiskAssumption
  <2> QED BY <1>1, <2>1, <2>2, <2>3, NamesRead
<1>8. ASSUME NEW h \in DOMAIN held, StartKernel(h)
      PROVE  OpensTheNamed' /\ AllPlaced(fd')
  BY <1>1, <1>8, NamesClosed DEF StartKernel
<1>9. CASE phase = "kernel" /\ Next /\ UNCHANGED boot_vars
  <2>1. FatNamed'
    BY <1>1, <1>9, NamedStep DEF FatNamed
  <2> QED BY <2>1 DEF FatNamed, AllPlaced
<1> QED BY <1>3, <1>4, <1>5, <1>6, <1>7, <1>8, <1>9 DEF BNext

(* A file that is opened is the one its path names on the disk, by way of  *)
(* any number of directories, whatever sector could not be read during the *)
(* call or before it: a search that was given up, or one that came to the  *)
(* end of a directory and goes on from a buffer of something else, never   *)
(* ends in a wrong file. And an open file stays what it was, whatever else *)
(* is opened, read and closed.                                             *)
THEOREM OpensWhatIsNamed == BSpec => []OpensTheNamed
<1>1. BInit => BootNamed
  BY BootFatInit DEF BInit, BootNamed, OpensTheNamed
<1>2. BootNamed => OpensTheNamed
  BY DEF BootNamed
<1> QED BY <1>1, <1>2, BootNamedStep, PTL DEF BSpec

(* The same of a kernel that starts on a driver as fat_init leaves it.     *)
THEOREM KernelOpensWhatIsNamed == Spec => []OpensTheNamed
<1>1. Init => FatNamed
  BY FatInit, DriverPlaced DEF Init, FatNamed, OpensTheNamed
<1>2. FatNamed => OpensTheNamed
  BY DEF FatNamed
<1> QED BY <1>1, <1>2, NamedStep, PTL DEF Spec

-----------------------------------------------------------------------------
(* Open files are read in order                                            *)

Begins(s, rest, n) ==
    Len(rest) = n /\ Len(s) \in 0 .. n /\ s = SubSeq(rest, 1, Len(s))

(* What FileReader says of the records s, read of the contents c at pos.   *)
LEMMA RestIs ==
    ASSUME NEW S, NEW c \in Seq(S), NEW pos \in Nat, NEW T, NEW s \in Seq(T),
           GoesOn(s, c, pos, {}), NEW rest, rest = SubSeq(c, pos + 1, Len(c))
    PROVE  Begins(s, rest, Len(c) - pos)
<1>1. PICK lc \in Nat, ls \in Nat : lc = Len(c) /\ ls = Len(s) /\ pos + ls <= lc
  BY DEF GoesOn
<1>2. PICK a \in Nat : a = pos + 1
  OBVIOUS
<1>3. /\ rest \in Seq(S) /\ Len(rest) = lc - pos
      /\ \A i \in 1 .. ls : i \in 1 .. lc - pos /\ rest[i] = c[pos + i]
  <2>1. \A i \in a .. lc : c[i] \in S
    <3>1. \A i \in 1 .. lc : c[i] \in S
      BY <1>1
    <3> QED BY <1>2, <3>1
  <2>2. rest = SubSeq(c, a, lc)
    BY <1>1, <1>2
  <2>3. /\ rest \in Seq(S) /\ Len(rest) = IF a <= lc THEN lc - a + 1 ELSE 0
        /\ \A i \in 1 .. lc - a + 1 : rest[i] = c[a + i - 1]
    BY ONLY <2>1, <2>2, SubSeqProperties, a \in Nat, lc \in Nat
  <2>4. Len(rest) = lc - pos
    BY ONLY <1>1, <1>2, <2>3, a \in Nat, lc \in Nat, pos \in Nat
  <2>5. ASSUME NEW i \in 1 .. ls PROVE i \in 1 .. lc - pos /\ rest[i] = c[pos + i]
    <3>1. i \in 1 .. lc - a + 1 /\ i \in 1 .. lc - pos /\ a + i - 1 = pos + i
      BY ONLY <1>1, <1>2, lc \in Nat, ls \in Nat, pos \in Nat, i \in 1 .. ls
    <3> QED BY <2>3, <3>1
  <2> QED BY <2>3, <2>4, <2>5
<1>4. PICK t : t = SubSeq(rest, 1, ls)
  OBVIOUS
<1>5. /\ t \in Seq(S) /\ Len(t) = IF 1 <= ls THEN ls - 1 + 1 ELSE 0
      /\ \A i \in 1 .. ls - 1 + 1 : t[i] = rest[1 + i - 1]
  <2>1. \A i \in 1 .. ls : rest[i] \in S
    <3>1. \A i \in 1 .. Len(rest) : rest[i] \in S
      BY <1>3
    <3> QED BY <1>3, <3>1
  <2> QED BY ONLY <1>4, <2>1, SubSeqProperties, ls \in Nat
<1>6. Len(t) = ls /\ \A i \in 1 .. ls : t[i] = rest[i]
  <2>1. Len(t) = ls
    BY ONLY <1>5, ls \in Nat
  <2>2. ASSUME NEW i \in 1 .. ls PROVE t[i] = rest[i]
    <3>1. i \in 1 .. ls - 1 + 1 /\ 1 + i - 1 = i
      BY ONLY ls \in Nat, i \in 1 .. ls
    <3> QED BY <1>5, <3>1
  <2> QED BY <2>1, <2>2
<1>7. \A i \in 1 .. ls : s[i] = c[pos + i]
  BY <1>1 DEF GoesOn, IsRecord
<1>8. s = t
  <2>1. t = [i \in 1 .. ls |-> t[i]] /\ s = [i \in 1 .. ls |-> s[i]]
    BY <1>1, <1>5, <1>6
  <2>2. \A i \in 1 .. ls : t[i] = s[i]
    BY ONLY <1>3, <1>6, <1>7
  <2> QED BY ONLY <2>1, <2>2
<1>9. ls \in 0 .. lc - pos
  BY ONLY <1>1, lc \in Nat, ls \in Nat, pos \in Nat
<1> QED BY <1>1, <1>3, <1>4, <1>8, <1>9 DEF Begins

(* The fields of an open file that a read sets.                            *)
Moved(x, o, h, q) == x = [o EXCEPT ![h].pos = q]

Lost(x, o, h) == x = [o EXCEPT ![h].pos = 0, ![h].sound = FALSE]

LEMMA MovedIs ==
    ASSUME NEW o, o = [g \in DOMAIN o |-> o[g]], NEW h \in DOMAIN o, NEW f, NEW s, NEW p,
           o[h] = [file |-> f, sound |-> s, pos |-> p], NEW q,
           NEW x, x = [o EXCEPT ![h] = [file |-> f, sound |-> s, pos |-> q]]
    PROVE  Moved(x, o, h, q)
<1>1. [o[h] EXCEPT !.pos = q] = [file |-> f, sound |-> s, pos |-> q]
  OBVIOUS
<1> QED BY <1>1 DEF Moved

LEMMA LostIs ==
    ASSUME NEW o, o = [g \in DOMAIN o |-> o[g]], NEW h \in DOMAIN o, NEW f, NEW s, NEW p,
           o[h] = [file |-> f, sound |-> s, pos |-> p],
           NEW x, x = [o EXCEPT ![h] = [file |-> f, sound |-> FALSE, pos |-> 0]]
    PROVE  Lost(x, o, h)
<1>1. PICK e : e = [file |-> f, sound |-> s, pos |-> 0]
  OBVIOUS
<1>2. [o[h] EXCEPT !.pos = 0] = e
  BY <1>1
<1>3. [e EXCEPT !.sound = FALSE] = [file |-> f, sound |-> FALSE, pos |-> 0]
  <2>1. PICK t : t = FALSE
    OBVIOUS
  <2>2. [e EXCEPT !.sound = t] = [file |-> f, sound |-> t, pos |-> 0]
    BY ONLY <1>1
  <2> QED BY ONLY <2>1, <2>2
<1>4. PICK y : y = [o EXCEPT ![h].pos = 0]
  OBVIOUS
<1>5. y = [g \in DOMAIN o |-> IF g = h THEN e ELSE o[g]]
  BY <1>2, <1>4
<1>6. [y EXCEPT ![h].sound = FALSE] = x
  BY ONLY <1>3, <1>5, h \in DOMAIN o, o = [g \in DOMAIN o |-> o[g]],
          x = [o EXCEPT ![h] = [file |-> f, sound |-> FALSE, pos |-> 0]]
<1> QED BY <1>4, <1>6 DEF Lost

(* Every open file is one of the disk, at the place its position says, and *)
(* unless a read has failed on it with that place's sector in its buffer.  *)
FilesInOrder ==
    \A h \in DOMAIN held : InFile(fd[h]) /\ (h \notin failed => Fresh(fd[h], {}))

LEMMA FilesOpened ==
    ASSUME FatInv, FilesInOrder, NEW path, NEW o, Delivers(fd, path, o), Returns(path, o),
           o.file \in Handle => Starts(o.fd[o.file])
    PROVE  FilesInOrder' /\ Reader!Next
<1>1. /\ fd' = o.fd /\ failed' = failed /\ data' = <<>>
      /\ held' = [h \in DOMAIN held \cup ({o.file} \cap Handle) |->
                     IF h = o.file THEN path ELSE held[h]]
      /\ failed \subseteq DOMAIN held /\ OpenHandles(fd) = DOMAIN held
  BY DEF Returns, FatInv
<1>2. \A h \in DOMAIN held : fd'[h] = fd[h]
  BY <1>1 DEF Delivers
<1>3. DOMAIN held' = DOMAIN held \cup ({o.file} \cap Handle)
  BY <1>1
<1>4. FilesInOrder'
  BY <1>1, <1>2, <1>3 DEF FilesInOrder, Starts
<1>5. CASE o.file \in Handle
  <2>1. PICK h \in Handle : h = o.file /\ h \notin DOMAIN held /\ Starts(fd'[h])
    BY <1>1, <1>5 DEF Delivers
  <2>2. PICK f \in File : f = fd'[h].first_cluster /\ fd'[h].pos = 0
    BY <2>1 DEF Starts, InFile
  <2>3. DOMAIN openFiles = DOMAIN held
    BY DEF openFiles
  <2>4. openFiles' = [g \in DOMAIN held \cup {h} |->
                         IF g = h THEN [file |-> f, pos |-> 0, sound |-> TRUE]
                                  ELSE openFiles[g]]
    <3>1. openFiles' = [g \in DOMAIN held \cup {h} |->
              [file |-> fd'[g].first_cluster, sound |-> g \notin failed,
               pos |-> IF g \in failed THEN 0 ELSE fd'[g].pos]]
      BY <1>1, <1>3, <2>1 DEF openFiles
    <3>2. h \notin failed
      BY <1>1, <2>1
    <3>3. ASSUME NEW g \in DOMAIN held
          PROVE  /\ openFiles[g] = [file |-> fd'[g].first_cluster, sound |-> g \notin failed,
                                    pos |-> IF g \in failed THEN 0 ELSE fd'[g].pos]
                 /\ g # h
      BY <1>2, <2>1 DEF openFiles
    <3> QED BY <2>2, <3>1, <3>2, <3>3
  <2> QED BY <1>1, <1>4, <2>1, <2>3, <2>4 DEF Reader!Next, Reader!Open
<1>6. CASE o.file \notin Handle
  <2>1. DOMAIN held' = DOMAIN held
    BY <1>3, <1>6
  <2>2. openFiles' = openFiles
    BY <1>1, <1>2, <2>1 DEF openFiles
  <2> QED BY <1>1, <1>4, <2>2 DEF Reader!Next, Reader!Refuse
<1> QED BY <1>5, <1>6

LEMMA FilesRead ==
    ASSUME FatInv, FilesInOrder, NEW h \in DOMAIN held, NEW n \in 1 .. MaxRead, NEW bad,
           NEW r, r = fat_read(fd[h], n, bad), Gives(h, r)
    PROVE  FilesInOrder' /\ Reader!Next
<1>1. h \in Desc /\ n \in Nat
  BY DiskAssumption DEF FatInv, OpenHandles, Desc
<1>2. /\ fd' = [fd EXCEPT ![h] = r.d] /\ data' = r.data /\ held' = held
      /\ failed' = IF r.err THEN failed \cup {h} ELSE failed
  BY DEF Gives
<1>3. fd \in [Desc -> SoundDesc] /\ DOMAIN held \subseteq Desc
  BY DEF FatInv, OpenHandles, Desc, Descriptors
<1>4. PICK d \in SoundDesc : d = fd[h] /\ InFile(d)
  BY <1>1, <1>3 DEF FilesInOrder
<1>5. PICK M : Fresh(d, M) /\ (h \notin failed => M = {})
  BY <1>4, FreshFrom DEF FilesInOrder
<1>6. PICK c : c = Contents[d.first_cluster]
  OBVIOUS
<1>7. /\ SameFile(d, r.d) /\ InFile(r.d)
      /\ r.data \in Seq(Nat \X Nat) /\ c \in Seq(PlacesOf(d.first_cluster))
      /\ r.d.pos = d.pos + Len(r.data) /\ Len(r.data) <= n
      /\ GoesOn(r.data, c, d.pos, M)
      /\ ~r.err => Fresh(r.d, M) /\ (Len(r.data) = n \/ r.d.pos = Len(c))
  BY <1>1, <1>4, <1>5, <1>6, FileGoesOn
<1>8. FilesInOrder'
  <2>1. ASSUME NEW g \in DOMAIN held
        PROVE  InFile(fd'[g]) /\ (g \notin failed' => Fresh(fd'[g], {}))
    <3>1. CASE g = h
      <4>1. fd'[g] = r.d
        BY <1>1, <1>2, <1>3, <3>1
      <4> QED BY <1>2, <1>5, <1>7, <3>1, <4>1
    <3>2. CASE g # h
      BY <1>2, <1>3, <3>2 DEF FilesInOrder
    <3> QED BY <3>1, <3>2
  <2> QED BY <1>2, <2>1 DEF FilesInOrder
<1>9. PICK pos \in Nat, len \in Nat : pos = d.pos /\ len = Len(r.data) /\ r.d.pos = pos + len
  BY <1>4, <1>7 DEF SoundDesc, FileDesc, GoesOn
<1>10. DOMAIN openFiles = DOMAIN held /\ h \in DOMAIN openFiles
  BY DEF openFiles
<1>11. openFiles' = [openFiles EXCEPT ![h] =
           [file |-> d.first_cluster, sound |-> h \notin failed',
            pos |-> IF h \in failed' THEN 0 ELSE r.d.pos]]
  <2>1. openFiles' = [g \in DOMAIN held |->
            [file |-> fd'[g].first_cluster, sound |-> g \notin failed',
             pos |-> IF g \in failed' THEN 0 ELSE fd'[g].pos]]
    BY <1>2 DEF openFiles
  <2>2. fd'[h] = r.d /\ r.d.first_cluster = d.first_cluster
    BY <1>1, <1>2, <1>3, <1>7 DEF SameFile
  <2>3. ASSUME NEW g \in DOMAIN held, g # h
        PROVE  openFiles[g] = [file |-> fd'[g].first_cluster, sound |-> g \notin failed',
                               pos |-> IF g \in failed' THEN 0 ELSE fd'[g].pos]
    BY <1>2, <1>3, <2>3 DEF openFiles
  <2> QED BY <1>10, <2>1, <2>2, <2>3
<1>12. openFiles[h] = [file |-> d.first_cluster, sound |-> h \notin failed,
                       pos |-> IF h \in failed THEN 0 ELSE pos]
  BY <1>4, <1>9 DEF openFiles
<1>13. CASE h \in failed
  <2>1. h \in failed'
    BY <1>2, <1>13
  <2>2. openFiles' = [openFiles EXCEPT ![h] = openFiles[h]]
    BY <1>11, <1>12, <1>13, <2>1
  <2>3. openFiles' = openFiles /\ ~openFiles[h].sound
    BY <1>10, <1>12, <1>13, <2>2 DEF openFiles
  <2> QED BY <1>8, <1>10, <2>3 DEF Reader!Next, Reader!ReadLost
<1>14. CASE h \notin failed
  <2>1. PICK rest : rest = SubSeq(c, pos + 1, Len(c))
    OBVIOUS
  <2>2. Len(rest) = Len(c) - pos /\ len \in 0 .. Len(rest) /\ r.data = SubSeq(rest, 1, len)
    <3>1. GoesOn(r.data, c, pos, {})
      BY <1>5, <1>7, <1>9, <1>14
    <3>2. PICK s \in Seq(Nat \X Nat) : s = r.data
      BY <1>7
    <3>3. PICK S : c \in Seq(S)
      BY <1>7
    <3>4. Begins(s, rest, Len(c) - pos)
      BY ONLY <2>1, <3>1, <3>2, <3>3, RestIs, s \in Seq(Nat \X Nat), pos \in Nat
    <3> QED BY <1>9, <3>2, <3>4 DEF Begins
  <2>3. Reader!Rest(h) = rest /\ openFiles[h].sound
    <3>1. PICK e : e = openFiles[h]
      OBVIOUS
    <3>2. e = [file |-> d.first_cluster, sound |-> TRUE, pos |-> pos]
      BY <1>12, <1>14, <3>1
    <3>3. e.file = d.first_cluster /\ e.pos = pos /\ e.sound = TRUE
      BY ONLY <3>2
    <3> QED BY <1>6, <2>1, <3>1, <3>3 DEF Reader!Rest
  <2>4. openFiles = [g \in DOMAIN openFiles |-> openFiles[g]]
    BY DEF openFiles
  <2>5. PICK o, f : /\ o = openFiles /\ f = d.first_cluster
                    /\ o = [g \in DOMAIN o |-> o[g]] /\ h \in DOMAIN o
                    /\ o[h] = [file |-> f, sound |-> TRUE, pos |-> pos]
    BY <1>10, <1>12, <1>14, <2>4
  <2>6. CASE r.err
    <3>1. h \in failed'
      BY <1>2, <2>6
    <3>2. openFiles' = [openFiles EXCEPT ![h].pos = 0, ![h].sound = FALSE]
      <4>1. PICK x : x = openFiles'
        OBVIOUS
      <4>2. x = [o EXCEPT ![h] = [file |-> f, sound |-> FALSE, pos |-> 0]]
        BY <1>11, <2>5, <3>1, <4>1
      <4>3. Lost(x, o, h)
        BY ONLY <2>5, <4>2, LostIs
      <4> QED BY <2>5, <4>1, <4>3 DEF Lost
    <3>3. Reader!ReadFails(h)
      BY <1>2, <2>2, <2>3, <3>2 DEF Reader!ReadFails
    <3> QED BY <1>8, <1>10, <3>3 DEF Reader!Next
  <2>7. CASE ~r.err
    <3>1. h \notin failed'
      BY <1>2, <1>14, <2>7
    <3>2. len = IF n <= Len(rest) THEN n ELSE Len(rest)
      <4>1. len <= n /\ (len = n \/ pos + len = Len(c))
        BY <1>7, <1>9, <2>7
      <4>2. Len(c) \in Nat
        BY <1>7 DEF GoesOn
      <4> QED BY ONLY <2>2, <4>1, <4>2, <1>1, pos \in Nat, len \in Nat
    <3>3. openFiles' = [openFiles EXCEPT ![h].pos = @ + len]
      <4>1. o[h].pos = pos
        BY <1>12, <1>14, <2>5
      <4>2. PICK q : q = pos + len
        OBVIOUS
      <4>3. PICK x : x = openFiles'
        OBVIOUS
      <4>4. x = [o EXCEPT ![h] = [file |-> f, sound |-> TRUE, pos |-> q]]
        BY <1>9, <1>11, <2>5, <3>1, <4>2, <4>3
      <4>5. Moved(x, o, h, q)
        BY ONLY <2>5, <4>4, MovedIs
      <4> QED BY <2>5, <4>1, <4>2, <4>3, <4>5 DEF Moved
    <3>4. Reader!Read(h, n)
      BY <1>2, <2>2, <2>3, <3>2, <3>3 DEF Reader!Read
    <3> QED BY <1>8, <1>10, <3>4 DEF Reader!Next
  <2> QED BY <2>6, <2>7
<1> QED BY <1>13, <1>14

LEMMA FilesClosed ==
    ASSUME FatInv, FilesInOrder, NEW h \in DOMAIN held, Close(h)
    PROVE  FilesInOrder' /\ Reader!Next
<1>1. h \in Handle /\ h \in Desc
  BY DEF FatInv, OpenHandles, Desc
<1>2. /\ fd' = fat_close(fd, h) /\ held' = [g \in DOMAIN held \ {h} |-> held[g]]
      /\ failed' = failed \ {h} /\ data' = <<>>
  BY DEF Close
<1>3. DOMAIN held' = DOMAIN held \ {h} /\ DOMAIN held \subseteq Desc
  BY <1>2 DEF FatInv, OpenHandles, Desc
<1>4. \A g \in DOMAIN held' : fd'[g] = fd[g] /\ g \in DOMAIN held /\ (g \in failed' <=> g \in failed)
  BY <1>1, <1>2, <1>3, CloseIs DEF FatInv
<1>5. FilesInOrder'
  BY <1>4 DEF FilesInOrder
<1>6. DOMAIN openFiles = DOMAIN held
  BY DEF openFiles
<1>7. openFiles' = [g \in DOMAIN held \ {h} |-> openFiles[g]]
  BY <1>3, <1>4 DEF openFiles
<1> QED BY <1>2, <1>5, <1>6, <1>7 DEF Reader!Next, Reader!Close

(* What holds between calls of a file system that reads in order.          *)
FatInOrder == FatNamed /\ FilesInOrder

LEMMA InOrderStep ==
    ASSUME FatInOrder, [Next]_vars
    PROVE  FilesInOrder' /\ [Reader!Next]_(Reader!vars)
<1>1. FatInv /\ AllPlaced(fd) /\ FilesInOrder
  BY DEF FatInOrder, FatNamed
<1>2. ASSUME NEW path \in Paths, NEW bad, Open(path, bad)
      PROVE  FilesInOrder' /\ Reader!Next
  <2>1. PICK o : o = fat_open(fd, path, bad)
    OBVIOUS
  <2>2. Returns(path, o) /\ fd \in Descriptors
    BY <1>1, <1>2, <2>1 DEF Open, FatInv
  <2>3. Delivers(fd, path, o)
    BY <1>1, <2>1, <2>2, OpenDelivers
  <2>4. o.file \in Handle => Starts(o.fd[o.file])
    BY <2>1, <2>2, OpenStarts
  <2> QED BY <1>1, <2>2, <2>3, <2>4, FilesOpened
<1>3. ASSUME NEW h \in DOMAIN held, NEW n \in 1 .. MaxRead, NEW bad, Read(h, n, bad)
      PROVE  FilesInOrder' /\ Reader!Next
  BY <1>1, <1>3, FilesRead DEF Read
<1>4. ASSUME NEW h \in DOMAIN held, Close(h)
      PROVE  FilesInOrder' /\ Reader!Next
  BY <1>1, <1>4, FilesClosed
<1>5. CASE UNCHANGED vars
  BY <1>1, <1>5 DEF vars, FilesInOrder, Reader!vars, openFiles
<1> QED BY <1>2, <1>3, <1>4, <1>5 DEF Next

LEMMA KernelStarts ==
    ASSUME fd \in Descriptors, NEW bad, NEW o, o = KernelOpened(bad), o.file \in Handle
    PROVE  Starts(o.fd[o.file])
<1>1. /\ ROOT_DIR_HANDLE \in Desc /\ Null \notin Handle /\ Handle \subseteq Desc
  BY Sizes DEF Desc, Handle, ROOT_DIR_HANDLE, Null
<1>2. PICK found : found = fat_find_file(fd[ROOT_DIR_HANDLE], Kernel, bad)
  OBVIOUS
<1>3. PICK f : f = [fd EXCEPT ![ROOT_DIR_HANDLE] = found.d]
  OBVIOUS
<1>4. PICK closed : closed = fat_close(f, ROOT_DIR_HANDLE)
  OBVIOUS
<1>5. fd \in [Desc -> SoundDesc] /\ \A g \in Desc : fd[g].handle = g
  BY DEF Descriptors
<1>6. /\ found.d \in SoundDesc /\ SameFile(fd[ROOT_DIR_HANDLE], found.d)
      /\ found.place = NoPlace \/ found.place \in DOMAIN Entries
  BY <1>1, <1>2, <1>5, FindIs
<1>7. f \in Descriptors
  BY <1>1, <1>3, <1>5, <1>6 DEF Descriptors, SameFile
<1>8. closed \in Descriptors
  BY <1>1, <1>4, <1>7, CloseIs
<1>9. found.place # NoPlace
  <2> SUFFICES ASSUME found.place = NoPlace PROVE FALSE
    OBVIOUS
  <2>1. o = [fd |-> closed, file |-> Null]
    BY <1>2, <1>3, <1>4 DEF KernelOpened, find, close
  <2>2. o.file = Null
    BY ONLY <2>1
  <2> QED BY <1>1, <2>2
<1>10. PICK p \in DOMAIN Entries : p = found.place
  BY <1>6, <1>9
<1>11. o = fat_open_entry(closed, Entries[p], bad)
  BY <1>2, <1>3, <1>4, <1>9, <1>10 DEF KernelOpened, find, close, open_entry
<1>12. PICK h \in Handle : h = o.file /\ o.fd = [closed EXCEPT ![h] = Opened(h, Entries[p])]
  <2>1. \/ o.file = Null /\ o.fd = closed
        \/ o.fd = [closed EXCEPT ![o.file] = Opened(o.file, Entries[p])]
    BY ONLY <1>8, <1>11, OpenEntryIs, p \in DOMAIN Entries
  <2> QED BY <1>1, <2>1
<1>13. PICK e : e = Opened(h, Entries[p])
  OBVIOUS
<1>14. InFile(e) /\ Fresh(e, {}) /\ AtStart(e, h, Entries[p])
  BY ONLY <1>13, OpenedInOrder, OpenedIs, p \in DOMAIN Entries, h \in Handle
<1>15. o.fd[h] = e
  BY <1>1, <1>8, <1>12, <1>13 DEF Descriptors
<1> QED BY <1>12, <1>14, <1>15 DEF Starts, AtStart

BootInOrder == BootNamed /\ FilesInOrder

LEMMA BootInOrderStep ==
    ASSUME BootInOrder, [BNext]_bvars
    PROVE  FilesInOrder' /\ [Reader!Next]_(Reader!vars)
<1>1. /\ FatInv /\ FilesInOrder /\ OpensTheNamed
      /\ phase \in {"open", "load", "loaded", "kernel"} => AllPlaced(fd)
      /\ phase = "root" => DOMAIN held = {}
  BY DEF BootInOrder, BootNamed, BootFatInv
<1>2. ASSUME UNCHANGED vars PROVE FilesInOrder' /\ UNCHANGED Reader!vars
  BY <1>1, <1>2 DEF vars, FilesInOrder, Reader!vars, openFiles
<1>3. CASE UNCHANGED bvars
  BY <1>2, <1>3 DEF bvars
<1>4. CASE ReadBootSector \/ ReadTable
  BY <1>2, <1>4 DEF ReadBootSector, ReadTable, Stops, Reads
<1>5. CASE ReadRoot
  <2>1. CASE Stops("root")
    BY <1>2, <2>1 DEF Stops
  <2>2. CASE ~Stops("root")
    <3>1. held' = held /\ failed' = failed /\ data' = data /\ DOMAIN held = {}
      BY <1>1, <1>5, <2>2 DEF ReadRoot
    <3>2. openFiles' = openFiles
      BY <3>1 DEF openFiles
    <3> QED BY <3>1, <3>2 DEF FilesInOrder, Reader!vars
  <2> QED BY <2>1, <2>2
<1>6. ASSUME NEW bad, OpenKernel(bad) PROVE FilesInOrder' /\ Reader!Next
  <2>1. PICK o : o = KernelOpened(bad)
    OBVIOUS
  <2>2. Returns(<<Kernel>>, o) /\ phase = "open" /\ fd \in Descriptors
    BY <1>1, <1>6, <2>1 DEF OpenKernel, FatInv
  <2>3. Delivers(fd, <<Kernel>>, o)
    BY <1>1, <2>1, <2>2, KernelDelivers
  <2>4. o.file \in Handle => Starts(o.fd[o.file])
    BY <2>1, <2>2, KernelStarts
  <2> QED BY <1>1, <2>2, <2>3, <2>4, FilesOpened
<1>7. ASSUME NEW h \in DOMAIN held, NEW bad, Load(h, bad) PROVE FilesInOrder' /\ Reader!Next
  <2>1. PICK r : r = fat_read(fd[h], BufferRecords, bad)
    OBVIOUS
  <2>2. Gives(h, r)
    BY <1>7, <2>1 DEF Load, read
  <2>3. BufferRecords \in 1 .. MaxRead
    BY Stage2Assumption
  <2> QED BY <1>1, <2>1, <2>2, <2>3, FilesRead
<1>8. ASSUME NEW h \in DOMAIN held, StartKernel(h) PROVE FilesInOrder' /\ Reader!Next
  BY <1>1, <1>8, FilesClosed DEF StartKernel
<1>9. CASE phase = "kernel" /\ Next /\ UNCHANGED boot_vars
  BY <1>1, <1>9, InOrderStep DEF FatInOrder, FatNamed
<1> QED BY <1>3, <1>4, <1>5, <1>6, <1>7, <1>8, <1>9 DEF BNext

(* An open file is read from its beginning to its end, nothing skipped and *)
(* nothing twice, however the reads are cut to pieces and whatever other   *)
(* files are opened, read and closed in between: over the ends of sectors  *)
(* and of clusters, to an end that is known (a file's) or met in the       *)
(* chain (a directory's). A sector that cannot be read ends this for the   *)
(* file that needed it and for no other. So from stage 2's fat_init on.    *)
THEOREM FilesAreReadInOrder == BSpec => ImplementsReader
<1>1. BInit => BootInOrder /\ Reader!Init
  <2> SUFFICES ASSUME BInit PROVE BootInOrder /\ Reader!Init
    OBVIOUS
  <2>1. DOMAIN held = {} /\ data = <<>>
    BY DEF BInit
  <2>2. openFiles = [h \in {} |-> 0]
    BY <2>1 DEF openFiles
  <2>3. BootInOrder
    BY <2>1, BootFatInit DEF BInit, BootInOrder, BootNamed, OpensTheNamed, FilesInOrder
  <2> QED BY <2>1, <2>2, <2>3 DEF Reader!Init
<1>2. BootInOrder /\ [BNext]_bvars => BootInOrder' /\ [Reader!Next]_(Reader!vars)
  BY BootNamedStep, BootInOrderStep DEF BootInOrder
<1> QED BY <1>1, <1>2, PTL DEF BSpec, ImplementsReader, Reader!Spec

(* The same of a kernel that starts on a driver as fat_init leaves it.     *)
THEOREM KernelFilesAreReadInOrder == Spec => ImplementsReader
<1>1. Init => FatInOrder /\ Reader!Init
  <2> SUFFICES ASSUME Init PROVE FatInOrder /\ Reader!Init
    OBVIOUS
  <2>1. DOMAIN held = {} /\ data = <<>>
    BY DEF Init
  <2>2. openFiles = [h \in {} |-> 0]
    BY <2>1 DEF openFiles
  <2>3. FatInOrder
    BY <2>1, FatInit, DriverPlaced DEF Init, FatInOrder, FatNamed, OpensTheNamed, FilesInOrder
  <2> QED BY <2>1, <2>2, <2>3 DEF Reader!Init
<1>2. FatInOrder /\ [Next]_vars => FatInOrder' /\ [Reader!Next]_(Reader!vars)
  BY NamedStep, InOrderStep DEF FatInOrder
<1> QED BY <1>1, <1>2, PTL DEF Spec, ImplementsReader, Reader!Spec

-----------------------------------------------------------------------------
(* The kernel is loaded whole                                              *)

Extended(u, S, n, c, M) == u \in Seq(S) /\ Len(u) = n /\ GoesOn(u, c, 0, M)

(* What is loaded, with the next read appended.                            *)
LEMMA ImageGoesOn ==
    ASSUME NEW S, NEW s \in Seq(S), NEW t \in Seq(S), NEW c, NEW M, NEW N, M \subseteq N,
           GoesOn(s, c, 0, M), NEW pos, pos = Len(s), GoesOn(t, c, pos, M),
           NEW u, u = s \o t
    PROVE  Extended(u, S, pos + Len(t), c, N)
<1>1. u \in Seq(S) /\ Joined(u, s, t)
  BY ONLY JoinedIs, s \in Seq(S), t \in Seq(S), u = s \o t
<1>2. PICK ls \in Nat, lt \in Nat, lc \in Nat :
          ls = Len(s) /\ lt = Len(t) /\ lc = Len(c) /\ ls + lt <= lc
  BY DEF GoesOn
<1>3. /\ Len(u) = ls + lt
      /\ \A i \in 1 .. ls : u[i] = s[i]
      /\ \A j \in 1 .. lt : u[ls + j] = t[j]
  BY <1>1, <1>2 DEF Joined
<1>4. ASSUME NEW i \in 1 .. ls + lt PROVE IsRecord(u[i], c[0 + i], N)
  <2>1. 0 + i = i
    OBVIOUS
  <2>2. CASE i \in 1 .. ls
    <3>1. IsRecord(s[i], c[0 + i], M) /\ u[i] = s[i]
      BY <1>2, <1>3, <2>2 DEF GoesOn
    <3> QED BY <3>1 DEF IsRecord
  <2>3. CASE i \notin 1 .. ls
    <3>1. PICK j \in 1 .. lt : i = ls + j
      <4>1. i - ls \in 1 .. lt /\ i = ls + (i - ls)
        BY ONLY <2>3, i \in 1 .. ls + lt, ls \in Nat, lt \in Nat
      <4> QED BY <4>1
    <3>2. IsRecord(t[j], c[pos + j], M)
      BY <1>2, <3>1 DEF GoesOn
    <3>3. u[i] = t[j] /\ c[0 + i] = c[pos + j]
      BY <1>2, <1>3, <2>1, <3>1
    <3> QED BY <3>2, <3>3 DEF IsRecord
  <2> QED BY <2>2, <2>3
<1>5. 0 + (ls + lt) <= lc
  BY <1>2
<1> QED BY <1>1, <1>2, <1>3, <1>4, <1>5 DEF GoesOn, Extended

(* One file is open, that of the path /kernel.bin; what it holds up to its *)
(* place is loaded, and its buffer holds the sector of the place or else   *)
(* one that could not be read.                                             *)
Loading(h) ==
    /\ DOMAIN held = {h} /\ held[h] = <<Kernel>>
    /\ InFile(fd[h]) /\ Fresh(fd[h], missing)
    /\ image \in Seq(Nat \X Nat) /\ Len(image) = fd[h].pos
    /\ GoesOn(image, Contents[fd[h].first_cluster], 0, missing)
    /\ phase = "loaded" => Len(image) = Len(Contents[fd[h].first_cluster])

BootLoads ==
    /\ BootNamed
    /\ phase \in {"boot sector", "table", "root", "open"} =>
          DOMAIN held = {} /\ image = <<>> /\ missing = {}
    /\ phase \in {"load", "loaded"} => \E h \in Handle : Loading(h)

LEMMA KernelOpens ==
    ASSUME BootLoads, NEW bad, OpenKernel(bad), phase' = "load"
    PROVE  \E h \in Handle : Loading(h)'
<1>1. PICK o : o = KernelOpened(bad)
  OBVIOUS
<1>2. /\ Returns(<<Kernel>>, o) /\ phase = "open" /\ image' = image /\ missing' = missing
      /\ o.file # Null
  BY <1>1 DEF OpenKernel
<1>3. FatInv /\ fd \in Descriptors /\ DOMAIN held = {} /\ image = <<>> /\ missing = {}
  BY <1>2 DEF BootLoads, BootNamed, BootFatInv, FatInv
<1>4. PICK h \in Handle : h = o.file
  BY <1>1, <1>2, <1>3, KernelOpenedIs
<1>5. Starts(o.fd[h])
  BY <1>1, <1>3, <1>4, KernelStarts
<1>6. /\ fd' = o.fd
      /\ held' = [g \in DOMAIN held \cup ({o.file} \cap Handle) |->
                     IF g = o.file THEN <<Kernel>> ELSE held[g]]
  BY <1>2 DEF Returns
<1>7. DOMAIN held' = {h} /\ held'[h] = <<Kernel>>
  BY <1>3, <1>4, <1>6
<1>8. image' \in Seq(Nat \X Nat) /\ Len(image') = 0
  BY <1>2, <1>3
<1>9. InFile(fd'[h]) /\ Fresh(fd'[h], missing') /\ fd'[h].pos = 0
  BY <1>2, <1>3, <1>5, <1>6 DEF Starts
<1>10. GoesOn(image', Contents[fd'[h].first_cluster], 0, missing')
  <2>1. PICK c : c = Contents[fd'[h].first_cluster]
    OBVIOUS
  <2>2. Len(c) \in Nat
    BY <1>9, <2>1 DEF InFile, Whole
  <2>3. 0 + 0 <= Len(c)
    BY <2>2
  <2> QED BY <1>8, <2>1, <2>2, <2>3 DEF GoesOn
<1> QED BY <1>7, <1>8, <1>9, <1>10 DEF Loading

LEMMA KernelLoads ==
    ASSUME BootLoads, NEW g \in DOMAIN held, NEW bad, Load(g, bad)
    PROVE  \E h \in Handle : Loading(h)'
<1>1. PICK r : r = fat_read(fd[g], BufferRecords, bad)
  OBVIOUS
<1>2. /\ phase = "load" /\ (phase' = "loaded" => r.data = <<>>)
      /\ Gives(g, r) /\ image' = image \o r.data
      /\ missing' = IF r.err THEN missing \cup bad ELSE missing
  BY <1>1 DEF Load, read, Loaded
<1>3. PICK h \in Handle : Loading(h)
  BY <1>2 DEF BootLoads
<1>4. h = g /\ h \in Desc
  BY <1>3 DEF Loading, Desc
<1>5. fd \in [Desc -> SoundDesc]
  BY DEF BootLoads, BootNamed, BootFatInv, FatInv, Descriptors
<1>6. PICK d \in SoundDesc : d = fd[h] /\ InFile(d) /\ Fresh(d, missing)
  BY <1>3, <1>4, <1>5 DEF Loading
<1>7. PICK m \in Nat : m = BufferRecords /\ m # 0
  BY Stage2Assumption, DiskAssumption
<1>8. PICK c : c = Contents[d.first_cluster]
  OBVIOUS
<1>9. /\ SameFile(d, r.d) /\ InFile(r.d) /\ r.data \in Seq(Nat \X Nat)
      /\ r.d.pos = d.pos + Len(r.data) /\ GoesOn(r.data, c, d.pos, missing)
      /\ IF r.err THEN Fresh(r.d, bad) /\ Len(r.data) # 0
         ELSE Fresh(r.d, missing) /\ (Len(r.data) = m \/ r.d.pos = Len(c))
  <2>1. r = fat_read(d, m, bad) /\ InFile(d) /\ Fresh(d, missing)
    BY <1>1, <1>4, <1>6, <1>7
  <2> QED BY ONLY <1>8, <2>1, FileGoesOn, d \in SoundDesc, m \in Nat
<1>10. fd' = [fd EXCEPT ![h] = r.d] /\ held' = held
  BY <1>2, <1>4 DEF Gives
<1>11. fd'[h] = r.d /\ r.d.first_cluster = d.first_cluster
  BY <1>4, <1>5, <1>9, <1>10 DEF SameFile
<1>12. Fresh(fd'[h], missing') /\ missing \subseteq missing'
  BY <1>2, <1>9, <1>11 DEF Fresh
<1>13. /\ image \in Seq(Nat \X Nat) /\ d.pos = Len(image)
       /\ GoesOn(image, c, 0, missing)
  BY <1>3, <1>6, <1>8 DEF Loading
<1>14. /\ image' \in Seq(Nat \X Nat) /\ Len(image') = r.d.pos
       /\ GoesOn(image', c, 0, missing')
  <2>1. PICK s \in Seq(Nat \X Nat), t \in Seq(Nat \X Nat) : s = image /\ t = r.data
    BY <1>9, <1>13
  <2>2. PICK u, M, N, pos : u = image' /\ M = missing /\ N = missing' /\ pos = d.pos
    OBVIOUS
  <2>3. /\ u = s \o t /\ M \subseteq N /\ GoesOn(s, c, 0, M)
        /\ pos = Len(s) /\ GoesOn(t, c, pos, M)
    BY <1>2, <1>9, <1>12, <1>13, <2>1, <2>2
  <2>4. Extended(u, Nat \X Nat, pos + Len(t), c, N)
    BY ONLY <2>3, ImageGoesOn, s \in Seq(Nat \X Nat), t \in Seq(Nat \X Nat)
  <2> QED BY <1>9, <2>1, <2>2, <2>4 DEF Extended
<1>15. phase' = "loaded" => Len(image') = Len(c)
  <2>1. r.data = <<>> => Len(r.data) = 0
    OBVIOUS
  <2> QED BY <1>2, <1>7, <1>9, <1>14, <2>1
<1>16. DOMAIN held' = {h} /\ held'[h] = <<Kernel>>
  BY <1>3, <1>10 DEF Loading
<1> QED BY <1>8, <1>9, <1>11, <1>12, <1>14, <1>15, <1>16 DEF Loading

LEMMA BootLoadsStep == BootLoads /\ [BNext]_bvars => BootLoads'
<1> DEFINE Early == {"boot sector", "table", "root", "open"}
           Late == {"load", "loaded"}
           Empty == DOMAIN held = {} /\ image = <<>> /\ missing = {}
<1> SUFFICES ASSUME BootLoads, [BNext]_bvars
             PROVE  /\ phase' \in Early => Empty'
                    /\ phase' \in Late => \E h \in Handle : Loading(h)'
  BY BootNamedStep DEF BootLoads
<1>1. /\ phase \in Early => Empty
      /\ phase \in Late => \E h \in Handle : Loading(h)
  BY DEF BootLoads
<1>2. CASE UNCHANGED bvars
  BY <1>1, <1>2 DEF bvars, boot_vars, vars, Loading
<1>3. CASE ReadBootSector \/ ReadTable
  BY <1>1, <1>3 DEF ReadBootSector, ReadTable, Stops, Reads, vars
<1>4. CASE ReadRoot
  BY <1>1, <1>4 DEF ReadRoot, Stops, vars
<1>5. ASSUME NEW bad, OpenKernel(bad)
      PROVE  phase' \notin Early /\ (phase' \in Late => \E h \in Handle : Loading(h)')
  <2>1. phase' \in {"stopped", "load"}
    BY <1>5 DEF OpenKernel
  <2> QED BY <1>5, <2>1, KernelOpens
<1>6. ASSUME NEW h \in DOMAIN held, NEW bad, Load(h, bad)
      PROVE  phase' \notin Early /\ \E g \in Handle : Loading(g)'
  <2>1. phase' \in {"load", "loaded"}
    BY <1>6 DEF Load
  <2> QED BY <1>6, <2>1, KernelLoads
<1>7. ASSUME NEW h \in DOMAIN held, StartKernel(h)
      PROVE  phase' \notin Early /\ phase' \notin Late
  BY <1>7 DEF StartKernel
<1>8. CASE phase = "kernel" /\ Next /\ UNCHANGED boot_vars
  BY <1>8 DEF boot_vars
<1> QED BY <1>2, <1>3, <1>4, <1>5, <1>6, <1>7, <1>8 DEF BNext

(* A path of one name names one entry at the most.                         *)
LEMMA KernelIsOne ==
    ASSUME NEW p \in Named[<<Kernel>>], NEW q \in Named[<<Kernel>>]
    PROVE  p = q
<1>1. PICK path \in Paths : path = <<Kernel>>
  BY Stage2Assumption
<1>2. path \in Seq(STRING) /\ Len(path) = 1 /\ path[1] = Kernel /\ 1 \in 1 .. Len(path)
  <2>1. path \in Seq(STRING)
    BY DiskAssumption
  <2> QED BY <1>1, <2>1
<1>3. PICK In : NamedAt(In, path) /\ Named[path] = In[1]
  BY <1>2, NamedIs
<1>4. ASSUME NEW w \in Named[path]
      PROVE  w \in DOMAIN Entries /\ Entries[w].name = Kernel /\ InRoot(w)
  BY <1>2, <1>3 DEF NamedAt
<1> QED BY <1>1, <1>4, DirectoryAssumption DEF InSameDirectory

LEMMA LoadedIsKernel == BootLoads => KernelIsFile
<1> SUFFICES ASSUME BootLoads, phase = "loaded"
             PROVE  /\ Len(image) = Len(KernelFile)
                    /\ \A i \in DOMAIN image :
                          image[i] = KernelFile[i] \/ KernelFile[i][1] \in missing
  BY DEF KernelIsFile
<1>1. PICK h \in Handle : Loading(h)
  BY DEF BootLoads
<1>2. PICK p \in Named[<<Kernel>>] : fd[h].first_cluster = Entries[p].first
  BY <1>1 DEF BootLoads, BootNamed, OpensTheNamed, Loading
<1>3. PICK q \in Named[<<Kernel>>] : q = CHOOSE w \in Named[<<Kernel>>] : TRUE
  <2>1. \E w \in Named[<<Kernel>>] : TRUE
    BY <1>2
  <2> QED BY <2>1
<1>4. KernelFile = Contents[fd[h].first_cluster]
  BY <1>2, <1>3, KernelIsOne DEF KernelFile
<1>5. PICK c : c = KernelFile
  OBVIOUS
<1>6. Len(image) = Len(c) /\ GoesOn(image, c, 0, missing) /\ DOMAIN image = 1 .. Len(image)
  BY <1>1, <1>4, <1>5 DEF Loading
<1>7. ASSUME NEW i \in DOMAIN image PROVE image[i] = c[i] \/ c[i][1] \in missing
  <2>1. Len(image) \in Nat /\ i \in 1 .. Len(image)
    BY <1>6 DEF GoesOn
  <2>2. 0 + i = i
    BY <2>1
  <2> QED BY <1>6, <2>1, <2>2 DEF GoesOn, IsRecord
<1> QED BY <1>5, <1>6, <1>7

(* The kernel that stage 2 jumps to is the file kernel.bin, from its first *)
(* record to its last, each at its place, whatever sectors had to be given *)
(* up on the way: only these hold something else. That a read has failed   *)
(* in the middle does not shift what follows (main.c:52-56), because what  *)
(* it had read counts, and the next read goes on behind it.                *)
THEOREM KernelIsLoadedWhole == BSpec => []KernelIsFile
<1>1. BInit => BootLoads
  BY BootFatInit DEF BInit, BootLoads, BootNamed, OpensTheNamed
<1> QED BY <1>1, BootLoadsStep, LoadedIsKernel, PTL DEF BSpec

-----------------------------------------------------------------------------
(* What is there is found                                                  *)

(* A file in which t records are passed, the last of them in r.            *)
Seen(r, d, n, t) ==
    /\ SameFile(d, r.d) /\ Whole(r.d, n) /\ Cursor(r.d) /\ Fresh(r.d, {})
    /\ r.data # <<>> /\ r.d.pos \in 1 .. t + 1
    /\ r.data[1] = RecordAt(d, r.d.pos - 1)

LEMMA SeenNext ==
    ASSUME NEW d \in FileDesc, NEW e \in SoundDesc, SameFile(d, e), NEW n, Whole(e, n),
           Cursor(e), Fresh(e, {}), NEW t \in Nat, t < n, e.pos <= t,
           NEW x, x = fat_read(e, 1, {})
    PROVE  x \in Reading /\ Seen(x, d, n, t)
<1>1. x \in Reading /\ InOrder(x, e, 1, n, {}, {})
  BY ReadInOrder
<1>2. PICK pos \in Nat, got \in {x.data} : pos = e.pos /\ got = x.data
  <2>1. e.pos \in Nat
    BY DEF SoundDesc, FileDesc
  <2> QED BY <2>1
<1>3. /\ SameFile(e, x.d) /\ Whole(x.d, n) /\ Cursor(x.d)
      /\ Len(got) \in 0 .. 1 /\ x.d.pos = pos + Len(got)
      /\ InSequence(got, e, {})
      /\ IF x.err THEN Fresh(x.d, {}) /\ Len(got) # 0
         ELSE Fresh(x.d, {}) /\ (Len(got) = 1 \/ x.d.pos = n)
  BY ONLY <1>1, <1>2 DEF InOrder
<1>4. n \in Nat
  BY DEF Whole
<1>5. PICK len \in 0 .. 1, end \in {x.d.pos} :
          /\ len = Len(got) /\ end = x.d.pos /\ end = pos + len
          /\ len # 0 \/ end = n
  <2>1. Len(got) # 0 \/ x.d.pos = n
    <3>1. CASE x.err
      BY ONLY <1>3, <3>1
    <3>2. CASE ~x.err
      <4>1. Len(got) = 1 \/ x.d.pos = n
        BY ONLY <1>3, <3>2
      <4> QED BY ONLY <4>1
    <3> QED BY ONLY <3>1, <3>2
  <2>2. Len(got) \in 0 .. 1 /\ x.d.pos = pos + Len(got)
    BY <1>3
  <2> QED BY ONLY <2>1, <2>2
<1>6. pos <= t
  BY <1>2
<1>7. len = 1 /\ end = pos + 1 /\ end \in 1 .. t + 1 /\ pos + 1 - 1 = end - 1
  BY ONLY <1>4, <1>5, <1>6, t < n, t \in Nat, pos \in Nat
<1>8. got # <<>>
  <2> SUFFICES ASSUME got = <<>> PROVE FALSE
    OBVIOUS
  <2>1. got \in Seq(Nat)
    BY ONLY EmptySeq, got = <<>>
  <2>2. Len(got) = 0
    BY ONLY EmptySeq, <2>1, got = <<>>
  <2>3. Len(got) = 1
    BY ONLY <1>5, <1>7
  <2> QED BY ONLY <2>2, <2>3
<1>9. got[1] = RecordAt(e, e.pos + 1 - 1)
  <2>1. 1 \in 1 .. Len(got)
    BY ONLY <1>5, <1>7
  <2>2. IsRecord(got[1], RecordAt(e, e.pos + 1 - 1), {})
    BY ONLY <1>3, <2>1 DEF InSequence
  <2> QED BY ONLY <2>2 DEF IsRecord
<1>10. got[1] = RecordAt(e, end - 1)
  BY ONLY <1>2, <1>7, <1>9
<1>11. RecordAt(e, end - 1) = RecordAt(d, end - 1)
  BY DEF RecordAt, SectorAt, SameFile, IsRoot
<1>12. SameFile(d, x.d)
  BY <1>3 DEF SameFile
<1> QED BY ONLY <1>1, <1>2, <1>3, <1>5, <1>7, <1>8, <1>10, <1>11, <1>12 DEF Seen

(* A search from the beginning of a file, with all sectors readable, comes *)
(* to an entry of that name if one of the records is such an entry.        *)
LEMMA SearchFinds ==
    ASSUME NEW d \in SoundDesc, NEW n, Whole(d, n), Cursor(d), Fresh(d, {}), d.pos = 0,
           NEW t \in Nat, t < n, NEW name, HasName(RecordAt(d, t), name),
           NEW f, f = fat_find_file(d, name, {})
    PROVE  HasName(f.place, name) /\ \E k \in 0 .. t : f.place = RecordAt(d, k)
<1> DEFINE I == {r \in Reading : Seen(r, d, n, t)}
<1>1. d \in FileDesc /\ SameFile(d, d)
  BY DEF SoundDesc, SameFile
<1>2. fat_read(d, 1, {}) \in I
  <2>1. PICK x : x = fat_read(d, 1, {})
    OBVIOUS
  <2>2. d.pos <= t
    OBVIOUS
  <2> QED BY <1>1, <2>1, <2>2, SeenNext
<1>3. ASSUME NEW r \in I, r.data # <<>>, ~HasName(r.data[1], name)
      PROVE  fat_read(r.d, 1, {}) \in I
  <2>1. PICK e \in SoundDesc : e = r.d
    BY DEF Reading
  <2>2. /\ SameFile(d, e) /\ Whole(e, n) /\ Cursor(e) /\ Fresh(e, {})
        /\ e.pos \in 1 .. t + 1 /\ r.data[1] = RecordAt(d, e.pos - 1)
    BY <2>1 DEF Seen
  <2>3. e.pos - 1 # t
    BY <1>3, <2>2
  <2>4. e.pos <= t
    BY ONLY <2>2, <2>3, t \in Nat
  <2>5. PICK x : x = fat_read(e, 1, {})
    OBVIOUS
  <2>6. x \in Reading /\ Seen(x, d, n, t)
    BY <1>1, <2>2, <2>4, <2>5, SeenNext
  <2> QED BY <2>1, <2>5, <2>6
<1>4. PICK q \in I : \/ f.place = NoPlace /\ q.data = <<>>
                     \/ /\ q.data # <<>> /\ f.place = q.data[1]
                        /\ f.place \in DOMAIN Entries /\ Entries[f.place].name = name
  <2>1. I \subseteq Reading
    OBVIOUS
  <2> HIDE DEF I
  <2> QED BY <1>2, <1>3, <2>1, FindKeeps
<1>5. q.data # <<>> /\ q.d.pos \in 1 .. t + 1 /\ q.data[1] = RecordAt(d, q.d.pos - 1)
  BY DEF Seen
<1>6. q.d.pos - 1 \in 0 .. t
  BY ONLY <1>5, t \in Nat
<1> QED BY <1>4, <1>5, <1>6 DEF HasName

(* The root directory between calls, with its first sector in the buffer.  *)
LEMMA RootStarts ==
    ASSUME NEW d \in SoundDesc, IsRoot(d), Placed(d), d.pos = 0, d.buffer = RootLba
    PROVE  Whole(d, Capacity(d)) /\ Cursor(d) /\ Fresh(d, {})
<1>1. PICK ps \in Nat \ {0}, n \in Nat \ {0} : ps = PerSector /\ n = RootSectors * ps
  BY Sizes
<1>2. Capacity(d) = n
  BY <1>1 DEF Capacity, Sectors
<1>3. d.cur_cluster = RootLba + (0 \div ps) /\ d.size = n
  BY <1>1 DEF Placed
<1>4. 0 \div ps = 0 /\ RootLba + 0 = RootLba
  BY Sizes
<1>5. Cursor(d)
  BY <1>1, <1>3 DEF Cursor, AtSector
<1>6. Fresh(d, {})
  BY <1>3, <1>4 DEF Fresh, SectorOf
<1>7. Whole(d, n)
  BY <1>2, <1>3 DEF Whole
<1> QED BY <1>2, <1>5, <1>6, <1>7

LEMMA RootRecord ==
    ASSUME NEW d \in FileDesc, IsRoot(d), NEW q \in DOMAIN Entries, InRoot(q)
    PROVE  \E t \in Nat : t < Capacity(d) /\ q = RecordAt(d, t)
<1>1. PICK ps \in Nat \ {0}, rs \in Nat \ {0}, lba \in Nat :
          ps = PerSector /\ rs = RootSectors /\ lba = RootLba
  BY Sizes
<1>2. PICK a \in Lba, b \in 0 .. ps - 1 : q = <<a, b>>
  BY <1>1, PlaceAssumption
<1>3. q[1] = a /\ a \in lba .. (lba + rs) - 1
  BY <1>1, <1>2 DEF InRoot, data_lba
<1>4. PICK j \in 0 .. rs - 1 : a = lba + j
  <2>1. a - lba \in 0 .. rs - 1 /\ a = lba + (a - lba)
    BY ONLY <1>3, lba \in Nat, rs \in Nat \ {0}
  <2> QED BY <2>1
<1>5. PICK t \in Nat : t = ps * j + b
  <2>1. ps * j \in Nat
    BY ONLY ps \in Nat \ {0}, j \in 0 .. rs - 1, rs \in Nat \ {0}
  <2> QED BY <2>1
<1>6. t \div ps = j /\ t % ps = b
  <2>1. j \in Nat
    OBVIOUS
  <2> QED BY ONLY <1>5, <2>1, DivisionIs, t \in Nat, ps \in Nat \ {0}, b \in 0 .. ps - 1
<1>7. RecordAt(d, t) = q
  BY <1>1, <1>2, <1>4, <1>6 DEF RecordAt, SectorAt
<1>8. t < rs * ps
  <2>1. PICK w \in Nat : rs = j + 1 + w
    <3>1. rs - (j + 1) \in Nat /\ rs = j + 1 + (rs - (j + 1))
      BY ONLY j \in 0 .. rs - 1, rs \in Nat \ {0}
    <3> QED BY <3>1
  <2>2. j \in Nat
    OBVIOUS
  <2>3. rs * ps = ps * j + ps + w * ps /\ w * ps \in Nat /\ ps * j \in Nat
    BY ONLY <2>1, <2>2, ps \in Nat \ {0}, w \in Nat
  <2> QED BY ONLY <1>5, <2>3, ps \in Nat \ {0}, b \in 0 .. ps - 1
<1> QED BY <1>1, <1>7, <1>8 DEF Capacity, Sectors

LEMMA DirRecord ==
    ASSUME NEW d \in FileDesc, ~IsRoot(d), NEW p \in DOMAIN Entries, OfEntry(d, p),
           NEW q \in DOMAIN Entries, q \in PlacesOf(Entries[p].first)
    PROVE  d.is_dir /\ \E t \in Nat : t < Capacity(d) /\ q = RecordAt(d, t)
<1>1. d.is_dir
  <2>1. PlacesOf(Entries[p].first) \cap DOMAIN Entries # {}
    OBVIOUS
  <2> QED BY <2>1, DirectoryAssumption DEF OfEntry
<1>2. PICK f : f = d.first_cluster /\ f = Entries[p].first
  BY DEF OfEntry
<1>3. PICK s : s = Records(f)
  OBVIOUS
<1>4. /\ DOMAIN s = 1 .. Capacity(d) /\ Capacity(d) \in Nat
      /\ \A i \in 1 .. Capacity(d) : s[i] = RecordAt(d, i - 1)
  BY <1>2, <1>3, RecordsIs
<1>5. PICK i \in 1 .. Capacity(d) : q = s[i]
  BY <1>2, <1>3, <1>4 DEF PlacesOf
<1>6. i - 1 \in Nat /\ i - 1 < Capacity(d)
  BY <1>4
<1> QED BY <1>1, <1>4, <1>5, <1>6

(* No two entries are named by the same names, and if a path names one, so *)
(* does each part of it.                                                   *)
LEMMA OneAt ==
    ASSUME NEW path \in Seq(STRING), NEW In, NamedAt(In, path),
           NEW i \in 1 .. Len(path), NEW p \in In[i], NEW q \in In[i]
    PROVE  p = q
<1> DEFINE Many == {j \in 1 .. Len(path) : \E v, w \in In[j] : v # w}
<1>1. Len(path) \in Nat
  BY LenProperties
<1> SUFFICES ASSUME Many # {} PROVE FALSE
  OBVIOUS
<1>2. PICK j \in Many : \A k \in Many : j <= k
  <2>1. Many \subseteq Nat
    BY <1>1
  <2> HIDE DEF Many
  <2> QED BY <2>1, LeastExists
<1>3. PICK v \in In[j], w \in In[j] : v # w
  OBVIOUS
<1>4. /\ v \in DOMAIN Entries /\ Entries[v].name = path[j]
      /\ w \in DOMAIN Entries /\ Entries[w].name = path[j]
  BY DEF NamedAt
<1>5. ~InSameDirectory(v, w)
  BY <1>3, <1>4, DirectoryAssumption
<1>6. CASE j = 1
  BY <1>5, <1>6 DEF NamedAt, InSameDirectory
<1>7. CASE j # 1
  <2>1. j - 1 \in 1 .. Len(path) /\ j - 1 < j
    BY <1>1, <1>7
  <2>2. j - 1 \notin Many
    BY <1>2, <2>1
  <2>3. PICK dv \in In[j - 1], dw \in In[j - 1] :
            v \in PlacesOf(Entries[dv].first) /\ w \in PlacesOf(Entries[dw].first)
    BY <1>7 DEF NamedAt
  <2>4. dv = dw /\ dv \in DOMAIN Entries
    BY <2>1, <2>2, <2>3 DEF NamedAt
  <2>5. {v, w} \subseteq PlacesOf(Entries[dv].first)
    BY <2>3, <2>4
  <2> QED BY <1>5, <2>4, <2>5 DEF InSameDirectory
<1> QED BY <1>6, <1>7

LEMMA SomeAt ==
    ASSUME NEW path \in Seq(STRING), NEW In, NamedAt(In, path), In[Len(path)] # {},
           NEW i \in 1 .. Len(path)
    PROVE  In[i] # {}
<1> DEFINE None == {j \in 1 .. Len(path) : In[j] = {}}
<1>1. PICK n \in Nat : n = Len(path)
  BY LenProperties
<1> SUFFICES ASSUME None # {} PROVE FALSE
  OBVIOUS
<1>2. PICK j \in None : \A k \in None : k <= j
  <2>1. None \subseteq 0 .. n
    BY <1>1
  <2> HIDE DEF None
  <2> QED BY <2>1, GreatestExists
<1>3. j # n /\ In[j] = {}
  BY <1>1
<1>4. j + 1 \in 1 .. Len(path) /\ j + 1 # 1 /\ (j + 1) - 1 = j /\ ~(j + 1 <= j)
  BY <1>1, <1>3
<1>5. j + 1 \notin None
  BY <1>2, <1>4
<1>6. In[j + 1] # {}
  BY <1>4, <1>5
<1>7. PICK p : p \in In[j + 1]
  BY <1>6
<1>8. \E d \in In[(j + 1) - 1] : p \in PlacesOf(Entries[d].first)
  BY <1>4, <1>7 DEF NamedAt
<1> QED BY <1>3, <1>4, <1>8

(* With a handle left and all sectors readable, an entry is opened.        *)
LEMMA OpenEntrySucceeds ==
    ASSUME NEW f \in Descriptors, OpenHandles(f) # Handle, NEW p \in DOMAIN Entries,
           NEW o, o = fat_open_entry(f, Entries[p], {})
    PROVE  o.file \in Handle
<1> DEFINE free == {h \in Handle : ~f[h].opened}
           h == CHOOSE g \in free : \A k \in free : g <= k
<1>1. free # {}
  BY DEF OpenHandles
<1>2. h \in free
  <2>1. \E g \in free : \A k \in free : g <= k
    <3>1. free \subseteq Nat
      BY Sizes DEF Handle
    <3> HIDE DEF free
    <3> QED BY <1>1, <3>1, LeastExists
  <2> HIDE DEF free
  <2> QED BY <2>1
<1>3. PICK y : y = [f EXCEPT ![h] = Opened(h, Entries[p])]
  OBVIOUS
<1>4. o = [fd |-> y, file |-> h]
  <2>1. o = IF free = {} \/ cluster_to_lba(Entries[p].first) \in {}
            THEN [fd |-> f, file |-> Null]
            ELSE [fd |-> [f EXCEPT ![h] = Opened(h, Entries[p])], file |-> h]
    BY DEF fat_open_entry
  <2> HIDE DEF h, free
  <2> QED BY <1>1, <1>3, <2>1
<1>5. o.file = h
  <2> HIDE DEF h
  <2> QED BY ONLY <1>4
<1>6. free \subseteq Handle
  OBVIOUS
<1> HIDE DEF h, free
<1> QED BY <1>2, <1>5, <1>6

(* The name that the walk down a path comes to next.                       *)
LEMMA NextName ==
    ASSUME NEW path \in Seq(STRING), NEW In, NEW s \in Walking, s.rest # <<>>,
           NEW i \in 0 .. Len(path), Down(s, i, In, path)
    PROVE  i + 1 \in 1 .. Len(path) /\ Head(s.rest) = path[i + 1]
<1>1. PICK rest \in Seq(STRING) : rest = s.rest /\ rest # <<>>
  BY DEF Walking
<1>2. Len(rest) \in Nat \ {0} /\ Head(rest) = rest[1]
  <2>1. Len(rest) \in Nat \ {0}
    BY ONLY <1>1, EmptySeq, rest \in Seq(STRING)
  <2>2. Head(rest) = rest[1]
    BY <1>1
  <2> QED BY ONLY <2>1, <2>2
<1>3. /\ Len(rest) = Len(path) - i /\ Len(path) \in Nat
      /\ \A j \in 1 .. Len(rest) : rest[j] = path[i + j]
  <2>1. Len(path) \in Nat
    BY LenProperties
  <2> QED BY <1>1, <2>1 DEF Down
<1>4. i + 1 \in 1 .. Len(path)
  BY ONLY <1>2, <1>3, i \in 0 .. Len(path)
<1>5. rest[1] = path[i + 1]
  <2>1. 1 \in 1 .. Len(rest)
    BY <1>2
  <2> QED BY ONLY <1>3, <2>1
<1> QED BY <1>1, <1>2, <1>4, <1>5

(* Before a search: a file at its start, or the root directory at its own  *)
(* and a handle left.                                                      *)
Ready(s) ==
    IF s.file = ROOT_DIR_HANDLE
    THEN /\ s.fd[ROOT_DIR_HANDLE].pos = 0 /\ s.fd[ROOT_DIR_HANDLE].buffer = RootLba
         /\ OpenHandles(s.fd) # Handle
    ELSE s.file \in Handle /\ Starts(s.fd[s.file])

LEMMA FindsNext ==
    ASSUME NEW path \in Seq(STRING), NEW In, NamedAt(In, path), In[Len(path)] # {},
           NEW s \in Walking, Leads(s, In, path), Ready(s), s.rest # <<>>,
           NEW found, found = fat_find_file(s.fd[s.file], Head(s.rest), {})
    PROVE  HasName(found.place, Head(s.rest))
<1>1. /\ ROOT_DIR_HANDLE \notin Handle /\ Null \notin Handle /\ ROOT_DIR_HANDLE # Null
      /\ ROOT_DIR_HANDLE \in Desc /\ Handle \subseteq Desc
  BY Sizes DEF Handle, Desc, ROOT_DIR_HANDLE, Null
<1>2. s.file \in Desc /\ s.file # Null
  BY <1>1 DEF Ready
<1>3. PICK d \in SoundDesc : d = s.fd[s.file] /\ d.handle = s.file /\ Placed(d)
  BY <1>2 DEF Walking, Descriptors, Leads, AllPlaced
<1>4. PICK i \in 0 .. Len(path) : Down(s, i, In, path)
  BY <1>2 DEF Leads
<1>5. PICK name : name = Head(s.rest)
  OBVIOUS
<1>6. i + 1 \in 1 .. Len(path) /\ name = path[i + 1]
  BY <1>4, <1>5, NextName
<1>7. PICK q : q \in In[i + 1]
  <2>1. In[i + 1] # {}
    BY <1>6, SomeAt
  <2> QED BY <2>1
<1>8. /\ q \in DOMAIN Entries /\ Entries[q].name = name
      /\ IF i + 1 = 1 THEN InRoot(q)
         ELSE \E e \in In[(i + 1) - 1] : q \in PlacesOf(Entries[e].first)
  BY <1>6, <1>7 DEF NamedAt
<1>9. d \in FileDesc
  BY DEF SoundDesc
<1>10. \E n, t \in Nat : /\ t < n /\ q = RecordAt(d, t)
                         /\ Whole(d, n) /\ Cursor(d) /\ Fresh(d, {}) /\ d.pos = 0
  <2>1. CASE i = 0
    <3>1. s.file = ROOT_DIR_HANDLE /\ IsRoot(d)
      BY <1>3, <1>4, <2>1 DEF Down, IsRoot
    <3>2. d.pos = 0 /\ d.buffer = RootLba
      BY <1>3, <3>1 DEF Ready
    <3>3. Whole(d, Capacity(d)) /\ Cursor(d) /\ Fresh(d, {})
      BY <1>3, <3>1, <3>2, RootStarts
    <3>4. InRoot(q)
      BY <1>8, <2>1
    <3>5. PICK t \in Nat : t < Capacity(d) /\ q = RecordAt(d, t)
      BY <1>8, <1>9, <3>1, <3>4, RootRecord
    <3>6. Capacity(d) \in Nat
      BY <3>3 DEF Whole
    <3> QED BY <3>2, <3>3, <3>5, <3>6
  <2>2. CASE i # 0
    <3>1. s.file \in Handle /\ \E p \in In[i] : OfEntry(d, p)
      BY <1>3, <1>4, <2>2 DEF Down
    <3>2. ~IsRoot(d)
      BY <1>1, <1>3, <3>1 DEF IsRoot
    <3>3. Starts(d)
      BY <1>1, <1>3, <3>1 DEF Ready
    <3>4. i \in 1 .. Len(path) /\ i + 1 # 1 /\ (i + 1) - 1 = i
      BY <2>2
    <3>5. PICK p \in In[i] : OfEntry(d, p)
      BY <3>1
    <3>6. PICK e \in In[i] : q \in PlacesOf(Entries[e].first)
      BY <1>8, <3>4
    <3>7. p = e
      BY <3>4, OneAt
    <3>8. p \in DOMAIN Entries
      BY <3>4 DEF NamedAt
    <3>9. d.is_dir /\ \E t \in Nat : t < Capacity(d) /\ q = RecordAt(d, t)
      BY <1>8, <1>9, <3>2, <3>5, <3>6, <3>7, <3>8, DirRecord
    <3>10. PICK n : Whole(d, n) /\ Cursor(d) /\ Fresh(d, {}) /\ d.pos = 0
      BY <3>3 DEF Starts, InFile
    <3>11. n = Capacity(d) /\ n \in Nat
      BY <3>2, <3>9, <3>10 DEF Whole
    <3> QED BY <3>9, <3>10, <3>11
  <2> QED BY <2>1, <2>2
<1>11. PICK n \in Nat, t \in Nat :
             /\ t < n /\ q = RecordAt(d, t)
             /\ Whole(d, n) /\ Cursor(d) /\ Fresh(d, {}) /\ d.pos = 0
  BY <1>10
<1>12. HasName(RecordAt(d, t), name)
  BY <1>8, <1>11 DEF HasName
<1>13. found = fat_find_file(d, name, {})
  BY <1>3, <1>5
<1> QED BY ONLY <1>5, <1>11, <1>12, <1>13, SearchFinds, d \in SoundDesc, n \in Nat, t \in Nat

LEMMA EnterFinds ==
    ASSUME NEW path \in Seq(STRING), NEW In, NamedAt(In, path), In[Len(path)] # {},
           NEW s \in Walking, Leads(s, In, path), Ready(s), s.rest # <<>>,
           NEW found, found = fat_find_file(s.fd[s.file], Head(s.rest), {}),
           NEW x, x = Enter(s, found, {})
    PROVE  x \in Walking /\ Leads(x, In, path) /\ Ready(x)
<1>1. /\ ROOT_DIR_HANDLE \notin Handle /\ Null \notin Handle /\ ROOT_DIR_HANDLE # Null
  BY Sizes DEF Handle, ROOT_DIR_HANDLE, Null
<1>2. s.file # Null
  BY <1>1 DEF Ready
<1>3. PICK closed : closed = fat_close([s.fd EXCEPT ![s.file] = found.d], s.file)
  OBVIOUS
<1>4. x \in Walking /\ Freed(s.fd, closed, s.file) /\ Entered(s, x, closed, found.place)
  BY ONLY <1>2, <1>3, EnterIs, s \in Walking, s.rest # <<>>,
          found = fat_find_file(s.fd[s.file], Head(s.rest), {}), x = Enter(s, found, {})
<1>5. Leads(x, In, path)
  BY <1>2, EnterLeads
<1>6. PICK p \in DOMAIN Entries : p = found.place
  BY FindsNext DEF HasName
<1>7. found.place # NoPlace
  <2>1. PICK lba \in Nat \ {0}, a \in {p[1]} : lba = RootLba /\ a = p[1] /\ a >= lba
    BY PlaceAssumption, Sizes, DiskAssumption DEF Lba
  <2>2. NoPlace[1] = 0
    BY DEF NoPlace
  <2> QED BY <1>6, <2>1, <2>2
<1>8. closed \in Descriptors /\ OpenHandles(closed) # Handle
  <2>1. PICK open, h : open = OpenHandles(s.fd) /\ h = s.file
    OBVIOUS
  <2>2. closed \in Descriptors /\ OpenHandles(closed) = open \ {h}
    BY <1>4, <2>1 DEF Freed
  <2>3. h \in Handle \/ (h = ROOT_DIR_HANDLE /\ open # Handle)
    BY <2>1 DEF Ready
  <2>4. open \subseteq Handle
    BY <2>1 DEF OpenHandles
  <2> QED BY ONLY <1>1, <2>2, <2>3, <2>4
<1>9. PICK o : o = fat_open_entry(closed, Entries[p], {})
  OBVIOUS
<1>10. o.file \in Handle
  BY <1>8, <1>9, OpenEntrySucceeds
<1>11. x.file = o.file
  <2>1. x = [fd |-> o.fd, file |-> o.file, rest |-> Tail(s.rest)]
    BY <1>3, <1>6, <1>7, <1>9 DEF Enter
  <2> QED BY ONLY <2>1
<1>12. Starts(x.fd[x.file])
  BY <1>4, <1>10, <1>11, EnteredStarts
<1> QED BY <1>1, <1>4, <1>5, <1>10, <1>11, <1>12 DEF Ready

(* With a handle left and all sectors readable, from the root directory's  *)
(* first sector, what a path names is opened.                              *)
LEMMA OpenFinds ==
    ASSUME NEW f \in Descriptors, AllPlaced(f), OpenHandles(f) # Handle,
           f[ROOT_DIR_HANDLE].pos = 0, f[ROOT_DIR_HANDLE].buffer = RootLba,
           NEW path \in Paths, Named[path] # {},
           NEW o, o = fat_open(f, path, {})
    PROVE  o.file \in Handle
<1>1. PICK In : NamedAt(In, path) /\ In[Len(path)] # {}
  BY NamedIs
<1>2. path \in Seq(STRING) /\ Len(path) \in Nat /\ Len(path) # 0
  BY DiskAssumption, LenProperties, EmptySeq
<1> DEFINE I == {s \in Walking : Leads(s, In, path) /\ Ready(s)}
           init == [fd |-> f, file |-> ROOT_DIR_HANDLE, rest |-> path]
<1>3. init \in I
  <2>1. /\ init \in Walking /\ init.fd = f /\ init.file = ROOT_DIR_HANDLE
        /\ init.rest = path
    BY <1>2 DEF Walking, Desc
  <2>2. /\ 0 \in 0 .. Len(path) /\ Len(path) = Len(path) - 0
        /\ \A j \in 1 .. Len(path) : path[j] = path[0 + j]
    BY <1>2
  <2>3. Down(init, 0, In, path)
    <3> HIDE DEF init
    <3> QED BY <2>1, <2>2 DEF Down
  <2> HIDE DEF init
  <2> QED BY <2>1, <2>2, <2>3 DEF Leads, Ready
<1>4. ASSUME NEW s \in I, s.rest # <<>>, s.file # Null
      PROVE  Enter(s, fat_find_file(s.fd[s.file], Head(s.rest), {}), {}) \in I
  <2>1. PICK found, x : /\ found = fat_find_file(s.fd[s.file], Head(s.rest), {})
                        /\ x = Enter(s, found, {})
    OBVIOUS
  <2>2. s \in Walking /\ Leads(s, In, path) /\ Ready(s) /\ s.rest # <<>>
    BY <1>4
  <2>3. x \in Walking /\ Leads(x, In, path) /\ Ready(x)
    BY ONLY <1>1, <1>2, <2>1, <2>2, EnterFinds
  <2> QED BY <2>1, <2>3
<1>5. PICK s \in I : \/ s.rest = <<>> /\ o = s
                     \/ s.file = Null /\ o.fd = s.fd /\ o.file = Wild
  <2>1. I \subseteq Walking
    OBVIOUS
  <2> HIDE DEF I
  <2> QED BY <1>2, <1>3, <1>4, <2>1, FatOpenKeeps
<1>6. /\ ROOT_DIR_HANDLE \notin Handle /\ Null \notin Handle /\ ROOT_DIR_HANDLE # Null
  BY Sizes DEF Handle, ROOT_DIR_HANDLE, Null
<1>7. Leads(s, In, path) /\ Ready(s)
  OBVIOUS
<1>8. s.file # Null /\ s.rest = <<>> /\ o = s
  BY <1>5, <1>6, <1>7 DEF Ready
<1>9. PICK i \in 0 .. Len(path) : Down(s, i, In, path)
  BY <1>7, <1>8 DEF Leads
<1>10. Len(s.rest) = 0
  BY <1>8
<1>11. i # 0
  BY <1>2, <1>9, <1>10 DEF Down
<1> QED BY <1>8, <1>9, <1>11 DEF Down

-----------------------------------------------------------------------------
(* Between calls the root directory is at its start                        *)

Rests(f) == f[ROOT_DIR_HANDLE].pos = 0

LEMMA CloseRests ==
    ASSUME NEW f \in Descriptors, NEW h \in Desc, h = ROOT_DIR_HANDLE \/ Rests(f),
           NEW x, x = fat_close(f, h)
    PROVE  Rests(x)
<1>1. ROOT_DIR_HANDLE \in Desc /\ f \in [Desc -> SoundDesc]
  BY DEF Desc, Descriptors
<1>2. CASE h = ROOT_DIR_HANDLE
  <2>1. PICK d \in FileDesc : d = f[h]
    BY <1>1 DEF SoundDesc
  <2>2. PICK e : e = [d EXCEPT !.pos = 0]
    OBVIOUS
  <2>3. PICK y : y = [e EXCEPT !.cur_cluster = d.first_cluster]
    OBVIOUS
  <2>4. e \in FileDesc /\ e.pos = 0
    BY <2>2 DEF FileDesc
  <2>5. y.pos = 0
    BY <2>3, <2>4 DEF FileDesc
  <2>6. x[h] = [d EXCEPT !.pos = 0, !.cur_cluster = d.first_cluster]
    BY <1>1, <1>2, <2>1 DEF fat_close
  <2>7. x[h] = y
    BY <2>2, <2>3, <2>6
  <2> QED BY <1>2, <2>5, <2>7 DEF Rests
<1>3. CASE h # ROOT_DIR_HANDLE
  <2>1. x[ROOT_DIR_HANDLE] = f[ROOT_DIR_HANDLE]
    BY <1>1, <1>3, CloseIs
  <2> QED BY <1>3, <2>1 DEF Rests
<1> QED BY <1>2, <1>3

LEMMA HandleRests ==
    ASSUME NEW f \in Descriptors, Rests(f), NEW h \in Handle, NEW e,
           NEW x, x = [f EXCEPT ![h] = e]
    PROVE  Rests(x)
<1>1. h # ROOT_DIR_HANDLE /\ ROOT_DIR_HANDLE \in Desc
  BY Sizes DEF Handle, Desc, ROOT_DIR_HANDLE
<1> QED BY <1>1 DEF Rests, Descriptors

LEMMA OpenRests ==
    ASSUME NEW f \in Descriptors, Rests(f), NEW path \in Seq(STRING), NEW bad,
           NEW o, o = fat_open(f, path, bad)
    PROVE  Rests(o.fd)
<1> DEFINE I == {s \in Walking : Rests(s.fd)}
<1>1. [fd |-> f, file |-> ROOT_DIR_HANDLE, rest |-> path] \in I
  BY DEF Walking, Desc
<1>2. ASSUME NEW s \in I, s.rest # <<>>, s.file # Null
      PROVE  Enter(s, fat_find_file(s.fd[s.file], Head(s.rest), bad), bad) \in I
  <2>1. PICK found, x, closed :
           /\ found = fat_find_file(s.fd[s.file], Head(s.rest), bad)
           /\ x = Enter(s, found, bad)
           /\ closed = fat_close([s.fd EXCEPT ![s.file] = found.d], s.file)
    OBVIOUS
  <2>2. s \in Walking /\ s.fd \in Descriptors /\ s.file \in Desc /\ Rests(s.fd)
    BY <1>2 DEF Walking
  <2>3. /\ x \in Walking /\ Freed(s.fd, closed, s.file)
        /\ Entered(s, x, closed, found.place)
    BY ONLY <1>2, <2>1, <2>2, EnterIs
  <2>4. PICK g : g = [s.fd EXCEPT ![s.file] = found.d]
    OBVIOUS
  <2>5. g \in Descriptors /\ (s.file = ROOT_DIR_HANDLE \/ Rests(g))
    <3>1. s.fd \in [Desc -> SoundDesc] /\ \A k \in Desc : s.fd[k].handle = k
      BY <2>2 DEF Descriptors
    <3>2. found.d \in SoundDesc /\ SameFile(s.fd[s.file], found.d)
      BY <2>1, <2>2, <3>1, FindIs
    <3>3. ROOT_DIR_HANDLE \in Desc
      BY DEF Desc
    <3> QED BY <2>2, <2>4, <3>1, <3>2, <3>3 DEF Descriptors, SameFile, Rests
  <2>6. closed = fat_close(g, s.file)
    BY <2>1, <2>4
  <2>7. Rests(closed) /\ closed \in Descriptors
    BY ONLY <2>2, <2>3, <2>5, <2>6, CloseRests DEF Freed
  <2>8. Rests(x.fd)
    <3>1. CASE x.fd = closed
      BY <2>7, <3>1
    <3>2. CASE x.fd # closed
      <4>1. PICK h \in Handle : \E e : x.fd = [closed EXCEPT ![h] = e]
        BY <2>3, <3>2 DEF Entered
      <4> QED BY ONLY <2>7, <4>1, HandleRests, h \in Handle
    <3> QED BY <3>1, <3>2
  <2> QED BY <2>1, <2>3, <2>8
<1>3. PICK s \in I : \/ s.rest = <<>> /\ o = s
                     \/ s.file = Null /\ o.fd = s.fd /\ o.file = Wild
  <2>1. I \subseteq Walking
    OBVIOUS
  <2> HIDE DEF I
  <2> QED BY <1>1, <1>2, <2>1, FatOpenKeeps
<1> QED BY <1>3

LEMMA RestsStep == FatInv /\ Rests(fd) /\ [Next]_vars => Rests(fd')
<1> SUFFICES ASSUME FatInv, Rests(fd), [Next]_vars PROVE Rests(fd')
  OBVIOUS
<1>1. fd \in Descriptors /\ DOMAIN held \subseteq Handle /\ Handle \subseteq Desc
  BY DEF FatInv, OpenHandles, Desc
<1>2. ASSUME NEW path \in Paths, NEW bad, Open(path, bad) PROVE Rests(fd')
  <2>1. PICK o : o = fat_open(fd, path, bad)
    OBVIOUS
  <2>2. fd' = o.fd
    BY <1>2, <2>1 DEF Open, Returns
  <2>3. path \in Seq(STRING)
    BY DiskAssumption
  <2> QED BY <1>1, <2>1, <2>2, <2>3, OpenRests
<1>3. ASSUME NEW h \in DOMAIN held, NEW n, NEW bad, Read(h, n, bad) PROVE Rests(fd')
  <2>1. PICK e : fd' = [fd EXCEPT ![h] = e]
    BY <1>3 DEF Read, Gives
  <2> QED BY <1>1, <2>1, HandleRests
<1>4. ASSUME NEW h \in DOMAIN held, Close(h) PROVE Rests(fd')
  <2>1. fd' = fat_close(fd, h)
    BY <1>4 DEF Close
  <2> QED BY <1>1, <2>1, CloseRests
<1>5. CASE UNCHANGED vars
  BY <1>5 DEF vars
<1> QED BY <1>2, <1>3, <1>4, <1>5 DEF Next

LEMMA DriverRests == Rests(Driver)
<1>1. ROOT_DIR_HANDLE \in Desc /\ ROOT_DIR_HANDLE \notin Handle
  BY Sizes DEF Handle, Desc, ROOT_DIR_HANDLE
<1>2. PICK size : size = RootSectors * PerSector
  OBVIOUS
<1>3. Driver[ROOT_DIR_HANDLE] =
        [handle |-> ROOT_DIR_HANDLE, opened |-> TRUE, is_dir |-> TRUE, pos |-> 0,
         size |-> size, first_cluster |-> RootLba, cur_cluster |-> RootLba,
         cur_sector_in_cluster |-> 0, buffer |-> RootLba]
  BY <1>1, <1>2 DEF Driver
<1> QED BY <1>3 DEF Rests

LEMMA KernelRests ==
    ASSUME fd \in Descriptors, NEW bad, NEW o, o = KernelOpened(bad)
    PROVE  Rests(o.fd)
<1>1. PICK found : found = fat_find_file(fd[ROOT_DIR_HANDLE], Kernel, bad)
  OBVIOUS
<1>2. PICK f : f = [fd EXCEPT ![ROOT_DIR_HANDLE] = found.d]
  OBVIOUS
<1>3. PICK closed : closed = fat_close(f, ROOT_DIR_HANDLE)
  OBVIOUS
<1>4. ROOT_DIR_HANDLE \in Desc /\ fd \in [Desc -> SoundDesc]
      /\ \A g \in Desc : fd[g].handle = g
  BY DEF Descriptors, Desc
<1>5. /\ found.d \in SoundDesc /\ SameFile(fd[ROOT_DIR_HANDLE], found.d)
      /\ found.place = NoPlace \/ found.place \in DOMAIN Entries
  BY <1>1, <1>4, FindIs
<1>6. f \in Descriptors
  BY <1>2, <1>4, <1>5 DEF Descriptors, SameFile
<1>7. Rests(closed) /\ closed \in Descriptors
  BY <1>3, <1>4, <1>6, CloseRests, CloseIs
<1>8. CASE found.place = NoPlace
  <2>1. o = [fd |-> closed, file |-> Null]
    BY <1>1, <1>2, <1>3, <1>8 DEF KernelOpened, find, close
  <2>2. o.fd = closed
    BY ONLY <2>1
  <2> QED BY <1>7, <2>2
<1>9. CASE found.place # NoPlace
  <2>1. PICK p \in DOMAIN Entries : p = found.place
    BY <1>5, <1>9
  <2>2. o = fat_open_entry(closed, Entries[p], bad)
    BY <1>1, <1>2, <1>3, <1>9, <2>1 DEF KernelOpened, find, close, open_entry
  <2>3. \/ o.fd = closed
        \/ /\ o.file \in Handle
           /\ o.fd = [closed EXCEPT ![o.file] = Opened(o.file, Entries[p])]
    BY <1>7, <2>2, OpenEntryIs
  <2>4. CASE /\ o.file \in Handle
             /\ o.fd = [closed EXCEPT ![o.file] = Opened(o.file, Entries[p])]
    <3>1. PICK h \in Handle : h = o.file
      BY <2>4
    <3>2. PICK e : e = Opened(h, Entries[p])
      OBVIOUS
    <3>3. o.fd = [closed EXCEPT ![h] = e]
      BY <2>4, <3>1, <3>2
    <3> QED BY ONLY <1>7, <3>3, HandleRests, h \in Handle
  <2> QED BY <1>7, <2>3, <2>4
<1> QED BY <1>8, <1>9

(* A driver at rest finds what is there from the first sector.             *)
LEMMA RestsFinds ==
    FatInv /\ Rests(fd) /\ (fd[ROOT_DIR_HANDLE].buffer = RootLba => AllPlaced(fd))
        => FindsFromFirstSector
<1> SUFFICES ASSUME FatInv, Rests(fd), AllPlaced(fd),
                    fd[ROOT_DIR_HANDLE].buffer = RootLba,
                    NEW path \in Paths, Misses(path)
             PROVE  FALSE
  BY DEF FindsFromFirstSector
<1>1. fd \in Descriptors /\ OpenHandles(fd) # Handle
  BY DEF FatInv, Misses
<1>2. PICK o : o = fat_open(fd, path, {})
  OBVIOUS
<1>3. Named[path] # {} /\ o.file \notin Handle
  BY <1>2 DEF Misses
<1> QED BY <1>1, <1>2, <1>3, OpenFinds DEF Rests

BootRests ==
    /\ BootNamed
    /\ Rests(fd)
    /\ fd[ROOT_DIR_HANDLE].buffer = RootLba => AllPlaced(fd)

LEMMA BootRestsStep == BootRests /\ [BNext]_bvars => BootRests'
<1> DEFINE Found(f) == Rests(f) /\ (f[ROOT_DIR_HANDLE].buffer = RootLba => AllPlaced(f))
           Late == {"open", "load", "loaded", "kernel"}
<1> SUFFICES ASSUME BootRests, [BNext]_bvars PROVE Found(fd')
  BY BootNamedStep DEF BootRests, Rests, AllPlaced
<1>1. /\ FatInv /\ Found(fd) /\ Rests(fd)
      /\ phase \in Late => AllPlaced(fd)
  BY DEF BootRests, BootNamed, BootFatInv
<1>2. phase' \in Late => AllPlaced(fd')
  BY BootNamedStep DEF BootRests, BootNamed, AllPlaced
<1>3. ASSUME UNCHANGED vars PROVE Found(fd')
  <2>1. fd' = fd
    BY <1>3 DEF vars
  <2> HIDE DEF Found
  <2> QED BY <1>1, <2>1
<1>4. CASE UNCHANGED bvars
  BY <1>3, <1>4 DEF bvars
<1>5. CASE ReadBootSector \/ ReadTable
  <2>1. UNCHANGED vars
    BY <1>5 DEF ReadBootSector, ReadTable, Stops, Reads
  <2> QED BY <1>3, <2>1
<1>6. CASE ReadRoot
  <2>1. CASE Stops("root")
    BY <1>3, <2>1 DEF Stops
  <2>2. CASE ~Stops("root")
    <3>1. fd' = Driver
      BY <1>6, <2>2 DEF ReadRoot
    <3> QED BY <3>1, DriverPlaced, DriverRests
  <2> QED BY <2>1, <2>2
<1>7. ASSUME NEW bad, OpenKernel(bad) PROVE Found(fd')
  <2>1. PICK o : o = KernelOpened(bad)
    OBVIOUS
  <2>2. fd' = o.fd /\ phase = "open"
    BY <1>7, <2>1 DEF OpenKernel, Returns
  <2>3. AllPlaced(o.fd)
    BY <1>1, <2>1, <2>2, KernelDelivers DEF FatInv
  <2>4. Rests(o.fd)
    BY <1>1, <2>1, KernelRests DEF FatInv
  <2> QED BY <2>2, <2>3, <2>4
<1>8. ASSUME NEW h \in DOMAIN held, NEW bad, Load(h, bad) PROVE Found(fd')
  <2>1. /\ phase' \in Late
        /\ \E e : fd' = [fd EXCEPT ![h] = e]
    BY <1>8 DEF Load, Gives
  <2>2. fd \in Descriptors /\ h \in Handle
    BY <1>1 DEF FatInv, OpenHandles
  <2>3. Rests(fd')
    BY ONLY <1>1, <2>1, <2>2, HandleRests
  <2> QED BY <1>2, <2>1, <2>3
<1>9. ASSUME NEW h \in DOMAIN held, StartKernel(h) PROVE Found(fd')
  <2>1. phase' \in Late /\ fd' = fat_close(fd, h)
    BY <1>9 DEF StartKernel, Close
  <2>2. fd \in Descriptors /\ h \in Desc
    BY <1>1 DEF FatInv, OpenHandles, Desc
  <2>3. Rests(fd')
    BY ONLY <1>1, <2>1, <2>2, CloseRests
  <2> QED BY <1>2, <2>1, <2>3
<1>10. CASE phase = "kernel" /\ Next /\ UNCHANGED boot_vars
  <2>1. phase' \in Late
    BY <1>10 DEF boot_vars
  <2>2. Rests(fd')
    BY <1>1, <1>10, RestsStep
  <2> QED BY <1>2, <2>1, <2>2
<1> HIDE DEF Found
<1> QED BY <1>4, <1>5, <1>6, <1>7, <1>8, <1>9, <1>10 DEF BNext

(* When the root directory's buffer holds its first sector, a search with  *)
(* all sectors readable and a handle left finds what a path names, however *)
(* many calls went before, and failed: fat_close rewinds the root          *)
(* directory whatever became of the search, and nobody else reads it. The  *)
(* buffer is the one thing a search leaves behind (finding fat_root).      *)
THEOREM WhatIsThereIsFound == BSpec => []FindsFromFirstSector
<1>1. BInit => BootRests
  <2> SUFFICES ASSUME BInit PROVE BootRests
    OBVIOUS
  <2>1. BootNamed
    BY BootFatInit DEF BInit, BootNamed, OpensTheNamed
  <2>2. fd[ROOT_DIR_HANDLE] = Unused(ROOT_DIR_HANDLE)
    BY DEF BInit, Desc
  <2>3. PICK d : d = Unused(ROOT_DIR_HANDLE)
    OBVIOUS
  <2>4. d.pos = 0 /\ d.buffer = 0
    BY <2>3 DEF Unused
  <2>5. RootLba # 0
    BY DiskAssumption
  <2> QED BY <2>1, <2>2, <2>3, <2>4, <2>5 DEF BootRests, Rests
<1>2. BootRests => FindsFromFirstSector
  BY RestsFinds DEF BootRests, BootNamed, BootFatInv
<1> QED BY <1>1, <1>2, BootRestsStep, PTL DEF BSpec

(* The same of a kernel that starts on a driver as fat_init leaves it.     *)
THEOREM KernelFindsWhatIsThere == Spec => []FindsFromFirstSector
<1> DEFINE Inv == FatNamed /\ Rests(fd)
<1>1. Init => Inv
  BY FatInit, DriverPlaced, DriverRests DEF Init, FatNamed, OpensTheNamed
<1>2. Inv /\ [Next]_vars => Inv'
  BY NamedStep, RestsStep DEF FatNamed, Rests
<1>3. Inv => FindsFromFirstSector
  BY RestsFinds DEF FatNamed
<1> QED BY <1>1, <1>2, <1>3, PTL DEF Spec

=============================================================================
