-------------------------------- MODULE Fat --------------------------------
(***************************************************************************)
(* The kernel's FAT12 driver (hal/fat.c), one action per call of its       *)
(* interface; the kernel is the only caller and calls do not overlap. Any  *)
(* sector may be unreadable for the length of a call: i686_floppy_read_    *)
(* sector then returns an error after five attempts (Floppy.tla) and has   *)
(* not touched the buffer.                                                 *)
(*                                                                         *)
(* Data is counted in records of the size of a directory entry, and a      *)
(* record is named by its place on the disk, <<sector, index>>. A buffer   *)
(* is named by the sector it holds.                                        *)
(***************************************************************************)
EXTENDS Fat12

CONSTANTS
    MAX_FILE_HANDLE,    \* 10 in the code
    PerSector,          \* records in a sector: 512 / 32 in the code
    cluster_sectors,    \* sectors in a cluster
    RootLba,            \* first sector of the root directory
    RootSectors,        \* and how many there are
    Entries,            \* the disk's directory entries: place -> entry
                        \* (but . and .., which no path names)
    Paths,              \* the paths that are opened, as sequences of names
    MaxRead             \* bound: records asked for in one read

ROOT_DIR_HANDLE == -1
Null == -2                              \* no file
Wild == -3                              \* whatever lies at address 0

Handle == 0 .. MAX_FILE_HANDLE - 1
Desc   == Handle \cup {ROOT_DIR_HANDLE}
Entry  == [name : STRING, is_dir : BOOLEAN, first : Nat, size : Nat]

(* Only an empty file has no cluster; the entry of a directory gives no    *)
(* size; a file fits into its clusters.                                    *)
HasCluster(e) ==
    /\ e.first \in 2 .. LastCluster \/ (e.size = 0 /\ ~e.is_dir)
    /\ e.is_dir => e.size = 0

Room(first) == Len(Chain[first]) * cluster_sectors * PerSector

ASSUME DiskAssumption ==
    /\ MAX_FILE_HANDLE \in Nat /\ PerSector \in Nat \ {0}
    /\ cluster_sectors \in Nat \ {0} /\ RootSectors \in Nat \ {0}
    /\ RootLba \in Nat \ {0} /\ RootLba + RootSectors >= 2 * cluster_sectors
    /\ Entries \in [DOMAIN Entries -> Entry]
    /\ \A p \in DOMAIN Entries :
          HasCluster(Entries[p]) /\ Entries[p].size <= Room(Entries[p].first)
    /\ \A p, q \in DOMAIN Entries :
          Entries[p].first = Entries[q].first =>
              Entries[p].is_dir = Entries[q].is_dir /\ Entries[p].size = Entries[q].size
    /\ Paths \subseteq Seq(STRING) \ {<<>>}
    /\ MaxRead \in Nat

VARIABLES
    fd,         \* g_driver->root_dir and opened_files
    held,       \* history: the handles the callers have, and what each names
    failed,     \* history: those of them a read has failed on
    data,       \* what the last read returned
    wild        \* has a file at address 0 been read?

vars == <<fd, held, failed, data, wild>>

-----------------------------------------------------------------------------
(* The disk                                                                *)

data_lba == RootLba + RootSectors       \* g_data_lba
Lba == RootLba .. data_lba + (LastCluster - 1) * cluster_sectors - 1

cluster_to_lba(c) == data_lba + (c - 2) * cluster_sectors

(* An entry is a record of the disk.                                       *)
ASSUME PlaceAssumption == DOMAIN Entries \subseteq Lba \X (0 .. PerSector - 1)

(* The first cluster is no directory's: stage2.bin is copied to the image  *)
(* first (Makefile:16-20). A search of the root directory that comes to    *)
(* its end leaves that cluster's first sector in the buffer.               *)
ASSUME FirstClusterAssumption == \A p \in DOMAIN Entries : p[1] # data_lba

-----------------------------------------------------------------------------
(* fat_read                                                                *)

FileDesc == [handle : Desc, opened : BOOLEAN, is_dir : BOOLEAN, pos : Nat,
             size : Nat, first_cluster : Nat, cur_cluster : Nat,
             cur_sector_in_cluster : Nat, buffer : Nat]

IsRoot(d) == d.handle = ROOT_DIR_HANDLE

(* The size is not that of a directory (0) whose end has not been seen.    *)
HasSize(d) == ~d.is_dir \/ d.size # 0

(* The number of records that can be asked of the file.                    *)
Clip(d, n) == IF HasSize(d) /\ d.size - d.pos < n THEN d.size - d.pos ELSE n

(* A descriptor that can be read: the root directory has a size, and any   *)
(* other file's place, while there are records left, is in a cluster.      *)
Sound(d) ==
    /\ HasSize(d) => d.pos <= d.size
    /\ IF IsRoot(d) THEN HasSize(d)
       ELSE /\ d.cur_sector_in_cluster < cluster_sectors
            /\ (HasSize(d) /\ d.pos = d.size) \/ d.cur_cluster \in 2 .. LastCluster

SoundDesc == {d \in FileDesc : Sound(d)}

(* A read under way: n records are still to be copied.                     *)
Reading ==
    {r \in [d : SoundDesc, n : Nat, data : Seq(Nat \X Nat), err : BOOLEAN] :
        Clip(r.d, r.n) = r.n}

(* Bug: the count of sectors is not reset in a new cluster.                *)
NextSectorNoReset(d) ==
    IF IsRoot(d) THEN [d EXCEPT !.cur_cluster = @ + 1]
    ELSE IF d.cur_sector_in_cluster + 1 < cluster_sectors
         THEN [d EXCEPT !.cur_sector_in_cluster = @ + 1]
         ELSE [d EXCEPT !.cur_cluster = fat_next_cluster(@)]

NextSector(d) ==
    IF IsRoot(d) THEN [d EXCEPT !.cur_cluster = @ + 1]
    ELSE IF d.cur_sector_in_cluster + 1 < cluster_sectors
         THEN [d EXCEPT !.cur_sector_in_cluster = @ + 1]
         ELSE [d EXCEPT !.cur_sector_in_cluster = 0,
                        !.cur_cluster = fat_next_cluster(@)]

SectorOf(d) ==
    IF IsRoot(d) THEN d.cur_cluster
    ELSE cluster_to_lba(d.cur_cluster) + d.cur_sector_in_cluster

(* A buffer has been read to its end: the next sector is fetched at once.  *)
Fetch(r, d, bad) ==
    IF ~IsRoot(d) /\ d.cur_cluster >= EndOfChain
    THEN [r EXCEPT !.d = [d EXCEPT !.size = d.pos], !.n = 0]
    ELSE IF SectorOf(d) \in bad
    THEN [r EXCEPT !.d = d, !.n = 0, !.err = TRUE]
    ELSE [r EXCEPT !.d = [d EXCEPT !.buffer = SectorOf(d)]]

Refill(r, bad) == Fetch(r, NextSector(r.d), bad)

CopyFromBuffer(r, bad) ==
    LET at   == r.d.pos % PerSector
        left == PerSector - at
        k    == IF r.n <= left THEN r.n ELSE left
        got  == [r EXCEPT !.d.pos = @ + k, !.n = @ - k,
                          !.data = @ \o [i \in 1 .. k |-> <<r.d.buffer, at + i - 1>>]]
    IN  IF k = left THEN Refill(got, bad) ELSE got

fat_read(d, n, bad) ==
    LET Loop[r \in Reading] ==
            IF r.n = 0 THEN r ELSE Loop[CopyFromBuffer(r, bad)]
    IN  Loop[[d |-> d, n |-> Clip(d, n), data |-> <<>>, err |-> FALSE]]

-----------------------------------------------------------------------------
(* fat_open and fat_close                                                  *)

NoPlace == <<0, 0>>

(* Bug: the first entry is taken, whatever its name.                       *)
FindAnyEntry(d, name, bad) ==
    LET Loop[r \in Reading] ==
            IF r.data = <<>> THEN [d |-> r.d, place |-> NoPlace]
            ELSE IF r.data[1] \in DOMAIN Entries
            THEN [d |-> r.d, place |-> r.data[1]]
            ELSE Loop[fat_read(r.d, 1, bad)]
    IN  Loop[fat_read(d, 1, bad)]

fat_find_file(d, name, bad) ==
    LET Loop[r \in Reading] ==
            IF r.data = <<>> THEN [d |-> r.d, place |-> NoPlace]
            ELSE IF r.data[1] \in DOMAIN Entries /\ Entries[r.data[1]].name = name
            THEN [d |-> r.d, place |-> r.data[1]]
            ELSE Loop[fat_read(r.d, 1, bad)]
    IN  Loop[fat_read(d, 1, bad)]

(* A descriptor that is not open; what its other fields are is not kept,   *)
(* since fat_open_entry sets them all before anyone reads them.            *)
Unused(h) ==
    [handle |-> h, opened |-> FALSE, is_dir |-> FALSE, pos |-> 0, size |-> 0,
     first_cluster |-> 0, cur_cluster |-> 0, cur_sector_in_cluster |-> 0,
     buffer |-> 0]

(* Bug: the root directory is not rewound.                                 *)
CloseKeepsPos(f, h) ==
    IF h = ROOT_DIR_HANDLE
    THEN [f EXCEPT ![h].cur_cluster = f[h].first_cluster]
    ELSE [f EXCEPT ![h] = Unused(h)]

(* The buffer of the root directory keeps the sector it has.               *)
fat_close(f, h) ==
    IF h = ROOT_DIR_HANDLE
    THEN [f EXCEPT ![h].pos = 0, ![h].cur_cluster = f[h].first_cluster]
    ELSE [f EXCEPT ![h] = Unused(h)]

Opened(h, e) ==
    [handle |-> h, opened |-> TRUE, is_dir |-> e.is_dir, pos |-> 0,
     size |-> e.size, first_cluster |-> e.first, cur_cluster |-> e.first,
     cur_sector_in_cluster |-> 0, buffer |-> cluster_to_lba(e.first)]

(* Bug: the descriptor is marked open before its first sector is read.     *)
OpenEntryEarly(f, e, bad) ==
    LET free == {h \in Handle : ~f[h].opened}
        h    == CHOOSE g \in free : \A k \in free : g <= k
    IN  IF free = {} THEN [fd |-> f, file |-> Null]
        ELSE [fd   |-> [f EXCEPT ![h] = Opened(h, e)],
              file |-> IF cluster_to_lba(e.first) \in bad THEN Null ELSE h]

fat_open_entry(f, e, bad) ==
    LET free == {h \in Handle : ~f[h].opened}
        h    == CHOOSE g \in free : \A k \in free : g <= k
    IN  IF free = {} \/ cluster_to_lba(e.first) \in bad
        THEN [fd |-> f, file |-> Null]
        ELSE [fd |-> [f EXCEPT ![h] = Opened(h, e)], file |-> h]

(* One name of the path after the other: the directory is searched and     *)
(* closed, and what was found opened. The test for "not a directory"       *)
(* (fat.c:181) is never true: == binds before &.                           *)
Enter(s, found, bad) ==
    LET closed == fat_close([s.fd EXCEPT ![s.file] = found.d], s.file)
        o      == fat_open_entry(closed, Entries[found.place], bad)
    IN  IF found.place = NoPlace THEN [fd |-> closed, file |-> Null, rest |-> <<>>]
        ELSE [fd |-> o.fd, file |-> o.file, rest |-> Tail(s.rest)]

Descriptors == {f \in [Desc -> SoundDesc] : \A h \in Desc : f[h].handle = h}

Walking == [fd : Descriptors, file : Desc \cup {Null}, rest : Seq(STRING)]

(* A file that could not be opened is searched all the same when more      *)
(* names follow.                                                           *)
fat_open(f, path, bad) ==
    LET Loop[s \in Walking] ==
            IF s.rest = <<>> THEN s
            ELSE IF s.file = Null THEN [s EXCEPT !.file = Wild]
            ELSE Loop[Enter(s, fat_find_file(s.fd[s.file], Head(s.rest), bad), bad)]
    IN  Loop[[fd |-> f, file |-> ROOT_DIR_HANDLE, rest |-> path]]

-----------------------------------------------------------------------------

(* As stage 2's fat_init leaves it: the root directory is open, and no     *)
(* other file.                                                             *)
Driver ==
    [h \in Desc |->
        IF h \in Handle THEN Unused(h)
        ELSE [handle |-> h, opened |-> TRUE, is_dir |-> TRUE, pos |-> 0,
              size |-> RootSectors * PerSector,
              first_cluster |-> RootLba, cur_cluster |-> RootLba,
              cur_sector_in_cluster |-> 0, buffer |-> RootLba]]

Init ==
    /\ fd = Driver
    /\ held = [h \in {} |-> <<>>]
    /\ failed = {}
    /\ data = <<>>
    /\ wild = FALSE

(* Bound: at most one sector is unreadable during a call.                  *)
Unreadable == {{}} \cup {{s} : s \in Lba}

(* Bug: the caller takes NULL for a file.                                  *)
ReturnsNull(path, o) ==
    /\ fd' = o.fd
    /\ held' = [h \in DOMAIN held \cup {o.file} |->
                   IF h = o.file THEN path ELSE held[h]]
    /\ wild' = (o.file = Wild)
    /\ data' = <<>>
    /\ UNCHANGED failed

Returns(path, o) ==
    /\ fd' = o.fd
    /\ held' = [h \in DOMAIN held \cup ({o.file} \cap Handle) |->
                   IF h = o.file THEN path ELSE held[h]]
    /\ wild' = (o.file = Wild)
    /\ data' = <<>>
    /\ UNCHANGED failed

Open(path, bad) == ~wild /\ Returns(path, fat_open(fd, path, bad))

Gives(h, r) ==
    /\ fd' = [fd EXCEPT ![h] = r.d]
    /\ data' = r.data
    /\ failed' = IF r.err THEN failed \cup {h} ELSE failed
    /\ UNCHANGED <<held, wild>>

Read(h, n, bad) == ~wild /\ Gives(h, fat_read(fd[h], n, bad))

Close(h) ==
    /\ ~wild
    /\ fd' = fat_close(fd, h)
    /\ held' = [g \in DOMAIN held \ {h} |-> held[g]]
    /\ failed' = failed \ {h}
    /\ data' = <<>>
    /\ UNCHANGED wild

Next ==
    \/ \E path \in Paths, bad \in Unreadable : Open(path, bad)
    \/ \E h \in DOMAIN held, n \in 1 .. MaxRead, bad \in Unreadable : Read(h, n, bad)
    \/ \E h \in DOMAIN held : Close(h)

Spec == Init /\ [][Next]_vars

-----------------------------------------------------------------------------
(* What the disk holds, by its own format and not by the driver            *)

(* The places of a file's records, in order, to the end of its chain.      *)
Records(first) ==
    LET perCluster == cluster_sectors * PerSector
    IN  [i \in 1 .. Len(Chain[first]) * perCluster |->
            LET c == Chain[first][(i - 1) \div perCluster + 1]
                s == ((i - 1) \div PerSector) % cluster_sectors
            IN  <<cluster_to_lba(c) + s, (i - 1) % PerSector>>]

PlacesOf(first) == {Records(first)[i] : i \in DOMAIN Records(first)}

InRoot(p) == p[1] \in RootLba .. data_lba - 1

InSameDirectory(p, q) ==
    \/ InRoot(p) /\ InRoot(q)
    \/ \E d \in DOMAIN Entries :
          {p, q} \subseteq PlacesOf(Entries[d].first)

(* Only directories hold entries, and none holds a name twice.             *)
ASSUME DirectoryAssumption ==
    /\ \A d \in DOMAIN Entries :
          Entries[d].is_dir \/ PlacesOf(Entries[d].first) \cap DOMAIN Entries = {}
    /\ \A p, q \in DOMAIN Entries :
          InSameDirectory(p, q) /\ Entries[p].name = Entries[q].name => p = q

File == {Entries[p].first : p \in DOMAIN Entries}

Contents == [f \in File |->
    LET e == Entries[CHOOSE p \in DOMAIN Entries : Entries[p].first = f]
    IN  IF e.is_dir THEN Records(f) ELSE SubSeq(Records(f), 1, e.size)]

(* The places of the entries a path names: none or one.                    *)
Named == [path \in Paths |->
    LET In[i \in 1 .. Len(path)] ==
            {p \in DOMAIN Entries :
                /\ Entries[p].name = path[i]
                /\ IF i = 1 THEN InRoot(p)
                   ELSE \E d \in In[i - 1] : p \in PlacesOf(Entries[d].first)}
    IN  In[Len(path)]]

-----------------------------------------------------------------------------

TypeOK ==
    /\ fd \in [Desc -> FileDesc]
    /\ \A h \in Desc : fd[h].handle = h
    /\ \A h \in Handle : fd[h].cur_sector_in_cluster < cluster_sectors
    /\ DOMAIN held \subseteq Handle /\ failed \subseteq DOMAIN held
    /\ \A h \in DOMAIN held : held[h] \in Paths
    /\ wild \in BOOLEAN

(* The handles marked open are those the callers have: whatever fails on   *)
(* the way down a path, no handle is lost or given twice (fat_open closes  *)
(* each directory before it opens the next, fat.c:179).                    *)
HandlesAreHeld == {h \in Handle : fd[h].opened} = DOMAIN held

(* A successful fat_open returns the file the path names, whatever could   *)
(* not be read during this call or before; and what a file is does not     *)
(* change while it is open.                                                *)
OpensTheNamed ==
    \A h \in DOMAIN held : \E p \in Named[held[h]] :
        /\ fd[h].first_cluster = Entries[p].first
        /\ fd[h].is_dir = Entries[p].is_dir

(* Would fat_open, with a handle left and all sectors readable, say of a   *)
(* file that is there that it is not?                                      *)
Misses(path) ==
    /\ DOMAIN held # Handle
    /\ Named[path] # {}
    /\ fat_open(fd, path, {}).file \notin Handle

(* It does not when the root directory's buffer holds its first sector.    *)
FindsFromFirstSector ==
    ~wild /\ fd[ROOT_DIR_HANDLE].buffer = RootLba
        => \A path \in Paths : ~Misses(path)

(* "FAT Driver: %s not found." (fat.c:193) is said only of what is not     *)
(* there.                                                                  *)
NotFoundIsAbsent == ~wild => \A path \in Paths : ~Misses(path)

(* The open files as FileReader has them: the place of a file a read has   *)
(* failed on is forgotten.                                                 *)
openFiles ==
    [h \in DOMAIN held |->
        [file |-> fd[h].first_cluster, sound |-> h \notin failed,
         pos |-> IF h \in failed THEN 0 ELSE fd[h].pos]]

(* Every open file is read in order.                                       *)
Reader == INSTANCE FileReader WITH open <- openFiles

ImplementsReader == Reader!Spec
=============================================================================
