----------------------------- MODULE FileReader -----------------------------
(***************************************************************************)
(* What the file system promises a caller, without sectors, clusters or    *)
(* buffers: an open file is read from its beginning to its end, nothing    *)
(* skipped and nothing twice, however the reads are cut and whatever other *)
(* files are open. After a sector could not be read the promise ends for   *)
(* the file that needed it. Fat.tla is shown to implement this module.     *)
(***************************************************************************)
EXTENDS Integers, Sequences

CONSTANTS
    Handle,         \* names of open files
    File,           \* the files of the disk
    Contents,       \* the records of each file
    MaxRead         \* bound: the records asked for at once

VARIABLES
    open,           \* for each handle in use: the file, the place, still sound?
    data            \* what the last read returned

vars == <<open, data>>

Init == open = [h \in {} |-> 0] /\ data = <<>>

Open ==
    /\ \E h \in Handle \ DOMAIN open, f \in File :
          open' = [g \in DOMAIN open \cup {h} |->
                      IF g = h THEN [file |-> f, pos |-> 0, sound |-> TRUE]
                               ELSE open[g]]
    /\ data' = <<>>

Refuse == data' = <<>> /\ UNCHANGED open

Rest(h) ==
    SubSeq(Contents[open[h].file], open[h].pos + 1, Len(Contents[open[h].file]))

(* All n records, or all there are.                                        *)
Read(h, n) ==
    LET k == IF n <= Len(Rest(h)) THEN n ELSE Len(Rest(h))
    IN  /\ open[h].sound
        /\ data' = SubSeq(Rest(h), 1, k)
        /\ open' = [open EXCEPT ![h].pos = @ + k]

(* A sector that is needed cannot be read.                                 *)
ReadFails(h) ==
    /\ open[h].sound
    /\ \E k \in 0 .. Len(Rest(h)) : data' = SubSeq(Rest(h), 1, k)
    /\ open' = [open EXCEPT ![h].pos = 0, ![h].sound = FALSE]

(* Nothing is promised of the data once a read has failed.                 *)
ReadLost(h) == ~open[h].sound /\ UNCHANGED open

Close(h) ==
    /\ open' = [g \in DOMAIN open \ {h} |-> open[g]]
    /\ data' = <<>>

Next ==
    \/ Open
    \/ Refuse
    \/ \E h \in DOMAIN open :
          Close(h) \/ ReadFails(h) \/ ReadLost(h)
    \/ \E h \in DOMAIN open, n \in 1 .. MaxRead : Read(h, n)

Spec == Init /\ [][Next]_vars
=============================================================================
