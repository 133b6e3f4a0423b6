------------------------------ MODULE MCStage2 ------------------------------
(***************************************************************************)
(* A disk for Stage2.tla: two sectors of root directory, with "kernel" and *)
(* "dir" in the first; "kernel" over two clusters that do not follow each  *)
(* other, its last sector not full; the directory "dir" of one cluster,    *)
(* with the file "test" in its second sector; "test" ends with its         *)
(* cluster; "none", in the root's second sector, is empty.                 *)
(***************************************************************************)
EXTENDS Stage2

DiskTable == [c \in 0 .. 5 |-> CASE c = 0 -> 4080
                                 [] c = 3 -> 5
                                 [] OTHER -> 4095]

Of(name, is_dir, first, size) ==
    [name |-> name, is_dir |-> is_dir, first |-> first, size |-> size]

DiskEntries == [p \in {<<3, 0>>, <<3, 1>>, <<4, 1>>, <<6, 1>>} |->
    CASE p = <<3, 0>> -> Of("kernel", FALSE, 3, 8)
      [] p = <<3, 1>> -> Of("dir", TRUE, 2, 0)
      [] p = <<4, 1>> -> Of("none", FALSE, 0, 0)
      [] p = <<6, 1>> -> Of("test", FALSE, 4, 6)]

DiskPaths == {<<"kernel">>, <<"none">>, <<"dir", "test">>, <<"dir", "kernel">>}
=============================================================================
