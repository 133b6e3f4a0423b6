------------------------------- MODULE MCFat -------------------------------
(***************************************************************************)
(* A disk for Fat.tla: two sectors of root directory; a directory "dir"    *)
(* over two clusters that do not follow each other, with the file "test"   *)
(* in its second cluster; "test" over two clusters, its last sector not    *)
(* full; "even", in the root's second sector, ends with its cluster;       *)
(* "none" is empty.                                                        *)
(***************************************************************************)
EXTENDS Fat

DiskTable == [c \in 0 .. 6 |-> CASE c = 0 -> 4080
                                 [] c = 1 -> 4095
                                 [] c = 2 -> 4
                                 [] c = 3 -> 5
                                 [] OTHER -> 4095]

Of(name, is_dir, first, size) ==
    [name |-> name, is_dir |-> is_dir, first |-> first, size |-> size]

DiskEntries == [p \in {<<3, 0>>, <<4, 0>>, <<4, 1>>, <<9, 1>>} |->
    CASE p = <<3, 0>> -> Of("dir", TRUE, 2, 0)
      [] p = <<4, 0>> -> Of("even", FALSE, 6, 4)
      [] p = <<4, 1>> -> Of("none", FALSE, 0, 0)
      [] p = <<9, 1>> -> Of("test", FALSE, 3, 7)]

DiskPaths == {<<"even">>, <<"none">>, <<"dir", "test">>, <<"dir", "even">>}
=============================================================================
