----------------------------- MODULE MCConsole -----------------------------
(***************************************************************************)
(* What the shell prints, for Console.tla: a prompt, and an answer that    *)
(* scrolls the screen.                                                     *)
(***************************************************************************)
EXTENDS Console

Answers == {<<Printed>>, <<Printed, Newline, Newline, Newline>>}
=============================================================================
