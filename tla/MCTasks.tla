------------------------------- MODULE MCTasks -------------------------------
(***************************************************************************)
(* The shell and two more task structures: enough for a command with a     *)
(* task in the background, or with a task it waits for, and for structures *)
(* whose addresses are used again by either.                               *)
(***************************************************************************)
EXTENDS Tasks, TLC

\* All addresses but the shell's are alike.
Symmetry == Permutations(Addr \ {Shell})
=============================================================================
