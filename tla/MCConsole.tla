------------------------------ MODULE MCConsole ------------------------------
(* A console for TLC. *)
EXTENDS Console

MCPrompt == <<"$", " ">>

\* What a command prints: it moves the cursor about.
MCOutputs == {<<"o", TAB, BS, "p", CR, "q", LF>>}
=============================================================================
