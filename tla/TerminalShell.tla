----------------------------- MODULE TerminalShell -----------------------------
(***************************************************************************)
(* What a web socket of the terminal server promises: its shells follow    *)
(* one another, a new one starts only when none is at work.                *)
(***************************************************************************)
EXTENDS Naturals

VARIABLES
  shell,  \* the shell at work, 0 for none
  started \* number of shells so far

vars == <<shell, started>>

Init == shell = 0 /\ started = 0

Start == /\ shell = 0
         /\ started' = started + 1
         /\ shell' = started'

End == shell # 0 /\ shell' = 0 /\ UNCHANGED started

Next == Start \/ End

Spec == Init /\ [][Next]_vars
=============================================================================
