--------------------------- MODULE MCTerminalServer ---------------------------
(***************************************************************************)
(* Instances of TerminalServer for TLC: with and without the races between *)
(* the close of the socket and what the server is waiting for.             *)
(***************************************************************************)
EXTENDS TerminalServer

NoRaces == {}
CloseRace == {"closeDuringKill"}
AllRaces == {"lateAuth", "closeDuringKill"}
=============================================================================
