------------------------------ MODULE MCTerminal ------------------------------
(***************************************************************************)
(* Both ends of a browser terminal for TLC: a socket of the terminal       *)
(* server and the page.  They are two machines of one run: the first       *)
(* state chooses which one works, the other stays as it is.                *)
(***************************************************************************)
EXTENDS MCTerminalServer, TerminalClient

VARIABLE part

AnyHabit == {"leave"}
allVars == <<part, vars, pageVars>>

BothInit == part \in {"server", "page"} /\ Init /\ PageInit

ServerWorks == part = "server" /\ UNCHANGED <<part, pageVars>>
PageWorks == part = "page" /\ UNCHANGED <<part, vars>>

BothNext == (ServerWorks /\ Next) \/ (PageWorks /\ PageNext)

(* The fairness of each.  Only one works, so a condition of the one and a  *)
(* condition of the other are fair together as they would be apart.        *)
BothFairness ==
  /\ WF_allVars((ServerWorks /\ Drain) \/ (PageWorks /\ Connecting))
  /\ WF_allVars((ServerWorks /\ KillLoop) \/ (PageWorks /\ CloseCompletes))
  /\ WF_allVars((ServerWorks /\ TimerFires) \/ (PageWorks /\ ReconnectTimer))
  /\ WF_allVars((ServerWorks /\ Heartbeat) \/ (PageWorks /\ ResumeTimeout))
  /\ WF_allVars(ServerWorks /\ socket = "failing" /\ SocketCloses)
  /\ \A p \in PtyIds : WF_allVars(ServerWorks /\ p \in told /\ PtyExits(p))

BothSpec == BothInit /\ [][BothNext]_allVars /\ BothFairness

(* What the page promises holds of the runs in which it works. *)
PageComesBack == part = "page" => ComesBack
PageNoticesDeadLine == part = "page" => DeadLineIsNoticed
=============================================================================
