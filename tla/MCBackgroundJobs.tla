--------------------------- MODULE MCBackgroundJobs ----------------------------
(***************************************************************************)
(* Background work for TLC: the scheduled job manager (ScheduledJobs), the *)
(* updates of an application's status (StatusUpdates), and the checks of a *)
(* server (ServerReachability).  They are machines of one run: the first   *)
(* state chooses which one works, the others stay as they are.             *)
(***************************************************************************)
EXTENDS MCScheduledJobs, StatusUpdates, ServerReachability

VARIABLE part

AnyServerMishap == {"timeout", "slowCheck", "death"}

allVars == <<part, vars, statusVars, serverVars>>

(* A machine that does not work has one state. *)
BackgroundInit ==
  /\ part \in {"manager", "status", "server"}
  /\ Init /\ (part # "manager" => kind = "task")
  /\ StatusInit
  /\ ServerInit /\ (part # "server" => sentinel)

ManagerWorks == part = "manager" /\ UNCHANGED <<part, statusVars, serverVars>>
StatusWorks == part = "status" /\ UNCHANGED <<part, vars, serverVars>>
ServerWorks == part = "server" /\ UNCHANGED <<part, vars, statusVars>>

BackgroundNext ==
  \/ ManagerWorks /\ Next
  \/ StatusWorks /\ StatusNext
  \/ ServerWorks /\ ServerNext

(* The fairness of each.  Only one works, so conditions of different       *)
(* machines are fair together as they would be apart.                      *)
BackgroundFairness ==
  /\ WF_allVars(  \/ ManagerWorks /\ Tick
                  \/ StatusWorks /\ SentinelPushes
                  \/ ServerWorks /\ Push)
  /\ WF_allVars(  \/ ManagerWorks /\ Schedule
                  \/ StatusWorks /\ ForceWindowEnds
                  \/ ServerWorks /\ Silence)
  /\ WF_allVars(  \/ ManagerWorks /\ ServerRecovers
                  \/ StatusWorks /\ StatusLockExpires
                  \/ ServerWorks /\ CheckProceeds("connection"))
  /\ WF_allVars(  \/ ManagerWorks /\ LockExpires
                  \/ StatusWorks /\ Receives
                  \/ ServerWorks /\ CheckProceeds("check"))
  /\ WF_allVars(  \/ ManagerWorks /\ \E m \in Managers : Begin(m)
                  \/ StatusWorks /\ Takes)
  /\ \A m \in Managers : WF_allVars(ManagerWorks /\ ManagerStep(m))
  /\ WF_allVars(StatusWorks /\ Writes)
  /\ WF_allVars(StatusWorks /\ Refreshes)

BackgroundSpec == BackgroundInit /\ [][BackgroundNext]_allVars /\ BackgroundFairness
=============================================================================
