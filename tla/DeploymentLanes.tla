--------------------------- MODULE DeploymentLanes ---------------------------
(***************************************************************************)
(* What the deployment queue promises: deployments of one application and  *)
(* pull request (a lane) run one at a time, a server runs at most          *)
(* concurrent_builds of them, a deployment is started once, from the       *)
(* queue, and its final status is final.  A deployment that was started or *)
(* written in another way is "irregular": it is bound by nothing, it binds *)
(* no other, and never becomes regular again.  Every step is atomic here;  *)
(* how processes, jobs and table statements bring it about is the business *)
(* of DeploymentQueue, which ways are irregular that of DeploymentRaces.   *)
(***************************************************************************)
EXTENDS Integers, FiniteSets

CONSTANTS
  Deployments, \* identities of deployments
  Rows,        \* their attributes: at least app, lane and server
  Servers,
  Capacity, \* Capacity[s], a positive number: how many s runs at a time
  NoRow

VARIABLES status, row

lanesVars == <<status, row>>

Alive    == {"queued", "in_progress"}
Outcomes == {"finished", "failed", "cancelled"}

LanesTypeOK ==
  /\ status \in [Deployments -> {"none", "irregular"} \cup Alive \cup Outcomes]
  /\ row \in [Deployments -> Rows \cup {NoRow}]

Running == {d \in Deployments : status[d] = "in_progress"}
RunningOn(s) == {d \in Running : row[d].server = s}

LanesInit ==
  /\ status = [d \in Deployments |-> "none"]
  /\ row = [d \in Deployments |-> NoRow]

Submit(d) ==
  /\ status[d] = "none"
  /\ status' = [status EXCEPT ![d] = "queued"]
  /\ \E r \in Rows : row' = [row EXCEPT ![d] = r]

Launch(d) ==
  /\ status[d] = "queued"
  /\ \A e \in Running : row[e].app # row[d].app \/ row[e].lane # row[d].lane
  /\ Cardinality(RunningOn(row[d].server)) < Capacity[row[d].server]
  /\ status' = [status EXCEPT ![d] = "in_progress"]
  /\ UNCHANGED row

Conclude(d) ==
  /\ status[d] = "in_progress"
  /\ \E outcome \in {"finished", "failed"} :
       status' = [status EXCEPT ![d] = outcome]
  /\ UNCHANGED row

(* A user cancels d, or a clean-up declares it failed. *)
Withdraw(d) ==
  /\ status[d] \in Alive
  /\ \E outcome \in {"cancelled", "failed"} :
       status' = [status EXCEPT ![d] = outcome]
  /\ UNCHANGED row

Leave(S) ==
  /\ status' = [d \in Deployments |-> IF d \in S THEN "irregular" ELSE status[d]]
  /\ UNCHANGED row

(* After a restart whatever was alive has failed, or is irregular. *)
StopAll ==
  /\ \E S \in SUBSET Deployments :
       status' = [d \in Deployments |->
                    IF status[d] \notin Alive THEN status[d]
                    ELSE IF d \in S THEN "irregular" ELSE "failed"]
  /\ UNCHANGED row

LanesNext ==
  \/ \E d \in Deployments : Submit(d) \/ Launch(d) \/ Conclude(d) \/ Withdraw(d)
  \/ \E S \in SUBSET Deployments : Leave(S)
  \/ StopAll

LanesSpec == LanesInit /\ [][LanesNext]_lanesVars
=============================================================================
