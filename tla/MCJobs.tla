-------------------------------- MODULE MCJobs ---------------------------------
(***************************************************************************)
(* Jobs for TLC: the races in the queue of deployments (DeploymentRaces),  *)
(* what the jobs do to the containers (RollingUpdate), and the jobs of a   *)
(* scheduled task (TaskExecutions).  They are machines of one run: the     *)
(* first state chooses which one works, the others stay as they are.       *)
(***************************************************************************)
EXTENDS MCDeploymentQueue, DeploymentRaces, RollingUpdate, TaskExecutions

VARIABLE part

AnyRollingMishap == {"cancel", "struck", "restart", "effects", "ssh", "force"}
AnyTaskMishap == {"notify", "timeout", "death", "restart", "context"}

allVars == <<part, raceVars, rollingVars, taskVars>>

(* A machine that does not work has one state. *)
JobsInit ==
  /\ part \in {"queue", "rolling", "task"}
  /\ RaceInit /\ TaskInit
  /\ RollingInit /\ (part # "rolling" => mode = "name" /\ checks)

QueueWorks == part = "queue" /\ UNCHANGED <<part, rollingVars, taskVars>>
RollingWorks == part = "rolling" /\ UNCHANGED <<part, raceVars, taskVars>>
TaskWorks == part = "task" /\ UNCHANGED <<part, raceVars, rollingVars>>

JobsNext ==
  \/ QueueWorks /\ RaceNext
  \/ RollingWorks /\ RollingNext
  \/ TaskWorks /\ TaskNext

(* The fairness of RollingUpdate and of TaskExecutions.  Only one of them  *)
(* works, so both are fair together as they would be apart.                *)
JobsSpec ==
  /\ JobsInit /\ [][JobsNext]_allVars
  /\ \A n \in Updates \cup Jobs :
       WF_allVars(\/ RollingWorks /\ n \in Updates /\ Work(n)
                  \/ TaskWorks /\ n \in Jobs /\ TaskProceed(n))
=============================================================================
