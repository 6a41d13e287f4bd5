--------------------------- MODULE MCQueueAndBackups ---------------------------
(***************************************************************************)
(* What ends, for TLC: the queue of deployments (DeploymentQueue) and the  *)
(* backups of databases (DatabaseBackups).  They are machines of one run:  *)
(* the first state chooses which one works, the other stays as it is.      *)
(***************************************************************************)
EXTENDS MCDeploymentQueue, DatabaseBackups

VARIABLE part

(* The server keeps one backup and S3 two, or fewer by age and size. *)
OneLocallyTwoInS3 == [x \in {"local", "s3"} |-> IF x = "local" THEN 1 ELSE 2]

allVars == <<part, vars, backupVars>>

(* A machine that does not work has one state. *)
BothInit ==
  /\ part \in {"queue", "backups"}
  /\ Init
  /\ BackupInit /\ (part # "backups" => saves /\ ~onlyS3)

QueueWorks == part = "queue" /\ UNCHANGED <<part, backupVars>>
BackupsWork == part = "backups" /\ UNCHANGED <<part, vars>>

BothNext == (QueueWorks /\ Next) \/ (BackupsWork /\ BackupNext)

(* The fairness of each.  Only one works, so a condition of the one and a  *)
(* condition of the other are fair together as they would be apart.        *)
BothFairness ==
  /\ \A p \in Requests :
       WF_allVars(\/ QueueWorks /\ Proceed(p)
                  \/ BackupsWork /\ LockExpires)
  /\ \A p \in Workers, j \in Jobs :
       WF_allVars(\/ QueueWorks /\ Proceed(p)
                  \/ BackupsWork /\ BackupProceeds(j))
  /\ \A p \in Workers :
       WF_allVars(\/ QueueWorks /\ WorkerStep(p)
                  \/ BackupsWork /\ \E r \in BackupRows : Age(r))

BothSpec == BothInit /\ [][BothNext]_allVars /\ BothFairness
=============================================================================
