---------------------------- MODULE TaskExecutions ----------------------------
(***************************************************************************)
(* The jobs of one scheduled task and the rows that tell its user how they *)
(* went (app/Jobs/ScheduledTaskJob.php).  An exception is final, as        *)
(* $maxExceptions is 1; only a job whose worker has died is tried again.   *)
(***************************************************************************)
EXTENDS Naturals, FiniteSets

CONSTANTS
  Tries,          \* $tries
  MaxJobs,        \* bound: jobs
  MaxTaskMishaps, \* bound: mishaps
  TaskMishaps     \* which of "notify", "timeout", "death", "restart", "context"

ASSUME TaskBounds == Tries \in Nat \ {0} /\ MaxJobs \in Nat

Jobs == 1..MaxJobs
TaskRows == 1..(MaxJobs * Tries)

VARIABLES
  state, \* of a job in Redis
  attempts,
  at,         \* where its worker is in handle() or failed()
  own,        \* the row of its worker, 0 for none
  rowStatus,  \* column of a row, "none" before it exists
  finished,   \* finished_at is set
  outcome,    \* what the command of a row's attempt did, "none" if it did not run
  owner,      \* the job of a row
  jobFate,    \* history: mishaps of a job, "crossed" by another at work
  taskMishaps \* number of mishaps so far

redis  == <<state, attempts>>
worker == <<at, own>>
table  == <<rowStatus, finished, outcome, owner>>
luck   == <<jobFate, taskMishaps>>
taskVars   == <<redis, worker, table, luck>>

States == {"none", "queued", "reserved", "done"}
Places == {"idle", "create", "command", "record", "notify", "catch",
           "finallyOk", "finallyFailed", "failing", "expired"}
RowStatuses == {"none", "running", "success", "failed"}

TaskTypeOK ==
  /\ state \in [Jobs -> States] /\ attempts \in [Jobs -> Nat]
  /\ at \in [Jobs -> Places] /\ own \in [Jobs -> TaskRows \cup {0}]
  /\ rowStatus \in [TaskRows -> RowStatuses] /\ finished \in [TaskRows -> BOOLEAN]
  /\ outcome \in [TaskRows -> {"none", "ok", "error"}]
  /\ owner \in [TaskRows -> Jobs \cup {0}]
  /\ jobFate \in [Jobs -> SUBSET (TaskMishaps \cup {"crossed"})] /\ taskMishaps \in Nat

TaskInit ==
  /\ state = [j \in Jobs |-> "none"] /\ attempts = [j \in Jobs |-> 0]
  /\ at = [j \in Jobs |-> "idle"] /\ own = [j \in Jobs |-> 0]
  /\ rowStatus = [r \in TaskRows |-> "none"] /\ finished = [r \in TaskRows |-> FALSE]
  /\ outcome = [r \in TaskRows |-> "none"] /\ owner = [r \in TaskRows |-> 0]
  /\ jobFate = [j \in Jobs |-> {}] /\ taskMishaps = 0

Move(j, place) == at' = [at EXCEPT ![j] = place]
Leave(j, s) ==
  /\ Move(j, "idle") /\ own' = [own EXCEPT ![j] = 0]
  /\ state' = [state EXCEPT ![j] = s]

AfflictJobs(struck, what) ==
  jobFate' = [j \in Jobs |-> jobFate[j] \cup IF j \in struck THEN {what} ELSE {}]

StrikeJobs(mishap, struck) ==
  /\ mishap \in TaskMishaps /\ taskMishaps < MaxTaskMishaps
  /\ taskMishaps' = taskMishaps + 1 /\ AfflictJobs(struck, mishap)

CreatedRows == {r \in TaskRows : rowStatus[r] # "none"}
Latest == Cardinality(CreatedRows)    \* rows are created in this order

WorkingJobs == {j \in Jobs : at[j] # "idle"}

----------------------------------------------------------------------------
(* ScheduledJobManager dispatches the task. *)
DispatchTask(j) ==
  /\ state[j] = "none" /\ \A i \in 1..(j - 1) : state[i] # "none"
  /\ state' = [state EXCEPT ![j] = "queued"]
  /\ UNCHANGED <<attempts, worker, table, luck>>

(* A worker takes the job; too many attempts fail without handle(). *)
Take(j) ==
  /\ state[j] = "queued"
  /\ state' = [state EXCEPT ![j] = "reserved"]
  /\ attempts' = [attempts EXCEPT ![j] = @ + 1]
  /\ Move(j, IF attempts[j] < Tries THEN "create" ELSE "expired")
  /\ AfflictJobs(IF WorkingJobs = {} THEN {} ELSE WorkingJobs \cup {j}, "crossed")
  /\ UNCHANGED <<own, table, taskMishaps>>

Create(j) ==
  /\ at[j] = "create"
  /\ LET r == Latest + 1 IN
       /\ rowStatus' = [rowStatus EXCEPT ![r] = "running"]
       /\ owner' = [owner EXCEPT ![r] = j]
       /\ own' = [own EXCEPT ![j] = r]
  /\ Move(j, "command")
  /\ UNCHANGED <<redis, finished, outcome, luck>>

(* The resource, its server or the team is gone: no row is created. *)
ContextFails(j) ==
  /\ at[j] = "create" /\ StrikeJobs("context", {j})
  /\ Move(j, "failing")
  /\ UNCHANGED <<redis, own, table>>

(* Mutant: an error of the command is not thrown. *)
CommandWithoutThrow(j) ==
  /\ at[j] = "command"
  /\ \E out \in {"ok", "error"} :
       /\ outcome' = [outcome EXCEPT ![own[j]] = out]
       /\ Move(j, "record")
  /\ UNCHANGED <<redis, own, rowStatus, finished, owner, luck>>

(* docker exec succeeds or fails; not finding a container is an error. *)
Command(j) ==
  /\ at[j] = "command"
  /\ \E out \in {"ok", "error"} :
       /\ outcome' = [outcome EXCEPT ![own[j]] = out]
       /\ Move(j, IF out = "ok" THEN "record" ELSE "catch")
  /\ UNCHANGED <<redis, own, rowStatus, finished, owner, luck>>

Record(j) ==
  /\ at[j] = "record"
  /\ rowStatus' = [rowStatus EXCEPT ![own[j]] = "success"]
  /\ Move(j, "notify")
  /\ UNCHANGED <<redis, own, finished, outcome, owner, luck>>

Notify(j) ==
  /\ at[j] = "notify"
  /\ Move(j, "finallyOk")
  /\ UNCHANGED <<redis, own, table, luck>>

(* The exception of a notification is one of the task. *)
NotifyThrows(j) ==
  /\ at[j] = "notify" /\ StrikeJobs("notify", {j})
  /\ Move(j, "catch")
  /\ UNCHANGED <<redis, own, table>>

Catch(j) ==
  /\ at[j] = "catch"
  /\ rowStatus' = [rowStatus EXCEPT ![own[j]] = "failed"]
  /\ Move(j, "finallyFailed")
  /\ UNCHANGED <<redis, own, finished, outcome, owner, luck>>

Finally(j) ==
  /\ at[j] \in {"finallyOk", "finallyFailed"}
  /\ finished' = [finished EXCEPT ![own[j]] = TRUE]
  /\ IF at[j] = "finallyOk"
     THEN Leave(j, "done")
     ELSE Move(j, "failing") /\ UNCHANGED <<state, own>>
  /\ UNCHANGED <<attempts, rowStatus, outcome, owner, luck>>

(* Broadcasting the event comes first, and may throw. *)
FinallyThrows(j) ==
  /\ at[j] \in {"finallyOk", "finallyFailed"} /\ StrikeJobs("notify", {j})
  /\ Move(j, "failing")
  /\ UNCHANGED <<redis, own, table>>

(* Mutant: a failed job is put back while it has tries left. *)
FailedRetries(j) ==
  /\ at[j] \in {"failing", "expired"}
  /\ Leave(j, IF attempts[j] < Tries THEN "queued" ELSE "done")
  /\ UNCHANGED <<attempts, table, luck>>

(* failed().  In a new process, after a timeout and always when the job    *)
(* was unserialised again, the row is not known: the latest row of the     *)
(* task is taken for it.                                                   *)
Failed(j) ==
  /\ at[j] \in {"failing", "expired"}
  /\ \E r \in {Latest} \cup IF at[j] = "failing" /\ own[j] # 0 THEN {own[j]} ELSE {} :
       IF r = 0 THEN UNCHANGED <<rowStatus, finished>>
       ELSE /\ rowStatus' = [rowStatus EXCEPT ![r] = "failed"]
            /\ finished' = [finished EXCEPT ![r] = TRUE]
  /\ Leave(j, "done")
  /\ UNCHANGED <<attempts, outcome, owner, luck>>

----------------------------------------------------------------------------
(* Mishaps *)

(* $timeout strikes while the command is at work on the server. *)
TaskTimeout(j) ==
  /\ at[j] = "command" /\ StrikeJobs("timeout", {j})
  /\ \E out \in {"ok", "error"} :
       outcome' = [outcome EXCEPT ![own[j]] = out]
  /\ Move(j, "expired")
  /\ UNCHANGED <<redis, own, rowStatus, finished, owner>>

(* The worker is killed; Redis offers the job again (retry_after). *)
WorkerDies(j) ==
  /\ j \in WorkingJobs /\ StrikeJobs("death", {j})
  /\ Leave(j, "queued")
  /\ UNCHANGED <<attempts, table>>

(* Mutant: the rows of the workers that died are left as they are. *)
RestartOnly ==
  /\ StrikeJobs("restart", WorkingJobs)
  /\ at' = [j \in Jobs |-> "idle"] /\ own' = [j \in Jobs |-> 0]
  /\ state' = [j \in Jobs |-> IF j \in WorkingJobs THEN "queued" ELSE state[j]]
  /\ UNCHANGED <<attempts, table>>

(* Coolify restarts: app:init marks the rows that run as failed. *)
TaskRestart ==
  /\ StrikeJobs("restart", WorkingJobs)
  /\ at' = [j \in Jobs |-> "idle"] /\ own' = [j \in Jobs |-> 0]
  /\ state' = [j \in Jobs |-> IF j \in WorkingJobs THEN "queued" ELSE state[j]]
  /\ rowStatus' = [r \in TaskRows |-> IF rowStatus[r] = "running" THEN "failed" ELSE rowStatus[r]]
  /\ finished' = [r \in TaskRows |-> finished[r] \/ rowStatus[r] = "running"]
  /\ UNCHANGED <<attempts, outcome, owner>>

TaskWork(j) == \/ Create(j) \/ Command(j) \/ Record(j) \/ Notify(j) \/ Catch(j)
               \/ Finally(j) \/ Failed(j)

TaskNext ==
  \/ \E j \in Jobs :
       \/ DispatchTask(j) \/ Take(j)
       \/ Create(j) \/ Command(j) \/ Record(j) \/ Notify(j) \/ Catch(j)
       \/ Finally(j) \/ Failed(j)
       \/ ContextFails(j) \/ NotifyThrows(j) \/ FinallyThrows(j)
       \/ TaskTimeout(j) \/ WorkerDies(j)
  \/ TaskRestart

TaskSpec == TaskInit /\ [][TaskNext]_taskVars

(* A worker that lives goes on, and workers take what is queued.           *)
TaskProceed(j) == Take(j) \/ TaskWork(j)
TaskFairness == \A j \in Jobs : WF_taskVars(TaskProceed(j))

TaskFairSpec == TaskSpec /\ TaskFairness

----------------------------------------------------------------------------
(* Properties *)

(* A finished row says what the command did.  It says "failed" of a        *)
(* command that has succeeded only when a mishap has struck its job,       *)
(* another job was at work with it, or a job failed without a row of its   *)
(* own and took this one for it.                                           *)
RowOf(j) == {r \in TaskRows : owner[r] = j}
Misled(r) ==
  \/ jobFate[owner[r]] # {}
  \/ \E j \in Jobs : jobFate[j] # {} /\ Cardinality(RowOf(j)) < attempts[j]

RowTellsOutcome ==
  \A r \in TaskRows :
    /\ rowStatus[r] = "success" => outcome[r] = "ok"
    /\ finished[r] /\ outcome[r] = "ok" => rowStatus[r] = "success" \/ Misled(r)

(* A command, which need not be idempotent, runs once for each job, and    *)
(* more often only after its worker has died: neither a failed command nor *)
(* a timeout nor a notification that throws runs it again.                 *)
Ran(j) == {r \in RowOf(j) : outcome[r] # "none"}
RunsOnce ==
  \A j \in Jobs :
    Cardinality(Ran(j)) > 1 => jobFate[j] \cap {"death", "restart"} # {}

(* A row that says "running" has a worker that will end it; else the       *)
(* worker died, or timed out when another job had the latest row.  After a *)
(* restart no row of a former worker says "running".                       *)
RunningHasWorker ==
  \A r \in TaskRows : rowStatus[r] = "running" =>
    \/ \E j \in WorkingJobs : own[j] = r
    \/ "death" \in jobFate[owner[r]]
    \/ {"timeout", "crossed"} \subseteq jobFate[owner[r]]

(* Every execution ends, whatever its command does and also after a        *)
(* timeout or an exception, unless its worker dies or two jobs cross.  As  *)
(* jobs are bounded, there comes a time when all have ended.               *)
Hangs(r) ==
  /\ rowStatus[r] = "running" /\ ~finished[r]
  /\ jobFate[owner[r]] \cap {"death", "restart", "crossed"} = {}
ExecutionEnds == []<>(\A r \in TaskRows : ~Hangs(r))
=============================================================================
