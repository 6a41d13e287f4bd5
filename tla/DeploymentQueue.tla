--------------------------- MODULE DeploymentQueue ---------------------------
(***************************************************************************)
(* The application deployment queue: the rows of the table                 *)
(* application_deployment_queues, the web requests that create, cancel and *)
(* force-start them, and the Horizon workers that run                      *)
(* ApplicationDeploymentJob.  Nothing in the code takes a lock: admission, *)
(* "is there room for this deployment" and the status write are separate   *)
(* statements, and every process interleaves with every other one between  *)
(* two of them.                                                            *)
(*                                                                         *)
(* One process is one PHP request or one Horizon worker.  A step is one    *)
(* database statement (or several adjacent reads), or one Redis push.      *)
(***************************************************************************)
EXTENDS Integers, FiniteSets

CONSTANTS
  Apps,             \* applications
  Servers,          \* servers
  Lanes,            \* pull request ids; 0 is the normal deployment
  Commits,          \* commits
  HeadCommit,       \* the application's own git_commit_sha
  Home,             \* Home[a]: server of a's destination
  Extra,            \* Extra[a]: servers of a's additional destinations
  ConcurrentBuilds, \* ConcurrentBuilds[s]: settings->concurrent_builds
  QueueLimit,       \* QueueLimit[s]: settings->deployment_queue_limit
  BuildServerApps,  \* applications with settings.is_build_server_enabled
  Requests,         \* web requests (and console commands) at work
  Workers,          \* Horizon processes of the deployment queue
  Deploys,          \* the deployments a user may ask for
  NoRow             \* content of a row that is not there

CONSTANTS           \* which of the program's users and mishaps take part
  UiCancel,       \* the cancel button of the deployment page
  StalePages,     \* that page may be older than the row it shows
  ApiCancel,      \* the API's cancel endpoint
  PreviewCleanup, \* a pull request is closed
  AdminCleanup,   \* the console command check:deployment-queue
  ForceStart,     \* the "force start" button
  MayBreak,       \* applications that may turn undeployable while queued

  Mishaps, \* which of "effects", "timeout", "death", "restart"

  MaxDeployments, \* bound: rows ever created
  MaxCopies,      \* bound: pending jobs of a row a force start adds to
  MaxFaults       \* bound: mishaps in a behaviour

D == 1..MaxDeployments       \* primary keys, in order of created_at
Procs == Requests \cup Workers

Rows == [app: Apps, lane: Lanes, server: Servers, commit: Commits,
         force: BOOLEAN, instant: BOOLEAN, only: BOOLEAN]

ASSUME TopologyAssumption ==
  /\ Servers # {}
  /\ Home \in [Apps -> Servers]
  /\ Extra \in [Apps -> SUBSET Servers]
  /\ ConcurrentBuilds \in [Servers -> Nat \ {0}]
  /\ QueueLimit \in [Servers -> Nat]
  /\ Deploys \subseteq Rows
  /\ 0 \in Lanes /\ HeadCommit \in Commits
  /\ BuildServerApps \subseteq Apps /\ MayBreak \subseteq Apps

ASSUME ProcessAssumption ==
  /\ IsFiniteSet(Procs)
  /\ Requests # {} /\ Requests \cap Workers = {}
  /\ NoRow \notin Rows

ASSUME SwitchAssumption ==
  {UiCancel, StalePages, ApiCancel, PreviewCleanup, AdminCleanup, ForceStart}
    \subseteq BOOLEAN

ASSUME BoundAssumption ==
  /\ MaxDeployments \in Nat \ {0}
  /\ MaxCopies \in Nat
  /\ MaxFaults \in Nat

VARIABLES
  status,   \* status[d]: the column "status"; "none" before the row exists
  row,      \* row[d]: the columns written at creation, never changed
  pending,  \* pending[d]: jobs of row d in the Redis queue
  reserved, \* reserved[d]: jobs of row d whose worker died, until Redis
            \* hands them out again (retry_after)
  proc,     \* proc[p]: local state of a request or worker
  usable,   \* applications whose job constructor succeeds
  orphans,  \* history: in-progress rows whose driver died or never came
  faults    \* number of mishaps so far

vars == <<status, row, pending, reserved, proc, usable, orphans, faults>>

Active   == {"queued", "in_progress"}
Closed   == {"finished", "failed"}
Statuses == Active \cup Closed \cup {"cancelled", "none"}

(***************************************************************************)
(* Local state: pc; the deployment whose job a worker runs; the deployment *)
(* in hand and those still to be looked at; the row about to be inserted;  *)
(* the additional servers still to be served; the status about to be       *)
(* written (or last read, at "mark"); the server to be scanned next; where *)
(* to go when the scan ends; whether failed() is running.  0: none.        *)
(***************************************************************************)
PCs == {"idle", "insert", "scan", "start", "dispatch", "snapshot",
        "apicancel", "sweep", "mark", "run", "settle", "close", "effects"}

LocalState ==
  [pc: PCs, job: D \cup {0}, cur: D \cup {0}, todo: SUBSET D,
   req: Rows \cup {NoRow}, fan: SUBSET Servers, hold: Statuses,
   srv: Servers, back: {"idle", "effects", "settle"}, failed: BOOLEAN]

AnyServer == CHOOSE s \in Servers : TRUE

(* A process with nothing in hand but, perhaps, the job of row d.          *)
Frame(pc, d, outcome, failing) ==
  [pc |-> pc, job |-> d, cur |-> 0, todo |-> {}, req |-> NoRow, fan |-> {},
   hold |-> outcome, srv |-> AnyServer, back |-> "idle", failed |-> failing]

IdleProc == Frame("idle", 0, "none", FALSE)
FailedProc(d) == Frame("settle", d, "failed", TRUE)

TypeOK ==
  /\ status \in [D -> Statuses]
  /\ row \in [D -> Rows \cup {NoRow}]
  /\ pending \in [D -> Nat] /\ reserved \in [D -> Nat]
  /\ proc \in [Procs -> LocalState]
  /\ usable \in SUBSET Apps /\ orphans \in SUBSET D
  /\ faults \in 0..MaxFaults

Init ==
  /\ status = [d \in D |-> "none"]
  /\ row = [d \in D |-> NoRow]
  /\ pending = [d \in D |-> 0] /\ reserved = [d \in D |-> 0]
  /\ proc = [p \in Procs |-> IdleProc]
  /\ usable = Apps /\ orphans = {} /\ faults = 0

----------------------------------------------------------------------------
(* What the helpers read from the table. *)

Created == {d \in D : status[d] # "none"}
InState(st) == {d \in D : status[d] = st}

(* Mutant: one row too many is admitted. *)
QueueFullOffByOne(s) ==
  Cardinality({d \in InState("queued") : row[d].server = s}) > QueueLimit[s]

QueueFull(s) ==
  Cardinality({d \in InState("queued") : row[d].server = s}) >= QueueLimit[s]

ExistingDeployment(r) ==
  \E d \in Created : /\ status[d] \in Active
                     /\ row[d].app = r.app
                     /\ row[d].lane = r.lane
                     /\ row[d].commit = r.commit

(* queue_application_deployment() goes on to create the row.  force stands *)
(* for force_rebuild and rollback, instant for no_questions_asked.         *)
Admit(r) ==
  /\ ~QueueFull(r.server)
  /\ r.force \/ r.instant \/ ~ExistingDeployment(r)

LaneBusy(r) ==
  \E d \in InState("in_progress") : row[d].app = r.app /\ row[d].lane = r.lane

ActiveOn(s) == {d \in InState("in_progress") : row[d].server = s}

(* Mutant: the lane is not looked at. *)
NextQueuableNoLane(r) == Cardinality(ActiveOn(r.server)) < ConcurrentBuilds[r.server]

NextQueuable(r) ==
  /\ ~LaneBusy(r)
  /\ Cardinality(ActiveOn(r.server)) < ConcurrentBuilds[r.server]

----------------------------------------------------------------------------
(* Process bookkeeping. *)

At(p, pc) == proc[p].pc = pc

Begin(p) == At(p, "idle")

Go(p, new) == proc' = [proc EXCEPT ![p] = new]

Idle(p) == Go(p, IdleProc)

(* Bound: there is an id left for one more row.                            *)
Room == Cardinality(Created) + Cardinality({q \in Procs : At(q, "insert")})
          < MaxDeployments

(* Orphaned rows: those of S that would be left in progress. *)
Orphaned(S) == {d \in S \cap D : status[d] = "in_progress"}

(* An exception or a timeout inside handle(): failed() will be called. *)
FailJob(p, d) == Go(p, FailedProc(d))

InHandle(p) == p \in Workers /\ ~At(p, "idle") /\ ~proc[p].failed

----------------------------------------------------------------------------
(* queue_application_deployment(): the checks, the INSERT, then either the *)
(* immediate start or a look at next_queuable() for the one new row.       *)

RequestDeploy(p) ==
  /\ Begin(p) /\ Room
  /\ \E r \in Deploys :
       /\ Admit(r)
       /\ Go(p, [proc[p] EXCEPT !.pc = "insert", !.req = r])
  /\ UNCHANGED <<status, row, pending, reserved, usable, orphans, faults>>

Insert(p) ==
  /\ At(p, "insert")
  /\ \E d \in D \ Created :
       /\ \A e \in D : e < d => e \in Created
       /\ status' = [status EXCEPT ![d] = "queued"]
       /\ row' = [row EXCEPT ![d] = proc[p].req]
       /\ IF proc[p].req.instant
          THEN Go(p, [proc[p] EXCEPT !.pc = "start", !.cur = d,
                                    !.req = NoRow])
          ELSE Go(p, [proc[p] EXCEPT !.pc = "scan", !.todo = {d},
                                    !.req = NoRow])
  /\ UNCHANGED <<pending, reserved, usable, orphans, faults>>

(* queue_next_deployment() and next_after_cancel(): read the queued rows   *)
(* of one server; the rows are not read again before they are written.     *)
Snapshot(p) ==
  /\ At(p, "snapshot")
  /\ Go(p, [proc[p] EXCEPT
                !.pc = "scan",
                !.todo = {d \in InState("queued") :
                               row[d].server = proc[p].srv}])
  /\ UNCHANGED <<status, row, pending, reserved, usable, orphans, faults>>

(* The loop body: the oldest row of the snapshot, if it may run, is picked. *)
Scan(p) ==
  /\ At(p, "scan")
  /\ \E d \in proc[p].todo :
       /\ \A e \in proc[p].todo : d =< e
       /\ IF NextQueuable(row[d])
          THEN Go(p, [proc[p] EXCEPT !.pc = "start", !.cur = d,
                                    !.todo = @ \ {d}])
          ELSE Go(p, [proc[p] EXCEPT !.todo = @ \ {d}])
  /\ UNCHANGED <<status, row, pending, reserved, usable, orphans, faults>>

ScanEnd(p) ==
  /\ At(p, "scan") /\ proc[p].todo = {}
  /\ IF proc[p].back = "idle"
     THEN Idle(p)
     ELSE Go(p, [proc[p] EXCEPT !.pc = proc[p].back, !.cur = 0,
                               !.back = "idle"])
  /\ UNCHANGED <<status, row, pending, reserved, usable, orphans, faults>>

(* Mutant: the job is dispatched, the row left queued. *)
StartWithoutStatus(p) ==
  /\ At(p, "start")
  /\ Go(p, [proc[p] EXCEPT !.pc = "dispatch"])
  /\ UNCHANGED <<status, row, pending, reserved, usable, orphans, faults>>

(* $next_deployment->update(...): whatever the row says by now, it is      *)
(* overwritten; then ApplicationDeploymentJob::dispatch().                 *)
Start(p) ==
  /\ At(p, "start")
  /\ status' = [status EXCEPT ![proc[p].cur] = "in_progress"]
  /\ Go(p, [proc[p] EXCEPT !.pc = "dispatch"])
  /\ UNCHANGED <<row, pending, reserved, usable, orphans, faults>>

Dispatch(p) ==
  /\ At(p, "dispatch")
  /\ row[proc[p].cur].app \in usable
  /\ pending' = [pending EXCEPT ![proc[p].cur] = @ + 1]
  /\ orphans' = orphans \ {proc[p].cur}
  /\ Go(p, [proc[p] EXCEPT !.pc = "scan", !.cur = 0])
  /\ UNCHANGED <<status, row, reserved, usable, faults>>

(* The constructor runs before the push and may throw: the loop is left,   *)
(* the row stays in progress, and inside a job the job fails.              *)
DispatchThrows(p) ==
  /\ At(p, "dispatch")
  /\ row[proc[p].cur].app \notin usable
  /\ orphans' = orphans \cup Orphaned({proc[p].cur})
  /\ IF InHandle(p) THEN FailJob(p, proc[p].job) ELSE Idle(p)
  /\ UNCHANGED <<status, row, pending, reserved, usable, faults>>

----------------------------------------------------------------------------
(* Users, other than those who deploy. *)

ForceStartClick(p) ==
  /\ ForceStart /\ Begin(p)
  /\ \E d \in Created :
       /\ status[d] = "queued" \/ StalePages
       /\ pending[d] < MaxCopies
       /\ Go(p, [proc[p] EXCEPT !.pc = "start", !.cur = d])
  /\ UNCHANGED <<status, row, pending, reserved, usable, orphans, faults>>

(* build_server_id is never stored, so an application with a build server  *)
(* has the server of its own destination scanned.                          *)
CancelScanServer(d) ==
  IF row[d].app \in BuildServerApps THEN Home[row[d].app] ELSE row[d].server

(* Mutant: next_after_cancel() is not called. *)
CancelWithoutScan(p) ==
  /\ UiCancel /\ Begin(p)
  /\ \E d \in Created :
       /\ status[d] \in Active \/ StalePages
       /\ status' = [status EXCEPT ![d] = "cancelled"]
  /\ UNCHANGED <<row, pending, reserved, proc, usable, orphans, faults>>

Cancel(p) ==
  /\ UiCancel /\ Begin(p)
  /\ \E d \in Created :
       /\ status[d] \in Active \/ StalePages
       /\ status' = [status EXCEPT ![d] = "cancelled"]
       /\ Go(p, [proc[p] EXCEPT !.pc = "snapshot",
                               !.srv = CancelScanServer(d)])
  /\ UNCHANGED <<row, pending, reserved, usable, orphans, faults>>

CancelDeployment(p) ==
  /\ ApiCancel /\ Begin(p)
  /\ \E d \in Created :
       /\ status[d] \in Active
       /\ Go(p, [proc[p] EXCEPT !.pc = "apicancel", !.cur = d])
  /\ UNCHANGED <<status, row, pending, reserved, usable, orphans, faults>>

CancelDeploymentWrite(p) ==
  /\ At(p, "apicancel")
  /\ status' = [status EXCEPT ![proc[p].cur] = "cancelled"]
  /\ Idle(p)
  /\ UNCHANGED <<row, pending, reserved, usable, orphans, faults>>

(* A closed pull request: every active row of the preview is cancelled.    *)
CancelActiveDeployments(p) ==
  /\ PreviewCleanup /\ Begin(p)
  /\ \E a \in Apps, l \in Lanes \ {0} :
       LET rows == {d \in Created : /\ status[d] \in Active
                                    /\ row[d].app = a /\ row[d].lane = l}
       IN /\ rows # {}
          /\ Go(p, [proc[p] EXCEPT !.pc = "sweep", !.todo = rows,
                                  !.hold = "cancelled"])
  /\ UNCHANGED <<status, row, pending, reserved, usable, orphans, faults>>

(* check:deployment-queue: every active row of some age, if confirmed.     *)
CheckDeploymentQueue(p) ==
  /\ AdminCleanup /\ Begin(p)
  /\ \E rows \in SUBSET {d \in Created : status[d] \in Active} :
       /\ rows # {}
       /\ Go(p, [proc[p] EXCEPT !.pc = "sweep", !.todo = rows,
                               !.hold = "failed"])
  /\ UNCHANGED <<status, row, pending, reserved, usable, orphans, faults>>

SweepStep(p) ==
  /\ At(p, "sweep")
  /\ \/ /\ proc[p].todo = {}
        /\ Idle(p)
        /\ UNCHANGED status
     \/ \E d \in proc[p].todo :
          /\ status' = [status EXCEPT ![d] = proc[p].hold]
          /\ Go(p, [proc[p] EXCEPT !.todo = @ \ {d}])
  /\ UNCHANGED <<row, pending, reserved, usable, orphans, faults>>

(* The application is deleted, or its image settings become invalid.       *)
Break(a) ==
  /\ a \in MayBreak \cap usable
  /\ usable' = usable \ {a}
  /\ UNCHANGED <<status, row, pending, reserved, proc, orphans, faults>>

----------------------------------------------------------------------------
(* ApplicationDeploymentJob. *)

(* Mutant: the job stays in Redis while it runs. *)
PickWithoutRemoval(p) ==
  /\ Begin(p)
  /\ \E d \in D :
       /\ pending[d] > 0
       /\ status[d] # "cancelled"
       /\ Go(p, [proc[p] EXCEPT !.pc = "mark", !.job = d, !.hold = status[d]])
  /\ UNCHANGED <<status, row, pending, reserved, usable, orphans, faults>>

(* A worker takes a job; handle() refreshes the row and returns at once if *)
(* it was cancelled.                                                       *)
Pick(p) ==
  /\ Begin(p)
  /\ \E d \in D :
       /\ pending[d] > 0
       /\ pending' = [pending EXCEPT ![d] = @ - 1]
       /\ IF status[d] = "cancelled"
          THEN UNCHANGED proc
          ELSE Go(p, [proc[p] EXCEPT !.pc = "mark", !.job = d,
                                    !.hold = status[d]])
  /\ UNCHANGED <<status, row, reserved, usable, orphans, faults>>

(* Eloquent writes a column only if its value differs from the one last    *)
(* read, so a cancellation that arrives after the refresh survives, while  *)
(* a row that was already closed is opened again.                          *)
Mark(p) ==
  /\ At(p, "mark")
  /\ status' = IF proc[p].hold = "in_progress" THEN status
               ELSE [status EXCEPT ![proc[p].job] = "in_progress"]
  /\ Go(p, [proc[p] EXCEPT !.pc = "run", !.hold = "none"])
  /\ UNCHANGED <<row, pending, reserved, usable, orphans, faults>>

(* The build and the rolling update end: completeDeployment(); or the new  *)
(* container is unhealthy: failDeployment() inside handle().               *)
RunEnds(p) ==
  /\ At(p, "run")
  /\ \E outcome \in Closed :
       Go(p, [proc[p] EXCEPT !.pc = "settle", !.hold = outcome])
  /\ UNCHANGED <<status, row, pending, reserved, usable, orphans, faults>>

(* Mutant: the job ends without failed(). *)
BuildFailsSilently(p) ==
  /\ At(p, "run")
  /\ Idle(p)
  /\ UNCHANGED <<status, row, pending, reserved, usable, orphans, faults>>

(* A command failed, a cancellation was noticed, or the server is not      *)
(* functional: fail() calls failed().                                      *)
BuildFails(p) ==
  /\ At(p, "run")
  /\ FailJob(p, proc[p].job)
  /\ UNCHANGED <<status, row, pending, reserved, usable, orphans, faults>>

(* Mutant: the final status is written unconditionally. *)
SettleUnchecked(p) ==
  /\ At(p, "settle")
  /\ Go(p, [proc[p] EXCEPT !.pc = "close"])
  /\ UNCHANGED <<status, row, pending, reserved, usable, orphans, faults>>

(* transitionToStatus(), the check.  A cancelled row makes it throw, which *)
(* inside handle() leads to failed() and a second check.  A closed row     *)
(* makes it return; after an unhealthy container post_deployment() then    *)
(* still calls completeDeployment().                                       *)
Settle(p) ==
  /\ At(p, "settle")
  /\ LET d == proc[p].job IN
       CASE status[d] = "cancelled" ->
              IF proc[p].failed THEN Idle(p) ELSE FailJob(p, d)
         [] status[d] \in Closed ->
              IF proc[p].failed \/ proc[p].hold = "finished" THEN Idle(p)
              ELSE Go(p, [proc[p] EXCEPT !.hold = "finished"])
         [] OTHER -> Go(p, [proc[p] EXCEPT !.pc = "close"])
  /\ UNCHANGED <<status, row, pending, reserved, usable, orphans, faults>>

(* deploy_to_additional_destinations(): where else the application goes.   *)
AdditionalServers(d) ==
  IF row[d].only \/ row[d].lane # 0 \/ row[d].server \in Extra[row[d].app]
  THEN {} ELSE Extra[row[d].app]

(* updateDeploymentStatus(): the write. *)
Close(p) ==
  /\ At(p, "close")
  /\ LET d == proc[p].job IN
       /\ status' = [status EXCEPT ![d] = proc[p].hold]
       /\ Go(p, [proc[p] EXCEPT
                     !.pc = "effects",
                     !.fan = IF proc[p].hold = "finished"
                                THEN AdditionalServers(d) ELSE {}])
  /\ UNCHANGED <<row, pending, reserved, usable, orphans, faults>>

(* handleSuccessfulDeployment(): one more row per additional destination,  *)
(* started at once; a full queue there is ignored.                         *)
FanOut(p) ==
  /\ At(p, "effects")
  /\ \E s \in proc[p].fan :
       LET r == [app |-> row[proc[p].job].app, lane |-> 0, server |-> s,
                 commit |-> HeadCommit, force |-> FALSE, instant |-> TRUE,
                 only |-> FALSE]
       IN IF Admit(r) /\ Room
          THEN Go(p, [proc[p] EXCEPT !.pc = "insert", !.req = r,
                                    !.fan = @ \ {s}, !.back = "effects"])
          ELSE Go(p, [proc[p] EXCEPT !.fan = @ \ {s}])
  /\ UNCHANGED <<status, row, pending, reserved, usable, orphans, faults>>

(* Mutant: queue_next_deployment() is not called. *)
EffectsEndWithoutScan(p) ==
  /\ At(p, "effects") /\ proc[p].fan = {}
  /\ Idle(p)
  /\ UNCHANGED <<status, row, pending, reserved, usable, orphans, faults>>

(* queue_next_deployment($this->application): the server scanned is that   *)
(* of the application's destination, whichever server the row was for.     *)
EffectsEnd(p) ==
  /\ At(p, "effects") /\ proc[p].fan = {}
  /\ LET unhealthy == proc[p].hold = "failed" /\ ~proc[p].failed IN
       Go(p, [proc[p] EXCEPT
                  !.pc = "snapshot",
                  !.srv = Home[row[proc[p].job].app],
                  !.hold = "finished",
                  !.back = IF unhealthy THEN "settle" ELSE "idle"])
  /\ UNCHANGED <<status, row, pending, reserved, usable, orphans, faults>>

----------------------------------------------------------------------------
(* Mishaps of the kinds in Mishaps, MaxFaults of them in a behaviour. *)

Mishap(kind) == kind \in Mishaps /\ faults < MaxFaults /\ faults' = faults + 1

(* A notification or an event cannot be sent: the scan is never reached.   *)
EffectsThrow(p) ==
  /\ At(p, "effects") /\ Mishap("effects")
  /\ IF proc[p].failed THEN Idle(p) ELSE FailJob(p, proc[p].job)
  /\ UNCHANGED <<status, row, pending, reserved, usable, orphans>>

(* The rows left without a driver when p stops where it is.                *)
Dropped(p) ==
  Orphaned(IF At(p, "dispatch") THEN {proc[p].cur} ELSE {})

(* The job's timeout strikes: failed() runs, whatever handle() was doing.  *)
Timeout(p) ==
  /\ InHandle(p) /\ Mishap("timeout")
  /\ orphans' = orphans \cup Dropped(p)
  /\ FailJob(p, proc[p].job)
  /\ UNCHANGED <<status, row, pending, reserved, usable>>

(* A request or worker is killed.  The job of a worker stays reserved in   *)
(* Redis unless fail() has already deleted it.                             *)
Die(p) ==
  /\ ~At(p, "idle") /\ Mishap("death")
  /\ Idle(p)
  /\ orphans' = orphans \cup Dropped(p)
                \cup (IF proc[p].failed THEN Orphaned({proc[p].job}) ELSE {})
  /\ reserved' = [d \in D |-> IF InHandle(p) /\ d = proc[p].job
                              THEN reserved[d] + 1 ELSE reserved[d]]
  /\ UNCHANGED <<status, row, pending, usable>>

(* Mutant: the second attempt ends without failed(). *)
RedeliverSilently(p) ==
  /\ Begin(p)
  /\ \E d \in D :
       /\ reserved[d] > 0
       /\ reserved' = [reserved EXCEPT ![d] = @ - 1]
  /\ UNCHANGED <<status, row, pending, proc, usable, orphans, faults>>

(* retry_after has passed.  $tries = 1, so the second attempt only calls   *)
(* failed().                                                               *)
Redeliver(p) ==
  /\ Begin(p)
  /\ \E d \in D :
       /\ reserved[d] > 0
       /\ reserved' = [reserved EXCEPT ![d] = @ - 1]
       /\ FailJob(p, d)
  /\ UNCHANGED <<status, row, pending, usable, orphans, faults>>

(* Coolify is restarted: every process dies, app:init marks what was       *)
(* active as failed, and the jobs in Redis are still there.                *)
Restart ==
  /\ Mishap("restart")
  /\ proc' = [p \in Procs |-> IdleProc]
  /\ status' = [d \in D |-> IF status[d] \in Active THEN "failed" ELSE status[d]]
  /\ reserved' = [d \in D |-> reserved[d] +
                    Cardinality({p \in Workers : InHandle(p) /\ proc[p].job = d})]
  /\ orphans' = {}
  /\ UNCHANGED <<row, pending, usable>>

----------------------------------------------------------------------------

(* The steps a process takes by itself once it has begun. *)
Proceed(p) ==
  \/ Insert(p) \/ Snapshot(p) \/ Scan(p) \/ ScanEnd(p)
  \/ Start(p) \/ Dispatch(p) \/ DispatchThrows(p)
  \/ CancelDeploymentWrite(p) \/ SweepStep(p)
  \/ Mark(p) \/ Settle(p) \/ Close(p) \/ FanOut(p) \/ EffectsEnd(p)

UserStep(p) ==
  \/ RequestDeploy(p) \/ ForceStartClick(p) \/ Cancel(p)
  \/ CancelDeployment(p) \/ CancelActiveDeployments(p)
  \/ CheckDeploymentQueue(p)

WorkerStep(p) == Pick(p) \/ RunEnds(p) \/ BuildFails(p) \/ Redeliver(p)

FaultStep(p) == EffectsThrow(p) \/ Timeout(p) \/ Die(p)

Next ==
  \/ \E p \in Procs : Proceed(p) \/ FaultStep(p)
  \/ \E p \in Requests : UserStep(p)
  \/ \E p \in Workers : WorkerStep(p)
  \/ \E a \in Apps : Break(a)
  \/ Restart

Spec == Init /\ [][Next]_vars

(* A request or worker that has begun goes on, a worker that is free takes *)
(* a job, and a build ends: every command has a timeout, and so has the    *)
(* job.  Users need not do anything.                                       *)
Fairness ==
  /\ \A p \in Procs : WF_vars(Proceed(p))
  /\ \A p \in Workers : WF_vars(WorkerStep(p))

FairSpec == Spec /\ Fairness

----------------------------------------------------------------------------
(* Properties. *)

(* What local state x has to do with the table: the rows it holds, those   *)
(* it runs or is about to push a job for, and those it will yet settle.    *)
Held(x) == ({x.job, x.cur} \cup x.todo) \ {0}
Pushing(x) == IF x.pc = "dispatch" THEN {x.cur} ELSE {}
Working(x) == {x.job} \cup Pushing(x)
Driving(x) ==
  Pushing(x) \cup IF x.pc \in {"mark", "run", "settle", "close"}
                  THEN {x.job} ELSE {}

HasJob(d) == pending[d] > 0 \/ reserved[d] > 0

(* A row that is shown as queued has no job: none is pending or reserved   *)
(* in Redis, none runs, and no process is about to push one.  A job that   *)
(* started early would build although the limits said to wait.             *)
QueuedNotDispatched ==
  \A d \in InState("queued") :
    ~HasJob(d) /\ \A p \in Procs : d \notin Working(proc[p])

(* A row that is in progress holds its lane and a place on its server, so  *)
(* somebody must be about to settle it: a job in Redis, a worker, or a     *)
(* process about to dispatch.  The exceptions are the rows a crash or a    *)
(* throwing job constructor has orphaned.                                  *)
InProgressDriven ==
  \A d \in InState("in_progress") \ orphans :
    HasJob(d) \/ \E p \in Procs : d \in Driving(proc[p])

(* No lost wake-up: when every process is idle or building, no queued row  *)
(* is left that next_queuable() would let run.                             *)
NoLostWakeup ==
  (\A p \in Procs : proc[p].pc \in {"idle", "run"}) =>
    \A d \in InState("queued") : ~NextQueuable(row[d])

(* Who can be between the look at the queue and the INSERT: workers only   *)
(* for the additional destinations of an application.                      *)
Inserters == IF \A a \in Apps : Extra[a] = {} THEN Requests ELSE Procs

QueuedOn(s) == {d \in InState("queued") : row[d].server = s}
Inserting(s) == {p \in Procs : At(p, "insert") /\ proc[p].req.server = s}

(* The queue of a server exceeds deployment_queue_limit by no more rows    *)
(* than there are other requests that looked at it at the same time; a     *)
(* request that is alone keeps to the limit.                               *)
QueueLimitRespected ==
  \A s \in Servers :
    Cardinality(QueuedOn(s)) + Cardinality(Inserting(s))
      =< QueueLimit[s] + Cardinality(Inserters) - 1

(* "Terminal states cannot be changed."                                    *)
TerminalStatesAbsorb ==
  [][\A d \in D : status[d] \in Closed \cup {"cancelled"}
                    => status'[d] = status[d]]_vars

(* The local state x of process p fits its program counter. *)
LocalOK(p, x) ==
  /\ x.pc = "idle" => x = IdleProc
  /\ p \in Requests => /\ x.job = 0 /\ ~x.failed /\ x.back = "idle"
                       /\ x.pc \notin {"mark", "run", "settle", "close",
                                       "effects"}
  /\ x.pc # "idle" /\ p \in Workers => x.job \in D
  /\ x.pc \in {"start", "dispatch", "apicancel"} => x.cur \in D
  /\ x.pc = "insert" => x.req \in Rows
  /\ x.pc \in {"settle", "close"} => x.hold \in Closed
  /\ x.pc \in {"mark", "run"} => x.back = "idle"
  /\ x.back = "settle" => x.hold \in Closed
  /\ x.pc = "sweep" => x.hold \in {"failed", "cancelled"}

ProcOK == \A p \in Procs : LocalOK(p, proc[p])

(* Only rows that exist, and are written, have jobs or are held by a       *)
(* process.                                                                *)
KnownRows ==
  /\ \A d \in D : HasJob(d) => d \in Created
  /\ \A p \in Procs : Held(proc[p]) \subseteq Created
  /\ \A d \in Created : row[d] \in Rows

(* The inductive invariant.                                                *)
Inv ==
  TypeOK /\ ProcOK /\ KnownRows /\ QueuedNotDispatched /\ InProgressDriven

(* Every queued deployment is started or withdrawn in the end.             *)
QueuedIsServed == \A d \in D : []<>(status[d] # "queued")

(* Every deployment in progress comes to an end.                           *)
InProgressEnds == \A d \in D : []<>(status[d] # "in_progress")
=============================================================================
