----------------------------- MODULE RollingUpdate -----------------------------
(***************************************************************************)
(* How the deployments of one application replace its container: the end   *)
(* of ApplicationDeploymentJob::handle(), its failed(), and what happens   *)
(* when they are cancelled, killed or timed out in between.  The queue is  *)
(* that of DeploymentQueue: a deployment begins when no other one is in    *)
(* progress, or when a user forces it.                                     *)
(***************************************************************************)
EXTENDS Naturals, FiniteSets

CONSTANTS
  MaxUpdates,        \* bound: deployments, besides the version that runs
  Retries,           \* health_check_retries
  MaxRollingMishaps, \* bound: mishaps
  RollingMishaps     \* which of "cancel", "struck", "restart", "effects", "ssh", "force"

Updates == 1..MaxUpdates
Versions == Updates \cup {0}   \* 0 runs at the beginning

VARIABLES
  mode,          \* "rolling", "ports" (mapped to the host) or "name" (the same one)
  checks,        \* is the health check enabled?
  shown,         \* column of a deployment, "none" before it begins
  pc,            \* where its job is
  attempt,       \* health checks made
  todo,          \* containers that are still to be removed
  container,     \* state of the container of each version
  fate,          \* history: what happened to a deployment
  late,          \* history: deployments that failed once they removed old containers
  rollingMishaps \* number of mishaps so far

settings == <<mode, checks>>
job == <<pc, attempt, todo>>
history == <<fate, late, rollingMishaps>>
rollingVars == <<settings, shown, job, container, history>>

Health == {"none", "starting", "healthy", "unhealthy"}
UpdateSteps == {"idle", "build", "start", "up", "check", "list", "remove", "rollback",
        "discard", "complete", "post", "failing", "drop", "done", "cut"}

RollingTypeOK ==
  /\ mode \in {"rolling", "ports", "name"} /\ checks \in BOOLEAN
  /\ shown \in [Updates -> {"none", "in_progress", "finished", "failed", "cancelled"}]
  /\ pc \in [Updates -> UpdateSteps] /\ attempt \in [Updates -> 0..Retries]
  /\ todo \in [Updates -> SUBSET Versions]
  /\ container \in [Versions -> Health]
  /\ fate \in [Updates -> SUBSET (RollingMishaps \cup {"crossed"})]
  /\ late \in SUBSET Updates /\ rollingMishaps \in Nat

RollingInit ==
  /\ mode \in {"rolling", "ports", "name"}
  /\ checks \in IF mode = "rolling" THEN BOOLEAN ELSE {TRUE}   \* others ask nothing
  /\ shown = [d \in Updates |-> "none"]
  /\ pc = [d \in Updates |-> "idle"] /\ attempt = [d \in Updates |-> 0]
  /\ todo = [d \in Updates |-> {}]
  /\ container = [v \in Versions |-> IF v = 0 THEN "healthy" ELSE "none"]
  /\ fate = [d \in Updates |-> {}] /\ late = {} /\ rollingMishaps = 0

Exist == {v \in Versions : container[v] # "none"}
UpdateClosed(d) == shown[d] \in {"finished", "failed"}
Cancelled(d) == shown[d] = "cancelled"
Ended(d) == pc[d] \in {"done", "cut"}    \* "cut": failed() was broken off
AtWork(d) == pc[d] # "idle" /\ ~Ended(d)
InFailed(d) == pc[d] \in {"failing", "drop"}

GoTo(d, place) == pc' = [pc EXCEPT ![d] = place]
SetStatus(d, s) == shown' = [shown EXCEPT ![d] = s]
Removed(vs) == container' = [v \in Versions |-> IF v \in vs THEN "none" ELSE container[v]]

Afflict(ds, ms) == fate' = [d \in Updates |-> fate[d] \cup IF d \in ds THEN ms ELSE {}]
UpdateMishap(m) ==
  /\ m \in RollingMishaps /\ rollingMishaps < MaxRollingMishaps
  /\ rollingMishaps' = rollingMishaps + 1
Strike(m, ds) == UpdateMishap(m) /\ Afflict(ds, {m})

(* An exception leaves handle(). *)
Late(ds) == late' = late \cup {d \in ds : pc[d] \in {"remove", "complete", "post"}}
Throw(d) == GoTo(d, "failing") /\ Late({d})

----------------------------------------------------------------------------
BeginUpdate(d) ==
  /\ pc[d] = "idle" /\ \A e \in Updates : e < d => pc[e] # "idle"
  /\ LET others == {e \in Updates : AtWork(e)}
         pair == IF others = {} THEN {} ELSE {d} \cup others IN
       IF \A e \in Updates : shown[e] # "in_progress"
       THEN Afflict(pair, {"crossed"}) /\ UNCHANGED rollingMishaps
       ELSE Afflict(pair, {"crossed", "force"}) /\ UpdateMishap("force")
  /\ SetStatus(d, "in_progress") /\ GoTo(d, "build")
  /\ UNCHANGED <<settings, attempt, todo, container, late>>

(* The image is built; rolling_update() looks for a cancellation first. *)
Build(d) ==
  /\ pc[d] = "build"
  /\ \/ ~Cancelled(d) /\ GoTo(d, IF mode = "rolling" THEN "start" ELSE "list") /\ UNCHANGED late
     \/ Throw(d)
  /\ UNCHANGED <<settings, shown, attempt, todo, container, fate, rollingMishaps>>

(* start_by_compose_file().  Every command looks for a cancellation first; *)
(* one that arrives later finds it under way.                              *)
StartContainer(d) ==
  /\ pc[d] = "start"
  /\ IF Cancelled(d) THEN Throw(d) ELSE GoTo(d, "up") /\ UNCHANGED late
  /\ UNCHANGED <<settings, shown, attempt, todo, container, fate, rollingMishaps>>

(* One that has the name is replaced; one that has the port is in the way. *)
Started(d) ==
  [v \in Versions |-> IF v = d THEN "starting"
                      ELSE IF mode = "name" THEN "none" ELSE container[v]]
Up(d) ==
  /\ pc[d] = "up"
  /\ \/ /\ mode = "ports" => Exist \subseteq {d}
        /\ container' = Started(d)
        /\ GoTo(d, IF mode = "rolling" THEN "check" ELSE "complete") /\ UNCHANGED late
     \/ container' \in {container, Started(d)} /\ Throw(d)
  /\ UNCHANGED <<settings, shown, attempt, todo, fate, rollingMishaps>>

(* Mutant: a container that is still starting counts as healthy. *)
CheckLeniently(d) ==
  /\ pc[d] = "check"
  /\ CASE ~checks -> GoTo(d, "list") /\ UNCHANGED <<attempt, late>>
       [] checks /\ (Cancelled(d) \/ container[d] = "none") ->
            Throw(d) /\ UNCHANGED attempt
       [] OTHER ->
            /\ attempt' = [attempt EXCEPT ![d] = @ + 1]
            /\ GoTo(d, IF container[d] = "unhealthy" THEN "rollback"
                       ELSE IF container[d] = "healthy" \/ attempt'[d] = Retries THEN "list"
                       ELSE "check")
            /\ UNCHANGED late
  /\ UNCHANGED <<settings, shown, todo, container, fate, rollingMishaps>>

(* Mutant: waiting for a container that is starting is not an attempt. *)
CheckForever(d) ==
  /\ pc[d] = "check"
  /\ CASE ~checks -> GoTo(d, "list") /\ UNCHANGED <<attempt, late>>
       [] checks /\ (Cancelled(d) \/ container[d] = "none") ->
            Throw(d) /\ UNCHANGED attempt
       [] OTHER ->
            /\ attempt' = [attempt EXCEPT ![d] = IF container[d] = "starting" THEN @ ELSE @ + 1]
            /\ GoTo(d, IF container[d] = "healthy" THEN "list"
                       ELSE IF container[d] = "unhealthy" THEN "rollback" ELSE "check")
            /\ UNCHANGED late
  /\ UNCHANGED <<settings, shown, todo, container, fate, rollingMishaps>>

(* health_check() *)
Check(d) ==
  /\ pc[d] = "check"
  /\ CASE ~checks -> GoTo(d, "list") /\ UNCHANGED <<attempt, late>>
       [] checks /\ (Cancelled(d) \/ container[d] = "none") ->
            Throw(d) /\ UNCHANGED attempt
       [] OTHER ->
            /\ attempt' = [attempt EXCEPT ![d] = @ + 1]
            /\ GoTo(d, IF container[d] = "healthy" THEN "list"
                       ELSE IF container[d] = "unhealthy" \/ attempt'[d] = Retries THEN "rollback"
                       ELSE "check")
            /\ UNCHANGED late
  /\ UNCHANGED <<settings, shown, todo, container, fate, rollingMishaps>>

(* Mutant: the container of a failed deployment before is forgotten. *)
ListOne(d) ==
  /\ pc[d] = "list"
  /\ todo' = [todo EXCEPT ![d] = {v \in Exist : v < d /\ \A w \in Exist : w < d => w =< v}]
  /\ GoTo(d, "remove")
  /\ UNCHANGED <<settings, shown, attempt, container, history>>

(* stop_running_container(): the others, or the one with the name. *)
List(d) ==
  /\ pc[d] = "list"
  /\ todo' = [todo EXCEPT ![d] = IF mode = "name" THEN Exist ELSE Exist \ {d}]
  /\ GoTo(d, "remove")
  /\ UNCHANGED <<settings, shown, attempt, container, history>>

AfterRemoval == IF mode = "rolling" THEN "complete" ELSE "start"

(* The server cannot be asked: old containers stay, with a warning. *)
ListFails(d) ==
  /\ pc[d] = "list" /\ mode # "name" /\ Strike("ssh", {d})
  /\ GoTo(d, AfterRemoval)
  /\ UNCHANGED <<settings, shown, attempt, todo, container, late>>

(* graceful_shutdown_container(): a cancellation makes it do nothing. *)
Remove(d) ==
  /\ pc[d] = "remove"
  /\ IF todo[d] = {}
     THEN GoTo(d, AfterRemoval) /\ UNCHANGED <<todo, container>>
     ELSE \E v \in todo[d] :
            /\ todo' = [todo EXCEPT ![d] = @ \ {v}]
            /\ Removed(IF Cancelled(d) THEN {} ELSE {v})
            /\ UNCHANGED pc
  /\ UNCHANGED <<settings, shown, attempt, history>>

(* An unhealthy container: failDeployment(), which lets the next one begin, *)
(* and then the new container is removed.                                  *)
Rollback(d) ==
  /\ pc[d] = "rollback"
  /\ \/ Cancelled(d) /\ Throw(d) /\ UNCHANGED shown
     \/ UpdateClosed(d) /\ GoTo(d, "discard") /\ UNCHANGED <<shown, late>>
     \/ shown[d] = "in_progress" /\ SetStatus(d, "failed") /\ GoTo(d, "discard") /\ UNCHANGED late
  /\ UNCHANGED <<settings, attempt, todo, container, fate, rollingMishaps>>

(* Mutant: the new container stays. *)
DiscardNothing(d) ==
  /\ pc[d] = "discard"
  /\ GoTo(d, "complete")
  /\ UNCHANGED <<settings, shown, attempt, todo, container, history>>

Discard(d) ==
  /\ pc[d] = "discard"
  /\ Removed(IF Cancelled(d) THEN {} ELSE {d})
  /\ GoTo(d, "complete")
  /\ UNCHANGED <<settings, shown, attempt, todo, history>>

(* Mutant: what is closed may be closed again. *)
CompleteAgain(d) ==
  /\ pc[d] = "complete"
  /\ SetStatus(d, "finished") /\ GoTo(d, "post")
  /\ UNCHANGED <<settings, attempt, todo, container, history>>

(* post_deployment(): completeDeployment(), which does nothing once the    *)
(* deployment has failed ...                                               *)
Complete(d) ==
  /\ pc[d] = "complete"
  /\ \/ Cancelled(d) /\ Throw(d) /\ UNCHANGED shown
     \/ UpdateClosed(d) /\ GoTo(d, "post") /\ UNCHANGED <<shown, late>>
     \/ shown[d] = "in_progress" /\ SetStatus(d, "finished") /\ GoTo(d, "post") /\ UNCHANGED late
  /\ UNCHANGED <<settings, attempt, todo, container, fate, rollingMishaps>>

(* ... then the post-deployment command, whose errors are caught. *)
Post(d) ==
  /\ pc[d] = "post" /\ GoTo(d, "done")
  /\ UNCHANGED <<settings, shown, attempt, todo, container, history>>

(* failed(): nothing more for one that was cancelled. *)
Failing(d) ==
  /\ pc[d] = "failing"
  /\ IF Cancelled(d) THEN GoTo(d, "done") ELSE GoTo(d, "drop")
  /\ IF shown[d] = "in_progress" THEN SetStatus(d, "failed") ELSE UNCHANGED shown
  /\ UNCHANGED <<settings, attempt, todo, container, history>>

Drop(d) ==
  /\ pc[d] = "drop"
  /\ Removed(IF Cancelled(d) \/ mode = "name" THEN {} ELSE {d})
  /\ GoTo(d, "done")
  /\ UNCHANGED <<settings, shown, attempt, todo, history>>

----------------------------------------------------------------------------
(* A started container turns out healthy or not. *)
SettleContainer(v) ==
  /\ container[v] = "starting"
  /\ \E h \in {"healthy", "unhealthy"} : container' = [container EXCEPT ![v] = h]
  /\ UNCHANGED <<settings, shown, job, history>>

CancelUpdate(d) ==
  /\ shown[d] = "in_progress" /\ Strike("cancel", {d})
  /\ SetStatus(d, "cancelled")
  /\ UNCHANGED <<settings, job, container, late>>

(* A notification, an event or the job of another deployment throws after  *)
(* the status is written.                                                  *)
UpdateEffectsThrow(d) ==
  /\ pc[d] \in {"rollback", "complete", "failing"} /\ shown[d] = "in_progress"
  /\ Strike("effects", {d})
  /\ SetStatus(d, IF pc[d] = "complete" THEN "finished" ELSE "failed")
  /\ IF InFailed(d) THEN GoTo(d, "cut") /\ UNCHANGED late ELSE Throw(d)
  /\ UNCHANGED <<settings, attempt, todo, container>>

(* The server cannot be reached: these commands ignore it. *)
RemoveFails(d) ==
  /\ pc[d] \in {"remove", "discard", "drop"} /\ Strike("ssh", {d})
  /\ CASE pc[d] = "remove" ->
            /\ \E v \in todo[d] : todo' = [todo EXCEPT ![d] = @ \ {v}]
            /\ UNCHANGED pc
       [] OTHER ->
            /\ GoTo(d, IF pc[d] = "discard" THEN "complete" ELSE "done")
            /\ UNCHANGED todo
  /\ UNCHANGED <<settings, shown, attempt, container, late>>

(* The worker dies or its time is over.  failed() is called, after         *)
(* retry_after if it died: $tries is 1.  Only once.                        *)
Struck(d) ==
  /\ AtWork(d) /\ Strike("struck", {d})
  /\ IF InFailed(d) THEN GoTo(d, "cut") /\ UNCHANGED late ELSE Throw(d)
  /\ container' \in {container} \cup IF pc[d] = "up" THEN {Started(d)} ELSE {}
  /\ UNCHANGED <<settings, shown, attempt, todo>>

(* Coolify restarts: app:init marks what is in progress as failed. *)
RollingRestart ==
  LET dead == {d \in Updates : AtWork(d)} IN
  /\ Strike("restart", dead)
  /\ shown' = [d \in Updates |-> IF shown[d] = "in_progress" THEN "failed" ELSE shown[d]]
  /\ pc' = [d \in Updates |-> IF d \notin dead THEN pc[d]
                              ELSE IF InFailed(d) THEN "cut" ELSE "failing"]
  /\ Late({d \in dead : ~InFailed(d)})
  /\ UNCHANGED <<settings, attempt, todo, container>>

Work(d) ==
  \/ Build(d) \/ StartContainer(d) \/ Up(d) \/ Check(d) \/ List(d) \/ Remove(d)
  \/ Rollback(d) \/ Discard(d) \/ Complete(d) \/ Post(d) \/ Failing(d) \/ Drop(d)

RollingNext ==
  \/ \E d \in Updates :
       \/ BeginUpdate(d)
       \/ Build(d) \/ StartContainer(d) \/ Up(d) \/ Check(d) \/ List(d) \/ Remove(d)
       \/ Rollback(d) \/ Discard(d) \/ Complete(d) \/ Post(d) \/ Failing(d) \/ Drop(d)
       \/ ListFails(d) \/ RemoveFails(d) \/ CancelUpdate(d) \/ UpdateEffectsThrow(d) \/ Struck(d)
  \/ \E v \in Versions : SettleContainer(v)
  \/ RollingRestart

RollingSpec == RollingInit /\ [][RollingNext]_rollingVars

(* The steps of a job follow one another. *)
RollingFairSpec == RollingSpec /\ \A d \in Updates : WF_rollingVars(Work(d))

----------------------------------------------------------------------------
(* A rolling update never takes the application away: at every moment some *)
(* version is healthy, unless a deployment failed after it had begun to    *)
(* remove the old ones, or was forced to run beside another.               *)
Forced(d) == "force" \in fate[d]
KeepsServing ==
  mode = "rolling" /\ checks =>
    \/ \E v \in Versions : container[v] = "healthy"
    \/ late # {} \/ \E d \in Updates : Forced(d)

(* When a deployment has finished, its version is there and, until another *)
(* begins, no other one is, whatever deployments before it left behind:    *)
(* unless it failed afterwards, was forced, or could not reach the server; *)
(* or one that was cancelled was still at work when another began.         *)
Newest(d) == shown[d] # "none" /\ \A e \in Updates : e > d => shown[e] = "none"
FinishedStandsAlone ==
  \A d \in Updates :
    /\ shown[d] = "finished" /\ Newest(d)
    /\ d \notin late /\ ~Forced(d) /\ "ssh" \notin fate[d]
    /\ \A e \in Updates : ~({"cancel", "crossed"} \subseteq fate[e])
    => Exist = {d}

(* A deployment that failed is undone: its container is gone, unless       *)
(* failed() was broken off or could not reach the server.                  *)
FailedIsUndone ==
  mode # "name" =>
    \A d \in Updates :
      shown[d] = "failed" /\ pc[d] = "done" /\ "ssh" \notin fate[d] => d \notin Exist

(* Every deployment ends, whatever its container does.  As they are        *)
(* bounded, there comes a time when none is in progress.                   *)
Going(d) == shown[d] = "in_progress" /\ ~Ended(d)
DeploymentEnds == []<>(\A d \in Updates : ~Going(d))
=============================================================================
