# Coolify: a verification project

Coolify is a self-hosted platform that deploys applications, databases and
services to servers over SSH.  It is a Laravel application (web requests,
console commands, a scheduler and Horizon queue workers that share one SQL
database and one Redis) and a small Node.js server for browser terminals.  This
directory holds TLA+ models of its concurrent parts, the TLC configurations that
check them on small instances and proofs that TLAPS checks for every instance.

Run the tools in this directory: `tlc -workers 2 -config MCQueueWakeup.cfg
MCDeploymentQueue`, `tlapm DeploymentQueue_proofs.tla`.  `PROJECT.json` lists the
components, runs, mutants, findings, hazards and theorems, and maps every
definition to the lines of code it stands for.

## 1. Inventory

Paths are relative to `src/`.

| Component | State it keeps | Operations | What is hard | What makes it correct |
|---|---|---|---|---|
| Deployment queue: `bootstrap/helpers/applications.php`, `app/Jobs/ApplicationDeploymentJob.php` and their callers | table `application_deployment_queues`; jobs in Redis | admit, start, force-start, cancel (page, API, closed pull request, console), run, settle, scan for the next one | no locks; every check is a read and a later write; jobs outlive crashes; the next deployment is started only by somebody's scan | limits kept, no row lost or run twice, final states final, every queued row served |
| Build and rolling update: `ApplicationDeploymentJob.php`, `app/Services/DeploymentConfiguration` | containers on the server | build, health check, replace the old container | failure between start of the new and stop of the old | one healthy version stays up |
| Terminal server: `docker/coolify-realtime/terminal-server.js` | a session per web socket, a PTY, timers | connect and authorise, buffer, command, kill, close | every `await` lets the socket close or another message in | a PTY per session at most, none without an owner |
| Terminal page: `resources/js/terminal.js` | the web socket, reconnect, keep-alive and ping timers, the command to repeat | connect, reconnect, show and hide the tab, give a command, leave | error, close and timeout of one attempt arrive together; a command crosses a reconnect | it tries again or gives up, shows a shell that exists, repeats what was asked last |
| Scheduled job manager: `app/Jobs/ScheduledJobManager.php`, `bootstrap/helpers/shared.php` | dedup keys and overlap lock in the cache | each minute: is it due, may it run, dispatch | a late or overlapping manager, a crash between key and dispatch | each slot dispatched once, none forgotten |
| Scheduled task executions: `app/Jobs/ScheduledTaskJob.php` | an execution per attempt | run, record, retry, fail | a timeout against completion, a notification that throws | the row says what happened |
| Database backups: `app/Jobs/DatabaseBackupJob.php`, `bootstrap/helpers/databases.php` | executions, files, copies in S3, a lock | dump, upload, drop, retain, delete | retention overlaps with jobs and users, one step of several failing, a dead worker | the newest backup keeps a copy, what says it runs ends |
| Server reachability: `app/Jobs/ServerConnectionCheckJob.php`, `ServerManagerJob.php`, `app/Models/Server.php` | `is_reachable`, `unreachable_count`, notification flag | check, back off, notify, recover | flags read before a slow check and used after it | one notification per outage, recovery is noticed |
| Status aggregation: `app/Jobs/PushServerUpdateJob.php`, `app/Actions/Docker/GetContainersStatus.php`, `app/Services/ContainerStatusAggregator.php` | status columns | fold container states into one status | two writers, stale snapshots | the status follows the containers |
| SSH multiplexing: `app/Helpers/SshMultiplexingHelper.php`, `app/Traits/SshRetryable.php` | master connection, metadata, a lock | ensure, refresh, remove, retry | a connection removed under its users | one master, every command runs or retries |
| Remote process actions: `app/Actions/CoolifyTask/RunRemoteProcess.php` | activity log | run, record, fail | retry of what was done | a finished activity stays finished |
| Proxy management: `app/Actions/Proxy`, `app/Jobs/RestartProxyJob.php` | proxy status | start, stop, restart, check | overlapping restarts | no start left half-way |
| Server validation: `app/Jobs/ValidateAndInstallServerJob.php` | flags, number of tries | validate, install, retry | retries bounded | ends validated or with an error |
| Previews and webhooks: `app/Jobs/ProcessGithubPullRequestWebhook.php`, `app/Http/Controllers/Webhook` | previews | open, update, close | events late, twice, out of order | a closed request leaves no container |
| Resource deletion and clean-up: `app/Jobs/DeleteResourceJob.php`, `app/Console/Commands` | everything | stop and delete | a deployment in flight | nothing runs for a deleted resource |
| Subscriptions: `app/Jobs/StripeProcessJob.php` | `subscriptions` | apply events, verify, limit servers | events late, twice, out of order | local state follows Stripe |
| Compose parsers, database and service life cycle, HTTP API, user interface, MCP server, notifications, policies, persistence, scripts, templates | rows and files | mostly one statement or a list of shell commands each | data, not control | outside a model checker's reach or without a protocol |

How they interact: a web request, a webhook, an API call or the scheduler inserts
rows and pushes jobs to Redis; Horizon workers take the jobs, run commands over
SSH (through the multiplexing helper) and write the results into the same rows;
Sentinel, an agent on each server, pushes container lists back; events go to
browsers through a web socket server; the browser terminal talks to the terminal
server, which asks the web application which hosts its user may reach.  Nearly all
interaction is through shared rows, read in one statement and written in another.

## 2. Modules

| Module | What it is |
|---|---|
| `DeploymentQueue` | the queue, its users, its workers and their mishaps |
| `DeploymentRaces` | which interleavings break the limits of the queue; that nothing else does; `ImplementsLanes`, its refinement of `DeploymentLanes` |
| `DeploymentLanes` | the abstract promise of the queue: lanes, capacity, final states, and rows that leave the promise |
| `MCDeploymentQueue` | instances for TLC |
| `DeploymentQueue_proofs` | drivers and jobs of rows; limit, lanes, capacity, one job per row, the refinement and wake-ups, with every interleaving |
| `TerminalServer` | one web socket of the terminal server, its session and its PTYs |
| `TerminalShell` | the abstract promise of a terminal socket: its shells follow one another |
| `MCTerminalServer` | instances for TLC |
| `TerminalServer_proofs` | the inductive invariant and its proof, and the refinement of `TerminalShell` |
| `TerminalClient` | the page: its web socket, its timers and the command it repeats |
| `TerminalClient_proofs` | a page without a socket tries again; what it shows, repeats and forgets |
| `MCTerminal` | both ends of a terminal for TLC |
| `ScheduledJobs` | when the scheduled job manager dispatches a backup, a task or a clean-up |
| `MCScheduledJobs` | an instance for TLC |
| `ScheduledJobs_proofs` | the inductive invariant and its proof |
| `TaskExecutions` | the jobs of one scheduled task and the rows that tell how they went |
| `TaskExecutions_proofs` | commands run once, rows tell the truth and are served |
| `RollingUpdate` | how the deployments of an application replace its container |
| `RollingUpdate_proofs` | the application stays served, a failed deployment is undone, a finished one stands alone |
| `MCJobs` | `DeploymentRaces`, `RollingUpdate` and `TaskExecutions` for TLC |
| `ServerReachability` | what Coolify believes of a server and tells its team |
| `ServerReachability_proofs` | transient failures stay quiet |
| `DatabaseBackups` | the backups of one schedule, their copies and their retention |
| `DatabaseBackups_proofs` | the newest successful backup keeps its copy |
| `MCQueueAndBackups` | `DeploymentQueue` and `DatabaseBackups` for TLC |
| `StatusUpdates` | how the status of an application follows its container |
| `MCBackgroundJobs` | `ScheduledJobs`, `StatusUpdates` and `ServerReachability` for TLC |

`MCTerminal`, `MCJobs`, `MCQueueAndBackups` and `MCBackgroundJobs` each extend the modules of
several machines that share nothing, which is why these name their initial states, next-state
relations and variables apart (`RollingInit`, `taskVars`, `BackupNext`).  The variable `part` of the first state says which one works;
the others keep a single state.  A run then covers several components, and what it
says of one is what a run of that one alone would say.

### DeploymentQueue

State.  `status[d]` is the column `status` of the row with primary key `d` ("none"
before the row exists), `row[d]` the columns written at creation.  `pending[d]`
counts the jobs of the row in Redis: several workers take jobs, so their order is
not a promise and a bag is enough.  `reserved[d]` counts jobs whose worker died;
Redis hands them out again after `retry_after` (`config/queue.php`).  `proc[p]` is
the local state of a request or a worker: where it is, the row it works for, the
rows of its snapshot still to be looked at, the status it is about to write.
`usable` is the set of applications whose job constructor succeeds.  `orphans` is a
history variable: the rows in progress that a crash or a throwing constructor has
left without anybody to settle them.

Actions.  One step is one database statement, a few adjacent reads, or one push to
Redis, because nothing in the code locks and any other process may run between
two of them:

- `RequestDeploy`, `Insert`: `queue_application_deployment()`, the limit and the
  duplicate check, then the INSERT; then either the immediate start or a look at
  `next_queuable()` for the new row.
- `Snapshot`, `Scan`, `ScanEnd`: `queue_next_deployment()` and `next_after_cancel()`.
  The two reads of `next_queuable()` (lane, server) are one step.
- `Start`, `Dispatch`, `DispatchThrows`: the status write, then the constructor of
  the job and the push.
- `ForceStartClick`, `Cancel`, `CancelDeployment(Write)`, `CancelActiveDeployments`,
  `CheckDeploymentQueue`, `SweepStep`: the users who write the column.  Cancelling on
  the page loads the row again and writes it (one step); `StalePages` lets the page
  be older than the row.  `build_server_id` is never stored, so for an application
  with a build server the page's scan goes to the server of the application's
  destination (`CancelScanServer`).
- `Pick`, `Mark`, `RunEnds`, `BuildFails`, `Settle`, `Close`, `FanOut`, `EffectsEnd`: a
  job from `handle()` to `transitionToStatus()` and its side effects.  An unhealthy
  container makes `handle()` record "failed" and go on to `completeDeployment()`,
  which then finds a closed row.  The lines after the retry loop of
  `execute_remote_command()` cannot be reached, the loop throws first.
- `EffectsThrow`, `Timeout`, `Die`, `Redeliver`, `Restart`: a notification that
  cannot be sent; the job's timeout, which runs `failed()` whatever `handle()` was
  doing; a killed process; the second attempt of its job, which with `$tries = 1` only
  calls `failed()`; a restart of Coolify, where `app:init` marks every active row
  failed while the jobs in Redis survive.

Abstractions.  Columns that only choose a branch are merged: `force` stands for
`force_rebuild` and `rollback`, `instant` for `no_questions_asked`, `only` for
`only_this_server`; the docker image tag is part of the commit.  The commands of a
build are one step with an outcome.  Deleting an application deletes its rows too;
that deletion is not modelled, only that the constructor of a later job throws.

Bounds: `MaxDeployments` (rows), `MaxCopies` (jobs that force-start may add to a
row), `MaxFaults` (mishaps).  Two rows suffice for a row that waits and a row it
waits for, three for a lane and a server's capacity; one mishap at a time is what
the code claims to handle.

`QueueLimitRespected` counts the rows queued on a server together with the INSERTs under way:
there may be `QueueLimit`, and one more for each further process that can be at an INSERT at the
same time (`Inserters`).  A lone request keeps the limit exactly.

### DeploymentRaces and DeploymentLanes

The code takes no lock, so deployments do break the limits of the queue.  `DeploymentRaces`
adds one history variable to `DeploymentQueue` and no other step: `excused[kind]` is the set of rows
to which a race or a bypass of that kind has happened, each defined by the very step at which
it happens.

| Kind | The step | Where in the code |
|---|---|---|
| "unchecked" | the row is started without `next_queuable()` (force start, instant deployment, additional destination), or a process gets "yes" while another has got "yes" for a rival (same lane or same server) and has not yet written it | `applications.php:88–94`, `110–119`, `128–131` |
| "unqueued" | the row is started although it is no longer queued or another process is starting it, or it changes under a process that is starting it | `applications.php:123–131` |
| "reopened" | a worker takes the job of a row that is already closed | `ApplicationDeploymentJob.php:293` |
| "overwritten" | the row ends although another process has found it alive and will write it, or is cancelled from a page that still shows it alive | `ApplicationDeploymentJob.php:4727`, `DeployController.php:244`, `DeploymentNavbar.php:75` |

A row is excused for its own step only: a race between two rows leaves the first of them bound,
and the excuse of one kind does not serve a property about another.  `LaneExclusive` and
`CapacityRespected` except "unchecked" and "reopened", `SingleJob` "unqueued" alone.

`DeploymentLanes` is what the queue promises, every step atomic: `Submit`, `Launch` (from the queue,
in a free lane, on a server with room), `Conclude`, `Withdraw`, `StopAll` (`app:init`), and `Leave`: a row
may become "irregular", which binds nobody and is never undone.  `ImplementsLanes` maps a row to
"irregular" if anything is excused of it and it is no longer queued (`Shown`).

### TerminalServer

The sockets share only the map `userSessions`, in which each has a key of its own, so
one socket is the whole system.  Node runs one callback at a time: an action is a
callback with the continuations of the promises it settles.

State.  `registered` says whether `userSessions` has the session; `pty`, `isActive` and
`timer` are its fields, the timer identified by the PTY it was set for; `live` holds
the PTYs that really run, `told` those that were sent `exit` or a signal.  `loops`
are the calls of `killPtyProcess()` that wait for their next look; every wait is 500 ms,
so they wake in the order in which they went to sleep and a sequence is exact.  Each
remembers who awaits it: a command, a `checkActive` "force", the session timer, an
error, or the close of the socket.

Actions.  `AuthOk`, `AuthFails` (the answer of `/terminal/auth/ips`), `Drain` (the
buffered messages, before any other callback), `Receive`, `KillLoop`, `SocketCloses`,
`SocketFails`, `ClientVanishes`, `Heartbeat`, `Pong`, `PtyExits`, `TimerFires`.  A
message is a command for an authorised host, one for another host, or "force"; input,
resize and ping change none of this state.

`Races` names two races of the close of the socket: with an authorisation that is still
under way ("lateAuth"), and with a command that awaits the end of the old PTY
("closeDuringKill").  The safety properties hold with both, that each PTY ends only
without them (finding 4).

Bounds: `MaxMessages` messages, hence that many PTYs; three are enough for a second
command to overtake the first.  `MaxAttempts` is 5 in the code and in `terminal_races`;
the liveness run takes 2, one look that finds the PTY alive and one that gives up.

### TerminalShell and TerminalClient

`TerminalShell` says what a socket promises: a shell starts only when the one before has
ended.  `TerminalServer` implements it with `shell <- IF isActive THEN pty ELSE 0`
(`ImplementsShell`), and `TerminalClient` assumes no more of the server.

State.  `page` is a record with the fields of the component in `terminal.js`; the
reconnect timer is a bit and `forgotten` counts timers whose handle was overwritten,
which JavaScript lets fire.  `line`, `toServer` and `toPage` are the network under an open
socket, `shell` and `awaits` (the message that awaits the end of a shell) the server.  `given`, `over` and `losses` count what the user
asked for, what the page has seen end, and what was lost.

Actions.  The callbacks of the socket (`ConnectSucceeds`, `ConnectFails`, `ConnectionLost`,
`CloseCompletes`, `PageReceives`), the timers (`ConnectTimesOut`, `ReconnectTimer`,
`ForgottenTimer`, `KeepAlive`, `PingTimeout`, `ResumeTimeout`), the tab (`Hide`, `Show`), the
user (`GiveCommand`, `Leave`), a proxy that drops an idle connection without telling
(`LineDies`), and the server (`ServerReceives`, `ShellExits`, `KillEnds`).  The methods of the
component are operators from page to page, composed as the code calls them.

`Habits` names what a user need not do: "leave", "switch" to another shell while one is at
work, be "hasty" with a command while an earlier one waits to be repeated.  The run has
the first; section 4 tells what the other two show.  Bounds: `MaxReconnectAttempts` is 10 in
the code and 3 here, one more than `MaxLosses` = 2, so that a page which merely loses its
attempts must come back; two commands, the one repeated and the one asked for.

### ScheduledJobs

Every schedule has a dedup key of its own, and schedules affect one another only by the
time they take, so one schedule stands for all; `kind` says whether it is a backup, a
task or a docker clean-up, which differ in the checks they go through.  Time is in
minutes, the resolution of cron expressions, and `Due` is the set of minutes at which
the schedule is due, its slots; `PreviousDue` is `getPreviousRunDate()`.

State.  `waiting` managers in the queue, the overlap `lock` with the minute it was taken,
the cached `key`, and for each worker the place it has reached, its frozen execution
time, the server's state as loaded, and the key it has read.  `jobs` counts what was
dispatched for each slot.  `handled` and `lost` are history variables: slots dispatched or
left out on purpose (due before the first look, container not running), and slots that
a crash or an exception has cut off between the key and the dispatch.

Actions.  `Schedule`, `Begin` (the lock is free, or the job is dropped), `Precheck` and
`Seed` (`isDueCandidateBeforeExpensiveChecks()`, get and put), `Check`, `Read` and `Put`
(`shouldRunCronNow()`, get and put), `Runtime`, `Dispatch`, `Finish`; `Fails`, an exception or
the death of the worker, which leaves the lock; `LockExpires`; `ServerFails`,
`ServerRecovers`; `Tick`.

`Overlap = TRUE` lets the lock expire while its manager is at work, which the 90 seconds
of `expireAfter()` allow, the job having no timeout of that order; it expires in a later minute than
it was taken (`now > lockedAt`), as 90 seconds do.

Bounds: `MaxTime` is the last minute, in which nothing is due, and stands for all later ones, so that
what is due can still be served (there the lock of a dead worker may expire, never that of one at work); five minutes hold three slots of a schedule that is due every other minute,
with a minute between them at which a late manager may run.  `MaxWaiting`, two: a late
manager and the next.  `MaxMishaps`, two: an outage and a crash.

### TaskExecutions

State.  `state` and `attempts` of a job in Redis; `at` and `own`, the place of its worker
and the row it has created; `rowStatus` and `finished` of a row, `outcome`, what its command
really did, and `owner`, its job.  `jobFate` is history: the mishaps of a job, and whether
another one was at work with it.

Actions.  `DispatchTask`, `Take`, then `handle()` step by step: `Create`, `Command`, `Record`,
`Notify`, `Catch`, `Finally`, and `Failed`.  `ContextFails` (the resource or its server is
gone), `NotifyThrows`, `FinallyThrows`, `TaskTimeout`, `WorkerDies`, `TaskRestart` are the mishaps.  Laravel
counts exceptions and attempts: with `$maxExceptions = 1` the first exception is final,
and only the job of a dead worker runs again.  `failed()` is called on a job that was
unserialised again and takes the latest row of the task for its own.

Bounds: two jobs (for two that cross), `Tries` 2 instead of 3 (a first and a second
attempt), two mishaps (one for each job, or two for one).

### RollingUpdate

State.  `mode` says how the container is replaced: "rolling" (the new one starts beside
the old one), "ports" (mapped to the host) or "name" (a fixed name), where the old one
stops first.  `shown`, `pc`, `attempt` and `todo` belong to a deployment, `container` to its
version; version 0 runs at the beginning.  `fate` and `late` are history.

Actions.  `BeginUpdate` (the queue's promise: no other one is in progress, or it is forced),
`Build`, `StartContainer`, `Up`, `Check`, `List`, `Remove`, `Rollback`, `Discard`, `Complete`, `Post` follow
`rolling_update()`, `health_check()`, `stop_running_container()` and `post_deployment()`;
`Failing` and `Drop` are `failed()`.  `SettleContainer` is the container that turns healthy or not.
Mishaps: `CancelUpdate` (every remote command looks for it first), `UpdateEffectsThrow` (after the
status was written), `ListFails` and `RemoveFails` (the server cannot be reached), `Struck`
(a dead worker, or the timeout), `RollingRestart`.

Bounds: two deployments besides the version that runs (one that fails and one that
cleans up after it), two health checks, two mishaps.

### ServerReachability

State.  `up` and `docker` are the truth, `columns` the four columns, `copy` what each of the two jobs
has read, `at` where it is; `sentinel` and `live` say whether pushes replace the checks.
`failures`, `later` and `silenced` are history.

Actions.  `StartCheck`, `Connect`, `ConnectionUp`, `Reset`, `ConnectionDown`, `Increment`
(`ServerConnectionCheckJob`), `Validate` (`ServerCheckJob`), `Announce`
(`Server::isReachableChanged()`), `Push` and `Silence` (`SentinelController`), `Flip` (of the server or of its Docker);
`ConnectionTimeout`, `CheckTimeout` and `Death` are the mishaps.  Eloquent writes only the
columns that differ from the copy (`Dirty`).  After a connection the check asks Docker and writes
`is_usable` accordingly; without Docker there is no Sentinel either, and its pushes would be refused.
Not modelled: a server that is disabled (`force_disabled`, `ServerConnectionCheckJob.php:51–63`), which
is no longer checked, and one that Hetzner reports as switched off (`178–184`), which throws and is
recorded like a failed connection.  `Announce` is one step although it reads,
notifies and writes: no remote call lies in between, and the other job cannot make its
connection in that time.  This is an assumption about time, the only one.

Bounds: the count stops at 3, one beyond the threshold; three changes are an outage, a
recovery and a second outage, or one of the server within one of its Docker; one mishap.

### StatusUpdates

State.  `container` is the truth, `status` the column.  Lists of containers are `pushed` by
Sentinel and then `queued` as jobs; `hash` and `forced` are the two cache keys by which the
controller decides; `work`, `statusLock` and `refresh` are the writers and what they have read.

Actions.  `Change`, `SentinelPushes`, `Receive` (`shouldDispatchUpdate()`), `ForceWindowEnds`, `Take` (a
job that finds the lock taken is dropped), `Write`, `RefreshReads`, `RefreshAsks`,
`RefreshWrites` (`GetContainersStatus`); `Lose`, `Die`, `LockExpiresEarly` are mishaps,
`StatusLockExpires` follows a death.  Requests and jobs may overtake one another.

Bounds: two lists under way (one stale, one new), two changes (there and back, which is
what the hash can hide), one mishap.

### DatabaseBackups

One schedule, whose jobs one lock keeps apart.  `rowStatus`, `uploaded`, `named` and `marked` are
columns of the rows (`status`, `s3_uploaded`, `filename`, the two `..._storage_deleted`); `has` is the
truth, the copies on the server and in S3.  A job has a loop over its databases (`left`, `backupRow`,
`upload`, `dropped`); a job and the clean-up sweep old backups (`store`, `victims`).  Rows are sorted by
`created_at`, in seconds: `tied` are those of the second of the row before, which the database may
return in either order (`Newer`); only two databases of one job can share one, and it counts as a mishap.  `newest`, `byUser` and `overwritten` are histories.  Settings
(`save_s3`, `disable_local_backup`) are chosen at the start.

Actions.  `Take`, `BeginBackup` (with `markStaleExecutionsAsFailed()`), `Create`, `CreateFails`, `Dump`, `Catch`,
`Upload`, `Drop`, `Record`, `Finish` are `DatabaseBackupJob::handle()`; `Select`, `Remove`, `MarkDeleted` for
each store and `Prune` are `removeOldBackups()`, one step for each query or command;
`EnforceRetention` is the clean-up's, which takes no lock.  The user deletes one backup in two steps
(`DeleteFiles`, `DeleteRow`) or many rows in one (`CleanupFailed`, `CleanupDeleted`).  Mishaps:
`CreateFails`, a storage that has been deleted (`Upload` then switches `save_s3` off),
`RemoveFails` (a removal whose failure goes unseen), `Throws`, `BackupDies` (the lock stays until it
expires), `BackupRestart`.  Retention by days and by size only say that fewer may stay than the amount:
each keeps the newest backup and a prefix of the others, so `Kept` is any number from one on.
Dump and upload may fail at will, they cost no mishap.

Bounds: two databases (a job that fails on the last one leaves retention out), one job beside the
clean-up, as the lock keeps a second one out; two rows, the newest and an old one; two mishaps.
Three rows or two jobs were checked separately and show nothing new.

## 3. Runs

| Run | Instance | Shows |
|---|---|---|
| `queue_wakeup` | 2 requests, 2 workers, 2 rows, capacity 1, cancel, restart; 1.1 M states | `NoLostWakeup`: a row that may run is never left behind once all has come to rest, although the process that inserts and the one that scans do not coordinate; `QueuedNotDispatched` |
| `queue_two_servers` | 2 servers, an additional destination, a build server, every way to cancel, stale pages, force starts, the cleanup command, all mishaps; 2.4 M states | `InProgressDriven`: jobs fan out and none is forgotten; the whole inductive invariant |
| `jobs` (`MCJobs`) | queue: 2 servers (2 at a time and 1), 2 rows, force start, instant deployments, cancelling on the page and through the API, a job timeout or a restart; rolling update: 2 deployments, 2 mishaps, every mode; task: 2 jobs, 2 tries, 2 mishaps; 1.1 M states | queue: `LaneExclusive`, `SingleJob` and `ImplementsLanes` (which contains the capacity), each with the named races; rolling update: `KeepsServing`, `FinishedStandsAlone`, `FailedIsUndone`, `DeploymentEnds`; task: `RowTellsOutcome`, `RunsOnce`, `RunningHasWorker`, `ExecutionEnds` |
| `queue_liveness` (`MCQueueAndBackups`) | queue: 1 server, 2 applications, 3 rows, limit 1, one request, no mishap; backups: 2 databases, 2 rows, 2 mishaps; 0.5 M states | queue: `QueueLimitRespected` for a lone request (TLAPS proves the bound for any number), `QueuedIsServed`, `InProgressEnds`; backups: `NewestIsKept`, `BackupEnds` |
| `queue_terminal_restart` | 1 row, restart | counterexample to "Terminal states cannot be changed." |
| `queue_api_cancel`, `queue_other_server` | `FairSpec` | a queued deployment that waits for ever |
| `terminal_races` | 3 messages, 5 attempts, both races; 3.8 M states | a session's view of its PTY, its timer and its place in `userSessions` stay right whatever overlaps; the refinement `ImplementsShell` |
| `terminal_ends` (`MCTerminal`) | server: 3 messages, 2 attempts, no race; page: 2 commands, 2 losses, 3 reconnects | server: every PTY ends, a vanished browser is noticed, a closing session is watched and removed; page: `ReconnectIsPending`, `ShownIsThere`, `LatestIsShown`, `EndedStaysEnded`, `PageComesBack`, `PageNoticesDeadLine` |
| `terminal_session_race` | one race, `FairSpec` | counterexample to the maximum session lifetime |
| `background_jobs` (`MCBackgroundJobs`) | manager: 2 workers, 3 slots, 2 mishaps, no overlap; status: 2 lists, 2 changes, 1 mishap; server: 3 changes, 1 mishap; 0.53 M states | manager: `AtMostOnce`, `KeyIsAccounted`, `SlotIsServed`; status: `StatusConverges`; server: `FlapIsQuiet`, `OutageIsReported`, `RecoveryIsReported` |
| `schedule_overlap` | overlap, no mishap | counterexample to `AtMostOnce` |

`CHECK_DEADLOCK FALSE` everywhere: once every row is closed, or the socket, and the
bounds are reached, nothing happens any more.  Requests are interchangeable and so are
workers (`SYMMETRY Interchangeable` in `queue_wakeup`).

Fairness.  A PHP process that has begun goes on (`WF` of `Proceed` for each process);
a free worker takes jobs and a build ends, because every SSH command and the job
itself have a timeout (`WF` of `WorkerStep` for each worker).  The same holds for a
deployment (`Work`), an execution (`TaskProceed`: a worker takes it and goes on) and the two
checks of a server, which are dispatched again every minute (`CheckProceeds`).  Sentinel
pushes, and the cache forgets what has expired (`SentinelPushes`, `Push`, `Silence`, `ForceWindowEnds`,
`StatusLockExpires`).  A schedule of backups stays enabled, its jobs are taken and go on, and time
passes (`BackupProceeds`, `Age`).  Of the lists under way some list goes on, not each (`Receives`, `Takes`).
In the page an attempt to connect ends in one of three ways, a close completes and
timers fire.  Users, containers and servers are under no obligation, and mishaps need
not happen.  Where a run holds several machines, a fairness condition of one may be
joined with one of another: only one of them works, so the disjunction is fair exactly
when its own part is.

Most liveness properties say that a condition does not last for ever, `P ~> ~P`.  They are
written `[]<>~P`, which is the same and which TLC decides many times faster.

Every property of a passing run has a mutant: a plausible bug in the code
(a scan left out, an off-by-one in the capacity, a missing `failed()`), written
next to the definition it changes, for which TLC finds the property violated.

## 4. Findings

1. After a restart a job that survived in Redis reopens a row that `app:init` has
   marked failed: `handle()` returns early for cancelled rows only
   (`queue_terminal_restart`).
2. Cancelling through the API frees a place but calls no scan (`queue_api_cancel`).
3. The scan at the end of a deployment looks at the server of the application's own
   destination, not at the one the deployment ran on (`queue_other_server`).
4. A terminal command waits for the old PTY to exit; if the socket closes meanwhile and
   its session is removed first, the new PTY starts in a session that `userSessions` no
   longer has.  Its timer then finds nothing to kill, and the PTY outlives the maximum
   session lifetime (`terminal_session_race`).
5. A scheduled job manager that outlasts its lock puts the previous due time of its own, older
   minute over the key that the next manager has put, so that a third one dispatches the slot
   of the second again (`schedule_overlap`).  In TLC's trace the manager of minute 1 has not yet
   come to the schedule when its lock expires; that of minute 2 puts key 2 and dispatches; the
   first reads 2, finds nothing due at minute 1, puts the due time before it, 0, and the next manager
   fires on that.

The limits of the queue yield to the four kinds of `DeploymentRaces`, and each kind is a behaviour
of the code: TLC violates `LaneExclusive`, `SingleJob` or `ImplementsLanes` when it is not excused.
`concurrent_builds` and the lane are checked in one statement and used in another;
`transitionToStatus()` checks and writes in two, so a cancellation in between is overwritten;
`deployment_queue_limit` is exceeded by one row for each request that overlaps.  Two more
behaviours are left out of `queue_liveness`: an event or notification that throws after the status
was written skips `queue_next_deployment()` (`Mishaps = {"effects"}`), and findings 2 and 3.

The properties of the other machines carry exceptions, and each exception is a behaviour
of the code that TLC shows when it is taken away:

- Rolling update (`KeepsServing`, `FinishedStandsAlone`).  A failure that strikes after
  the old containers are gone (a timeout, a dead worker, or a notification, an event or
  the next job that throws once the row says "finished") makes `failed()` remove the
  only container, although `ApplicationDeploymentJob.php:514` says that side effects
  should not fail the deployment.  A second deployment of the application that is forced to start
  removes the first one's container and is removed by it.  A deployment cancelled at
  the removal leaves two versions running.  After an unhealthy check the job still runs the
  post-deployment command, in the old container.
- Task executions (`RowTellsOutcome`, `RunningHasWorker`, `RunsOnce`).  `failed()` takes the
  latest row of the task: when two jobs cross, or a job fails before it has a row, it
  turns the "success" of another into "failed" and leaves its own row running.  A
  notification that throws does the same to its own row.  `ScheduledTaskJob.php:188` says
  "Re-throw to trigger Laravel's retry mechanism with backoff", but `$maxExceptions = 1` makes the
  first exception final.
- Server reachability (`RecoveryIsReported`).  A worker that dies between writing the
  columns and announcing them leaves the team told that the server is down; with
  Sentinel live the checks are skipped, and the next outage is not announced either.
- Status (`StatusConverges`).  The hash leaves the health out, so a change of health alone
  shows only when the force window ends (`LockExpiresEarly` and lost lists delay it
  likewise).  A list without any container leaves the statuses as they are; Sentinel's
  own container is in every list, so this does not happen here.
- Terminal page (`Habits`).  With "switch", the late `pty-exited` of the old PTY makes the page
  forget the command of the new one, which is then not repeated; the comment at
  `terminal.js:55` promises otherwise.  With "hasty", a command given while the page
  reconnects is dropped by `resetTerminal()` after the next failed attempt and an older
  one is repeated in its place.  The count of missed heartbeats never reaches its maximum
  (`terminal.js:722`): only a pong or a new connection sets the ping timeout again.

- Database backups (`NewestIsKept`, `BackupEnds`).  When the row of a later database cannot be
  created, the `catch` at `DatabaseBackupJob.php:403` writes "failed" and no filename into the row of
  the database before, whose backup has succeeded; the comment at line 784 wants a success left
  alone after such errors.  Of rows of one second retention may remove the later one.  Retention in S3 counts backups whose upload
  failed, so a few failed uploads remove the last good copy from S3; the property is about the
  copy the newest row tells of.  `cleanupDeleted()` forgets rows whose copy in S3 is there: with
  `disable_local_backup` all of them.  Deleting a row whose backup is under way leaves its file
  behind, and so does a failed dump, whose row loses the filename.  `failed()` has a fresh copy of
  the job, whose `backup_log_uuid` is null, so it finds no row: the guard at
  `DatabaseBackupJob.php:783` is never reached and the row says "running" until a later job or a restart
  fails it.  Retention counts the rows of all databases of a schedule together.

Met while reading, in parts without a model: `SshRetryable` compares the pattern
`Connection to .* closed` with `str_contains`, so it never matches; a late
`subscription.created` after a checkout resets `stripe_invoice_paid`.

## 5. Proofs

Every safety invariant and every action property that a passing run checks is stated by a
theorem.  Each invariant below was first checked with TLC on the run's instance, which is how
most of the strengthenings were found.

`DeploymentQueue_proofs` proves, for any number of processes, rows, servers,
applications and mishaps and any switches, that `Inv` is an invariant
(`Invariance`), and from it `TypeCorrect`, `QueuedRowsHaveNoJob` and
`InProgressRowsHaveADriver`.

`InProgressDriven` alone is not inductive.  A worker that settles a row must hold a
closed status to write (`ProcOK`, which ties the local state to the program
counter); a row found in a snapshot must exist and have its columns (`KnownRows`);
a row that is queued must have no job, or its job would start and end while the
row goes back in progress with nobody left (`QueuedNotDispatched`).  `Inv` is their
conjunction.  `StepPreservesInv` reduces a step to what it does to the table, the
Redis queue and each local state; one lemma per action discharges its
hypotheses, with `LocalStep`, `WriteStep`, `TakeStep` and `AbandonStep` for the common
shapes; `StepInv` puts them together.

What the queue promises about several rows at once is proved with every interleaving, every mishap
and every switch, from no assumption beyond those on the constants, but for the last one:

| Theorem | It says |
|---|---|
| `QueueKeepsItsLimit` | queued rows and INSERTs under way exceed the limit by fewer than the processes that can be at an INSERT |
| `RaceInvariance` | the invariant behind the following four |
| `LanesAreExclusive`, `ServersKeepToTheirCapacity` | lanes and `concurrent_builds` hold for all rows but "unchecked" and "reopened" ones |
| `RowsHaveOneJob` | a row that is not "unqueued" has one job at most: pending, reserved, at work or about to be pushed |
| `QueueKeepsThePromise` | the queue implements `DeploymentLanes` |
| `NoWakeupIsLost` | no queued row that may run is nobody's; assumes `EveryEndScans` |

*The limit.*  A process goes to an INSERT only after it has looked at the queue, and at that moment
the rows queued and the other INSERTs under way are within the bound (`LimitStep`); an INSERT moves
one from the second number to the first and keeps the sum (`InsertKeepsSum`).  A worker can be at an
INSERT only where the application has additional destinations (`NoFan`), which `Inserters` says.

*The races.*  An excuse is given to a row at the step at which it is earned and is never
taken back (`Excuses`, `Grows`).  `ReadsHold` says that whatever a process has read of a row still
holds when it writes, unless the row is excused: the row it starts is queued, the row it
closes is alive, the row whose job it takes is in progress.  Only a process that writes the table can
falsify it, and then the step excuses the row (`Writes`, `ReadsStep`).  `OccupantsFit` says that the rows
in progress *and those with a "yes" that is not yet written* have their lanes to themselves and fit
their servers.  It is inductive where `LaneExclusive` is not: who gets a "yes" beside a rival's
unwritten one is "unchecked", so a row joins the occupants only when `next_queuable()` has seen them
all (`NewOccupant`, `FitStep`).  `SingleJob` goes row by row (`OneJobEach`): a push needs a start, and a start
of a row that is still queued finds no job of it (`QueuedNotDispatched`), so a second job comes
only with "unqueued" (`OneJobStep`, one lemma for each way a job moves).  `RowInv` is the conjunction.

*The refinement.*  A step writes one row (`StepMove`) or, at a restart, all (`RestartMove`).  A row that is
written regularly makes the step of the same name in `DeploymentLanes` (`OneMove`, `StartMove`); one that
earns an excuse leaves the promise; a step that writes nothing, or a row already irregular, is a
stutter or a `Leave` (`QuietMove`).

*Wake-ups.*  `NoWakeupIsLost` holds with every interleaving as well: a scan that overlaps with an insertion or with another scan
loses nothing.  `EveryEndScans` says that deployments end by completing, failing or the cancel
button and run on their application's own server (without it findings 2 and 3 apply).
`NoLostWakeup` speaks of a queue at rest; the invariant `Awaited` speaks of every moment: a
queued row that may run is always somebody's to look at.  `Will` lists whose: who is about to
take a snapshot of its server, who will do so after its side effects, or who has it in the
snapshot.  A row becomes free to run only when another one leaves its lane or its server, and
who makes it leave goes on to a scan; `AtHome` says that this scan looks at the right server.

`TerminalServer_proofs` proves for any number of messages and attempts, and with or
without the races, that `Inv` of `TerminalServer` is an invariant, and from it
`OnePtyPerSession`, `TimerBelongsToPty` and `SessionIsFound`.  `Inv` is the type
invariant and four properties that need each other: a loop that ends with the removal of
the session runs for a closed socket only, hence a message finds its session, hence a
PTY starts only when none is active, hence timer and PTY belong together.  The proof
splits it by what an action writes (`SessionOK`, `KillingOK`, `LinkOK`).  From `Inv` follow
two more theorems: every step is a step of `TerminalShell` or a stutter
(`ShellsFollowOneAnother`, the whole of `ImplementsShell` for any number of messages), and a
closed session has a kill loop that will remove it (`ClosedSessionIsWatched`), which needs to
know where in its life a session has which loops.

`TerminalClient_proofs` proves, for any number of attempts, commands and losses and any
habits, that a page without a socket has a timer that will try again (`PageTriesAgain`),
and its type invariant (`PageTypes`).  The invariant relates the socket, the connection state and
the timers of the page; each method of the component has a lemma of its own, and an action cites
those it calls.

For users with the habits of `Patient` (who neither "switch" nor are "hasty", section 4 tells what
happens to the others) it proves what the page shows and repeats: `ShownTerminalsHaveShells`,
`TheLatestIsRepeated` and `EndedShellsStayEnded`.  All three follow from `ShellInv`: of one command
at a time either the command itself is on its way to the server, or its shell is at work, or the
news of its end is on its way back (`OneAtATime`, with the order of the messages in both
directions); it is the last one that was given and none that was seen to end (`IsTheLast`); while
there is anything of it the page remembers it (`IsRemembered`), and what made the page show a
terminal has a shell or will be answered (`IsAnswered`).  That the two sequences keep their order
when a message is taken or appended is stated once, as lemmas about `AsksOnce` and `ExitIsLast`;
`Carries` says what a method leaves as it is, one lemma for each method.

`ScheduledJobs_proofs` proves for any set of slots, any number of managers and mishaps that
`Inv` of `ScheduledJobs` is an invariant, that `KeyIsAccounted` holds even when managers
overlap (`KeysAreAccounted`), and `AtMostOnce` when they do not (`SlotsRunOnce`).  The first
needs to know that what a manager has read was accounted for and stays so
(`ReadIsAccounted`), the second that the one at work owns the lock, so that the key is
still the one it read (`KeyIsMine`), and that the key is never behind a slot that has been
dispatched (`DispatchedIsKeyed`).  The assumption is that a schedule has a last slot
before any time, which TLC evaluates for the instance.

`ServerReachability_proofs` proves `FlapsAreQuiet`: for any number of outages, timeouts and
dead workers a team is told only after two failures.  The count of the row never runs
ahead of the failures (`CountIsEarned`); a connection check that has read 0 will not reset
it, so during such a check it may count only failures since the check started
(`ZeroIsRecent`).

`RollingUpdate_proofs` proves, for any number of deployments, attempts and mishaps, that
the application stays served (`ServesThroughout`) and that what failed is undone
(`FailedAreUndone`).  "Some version is healthy" is not inductive: that version could be the
one its own deployment is about to remove.  `Served` asks for one that is healthy and whose
deployment is past its check, and says that who removes the others is such a one.  It
needs `Lone` (nobody else is at work in progress unless forced), `NotOwn` (nobody lists
itself among the old ones), `StatusOfPlace` and `Discarded`.  One lemma for each group of
actions, one step in it for each part of the invariant.

`TheFinishedStandsAlone` is about the newest deployment, whatever the ones before left behind.
Its exceptions are collected in `Quiet`: a state that is quiet was quiet before, because the
history only grows and a deployment that has begun stays so (`OnlyGrows`), so the step may assume
it on both sides.  While it is quiet the others have closed their rows and start nothing any
more (`OthersAreOver`), the deployment finds its own container and lists every other one
(`OldAreListed`), and once the old ones are removed it is the only one (`StandsAlone`).

`DatabaseBackups_proofs` proves `NewestCopyIsKept` for any settings and any number of rows, jobs,
databases and mishaps.  The invariant says that whoever removes a copy removes one of a row that
has a newer success (`VictimsAreOld`, from the lemma `BeyondIsOld` about a cardinality), that a row
under way is not yet written and its job holds the copy it will tell of (`InTheMaking`), that one job
at a time is at work (`Exclusive`), and how columns and histories agree (`Rowwise`).  One lemma per
action, one step in it for each part.

`TaskExecutions_proofs` proves, for any number of jobs, tries and mishaps, `CommandsRunOnce`,
`RunningRowsAreServed` and `RowsTellTheTruth`.  An attempt creates at most one row and only a dead
worker's job is tried again, so the rows of a job number no more than its attempts (`Counted`, with
a lemma about the cardinality when a row is added).  Rows are created in their order, so the latest
row, which `failed()` takes for its own, is its own unless another job was at work beside it
(`Ordered`, `Crossing`).  What stands in a worker's row follows from the place it has reached
(`InItsRow`), and a row that says other than its command did has an excuse (`Told`) that no later
step takes away.

The theorems rest on the named assumptions of the modules about their constants (`BoundAssumption`,
`TaskBounds`, `BackupBounds` and the like): that bounds are natural numbers and tables of settings
are functions.  TLC evaluates them on every run.

What is trusted: TLAPS with Z3, Zenon and LS4, without certification by Isabelle.  Zenon was seen to
accept an invalid leaf, with a conditional inside a function (`Afflict` in `BeginAlone`); its proof
used a hypothesis it had not derived.  That leaf is proved in steps now, and the proofs that Zenon
writes for the others use no such hypothesis.

Model-checked only: the liveness properties, `QueuedIsServed`, `InProgressEnds`,
`OutageIsReported`, `RecoveryIsReported`, `BackupEnds`, `DeploymentEnds`, `ExecutionEnds`, `PtyEnds`,
`VanishedIsRemoved`, `PageComesBack`, `PageNoticesDeadLine`, `SlotIsServed` and
`StatusConverges`.  They need fairness and ENABLED, which are out of the prover's reach.

## 6. Plan

Done: the queue, both ends of the terminal, the scheduled job manager and its task
executions, the rolling update, reachability, the status of one application, the backups
of a schedule.  Next:

1. `StatusAggregation`: the aggregator as a function against a reference definition.
   The two implementations differ already for a starting container
   (`aggregateFromStrings()` says healthy, `aggregateFromContainers()` unknown).
2. `RollingUpdate` for docker compose, swarm and previews, with the clean-up of a closed
   pull request; deletion of a resource whose deployment is in flight.
3. `Proxy`: overlapping restarts.

## 7. Not modelled, and why

The table of section 1 names the parts without a protocol.  Parsers and generators
(compose files, Dockerfiles, nixpacks plans, proxy configurations) transform data
of unbounded shape; Docker, SSH, Redis and Stripe appear only through what the code
does with them.  SSH multiplexing hangs on what closing a master connection does to the
commands under way, and the subscriptions on which events Stripe repeats or reorders and
what it answers in between: neither is stated in the repository, and without it a model
would only restate locks and single statements.  Most JavaScript in the repository is the
vendored Monaco editor under `public/js`, which is not Coolify's code.  `PROJECT.json` gives the
reason for each component.
