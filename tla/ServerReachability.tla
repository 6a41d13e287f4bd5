-------------------------- MODULE ServerReachability ---------------------------
(***************************************************************************)
(* What Coolify believes of one server and tells its team: two jobs look   *)
(* whether the server answers, each with the columns it has read before,   *)
(* and Sentinel, the agent on the server, pushes its state.                *)
(***************************************************************************)
EXTENDS Naturals

CONSTANTS
  MaxCount,         \* bound: unreachable_count stays there
  MaxFlips,         \* bound: times the server or its Docker goes down or comes back
  MaxServerMishaps, \* bound: mishaps
  ServerMishaps     \* which of "timeout", "slowCheck", "death"

Checks == {"connection", "check"}

VARIABLES
  up,       \* does the server answer?
  docker,   \* does its Docker answer, when it does?
  sentinel, \* is Sentinel enabled?
  live,     \* isSentinelLive()
  columns,  \* is_reachable, is_usable, unreachable_count, ..._notification_sent
  at,       \* where a job is
  copy,     \* the columns in the memory of a job
  failures, \* history: failed attempts since a successful connection check
  later,    \* history: those of them since the connection check started
  silenced, \* history: a worker died after writing what it would announce
  flips, serverMishaps

world == <<up, docker, sentinel, flips>>
job == <<at, copy>>
history == <<failures, later, silenced>>
serverVars == <<world, live, columns, job, history, serverMishaps>>

Columns == [reachable : BOOLEAN, usable : BOOLEAN, count : 0..MaxCount, notified : BOOLEAN]
Places == {"idle", "connect", "up", "down", "increment", "reset", "decideUp",
           "decideDown", "announce"}

ServerTypeOK ==
  /\ up \in BOOLEAN /\ docker \in BOOLEAN
  /\ sentinel \in BOOLEAN /\ live \in BOOLEAN
  /\ columns \in Columns
  /\ at \in [Checks -> Places] /\ copy \in [Checks -> Columns]
  /\ failures \in 0..MaxCount /\ later \in 0..MaxCount /\ silenced \in BOOLEAN
  /\ flips \in 0..MaxFlips /\ serverMishaps \in 0..MaxServerMishaps

Fresh == [reachable |-> TRUE, usable |-> TRUE, count |-> 0, notified |-> FALSE]

ServerInit ==
  /\ up = TRUE /\ docker = TRUE /\ sentinel \in BOOLEAN /\ live = FALSE
  /\ columns = Fresh
  /\ at = [j \in Checks |-> "idle"] /\ copy = [j \in Checks |-> Fresh]
  /\ failures = 0 /\ later = 0 /\ silenced = FALSE
  /\ flips = 0 /\ serverMishaps = 0

GoTo(j, place) == at' = [at EXCEPT ![j] = place]
Remember(j, c) == copy' = [copy EXCEPT ![j] = c]
ServerMishap(m) ==
  /\ m \in ServerMishaps /\ serverMishaps < MaxServerMishaps
  /\ serverMishaps' = serverMishaps + 1
Incremented(n) == IF n < MaxCount THEN n + 1 ELSE n

Failure ==
  /\ failures' = Incremented(failures) /\ later' = Incremented(later)
  /\ UNCHANGED silenced

(* Eloquent's update() writes what differs from the copy that was read. *)
Dirty(field, read, value) == IF read = value THEN columns[field] ELSE value

----------------------------------------------------------------------------
Flip ==
  /\ flips < MaxFlips /\ flips' = flips + 1
  /\ \/ up' = ~up /\ UNCHANGED docker
     \/ docker' = ~docker /\ UNCHANGED up
  /\ UNCHANGED <<sentinel, live, columns, job, history, serverMishaps>>

(* Sentinel is a container.  SentinelController refuses the push of a      *)
(* server that is not functional.                                          *)
Push ==
  /\ up /\ docker /\ sentinel /\ ~live /\ columns.reachable /\ columns.usable
  /\ live' = TRUE
  /\ UNCHANGED <<world, columns, job, history, serverMishaps>>

(* No push for waitBeforeDoingSshCheck(). *)
Silence ==
  /\ live /\ ~(up /\ docker /\ columns.reachable /\ columns.usable)
  /\ live' = FALSE
  /\ UNCHANGED <<world, columns, job, history, serverMishaps>>

(* ServerManagerJob dispatches, and a worker takes, a job that is due.  A  *)
(* back-off only delays it.                                                *)
StartCheck(j) ==
  /\ at[j] = "idle" /\ ~live
  /\ GoTo(j, "connect") /\ Remember(j, columns)
  /\ later' = IF j = "connection" THEN 0 ELSE later
  /\ UNCHANGED <<world, live, columns, failures, silenced, serverMishaps>>

Connect(j) ==
  /\ at[j] = "connect" /\ GoTo(j, IF up THEN "up" ELSE "down")
  /\ UNCHANGED <<world, live, columns, copy, history, serverMishaps>>

(* ServerConnectionCheckJob::handle(), after a connection: the server is   *)
(* usable if its Docker answers as well (checkDockerAvailability()) ...    *)
ConnectionUp ==
  LET j == "connection" IN
  /\ at[j] = "up"
  /\ columns' = [columns EXCEPT !.reachable = Dirty("reachable", copy[j].reachable, TRUE),
                                !.usable = Dirty("usable", copy[j].usable, up /\ docker)]
  /\ GoTo(j, "reset")
  /\ UNCHANGED <<world, live, copy, history, serverMishaps>>

(* Mutant: the count is not reset. *)
ResetNothing ==
  LET j == "connection" IN
  /\ at[j] = "reset"
  /\ UNCHANGED columns
  /\ failures' = later
  /\ GoTo(j, IF ~copy[j].reachable \/ copy[j].notified THEN "announce" ELSE "idle")
  /\ UNCHANGED <<world, live, copy, later, silenced, serverMishaps>>

(* Mutant: a recovery is announced only by who finds it. *)
ResetAndAnnounceChange ==
  LET j == "connection" IN
  /\ at[j] = "reset"
  /\ columns' = [columns EXCEPT !.count = IF copy[j].count > 0 THEN 0 ELSE @]
  /\ failures' = later
  /\ GoTo(j, IF ~copy[j].reachable THEN "announce" ELSE "idle")
  /\ UNCHANGED <<world, live, copy, later, silenced, serverMishaps>>

Reset ==
  LET j == "connection" IN
  /\ at[j] = "reset"
  /\ columns' = [columns EXCEPT !.count = IF copy[j].count > 0 THEN 0 ELSE @]
  /\ failures' = later
  /\ GoTo(j, IF ~copy[j].reachable \/ copy[j].notified THEN "announce" ELSE "idle")
  /\ UNCHANGED <<world, live, copy, later, silenced, serverMishaps>>

(* ... and without one. *)
ConnectionDown ==
  LET j == "connection" IN
  /\ at[j] = "down"
  /\ columns' = [columns EXCEPT !.reachable = Dirty("reachable", copy[j].reachable, FALSE),
                                !.usable = Dirty("usable", copy[j].usable, FALSE)]
  /\ GoTo(j, "increment")
  /\ UNCHANGED <<world, live, copy, history, serverMishaps>>

(* Mutant: announced when the count is at the threshold, not beyond. *)
IncrementAtThreshold ==
  LET j == "connection" IN
  /\ at[j] = "increment"
  /\ columns' = [columns EXCEPT !.count = Incremented(@)] /\ Failure
  /\ GoTo(j, IF Incremented(copy[j].count) = 2 /\ ~copy[j].notified THEN "announce" ELSE "idle")
  /\ UNCHANGED <<world, live, copy, serverMishaps>>

Increment ==
  LET j == "connection" IN
  /\ at[j] = "increment"
  /\ columns' = [columns EXCEPT !.count = Incremented(@)] /\ Failure
  /\ GoTo(j, IF Incremented(copy[j].count) >= 2 /\ ~copy[j].notified THEN "announce" ELSE "idle")
  /\ UNCHANGED <<world, live, copy, serverMishaps>>

(* ServerCheckJob, Server::validateConnection(). *)
Validate ==
  LET j == "check" IN
  /\ at[j] \in {"up", "down"}
  /\ IF copy[j].reachable = (at[j] = "up")
     THEN GoTo(j, "idle") /\ UNCHANGED columns
     ELSE GoTo(j, "announce") /\ columns' = [columns EXCEPT !.reachable = (at[j] = "up")]
  /\ UNCHANGED <<world, live, copy, history, serverMishaps>>

(* Server::isReachableChanged(): from its refresh() to its save() there    *)
(* is no remote call, and no job gets from its start to here meanwhile.    *)
Announce(j) ==
  /\ at[j] = "announce"
  /\ columns' = [columns EXCEPT !.notified =
       IF columns.reachable THEN FALSE ELSE @ \/ columns.count >= 2]
  /\ GoTo(j, "idle")
  /\ UNCHANGED <<world, live, copy, history, serverMishaps>>

(* ServerConnectionCheckJob::failed() reads the columns again. *)
ConnectionTimeout ==
  /\ at["connection"] = "connect" /\ ServerMishap("timeout")
  /\ Remember("connection", columns) /\ GoTo("connection", "down")
  /\ UNCHANGED <<world, live, columns, history>>

(* ServerCheckJob::failed(). *)
CheckTimeout ==
  /\ at["check"] = "connect" /\ ServerMishap("slowCheck")
  /\ columns' = [columns EXCEPT !.count = Incremented(@)] /\ Failure
  /\ GoTo("check", "idle")
  /\ UNCHANGED <<world, live, copy>>

Death(j) ==
  /\ at[j] # "idle" /\ ServerMishap("death")
  /\ silenced' = (silenced \/ at[j] \in {"reset", "announce"})
  /\ GoTo(j, "idle")
  /\ UNCHANGED <<world, live, columns, copy, failures, later>>

Work(j) ==
  \/ Connect(j) \/ Announce(j)
  \/ j = "connection" /\ (ConnectionUp \/ Reset \/ ConnectionDown \/ Increment)
  \/ j = "check" /\ Validate

ServerNext ==
  \/ Flip \/ Push \/ Silence \/ ConnectionTimeout \/ CheckTimeout
  \/ \E j \in Checks : StartCheck(j) \/ Death(j) \/ Work(j)

ServerSpec == ServerInit /\ [][ServerNext]_serverVars

(* Jobs start again and again, and go on. *)
CheckProceeds(j) == StartCheck(j) \/ Work(j)
ServerFairSpec ==
  /\ ServerSpec /\ WF_serverVars(Push) /\ WF_serverVars(Silence)
  /\ \A j \in Checks : WF_serverVars(CheckProceeds(j))

----------------------------------------------------------------------------
(* Transient failures are quiet: the team is told that its server is       *)
(* unreachable only after two failures which no successful connection      *)
(* check that started after the first and was recorded lies between.       *)
FlapIsQuiet ==
  [][~columns.notified /\ columns'.notified => failures >= 2]_serverVars

(* A server that stays down is found unreachable, and the team is told.    *)
OutageIsReported == []<>(up \/ (columns.notified /\ ~columns.reachable))

(* A server that stays up is found reachable, and usable as long as its    *)
(* Docker answers and no longer; and the team is not left with the news    *)
(* that it does not answer; except that Sentinel, once its pushes are      *)
(* accepted, stops the checks that would repeat what a dead worker left    *)
(* unsaid.                                                                 *)
RecoveryIsReported ==
  []<>(\/ ~up
       \/ /\ columns.reachable /\ columns.usable = docker
          /\ columns.notified => live /\ silenced)
=============================================================================
