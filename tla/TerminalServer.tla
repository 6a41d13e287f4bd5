---------------------------- MODULE TerminalServer ----------------------------
(***************************************************************************)
(* One web socket of the terminal server (docker/coolify-realtime): the    *)
(* browser asks for a shell, the server starts ssh in a pseudo terminal    *)
(* (PTY) and must end it again, when the browser asks for another one,     *)
(* when the session has lasted too long, or when the socket closes.        *)
(*                                                                         *)
(* Node runs one callback at a time, so an action is a callback with the   *)
(* continuations of the promises it settles.  The sockets share nothing    *)
(* but the map userSessions, each with a key of its own.                   *)
(***************************************************************************)
EXTENDS Integers, Sequences, FiniteSets

CONSTANTS
  MaxAttempts, \* maxAttempts of killPtyProcess()
  Races,       \* which of "lateAuth", "closeDuringKill" may happen
  MaxMessages  \* bound: messages the browser sends

ASSUME AttemptsAssumption == MaxAttempts \in Nat \ {0} /\ MaxMessages \in Nat

VARIABLES
  client,          \* "there", or "gone" without a word
  socket,          \* "open", "failing" until its close event, "closed"
  isAlive,         \* a pong has arrived since the last ping
  auth,            \* the request for the authorised hosts; "draining" while
                   \* the buffered messages are handled, then "ready"
  pendingMessages, \* what arrived before that
  registered,      \* userSessions has the session
  pty,             \* session.ptyProcess, 0 for null
  isActive,        \* session.isActive
  timer,           \* the PTY session.terminalSessionTimer was set for, or 0
  loops,           \* the kill loops at work, in the order of their timeouts
  live,            \* the PTYs that have not exited
  told,            \* those told to exit
  spawned,         \* number of PTYs so far
  received         \* number of messages so far

link    == <<client, socket, isAlive>>
buffer  == <<auth, pendingMessages, received>>
session == <<pty, isActive, timer, live, spawned>>
killing == <<loops, told>>
vars    == <<link, buffer, registered, session, killing>>

(* A command for an authorised host, one for another host (or none),       *)
(* checkActive "force".  Input, resize and ping change none of the above.  *)
Messages == {"command", "rejected", "force"}

Owners == {"command", "force", "timer", "error", "close"}
Loops == [owner: Owners, attempts: 1..MaxAttempts, msg: Messages]

PtyIds == 1..MaxMessages    \* a message starts one PTY at most

TypeOK ==
  /\ client \in {"there", "gone"}
  /\ socket \in {"open", "failing", "closed"}
  /\ isAlive \in BOOLEAN /\ isActive \in BOOLEAN /\ registered \in BOOLEAN
  /\ auth \in {"waiting", "draining", "ready", "failed"}
  /\ pendingMessages \in Seq(Messages)
  /\ loops \in Seq(Loops)
  /\ pty \in Nat /\ timer \in Nat /\ spawned \in Nat
  /\ live \subseteq Nat \ {0} /\ told \subseteq Nat \ {0}
  /\ received \in 0..MaxMessages

Init ==
  /\ client = "there" /\ socket = "open" /\ isAlive = TRUE
  /\ auth = "waiting" /\ pendingMessages = <<>> /\ received = 0
  /\ registered = FALSE
  /\ pty = 0 /\ isActive = FALSE /\ timer = 0 /\ live = {} /\ spawned = 0
  /\ loops = <<>> /\ told = {}

----------------------------------------------------------------------------
(* killPtyProcess() and handleCommand() *)

CommandWaits == \E i \in DOMAIN loops : loops[i].owner = "command"

(* A first attempt on the PTY the session holds; the next look at it is    *)
(* 500 ms away, as for every loop, so loops wait in the order they began.  *)
StartLoop(owner, m) ==
  /\ loops' = Append(loops, [owner |-> owner, attempts |-> 1, msg |-> m])
  /\ told' = told \cup (live \cap {pty})

(* Mutant: the timer of the session is not set. *)
SpawnWithoutTimer ==
  /\ spawned' = spawned + 1
  /\ pty' = spawned'
  /\ isActive' = TRUE
  /\ timer' = 0
  /\ live' = live \cup {pty'}

Spawn ==
  /\ spawned' = spawned + 1
  /\ pty' = spawned'
  /\ isActive' = TRUE
  /\ timer' = pty'
  /\ live' = live \cup {pty'}

(* handleCommand() once no PTY is active. *)
RunCommand(m) ==
  IF m = "command"
  THEN Spawn
  ELSE timer' = 0 /\ UNCHANGED <<pty, isActive, live, spawned>>

(* Mutant: a command does not wait for the old PTY to exit. *)
HandleWithoutWaiting(m) ==
  \/ /\ m = "force" /\ isActive
     /\ StartLoop("force", m) /\ UNCHANGED session
  \/ /\ m = "force" /\ ~isActive /\ UNCHANGED <<session, killing>>
  \/ /\ m # "force" /\ RunCommand(m) /\ UNCHANGED killing

(* handleMessage().  A command that finds an active PTY awaits its end.    *)
Handle(m) ==
  \/ /\ isActive
     /\ StartLoop(IF m = "force" THEN "force" ELSE "command", m)
     /\ UNCHANGED session
  \/ /\ m = "force" /\ ~isActive /\ UNCHANGED <<session, killing>>
  \/ /\ m # "force" /\ ~isActive /\ RunCommand(m) /\ UNCHANGED killing

(* What awaits a loop goes on: a command if the PTY has exited, the        *)
(* removal of the session in any case.                                     *)
Resolve(loop, exited) ==
  /\ registered' = (registered /\ loop.owner # "close")
  /\ IF exited
     THEN IF loop.owner = "command"
          THEN RunCommand(loop.msg)
          ELSE timer' = 0 /\ UNCHANGED <<pty, isActive, live, spawned>>
     ELSE UNCHANGED session

Quiet == auth # "draining"    \* no callback is running

(* The timeout of the loop that has waited longest. *)
KillLoop ==
  /\ Quiet /\ loops # <<>>
  /\ LET loop == Head(loops) IN
       IF isActive /\ loop.attempts < MaxAttempts
       THEN /\ loops' = Append(Tail(loops), [loop EXCEPT !.attempts = @ + 1])
            /\ told' = told \cup (live \cap {pty})
            /\ UNCHANGED <<session, registered>>
       ELSE /\ loops' = Tail(loops) /\ UNCHANGED told
            /\ Resolve(loop, ~isActive)
  /\ UNCHANGED <<link, buffer>>

----------------------------------------------------------------------------
(* The connection *)

(* Mutant: the buffered messages are handled before the session is registered. *)
AuthOkUnregistered ==
  /\ auth = "waiting"
  /\ auth' = "draining"
  /\ UNCHANGED <<link, pendingMessages, received, registered, session, killing>>

(* The answer of /terminal/auth/ips: the session is registered, and what   *)
(* has been buffered is handled before anything else.                      *)
AuthOk ==
  /\ auth = "waiting"
  /\ socket = "closed" => "lateAuth" \in Races
  /\ auth' = "draining" /\ registered' = TRUE
  /\ UNCHANGED <<link, pendingMessages, received, session, killing>>

(* Or it fails, and the server closes the socket. *)
AuthFails ==
  /\ auth = "waiting"
  /\ auth' = "failed"
  /\ socket' = IF socket = "closed" THEN "closed" ELSE "failing"
  /\ UNCHANGED <<client, isAlive, pendingMessages, received, registered,
                 session, killing>>

Drain ==
  /\ auth = "draining"
  /\ IF pendingMessages = <<>>
     THEN auth' = "ready" /\ UNCHANGED <<pendingMessages, session, killing>>
     ELSE /\ Handle(Head(pendingMessages))
          /\ pendingMessages' = Tail(pendingMessages)
          /\ UNCHANGED auth
  /\ UNCHANGED <<link, received, registered>>

Receive ==
  /\ Quiet /\ client = "there" /\ socket = "open"
  /\ received < MaxMessages
  /\ received' = received + 1
  /\ \E m \in Messages :
       IF auth = "ready"
       THEN Handle(m) /\ UNCHANGED pendingMessages
       ELSE /\ pendingMessages' = Append(pendingMessages, m)
            /\ UNCHANGED <<session, killing>>
  /\ UNCHANGED <<link, auth, registered>>

(* killPtyProcess() for the timer, an error or the close of the socket:    *)
(* without a session or a PTY there is nothing to do.                      *)
Killable == registered /\ pty # 0

(* Mutant: the PTY is ended, the session not removed. *)
CloseWithoutRemoval ==
  /\ socket' = "closed"
  /\ UNCHANGED registered
  /\ IF Killable THEN StartLoop("error", "force") ELSE UNCHANGED killing

(* The close event: handleClose(). *)
Close ==
  /\ socket' = "closed"
  /\ IF Killable
     THEN StartLoop("close", "force") /\ UNCHANGED registered
     ELSE registered' = FALSE /\ UNCHANGED killing

MayClose == CommandWaits => "closeDuringKill" \in Races

SocketCloses ==
  /\ Quiet /\ socket # "closed" /\ MayClose
  /\ Close
  /\ UNCHANGED <<client, isAlive, buffer, session>>

(* Mutant: an error removes the session. *)
SocketFailsAndRemoves ==
  /\ Quiet /\ socket = "open"
  /\ socket' = "failing"
  /\ IF Killable
     THEN StartLoop("close", "force") /\ UNCHANGED registered
     ELSE registered' = FALSE /\ UNCHANGED killing
  /\ UNCHANGED <<client, isAlive, buffer, session>>

(* handleError(); a close event follows. *)
SocketFails ==
  /\ Quiet /\ socket = "open"
  /\ socket' = "failing"
  /\ IF Killable THEN StartLoop("error", "force") ELSE UNCHANGED killing
  /\ UNCHANGED <<client, isAlive, buffer, registered, session>>

ClientVanishes ==
  /\ client = "there" /\ client' = "gone"
  /\ UNCHANGED <<socket, isAlive, buffer, registered, session, killing>>

(* Mutant: isAlive is not reset. *)
HeartbeatWithoutReset ==
  /\ Quiet /\ socket # "closed"
  /\ ~isAlive /\ MayClose /\ Close
  /\ UNCHANGED <<client, isAlive, buffer, session>>

(* Every 30 seconds: terminate the socket, or ping. *)
Heartbeat ==
  /\ Quiet /\ socket # "closed"
  /\ IF isAlive
     THEN isAlive' = FALSE /\ UNCHANGED <<socket, registered, killing>>
     ELSE MayClose /\ Close /\ UNCHANGED isAlive
  /\ UNCHANGED <<client, buffer, session>>

Pong ==
  /\ Quiet /\ client = "there" /\ socket = "open" /\ ~isAlive
  /\ isAlive' = TRUE
  /\ UNCHANGED <<client, socket, buffer, registered, session, killing>>

----------------------------------------------------------------------------
(* PTYs *)

(* Mutant: the timer of the session survives the PTY. *)
PtyExitsTimerStays(p) ==
  /\ Quiet /\ p \in live
  /\ live' = live \ {p}
  /\ isActive' = FALSE
  /\ UNCHANGED <<link, buffer, registered, pty, timer, spawned, killing>>

(* onExit: by itself, or because it was told to. *)
PtyExits(p) ==
  /\ Quiet /\ p \in live
  /\ live' = live \ {p}
  /\ isActive' = FALSE /\ timer' = 0
  /\ UNCHANGED <<link, buffer, registered, pty, spawned, killing>>

(* The session has lasted for MAX_TERMINAL_SESSION_TIMEOUT_SECONDS. *)
TimerFires ==
  /\ Quiet /\ timer # 0
  /\ timer' = 0
  /\ IF Killable THEN StartLoop("timer", "force") ELSE UNCHANGED killing
  /\ UNCHANGED <<link, buffer, registered, pty, isActive, live, spawned>>

Next ==
  \/ AuthOk \/ AuthFails \/ Drain \/ Receive
  \/ SocketCloses \/ SocketFails \/ ClientVanishes \/ Heartbeat \/ Pong
  \/ KillLoop \/ TimerFires
  \/ \E p \in live : PtyExits(p)

Spec == Init /\ [][Next]_vars

(* Timers and intervals fire, a failing socket closes, buffered messages   *)
(* are handled, and a PTY that has been told to exit does.  The request    *)
(* for the authorised hosts has no timeout: it may never be answered.      *)
Fairness ==
  /\ WF_vars(Drain) /\ WF_vars(KillLoop) /\ WF_vars(TimerFires)
  /\ WF_vars(Heartbeat) /\ WF_vars(socket = "failing" /\ SocketCloses)
  /\ \A p \in PtyIds : WF_vars(p \in told /\ PtyExits(p))

FairSpec == Spec /\ Fairness

----------------------------------------------------------------------------
(* Properties *)

(* Loops that end with the removal of the session run for closed sockets.  *)
CloseLoopsAreLate ==
  \A i \in DOMAIN loops : loops[i].owner = "close" => socket = "closed"

(* The session knows every PTY that is alive: there is at most one, it is  *)
(* session.ptyProcess, and isActive tells that it is there.  A PTY behind  *)
(* the session's back would be a shell that no kill loop reaches.          *)
SessionOwnsPty == live = IF isActive THEN {pty} ELSE {}

(* The timer that limits a session is the one set for the PTY at work, and *)
(* no timer of an earlier PTY is left to end its successor early.          *)
TimerIsCurrent == timer # 0 => isActive /\ timer = pty

(* Whenever a message is handled, userSessions has the session, which      *)
(* handleCommand() uses without checking: an exception there would end the *)
(* server, with the terminals of all other users.                          *)
CommandFindsSession ==
  auth = "draining" \/ (auth = "ready" /\ socket = "open") => registered

(* The inductive invariant. *)
Inv == /\ TypeOK /\ CloseLoopsAreLate
       /\ SessionOwnsPty /\ TimerIsCurrent /\ CommandFindsSession

(* A closed socket whose session is still registered has a kill loop that  *)
(* will remove it.                                                         *)
ClosingIsWatched ==
  socket = "closed" /\ registered =>
    \E i \in DOMAIN loops : loops[i].owner = "close"

(* Seen from its shells, a socket keeps the promise of TerminalShell: a    *)
(* PTY starts only when the one before has exited, however commands, kill  *)
(* loops, timers and closes overlap.                                       *)
Shell == INSTANCE TerminalShell
           WITH shell <- IF isActive THEN pty ELSE 0, started <- spawned

ImplementsShell == Shell!Spec

(* Every PTY comes to an end: when its user leaves, or, "always", at the   *)
(* maximum terminal session lifetime.                                      *)
PtyEnds == \A p \in PtyIds : []<>(p \notin live)

(* A browser that has vanished is noticed, and its session removed.        *)
VanishedIsRemoved == client = "gone" ~> socket = "closed" /\ ~registered
=============================================================================
