---------------------------- MODULE TerminalClient ----------------------------
(***************************************************************************)
(* The browser's side of a terminal (resources/js/terminal.js): the page   *)
(* keeps a web socket to the terminal server, connects again when it is    *)
(* lost, and then repeats the command whose shell was lost with it.        *)
(*                                                                         *)
(* The page is a record with the fields of the component, its methods are  *)
(* operators from page to page, and an action is the callback of an event  *)
(* or a timer.  Of the server there is what TerminalServer promises: one   *)
(* shell at a time, which dies with its connection.                        *)
(***************************************************************************)
EXTENDS Integers, Sequences, Functions

CONSTANTS
  MaxReconnectAttempts,
  Habits,      \* which of "switch", "hasty", "leave" the user has
  MaxCommands, \* bound: commands the user gives
  MaxLosses    \* bound: failed attempts and broken connections

VARIABLES
  page,     \* the fields of terminalData(), see Pages
  line,     \* the network under an open socket: "up" or "dead"
  toServer, \* messages under way
  toPage,
  shell,  \* the command whose shell is at work, 0 for none
  awaits, \* the message that awaits the end of a shell
  given,  \* number of commands so far
  over,   \* the commands whose shell the page has seen end
  losses

connection == <<line, toServer, toPage>>
server     == <<shell, awaits>>
history    == <<given, over, losses>>
pageVars       == <<page, connection, server, history>>

Commands == 1..MaxCommands
NoCommand == 0
Message(kind, c) == [kind |-> kind, command |-> c]
ToServer == [kind : {"none", "ping", "force", "command"}, command : Nat]
Nothing == Message("none", 0)
Answers == {"pong", "pty-ready", "pty-exited", "unprocessable", "refused"}

Pages == [
  socket            : {"connecting", "open", "closing", "closed"},
  clean             : BOOLEAN,   \* close(1000) was called on the open socket
  connectionState   : {"connecting", "connected", "disconnected", "reconnecting"},
  reconnectAttempts : Nat,
  reconnectInterval : BOOLEAN,   \* the reconnect timeout the page knows
  forgotten         : Nat,       \* those whose handle has been overwritten
  connectionTimeout : BOOLEAN,
  keepAlive         : {"null", "running", "cleared"},
  pingTimeout       : {"null", "ping", "resume"},
  pendingCommand    : Nat,
  lastSentCommand   : Nat,
  terminalActive    : BOOLEAN,
  visible           : BOOLEAN,
  wasConnected      : BOOLEAN,   \* wasConnectedBeforeHidden
  left              : BOOLEAN ]  \* cleanup() has run

PageTypeOK ==
  /\ page \in Pages
  /\ line \in {"up", "dead"}
  /\ toServer \in Seq(ToServer) /\ toPage \in Seq(Answers)
  /\ shell \in Nat /\ awaits \in ToServer
  /\ given \in Nat /\ losses \in Nat
  /\ over \subseteq Nat

----------------------------------------------------------------------------
(* Methods of the page *)

ClearAllTimers(p) ==
  [p EXCEPT !.reconnectInterval = FALSE, !.connectionTimeout = FALSE,
            !.keepAlive = "null", !.pingTimeout = "null"]

(* A socket that is still closing counts as connected. *)
InitializeWebSocket(p) ==
  IF p.socket # "closed" THEN p
  ELSE [ClearAllTimers(p) EXCEPT
          !.connectionState = "connecting", !.socket = "connecting",
          !.clean = FALSE, !.connectionTimeout = TRUE]

(* Mutant: a second attempt is not scheduled. *)
ScheduleReconnectOnce(p) ==
  IF p.reconnectAttempts # 0 THEN p
  ELSE [p EXCEPT !.connectionState = "reconnecting", !.reconnectInterval = TRUE]

ScheduleReconnect(p) ==
  IF p.reconnectAttempts >= MaxReconnectAttempts THEN p
  ELSE [p EXCEPT !.connectionState = "reconnecting",
                 !.forgotten = @ + IF p.reconnectInterval THEN 1 ELSE 0,
                 !.reconnectInterval = TRUE]

HandleConnectionError(p) ==
  ScheduleReconnect([p EXCEPT !.connectionState = "disconnected"])

(* With the watcher of terminalActive, which clears the interval but keeps *)
(* its handle.                                                             *)
Deactivate(p) ==
  [p EXCEPT !.terminalActive = FALSE,
            !.keepAlive = IF p.terminalActive /\ @ = "running" THEN "cleared" ELSE @]

(* What has been waiting is dropped, unless this was the first failure. *)
ResetTerminal(p) ==
  IF p.reconnectAttempts > 0
  THEN Deactivate([p EXCEPT !.pendingCommand = NoCommand])
  ELSE p

(* Mutant: the timers are cleared last. *)
CloseAndClear(p, clean) ==
  LET closed == [p EXCEPT !.socket = "closed", !.connectionState = "disconnected"]
  IN ClearAllTimers(IF clean THEN closed ELSE ScheduleReconnect(ResetTerminal(closed)))

HandleSocketClose(p, clean) ==
  LET closed == ClearAllTimers([p EXCEPT !.socket = "closed",
                                         !.connectionState = "disconnected"])
  IN IF clean THEN closed ELSE ScheduleReconnect(ResetTerminal(closed))

(* The error event is followed by the close event in the same task. *)
HandleSocketError(p) == HandleConnectionError([p EXCEPT !.socket = "closed"])

ResetPingTimeout(p) == [p EXCEPT !.pingTimeout = "ping"]

CloseSocket(p, clean) ==
  CASE p.socket = "open"       -> [p EXCEPT !.socket = "closing", !.clean = clean]
    [] p.socket = "connecting" -> [p EXCEPT !.socket = "closing"]
    [] OTHER                   -> p

(* Mutant: only the first command is remembered. *)
SentFirst(p, c) ==
  [p EXCEPT !.lastSentCommand = IF @ = NoCommand THEN c ELSE @]

Sent(p, c) == [p EXCEPT !.lastSentCommand = c]

(* Mutant: the command is not repeated after a reconnect. *)
PendingOnly(p) == p.pendingCommand

(* What handleSocketOpen() sends. *)
OnOpen(p) ==
  IF p.pendingCommand # NoCommand THEN p.pendingCommand ELSE p.lastSentCommand

HandleSocketOpen(p) ==
  LET open == ResetPingTimeout([p EXCEPT
        !.socket = "open", !.connectionState = "connected",
        !.reconnectAttempts = 0, !.connectionTimeout = FALSE,
        !.pendingCommand = NoCommand,
        !.keepAlive = IF @ = "null" THEN "running" ELSE @])
  IN IF OnOpen(p) = NoCommand THEN open ELSE Sent(open, OnOpen(p))

IsWebSocketReady(p) == p.connectionState = "connected" /\ p.socket = "open"

(* Mutant: the end of a shell does not make the page forget its command. *)
HandleAnswerAndRemember(p, answer) ==
  CASE answer = "pong"      -> ResetPingTimeout(p)
    [] answer = "pty-ready" -> [p EXCEPT !.terminalActive = TRUE]
    [] OTHER                -> Deactivate(p)

(* handleSocketMessage(); output of the shell is left out. *)
HandleAnswer(p, answer) ==
  CASE answer = "pong"      -> ResetPingTimeout(p)
    [] answer = "pty-ready" -> [p EXCEPT !.terminalActive = TRUE]
    [] answer = "refused"   -> Deactivate(p)
    [] OTHER -> Deactivate([p EXCEPT !.lastSentCommand = NoCommand])

----------------------------------------------------------------------------
(* The page has called initializeWebSocket() for the first time. *)
PageInit ==
  /\ page = InitializeWebSocket(
       [socket |-> "closed", clean |-> FALSE, connectionState |-> "disconnected",
        reconnectAttempts |-> 0, reconnectInterval |-> FALSE, forgotten |-> 0,
        connectionTimeout |-> FALSE, keepAlive |-> "null", pingTimeout |-> "null",
        pendingCommand |-> NoCommand, lastSentCommand |-> NoCommand,
        terminalActive |-> FALSE, visible |-> TRUE, wasConnected |-> FALSE,
        left |-> FALSE])
  /\ line = "up" /\ toServer = <<>> /\ toPage = <<>>
  /\ shell = 0 /\ awaits = Nothing
  /\ given = 0 /\ over = {} /\ losses = 0

(* Everything that belongs to a connection ends with it: what is under     *)
(* way is lost, and the server ends the shell.                             *)
ConnectionEnds ==
  /\ line' = "up" /\ toServer' = <<>> /\ toPage' = <<>>
  /\ shell' = 0 /\ awaits' = Nothing

Loss == losses < MaxLosses /\ losses' = losses + 1 /\ UNCHANGED <<given, over>>

ConnectSucceeds ==
  /\ page.socket = "connecting"
  /\ page' = HandleSocketOpen(page)
  /\ toServer' = IF OnOpen(page) = NoCommand THEN <<>>
                 ELSE <<Message("command", OnOpen(page))>>
  /\ UNCHANGED <<line, toPage, server, history>>

(* The handshake is refused: an error event and a close event. *)
ConnectFails ==
  /\ page.socket = "connecting"
  /\ page' = HandleSocketClose(HandleSocketError(page), FALSE)
  /\ Loss /\ UNCHANGED <<connection, server>>

ConnectTimesOut ==
  /\ page.connectionTimeout
  /\ LET fired == [page EXCEPT !.connectionTimeout = FALSE] IN
     IF page.connectionState = "connecting"
     THEN page' = HandleConnectionError(CloseSocket(fired, FALSE)) /\ Loss
     ELSE page' = fired /\ UNCHANGED history
  /\ UNCHANGED <<connection, server>>

(* An open socket is lost, because the server ends or refuses to go on, or *)
(* the network tells so; the error event need not come.                    *)
ConnectionLost ==
  /\ page.socket = "open"
  /\ \E p \in {page, HandleSocketError(page)} : page' = HandleSocketClose(p, FALSE)
  /\ Loss /\ ConnectionEnds

(* The close that the page has asked for is complete.  A socket that never *)
(* opened fails; an open one closes with the page's code if the server     *)
(* answers.                                                                *)
CloseCompletes ==
  /\ page.socket = "closing"
  /\ \/ page' = HandleSocketClose(page, page.clean /\ line = "up")
     \/ ~page.clean /\ page' = HandleSocketClose(HandleSocketError(page), FALSE)
  /\ ConnectionEnds /\ UNCHANGED history

(* A proxy forgets an idle connection: nobody hears of it.  The server's   *)
(* own heartbeat ends the shell.                                           *)
LineDies ==
  /\ page.socket = "open" /\ line = "up"
  /\ line' = "dead" /\ toServer' = <<>> /\ toPage' = <<>>
  /\ shell' = 0 /\ awaits' = Nothing
  /\ Loss /\ UNCHANGED page

ReconnectTimer ==
  /\ page.reconnectInterval
  /\ page' = InitializeWebSocket([page EXCEPT !.reconnectInterval = FALSE,
                                              !.reconnectAttempts = @ + 1])
  /\ UNCHANGED <<connection, server, history>>

ForgottenTimer ==
  /\ page.forgotten > 0
  /\ page' = InitializeWebSocket([page EXCEPT !.forgotten = @ - 1,
                                              !.reconnectAttempts = @ + 1])
  /\ UNCHANGED <<connection, server, history>>

----------------------------------------------------------------------------
(* Timers of an open connection, and the tab *)

Send(m) == toServer' = IF page.socket = "open" /\ line = "up"
                       THEN Append(toServer, m) ELSE toServer

(* One ping under way at a time is enough. *)
Pinging == "pong" \in Range(toPage) \/ Message("ping", 0) \in Range(toServer)

KeepAlive ==
  /\ page.keepAlive = "running" /\ ~Pinging
  /\ page' = IF page.socket # "open" /\ page.connectionState = "disconnected"
             THEN InitializeWebSocket(page) ELSE page
  /\ Send(Message("ping", 0))
  /\ UNCHANGED <<line, toPage, server, history>>

(* A missed heartbeat is counted.  Only a pong and a new connection set    *)
(* this timeout again, and both reset the count: it never reaches          *)
(* maxHeartbeatMisses and is left out.                                     *)
PingTimeout ==
  /\ page.pingTimeout = "ping"
  /\ page' = [page EXCEPT !.pingTimeout = "null"]
  /\ UNCHANGED <<connection, server, history>>

ResumeTimeout ==
  /\ page.pingTimeout = "resume"
  /\ page' = CloseSocket([page EXCEPT !.pingTimeout = "null"], FALSE)
  /\ UNCHANGED <<connection, server, history>>

Hide ==
  /\ page.visible
  /\ page' = [page EXCEPT !.visible = FALSE, !.pingTimeout = "null",
                          !.wasConnected = page.connectionState = "connected"]
  /\ UNCHANGED <<connection, server, history>>

(* Mutant: the usual timeout is set when the tab is visible again. *)
ShowUsual ==
  /\ ~page.visible
  /\ page' = ResetPingTimeout([page EXCEPT !.visible = TRUE])
  /\ IF Pinging THEN UNCHANGED toServer ELSE Send(Message("ping", 0))
  /\ UNCHANGED <<line, toPage, server, history>>

(* The connection is probed, or made anew. *)
Show ==
  /\ ~page.visible
  /\ LET shown == [page EXCEPT !.visible = TRUE] IN
     IF page.wasConnected /\ page.socket = "open"
     THEN /\ page' = [shown EXCEPT !.pingTimeout = "resume"]
          /\ IF Pinging THEN UNCHANGED toServer ELSE Send(Message("ping", 0))
     ELSE /\ page' = IF page.wasConnected /\ page.connectionState # "connected"
                     THEN InitializeWebSocket([shown EXCEPT !.reconnectAttempts = 0])
                     ELSE shown
          /\ UNCHANGED toServer
  /\ UNCHANGED <<line, toPage, server, history>>

----------------------------------------------------------------------------
(* The user *)

(* A shell that has been asked for and has not ended for the page. *)
AtWork == \/ shell # 0 \/ "pty-exited" \in Range(toPage)
          \/ \E m \in Range(toServer) : m.kind = "command"

(* Habits that are not assumed: "switch" to another shell while one is at  *)
(* work, "hasty" commands while an earlier one waits to be repeated.       *)
Usual ==
  /\ "switch" \notin Habits => ~AtWork
  /\ "hasty" \notin Habits =>
       (IsWebSocketReady(page) /\ line = "up") \/ page.lastSentCommand = NoCommand

(* sendCommandWhenReady() *)
GiveCommand ==
  /\ given < MaxCommands /\ ~page.left /\ Usual
  /\ given' = given + 1
  /\ IF IsWebSocketReady(page)
     THEN page' = Sent(page, given') /\ Send(Message("command", given'))
     ELSE page' = [page EXCEPT !.pendingCommand = given'] /\ UNCHANGED toServer
  /\ UNCHANGED <<line, toPage, server, over, losses>>

(* cleanup() *)
Leave ==
  /\ "leave" \in Habits /\ ~page.left
  /\ page' = CloseSocket([ClearAllTimers(page) EXCEPT !.left = TRUE,
                            !.connectionState = "disconnected",
                            !.pendingCommand = NoCommand], TRUE)
  /\ Send(Message("force", 0))
  /\ UNCHANGED <<line, toPage, server, history>>

PageReceives ==
  /\ page.socket = "open" /\ toPage # <<>>
  /\ page' = HandleAnswer(page, Head(toPage))
  /\ toPage' = Tail(toPage)
  /\ over' = over \cup IF Head(toPage) = "pty-exited"
                       THEN {page.lastSentCommand} \ {NoCommand} ELSE {}
  /\ UNCHANGED <<line, toServer, server, given, losses>>

----------------------------------------------------------------------------
(* The server *)

Answer(a) == toPage' = Append(toPage, a)

(* A command whose host is authorised, or not. *)
PageRunsCommand(c) == \/ shell' = c /\ Answer("pty-ready")
                      \/ shell' = 0 /\ Answer("refused")

ServerReceives ==
  /\ toServer # <<>> /\ awaits = Nothing
  /\ toServer' = Tail(toServer)
  /\ LET m == Head(toServer) IN
     \/ m.kind = "ping" /\ Answer("pong") /\ UNCHANGED server
     \/ m.kind # "ping" /\ shell # 0 /\ awaits' = m /\ UNCHANGED <<shell, toPage>>
     \/ m.kind = "force" /\ shell = 0 /\ UNCHANGED <<server, toPage>>
     \/ m.kind = "command" /\ shell = 0 /\ PageRunsCommand(m.command) /\ UNCHANGED awaits
  /\ UNCHANGED <<page, line, history>>

(* By itself, at the end of its time, or because it was told to. *)
ShellExits ==
  /\ shell # 0
  /\ shell' = 0 /\ Answer("pty-exited")
  /\ UNCHANGED <<page, line, toServer, awaits, history>>

(* The kill loop ends, with the shell gone or still there. *)
KillEnds ==
  /\ awaits # Nothing
  /\ awaits' = Nothing
  /\ \/ awaits.kind = "command" /\ shell = 0 /\ PageRunsCommand(awaits.command)
     \/ awaits.kind = "command" /\ shell # 0 /\ Answer("unprocessable") /\ UNCHANGED shell
     \/ awaits.kind = "force" /\ UNCHANGED <<shell, toPage>>
  /\ UNCHANGED <<page, line, toServer, history>>

PageNext ==
  \/ ConnectSucceeds \/ ConnectFails \/ ConnectTimesOut \/ ConnectionLost
  \/ CloseCompletes \/ LineDies \/ ReconnectTimer \/ ForgottenTimer
  \/ KeepAlive \/ PingTimeout \/ ResumeTimeout \/ Hide \/ Show
  \/ GiveCommand \/ Leave \/ PageReceives
  \/ ServerReceives \/ ShellExits \/ KillEnds

Connecting == ConnectSucceeds \/ ConnectFails \/ ConnectTimesOut

(* An attempt to connect ends in one way or another, a close completes,    *)
(* timers fire.                                                            *)
PageFairness ==
  /\ WF_pageVars(Connecting)
  /\ WF_pageVars(CloseCompletes) /\ WF_pageVars(ReconnectTimer)
  /\ WF_pageVars(ResumeTimeout)

PageSpec == PageInit /\ [][PageNext]_pageVars
PageFairSpec == PageSpec /\ PageFairness

----------------------------------------------------------------------------
(* Properties *)

(* A page that has lost its socket will try again, unless it has used up   *)
(* its attempts, the socket was closed on purpose, or the user has left:   *)
(* no order of errors, timeouts and tab changes clears the last timer.     *)
ReconnectIsPending ==
  page.socket = "closed" /\ ~page.left =>
    page.reconnectInterval \/ page.reconnectAttempts >= MaxReconnectAttempts

PageQuiet == /\ page.socket = "open" /\ line = "up" /\ ~page.left
             /\ toServer = <<>> /\ toPage = <<>> /\ awaits = Nothing

(* The page shows a terminal only if there is a shell behind it, also      *)
(* after the connection was lost and made again.                           *)
ShownIsThere == PageQuiet /\ page.terminalActive => shell # 0

(* What is repeated after a reconnect is what the user asked for last.     *)
LatestIsShown == PageQuiet => shell \in {0, given}

(* A shell that the user has seen end does not start again by itself.      *)
EndedStaysEnded == shell \notin over

GivenUp == page.socket = "closed" /\ page.reconnectAttempts >= MaxReconnectAttempts

(* A lost connection is made again, unless the page gives up or is left.   *)
ComesBack == []<>(page.socket = "open" \/ GivenUp \/ page.left)

(* A connection that has died while the tab was hidden is noticed when the *)
(* user comes back to the tab and stays.                                   *)
DeadLineIsNoticed ==
  <>[](page.visible) =>
    (~page.visible /\ page.wasConnected /\ line = "dead" ~> line # "dead" \/ page.left)
=============================================================================
