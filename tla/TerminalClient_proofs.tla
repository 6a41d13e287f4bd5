------------------------- MODULE TerminalClient_proofs -------------------------
(***************************************************************************)
(* The page never gets stuck without a socket, whatever the user does; and *)
(* for a user who waits it shows a shell that there is, the last one that  *)
(* was asked for, and none that has been seen to end.  For any number of   *)
(* attempts, commands and losses.                                          *)
(***************************************************************************)
EXTENDS TerminalClient, SequenceTheorems, TLAPS

(* A clean close is the page's own, at the end of its life. *)
CleanWhenLeft(p) == p.clean => p.left

(* The page of a state, and what a handler may make of it. *)
WillTryAgain(p) ==
  p.socket = "closed" /\ ~p.left =>
    p.reconnectInterval \/ p.reconnectAttempts >= MaxReconnectAttempts

PageOK(p) == p \in Pages /\ CleanWhenLeft(p) /\ WillTryAgain(p)

ConnectionOK ==
  /\ line \in {"up", "dead"}
  /\ toServer \in Seq(ToServer) /\ toPage \in Seq(Answers)
  /\ shell \in Nat /\ awaits \in ToServer
  /\ given \in Nat /\ losses \in Nat /\ over \subseteq Nat

Inv == PageOK(page) /\ ConnectionOK

LEMMA InvParts == Inv => PageTypeOK /\ ReconnectIsPending
  BY DEF Inv, PageOK, ConnectionOK, PageTypeOK, ReconnectIsPending, WillTryAgain

----------------------------------------------------------------------------
(* The methods *)

LEMMA ClearedPage ==
  ASSUME NEW p \in Pages
  PROVE  /\ ClearAllTimers(p) \in Pages
         /\ ClearAllTimers(p).socket = p.socket
         /\ ClearAllTimers(p).clean = p.clean
         /\ ClearAllTimers(p).left = p.left
  BY DEF ClearAllTimers, Pages

(* A new socket, or the one there is. *)
LEMMA InitializedPage ==
  ASSUME NEW p \in Pages, CleanWhenLeft(p)
  PROVE  PageOK(InitializeWebSocket(p))
<1> DEFINE q == ClearAllTimers(p)
<1>1. q \in Pages
  BY ClearedPage
<1>2. CASE p.socket # "closed"
  BY <1>2 DEF InitializeWebSocket, PageOK, WillTryAgain
<1>3. CASE p.socket = "closed"
  <2> HIDE DEF q
  <2> DEFINE r == [q EXCEPT !.connectionState = "connecting", !.socket = "connecting",
                            !.clean = FALSE, !.connectionTimeout = TRUE]
  <2>1. r \in Pages /\ r.socket = "connecting" /\ r.clean = FALSE
    BY <1>1 DEF Pages
  <2>2. InitializeWebSocket(p) = r
    BY <1>3 DEF InitializeWebSocket, q
  <2>. QED  BY <2>1, <2>2 DEF PageOK, WillTryAgain, CleanWhenLeft
<1>. QED  BY <1>2, <1>3

(* Whatever has cleared the timers before, the page will try again. *)
LEMMA ScheduledPage ==
  ASSUME NEW p \in Pages, CleanWhenLeft(p)
  PROVE  /\ PageOK(ScheduleReconnect(p))
         /\ ScheduleReconnect(p).socket = p.socket
<1>1. CASE p.reconnectAttempts >= MaxReconnectAttempts
  BY <1>1 DEF ScheduleReconnect, PageOK, WillTryAgain
<1>2. CASE ~(p.reconnectAttempts >= MaxReconnectAttempts)
  <2> DEFINE q == [p EXCEPT !.connectionState = "reconnecting",
                            !.forgotten = @ + IF p.reconnectInterval THEN 1 ELSE 0,
                            !.reconnectInterval = TRUE]
  <2>1. PICK n \in Nat : n = p.forgotten + IF p.reconnectInterval THEN 1 ELSE 0
    <3>1. p.forgotten \in Nat
      BY DEF Pages
    <3>. QED  BY <3>1
  <2>2. q = [p EXCEPT !.connectionState = "reconnecting",
                      !.forgotten = n, !.reconnectInterval = TRUE]
    BY <2>1
  <2> HIDE DEF q
  <2>3. q \in Pages /\ q.reconnectInterval /\ q.socket = p.socket
        /\ q.clean = p.clean /\ q.left = p.left
    BY <2>2 DEF Pages
  <2>4. ScheduleReconnect(p) = q
    BY <1>2 DEF ScheduleReconnect, q
  <2>. QED  BY <2>3, <2>4 DEF PageOK, WillTryAgain, CleanWhenLeft
<1>. QED  BY <1>1, <1>2

LEMMA ErroredPage ==
  ASSUME NEW p \in Pages, CleanWhenLeft(p)
  PROVE  /\ PageOK(HandleConnectionError(p))
         /\ PageOK(HandleSocketError(p))
<1>1. ASSUME NEW q \in Pages, CleanWhenLeft(q)
      PROVE  PageOK(HandleConnectionError(q))
  <2> DEFINE r == [q EXCEPT !.connectionState = "disconnected"]
  <2>1. r \in Pages /\ CleanWhenLeft(r)
    BY <1>1 DEF Pages, CleanWhenLeft
  <2>. QED  BY <2>1, ScheduledPage DEF HandleConnectionError
<1>2. [p EXCEPT !.socket = "closed"] \in Pages
      /\ CleanWhenLeft([p EXCEPT !.socket = "closed"])
  BY DEF Pages, CleanWhenLeft
<1>. QED  BY <1>1, <1>2 DEF HandleSocketError

LEMMA DeactivatedPage ==
  ASSUME NEW p \in Pages
  PROVE  /\ Deactivate(p) \in Pages
         /\ Deactivate(p).socket = p.socket
         /\ Deactivate(p).clean = p.clean
         /\ Deactivate(p).left = p.left
  BY DEF Deactivate, Pages

LEMMA ResetPage ==
  ASSUME NEW p \in Pages, CleanWhenLeft(p)
  PROVE  ResetTerminal(p) \in Pages /\ CleanWhenLeft(ResetTerminal(p))
<1> DEFINE q == [p EXCEPT !.pendingCommand = NoCommand]
<1>1. q \in Pages /\ CleanWhenLeft(q)
  BY DEF Pages, CleanWhenLeft, NoCommand
<1>2. Deactivate(q) \in Pages /\ CleanWhenLeft(Deactivate(q))
  BY <1>1, DeactivatedPage DEF CleanWhenLeft
<1>. QED  BY <1>2 DEF ResetTerminal

LEMMA ClosedPage ==
  ASSUME NEW p \in Pages, CleanWhenLeft(p), NEW clean \in BOOLEAN, clean => p.left
  PROVE  PageOK(HandleSocketClose(p, clean))
<1> DEFINE q == [p EXCEPT !.socket = "closed", !.connectionState = "disconnected"]
           r == ClearAllTimers(q)
<1>1. q \in Pages /\ q.clean = p.clean /\ q.left = p.left
  BY DEF Pages
<1>2. r \in Pages /\ CleanWhenLeft(r) /\ r.left = p.left
  BY <1>1, ClearedPage DEF CleanWhenLeft
<1> HIDE DEF q
<1>3. CASE clean
  <2>1. HandleSocketClose(p, clean) = r
    BY <1>3 DEF HandleSocketClose, q
  <2>. QED  BY <1>2, <1>3, <2>1 DEF PageOK, WillTryAgain
<1>4. CASE ~clean
  <2>1. HandleSocketClose(p, clean) = ScheduleReconnect(ResetTerminal(r))
    BY <1>4 DEF HandleSocketClose, q
  <2>2. ResetTerminal(r) \in Pages /\ CleanWhenLeft(ResetTerminal(r))
    BY <1>2, ResetPage
  <2>. QED  BY <2>1, <2>2, ScheduledPage
<1>. QED  BY <1>3, <1>4

LEMMA OpenedPage ==
  ASSUME NEW p \in Pages, CleanWhenLeft(p)
  PROVE  PageOK(HandleSocketOpen(p)) /\ OnOpen(p) \in Nat
<1>1. OnOpen(p) \in Nat
  BY DEF OnOpen, Pages
<1> DEFINE q == [p EXCEPT !.socket = "open", !.connectionState = "connected",
        !.reconnectAttempts = 0, !.connectionTimeout = FALSE,
        !.pendingCommand = NoCommand,
        !.keepAlive = IF @ = "null" THEN "running" ELSE @]
           r == ResetPingTimeout(q)
<1>2. q \in Pages /\ q.socket = "open" /\ q.clean = p.clean /\ q.left = p.left
  BY DEF Pages, NoCommand
<1> HIDE DEF q
<1>3. r \in Pages /\ r.socket = "open" /\ r.clean = p.clean /\ r.left = p.left
  BY <1>2 DEF Pages, ResetPingTimeout
<1> HIDE DEF r
<1>4. Sent(r, OnOpen(p)) \in Pages /\ Sent(r, OnOpen(p)).socket = "open"
      /\ Sent(r, OnOpen(p)).clean = p.clean /\ Sent(r, OnOpen(p)).left = p.left
  BY <1>1, <1>3 DEF Pages, Sent
<1>5. HandleSocketOpen(p) \in {r, Sent(r, OnOpen(p))}
  BY DEF HandleSocketOpen, q, r
<1>. QED  BY <1>1, <1>3, <1>4, <1>5 DEF PageOK, WillTryAgain, CleanWhenLeft

LEMMA AnsweredPage ==
  ASSUME NEW p \in Pages, CleanWhenLeft(p), p.socket = "open", NEW a \in Answers
  PROVE  PageOK(HandleAnswer(p, a))
<1> DEFINE ready == [p EXCEPT !.terminalActive = TRUE]
           ended == [p EXCEPT !.lastSentCommand = NoCommand]
           like(q) == q \in Pages /\ q.socket = p.socket /\ q.clean = p.clean
                      /\ q.left = p.left
<1>1. like(ResetPingTimeout(p)) /\ like(ready) /\ like(ended)
  BY DEF Pages, ResetPingTimeout, NoCommand
<1>2. like(Deactivate(p)) /\ like(Deactivate(ended))
  BY <1>1, DeactivatedPage
<1>3. HandleAnswer(p, a) \in
        {ResetPingTimeout(p), ready, Deactivate(p), Deactivate(ended)}
  BY DEF HandleAnswer, Answers
<1> HIDE DEF ready, ended
<1>4. like(HandleAnswer(p, a))
  BY <1>1, <1>2, <1>3
<1>. QED  BY <1>4 DEF PageOK, WillTryAgain, CleanWhenLeft

----------------------------------------------------------------------------
(* Sequences of messages *)

LEMMA MessagesAreTyped ==
  ASSUME NEW c \in Nat
  PROVE  /\ Message("command", c) \in ToServer
         /\ Message("ping", 0) \in ToServer /\ Message("force", 0) \in ToServer
         /\ Nothing \in ToServer
  BY DEF Message, ToServer, Nothing

LEMMA SendTyped ==
  ASSUME toServer \in Seq(ToServer), NEW m \in ToServer, Send(m)
  PROVE  toServer' \in Seq(ToServer)
  BY AppendProperties DEF Send

LEMMA AnswerTyped ==
  ASSUME toPage \in Seq(Answers), NEW a \in Answers, Answer(a)
  PROVE  toPage' \in Seq(Answers)
  BY AppendProperties DEF Answer

LEMMA EndTyped ==
  ASSUME ConnectionEnds, UNCHANGED <<given, over>>, losses' \in Nat, ConnectionOK
  PROVE  ConnectionOK'
<1>1. <<>> \in Seq(ToServer) /\ <<>> \in Seq(Answers)
  BY EmptySeq
<1>. QED  BY <1>1, MessagesAreTyped DEF ConnectionEnds, ConnectionOK

LEMMA ConnectionKept ==
  ASSUME ConnectionOK, UNCHANGED <<connection, server, given, over>>, losses' \in Nat
  PROVE  ConnectionOK'
  BY DEF ConnectionOK, connection, server

LEMMA LossTyped == ConnectionOK /\ Loss => losses' \in Nat /\ UNCHANGED <<given, over>>
  BY DEF ConnectionOK, Loss

(* Only the page and what it sends have changed. *)
LEMMA PageSteps ==
  ASSUME ConnectionOK, PageOK(page'), toServer' \in Seq(ToServer),
         UNCHANGED <<line, toPage, server, over, losses>>, given' \in Nat
  PROVE  Inv'
  BY DEF ConnectionOK, Inv, server, PageOK, WillTryAgain, CleanWhenLeft

----------------------------------------------------------------------------
LEMMA InitInv == PageInit => Inv
<1> SUFFICES ASSUME PageInit PROVE Inv
  OBVIOUS
<1> DEFINE p == [socket |-> "closed", clean |-> FALSE, connectionState |-> "disconnected",
        reconnectAttempts |-> 0, reconnectInterval |-> FALSE, forgotten |-> 0,
        connectionTimeout |-> FALSE, keepAlive |-> "null", pingTimeout |-> "null",
        pendingCommand |-> NoCommand, lastSentCommand |-> NoCommand,
        terminalActive |-> FALSE, visible |-> TRUE, wasConnected |-> FALSE,
        left |-> FALSE]
<1>1. p \in Pages /\ CleanWhenLeft(p)
  BY DEF Pages, CleanWhenLeft, NoCommand
<1>2. page = InitializeWebSocket(p)
  BY DEF PageInit
<1>3. PageOK(page)
  BY <1>1, <1>2, InitializedPage
<1>4. ConnectionOK
  BY EmptySeq, MessagesAreTyped DEF PageInit, ConnectionOK
<1>. QED  BY <1>3, <1>4 DEF Inv

LEMMA ConnectInv ==
  ASSUME Inv, ConnectSucceeds \/ ConnectFails \/ ConnectTimesOut
  PROVE  Inv'
<1>1. page \in Pages /\ CleanWhenLeft(page) /\ ConnectionOK
  BY DEF Inv, PageOK
<1>2. CASE ConnectSucceeds
  <2>1. PageOK(page') /\ OnOpen(page) \in Nat
    BY <1>1, <1>2, OpenedPage DEF ConnectSucceeds
  <2>2. toServer' \in Seq(ToServer)
    <3>1. Message("command", OnOpen(page)) \in ToServer
      BY <2>1, MessagesAreTyped
    <3>2. <<>> \in Seq(ToServer) /\ <<Message("command", OnOpen(page))>> \in Seq(ToServer)
      BY <3>1, EmptySeq
    <3>. QED  BY <1>2, <3>2 DEF ConnectSucceeds
  <2>. QED  BY <1>1, <1>2, <2>1, <2>2, PageSteps
              DEF ConnectSucceeds, history, ConnectionOK
<1>3. CASE ConnectFails
  <2>1. HandleSocketError(page) \in Pages /\ CleanWhenLeft(HandleSocketError(page))
    BY <1>1, ErroredPage DEF PageOK
  <2>2. PageOK(page')
    BY <1>3, <2>1, ClosedPage DEF ConnectFails
  <2>3. ConnectionOK'
    BY <1>1, <1>3, ConnectionKept, LossTyped DEF ConnectFails
  <2>. QED  BY <2>2, <2>3 DEF Inv, PageOK, WillTryAgain, CleanWhenLeft
<1>4. CASE ConnectTimesOut
  <2> DEFINE fired == [page EXCEPT !.connectionTimeout = FALSE]
  <2>1. /\ fired \in Pages /\ CleanWhenLeft(fired) /\ PageOK(fired)
    BY <1>1 DEF Pages, CleanWhenLeft, Inv, PageOK, WillTryAgain
  <2> HIDE DEF fired
  <2>2. CloseSocket(fired, FALSE) \in Pages /\ CleanWhenLeft(CloseSocket(fired, FALSE))
    BY <2>1 DEF CloseSocket, Pages, CleanWhenLeft
  <2>3. PageOK(page')
    BY <1>4, <2>1, <2>2, ErroredPage DEF ConnectTimesOut, fired
  <2>4. losses' \in Nat /\ UNCHANGED <<given, over, connection, server>>
    BY <1>1, <1>4, LossTyped DEF ConnectTimesOut, history, ConnectionOK
  <2>5. ConnectionOK'
    BY <1>1, <2>4, ConnectionKept
  <2>. QED  BY <2>3, <2>5 DEF Inv, PageOK, WillTryAgain, CleanWhenLeft
<1>. QED  BY <1>2, <1>3, <1>4

LEMMA CloseInv ==
  ASSUME Inv, ConnectionLost \/ CloseCompletes \/ LineDies
  PROVE  Inv'
<1>1. page \in Pages /\ CleanWhenLeft(page) /\ ConnectionOK
  BY DEF Inv, PageOK
<1>2. HandleSocketError(page) \in Pages /\ CleanWhenLeft(HandleSocketError(page))
  BY <1>1, ErroredPage DEF PageOK
<1>3. CASE ConnectionLost
  <2>1. PageOK(page')
    BY <1>1, <1>2, <1>3, ClosedPage DEF ConnectionLost
  <2>2. ConnectionOK'
    BY <1>1, <1>3, EndTyped, LossTyped DEF ConnectionLost
  <2>. QED  BY <2>1, <2>2 DEF Inv, PageOK, WillTryAgain, CleanWhenLeft
<1>4. CASE CloseCompletes
  <2>1. page.clean /\ line = "up" => page.left
    BY <1>1 DEF CleanWhenLeft
  <2>2. PageOK(page')
    BY <1>1, <1>2, <1>4, <2>1, ClosedPage DEF CloseCompletes
  <2>3. ConnectionOK'
    BY <1>1, <1>4, EndTyped DEF CloseCompletes, history, ConnectionOK
  <2>. QED  BY <2>2, <2>3 DEF Inv, PageOK, WillTryAgain, CleanWhenLeft
<1>5. CASE LineDies
  <2>1. ConnectionOK'
    BY <1>1, <1>5, LossTyped, EmptySeq, MessagesAreTyped DEF LineDies, ConnectionOK
  <2>. QED  BY <1>5, <2>1 DEF LineDies, Inv, PageOK, WillTryAgain, CleanWhenLeft
<1>. QED  BY <1>3, <1>4, <1>5

LEMMA TimerInv ==
  ASSUME Inv, ReconnectTimer \/ ForgottenTimer \/ PingTimeout \/ ResumeTimeout
  PROVE  Inv'
<1>1. page \in Pages /\ CleanWhenLeft(page) /\ WillTryAgain(page) /\ ConnectionOK
  BY DEF Inv, PageOK
<1>2. UNCHANGED <<connection, server, history>>
  BY DEF ReconnectTimer, ForgottenTimer, PingTimeout, ResumeTimeout
<1>3. ConnectionOK'
  BY <1>1, <1>2, ConnectionKept DEF history, ConnectionOK
<1>4. PageOK(page')
  <2>0. PICK next \in Nat : next = page.reconnectAttempts + 1
    <3>1. page.reconnectAttempts \in Nat
      BY <1>1 DEF Pages
    <3>. QED  BY <3>1
  <2>1. CASE ReconnectTimer
    <3> DEFINE p == [page EXCEPT !.reconnectInterval = FALSE, !.reconnectAttempts = @ + 1]
    <3>1. p = [page EXCEPT !.reconnectInterval = FALSE, !.reconnectAttempts = next]
      BY <2>0
    <3>2. p \in Pages /\ CleanWhenLeft(p)
      <4> HIDE DEF p
      <4>. QED  BY <1>1, <3>1 DEF Pages, CleanWhenLeft
    <3>. QED  BY <2>1, <3>2, InitializedPage DEF ReconnectTimer
  <2>2. CASE ForgottenTimer
    <3> DEFINE p == [page EXCEPT !.forgotten = @ - 1, !.reconnectAttempts = @ + 1]
    <3>1. PICK n \in Nat : n = page.forgotten - 1
      <4>1. page.forgotten \in Nat /\ page.forgotten > 0
        BY <1>1, <2>2 DEF Pages, ForgottenTimer
      <4>. QED  BY <4>1
    <3>2. p = [page EXCEPT !.forgotten = n, !.reconnectAttempts = next]
      BY <2>0, <3>1
    <3>3. p \in Pages /\ CleanWhenLeft(p)
      <4> HIDE DEF p
      <4>. QED  BY <1>1, <3>2 DEF Pages, CleanWhenLeft
    <3>. QED  BY <2>2, <3>3, InitializedPage DEF ForgottenTimer
  <2>3. [page EXCEPT !.pingTimeout = "null"] \in Pages
        /\ PageOK([page EXCEPT !.pingTimeout = "null"])
    BY <1>1 DEF Pages, CleanWhenLeft, PageOK, WillTryAgain
  <2>4. CASE PingTimeout
    BY <2>3, <2>4 DEF PingTimeout
  <2>5. CASE ResumeTimeout
    <3> DEFINE q == [page EXCEPT !.pingTimeout = "null"]
    <3>1. q \in Pages /\ PageOK(q)
      BY <2>3
    <3> HIDE DEF q
    <3>2. PageOK(CloseSocket(q, FALSE))
      BY <3>1 DEF CloseSocket, Pages, CleanWhenLeft, PageOK, WillTryAgain
    <3>. QED  BY <2>5, <3>2 DEF ResumeTimeout, q
  <2>. QED  BY <2>1, <2>2, <2>4, <2>5
<1>. QED  BY <1>3, <1>4 DEF Inv, PageOK, WillTryAgain, CleanWhenLeft

LEMMA TabInv ==
  ASSUME Inv, KeepAlive \/ Hide \/ Show
  PROVE  Inv'
<1>1. page \in Pages /\ CleanWhenLeft(page) /\ WillTryAgain(page) /\ ConnectionOK
  BY DEF Inv, PageOK
<1>2. UNCHANGED <<line, toPage, server, history>>
  BY DEF KeepAlive, Hide, Show, connection
<1>3. toServer' \in Seq(ToServer)
  BY <1>1, SendTyped, MessagesAreTyped DEF KeepAlive, Hide, Show, connection, ConnectionOK
<1>4. PageOK(page')
  <2>1. CASE KeepAlive
    BY <1>1, <2>1, InitializedPage DEF KeepAlive, PageOK
  <2>2. CASE Hide
    <3> DEFINE q == [page EXCEPT !.visible = FALSE, !.pingTimeout = "null",
                          !.wasConnected = page.connectionState = "connected"]
    <3>1. q \in Pages /\ q.socket = page.socket /\ q.clean = page.clean
          /\ q.left = page.left /\ q.reconnectInterval = page.reconnectInterval
          /\ q.reconnectAttempts = page.reconnectAttempts
      BY <1>1 DEF Pages
    <3>. QED  BY <1>1, <2>2, <3>1 DEF Hide, PageOK, CleanWhenLeft, WillTryAgain
  <2>3. CASE Show
    <3> DEFINE shown == [page EXCEPT !.visible = TRUE]
               probed == [shown EXCEPT !.pingTimeout = "resume"]
               anew == [shown EXCEPT !.reconnectAttempts = 0]
    <3>1. PageOK(shown)
      BY <1>1 DEF PageOK, Pages, CleanWhenLeft, WillTryAgain
    <3> HIDE DEF shown
    <3>2. PageOK(probed) /\ anew \in Pages /\ CleanWhenLeft(anew)
      BY <3>1 DEF PageOK, Pages, CleanWhenLeft, WillTryAgain
    <3>3. PageOK(InitializeWebSocket(anew))
      BY <3>2, InitializedPage
    <3> HIDE DEF probed, anew
    <3>4. page' \in {probed, InitializeWebSocket(anew), shown}
      BY <2>3 DEF Show, shown, probed, anew
    <3>. QED  BY <3>1, <3>2, <3>3, <3>4
  <2>. QED  BY <2>1, <2>2, <2>3
<1>. QED  BY <1>1, <1>2, <1>3, <1>4, PageSteps DEF history, ConnectionOK

LEMMA UserInv ==
  ASSUME Inv, GiveCommand \/ Leave
  PROVE  Inv'
<1>1. page \in Pages /\ CleanWhenLeft(page) /\ WillTryAgain(page) /\ ConnectionOK
  BY DEF Inv, PageOK
<1>2. CASE GiveCommand
  <2>1. given' \in Nat
    BY <1>1, <1>2 DEF GiveCommand, ConnectionOK
  <2>2. PageOK(Sent(page, given')) /\ PageOK([page EXCEPT !.pendingCommand = given'])
    BY <1>1, <2>1 DEF Sent, Pages, PageOK, CleanWhenLeft, WillTryAgain
  <2>3. toServer' \in Seq(ToServer)
    BY <1>1, <1>2, <2>1, SendTyped, MessagesAreTyped DEF GiveCommand, ConnectionOK
  <2>4. PageOK(page')
    BY <1>2, <2>2 DEF GiveCommand
  <2>. QED  BY <1>1, <1>2, <2>1, <2>3, <2>4, PageSteps DEF GiveCommand
<1>3. CASE Leave
  <2> DEFINE p == ClearAllTimers(page)
             q == [p EXCEPT !.left = TRUE, !.connectionState = "disconnected",
                            !.pendingCommand = NoCommand]
  <2>1. p \in Pages
    BY <1>1, ClearedPage
  <2> HIDE DEF p
  <2>2. q \in Pages /\ q.left = TRUE
    BY <2>1 DEF Pages, NoCommand
  <2> HIDE DEF q
  <2>3. CloseSocket(q, TRUE) \in Pages /\ CloseSocket(q, TRUE).left
    BY <2>2 DEF CloseSocket, Pages
  <2>4. PageOK(page')
    BY <1>3, <2>3 DEF Leave, p, q, PageOK, CleanWhenLeft, WillTryAgain
  <2>5. toServer' \in Seq(ToServer)
    BY <1>1, <1>3, SendTyped, MessagesAreTyped DEF Leave, ConnectionOK
  <2>. QED  BY <1>1, <1>3, <2>4, <2>5, PageSteps DEF Leave, history, ConnectionOK
<1>. QED  BY <1>2, <1>3

LEMMA PageReceivesInv ==
  ASSUME Inv, PageReceives
  PROVE  Inv'
<1>1. page \in Pages /\ CleanWhenLeft(page) /\ ConnectionOK
  BY DEF Inv, PageOK
<1>2. Head(toPage) \in Answers /\ toPage' \in Seq(Answers)
  BY <1>1, HeadTailProperties DEF PageReceives, ConnectionOK
<1>3. PageOK(page')
  BY <1>1, <1>2, AnsweredPage DEF PageReceives
<1>4. over' \subseteq Nat
  BY <1>1 DEF PageReceives, ConnectionOK, Pages
<1>. QED  BY <1>1, <1>2, <1>3, <1>4
            DEF PageReceives, Inv, ConnectionOK, server, PageOK, WillTryAgain, CleanWhenLeft

LEMMA ServerInv ==
  ASSUME Inv, ServerReceives \/ ShellExits \/ KillEnds
  PROVE  Inv'
<1>1. ConnectionOK
  BY DEF Inv
<1>2. UNCHANGED <<page, line, history>>
  BY DEF ServerReceives, ShellExits, KillEnds
<1>3. ASSUME NEW c \in Nat, PageRunsCommand(c)
      PROVE  shell' \in Nat /\ toPage' \in Seq(Answers)
  BY <1>1, <1>3, AnswerTyped DEF PageRunsCommand, ConnectionOK, Answers
<1>4. ConnectionOK'
  <2>1. CASE ServerReceives
    <3>1. Head(toServer) \in ToServer /\ toServer' \in Seq(ToServer)
      BY <1>1, <2>1, HeadTailProperties DEF ServerReceives, ConnectionOK
    <3>2. Head(toServer).command \in Nat
      BY <3>1 DEF ToServer
    <3>3. shell' \in Nat /\ awaits' \in ToServer /\ toPage' \in Seq(Answers)
      BY <1>1, <1>3, <2>1, <3>1, <3>2, AnswerTyped
         DEF ServerReceives, ConnectionOK, server, Answers
    <3>. QED  BY <1>1, <1>2, <3>1, <3>3 DEF ConnectionOK, history
  <2>2. CASE ShellExits
    BY <1>1, <1>2, <2>2, AnswerTyped DEF ShellExits, ConnectionOK, history, Answers
  <2>3. CASE KillEnds
    <3>1. awaits.command \in Nat
      BY <1>1 DEF ConnectionOK, ToServer
    <3>2. shell' \in Nat /\ toPage' \in Seq(Answers)
      BY <1>1, <1>3, <2>3, <3>1, AnswerTyped DEF KillEnds, ConnectionOK, Answers
    <3>. QED  BY <1>1, <1>2, <2>3, <3>2, MessagesAreTyped
                DEF KillEnds, ConnectionOK, history
  <2>. QED  BY <2>1, <2>2, <2>3
<1>. QED  BY <1>2, <1>4 DEF Inv, PageOK, WillTryAgain, CleanWhenLeft

LEMMA StepInv == Inv /\ [PageNext]_pageVars => Inv'
<1> SUFFICES ASSUME Inv, [PageNext]_pageVars PROVE Inv'
  OBVIOUS
<1>1. CASE UNCHANGED pageVars
  BY <1>1 DEF pageVars, connection, server, history, Inv, ConnectionOK, PageOK,
              WillTryAgain, CleanWhenLeft
<1>. QED
  BY <1>1, ConnectInv, CloseInv, TimerInv, TabInv, UserInv, PageReceivesInv, ServerInv
     DEF PageNext

(* The inductive invariant of the page. *)
LEMMA Invariance == PageSpec => []Inv
<1>1. PageInit => Inv  BY InitInv
<1>2. Inv /\ [PageNext]_pageVars => Inv'  BY StepInv
<1>. QED  BY <1>1, <1>2, PTL DEF PageSpec

(* No order of errors, closes, timeouts, tab changes and forgotten timers  *)
(* leaves the page without a socket and without a timer that will try      *)
(* again, before it has used up its attempts or is left.                   *)
THEOREM PageTriesAgain == PageSpec => []ReconnectIsPending
<1>1. Inv => ReconnectIsPending  BY InvParts
<1>. QED  BY <1>1, Invariance, PTL

(* The fields of the page and the messages under way keep their types.     *)
THEOREM PageTypes == PageSpec => []PageTypeOK
<1>1. Inv => PageTypeOK  BY InvParts
<1>. QED  BY <1>1, Invariance, PTL
----------------------------------------------------------------------------
(* Users who wait for the end of a shell before they ask for another, and  *)
(* for the connection when a command is to be repeated.                    *)
Patient == "switch" \notin Habits /\ "hasty" \notin Habits

Asked == \E m \in Range(toServer) : m.kind = "command"
Says(a) == a \in Range(toPage)

(* Without a connection there is nothing at the server. *)
Disconnected == page.socket \in {"closed", "connecting"}
ServerIsIdle ==
  Disconnected \/ line = "dead" =>
    toServer = <<>> /\ toPage = <<>> /\ shell = 0 /\ awaits = Nothing
LineIsOfSocket == Disconnected => line = "up"
OpenIsConnected ==
  page.socket = "open" =>
    page.connectionState = "connected" /\ page.pendingCommand = NoCommand

(* One command at a time is on its way to the server, has a shell, or is   *)
(* reported as ended.                                                      *)
AsksOnce(s) ==
  \A i, j \in 1..Len(s) : i < j /\ s[i].kind = "command" => s[j].kind # "command"
ExitIsLast(s) ==
  \A i, j \in 1..Len(s) : i < j /\ s[i] = "pty-exited" => s[j] = "pong"
OneAtATime ==
  /\ awaits.kind # "command" /\ ~Says("unprocessable")
  /\ AsksOnce(toServer) /\ ExitIsLast(toPage)
  /\ Asked => shell = 0
  /\ Says("pty-exited") => shell = 0 /\ ~Asked

(* It is the last one that was given, and not one that was seen to end.    *)
IsTheLast ==
  /\ page.pendingCommand \in {NoCommand, given}
  /\ page.lastSentCommand \in {NoCommand, given}
  /\ shell \in {0, given}
  /\ \A m \in Range(toServer) : m.kind = "command" => m.command = given
  /\ over \subseteq 1..given
  /\ given \in over =>
       /\ page.pendingCommand = NoCommand /\ page.lastSentCommand = NoCommand
       /\ shell = 0 /\ ~Asked

(* The page remembers what it has sent while there is anything of it, and  *)
(* what makes it show a terminal has a shell or will be answered.          *)
IsRemembered ==
  page.terminalActive \/ shell # 0 \/ Says("pty-ready") \/ Asked =>
    page.lastSentCommand # NoCommand
IsAnswered ==
  /\ Says("pty-ready") => shell # 0 \/ Says("pty-exited")
  /\ page.socket = "open" /\ line = "up" /\ page.terminalActive =>
       shell # 0 \/ Says("pty-exited") \/ Says("refused") \/ Asked

ShellInv ==
  /\ ServerIsIdle /\ LineIsOfSocket /\ OpenIsConnected
  /\ OneAtATime /\ IsTheLast /\ IsRemembered /\ IsAnswered

(* Sequences: what is appended is last, and what is taken was first. *)
LEMMA Appended ==
  ASSUME NEW S, NEW s \in Seq(S), NEW x \in S
  PROVE  /\ Range(Append(s, x)) = Range(s) \cup {x}
         /\ Len(Append(s, x)) = Len(s) + 1 /\ Append(s, x)[Len(s) + 1] = x
         /\ \A i \in 1..Len(s) : Append(s, x)[i] = s[i] /\ s[i] \in Range(s)
<1>1. Append(s, x) \in Seq(S)
  BY AppendProperties
<1>2. DOMAIN s = 1..Len(s) /\ DOMAIN Append(s, x) = 1..(Len(s) + 1) /\ Len(s) \in Nat
  BY <1>1, AppendProperties, LenProperties
<1>3. \A i \in 1..Len(s) : Append(s, x)[i] = s[i] /\ s[i] \in Range(s)
  BY <1>2, AppendProperties DEF Range
<1>. QED  BY <1>2, <1>3, AppendProperties DEF Range

LEMMA Taken ==
  ASSUME NEW S, NEW s \in Seq(S), s # <<>>
  PROVE  /\ Tail(s) \in Seq(S) /\ Head(s) \in S /\ Head(s) = s[1]
         /\ Range(s) = {Head(s)} \cup Range(Tail(s))
         /\ Len(Tail(s)) = Len(s) - 1 /\ Len(s) \in Nat \ {0}
         /\ \A i \in 1..Len(Tail(s)) : Tail(s)[i] = s[i + 1]
         /\ \A x \in Range(Tail(s)) : \E i \in 2..Len(s) : x = s[i]
<1>1. Tail(s) \in Seq(S) /\ Head(s) \in S /\ Len(Tail(s)) = Len(s) - 1
      /\ \A i \in 1..Len(Tail(s)) : Tail(s)[i] = s[i + 1]
  BY HeadTailProperties
<1>2. DOMAIN s = 1..Len(s) /\ DOMAIN Tail(s) = 1..Len(Tail(s)) /\ Len(s) \in Nat \ {0}
  BY <1>1, LenProperties, EmptySeq
<1>3. Head(s) = s[1]
  BY DEF Head
<1>4. \A x \in Range(Tail(s)) : \E i \in 2..Len(s) : x = s[i]
  <2>. SUFFICES ASSUME NEW i \in 1..Len(Tail(s))
                PROVE  \E j \in 2..Len(s) : Tail(s)[i] = s[j]
    BY <1>2 DEF Range
  <2>. QED  BY <1>1, <1>2
<1>5. Range(s) \subseteq {Head(s)} \cup Range(Tail(s))
  <2>. SUFFICES ASSUME NEW i \in 1..Len(s), i # 1  PROVE s[i] \in Range(Tail(s))
    BY <1>2, <1>3 DEF Range
  <2>1. i - 1 \in 1..Len(Tail(s)) /\ s[i] = Tail(s)[i - 1]
    BY <1>1, <1>2
  <2>. QED  BY <1>2, <2>1 DEF Range
<1>6. {Head(s)} \cup Range(Tail(s)) \subseteq Range(s)
  BY <1>2, <1>3, <1>4 DEF Range
<1>. QED  BY <1>1, <1>2, <1>3, <1>4, <1>5, <1>6

(* What is appended to a queue of messages, or of answers. *)
LEMMA AskedOnce ==
  ASSUME NEW s \in Seq(ToServer), AsksOnce(s)
  PROVE  /\ \A m \in ToServer :
              (m.kind = "command" => \A n \in Range(s) : n.kind # "command")
              => AsksOnce(Append(s, m))
         /\ s # <<>> =>
              /\ AsksOnce(Tail(s))
              /\ Head(s).kind = "command" => \A n \in Range(Tail(s)) : n.kind # "command"
<1>1. ASSUME NEW m \in ToServer,
             m.kind = "command" => \A n \in Range(s) : n.kind # "command"
      PROVE  AsksOnce(Append(s, m))
  <2>. DEFINE t == Append(s, m)
  <2>1. Len(s) \in Nat /\ Len(t) = Len(s) + 1 /\ t[Len(s) + 1] = m
        /\ \A i \in 1..Len(s) : t[i] = s[i] /\ s[i] \in Range(s)
    BY Appended, LenProperties
  <2>. HIDE DEF t
  <2>2. ASSUME NEW i \in 1..Len(t), NEW j \in 1..Len(t), i < j, t[i].kind = "command"
        PROVE  t[j].kind # "command"
    <3>1. i \in 1..Len(s) /\ t[i] = s[i] /\ s[i] \in Range(s)
      BY <2>1, <2>2
    <3>2. CASE j = Len(s) + 1
      BY <1>1, <2>1, <2>2, <3>1, <3>2
    <3>3. CASE j # Len(s) + 1
      BY <2>1, <2>2, <3>1, <3>3 DEF AsksOnce
    <3>. QED  BY <3>2, <3>3
  <2>. QED  BY <2>2 DEF AsksOnce, t
<1>2. ASSUME s # <<>>
      PROVE  /\ AsksOnce(Tail(s))
             /\ Head(s).kind = "command" => \A n \in Range(Tail(s)) : n.kind # "command"
  <2>. DEFINE t == Tail(s)
  <2>1. /\ Head(s) = s[1] /\ Len(t) = Len(s) - 1 /\ Len(s) \in Nat \ {0}
        /\ \A i \in 1..Len(t) : t[i] = s[i + 1]
        /\ \A x \in Range(t) : \E i \in 2..Len(s) : x = s[i]
    BY <1>2, Taken
  <2>. HIDE DEF t
  <2>2. ASSUME NEW i \in 1..Len(t), NEW j \in 1..Len(t), i < j, t[i].kind = "command"
        PROVE  t[j].kind # "command"
    <3>1. i + 1 \in 1..Len(s) /\ j + 1 \in 1..Len(s) /\ i + 1 < j + 1
      BY <2>1, <2>2
    <3>2. t[i] = s[i + 1] /\ t[j] = s[j + 1]
      BY <2>1
    <3>. QED  BY <2>2, <3>1, <3>2 DEF AsksOnce
  <2>3. ASSUME Head(s).kind = "command", NEW n \in Range(t)  PROVE n.kind # "command"
    <3>1. PICK i \in 2..Len(s) : n = s[i]
      BY <2>1
    <3>2. 1 \in 1..Len(s) /\ i \in 1..Len(s) /\ 1 < i
      BY <2>1
    <3>. QED  BY <2>1, <2>3, <3>1, <3>2 DEF AsksOnce
  <2>4. AsksOnce(t)
    BY <2>2 DEF AsksOnce
  <2>. QED  BY <2>3, <2>4 DEF t
<1>. QED  BY <1>1, <1>2

LEMMA ExitedLast ==
  ASSUME NEW s \in Seq(Answers), ExitIsLast(s)
  PROVE  /\ \A a \in Answers :
              (a = "pong" \/ "pty-exited" \notin Range(s)) => ExitIsLast(Append(s, a))
         /\ s # <<>> =>
              /\ ExitIsLast(Tail(s))
              /\ Head(s) = "pty-exited" => Range(Tail(s)) \subseteq {"pong"}
<1>1. ASSUME NEW a \in Answers, a = "pong" \/ "pty-exited" \notin Range(s)
      PROVE  ExitIsLast(Append(s, a))
  <2>. DEFINE t == Append(s, a)
  <2>1. Len(s) \in Nat /\ Len(t) = Len(s) + 1 /\ t[Len(s) + 1] = a
        /\ \A i \in 1..Len(s) : t[i] = s[i] /\ s[i] \in Range(s)
    BY Appended, LenProperties
  <2>. HIDE DEF t
  <2>2. ASSUME NEW i \in 1..Len(t), NEW j \in 1..Len(t), i < j, t[i] = "pty-exited"
        PROVE  t[j] = "pong"
    <3>1. i \in 1..Len(s) /\ t[i] = s[i] /\ s[i] \in Range(s)
      BY <2>1, <2>2
    <3>2. CASE j = Len(s) + 1
      BY <1>1, <2>1, <2>2, <3>1, <3>2
    <3>3. CASE j # Len(s) + 1
      BY <2>1, <2>2, <3>1, <3>3 DEF ExitIsLast
    <3>. QED  BY <3>2, <3>3
  <2>. QED  BY <2>2 DEF ExitIsLast, t
<1>2. ASSUME s # <<>>
      PROVE  /\ ExitIsLast(Tail(s))
             /\ Head(s) = "pty-exited" => Range(Tail(s)) \subseteq {"pong"}
  <2>. DEFINE t == Tail(s)
  <2>1. /\ Head(s) = s[1] /\ Len(t) = Len(s) - 1 /\ Len(s) \in Nat \ {0}
        /\ \A i \in 1..Len(t) : t[i] = s[i + 1]
        /\ \A x \in Range(t) : \E i \in 2..Len(s) : x = s[i]
    BY <1>2, Taken
  <2>. HIDE DEF t
  <2>2. ExitIsLast(t)
    BY <2>1 DEF ExitIsLast
  <2>3. Head(s) = "pty-exited" => Range(t) \subseteq {"pong"}
    BY <2>1 DEF ExitIsLast
  <2>. QED  BY <2>2, <2>3 DEF t
<1>. QED  BY <1>1, <1>2

(* What the methods make of the commands that the page remembers, and of   *)
(* its socket.                                                             *)
Carries(p, q) ==
  /\ q.lastSentCommand = p.lastSentCommand
  /\ q.pendingCommand \in {NoCommand, p.pendingCommand}
  /\ q.terminalActive => p.terminalActive

(* Methods one after another. *)
LEMMA CarriesOn ==
  ASSUME NEW p, NEW q, NEW r, Carries(p, q), Carries(q, r)
  PROVE  Carries(p, r)
  BY DEF Carries

LEMMA InitializeCarries ==
  ASSUME NEW p \in Pages
  PROVE  LET q == InitializeWebSocket(p) IN
         /\ q \in Pages /\ Carries(p, q)
         /\ p.socket # "closed" => q = p
         /\ p.socket = "closed" => q.socket = "connecting"
<1>1. CASE p.socket # "closed"
  BY <1>1 DEF InitializeWebSocket, Carries
<1>2. CASE p.socket = "closed"
  <2>. DEFINE c == ClearAllTimers(p)
              q == [c EXCEPT !.connectionState = "connecting", !.socket = "connecting",
                             !.clean = FALSE, !.connectionTimeout = TRUE]
  <2>1. c \in Pages /\ Carries(p, c)
    BY DEF ClearAllTimers, Carries, Pages
  <2>. HIDE DEF c
  <2>2. q \in Pages /\ Carries(c, q) /\ q.socket = "connecting"
    BY <2>1 DEF Carries, Pages
  <2>3. InitializeWebSocket(p) = q
    BY <1>2 DEF InitializeWebSocket, c
  <2>. QED  BY <1>2, <2>1, <2>2, <2>3, CarriesOn
<1>. QED  BY <1>1, <1>2

LEMMA ScheduleCarries ==
  ASSUME NEW p \in Pages
  PROVE  LET q == ScheduleReconnect(p) IN
         q \in Pages /\ Carries(p, q) /\ q.socket = p.socket
<1>1. CASE p.reconnectAttempts >= MaxReconnectAttempts
  BY <1>1 DEF ScheduleReconnect, Carries
<1>2. CASE ~(p.reconnectAttempts >= MaxReconnectAttempts)
  <2>1. PICK n \in Nat : n = p.forgotten + IF p.reconnectInterval THEN 1 ELSE 0
    BY DEF Pages
  <2>. DEFINE q == [p EXCEPT !.connectionState = "reconnecting",
                             !.forgotten = n, !.reconnectInterval = TRUE]
  <2>2. ScheduleReconnect(p) = q
    BY <1>2, <2>1 DEF ScheduleReconnect
  <2>3. q \in Pages /\ Carries(p, q) /\ q.socket = p.socket
    BY DEF Carries, Pages
  <2>. QED  BY <2>2, <2>3
<1>. QED  BY <1>1, <1>2

LEMMA ErrorCarries ==
  ASSUME NEW p \in Pages
  PROVE  LET q == HandleConnectionError(p)  r == HandleSocketError(p) IN
         /\ q \in Pages /\ Carries(p, q) /\ q.socket = p.socket
         /\ r \in Pages /\ Carries(p, r) /\ r.socket = "closed"
<1>1. ASSUME NEW s \in Pages
      PROVE  LET q == HandleConnectionError(s) IN
             q \in Pages /\ Carries(s, q) /\ q.socket = s.socket
  <2>. DEFINE t == [s EXCEPT !.connectionState = "disconnected"]
  <2>1. t \in Pages /\ Carries(s, t) /\ t.socket = s.socket
    BY DEF Carries, Pages
  <2>. HIDE DEF t
  <2>2. ScheduleReconnect(t) \in Pages /\ Carries(t, ScheduleReconnect(t))
        /\ ScheduleReconnect(t).socket = s.socket
    BY <2>1, ScheduleCarries
  <2>. QED  BY <2>1, <2>2, CarriesOn DEF HandleConnectionError, t
<1>2. [p EXCEPT !.socket = "closed"] \in Pages /\ Carries(p, [p EXCEPT !.socket = "closed"])
      /\ [p EXCEPT !.socket = "closed"].socket = "closed"
  BY DEF Carries, Pages
<1>. QED  BY <1>1, <1>2, CarriesOn DEF HandleSocketError

LEMMA DeactivateCarries ==
  ASSUME NEW p \in Pages
  PROVE  /\ Deactivate(p) \in Pages /\ Carries(p, Deactivate(p))
         /\ Deactivate(p).socket = p.socket /\ ~Deactivate(p).terminalActive
         /\ Deactivate(p).connectionState = p.connectionState
         /\ Deactivate(p).pendingCommand = p.pendingCommand
  BY DEF Deactivate, Carries, Pages

LEMMA CloseCarries ==
  ASSUME NEW p \in Pages, NEW clean \in BOOLEAN
  PROVE  LET q == HandleSocketClose(p, clean) IN
         q \in Pages /\ Carries(p, q) /\ q.socket = "closed"
<1>. DEFINE a == [p EXCEPT !.socket = "closed", !.connectionState = "disconnected"]
            c == ClearAllTimers(a)
            d == [c EXCEPT !.pendingCommand = NoCommand]
<1>1. c \in Pages /\ Carries(p, c) /\ c.socket = "closed"
  BY DEF ClearAllTimers, Carries, Pages
<1>. HIDE DEF c
<1>2. d \in Pages /\ Carries(c, d) /\ d.socket = c.socket
  BY <1>1 DEF Carries, Pages, NoCommand
<1>. HIDE DEF d
<1>3. ResetTerminal(c) \in {c, Deactivate(d)}
  BY DEF ResetTerminal, d
<1>4. ResetTerminal(c) \in Pages /\ Carries(c, ResetTerminal(c))
      /\ ResetTerminal(c).socket = "closed"
  BY <1>1, <1>2, <1>3, DeactivateCarries, CarriesOn DEF Carries
<1>5. ScheduleReconnect(ResetTerminal(c)) \in Pages
      /\ Carries(c, ScheduleReconnect(ResetTerminal(c)))
      /\ ScheduleReconnect(ResetTerminal(c)).socket = "closed"
  BY <1>4, ScheduleCarries, CarriesOn
<1>. QED  BY <1>1, <1>5, CarriesOn DEF HandleSocketClose, c

LEMMA SocketCarries ==
  ASSUME NEW p \in Pages, NEW clean \in BOOLEAN
  PROVE  LET q == CloseSocket(p, clean) IN
         /\ q \in Pages /\ Carries(p, q) /\ q.connectionState = p.connectionState
         /\ q.socket = IF p.socket \in {"open", "connecting"} THEN "closing" ELSE p.socket
  BY DEF CloseSocket, Carries, Pages

(* What is sent when a socket opens is what the page remembers from then.  *)
LEMMA OpenCarries ==
  ASSUME NEW p \in Pages
  PROVE  LET q == HandleSocketOpen(p) IN
         /\ q.socket = "open" /\ q.connectionState = "connected"
         /\ q.pendingCommand = NoCommand /\ q.lastSentCommand = OnOpen(p)
         /\ q.terminalActive = p.terminalActive
<1>. DEFINE o == ResetPingTimeout([p EXCEPT
        !.socket = "open", !.connectionState = "connected",
        !.reconnectAttempts = 0, !.connectionTimeout = FALSE,
        !.pendingCommand = NoCommand,
        !.keepAlive = IF @ = "null" THEN "running" ELSE @])
<1>1. /\ o \in Pages /\ o.socket = "open" /\ o.connectionState = "connected"
      /\ o.pendingCommand = NoCommand /\ o.lastSentCommand = p.lastSentCommand
      /\ o.terminalActive = p.terminalActive
  BY DEF ResetPingTimeout, Pages, NoCommand
<1>2. HandleSocketOpen(p) = IF OnOpen(p) = NoCommand THEN o ELSE Sent(o, OnOpen(p))
  BY DEF HandleSocketOpen
<1>. HIDE DEF o
<1>3. OnOpen(p) = NoCommand => p.lastSentCommand = NoCommand
  BY DEF OnOpen
<1>. QED  BY <1>1, <1>2, <1>3 DEF Sent, Pages

----------------------------------------------------------------------------
LEMMA InitShell ==
  ASSUME PageInit
  PROVE  ShellInv
<1>. DEFINE p == [socket |-> "closed", clean |-> FALSE, connectionState |-> "disconnected",
        reconnectAttempts |-> 0, reconnectInterval |-> FALSE, forgotten |-> 0,
        connectionTimeout |-> FALSE, keepAlive |-> "null", pingTimeout |-> "null",
        pendingCommand |-> NoCommand, lastSentCommand |-> NoCommand,
        terminalActive |-> FALSE, visible |-> TRUE, wasConnected |-> FALSE,
        left |-> FALSE]
<1>1. p \in Pages
  BY DEF Pages, NoCommand
<1>2. page.socket = "connecting" /\ Carries(p, page)
  BY <1>1, InitializeCarries DEF PageInit
<1>3. page.pendingCommand = NoCommand /\ page.lastSentCommand = NoCommand
      /\ ~page.terminalActive
  BY <1>2 DEF Carries
<1>4. Range(toServer) = {} /\ Range(toPage) = {} /\ Len(toServer) = 0 /\ Len(toPage) = 0
  BY DEF PageInit, Range
<1>5. awaits.kind # "command"
  BY DEF PageInit, Nothing, Message
<1>. QED
  BY <1>2, <1>3, <1>4, <1>5
  DEF PageInit, ShellInv, ServerIsIdle, LineIsOfSocket, OpenIsConnected, OneAtATime,
      AsksOnce, ExitIsLast, IsTheLast, IsRemembered, IsAnswered, Asked, Says, Disconnected

(* The end of a connection takes all that was at the server.               *)
LEMMA EndShell ==
  ASSUME Inv, ShellInv, toServer' = <<>>, toPage' = <<>>, shell' = 0, awaits' = Nothing,
         UNCHANGED <<given, over>>, Carries(page, page'),
         \/ page'.socket = "closed" /\ line' = "up"
         \/ page' = page /\ page.socket = "open" /\ line' = "dead"
  PROVE  ShellInv'
<1>1. (Range(toServer) = {})' /\ (Range(toPage) = {})' /\ Len(toServer') = 0
      /\ Len(toPage') = 0
  BY DEF Range
<1>2. awaits'.kind # "command"
  BY DEF Nothing, Message
<1>3. ServerIsIdle' /\ LineIsOfSocket' /\ OpenIsConnected'
  BY DEF ShellInv, ServerIsIdle, LineIsOfSocket, OpenIsConnected, Disconnected
<1>4. ~Asked' /\ \A a : ~Says(a)'
  BY <1>1 DEF Asked, Says
<1>5. OneAtATime'
  BY <1>1, <1>2, <1>4 DEF OneAtATime, AsksOnce, ExitIsLast
<1>6. IsTheLast'
  BY <1>1, <1>4 DEF ShellInv, IsTheLast, Carries
<1>7. IsRemembered' /\ IsAnswered'
  BY <1>4 DEF ShellInv, IsRemembered, IsAnswered, Carries
<1>. QED  BY <1>3, <1>5, <1>6, <1>7 DEF ShellInv

(* What the page does by itself sends no command.                          *)
Sends(m) == page.socket = "open" /\ line = "up" /\ toServer' = Append(toServer, m)
LEMMA PageShell ==
  ASSUME Inv, ShellInv, UNCHANGED <<line, toPage, server, given, over>>,
         Carries(page, page'),
         page'.socket \in {"closed", "connecting"} => Disconnected,
         page'.socket = "open" =>
           page.socket = "open" /\ page'.connectionState = page.connectionState,
         \/ UNCHANGED toServer
         \/ Sends(Message("ping", 0)) \/ Sends(Message("force", 0))
  PROVE  ShellInv'
<1>1. toServer \in Seq(ToServer)
  BY DEF Inv, ConnectionOK
<1>2. AsksOnce(toServer)' /\
      \A m \in Range(toServer)' : m.kind = "command" => m \in Range(toServer)
  <2>1. CASE UNCHANGED toServer
    BY <2>1 DEF ShellInv, OneAtATime, AsksOnce, Range
  <2>2. ASSUME NEW m \in ToServer, m.kind # "command", Sends(m)
        PROVE  <1>2
    BY <1>1, <2>2, Appended, AskedOnce DEF ShellInv, OneAtATime, Sends
  <2>3. Message("ping", 0).kind # "command" /\ Message("force", 0).kind # "command"
    BY DEF Message
  <2>. QED  BY <2>1, <2>2, <2>3, MessagesAreTyped
<1>3. Asked' => Asked
  BY <1>2 DEF Asked
<1>4. Asked => Asked'
  <2>1. ASSUME NEW m \in ToServer, Sends(m)  PROVE Range(toServer) \subseteq Range(toServer)'
    BY <1>1, <2>1, Appended DEF Sends
  <2>2. Range(toServer) \subseteq Range(toServer)'
    BY <2>1, MessagesAreTyped DEF Range
  <2>. QED  BY <2>2 DEF Asked
<1>5. ServerIsIdle' /\ LineIsOfSocket' /\ OpenIsConnected'
  BY DEF ShellInv, ServerIsIdle, LineIsOfSocket, OpenIsConnected, Disconnected, Sends,
         Carries, server
<1>6. OneAtATime'
  BY <1>2, <1>3 DEF ShellInv, OneAtATime, ExitIsLast, Says, server
<1>7. IsTheLast'
  BY <1>2, <1>3 DEF ShellInv, IsTheLast, Carries, server
<1>8. IsRemembered' /\ IsAnswered'
  BY <1>3, <1>4 DEF ShellInv, IsRemembered, IsAnswered, Carries, Says, server
<1>. QED  BY <1>5, <1>6, <1>7, <1>8 DEF ShellInv

(* When a socket opens, what the page shows is asked for again.            *)
LEMMA ConnectShell ==
  ASSUME Inv, ShellInv, ConnectSucceeds
  PROVE  ShellInv'
<1>. DEFINE c == OnOpen(page)  m == Message("command", c)
<1>1. page \in Pages /\ Disconnected
  BY DEF Inv, PageOK, ConnectSucceeds, Disconnected
<1>2. line = "up" /\ line' = "up" /\ toPage = <<>> /\ toPage' = <<>> /\ shell = 0
      /\ shell' = 0 /\ awaits = Nothing /\ awaits' = Nothing /\ given' = given
      /\ over' = over
  BY <1>1 DEF ShellInv, ServerIsIdle, LineIsOfSocket, ConnectSucceeds, server, history
<1>3. /\ page'.socket = "open" /\ page'.connectionState = "connected"
      /\ page'.pendingCommand = NoCommand /\ page'.lastSentCommand = c
      /\ page'.terminalActive = page.terminalActive
  BY <1>1, OpenCarries DEF ConnectSucceeds
<1>4. c \in {NoCommand, given}
  BY DEF OnOpen, ShellInv, IsTheLast
<1>5. given \in over => c = NoCommand
  BY DEF OnOpen, ShellInv, IsTheLast
<1>6. page.terminalActive => c # NoCommand
  BY DEF OnOpen, ShellInv, IsRemembered
<1>7. /\ Asked' <=> c # NoCommand
      /\ \A n \in Range(toServer)' : n = m /\ c # NoCommand
      /\ AsksOnce(toServer)'
      /\ m.kind = "command" /\ m.command = c
  <2>1. m.kind = "command" /\ m.command = c
    BY DEF Message
  <2>2. CASE c = NoCommand
    <3>1. toServer' = <<>> /\ (Range(toServer) = {})' /\ Len(toServer') = 0
      BY <2>2 DEF ConnectSucceeds, Range
    <3>. QED  BY <2>1, <2>2, <3>1 DEF Asked, AsksOnce
  <2>3. CASE c # NoCommand
    <3>1. toServer' = <<m>> /\ Len(toServer') = 1
      BY <2>3 DEF ConnectSucceeds
    <3>. HIDE DEF m, c
    <3>2. DOMAIN toServer' = {1} /\ toServer'[1] = m
      BY <3>1
    <3>3. Range(toServer)' = {m}
      BY <3>2 DEF Range
    <3>4. AsksOnce(toServer)'
      BY <3>1 DEF AsksOnce
    <3>5. Asked'
      BY <2>1, <3>3 DEF Asked
    <3>. QED  BY <2>1, <2>3, <3>3, <3>4, <3>5
  <2>. QED  BY <2>2, <2>3
<1>. HIDE DEF c, m
<1>8. (Range(toPage) = {})' /\ Len(toPage') = 0 /\ awaits'.kind # "command"
  BY <1>2 DEF Range, Nothing, Message
<1>9. \A a : ~Says(a)'
  BY <1>8 DEF Says
<1>10. ServerIsIdle' /\ LineIsOfSocket' /\ OpenIsConnected'
  BY <1>2, <1>3 DEF ServerIsIdle, LineIsOfSocket, OpenIsConnected, Disconnected
<1>11. OneAtATime'
  BY <1>2, <1>7, <1>8, <1>9 DEF OneAtATime, ExitIsLast
<1>12. IsTheLast'
  BY <1>2, <1>3, <1>4, <1>5, <1>7 DEF ShellInv, IsTheLast
<1>13. IsRemembered' /\ IsAnswered'
  BY <1>2, <1>3, <1>6, <1>7, <1>9 DEF IsRemembered, IsAnswered
<1>. QED  BY <1>10, <1>11, <1>12, <1>13 DEF ShellInv

(* A patient user gives a command when nothing of an earlier one is left.  *)
LEMMA GiveShell ==
  ASSUME Patient, Inv, ShellInv, GiveCommand
  PROVE  ShellInv'
<1>. DEFINE m == Message("command", given')
<1>1. page \in Pages /\ toServer \in Seq(ToServer) /\ given \in Nat /\ given' = given + 1
      /\ m \in ToServer /\ m.kind = "command" /\ m.command = given'
  BY MessagesAreTyped DEF Inv, PageOK, ConnectionOK, GiveCommand, Message
<1>2. ~Asked /\ shell = 0 /\ ~Says("pty-exited")
  BY DEF Patient, GiveCommand, Usual, AtWork, Asked, Says
<1>3. UNCHANGED <<line, toPage, shell, awaits, over>> /\ given' \notin over
  BY <1>1 DEF GiveCommand, server, ShellInv, IsTheLast
<1>4. over \subseteq 1..given'
  BY <1>1 DEF ShellInv, IsTheLast
<1>5. ~Says("pty-ready")
  BY <1>2 DEF ShellInv, IsAnswered
<1>. HIDE DEF m
<1>6. CASE IsWebSocketReady(page)
  <2>1. page.socket = "open" /\ page' = Sent(page, given')
    BY <1>6 DEF GiveCommand, IsWebSocketReady
  <2>2. /\ page'.socket = "open" /\ page'.connectionState = page.connectionState
        /\ page'.pendingCommand = page.pendingCommand
        /\ page'.lastSentCommand = given' /\ given' # NoCommand
        /\ page'.terminalActive = page.terminalActive
    BY <1>1, <2>1 DEF Sent, Pages, NoCommand
  <2>3. page.pendingCommand = NoCommand
    BY <2>1 DEF ShellInv, OpenIsConnected
  <2>4. /\ line = "up" => Range(toServer)' = Range(toServer) \cup {m}
        /\ line # "up" => toServer' = toServer
        /\ AsksOnce(toServer)'
    <3>1. CASE line = "up"
      <4>1. toServer' = Append(toServer, m)
        BY <1>6, <2>1, <3>1 DEF GiveCommand, Send, m
      <4>. QED  BY <1>1, <1>2, <3>1, <4>1, Appended, AskedOnce
                DEF Asked, ShellInv, OneAtATime
    <3>2. CASE line # "up"
      <4>1. toServer' = toServer
        BY <1>6, <3>2 DEF GiveCommand, Send
      <4>. QED  BY <3>2, <4>1 DEF ShellInv, OneAtATime
    <3>. QED  BY <3>1, <3>2
  <2>5. /\ \A n \in Range(toServer)' : n.kind = "command" => n = m
        /\ line = "up" => Asked'
    BY <1>1, <1>2, <2>4 DEF Asked
  <2>6. ServerIsIdle' /\ LineIsOfSocket' /\ OpenIsConnected'
    <3>1. line = "dead" => toServer' = toServer
      BY <2>4
    <3>. QED  BY <1>3, <2>1, <2>2, <2>3, <3>1
              DEF ShellInv, ServerIsIdle, LineIsOfSocket, OpenIsConnected, Disconnected
  <2>7. OneAtATime'
    BY <1>2, <1>3, <2>4 DEF ShellInv, OneAtATime, Says
  <2>8. IsTheLast'
    BY <1>1, <1>2, <1>3, <1>4, <2>2, <2>3, <2>5 DEF IsTheLast
  <2>9. IsRemembered' /\ IsAnswered'
    BY <1>2, <1>3, <1>5, <2>2, <2>5 DEF IsRemembered, IsAnswered, Says
  <2>. QED  BY <2>6, <2>7, <2>8, <2>9 DEF ShellInv
<1>7. CASE ~IsWebSocketReady(page)
  <2>1. page' = [page EXCEPT !.pendingCommand = given'] /\ toServer' = toServer
        /\ page.lastSentCommand = NoCommand
    BY <1>7 DEF GiveCommand, Patient, Usual
  <2>2. /\ page'.socket = page.socket /\ page'.connectionState = page.connectionState
        /\ page'.pendingCommand = given' /\ page'.lastSentCommand = NoCommand
        /\ page'.terminalActive = page.terminalActive
    BY <1>1, <2>1 DEF Pages
  <2>3. page.socket # "open"
    BY <1>7 DEF ShellInv, OpenIsConnected, IsWebSocketReady
  <2>4. Asked' <=> Asked
    BY <2>1 DEF Asked
  <2>5. ServerIsIdle' /\ LineIsOfSocket' /\ OpenIsConnected'
    BY <1>3, <2>1, <2>2, <2>3
    DEF ShellInv, ServerIsIdle, LineIsOfSocket, OpenIsConnected, Disconnected
  <2>6. OneAtATime'
    BY <1>2, <1>3, <2>1, <2>4 DEF ShellInv, OneAtATime, Says, AsksOnce
  <2>7. IsTheLast'
    BY <1>1, <1>2, <1>3, <1>4, <2>1, <2>2 DEF IsTheLast, Asked
  <2>8. IsRemembered' /\ IsAnswered'
    BY <1>2, <1>3, <1>5, <2>1, <2>2, <2>3, <2>4
    DEF ShellInv, IsRemembered, IsAnswered, Says
  <2>. QED  BY <2>5, <2>6, <2>7, <2>8 DEF ShellInv
<1>. QED  BY <1>6, <1>7

(* The end of a shell is the last that is heard of its command.            *)
LEMMA HearShell ==
  ASSUME Inv, ShellInv, PageReceives
  PROVE  ShellInv'
<1>. DEFINE a == Head(toPage)
<1>1. page \in Pages /\ toPage \in Seq(Answers) /\ toPage # <<>> /\ page.socket = "open"
      /\ page' = HandleAnswer(page, a) /\ toPage' = Tail(toPage)
  BY DEF Inv, PageOK, ConnectionOK, PageReceives
<1>2. UNCHANGED <<line, toServer, shell, awaits, given>> /\ (Asked' <=> Asked)
  BY DEF PageReceives, server, Asked
<1>3. /\ Range(toPage) = {a} \cup Range(toPage') /\ a \in Answers
      /\ ExitIsLast(toPage)' /\ (a = "pty-exited" => Range(toPage)' \subseteq {"pong"})
  BY <1>1, Taken, ExitedLast DEF ShellInv, OneAtATime
<1>4. a # "unprocessable"
  BY <1>3 DEF ShellInv, OneAtATime, Says
<1>5. over' = over \cup IF a = "pty-exited" THEN {page.lastSentCommand} \ {NoCommand} ELSE {}
  BY DEF PageReceives
<1>. HIDE DEF a
<1>6. /\ page'.socket = "open" /\ page'.connectionState = page.connectionState
      /\ page'.pendingCommand = page.pendingCommand
      /\ page'.lastSentCommand = IF a = "pty-exited" THEN NoCommand ELSE page.lastSentCommand
      /\ a \in {"refused", "pty-exited"} => ~page'.terminalActive
      /\ a = "pong" => page'.terminalActive = page.terminalActive
  <2>1. CASE a = "pty-exited"
    <3>. DEFINE q == [page EXCEPT !.lastSentCommand = NoCommand]
    <3>1. q \in Pages /\ q.socket = "open" /\ q.connectionState = page.connectionState
          /\ q.pendingCommand = page.pendingCommand /\ q.lastSentCommand = NoCommand
      BY <1>1 DEF Pages, NoCommand
    <3>. HIDE DEF q
    <3>2. page' = Deactivate(q)
      BY <1>1, <2>1 DEF HandleAnswer, q
    <3>. QED  BY <2>1, <3>1, <3>2, DeactivateCarries DEF Carries
  <2>2. CASE a = "refused"
    <3>1. page' = Deactivate(page)
      BY <1>1, <2>2 DEF HandleAnswer
    <3>. QED  BY <1>1, <2>2, <3>1, DeactivateCarries DEF Carries
  <2>3. CASE a = "pty-ready"
    BY <1>1, <2>3 DEF HandleAnswer, Pages
  <2>4. CASE a = "pong"
    BY <1>1, <2>4 DEF HandleAnswer, ResetPingTimeout, Pages
  <2>. QED  BY <1>3, <1>4, <2>1, <2>2, <2>3, <2>4 DEF Answers
<1>7. a = "pty-exited" => shell = 0 /\ ~Asked
  BY <1>3 DEF ShellInv, OneAtATime, Says
<1>8. ServerIsIdle' /\ LineIsOfSocket' /\ OpenIsConnected'
  <2>1. line # "dead"
    BY <1>1 DEF ShellInv, ServerIsIdle
  <2>. QED  BY <1>1, <1>2, <1>6, <2>1
            DEF ShellInv, ServerIsIdle, LineIsOfSocket, OpenIsConnected, Disconnected
<1>9. OneAtATime'
  BY <1>2, <1>3 DEF ShellInv, OneAtATime, Says, AsksOnce
<1>10. IsTheLast'
  <2>1. given \in Nat
    BY DEF Inv, ConnectionOK
  <2>2. page.pendingCommand = NoCommand
    BY <1>1 DEF ShellInv, OpenIsConnected
  <2>3. over' \subseteq 1..given
    <3>1. {page.lastSentCommand} \ {NoCommand} \subseteq 1..given
      BY <2>1 DEF ShellInv, IsTheLast, NoCommand
    <3>. QED  BY <1>5, <3>1 DEF ShellInv, IsTheLast
  <2>4. CASE a = "pty-exited"
    BY <1>2, <1>6, <1>7, <2>2, <2>3, <2>4 DEF ShellInv, IsTheLast
  <2>5. CASE a # "pty-exited"
    BY <1>2, <1>5, <1>6, <2>2, <2>3, <2>5 DEF ShellInv, IsTheLast
  <2>. QED  BY <2>4, <2>5
<1>11. IsRemembered'
  <2>1. CASE a = "pty-exited"
    BY <1>2, <1>3, <1>6, <1>7, <2>1 DEF IsRemembered, Says
  <2>2. CASE a # "pty-exited"
    <3>1. page'.terminalActive => page.terminalActive \/ a = "pty-ready"
      BY <1>3, <1>4, <1>6, <2>2 DEF Answers
    <3>. QED  BY <1>2, <1>3, <1>6, <2>2, <3>1 DEF ShellInv, IsRemembered, Says
  <2>. QED  BY <2>1, <2>2
<1>12. IsAnswered'
  BY <1>1, <1>2, <1>3, <1>4, <1>6, <1>7 DEF ShellInv, IsAnswered, Says, Answers
<1>. QED  BY <1>8, <1>9, <1>10, <1>11, <1>12 DEF ShellInv

(* The server runs a command when no shell is at work, and reports the     *)
(* end of a shell when no command is on its way.                           *)
LEMMA AnsweredShell ==
  ASSUME toPage \in Seq(Answers), NEW a \in Answers, Answer(a)
  PROVE  Range(toPage') = Range(toPage) \cup {a}
  BY Appended DEF Answer

LEMMA ExitShell ==
  ASSUME Inv, ShellInv, ShellExits
  PROVE  ShellInv'
<1>1. shell # 0 /\ shell' = 0 /\ Answer("pty-exited")
      /\ UNCHANGED <<page, line, toServer, awaits, given, over>> /\ (Asked' <=> Asked)
  BY DEF ShellExits, history, Asked
<1>2. toPage \in Seq(Answers) /\ "pty-exited" \in Answers
  BY DEF Inv, ConnectionOK, Answers
<1>3. ~Asked /\ ~Says("pty-exited") /\ ~Disconnected /\ line # "dead"
  BY <1>1 DEF ShellInv, OneAtATime, ServerIsIdle
<1>4. Range(toPage') = Range(toPage) \cup {"pty-exited"} /\ ExitIsLast(toPage)'
  BY <1>1, <1>2, <1>3, AnsweredShell, ExitedLast DEF Answer, ShellInv, OneAtATime, Says
<1>5. ServerIsIdle' /\ LineIsOfSocket' /\ OpenIsConnected'
  BY <1>1, <1>3 DEF ShellInv, ServerIsIdle, LineIsOfSocket, OpenIsConnected, Disconnected
<1>6. OneAtATime'
  BY <1>1, <1>3, <1>4 DEF ShellInv, OneAtATime, Says, AsksOnce
<1>7. IsTheLast'
  BY <1>1 DEF ShellInv, IsTheLast
<1>8. IsRemembered' /\ IsAnswered'
  BY <1>1, <1>4 DEF ShellInv, IsRemembered, IsAnswered, Says
<1>. QED  BY <1>5, <1>6, <1>7, <1>8 DEF ShellInv

LEMMA KillShell ==
  ASSUME Inv, ShellInv, KillEnds
  PROVE  ShellInv'
<1>1. awaits.kind # "command"
  BY DEF ShellInv, OneAtATime
<1>2. UNCHANGED <<page, line, toServer, toPage, shell, given, over>> /\ awaits' = Nothing
      /\ awaits'.kind # "command" /\ (Asked' <=> Asked)
  BY <1>1 DEF KillEnds, history, Nothing, Message, Asked
<1>. QED
  BY <1>2
  DEF ShellInv, ServerIsIdle, LineIsOfSocket, OpenIsConnected, Disconnected, OneAtATime,
      IsTheLast, IsRemembered, IsAnswered, Says, AsksOnce, ExitIsLast

LEMMA ServeShell ==
  ASSUME Inv, ShellInv, ServerReceives
  PROVE  ShellInv'
<1>. DEFINE m == Head(toServer)
<1>1. toServer \in Seq(ToServer) /\ toServer # <<>> /\ toServer' = Tail(toServer)
      /\ toPage \in Seq(Answers) /\ given \in Nat
  BY DEF Inv, ConnectionOK, ServerReceives
<1>2. UNCHANGED <<page, line, given, over>>
  BY DEF ServerReceives, history
<1>3. ~Disconnected /\ line # "dead"
  BY <1>1 DEF ShellInv, ServerIsIdle
<1>4. /\ Range(toServer) = {m} \cup Range(toServer') /\ m \in ToServer
      /\ AsksOnce(toServer)'
      /\ m.kind = "command" => ~Asked'
  BY <1>1, Taken, AskedOnce DEF ShellInv, OneAtATime, Asked
<1>5. /\ m.kind = "command" => Asked
      /\ m.kind # "command" => (Asked' <=> Asked)
  BY <1>4 DEF Asked
<1>6. m.kind = "command" =>
        shell = 0 /\ m.command = given /\ given # 0 /\ ~Says("pty-exited") /\ given \notin over
  <2>1. m.kind = "command" => m.command = given /\ given \notin over
    BY <1>4, <1>5 DEF ShellInv, IsTheLast
  <2>2. m.kind = "command" => page.lastSentCommand # 0
    BY <1>5 DEF ShellInv, IsRemembered, NoCommand
  <2>. QED  BY <1>5, <2>1, <2>2 DEF ShellInv, OneAtATime, IsTheLast, NoCommand
<1>. HIDE DEF m
<1>7. ServerIsIdle' /\ LineIsOfSocket' /\ OpenIsConnected'
  BY <1>2, <1>3 DEF ShellInv, ServerIsIdle, LineIsOfSocket, OpenIsConnected, Disconnected
<1>8. CASE m.kind # "command"
  <2>1. /\ UNCHANGED shell /\ awaits'.kind # "command"
        /\ UNCHANGED toPage \/ Answer("pong")
    BY <1>8 DEF ServerReceives, server, m, ShellInv, OneAtATime
  <2>2. ExitIsLast(toPage)' /\ \A a \in Answers : a # "pong" => (Says(a)' <=> Says(a))
    BY <1>1, <2>1, AnsweredShell, ExitedLast
    DEF Answer, Says, ShellInv, OneAtATime, Answers, ExitIsLast
  <2>3. \A a \in {"unprocessable", "pty-exited", "pty-ready", "refused"} : Says(a)' <=> Says(a)
    BY <2>2 DEF Answers
  <2>4. OneAtATime'
    BY <1>4, <1>5, <1>8, <2>1, <2>2, <2>3 DEF ShellInv, OneAtATime
  <2>5. IsTheLast'
    BY <1>2, <1>4, <1>5, <1>8, <2>1 DEF ShellInv, IsTheLast
  <2>6. IsRemembered' /\ IsAnswered'
    BY <1>2, <1>5, <1>8, <2>1, <2>3 DEF ShellInv, IsRemembered, IsAnswered
  <2>. QED  BY <1>7, <2>4, <2>5, <2>6 DEF ShellInv
<1>9. CASE m.kind = "command"
  <2>1. UNCHANGED awaits /\ PageRunsCommand(given)
    BY <1>6, <1>9 DEF ServerReceives, m
  <2>2. PICK a \in {"pty-ready", "refused"} :
          Answer(a) /\ shell' = IF a = "pty-ready" THEN given ELSE 0
    BY <2>1 DEF PageRunsCommand
  <2>3. Range(toPage') = Range(toPage) \cup {a} /\ ExitIsLast(toPage)'
    <3>1. a \in Answers /\ "pty-exited" \notin Range(toPage)
      BY <1>6, <1>9 DEF Answers, Says
    <3>. QED  BY <1>1, <2>2, <3>1, AnsweredShell, ExitedLast DEF Answer, ShellInv, OneAtATime
  <2>4. OneAtATime'
    BY <1>4, <1>6, <1>9, <2>1, <2>2, <2>3 DEF ShellInv, OneAtATime, Says
  <2>5. IsTheLast'
    BY <1>2, <1>4, <1>6, <1>9, <2>2 DEF ShellInv, IsTheLast
  <2>6. page'.lastSentCommand # NoCommand
    BY <1>2, <1>5, <1>9 DEF ShellInv, IsRemembered
  <2>7. IsRemembered' /\ IsAnswered'
    BY <1>6, <1>9, <2>2, <2>3, <2>6 DEF ShellInv, IsRemembered, IsAnswered, Says
  <2>. QED  BY <1>7, <2>4, <2>5, <2>7 DEF ShellInv
<1>. QED  BY <1>8, <1>9

(* A connection that is lost, closed, or dead without a word. *)
LEMMA LostShell ==
  ASSUME Inv, ShellInv, ConnectionLost \/ CloseCompletes \/ LineDies
  PROVE  ShellInv'
<1>1. page \in Pages
  BY DEF Inv, PageOK
<1>2. toServer' = <<>> /\ toPage' = <<>> /\ shell' = 0 /\ awaits' = Nothing
      /\ UNCHANGED <<given, over>>
  BY DEF ConnectionLost, CloseCompletes, LineDies, ConnectionEnds, Loss, history
<1>3. CASE LineDies
  <2>1. page' = page /\ page.socket = "open" /\ line' = "dead" /\ Carries(page, page')
    BY <1>3 DEF LineDies, Carries
  <2>. QED  BY <1>2, <2>1, EndShell
<1>4. CASE ConnectionLost \/ CloseCompletes
  <2>1. PICK p \in {page, HandleSocketError(page)}, c \in BOOLEAN :
          page' = HandleSocketClose(p, c)
    <3>1. (page.clean /\ line = "up") \in BOOLEAN
      OBVIOUS
    <3>. QED  BY <1>4, <3>1 DEF ConnectionLost, CloseCompletes
  <2>2. p \in Pages /\ Carries(page, p)
    BY <1>1, <2>1, ErrorCarries DEF Carries
  <2>3. Carries(page, page') /\ page'.socket = "closed"
    BY <2>1, <2>2, CloseCarries, CarriesOn
  <2>4. line' = "up"
    BY <1>4 DEF ConnectionLost, CloseCompletes, ConnectionEnds
  <2>. QED  BY <1>2, <2>3, <2>4, EndShell
<1>. QED  BY <1>3, <1>4

LEMMA AttemptShell ==
  ASSUME Inv, ShellInv, ConnectFails \/ ConnectTimesOut
  PROVE  ShellInv'
<1>1. page \in Pages
  BY DEF Inv, PageOK
<1>2. UNCHANGED <<connection, server, given, over>>
  BY DEF ConnectFails, ConnectTimesOut, Loss, history
<1>3. /\ Carries(page, page')
      /\ page'.socket \in {"closed", "connecting"} => Disconnected
      /\ page'.socket = "open" =>
           page.socket = "open" /\ page'.connectionState = page.connectionState
  <2>1. CASE ConnectFails
    <3>1. HandleSocketError(page) \in Pages /\ Carries(page, HandleSocketError(page))
      BY <1>1, ErrorCarries
    <3>2. Carries(page, page') /\ page'.socket = "closed"
      BY <2>1, <3>1, CloseCarries, CarriesOn DEF ConnectFails
    <3>. QED  BY <2>1, <3>2 DEF ConnectFails, Disconnected
  <2>2. CASE ConnectTimesOut
    <3>. DEFINE f == [page EXCEPT !.connectionTimeout = FALSE]
    <3>1. f \in Pages /\ Carries(page, f) /\ f.socket = page.socket
          /\ f.connectionState = page.connectionState
      BY <1>1 DEF Carries, Pages
    <3>. HIDE DEF f
    <3>2. CASE page.connectionState = "connecting"
      <4>. DEFINE q == CloseSocket(f, FALSE)
      <4>1. q \in Pages /\ Carries(f, q)
            /\ q.socket = IF f.socket \in {"open", "connecting"} THEN "closing" ELSE f.socket
        BY <3>1, SocketCarries
      <4>. HIDE DEF q
      <4>2. page' = HandleConnectionError(q)
        BY <2>2, <3>2 DEF ConnectTimesOut, f, q
      <4>3. Carries(page, page') /\ page'.socket = q.socket
        BY <3>1, <4>1, <4>2, ErrorCarries, CarriesOn
      <4>. QED  BY <3>1, <4>1, <4>3 DEF Disconnected
    <3>3. CASE page.connectionState # "connecting"
      <4>1. page' = f
        BY <2>2, <3>3 DEF ConnectTimesOut, f
      <4>. QED  BY <3>1, <4>1 DEF Disconnected
    <3>. QED  BY <3>2, <3>3
  <2>. QED  BY <2>1, <2>2
<1>. QED  BY <1>2, <1>3, PageShell DEF connection

LEMMA TimerShell ==
  ASSUME Inv, ShellInv, ReconnectTimer \/ ForgottenTimer \/ PingTimeout \/ ResumeTimeout
  PROVE  ShellInv'
<1>1. page \in Pages
  BY DEF Inv, PageOK
<1>2. UNCHANGED <<connection, server, given, over>>
  BY DEF ReconnectTimer, ForgottenTimer, PingTimeout, ResumeTimeout, history
<1>3. PICK p \in Pages :
        /\ Carries(page, p) /\ p.socket = page.socket
        /\ p.connectionState = page.connectionState
        /\ page' \in {p, InitializeWebSocket(p), CloseSocket(p, FALSE)}
  <2>. PICK n \in Nat : n = page.reconnectAttempts + 1
    BY <1>1 DEF Pages
  <2>1. CASE ReconnectTimer
    <3>. DEFINE p == [page EXCEPT !.reconnectInterval = FALSE, !.reconnectAttempts = n]
    <3>1. p \in Pages /\ Carries(page, p) /\ p.socket = page.socket
          /\ p.connectionState = page.connectionState
      BY <1>1 DEF Carries, Pages
    <3>2. page' = InitializeWebSocket(p)
      BY <2>1 DEF ReconnectTimer
    <3>. QED  BY <3>1, <3>2
  <2>2. CASE ForgottenTimer
    <3>1. PICK k \in Nat : k = page.forgotten - 1
      BY <1>1, <2>2 DEF Pages, ForgottenTimer
    <3>. DEFINE p == [page EXCEPT !.forgotten = k, !.reconnectAttempts = n]
    <3>2. p \in Pages /\ Carries(page, p) /\ p.socket = page.socket
          /\ p.connectionState = page.connectionState
      BY <1>1 DEF Carries, Pages
    <3>3. page' = InitializeWebSocket(p)
      BY <2>2, <3>1 DEF ForgottenTimer
    <3>. QED  BY <3>2, <3>3
  <2>3. CASE PingTimeout \/ ResumeTimeout
    <3>. DEFINE p == [page EXCEPT !.pingTimeout = "null"]
    <3>1. p \in Pages /\ Carries(page, p) /\ p.socket = page.socket
          /\ p.connectionState = page.connectionState
      BY <1>1 DEF Carries, Pages
    <3>. QED  BY <2>3, <3>1 DEF PingTimeout, ResumeTimeout
  <2>. QED  BY <2>1, <2>2, <2>3
<1>4. /\ Carries(page, page')
      /\ page'.socket \in {"closed", "connecting"} => Disconnected
      /\ page'.socket = "open" =>
           page.socket = "open" /\ page'.connectionState = page.connectionState
  <2>1. CASE page' = p
    BY <1>3, <2>1 DEF Disconnected
  <2>2. CASE page' = InitializeWebSocket(p)
    BY <1>3, <2>2, InitializeCarries, CarriesOn DEF Disconnected
  <2>3. CASE page' = CloseSocket(p, FALSE)
    BY <1>3, <2>3, SocketCarries, CarriesOn DEF Disconnected
  <2>. QED  BY <1>3, <2>1, <2>2, <2>3
<1>. QED  BY <1>2, <1>4, PageShell DEF connection

LEMMA TabShell ==
  ASSUME Inv, ShellInv, KeepAlive \/ Hide \/ Show
  PROVE  ShellInv'
<1>1. page \in Pages
  BY DEF Inv, PageOK
<1>2. UNCHANGED <<line, toPage, server, given, over>>
  BY DEF KeepAlive, Hide, Show, connection, history
<1>3. UNCHANGED toServer \/ Sends(Message("ping", 0))
  BY DEF KeepAlive, Hide, Show, connection, Send, Sends
<1>4. PICK p \in Pages :
        /\ Carries(page, p) /\ p.socket = page.socket
        /\ p.connectionState = page.connectionState
        /\ page' \in {p, InitializeWebSocket(p)}
  <2>1. CASE KeepAlive
    BY <1>1, <2>1 DEF KeepAlive, Carries
  <2>2. CASE Hide
    <3>. DEFINE p == [page EXCEPT !.visible = FALSE, !.pingTimeout = "null",
                                  !.wasConnected = page.connectionState = "connected"]
    <3>1. p \in Pages /\ Carries(page, p) /\ p.socket = page.socket
          /\ p.connectionState = page.connectionState
      BY <1>1 DEF Carries, Pages
    <3>. QED  BY <2>2, <3>1 DEF Hide
  <2>3. CASE Show
    <3>. DEFINE s == [page EXCEPT !.visible = TRUE]
                q == [s EXCEPT !.pingTimeout = "resume"]
                r == [s EXCEPT !.reconnectAttempts = 0]
    <3>1. /\ s \in Pages /\ Carries(page, s) /\ s.socket = page.socket
          /\ s.connectionState = page.connectionState
      BY <1>1 DEF Carries, Pages
    <3>2. page' \in {q, s, InitializeWebSocket(r)}
      BY <2>3 DEF Show
    <3>. HIDE DEF s
    <3>3. /\ q \in Pages /\ Carries(s, q) /\ q.socket = s.socket
          /\ q.connectionState = s.connectionState
          /\ r \in Pages /\ Carries(s, r) /\ r.socket = s.socket
          /\ r.connectionState = s.connectionState
      BY <3>1 DEF Carries, Pages
    <3>. HIDE DEF q, r
    <3>. QED  BY <3>1, <3>2, <3>3, CarriesOn
  <2>. QED  BY <2>1, <2>2, <2>3
<1>5. /\ Carries(page, page')
      /\ page'.socket \in {"closed", "connecting"} => Disconnected
      /\ page'.socket = "open" =>
           page.socket = "open" /\ page'.connectionState = page.connectionState
  <2>1. CASE page' = p
    BY <1>4, <2>1 DEF Disconnected
  <2>2. CASE page' = InitializeWebSocket(p)
    BY <1>4, <2>2, InitializeCarries, CarriesOn DEF Disconnected
  <2>. QED  BY <1>4, <2>1, <2>2
<1>. QED  BY <1>2, <1>3, <1>5, PageShell

LEMMA LeaveShell ==
  ASSUME Inv, ShellInv, Leave
  PROVE  ShellInv'
<1>. DEFINE c == ClearAllTimers(page)
            p == [c EXCEPT !.left = TRUE, !.connectionState = "disconnected",
                           !.pendingCommand = NoCommand]
<1>1. c \in Pages /\ Carries(page, c) /\ c.socket = page.socket
  BY DEF Inv, PageOK, ClearAllTimers, Carries, Pages
<1>2. page' = CloseSocket(p, TRUE)
  BY DEF Leave
<1>. HIDE DEF c
<1>3. p \in Pages /\ Carries(c, p) /\ p.socket = c.socket
  BY <1>1 DEF Carries, Pages, NoCommand
<1>. HIDE DEF p
<1>4. /\ Carries(page, page')
      /\ page'.socket = IF page.socket \in {"open", "connecting"} THEN "closing"
                        ELSE page.socket
  BY <1>1, <1>2, <1>3, SocketCarries, CarriesOn
<1>5. UNCHANGED <<line, toPage, server, given, over>>
      /\ (UNCHANGED toServer \/ Sends(Message("force", 0)))
  BY DEF Leave, history, Send, Sends
<1>. QED  BY <1>4, <1>5, PageShell DEF Disconnected

LEMMA StutterShell ==
  ASSUME ShellInv, UNCHANGED pageVars
  PROVE  ShellInv'
BY DEF ShellInv, ServerIsIdle, LineIsOfSocket, OpenIsConnected, Disconnected, OneAtATime,
       IsTheLast, IsRemembered, IsAnswered, Says, Asked, AsksOnce, ExitIsLast,
       pageVars, connection, server, history

LEMMA StepShell ==
  ASSUME Patient, Inv, ShellInv, [PageNext]_pageVars
  PROVE  ShellInv'
BY StutterShell, ConnectShell, AttemptShell, LostShell, TimerShell, TabShell, GiveShell,
   LeaveShell, HearShell, ServeShell, ExitShell, KillShell DEF PageNext

(* For users who wait for the end of a shell before they ask for another   *)
(* and for the connection when a command is to be repeated.                *)
LEMMA AlwaysShell ==
  ASSUME Patient
  PROVE  PageSpec => []ShellInv
<1>1. PageInit => ShellInv
  BY InitShell
<1>2. Inv /\ ShellInv /\ [PageNext]_pageVars => ShellInv'
  BY StepShell
<1>. QED  BY <1>1, <1>2, Invariance, PTL DEF PageSpec

(* The page shows a terminal only if there is a shell behind it, also      *)
(* after the connection was lost and made again (handleSocketOpen(),       *)
(* handleSocketClose(), handleSocketMessage()).                            *)
THEOREM ShownTerminalsHaveShells ==
  ASSUME Patient
  PROVE  PageSpec => []ShownIsThere
<1>1. ShellInv => ShownIsThere
  <2>. SUFFICES ASSUME ShellInv, PageQuiet, page.terminalActive  PROVE shell # 0
    BY DEF ShownIsThere
  <2>1. Range(toServer) = {} /\ Range(toPage) = {}
    BY DEF PageQuiet, Range
  <2>. QED  BY <2>1 DEF ShellInv, IsAnswered, PageQuiet, Says, Asked
<1>. QED  BY <1>1, AlwaysShell, PTL

(* What is repeated after a reconnect is what the user asked for last.     *)
THEOREM TheLatestIsRepeated ==
  ASSUME Patient
  PROVE  PageSpec => []LatestIsShown
<1>1. ShellInv => LatestIsShown
  BY DEF ShellInv, IsTheLast, LatestIsShown
<1>. QED  BY <1>1, AlwaysShell, PTL

(* A shell that the user has seen end does not start again by itself: the  *)
(* page forgets its command before any reconnect could repeat it.          *)
THEOREM EndedShellsStayEnded ==
  ASSUME Patient
  PROVE  PageSpec => []EndedStaysEnded
<1>1. Inv /\ ShellInv => EndedStaysEnded
  <2>. SUFFICES ASSUME Inv, ShellInv, shell \in over  PROVE FALSE
    BY DEF EndedStaysEnded
  <2>1. shell \in 1..given /\ given \in Nat
    BY DEF ShellInv, IsTheLast, Inv, ConnectionOK
  <2>2. shell = given
    BY <2>1 DEF ShellInv, IsTheLast
  <2>. QED  BY <2>1, <2>2 DEF ShellInv, IsTheLast
<1>. QED  BY <1>1, Invariance, AlwaysShell, PTL
=============================================================================
