------------------------ MODULE TerminalServer_proofs ------------------------
(***************************************************************************)
(* The inductive invariant of TerminalServer holds for any number of       *)
(* messages and attempts, whichever races take place.                      *)
(***************************************************************************)
EXTENDS TerminalServer, SequenceTheorems, TLAPS

(* The invariant by what an action touches: the session's PTY, the kill    *)
(* loops, and the connection.                                              *)
SessionOK ==
  /\ pty \in Nat /\ timer \in Nat /\ spawned \in Nat
  /\ live \subseteq Nat \ {0} /\ isActive \in BOOLEAN
  /\ SessionOwnsPty /\ TimerIsCurrent

KillingOK ==
  loops \in Seq(Loops) /\ told \subseteq Nat \ {0} /\ CloseLoopsAreLate

LinkOK ==
  /\ client \in {"there", "gone"}
  /\ socket \in {"open", "failing", "closed"}
  /\ isAlive \in BOOLEAN /\ registered \in BOOLEAN
  /\ auth \in {"waiting", "draining", "ready", "failed"}
  /\ pendingMessages \in Seq(Messages)
  /\ received \in 0..MaxMessages
  /\ CommandFindsSession

LEMMA Parts == Inv <=> SessionOK /\ KillingOK /\ LinkOK
  BY DEF Inv, TypeOK, SessionOK, KillingOK, LinkOK

LEMMA PartsNext == Inv' <=> SessionOK' /\ KillingOK' /\ LinkOK'
  BY DEF Inv, TypeOK, SessionOK, KillingOK, LinkOK, SessionOwnsPty,
         TimerIsCurrent, CloseLoopsAreLate, CommandFindsSession

(* Without a write to its variables, a part stays as it is. *)
LEMMA SessionKept == SessionOK /\ UNCHANGED session => SessionOK'
  BY DEF SessionOK, session, SessionOwnsPty, TimerIsCurrent

LEMMA KillingKept ==
  ASSUME KillingOK, UNCHANGED killing, socket = "closed" => socket' = "closed"
  PROVE  KillingOK'
  BY DEF KillingOK, killing, CloseLoopsAreLate

(* Only a loop for a closed socket may end with the removal of the session. *)
LEMMA LoopStarted ==
  ASSUME KillingOK, live \subseteq Nat \ {0},
         NEW owner \in Owners, NEW m \in Messages, StartLoop(owner, m),
         socket = "closed" \/ owner = "close" => socket' = "closed"
  PROVE  KillingOK'
<1> DEFINE loop == [owner |-> owner, attempts |-> 1, msg |-> m]
<1>1. loop \in Loops
  BY AttemptsAssumption DEF Loops
<1>2. /\ loops' \in Seq(Loops)
      /\ Len(loops') = Len(loops) + 1
      /\ \A i \in 1..Len(loops) : loops'[i] = loops[i]
      /\ loops'[Len(loops) + 1] = loop
  BY <1>1, AppendProperties DEF KillingOK, StartLoop
<1>3. told' \subseteq Nat \ {0}
  BY DEF KillingOK, StartLoop
<1>4. CloseLoopsAreLate'
  <2> SUFFICES ASSUME NEW i \in DOMAIN loops', loops'[i].owner = "close"
               PROVE  socket' = "closed"
    BY DEF CloseLoopsAreLate
  <2>1. i \in 1..Len(loops) \/ i = Len(loops) + 1
    BY <1>2, LenProperties DEF KillingOK
  <2>2. CASE i \in 1..Len(loops)
    <3>1. i \in DOMAIN loops /\ loops[i].owner = "close"
      BY <1>2, <2>2, LenProperties DEF KillingOK
    <3>. QED  BY <3>1 DEF KillingOK, CloseLoopsAreLate
  <2>3. CASE i = Len(loops) + 1
    BY <1>2, <2>3
  <2>. QED  BY <2>1, <2>2, <2>3
<1>. QED  BY <1>2, <1>3, <1>4 DEF KillingOK

(* A loop whose timeout strikes leaves the sequence, and may join it again. *)
LEMMA LoopLeaves ==
  ASSUME KillingOK, loops # <<>>
  PROVE  /\ Head(loops) \in Loops /\ Tail(loops) \in Seq(Loops)
         /\ Head(loops).owner = "close" => socket = "closed"
         /\ \A i \in DOMAIN Tail(loops) :
              Tail(loops)[i].owner = "close" => socket = "closed"
<1>1. /\ Head(loops) \in Loops /\ Head(loops) = loops[1] /\ 1 \in DOMAIN loops
      /\ Tail(loops) \in Seq(Loops) /\ Len(Tail(loops)) = Len(loops) - 1
      /\ \A i \in 1..Len(Tail(loops)) : Tail(loops)[i] = loops[i + 1]
  BY HeadTailProperties, LenProperties, EmptySeq DEF KillingOK
<1>2. \A i \in DOMAIN Tail(loops) :
        i + 1 \in DOMAIN loops /\ Tail(loops)[i] = loops[i + 1]
  BY <1>1, LenProperties DEF KillingOK
<1>. QED  BY <1>1, <1>2 DEF KillingOK, CloseLoopsAreLate

(* A command starts a PTY only where none is alive. *)
LEMMA CommandRun ==
  ASSUME SessionOK, ~isActive, NEW m \in Messages, RunCommand(m)
  PROVE  SessionOK'
<1>1. CASE m = "command"
  BY <1>1 DEF SessionOK, RunCommand, Spawn, SessionOwnsPty, TimerIsCurrent
<1>2. CASE m # "command"
  BY <1>2 DEF SessionOK, RunCommand, SessionOwnsPty, TimerIsCurrent
<1>. QED  BY <1>1, <1>2

LEMMA MessageHandled ==
  ASSUME SessionOK, KillingOK, NEW m \in Messages, Handle(m), UNCHANGED socket
  PROVE  SessionOK' /\ KillingOK'
<1>1. CASE isActive /\ StartLoop(IF m = "force" THEN "force" ELSE "command", m)
           /\ UNCHANGED session
  <2>1. PICK owner \in {"force", "command"} : StartLoop(owner, m)
    BY <1>1
  <2>2. KillingOK'
    BY <2>1, LoopStarted DEF Owners, SessionOK
  <2>. QED  BY <1>1, <2>2, SessionKept
<1>2. CASE UNCHANGED <<session, killing>>
  BY <1>2, SessionKept, KillingKept
<1>3. CASE ~isActive /\ RunCommand(m) /\ UNCHANGED killing
  BY <1>3, CommandRun, KillingKept
<1>. QED  BY <1>1, <1>2, <1>3 DEF Handle

----------------------------------------------------------------------------
LEMMA InitInv == Init => Inv
<1> SUFFICES ASSUME Init PROVE Inv
  OBVIOUS
<1>1. SessionOK
  BY DEF Init, SessionOK, SessionOwnsPty, TimerIsCurrent
<1>2. KillingOK
  BY EmptySeq DEF Init, KillingOK, CloseLoopsAreLate
<1>3. LinkOK
  <2>1. pendingMessages \in Seq(Messages)
    BY EmptySeq DEF Init
  <2>2. received \in 0..MaxMessages
    BY AttemptsAssumption DEF Init
  <2>. QED  BY <2>1, <2>2 DEF Init, LinkOK, CommandFindsSession
<1>. QED  BY <1>1, <1>2, <1>3, Parts

LEMMA AuthOkInv == Inv /\ AuthOk => Inv'
<1> SUFFICES ASSUME SessionOK, KillingOK, LinkOK, AuthOk PROVE Inv'
  BY Parts
<1>1. SessionOK' /\ KillingOK'
  BY SessionKept, KillingKept DEF AuthOk, link
<1>2. LinkOK'
  BY DEF AuthOk, link, LinkOK, CommandFindsSession
<1>. QED  BY <1>1, <1>2, PartsNext

LEMMA AuthFailsInv == Inv /\ AuthFails => Inv'
<1> SUFFICES ASSUME SessionOK, KillingOK, LinkOK, AuthFails PROVE Inv'
  BY Parts
<1>1. SessionOK' /\ KillingOK'
  BY SessionKept, KillingKept DEF AuthFails
<1>2. LinkOK'
  BY DEF AuthFails, LinkOK, CommandFindsSession
<1>. QED  BY <1>1, <1>2, PartsNext

LEMMA DrainInv == Inv /\ Drain => Inv'
<1> SUFFICES ASSUME SessionOK, KillingOK, LinkOK, Drain PROVE Inv'
  BY Parts
<1>1. CASE pendingMessages = <<>>
  <2>1. SessionOK' /\ KillingOK'
    BY <1>1, SessionKept, KillingKept DEF Drain, link
  <2>2. LinkOK'
    BY <1>1 DEF Drain, link, LinkOK, CommandFindsSession
  <2>. QED  BY <2>1, <2>2, PartsNext
<1>2. CASE pendingMessages # <<>>
  <2>1. /\ Head(pendingMessages) \in Messages
        /\ Tail(pendingMessages) \in Seq(Messages)
    BY <1>2, HeadTailProperties DEF LinkOK
  <2>2. SessionOK' /\ KillingOK'
    BY <1>2, <2>1, MessageHandled DEF Drain, link
  <2>3. LinkOK'
    BY <1>2, <2>1 DEF Drain, link, LinkOK, CommandFindsSession
  <2>. QED  BY <2>2, <2>3, PartsNext
<1>. QED  BY <1>1, <1>2

LEMMA ReceiveInv == Inv /\ Receive => Inv'
<1> SUFFICES ASSUME SessionOK, KillingOK, LinkOK, Receive PROVE Inv'
  BY Parts
<1>1. received' \in 0..MaxMessages
  BY AttemptsAssumption DEF Receive, LinkOK
<1>2. PICK m \in Messages :
        IF auth = "ready"
        THEN Handle(m) /\ UNCHANGED pendingMessages
        ELSE /\ pendingMessages' = Append(pendingMessages, m)
             /\ UNCHANGED <<session, killing>>
  BY DEF Receive
<1>3. SessionOK' /\ KillingOK'
  BY <1>2, MessageHandled, SessionKept, KillingKept DEF Receive, link
<1>4. pendingMessages' \in Seq(Messages)
  BY <1>2, AppendProperties DEF LinkOK
<1>5. LinkOK'
  BY <1>1, <1>4 DEF Receive, link, LinkOK, CommandFindsSession
<1>. QED  BY <1>3, <1>5, PartsNext

(* The close event, of whatever origin. *)
LEMMA Closed ==
  ASSUME SessionOK, KillingOK, registered \in BOOLEAN, Close
  PROVE  KillingOK' /\ socket' = "closed" /\ registered' \in BOOLEAN
<1>1. CASE Killable
  <2>1. StartLoop("close", "force") /\ socket' = "closed"
        /\ UNCHANGED registered
    BY <1>1 DEF Close
  <2>. QED  BY <2>1, LoopStarted DEF Owners, Messages, SessionOK
<1>2. CASE ~Killable
  BY <1>2, KillingKept DEF Close
<1>. QED  BY <1>1, <1>2

LEMMA SocketClosesInv == Inv /\ SocketCloses => Inv'
<1> SUFFICES ASSUME SessionOK, KillingOK, LinkOK, SocketCloses PROVE Inv'
  BY Parts
<1>1. KillingOK' /\ socket' = "closed" /\ registered' \in BOOLEAN
  BY Closed DEF SocketCloses, LinkOK
<1>2. SessionOK'
  BY SessionKept DEF SocketCloses
<1>3. LinkOK'
  BY <1>1 DEF SocketCloses, buffer, LinkOK, CommandFindsSession, Quiet
<1>. QED  BY <1>1, <1>2, <1>3, PartsNext

LEMMA HeartbeatInv == Inv /\ Heartbeat => Inv'
<1> SUFFICES ASSUME SessionOK, KillingOK, LinkOK, Heartbeat PROVE Inv'
  BY Parts
<1>1. SessionOK'
  BY SessionKept DEF Heartbeat
<1>2. CASE isAlive
  <2>1. KillingOK'
    BY <1>2, KillingKept DEF Heartbeat
  <2>2. LinkOK'
    BY <1>2 DEF Heartbeat, buffer, LinkOK, CommandFindsSession
  <2>. QED  BY <1>1, <2>1, <2>2, PartsNext
<1>3. CASE ~isAlive
  <2>1. KillingOK' /\ socket' = "closed" /\ registered' \in BOOLEAN
    BY <1>3, Closed DEF Heartbeat, LinkOK
  <2>2. LinkOK'
    BY <1>3, <2>1 DEF Heartbeat, buffer, LinkOK, CommandFindsSession, Quiet
  <2>. QED  BY <1>1, <2>1, <2>2, PartsNext
<1>. QED  BY <1>2, <1>3

LEMMA SocketFailsInv == Inv /\ SocketFails => Inv'
<1> SUFFICES ASSUME SessionOK, KillingOK, LinkOK, SocketFails PROVE Inv'
  BY Parts
<1>1. SessionOK'
  BY SessionKept DEF SocketFails
<1>2. KillingOK'
  <2>1. CASE Killable
    <3>1. StartLoop("error", "force")
      BY <2>1 DEF SocketFails
    <3>. QED  BY <3>1, LoopStarted DEF SocketFails, Owners, Messages, SessionOK
  <2>2. CASE ~Killable
    BY <2>2, KillingKept DEF SocketFails
  <2>. QED  BY <2>1, <2>2
<1>3. LinkOK'
  BY DEF SocketFails, buffer, LinkOK, CommandFindsSession
<1>. QED  BY <1>1, <1>2, <1>3, PartsNext

LEMMA ClientInv == Inv /\ (ClientVanishes \/ Pong) => Inv'
<1> SUFFICES ASSUME SessionOK, KillingOK, LinkOK, ClientVanishes \/ Pong
             PROVE  Inv'
  BY Parts
<1>1. SessionOK' /\ KillingOK'
  BY SessionKept, KillingKept DEF ClientVanishes, Pong
<1>2. LinkOK'
  BY DEF ClientVanishes, Pong, buffer, LinkOK, CommandFindsSession
<1>. QED  BY <1>1, <1>2, PartsNext

LEMMA PtyExitsInv ==
  ASSUME Inv, NEW p \in live, PtyExits(p)
  PROVE  Inv'
<1>1. SessionOK /\ KillingOK /\ LinkOK
  BY Parts
<1>2. SessionOK'
  BY <1>1 DEF PtyExits, SessionOK, SessionOwnsPty, TimerIsCurrent
<1>3. KillingOK'
  BY <1>1, KillingKept DEF PtyExits, link
<1>4. LinkOK'
  BY <1>1 DEF PtyExits, link, buffer, LinkOK, CommandFindsSession
<1>. QED  BY <1>2, <1>3, <1>4, PartsNext

LEMMA TimerFiresInv == Inv /\ TimerFires => Inv'
<1> SUFFICES ASSUME SessionOK, KillingOK, LinkOK, TimerFires PROVE Inv'
  BY Parts
<1>1. SessionOK'
  BY DEF TimerFires, SessionOK, SessionOwnsPty, TimerIsCurrent
<1>2. KillingOK'
  <2>1. CASE Killable
    <3>1. StartLoop("timer", "force")
      BY <2>1 DEF TimerFires
    <3>. QED  BY <3>1, LoopStarted DEF TimerFires, link, Owners, Messages, SessionOK
  <2>2. CASE ~Killable
    BY <2>2, KillingKept DEF TimerFires, link
  <2>. QED  BY <2>1, <2>2
<1>3. LinkOK'
  BY DEF TimerFires, link, buffer, LinkOK, CommandFindsSession
<1>. QED  BY <1>1, <1>2, <1>3, PartsNext

(* A loop either looks again, or ends and lets its owner go on: a command  *)
(* only when the PTY has exited, a removal only for a closed socket.       *)
LEMMA KillLoopInv == Inv /\ KillLoop => Inv'
<1> SUFFICES ASSUME SessionOK, KillingOK, LinkOK, KillLoop PROVE Inv'
  BY Parts
<1> DEFINE loop == Head(loops)
<1>1. /\ loop \in Loops /\ Tail(loops) \in Seq(Loops)
      /\ loop.owner = "close" => socket = "closed"
      /\ \A i \in DOMAIN Tail(loops) :
           Tail(loops)[i].owner = "close" => socket = "closed"
  BY LoopLeaves DEF KillLoop
<1>2. CASE isActive /\ loop.attempts < MaxAttempts
  <2> DEFINE next == [loop EXCEPT !.attempts = @ + 1]
  <2>1. next \in Loops /\ next.owner = loop.owner
    <3> HIDE DEF loop
    <3>1. loop.attempts + 1 \in 1..MaxAttempts
      BY <1>1, <1>2, AttemptsAssumption DEF Loops
    <3>. QED  BY <1>1, <3>1 DEF Loops
  <2>2. loops' = Append(Tail(loops), next)
    BY <1>2 DEF KillLoop
  <2>3. /\ loops' \in Seq(Loops)
        /\ \A i \in DOMAIN loops' : loops'[i] = next
             \/ (i \in DOMAIN Tail(loops) /\ loops'[i] = Tail(loops)[i])
    <3> HIDE DEF next
    <3>1. /\ loops' \in Seq(Loops)
          /\ Len(loops') = Len(Tail(loops)) + 1
          /\ \A i \in 1..Len(Tail(loops)) : loops'[i] = Tail(loops)[i]
          /\ loops'[Len(Tail(loops)) + 1] = next
      BY <1>1, <2>1, <2>2, AppendProperties
    <3>. QED  BY <1>1, <3>1, LenProperties
  <2>4. KillingOK'
    <3> HIDE DEF next
    <3>1. told' \subseteq Nat \ {0} /\ UNCHANGED socket
      BY <1>2 DEF KillLoop, link, KillingOK, SessionOK
    <3>2. CloseLoopsAreLate'
      BY <1>1, <2>1, <2>3, <3>1 DEF CloseLoopsAreLate
    <3>. QED  BY <2>3, <3>1, <3>2 DEF KillingOK
  <2>5. SessionOK'
    BY <1>2, SessionKept DEF KillLoop
  <2>6. LinkOK'
    BY <1>2 DEF KillLoop, link, buffer, LinkOK, CommandFindsSession
  <2>. QED  BY <2>4, <2>5, <2>6, PartsNext
<1>3. CASE ~(isActive /\ loop.attempts < MaxAttempts)
  <2>1. loops' = Tail(loops) /\ UNCHANGED told /\ Resolve(loop, ~isActive)
        /\ UNCHANGED <<link, buffer>>
    BY <1>3 DEF KillLoop
  <2>2. KillingOK'
    BY <1>1, <2>1 DEF KillingOK, CloseLoopsAreLate, link
  <2>3. SessionOK'
    <3>1. CASE isActive
      BY <2>1, <3>1, SessionKept DEF Resolve
    <3>2. CASE ~isActive /\ loop.owner = "command"
      <4>1. loop.msg \in Messages /\ RunCommand(loop.msg)
        BY <1>1, <2>1, <3>2 DEF Resolve, Loops
      <4>. QED  BY <3>2, <4>1, CommandRun
    <3>3. CASE ~isActive /\ loop.owner # "command"
      BY <2>1, <3>3 DEF Resolve, SessionOK, SessionOwnsPty, TimerIsCurrent
    <3>. QED  BY <3>1, <3>2, <3>3
  <2>4. LinkOK'
    <3>1. registered' = (registered /\ loop.owner # "close")
      BY <2>1 DEF Resolve
    <3>2. auth # "draining"
      BY DEF KillLoop, Quiet
    <3>. QED
      BY <1>1, <2>1, <3>1, <3>2 DEF link, buffer, LinkOK, CommandFindsSession
  <2>. QED  BY <2>2, <2>3, <2>4, PartsNext
<1>. QED  BY <1>2, <1>3

LEMMA StepInv == Inv /\ [Next]_vars => Inv'
<1> SUFFICES ASSUME Inv, [Next]_vars PROVE Inv'
  OBVIOUS
<1>1. CASE AuthOk  BY <1>1, AuthOkInv
<1>2. CASE AuthFails  BY <1>2, AuthFailsInv
<1>3. CASE Drain  BY <1>3, DrainInv
<1>4. CASE Receive  BY <1>4, ReceiveInv
<1>5. CASE SocketCloses  BY <1>5, SocketClosesInv
<1>6. CASE SocketFails  BY <1>6, SocketFailsInv
<1>7. CASE ClientVanishes \/ Pong  BY <1>7, ClientInv
<1>8. CASE Heartbeat  BY <1>8, HeartbeatInv
<1>9. CASE KillLoop  BY <1>9, KillLoopInv
<1>10. CASE TimerFires  BY <1>10, TimerFiresInv
<1>11. CASE \E p \in live : PtyExits(p)  BY <1>11, PtyExitsInv
<1>12. CASE UNCHANGED vars
  <2>1. SessionOK' /\ KillingOK'
    BY <1>12, Parts, SessionKept, KillingKept DEF vars, link
  <2>2. LinkOK'
    BY <1>12, Parts DEF vars, link, buffer, LinkOK, CommandFindsSession
  <2>. QED  BY <2>1, <2>2, PartsNext
<1>. QED
  BY <1>1, <1>2, <1>3, <1>4, <1>5, <1>6, <1>7, <1>8, <1>9, <1>10, <1>11, <1>12
     DEF Next

(* The inductive invariant holds in every reachable state of the terminal  *)
(* server, whichever messages, exits and closes interleave.                *)
THEOREM TerminalInvariance == Spec => []Inv
<1>1. Init => Inv  BY InitInv
<1>2. Inv /\ [Next]_vars => Inv'  BY StepInv
<1>. QED  BY <1>1, <1>2, PTL DEF Spec

(* At most one PTY of a session is alive, and the session knows it: no     *)
(* command is run before killPtyProcess() has seen the old PTY exit.       *)
THEOREM OnePtyPerSession == Spec => []SessionOwnsPty
<1>1. Inv => SessionOwnsPty  BY DEF Inv
<1>. QED  BY <1>1, TerminalInvariance, PTL

(* The session timer is always that of the PTY at work.                    *)
THEOREM TimerBelongsToPty == Spec => []TimerIsCurrent
<1>1. Inv => TimerIsCurrent  BY DEF Inv
<1>. QED  BY <1>1, TerminalInvariance, PTL

(* handleCommand() always finds the session it looks up.                   *)
THEOREM SessionIsFound == Spec => []CommandFindsSession
<1>1. Inv => CommandFindsSession  BY DEF Inv
<1>. QED  BY <1>1, TerminalInvariance, PTL

----------------------------------------------------------------------------
(* The promise of TerminalShell *)

LEMMA ShellKept ==
  UNCHANGED <<pty, isActive, spawned>> => [Shell!Next]_(Shell!vars)
  BY DEF Shell!vars

(* A PTY starts where none is at work. *)
LEMMA CommandIsStart ==
  ASSUME SessionOK, ~isActive, NEW m \in Messages, RunCommand(m)
  PROVE  [Shell!Next]_(Shell!vars)
<1>1. CASE m = "command"
  <2>1. Spawn
    BY <1>1 DEF RunCommand
  <2>2. isActive' = TRUE /\ spawned' = spawned + 1 /\ pty' = spawned'
    BY <2>1 DEF Spawn
  <2>. QED  BY <2>2 DEF Shell!Next, Shell!Start
<1>2. CASE m # "command"
  BY <1>2, ShellKept DEF RunCommand
<1>. QED  BY <1>1, <1>2

LEMMA HandleIsShellStep ==
  ASSUME SessionOK, NEW m \in Messages, Handle(m)
  PROVE  [Shell!Next]_(Shell!vars)
<1>1. CASE UNCHANGED session
  BY <1>1, ShellKept DEF session
<1>2. CASE ~isActive /\ RunCommand(m)
  BY <1>2, CommandIsStart
<1>. QED  BY <1>1, <1>2 DEF Handle

LEMMA ShellStep == Inv /\ [Next]_vars => [Shell!Next]_(Shell!vars)
<1> SUFFICES ASSUME SessionOK, KillingOK, LinkOK, [Next]_vars
             PROVE  [Shell!Next]_(Shell!vars)
  BY Parts
<1>1. CASE AuthOk \/ AuthFails \/ SocketCloses \/ SocketFails \/ ClientVanishes
           \/ Heartbeat \/ Pong \/ TimerFires \/ UNCHANGED vars
  <2>1. UNCHANGED <<pty, isActive, spawned>>
    BY <1>1 DEF AuthOk, AuthFails, SocketCloses, SocketFails, ClientVanishes,
                Heartbeat, Pong, TimerFires, session, vars
  <2>. QED  BY <2>1, ShellKept
<1>2. CASE Drain
  <2>1. CASE pendingMessages = <<>>
    BY <1>2, <2>1, ShellKept DEF Drain, session
  <2>2. CASE pendingMessages # <<>>
    <3>1. Head(pendingMessages) \in Messages
      BY <2>2, HeadTailProperties DEF LinkOK
    <3>. QED  BY <1>2, <2>2, <3>1, HandleIsShellStep DEF Drain
  <2>. QED  BY <2>1, <2>2
<1>3. CASE Receive
  <2>1. PICK m \in Messages : Handle(m) \/ UNCHANGED session
    BY <1>3 DEF Receive
  <2>. QED  BY <2>1, HandleIsShellStep, ShellKept DEF session
<1>4. CASE KillLoop
  <2> DEFINE loop == Head(loops)
  <2>1. loop \in Loops
    BY <1>4, LoopLeaves DEF KillLoop
  <2>2. CASE UNCHANGED session
    BY <2>2, ShellKept DEF session
  <2>3. CASE ~isActive /\ loop.owner = "command" /\ RunCommand(loop.msg)
    <3>1. loop.msg \in Messages
      BY <2>1 DEF Loops
    <3>. QED  BY <2>3, <3>1, CommandIsStart
  <2>4. CASE UNCHANGED <<pty, isActive, live, spawned>>
    BY <2>4, ShellKept
  <2>. QED  BY <1>4, <2>2, <2>3, <2>4 DEF KillLoop, Resolve
<1>5. CASE \E p \in live : PtyExits(p)
  <2>1. PICK p \in live : PtyExits(p)
    BY <1>5
  <2>2. isActive /\ pty # 0
    BY <2>1 DEF SessionOK, SessionOwnsPty
  <2>3. isActive' = FALSE /\ UNCHANGED spawned
    BY <2>1 DEF PtyExits
  <2>. QED  BY <2>2, <2>3 DEF Shell!Next, Shell!End
<1>. QED  BY <1>1, <1>2, <1>3, <1>4, <1>5 DEF Next

(* The terminal server implements TerminalShell: whatever interleaves, the *)
(* shells of a socket follow one another.                                  *)
THEOREM ShellsFollowOneAnother == Spec => ImplementsShell
<1>1. Init => Shell!Init
  BY DEF Init, Shell!Init
<1>2. Inv /\ [Next]_vars => [Shell!Next]_(Shell!vars)
  BY ShellStep
<1>. QED  BY <1>1, <1>2, TerminalInvariance, PTL DEF Spec, ImplementsShell, Shell!Spec

----------------------------------------------------------------------------
(* The removal of a closed session *)

LEMMA LoopsKept ==
  ASSUME ClosingIsWatched, UNCHANGED loops,
         socket' = "closed" /\ registered' => socket = "closed" /\ registered
  PROVE  ClosingIsWatched'
  BY DEF ClosingIsWatched

(* A new loop leaves the others at work. *)
LEMMA LoopAdded ==
  ASSUME KillingOK, NEW owner \in Owners, NEW m \in Messages, StartLoop(owner, m)
  PROVE  /\ \A i \in DOMAIN loops : i \in DOMAIN loops' /\ loops'[i] = loops[i]
         /\ \E i \in DOMAIN loops' : loops'[i].owner = owner
<1> DEFINE loop == [owner |-> owner, attempts |-> 1, msg |-> m]
<1>1. loop \in Loops
  BY AttemptsAssumption DEF Loops
<1>2. /\ loops' \in Seq(Loops)
      /\ Len(loops') = Len(loops) + 1
      /\ \A i \in 1..Len(loops) : loops'[i] = loops[i]
      /\ loops'[Len(loops) + 1] = loop
  BY <1>1, AppendProperties DEF KillingOK, StartLoop
<1>3. Len(loops) \in Nat /\ DOMAIN loops = 1..Len(loops)
      /\ DOMAIN loops' = 1..(Len(loops) + 1)
  BY <1>2, LenProperties DEF KillingOK
<1>4. Len(loops) + 1 \in DOMAIN loops' /\ loops'[Len(loops) + 1].owner = owner
  BY <1>2, <1>3
<1>. QED  BY <1>2, <1>3, <1>4

LEMMA LoopStartedWatched ==
  ASSUME KillingOK, ClosingIsWatched,
         NEW owner \in Owners, NEW m \in Messages, StartLoop(owner, m),
         owner = "close" \/ (socket' = "closed" /\ registered' =>
                               socket = "closed" /\ registered)
  PROVE  ClosingIsWatched'
  BY LoopAdded DEF ClosingIsWatched

LEMMA HandleWatched ==
  ASSUME KillingOK, ClosingIsWatched, NEW m \in Messages, Handle(m),
         UNCHANGED <<socket, registered>>
  PROVE  ClosingIsWatched'
<1>1. CASE isActive /\ StartLoop(IF m = "force" THEN "force" ELSE "command", m)
  <2>1. PICK owner \in {"force", "command"} : StartLoop(owner, m)
    BY <1>1
  <2>. QED  BY <2>1, LoopStartedWatched DEF Owners
<1>2. CASE UNCHANGED killing
  BY <1>2, LoopsKept DEF killing
<1>. QED  BY <1>1, <1>2 DEF Handle

LEMMA CloseWatched ==
  ASSUME KillingOK, ClosingIsWatched, Close
  PROVE  ClosingIsWatched'
<1>1. CASE Killable
  <2>1. StartLoop("close", "force")
    BY <1>1 DEF Close
  <2>. QED  BY <2>1, LoopStartedWatched DEF Owners, Messages
<1>2. CASE ~Killable
  BY <1>2 DEF Close, ClosingIsWatched
<1>. QED  BY <1>1, <1>2

LEMMA KillLoopWatched ==
  ASSUME KillingOK, ClosingIsWatched, KillLoop
  PROVE  ClosingIsWatched'
<1> DEFINE loop == Head(loops)
<1>1. /\ loop \in Loops /\ loop = loops[1] /\ Tail(loops) \in Seq(Loops)
      /\ Len(loops) \in Nat /\ DOMAIN loops = 1..Len(loops)
      /\ Len(Tail(loops)) = Len(loops) - 1
      /\ DOMAIN Tail(loops) = 1..(Len(loops) - 1)
      /\ \A i \in 1..(Len(loops) - 1) : Tail(loops)[i] = loops[i + 1]
  BY HeadTailProperties, LenProperties, EmptySeq DEF KillLoop, KillingOK
<1>2. UNCHANGED socket
  BY DEF KillLoop, link
(* Any loop but the first is still there, one place further to the front. *)
<1>3. \A i \in DOMAIN loops : i # 1 =>
        i - 1 \in DOMAIN Tail(loops) /\ Tail(loops)[i - 1] = loops[i]
  <2> SUFFICES ASSUME NEW i \in DOMAIN loops, i # 1
               PROVE  i - 1 \in DOMAIN Tail(loops) /\ Tail(loops)[i - 1] = loops[i]
    OBVIOUS
  <2>1. i \in 1..Len(loops) /\ i - 1 \in 1..(Len(loops) - 1) /\ (i - 1) + 1 = i
    BY <1>1
  <2>. QED  BY <1>1, <2>1
<1>4. CASE isActive /\ loop.attempts < MaxAttempts
  <2> DEFINE next == [loop EXCEPT !.attempts = @ + 1]
  <2>1. next \in Loops /\ next.owner = loop.owner
    <3> HIDE DEF loop
    <3>1. loop.attempts + 1 \in 1..MaxAttempts
      BY <1>1, <1>4, AttemptsAssumption DEF Loops
    <3>. QED  BY <1>1, <3>1 DEF Loops
  <2>2. loops' = Append(Tail(loops), next) /\ UNCHANGED registered
    BY <1>4 DEF KillLoop
  <2>3. /\ Len(loops') = Len(Tail(loops)) + 1
        /\ DOMAIN loops' = 1..(Len(Tail(loops)) + 1)
        /\ \A i \in 1..Len(Tail(loops)) : loops'[i] = Tail(loops)[i]
        /\ loops'[Len(Tail(loops)) + 1] = next
    <3> HIDE DEF next
    <3>. QED  BY <1>1, <2>1, <2>2, AppendProperties, LenProperties
  <2>4. /\ \A i \in DOMAIN Tail(loops) : i \in DOMAIN loops' /\ loops'[i] = Tail(loops)[i]
        /\ Len(loops) \in DOMAIN loops' /\ loops'[Len(loops)] = next
    <3> HIDE DEF next, loop
    <3>1. Len(loops) \in 1..Len(loops)
      BY <1>1, EmptySeq, LenProperties DEF KillLoop, KillingOK
    <3>. QED  BY <1>1, <2>3, <3>1
  <2> HIDE DEF next, loop
  <2>5. ASSUME NEW i \in DOMAIN loops, loops[i].owner = "close"
        PROVE  \E j \in DOMAIN loops' : loops'[j].owner = "close"
    <3>1. CASE i = 1
      BY <1>1, <2>1, <2>4, <2>5, <3>1
    <3>2. CASE i # 1
      BY <1>3, <2>4, <2>5, <3>2
    <3>. QED  BY <3>1, <3>2
  <2>. QED  BY <1>2, <2>2, <2>5 DEF ClosingIsWatched
<1>5. CASE ~(isActive /\ loop.attempts < MaxAttempts)
  <2>1. loops' = Tail(loops) /\ registered' = (registered /\ loop.owner # "close")
    BY <1>5 DEF KillLoop, Resolve
  <2> HIDE DEF loop
  <2>2. ASSUME NEW i \in DOMAIN loops, loops[i].owner = "close", registered'
        PROVE  \E j \in DOMAIN loops' : loops'[j].owner = "close"
    <3>1. i # 1
      BY <1>1, <2>1, <2>2
    <3>. QED  BY <1>3, <2>1, <2>2, <3>1
  <2>. QED  BY <1>2, <2>1, <2>2 DEF ClosingIsWatched
<1>. QED  BY <1>4, <1>5

LEMMA WatchedStep ==
  ASSUME "lateAuth" \notin Races, Inv, ClosingIsWatched, [Next]_vars
  PROVE  ClosingIsWatched'
<1>1. SessionOK /\ KillingOK /\ LinkOK
  BY Parts
<1>2. CASE AuthOk
  BY <1>2, LoopsKept DEF AuthOk, link, killing
<1>3. CASE AuthFails \/ ClientVanishes \/ Pong \/ UNCHANGED vars
  <2>1. UNCHANGED loops /\ (socket' = "closed" /\ registered' =>
                               socket = "closed" /\ registered)
    BY <1>3 DEF AuthFails, ClientVanishes, Pong, vars, link, killing
  <2>. QED  BY <2>1, LoopsKept
<1>4. CASE Drain
  <2>1. UNCHANGED <<socket, registered>>
    BY <1>4 DEF Drain, link
  <2>2. CASE pendingMessages = <<>>
    BY <1>4, <2>1, <2>2, LoopsKept DEF Drain, killing
  <2>3. CASE pendingMessages # <<>>
    <3>1. Head(pendingMessages) \in Messages
      BY <1>1, <2>3, HeadTailProperties DEF LinkOK
    <3>. QED  BY <1>1, <1>4, <2>1, <2>3, <3>1, HandleWatched DEF Drain
  <2>. QED  BY <2>2, <2>3
<1>5. CASE Receive
  <2>1. UNCHANGED <<socket, registered>>
    BY <1>5 DEF Receive, link
  <2>2. PICK m \in Messages : Handle(m) \/ UNCHANGED killing
    BY <1>5 DEF Receive
  <2>. QED  BY <1>1, <2>1, <2>2, HandleWatched, LoopsKept DEF killing
<1>6. CASE SocketCloses
  BY <1>1, <1>6, CloseWatched DEF SocketCloses
<1>7. CASE SocketFails
  <2>1. socket' # "closed"
    BY <1>7 DEF SocketFails
  <2>. QED  BY <2>1 DEF ClosingIsWatched
<1>8. CASE Heartbeat
  <2>1. CASE isAlive
    BY <1>8, <2>1, LoopsKept DEF Heartbeat, killing
  <2>2. CASE ~isAlive
    BY <1>1, <1>8, <2>2, CloseWatched DEF Heartbeat
  <2>. QED  BY <2>1, <2>2
<1>9. CASE KillLoop
  BY <1>1, <1>9, KillLoopWatched
<1>10. CASE TimerFires
  <2>1. UNCHANGED <<socket, registered>>
    BY <1>10 DEF TimerFires, link
  <2>2. CASE StartLoop("timer", "force")
    BY <1>1, <2>1, <2>2, LoopStartedWatched DEF Owners, Messages
  <2>3. CASE UNCHANGED killing
    BY <2>1, <2>3, LoopsKept DEF killing
  <2>. QED  BY <1>10, <2>2, <2>3 DEF TimerFires
<1>11. CASE \E p \in live : PtyExits(p)
  BY <1>11, LoopsKept DEF PtyExits, link, killing
<1>. QED
  BY <1>2, <1>3, <1>4, <1>5, <1>6, <1>7, <1>8, <1>9, <1>10, <1>11 DEF Next

(* Unless the authorisation arrives after the close, a session whose       *)
(* socket is closed always has a kill loop at work that will remove it.    *)
THEOREM ClosedSessionIsWatched ==
  ASSUME "lateAuth" \notin Races
  PROVE  Spec => []ClosingIsWatched
<1>1. Init => ClosingIsWatched
  BY DEF Init, ClosingIsWatched
<1>2. Inv /\ ClosingIsWatched /\ [Next]_vars => ClosingIsWatched'
  BY WatchedStep
<1>. QED  BY <1>1, <1>2, TerminalInvariance, PTL DEF Spec

=============================================================================
