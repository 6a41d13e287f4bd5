----------------------- MODULE ServerReachability_proofs -----------------------
(***************************************************************************)
(* A team is not disturbed by a single failure, however the two jobs,      *)
(* Sentinel, timeouts and dead workers interleave.                         *)
(***************************************************************************)
EXTENDS ServerReachability, TLAPS

(* What the columns and their copies are, without the bounds. *)
Typed ==
  /\ columns \in [reachable : BOOLEAN, usable : BOOLEAN, count : Nat, notified : BOOLEAN]
  /\ copy \in [Checks -> [reachable : BOOLEAN, usable : BOOLEAN, count : Nat, notified : BOOLEAN]]
  /\ at \in [Checks -> Places]
  /\ failures \in Nat /\ later \in Nat

(* unreachable_count never runs ahead of the failures, ...                 *)
CountIsEarned == columns.count =< failures /\ later =< failures

(* ... nor, in a connection check that will not reset it as it has read 0, *)
(* ahead of the failures since that check started.                         *)
ZeroIsRecent ==
  at["connection"] \in {"connect", "up", "reset"} /\ copy["connection"].count = 0
    => columns.count =< later

Inv == Typed /\ CountIsEarned /\ ZeroIsRecent

LEMMA InitInv == ServerInit => Inv
<1> SUFFICES ASSUME ServerInit PROVE Inv
  OBVIOUS
<1>1. Typed
  BY DEF ServerInit, Typed, Fresh, Places
<1>2. CountIsEarned /\ ZeroIsRecent
  BY DEF ServerInit, Fresh, CountIsEarned, ZeroIsRecent, Checks
<1>. QED  BY <1>1, <1>2 DEF Inv

(* One more is still in step. *)
LEMMA IncrementedInStep ==
  ASSUME NEW m \in Nat, NEW n \in Nat
  PROVE  /\ Incremented(m) \in Nat
         /\ m =< n => Incremented(m) =< Incremented(n)
         /\ m =< Incremented(m)
  BY DEF Incremented

(* Steps that change neither a count nor where the connection check is     *)
(* among the places of ZeroIsRecent.                                       *)
LEMMA OtherInv ==
  ASSUME Inv,
         \/ Flip \/ Push \/ Silence \/ ConnectionTimeout
         \/ ConnectionUp \/ ConnectionDown \/ Validate
         \/ \E j \in Checks : Connect(j) \/ Announce(j) \/ Death(j)
  PROVE  Inv'
<1>1. Typed
  BY DEF Inv
<1>2. "connection" \in Checks /\ "check" \in Checks
  BY DEF Checks
<1>3. /\ columns'.count = columns.count /\ UNCHANGED <<failures, later>>
      /\ columns' \in [reachable : BOOLEAN, usable : BOOLEAN, count : Nat, notified : BOOLEAN]
  BY <1>1, <1>2 DEF Flip, Push, Silence, ConnectionTimeout, ConnectionUp, ConnectionDown,
                    Validate, Connect, Announce, Death, Typed, Dirty, GoTo, Remember,
                    history
<1> DEFINE Placed ==
      /\ at' \in [Checks -> Places]
      /\ copy' \in [Checks -> [reachable : BOOLEAN, usable : BOOLEAN, count : Nat,
                               notified : BOOLEAN]]
      /\ at'["connection"] \in {"connect", "up", "reset"} =>
           /\ at["connection"] \in {"connect", "up", "reset"}
           /\ copy'["connection"] = copy["connection"]
<1>4. Placed
  <2>1. CASE Flip \/ Push \/ Silence
    BY <1>1, <2>1 DEF Flip, Push, Silence, Typed, job
  <2>2. CASE ConnectionTimeout
    BY <1>1, <1>2, <2>2 DEF ConnectionTimeout, Typed, GoTo, Remember, Places
  <2>3. CASE ConnectionUp \/ ConnectionDown
    BY <1>1, <1>2, <2>3 DEF ConnectionUp, ConnectionDown, Typed, GoTo, Places
  <2>4. CASE Validate
    BY <1>1, <1>2, <2>4 DEF Validate, Typed, GoTo, Places
  <2>5. ASSUME NEW j \in Checks, Connect(j) \/ Announce(j) \/ Death(j)
        PROVE  Placed
    <3>1. PICK place \in {"up", "down", "idle"} :
            /\ at' = [at EXCEPT ![j] = place] /\ copy' = copy
            /\ place = "up" => at[j] = "connect"
      BY <2>5 DEF Connect, Announce, Death, GoTo
    <3>. QED  BY <1>1, <1>2, <3>1 DEF Typed, Places
  <2>. QED  BY <2>1, <2>2, <2>3, <2>4, <2>5
<1>. QED  BY <1>1, <1>3, <1>4 DEF Inv, Typed, CountIsEarned, ZeroIsRecent

LEMMA StartInv ==
  ASSUME Inv, NEW j \in Checks, StartCheck(j)
  PROVE  Inv'
<1>1. Typed'
  BY DEF Inv, Typed, StartCheck, GoTo, Remember, Places
<1>2. CountIsEarned'
  BY DEF Inv, Typed, StartCheck, CountIsEarned
<1>3. ZeroIsRecent'
  BY DEF Inv, Typed, StartCheck, GoTo, Remember, ZeroIsRecent, Checks
<1>. QED  BY <1>1, <1>2, <1>3 DEF Inv

(* The count is reset, unless the copy says that it is 0: then what has    *)
(* been added since is what failed since.                                  *)
LEMMA ResetInv ==
  ASSUME Inv, Reset
  PROVE  Inv'
<1>1. Typed'
  BY DEF Inv, Typed, Reset, GoTo, Places, Checks
<1>2. columns'.count =< later /\ failures' = later /\ later' = later
  BY DEF Inv, Typed, Reset, ZeroIsRecent, Checks
<1>3. at'["connection"] \notin {"connect", "up", "reset"}
  BY DEF Inv, Typed, Reset, GoTo, Checks
<1>. QED  BY <1>1, <1>2, <1>3 DEF Inv, Typed, CountIsEarned, ZeroIsRecent

(* A failure is counted in the column and in both histories. *)
LEMMA FailureInv ==
  ASSUME Inv, Increment \/ CheckTimeout
  PROVE  Inv'
<1>1. Typed
  BY DEF Inv
<1>2. /\ columns'.count = Incremented(columns.count)
      /\ failures' = Incremented(failures) /\ later' = Incremented(later)
  BY <1>1 DEF Increment, CheckTimeout, Failure, Typed
<1>3. copy' = copy
  BY DEF Increment, CheckTimeout
<1>4. Typed'
  BY <1>1, <1>2, <1>3, IncrementedInStep DEF Increment, CheckTimeout, Typed, GoTo,
      Places, Checks
<1>5. CountIsEarned'
  BY <1>1, <1>2, IncrementedInStep DEF Inv, Typed, CountIsEarned
<1>6. ZeroIsRecent'
  <2>1. at'["connection"] \in {"connect", "up", "reset"} => at'["connection"] = at["connection"]
    BY <1>1 DEF Increment, CheckTimeout, Typed, GoTo, Checks
  <2>. QED  BY <1>1, <1>2, <1>3, <2>1, IncrementedInStep DEF Inv, Typed, ZeroIsRecent, Checks
<1>. QED  BY <1>4, <1>5, <1>6 DEF Inv

LEMMA StepInv ==
  ASSUME Inv, [ServerNext]_serverVars
  PROVE  Inv'
<1>1. CASE UNCHANGED serverVars
  BY <1>1 DEF serverVars, world, job, history, Inv, Typed, CountIsEarned, ZeroIsRecent
<1>2. CASE ServerNext
  BY <1>2, OtherInv, StartInv, ResetInv, FailureInv DEF ServerNext, Work
<1>. QED  BY <1>1, <1>2

(* A notification is sent only by who has seen a count of two. *)
LEMMA AnnouncedByCount ==
  ASSUME Inv, [ServerNext]_serverVars, ~columns.notified, columns'.notified
  PROVE  columns.count >= 2
<1>1. Typed
  BY DEF Inv
<1>2. columns' # columns
  OBVIOUS
<1>3. PICK j \in Checks : Announce(j)
  BY <1>1, <1>2 DEF ServerNext, Work, serverVars, world, job, history, Flip, Push,
      Silence, StartCheck,
     Connect, ConnectionUp, Reset, ConnectionDown, Increment, Validate, ConnectionTimeout,
     CheckTimeout, Death, Typed
<1>. QED  BY <1>1, <1>3 DEF Announce, Typed

(* The team is told that its server is unreachable only after two failures *)
(* with no recorded success between them, for any number of outages,       *)
(* timeouts and dead workers.                                              *)
THEOREM FlapsAreQuiet == ServerSpec => FlapIsQuiet
<1>1. ServerInit => Inv
  BY InitInv
<1>2. Inv /\ [ServerNext]_serverVars => Inv'
  BY StepInv
<1>3. Inv /\ [ServerNext]_serverVars =>
        [~columns.notified /\ columns'.notified => failures >= 2]_serverVars
  BY AnnouncedByCount DEF Inv, Typed, CountIsEarned
<1>. QED  BY <1>1, <1>2, <1>3, PTL DEF ServerSpec, FlapIsQuiet
=============================================================================
