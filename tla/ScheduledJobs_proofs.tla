------------------------ MODULE ScheduledJobs_proofs ------------------------
(***************************************************************************)
(* The inductive invariant of ScheduledJobs holds for any schedule, any    *)
(* number of managers and mishaps, and whether managers overlap or not.    *)
(***************************************************************************)
EXTENDS ScheduledJobs, TLAPS

Accounts == KeyIsAccounted /\ ReadIsAccounted /\ SeedIsNotDue

Serial == AtMostOnce /\ WorkersHoldLock /\ KeyIsMine /\ DispatchedIsKeyed

LEMMA Parts == Inv <=> TypeOK /\ Accounts /\ (~Overlap => Serial)
  BY DEF Inv, Accounts, Serial

LEMMA PartsNext == Inv' <=> TypeOK' /\ Accounts' /\ (~Overlap => Serial')
  BY DEF Inv, Accounts, Serial

(* The previous due time is the last slot that is not after t. *)
LEMMA PreviousDueFacts ==
  ASSUME NEW t \in Minutes
  PROVE  /\ PreviousDue(t) \in Slots /\ PreviousDue(t) <= t
         /\ \A e \in Due : e <= t => e <= PreviousDue(t)
<1>1. \E d \in Due : d <= t /\ \A e \in Due : e <= t => e <= d
  BY DueAssumption
<1>2. /\ PreviousDue(t) \in Due /\ PreviousDue(t) <= t
      /\ \A e \in Due : e <= t => e <= PreviousDue(t)
  BY <1>1 DEF PreviousDue
<1>3. PreviousDue(t) \in 0..(MaxTime - 1)
  BY <1>2, DueAssumption
<1>. QED
  BY <1>2, <1>3, BoundsAssumption DEF Slots, Minutes

(* Slots and keys are numbers, a missing key is before every slot. *)
LEMMA Numbers ==
  /\ \A d \in Slots : d \in Minutes /\ d \in Due /\ d \in Int /\ d >= 0
  /\ \A t \in Minutes : t \in Int
  /\ NoKey \in Int /\ NoKey < 0
<1>1. \A t \in Minutes : t \in Int /\ t >= 0
  BY BoundsAssumption DEF Minutes
<1>2. \A d \in Slots : d \in Minutes /\ d \in Due
  BY DEF Slots
<1>. QED  BY <1>1, <1>2 DEF NoKey

(* When a step loses nobody's slot, what was settled stays settled. *)
LEMMA SettledStays ==
  ASSUME TypeOK, NEW m \in Managers, NEW new \in Locals,
         mgr' = [mgr EXCEPT ![m] = new],
         handled \subseteq handled', lost \subseteq lost',
         mgr[m].pc \in {"runtime", "dispatch"} =>
           \/ new.pc \in {"runtime", "dispatch"} /\ new.time = mgr[m].time
           \/ Slot(m) \in handled' \cup lost'
  PROVE  Settled \subseteq Settled'
<1> SUFFICES ASSUME NEW d \in Settled PROVE d \in Settled'
  OBVIOUS
<1>1. CASE d \in handled \cup lost
  BY <1>1 DEF Settled
<1>2. CASE d \in InFlight
  <2>1. PICK n \in Managers : /\ mgr[n].pc \in {"runtime", "dispatch"}
                              /\ d = Slot(n)
    BY <1>2 DEF InFlight
  <2>2. CASE n # m
    <3>1. mgr'[n] = mgr[n]
      BY <2>2 DEF TypeOK
    <3>2. d = Slot(n)'
      BY <2>1, <3>1 DEF Slot
    <3>. QED  BY <2>1, <3>1, <3>2 DEF Settled, InFlight
  <2>3. CASE n = m /\ d \notin handled' \cup lost'
    <3>1. mgr'[m] = new
      BY DEF TypeOK
    <3>2. new.pc \in {"runtime", "dispatch"} /\ d = Slot(m)'
      BY <2>1, <2>3, <3>1 DEF Slot
    <3>. QED  BY <3>1, <3>2 DEF Settled, InFlight
  <2>. QED  BY <2>1, <2>2, <2>3 DEF Settled
<1>. QED  BY <1>1, <1>2 DEF Settled

(* Without a change to the managers likewise. *)
LEMMA AccountsKept ==
  ASSUME Accounts, UNCHANGED <<cache, mgr, fate>>
  PROVE  Accounts'
  BY DEF Accounts, KeyIsAccounted, ReadIsAccounted, SeedIsNotDue, Settled,
         InFlight, At, Slot, Decided, cache, fate

(* A step of one manager keeps the accounts if it settles the key it       *)
(* writes, and goes to seed or put only with the key as it is.             *)
LEMMA AccountsStep ==
  ASSUME TypeOK, Accounts, NEW m \in Managers, NEW new \in Locals,
         mgr' = [mgr EXCEPT ![m] = new],
         Settled \subseteq Settled',
         key' = key \/ \E d \in Settled' : d >= PreviousDue(key'),
         new.pc \in {"seed", "put"} => new.read = key,
         new.pc = "seed" => ~Fires(new.time, new.read)
  PROVE  Accounts'
<1>1. mgr'[m] = new /\ \A n \in Managers \ {m} : mgr'[n] = mgr[n]
  BY DEF TypeOK
<1>2. KeyIsAccounted'
  BY DEF Accounts, KeyIsAccounted
<1>3. ReadIsAccounted'
  BY <1>1 DEF Accounts, KeyIsAccounted, ReadIsAccounted, At
<1>4. SeedIsNotDue'
  BY <1>1 DEF Accounts, SeedIsNotDue, At, Decided
<1>. QED  BY <1>2, <1>3, <1>4 DEF Accounts

(* Without overlap, nobody else works while a manager does or begins to.   *)
LEMMA OthersIdle ==
  ASSUME TypeOK, WorkersHoldLock, NEW m \in Managers,
         ~At(m, "idle") \/ lock = "free"
  PROVE  \A n \in Managers \ {m} : At(n, "idle")
  BY BoundsAssumption DEF WorkersHoldLock

(* So a step keeps the serial invariant if it does for the manager. *)
LEMMA SerialStep ==
  ASSUME TypeOK, NEW m \in Managers, NEW new \in Locals,
         mgr' = [mgr EXCEPT ![m] = new],
         \A n \in Managers \ {m} : At(n, "idle"),
         new.pc # "idle" => lock' = m,
         key' <= now',
         new.pc \notin {"idle", "end"} => key' <= new.time /\ new.time <= now',
         new.pc \in {"seed", "put"} => new.read = key',
         new.pc \in {"runtime", "dispatch"} =>
           key' = new.time /\ jobs'[PreviousDue(new.time)] = 0,
         AtMostOnce', DispatchedIsKeyed'
  PROVE  Serial'
<1>1. mgr'[m] = new /\ \A n \in Managers \ {m} : mgr'[n].pc = "idle"
  BY DEF TypeOK, At
<1>2. WorkersHoldLock'
  BY <1>1 DEF WorkersHoldLock, At
<1>3. KeyIsMine'
  BY <1>1 DEF KeyIsMine, At, Slot
<1>. QED  BY <1>2, <1>3 DEF Serial

----------------------------------------------------------------------------
(* The actions *)

LEMMA InitInv == Init => Inv
<1> SUFFICES ASSUME Init PROVE Inv
  OBVIOUS
<1>1. Idle \in Locals
  BY BoundsAssumption DEF Idle, Locals, Steps, Minutes
<1>2. TypeOK
  BY <1>1, BoundsAssumption DEF Init, TypeOK, Minutes
<1>3. Accounts
  BY DEF Init, Accounts, KeyIsAccounted, ReadIsAccounted, SeedIsNotDue,
         At, Idle
<1>4. Serial
  BY BoundsAssumption
  DEF Init, Serial, AtMostOnce, WorkersHoldLock, KeyIsMine, DispatchedIsKeyed,
      At, Idle, NoKey
<1>. QED  BY <1>2, <1>3, <1>4, Parts

(* Time, the queue and the server are nobody's. *)
LEMMA WorldInv ==
  ASSUME Inv, Tick \/ Schedule \/ ServerFails \/ ServerRecovers
  PROVE  Inv'
<1> USE Parts, BoundsAssumption
<1>0. UNCHANGED <<locks, cache, kind, mgr, fate>>
  BY DEF Tick, Schedule, ServerFails, ServerRecovers
<1>1. TypeOK'
  <2>1. now' \in Minutes /\ waiting' \in 0..MaxWaiting
    BY DEF TypeOK, Tick, Schedule, ServerFails, ServerRecovers, Minutes
  <2>2. functional' \in {functional, TRUE, FALSE} /\ functional \in BOOLEAN
    BY Zenon DEF TypeOK, Tick, Schedule, ServerFails, ServerRecovers
  <2>3. mishaps' \in 0..MaxMishaps
    BY DEF TypeOK, Tick, Schedule, ServerFails, ServerRecovers
  <2>. QED  BY <1>0, <2>1, <2>2, <2>3 DEF TypeOK, locks, cache, fate
<1>2. UNCHANGED <<locks, cache, mgr, fate>> /\ now' >= now
  <2>1. now' >= now
    BY DEF TypeOK, Tick, Schedule, ServerFails, ServerRecovers, Minutes
  <2>. QED  BY <1>0, <2>1
<1>3. Accounts'
  BY <1>2, AccountsKept
<1>4. ~Overlap => Serial'
  <2> SUFFICES ASSUME ~Overlap PROVE Serial'
    OBVIOUS
  <2>1. AtMostOnce' /\ WorkersHoldLock' /\ DispatchedIsKeyed'
    BY <1>2 DEF Serial, AtMostOnce, WorkersHoldLock, DispatchedIsKeyed, At,
                locks, cache, fate
  <2>2. key <= now'
    <3>1. key <= now /\ key \in Int /\ now \in Int /\ now' \in Int
      BY <1>1 DEF Serial, KeyIsMine, TypeOK, Minutes, NoKey
    <3>. QED  BY <1>2, <3>1
  <2>3. \A m \in Managers : mgr[m].time <= now => mgr[m].time <= now'
    BY <1>1, <1>2 DEF TypeOK, Locals, Minutes
  <2>4. KeyIsMine'
    BY <1>2, <2>2, <2>3 DEF Serial, KeyIsMine, At, Slot, cache, fate
  <2>. QED  BY <2>1, <2>4 DEF Serial
<1>. QED  BY <1>1, <1>3, <1>4, PartsNext

(* Only a lock nobody works under expires, unless managers overlap. *)
LEMMA LockExpiresInv ==
  ASSUME Inv, LockExpires
  PROVE  Inv'
<1> USE Parts, BoundsAssumption DEF LockExpires
<1>1. TypeOK'
  BY DEF TypeOK, clock, cache, fate
<1>2. Accounts'
  BY AccountsKept
<1>3. ~Overlap => Serial'
  BY DEF Serial, AtMostOnce, WorkersHoldLock, KeyIsMine, DispatchedIsKeyed,
         At, Slot, clock, cache, fate, TypeOK
<1>. QED  BY <1>1, <1>2, <1>3, PartsNext

LEMMA BeginInv ==
  ASSUME Inv, NEW m \in Managers, Begin(m)
  PROVE  Inv'
<1> USE Parts, BoundsAssumption
<1> DEFINE new == [pc |-> IF kind = "cleanup" THEN "check" ELSE "precheck",
                   time |-> now, usable |-> functional, read |-> NoKey]
<1>1. CASE lock = "free"
  <2>1. new \in Locals /\ mgr' = [mgr EXCEPT ![m] = new]
    BY <1>1 DEF Begin, Locals, Steps, TypeOK
  <2>2. TypeOK'
    BY <1>1, <2>1 DEF Begin, TypeOK, cache, fate, Minutes
  <2>3. Settled \subseteq Settled'
    BY <2>1, SettledStays DEF Begin, At, fate
  <2>4. Accounts'
    BY <2>1, <2>3, AccountsStep DEF Begin, cache
  <2>5. ASSUME ~Overlap PROVE Serial'
    <3>1. /\ new.pc # "idle" => lock' = m
          /\ key' <= now'
          /\ new.pc \notin {"idle", "end"} =>
               key' <= new.time /\ new.time <= now'
      BY <1>1, <2>5 DEF Begin, cache, Serial, KeyIsMine, TypeOK, Minutes
    <3>2. AtMostOnce' /\ DispatchedIsKeyed'
      BY <2>5 DEF Begin, cache, fate, Serial, AtMostOnce, DispatchedIsKeyed
    <3>. QED
      BY <1>1, <2>1, <2>5, <3>1, <3>2, OthersIdle, SerialStep DEF Serial
  <2>. QED  BY <2>2, <2>4, <2>5, PartsNext
<1>2. CASE lock # "free"
  <2>1. TypeOK'
    BY <1>2 DEF Begin, TypeOK, locks, cache, fate
  <2>2. Accounts'
    BY <1>2, AccountsKept DEF Begin
  <2>3. ~Overlap => Serial'
    BY <1>2 DEF Begin, Serial, AtMostOnce, WorkersHoldLock, KeyIsMine,
                DispatchedIsKeyed, At, Slot, locks, cache, fate
  <2>. QED  BY <2>1, <2>2, <2>3, PartsNext
<1>. QED  BY <1>1, <1>2

(* A step of a manager that writes neither the key nor the queue. *)
LEMMA QuietStep ==
  ASSUME Inv, NEW m \in Managers, NEW new \in Locals,
         ~At(m, "idle"), mgr' = [mgr EXCEPT ![m] = new], TypeOK',
         UNCHANGED <<now, key, jobs>>, lock' = lock \/ new.pc = "idle",
         handled \subseteq handled', lost \subseteq lost',
         mgr[m].pc \in {"runtime", "dispatch"} =>
           \/ new.pc \in {"runtime", "dispatch"} /\ new.time = mgr[m].time
           \/ Slot(m) \in handled' \cup lost',
         new.pc \notin {"idle", "end"} =>
           mgr[m].pc # "end" /\ new.time = mgr[m].time,
         new.pc \in {"seed", "put"} => new.read = key,
         new.pc = "seed" => ~Fires(new.time, new.read),
         new.pc \in {"runtime", "dispatch"} => mgr[m].pc \in {"runtime", "dispatch"}
  PROVE  Inv'
<1> USE Parts
<1>1. Settled \subseteq Settled'
  BY SettledStays
<1>2. Accounts'
  BY <1>1, AccountsStep
<1>3. ASSUME ~Overlap PROVE Serial'
  <2>1. /\ new.pc # "idle" => lock' = m
        /\ key' <= now'
        /\ new.pc \notin {"idle", "end"} =>
             key' <= new.time /\ new.time <= now'
        /\ new.pc \in {"runtime", "dispatch"} =>
             key' = new.time /\ jobs'[PreviousDue(new.time)] = 0
    BY <1>3 DEF Serial, WorkersHoldLock, KeyIsMine, At, Slot
  <2>2. AtMostOnce' /\ DispatchedIsKeyed'
    BY <1>3 DEF Serial, AtMostOnce, DispatchedIsKeyed
  <2>3. \A n \in Managers \ {m} : At(n, "idle")
    BY <1>3, OthersIdle DEF Serial
  <2>. QED  BY <2>1, <2>2, <2>3, SerialStep
<1>. QED  BY <1>2, <1>3, PartsNext

(* The local states after a step. *)
LEMMA LeaveLocals ==
  ASSUME NEW pc \in Steps
  PROVE  [Idle EXCEPT !.pc = pc] \in Locals
<1>1. Idle \in Locals
  BY BoundsAssumption DEF Idle, Locals, Steps, Minutes
<1>. QED  BY <1>1 DEF Locals

LEMMA GotoLocals ==
  ASSUME TypeOK, NEW m \in Managers, NEW pc \in Steps, NEW k \in {mgr[m].read, key}
  PROVE  /\ [mgr[m] EXCEPT !.pc = pc] \in Locals
         /\ [mgr[m] EXCEPT !.read = k, !.pc = pc] \in Locals
         /\ [mgr[m] EXCEPT !.pc = pc].pc = pc
         /\ [mgr[m] EXCEPT !.pc = pc].time = mgr[m].time
  BY DEF TypeOK, Locals

LEMMA PrecheckInv ==
  ASSUME Inv, NEW m \in Managers, Precheck(m)
  PROVE  Inv'
<1> DEFINE pc == IF Fires(mgr[m].time, key) THEN "check" ELSE "seed"
           new == [mgr[m] EXCEPT !.read = key, !.pc = pc]
<1>1. TypeOK /\ mgr[m] \in Locals /\ key \in Minutes \cup {NoKey}
  BY Parts DEF TypeOK
<1>2. /\ new \in Locals /\ new.pc = pc /\ new.read = key
      /\ new.time = mgr[m].time
  BY <1>1 DEF Locals, Steps
<1>3. mgr' = [mgr EXCEPT ![m] = new]
  BY DEF Precheck
<1>4. TypeOK'
  BY <1>1, <1>2, <1>3 DEF Precheck, TypeOK, clock, locks, cache, fate
<1>5. /\ new.pc \in {"check", "seed"}
      /\ new.pc = "seed" => ~Fires(new.time, new.read)
  BY <1>2
<1>6. /\ mgr[m].pc = "precheck" /\ ~At(m, "idle")
      /\ UNCHANGED <<now, lock, key, jobs, handled, lost>>
  BY DEF Precheck, At, clock, locks, cache, fate
<1>. QED
  BY <1>2, <1>3, <1>4, <1>5, <1>6, QuietStep

LEMMA CheckInv ==
  ASSUME Inv, NEW m \in Managers, Check(m)
  PROVE  Inv'
<1> DEFINE new == IF mgr[m].usable THEN [mgr[m] EXCEPT !.pc = "read"]
                  ELSE [Idle EXCEPT !.pc = "end"]
<1>1. TypeOK /\ mgr[m] \in Locals
  BY Parts DEF TypeOK
<1>2. /\ new \in Locals /\ new.pc \in {"read", "end"}
      /\ new.pc = "read" => new.time = mgr[m].time
  BY <1>1, LeaveLocals, GotoLocals DEF Steps, Idle
<1>3. mgr' = [mgr EXCEPT ![m] = new]
  BY <1>1 DEF Check, Goto, Leave, TypeOK
<1>4. TypeOK'
  BY <1>1, <1>2, <1>3 DEF Check, TypeOK, clock, locks, cache, fate
<1>. QED
  BY <1>2, <1>3, <1>4, QuietStep DEF Check, At, clock, locks, cache, fate

LEMMA ReadInv ==
  ASSUME Inv, NEW m \in Managers, Read(m)
  PROVE  Inv'
<1> DEFINE new == [mgr[m] EXCEPT !.read = key, !.pc = "put"]
<1>1. TypeOK /\ mgr[m] \in Locals /\ key \in Minutes \cup {NoKey}
  BY Parts DEF TypeOK
<1>2. /\ new \in Locals /\ new.pc = "put" /\ new.read = key
      /\ new.time = mgr[m].time
  BY <1>1 DEF Locals, Steps
<1>3. mgr' = [mgr EXCEPT ![m] = new]
  BY DEF Read
<1>4. TypeOK'
  BY <1>1, <1>2, <1>3 DEF Read, TypeOK, clock, locks, cache, fate
<1>. QED
  BY <1>2, <1>3, <1>4, QuietStep DEF Read, At, clock, locks, cache, fate

LEMMA RuntimeInv ==
  ASSUME Inv, NEW m \in Managers, Runtime(m)
  PROVE  Inv'
<1>1. TypeOK /\ mgr[m] \in Locals /\ Slot(m) \in Slots
  BY Parts, PreviousDueFacts DEF TypeOK, Locals, Slot
<1>2. CASE Goto(m, "dispatch") /\ UNCHANGED handled
  <2> DEFINE new == [mgr[m] EXCEPT !.pc = "dispatch"]
  <2>1. new \in Locals /\ new.pc = "dispatch" /\ new.time = mgr[m].time
    BY <1>1, GotoLocals DEF Steps
  <2>2. mgr' = [mgr EXCEPT ![m] = new]
    BY <1>2 DEF Goto
  <2>3. TypeOK'
    BY <1>1, <1>2, <2>1, <2>2 DEF Runtime, TypeOK, clock, locks, cache
  <2>. QED
    BY <1>2, <2>1, <2>2, <2>3, QuietStep DEF Runtime, At, clock, locks, cache
<1>3. CASE Leave(m, "end") /\ handled' = handled \cup {Slot(m)}
  <2> DEFINE new == [Idle EXCEPT !.pc = "end"]
  <2>1. new \in Locals /\ new.pc = "end"
    BY LeaveLocals DEF Steps, Idle
  <2>2. mgr' = [mgr EXCEPT ![m] = new]
    BY <1>3 DEF Leave
  <2>3. TypeOK'
    BY <1>1, <1>3, <2>1, <2>2 DEF Runtime, TypeOK, clock, locks, cache
  <2>. QED
    BY <1>3, <2>1, <2>2, <2>3, QuietStep DEF Runtime, At, clock, locks, cache
<1>. QED  BY <1>2, <1>3 DEF Runtime

LEMMA FinishInv ==
  ASSUME Inv, NEW m \in Managers, Finish(m)
  PROVE  Inv'
<1> DEFINE new == [Idle EXCEPT !.pc = "idle"]
<1>1. TypeOK
  BY Parts
<1>2. new \in Locals /\ new.pc = "idle"
  BY LeaveLocals DEF Steps, Idle
<1>3. mgr' = [mgr EXCEPT ![m] = new]
  BY DEF Finish, Leave
<1>4. TypeOK'
  BY <1>1, <1>2, <1>3 DEF Finish, TypeOK, clock, cache, fate
<1>. QED
  BY <1>2, <1>3, <1>4, QuietStep DEF Finish, At, clock, cache, fate

(* A slot on its way to the queue is recorded as lost. *)
LEMMA FailsInv ==
  ASSUME Inv, NEW m \in Managers, Fails(m)
  PROVE  Inv'
<1> DEFINE new == IF mgr' = [mgr EXCEPT ![m] = [Idle EXCEPT !.pc = "end"]]
                  THEN [Idle EXCEPT !.pc = "end"]
                  ELSE [Idle EXCEPT !.pc = "idle"]
<1>1. TypeOK /\ Slot(m) \in Slots
  BY Parts, PreviousDueFacts DEF TypeOK, Locals, Slot
<1>2. new \in Locals /\ new.pc \in {"idle", "end"}
  BY LeaveLocals DEF Steps, Idle
<1>3. mgr' = [mgr EXCEPT ![m] = new]
  BY DEF Fails, Leave
<1>4. lock' = lock \/ new.pc = "idle"
  <2>1. CASE UNCHANGED lock
    BY <2>1
  <2>2. CASE Leave(m, "idle")
    <3>1. mgr'[m].pc = "idle"
      BY <1>1, <2>2 DEF Leave, TypeOK, Idle
    <3>2. mgr'[m] = new
      BY <1>1, <1>3 DEF TypeOK
    <3>. QED  BY <3>1, <3>2
  <2>. QED  BY <2>1, <2>2 DEF Fails
<1>5. /\ lock' \in Managers \cup {"free", "lost"}
      /\ lost \subseteq lost' /\ lost' \subseteq Slots
      /\ mishaps' \in 0..MaxMishaps
  BY <1>1, BoundsAssumption DEF Fails, TypeOK
<1>6. TypeOK'
  BY <1>1, <1>2, <1>3, <1>5 DEF Fails, TypeOK, clock, cache
<1>7. /\ ~At(m, "idle") /\ UNCHANGED <<now, key, jobs, handled>>
      /\ mgr[m].pc \in {"runtime", "dispatch"} => Slot(m) \in lost'
  BY DEF Fails, clock, cache
<1>. QED
  BY <1>2, <1>3, <1>4, <1>5, <1>6, <1>7, QuietStep

(* The slot has not been dispatched before: the key would show it. *)
LEMMA DispatchInv ==
  ASSUME Inv, NEW m \in Managers, Dispatch(m)
  PROVE  Inv'
<1> USE Parts
<1> DEFINE new == [Idle EXCEPT !.pc = "end"]
<1>1. TypeOK /\ mgr[m].time \in Minutes
  BY DEF TypeOK, Locals
<1>2. Slot(m) \in Slots /\ Slot(m) <= mgr[m].time
  BY <1>1, PreviousDueFacts DEF Slot
<1>3. new \in Locals /\ new.pc = "end"
  BY LeaveLocals DEF Steps, Idle
<1>4. mgr' = [mgr EXCEPT ![m] = new]
  BY DEF Dispatch, Leave
<1>5. TypeOK'
  <2>1. jobs' \in [Slots -> Nat]
    BY <1>1, <1>2 DEF Dispatch, TypeOK
  <2>. QED
    BY <1>1, <1>2, <1>3, <1>4, <2>1 DEF Dispatch, TypeOK, clock, locks, cache
<1>6. Settled \subseteq Settled'
  BY <1>1, <1>3, <1>4, SettledStays DEF Dispatch
<1>7. Accounts'
  BY <1>1, <1>3, <1>4, <1>6, AccountsStep DEF Dispatch, cache
<1>8. ASSUME ~Overlap PROVE Serial'
  <2>1. key = mgr[m].time /\ jobs[Slot(m)] = 0
    BY <1>8 DEF Dispatch, Serial, KeyIsMine, At
  <2>2. /\ jobs'[Slot(m)] = 1
        /\ \A d \in Slots \ {Slot(m)} : jobs'[d] = jobs[d]
    BY <1>1, <1>2, <2>1 DEF Dispatch, TypeOK
  <2>3. AtMostOnce' /\ DispatchedIsKeyed'
    BY <1>2, <1>8, <2>1, <2>2 DEF Dispatch, Serial, AtMostOnce, DispatchedIsKeyed, cache
  <2>4. new.pc # "idle" => lock' = m
    BY <1>8 DEF Dispatch, Serial, WorkersHoldLock, At, locks
  <2>5. key' <= now'
    BY <1>8 DEF Dispatch, Serial, KeyIsMine, cache, clock
  <2>6. \A n \in Managers \ {m} : At(n, "idle")
    BY <1>1, <1>8, OthersIdle DEF Dispatch, Serial, At
  <2>. QED  BY <1>1, <1>3, <1>4, <2>3, <2>4, <2>5, <2>6, SerialStep
<1>. QED  BY <1>5, <1>7, <1>8, PartsNext

(* Putting a schedule aside moves the key to a slot that is accounted for, *)
(* and behind no dispatch.                                                 *)
LEMMA PutAsideInv ==
  ASSUME Inv, NEW m \in Managers, PutAside(m), ~Decided(m),
         At(m, "seed") \/ At(m, "put"),
         UNCHANGED <<clock, locks, kind, jobs, lost, mishaps>>
  PROVE  Inv'
<1> USE Parts
<1> DEFINE new == [Idle EXCEPT !.pc = "end"]
           t == mgr[m].time
           k == mgr[m].read
<1>1. TypeOK /\ t \in Minutes /\ k \in Minutes \cup {NoKey}
  BY DEF TypeOK, Locals
<1>2. /\ Slot(m) \in Slots /\ Slot(m) <= t /\ Slot(m) \in Due
      /\ \A e \in Due : e <= t => e <= Slot(m)
  BY <1>1, PreviousDueFacts DEF Slot, Slots
<1>3. new \in Locals /\ new.pc = "end"
  BY LeaveLocals DEF Steps, Idle
<1>4. mgr' = [mgr EXCEPT ![m] = new] /\ key' = Slot(m)
  BY DEF PutAside, Leave
<1>5. handled \subseteq handled' /\ handled' \subseteq Slots
  BY <1>1, <1>2 DEF PutAside, TypeOK
<1>6. TypeOK'
  BY <1>1, <1>2, <1>3, <1>4, <1>5, Numbers
  DEF TypeOK, clock, locks
<1>7. Settled \subseteq Settled'
  BY <1>1, <1>3, <1>4, <1>5, SettledStays DEF At
<1>8. k # NoKey => Slot(m) <= k
  <2>1. Slot(m) \in Int /\ k \in Int
    BY <1>1, <1>2, Numbers
  <2>. QED  BY <2>1 DEF Decided, Fires, Slot
<1>9. \E d \in Settled' : d >= PreviousDue(key')
  <2>0. PreviousDue(Slot(m)) <= Slot(m) /\ PreviousDue(Slot(m)) \in Int
    BY <1>2, PreviousDueFacts, Numbers
  <2>1. CASE k = NoKey
    <3>1. Slot(m) \in Settled'
      BY <2>1 DEF PutAside, Settled
    <3>. QED  BY <1>2, <1>4, <2>0, <3>1
  <2>2. CASE k # NoKey
    <3>1. PICK d \in Settled : d >= PreviousDue(k)
      BY <2>2 DEF Accounts, ReadIsAccounted
    <3>2. Slot(m) <= PreviousDue(k) /\ PreviousDue(k) \in Slots
      BY <1>1, <1>2, <1>8, <2>2, PreviousDueFacts
    <3>3. d \in Int /\ PreviousDue(k) \in Int /\ Slot(m) \in Int
      <4>1. d \in Slots
        <5>1. \A n \in Managers : Slot(n) \in Slots
          BY <1>1, PreviousDueFacts DEF Slot, TypeOK, Locals
        <5>. QED  BY <1>1, <3>1, <5>1 DEF Settled, InFlight, TypeOK
      <4>. QED
        BY <4>1, <3>2, <1>2, Numbers
    <3>4. d >= PreviousDue(key')
      BY <1>4, <2>0, <3>1, <3>2, <3>3
    <3>. QED  BY <1>7, <3>4
  <2>. QED  BY <2>1, <2>2
<1>10. Accounts'
  BY <1>1, <1>3, <1>4, <1>7, <1>9, AccountsStep
<1>11. ASSUME ~Overlap PROVE Serial'
  <2>0. t \in Int /\ key \in Int /\ now \in Int /\ Slot(m) \in Int
    BY <1>1, <1>2, Numbers DEF TypeOK
  <2>1. key = k /\ key <= t /\ t <= now
    BY <1>11 DEF Serial, KeyIsMine, At
  <2>2. ASSUME NEW d \in Slots, jobs[d] > 0 PROVE Slot(m) >= d
    <3>1. d <= key /\ d \in Due /\ d \in Int
      BY <1>11, <2>2, Numbers DEF Serial, DispatchedIsKeyed
    <3>. QED  BY <1>2, <2>0, <2>1, <3>1
  <2>3. AtMostOnce' /\ DispatchedIsKeyed'
    BY <1>4, <1>11, <2>2 DEF Serial, AtMostOnce, DispatchedIsKeyed
  <2>4. new.pc # "idle" => lock' = m
    BY <1>11 DEF Serial, WorkersHoldLock, At, locks
  <2>5. key' <= now'
    BY <1>2, <1>4, <2>0, <2>1 DEF clock
  <2>6. \A n \in Managers \ {m} : At(n, "idle")
    BY <1>1, <1>11, OthersIdle DEF Serial, At
  <2>. QED  BY <1>1, <1>3, <1>4, <2>3, <2>4, <2>5, <2>6, SerialStep
<1>. QED  BY <1>6, <1>10, <1>11, PartsNext

LEMMA SeedInv ==
  ASSUME Inv, NEW m \in Managers, Seed(m)
  PROVE  Inv'
<1>1. ~Decided(m)
  BY Parts DEF Seed, Accounts, SeedIsNotDue
<1>. QED  BY <1>1, PutAsideInv DEF Seed

(* A put that leads to a dispatch: the slot is later than the key. *)
LEMMA PutInv ==
  ASSUME Inv, NEW m \in Managers, Put(m)
  PROVE  Inv'
<1> USE Parts
<1> DEFINE pc == IF kind = "task" THEN "runtime" ELSE "dispatch"
           new == [mgr[m] EXCEPT !.pc = pc]
           t == mgr[m].time
<1>1. CASE ~Decided(m)
  BY <1>1, PutAsideInv DEF Put
<1>2. CASE Decided(m)
  <2>1. TypeOK /\ t \in Minutes /\ Slot(m) \in Slots /\ Slot(m) \in Due
    BY PreviousDueFacts DEF TypeOK, Locals, Slot, Slots
  <2>2. /\ new \in Locals /\ new.pc \in {"runtime", "dispatch"}
        /\ new.time = t
    <3>1. pc \in Steps /\ pc \in {"runtime", "dispatch"}
      BY DEF Steps
    <3>. HIDE DEF pc
    <3>. QED  BY <2>1, <3>1, GotoLocals
  <2>3. mgr' = [mgr EXCEPT ![m] = new] /\ key' = t /\ UNCHANGED handled
    BY <1>2 DEF Put, Goto
  <2>4. TypeOK'
    BY <2>1, <2>2, <2>3 DEF Put, TypeOK, clock, locks
  <2>5. Settled \subseteq Settled'
    BY <2>1, <2>2, <2>3, SettledStays DEF Put, At
  <2>6. \E d \in Settled' : d >= PreviousDue(key')
    <3>1. mgr'[m] = new /\ PreviousDue(t) = Slot(m)'
      BY <2>1, <2>2, <2>3 DEF Slot, TypeOK
    <3>2. PreviousDue(t) \in Settled'
      BY <2>2, <3>1 DEF Settled, InFlight
    <3>3. PreviousDue(t) \in Int
      BY <2>1, PreviousDueFacts, Numbers
    <3>. QED  BY <2>3, <3>2, <3>3
  <2>7. Accounts'
    BY <2>1, <2>2, <2>3, <2>5, <2>6, AccountsStep
  <2>8. ASSUME ~Overlap PROVE Serial'
    <3>1. /\ mgr[m].read = key /\ key <= t /\ t <= now
          /\ t \in Int /\ key \in Int /\ Slot(m) \in Int
      <4>1. mgr[m].read = key /\ key <= t /\ t <= now
        BY <2>8 DEF Put, Serial, KeyIsMine, At
      <4>. QED
        BY <2>1, <4>1, Numbers DEF TypeOK
    <3>2. jobs[Slot(m)] = 0
      <4>1. CASE key = NoKey
        <5>1. ~(key >= Slot(m))
          BY <2>1, <4>1, Numbers
        <5>. QED
          BY <2>1, <2>8, <5>1 DEF Serial, DispatchedIsKeyed, TypeOK
      <4>2. CASE key # NoKey
        <5>1. ~(key >= Slot(m))
          BY <1>2, <3>1, <4>2 DEF Decided, Fires, Slot
        <5>. QED
          BY <2>1, <2>8, <5>1 DEF Serial, DispatchedIsKeyed, TypeOK
      <4>. QED  BY <4>1, <4>2
    <3>3. AtMostOnce'
      BY <2>8 DEF Put, Serial, AtMostOnce
    <3>4. DispatchedIsKeyed'
      <4> SUFFICES ASSUME NEW d \in Slots, jobs[d] > 0 PROVE t >= d
        BY <2>3 DEF Put, DispatchedIsKeyed
      <4>1. key >= d /\ d \in Int
        BY <2>8, Numbers DEF Serial, DispatchedIsKeyed
      <4>. QED  BY <3>1, <4>1
    <3>5. /\ lock' = m /\ key' <= now' /\ t <= now'
          /\ jobs'[PreviousDue(t)] = 0 /\ key' <= t
      BY <2>3, <2>8, <3>1, <3>2
      DEF Put, Serial, WorkersHoldLock, At, Slot, clock, locks
    <3>6. \A n \in Managers \ {m} : At(n, "idle")
      BY <2>1, <2>8, OthersIdle DEF Put, Serial, At
    <3>. QED
      BY <2>1, <2>2, <2>3, <3>3, <3>4, <3>5, <3>6, SerialStep
  <2>. QED  BY <2>4, <2>7, <2>8, PartsNext
<1>. QED  BY <1>1, <1>2

LEMMA StepInv == Inv /\ [Next]_vars => Inv'
<1> SUFFICES ASSUME Inv, [Next]_vars PROVE Inv'
  OBVIOUS
<1>1. CASE Tick \/ Schedule \/ ServerFails \/ ServerRecovers
  BY <1>1, WorldInv
<1>2. CASE LockExpires
  BY <1>2, LockExpiresInv
<1>3. ASSUME NEW m \in Managers, Begin(m) \/ Fails(m) PROVE Inv'
  BY <1>3, BeginInv, FailsInv
<1>4. ASSUME NEW m \in Managers, ManagerStep(m) PROVE Inv'
  BY <1>4, PrecheckInv, SeedInv, CheckInv, ReadInv, PutInv, RuntimeInv,
     DispatchInv, FinishInv DEF ManagerStep
<1>5. CASE UNCHANGED vars
  <2>1. UNCHANGED <<clock, locks, cache, kind, mgr, fate, mishaps>>
    BY <1>5 DEF vars
  <2>2. TypeOK'
    BY <2>1, Parts DEF TypeOK, clock, locks, cache, fate
  <2>3. Accounts'
    BY <2>1, Parts, AccountsKept
  <2>4. ~Overlap => Serial'
    BY <2>1, Parts
    DEF Serial, AtMostOnce, WorkersHoldLock, KeyIsMine, DispatchedIsKeyed,
        At, Slot, clock, locks, cache, fate
  <2>. QED  BY <2>2, <2>3, <2>4, PartsNext
<1>. QED  BY <1>1, <1>2, <1>3, <1>4, <1>5 DEF Next

----------------------------------------------------------------------------
(* The theorems *)

(* The inductive invariant of the manager: what is remembered in the cache *)
(* and in each worker agrees with what has been dispatched.                *)
THEOREM ScheduleInvariance == Spec => []Inv
<1>1. Init => Inv
  BY InitInv
<1>2. Inv /\ [Next]_vars => Inv'
  BY StepInv
<1>. QED  BY <1>1, <1>2, PTL DEF Spec

(* shouldRunCronNow() and the early check never write a key for a slot     *)
(* that nobody has taken care of, even when managers overlap.              *)
THEOREM KeysAreAccounted == Spec => []KeyIsAccounted
<1>1. Inv => KeyIsAccounted
  BY DEF Inv
<1>. QED  BY <1>1, ScheduleInvariance, PTL

(* While the lock of WithoutOverlapping outlasts the managers, no slot is  *)
(* dispatched twice.                                                       *)
THEOREM SlotsRunOnce ==
  ASSUME ~Overlap
  PROVE  Spec => []AtMostOnce
<1>1. Inv => AtMostOnce
  BY DEF Inv
<1>. QED  BY <1>1, ScheduleInvariance, PTL
=============================================================================
