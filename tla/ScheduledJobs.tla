---------------------------- MODULE ScheduledJobs -----------------------------
(***************************************************************************)
(* The scheduled job manager: a job that runs every minute, looks which    *)
(* backups, tasks and clean-ups are due and dispatches their jobs.  A key  *)
(* in the cache remembers the last dispatch of each schedule.  Schedules   *)
(* have keys of their own and affect one another only by the time they     *)
(* take, so one schedule is modelled.                                      *)
(*                                                                         *)
(* Time is in minutes, as in cron expressions.  An action is one call of   *)
(* the cache or of the queue, or what happens between two of them.         *)
(***************************************************************************)
EXTENDS Integers, FiniteSets

CONSTANTS
  Managers,   \* workers that may run the job at the same time
  Due,        \* the minutes at which the schedule is due: its slots
  Kinds,      \* which of "backup", "task", "cleanup" the schedule may be
  Overlap,    \* a manager may take longer than its lock lasts
  MaxTime,    \* bound: the last minute, which stands for all later ones
  MaxWaiting, \* bound: managers waiting in the queue
  MaxMishaps  \* bound: crashes, exceptions and server outages

Minutes == 0..MaxTime

(* A cron expression has a run before any time (getPreviousRunDate()).  The *)
(* minutes after the slots are all alike, so the last one can stand for    *)
(* those that follow it.                                                   *)
ASSUME DueAssumption ==
  /\ Due \subseteq 0..(MaxTime - 1)
  /\ \A t \in Minutes : \E d \in Due : d <= t /\ \A e \in Due : e <= t => e <= d

ASSUME BoundsAssumption ==
  /\ MaxTime \in Nat /\ MaxWaiting \in Nat /\ MaxMishaps \in Nat
  /\ Kinds \subseteq {"backup", "task", "cleanup"} /\ Overlap \in BOOLEAN
  /\ {"free", "lost"} \cap Managers = {}

VARIABLES
  now,        \* the minute it is
  waiting,    \* managers waiting in the queue
  lock,       \* of WithoutOverlapping: its owner, "free", or "lost" with a crash
  lockedAt,   \* the minute it was taken
  key,        \* the cached time of the last dispatch, or NoKey
  kind,       \* what the schedule is for
  functional, \* the columns that say whether its server can be used
  mgr,        \* the local state of each manager
  jobs,       \* slot -> number of jobs dispatched for it
  handled,    \* history: slots dispatched, or left out on purpose
  lost,       \* history: slots lost to a crash or an exception
  mishaps     \* number of mishaps so far

clock == <<now, waiting, functional>>
locks == <<lock, lockedAt>>
cache == <<key>>
fate  == <<jobs, handled, lost>>
vars  == <<clock, locks, cache, kind, mgr, fate, mishaps>>

NoKey == -1
Slots == Due \cap Minutes
Steps == {"idle", "precheck", "seed", "check", "read", "put", "runtime",
          "dispatch", "end"}
Locals == [pc: Steps, time: Minutes, usable: BOOLEAN, read: Minutes \cup {NoKey}]

TypeOK ==
  /\ now \in Minutes /\ waiting \in 0..MaxWaiting /\ functional \in BOOLEAN
  /\ lock \in Managers \cup {"free", "lost"} /\ lockedAt \in Minutes
  /\ key \in Minutes \cup {NoKey} /\ kind \in Kinds
  /\ mgr \in [Managers -> Locals]
  /\ jobs \in [Slots -> Nat] /\ handled \subseteq Slots /\ lost \subseteq Slots
  /\ mishaps \in 0..MaxMishaps

Idle == [pc |-> "idle", time |-> 0, usable |-> TRUE, read |-> NoKey]

Init ==
  /\ now = 0 /\ waiting = 0 /\ functional = TRUE
  /\ lock = "free" /\ lockedAt = 0
  /\ key = NoKey /\ kind \in Kinds
  /\ mgr = [m \in Managers |-> Idle]
  /\ jobs = [d \in Slots |-> 0] /\ handled = {} /\ lost = {}
  /\ mishaps = 0

PreviousDue(t) ==
  CHOOSE d \in Due : d <= t /\ \A e \in Due : e <= t => e <= d

(* Is the schedule to be dispatched at t when k is the cached time? *)
Fires(t, k) == IF k = NoKey THEN t \in Due ELSE PreviousDue(t) > k

At(m, pc) == mgr[m].pc = pc
Goto(m, pc) == mgr' = [mgr EXCEPT ![m].pc = pc]
Slot(m) == PreviousDue(mgr[m].time)
Decided(m) == Fires(mgr[m].time, mgr[m].read)
Leave(m, pc) == mgr' = [mgr EXCEPT ![m] = [Idle EXCEPT !.pc = pc]]

----------------------------------------------------------------------------
(* The world *)

Tick ==
  /\ now < MaxTime /\ now' = now + 1
  /\ UNCHANGED <<waiting, functional, locks, cache, kind, mgr, fate, mishaps>>

(* everyMinute(); the queue may be slow, and the scheduler miss a minute. *)
Schedule ==
  /\ waiting < MaxWaiting /\ waiting' = waiting + 1
  /\ UNCHANGED <<now, functional, locks, cache, kind, mgr, fate, mishaps>>

ServerFails ==
  /\ functional /\ mishaps < MaxMishaps
  /\ functional' = FALSE /\ mishaps' = mishaps + 1
  /\ UNCHANGED <<now, waiting, locks, cache, kind, mgr, fate>>

ServerRecovers ==
  /\ ~functional /\ functional' = TRUE
  /\ UNCHANGED <<now, waiting, locks, cache, kind, mgr, fate, mishaps>>

(* Mutant: without expireAfter(), the lock of a dead worker stays. *)
LockStays ==
  /\ lock \in Managers /\ Overlap
  /\ lock' = "free"
  /\ UNCHANGED <<clock, lockedAt, cache, kind, mgr, fate, mishaps>>

(* expireAfter(90): in a later minute than it was taken.  The lock that a  *)
(* crash left in the last minute expires in one of those it stands for.    *)
LockExpires ==
  /\ \/ lock = "lost" /\ (now > lockedAt \/ now = MaxTime)
     \/ lock \in Managers /\ Overlap /\ now > lockedAt
  /\ lock' = "free"
  /\ UNCHANGED <<clock, lockedAt, cache, kind, mgr, fate, mishaps>>

----------------------------------------------------------------------------
(* A manager *)

(* The middleware drops the job if the lock is taken (dontRelease).        *)
(* handle() freezes the time and loads the schedule with its server.       *)
Begin(m) ==
  /\ waiting > 0 /\ At(m, "idle")
  /\ waiting' = waiting - 1
  /\ IF lock = "free"
     THEN /\ lock' = m /\ lockedAt' = now
          /\ mgr' = [mgr EXCEPT ![m] =
               [pc |-> IF kind = "cleanup" THEN "check" ELSE "precheck",
                time |-> now, usable |-> functional, read |-> NoKey]]
     ELSE UNCHANGED <<locks, mgr>>
  /\ UNCHANGED <<now, functional, cache, kind, fate, mishaps>>

(* Mutant: the early check claims what is due, as the late one does. *)
PrecheckClaims(m) ==
  /\ At(m, "precheck")
  /\ mgr' = [mgr EXCEPT ![m].read = key,
               ![m].pc = IF Fires(mgr[m].time, key) THEN "check" ELSE "seed"]
  /\ key' = IF Fires(mgr[m].time, key) THEN mgr[m].time ELSE key
  /\ UNCHANGED <<clock, locks, kind, fate, mishaps>>

(* isDueCandidateBeforeExpensiveChecks(): what is not due is put aside.    *)
Precheck(m) ==
  /\ At(m, "precheck")
  /\ mgr' = [mgr EXCEPT ![m].read = key,
               ![m].pc = IF Fires(mgr[m].time, key) THEN "check" ELSE "seed"]
  /\ UNCHANGED <<clock, locks, cache, kind, fate, mishaps>>

(* What has been due before the first look is left out on purpose. *)
PutAside(m) ==
  /\ key' = Slot(m)
  /\ handled' = handled \cup (IF mgr[m].read = NoKey THEN {Slot(m)} ELSE {})
  /\ Leave(m, "end")

Seed(m) ==
  /\ At(m, "seed") /\ PutAside(m)
  /\ UNCHANGED <<clock, locks, kind, jobs, lost, mishaps>>

(* get...SkipReason(): the server cannot be used, or is not paid for. *)
Check(m) ==
  /\ At(m, "check")
  /\ IF mgr[m].usable THEN Goto(m, "read") ELSE Leave(m, "end")
  /\ UNCHANGED <<clock, locks, cache, kind, fate, mishaps>>

(* shouldRunCronNow(), its get ... *)
Read(m) ==
  /\ At(m, "read")
  /\ mgr' = [mgr EXCEPT ![m].read = key, ![m].pc = "put"]
  /\ UNCHANGED <<clock, locks, cache, kind, fate, mishaps>>

(* Mutant: the key remembers the slot before a dispatch, not the dispatch. *)
PutOnlyWhenNotDue(m) ==
  /\ At(m, "put")
  /\ IF Decided(m)
     THEN /\ Goto(m, IF kind = "task" THEN "runtime" ELSE "dispatch")
          /\ UNCHANGED <<key, handled>>
     ELSE PutAside(m)
  /\ UNCHANGED <<clock, locks, kind, jobs, lost, mishaps>>

(* ... and its put. *)
Put(m) ==
  /\ At(m, "put")
  /\ IF Decided(m)
     THEN /\ key' = mgr[m].time
          /\ Goto(m, IF kind = "task" THEN "runtime" ELSE "dispatch")
          /\ UNCHANGED handled
     ELSE PutAside(m)
  /\ UNCHANGED <<clock, locks, kind, jobs, lost, mishaps>>

(* getTaskRuntimeSkipReason(): a task runs in a container that is up. *)
Runtime(m) ==
  /\ At(m, "runtime")
  /\ \/ Goto(m, "dispatch") /\ UNCHANGED handled
     \/ Leave(m, "end") /\ handled' = handled \cup {Slot(m)}
  /\ UNCHANGED <<clock, locks, cache, kind, jobs, lost, mishaps>>

Dispatch(m) ==
  /\ At(m, "dispatch")
  /\ jobs' = [jobs EXCEPT ![Slot(m)] = @ + 1]
  /\ handled' = handled \cup {Slot(m)}
  /\ Leave(m, "end")
  /\ UNCHANGED <<clock, locks, cache, kind, lost, mishaps>>

(* The manager is done; it releases the lock if it still owns it. *)
Finish(m) ==
  /\ At(m, "end") /\ Leave(m, "idle")
  /\ lock' = IF lock = m THEN "free" ELSE lock
  /\ UNCHANGED <<clock, lockedAt, cache, kind, fate, mishaps>>

(* A cache or queue operation throws, which ends the work on the schedule, *)
(* or the worker dies, which also leaves the lock behind.                  *)
Fails(m) ==
  /\ ~At(m, "idle") /\ mishaps < MaxMishaps
  /\ mishaps' = mishaps + 1
  /\ lost' = lost \cup (IF mgr[m].pc \in {"runtime", "dispatch"}
                        THEN {Slot(m)} ELSE {})
  /\ \/ ~At(m, "end") /\ Leave(m, "end") /\ UNCHANGED lock
     \/ Leave(m, "idle") /\ lock' = IF lock = m THEN "lost" ELSE lock
  /\ UNCHANGED <<clock, lockedAt, cache, kind, jobs, handled>>

ManagerStep(m) ==
  \/ Precheck(m) \/ Seed(m) \/ Check(m) \/ Read(m) \/ Put(m)
  \/ Runtime(m) \/ Dispatch(m) \/ Finish(m)

Next ==
  \/ Tick \/ Schedule \/ ServerFails \/ ServerRecovers \/ LockExpires
  \/ \E m \in Managers : Begin(m) \/ ManagerStep(m) \/ Fails(m)

Spec == Init /\ [][Next]_vars

(* Time goes on, the scheduler pushes managers, workers run them, servers  *)
(* come back and locks expire.                                             *)
Fairness ==
  /\ WF_vars(Tick)
  /\ WF_vars(Schedule) /\ WF_vars(ServerRecovers) /\ WF_vars(LockExpires)
  /\ WF_vars(\E m \in Managers : Begin(m))
  /\ \A m \in Managers : WF_vars(ManagerStep(m))

FairSpec == Spec /\ Fairness

----------------------------------------------------------------------------
(* Properties *)

(* No slot is dispatched twice, however late or often managers run: a      *)
(* backup or a task runs once for each time it is due.                     *)
AtMostOnce == \A d \in Slots : jobs[d] <= 1

InFlight == {Slot(m) : m \in {n \in Managers : mgr[n].pc \in {"runtime", "dispatch"}}}
Settled == handled \cup lost \cup InFlight

(* The key never claims that a slot has been dispatched when nobody has    *)
(* taken care of it, or of a later one that stands for it.                 *)
KeyIsAccounted ==
  key # NoKey => \E d \in Settled : d >= PreviousDue(key)

(* What a manager has read was accounted for, and what it puts aside is    *)
(* not due.                                                                *)
ReadIsAccounted ==
  \A m \in Managers :
    (At(m, "seed") \/ At(m, "put")) /\ mgr[m].read # NoKey =>
      \E d \in Settled : d >= PreviousDue(mgr[m].read)

SeedIsNotDue == \A m \in Managers : At(m, "seed") => ~Decided(m)

(* Without overlap: who works has the lock, ... *)
WorkersHoldLock == \A m \in Managers : ~At(m, "idle") => lock = m

(* ... so no one else moves the key, which stays behind its time, ...      *)
KeyIsMine ==
  /\ key <= now
  /\ \A m \in Managers :
       /\ ~At(m, "idle") /\ ~At(m, "end") =>
            key <= mgr[m].time /\ mgr[m].time <= now
       /\ At(m, "seed") \/ At(m, "put") => mgr[m].read = key
       /\ At(m, "runtime") \/ At(m, "dispatch") =>
            key = mgr[m].time /\ jobs[Slot(m)] = 0

(* ... and has reached every slot that has been dispatched.                *)
DispatchedIsKeyed == \A d \in Slots : jobs[d] > 0 => key >= d

(* The inductive invariant. *)
Inv ==
  /\ TypeOK /\ KeyIsAccounted /\ ReadIsAccounted /\ SeedIsNotDue
  /\ ~Overlap => /\ AtMostOnce /\ WorkersHoldLock
                 /\ KeyIsMine /\ DispatchedIsKeyed

(* A slot that is due after the first look at the schedule is taken care   *)
(* of sooner or later, itself or with a later one, however late managers   *)
(* run and whatever becomes of the server and the lock meanwhile.          *)
Waiting(d) == d <= now /\ handled # {} /\ \A e \in handled \cup lost : e < d
SlotIsServed == []<>(\A d \in Slots : ~Waiting(d))
=============================================================================
