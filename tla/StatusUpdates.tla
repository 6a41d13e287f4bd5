----------------------------- MODULE StatusUpdates -----------------------------
(***************************************************************************)
(* How the status of an application follows its container when Sentinel is *)
(* at work: Sentinel pushes lists of containers, the controller dispatches *)
(* a job for a list that seems new, and the job writes what differs from   *)
(* the row as it has read it.  Besides, GetContainersStatus asks Docker.   *)
(***************************************************************************)
EXTENDS Naturals, FiniteSets

CONSTANTS
  MaxLists,        \* bound: lists under way or queued
  MaxChanges,      \* bound: changes of the container
  MaxStatusMishaps \* bound: lists lost, workers killed, locks that expire early, refreshes

(* Every list names Sentinel's own container too: none is empty. *)
Containers == {"healthy", "unhealthy", "exited", "gone"}
Statuses == Containers \ {"gone"}
Shown(c) == IF c = "gone" THEN "exited" ELSE c

(* containerStateHash() leaves the health out. *)
Hash(c) == IF c = "unhealthy" THEN "healthy" ELSE c

Workers == {1, 2}
StatusIdle == [list |-> "none", read |-> "none"]

VARIABLES
  container,  \* what Docker runs
  status,     \* column of the application
  pushed,     \* number of lists of each kind on their way to the controller
  queued,     \* number of jobs of each kind in the queue
  hash,       \* cached hash of the last list that was dispatched, or "none"
  forced,     \* the force key is in the cache
  work,       \* of a worker: the list of its job and the status it has read
  statusLock, \* the worker that has the lock of the server's jobs, or 0
  refresh,    \* the same of GetContainersStatus; list "ask" before it asks Docker
  changes, statusMishaps

caches == <<hash, forced>>
lists == <<pushed, queued>>
bounds == <<changes, statusMishaps>>
statusVars == <<container, status, lists, caches, work, statusLock, refresh, bounds>>

Jobs == [list : Containers, read : Statuses]

StatusTypeOK ==
  /\ container \in Containers /\ status \in Statuses
  /\ pushed \in [Containers -> Nat] /\ queued \in [Containers -> Nat]
  /\ hash \in Containers \cup {"none"} /\ forced \in BOOLEAN
  /\ work \in [Workers -> Jobs \cup {StatusIdle}] /\ statusLock \in Workers \cup {0}
  /\ refresh \in Jobs \cup {StatusIdle} \cup [list : {"ask"}, read : Statuses]
  /\ changes \in 0..MaxChanges /\ statusMishaps \in 0..MaxStatusMishaps

StatusInit ==
  /\ container = "healthy" /\ status = "healthy"
  /\ pushed = [c \in Containers |-> 0] /\ queued = [c \in Containers |-> 0]
  /\ hash = "none" /\ forced = FALSE
  /\ work = [w \in Workers |-> StatusIdle] /\ statusLock = 0
  /\ refresh = StatusIdle
  /\ changes = 0 /\ statusMishaps = 0

UnderWay == Cardinality({<<c, n>> \in Containers \X (1..MaxLists) : pushed[c] >= n})
          + Cardinality({<<c, n>> \in Containers \X (1..MaxLists) : queued[c] >= n})

Mishap == statusMishaps < MaxStatusMishaps /\ statusMishaps' = statusMishaps + 1

----------------------------------------------------------------------------
(* A deployment, its user, a health check or a crash changes the container. *)
Change(c) ==
  /\ changes < MaxChanges /\ changes' = changes + 1
  /\ c # container /\ container' = c
  /\ UNCHANGED <<status, lists, caches, work, statusLock, refresh, statusMishaps>>

SentinelPushes ==
  /\ UnderWay < MaxLists
  /\ pushed' = [pushed EXCEPT ![container] = @ + 1]
  /\ UNCHANGED <<container, status, queued, caches, work, statusLock, refresh, bounds>>

(* The network loses it, or the lock of the cache is not had in time. *)
Lose(c) ==
  /\ pushed[c] > 0 /\ Mishap
  /\ pushed' = [pushed EXCEPT ![c] = @ - 1]
  /\ UNCHANGED <<container, status, queued, caches, work, statusLock, refresh, changes>>

(* Mutant: only a list that is new is dispatched. *)
IsNewOnly(c) == hash # Hash(c)

(* shouldDispatchUpdate(): the first list, a new one, or a window is over. *)
IsDispatched(c) == hash # Hash(c) \/ ~forced

(* Requests and jobs overtake one another: any list may be the next. *)
Receive(c) ==
  /\ pushed[c] > 0
  /\ pushed' = [pushed EXCEPT ![c] = @ - 1]
  /\ IF IsDispatched(c)
     THEN /\ queued' = [queued EXCEPT ![c] = @ + 1]
          /\ hash' = Hash(c) /\ forced' = TRUE
     ELSE UNCHANGED <<queued, caches>>
  /\ UNCHANGED <<container, status, work, statusLock, refresh, bounds>>

ForceWindowEnds ==
  /\ forced /\ forced' = FALSE
  /\ UNCHANGED <<container, status, lists, hash, work, statusLock, refresh, bounds>>

(* A job that finds the lock taken is dropped: dontRelease(). *)
Take(w, c) ==
  /\ work[w] = StatusIdle /\ queued[c] > 0
  /\ queued' = [queued EXCEPT ![c] = @ - 1]
  /\ IF statusLock = 0
     THEN /\ statusLock' = w
          /\ work' = [work EXCEPT ![w] = [list |-> c, read |-> status]]
     ELSE UNCHANGED <<statusLock, work>>
  /\ UNCHANGED <<container, status, pushed, caches, refresh, bounds>>

(* Eloquent writes what differs from what was read; an application that is *)
(* not in the list becomes "exited" whatever was read.                     *)
Written(job, unread) ==
  IF job.list = "gone" /\ unread THEN "exited"
  ELSE IF job.read = Shown(job.list) THEN status ELSE Shown(job.list)

Write(w) ==
  /\ work[w] # StatusIdle
  /\ status' = Written(work[w], TRUE)
  /\ work' = [work EXCEPT ![w] = StatusIdle]
  /\ statusLock' = IF statusLock = w THEN 0 ELSE statusLock
  /\ UNCHANGED <<container, lists, caches, refresh, bounds>>

(* tries is 1: the job of a worker that has died is not done again. *)
Die(w) ==
  /\ work[w] # StatusIdle /\ Mishap
  /\ work' = [work EXCEPT ![w] = StatusIdle]
  /\ UNCHANGED <<container, status, lists, caches, statusLock, refresh, changes>>

(* expireAfter(30): when its holder is dead, or merely slow. *)
StatusLockExpires ==
  /\ statusLock # 0 /\ work[statusLock] = StatusIdle
  /\ statusLock' = 0
  /\ UNCHANGED <<container, status, lists, caches, work, refresh, bounds>>

LockExpiresEarly ==
  /\ statusLock # 0 /\ work[statusLock] # StatusIdle /\ Mishap
  /\ statusLock' = 0
  /\ UNCHANGED <<container, status, lists, caches, work, refresh, changes>>

(* GetContainersStatus reads the rows, asks Docker and writes. *)
RefreshReads ==
  /\ refresh = StatusIdle /\ Mishap
  /\ refresh' = [list |-> "ask", read |-> status]
  /\ UNCHANGED <<container, status, lists, caches, work, statusLock, changes>>

RefreshAsks ==
  /\ refresh.list = "ask"
  /\ refresh' = [refresh EXCEPT !.list = container]
  /\ UNCHANGED <<container, status, lists, caches, work, statusLock, bounds>>

RefreshWrites ==
  /\ refresh.list \in Containers
  /\ status' = Written(refresh, FALSE)
  /\ refresh' = StatusIdle
  /\ UNCHANGED <<container, lists, caches, work, statusLock, bounds>>

StatusNext ==
  \/ SentinelPushes \/ ForceWindowEnds \/ StatusLockExpires \/ LockExpiresEarly
  \/ RefreshReads \/ RefreshAsks \/ RefreshWrites
  \/ \E c \in Containers : Change(c) \/ Lose(c) \/ Receive(c)
  \/ \E w \in Workers : Write(w) \/ Die(w) \/ \E c \in Containers : Take(w, c)

StatusSpec == StatusInit /\ [][StatusNext]_statusVars

(* Sentinel pushes, windows end, and the server and its workers go on with *)
(* one list or another.                                                    *)
Receives == \E c \in Containers : Receive(c)
Takes == \E w \in Workers, c \in Containers : Take(w, c)
Writes == \E w \in Workers : Write(w)
Refreshes == RefreshAsks \/ RefreshWrites
StatusFairSpec ==
  /\ StatusSpec
  /\ WF_statusVars(SentinelPushes) /\ WF_statusVars(ForceWindowEnds)
  /\ WF_statusVars(StatusLockExpires)
  /\ WF_statusVars(Receives) /\ WF_statusVars(Takes) /\ WF_statusVars(Writes)
  /\ WF_statusVars(Refreshes)

----------------------------------------------------------------------------
(* Once a container stays as it is, the status of its application becomes  *)
(* what the container is and stays it: whatever lists were lost, dropped,  *)
(* overtaken or hidden by the hash, and whoever wrote with a stale copy.   *)
StatusConverges == <>[](status = Shown(container))
=============================================================================
