------------------------- MODULE TaskExecutions_proofs -------------------------
(***************************************************************************)
(* What the rows of a scheduled task tell, and how often its command runs: *)
(* for any number of jobs, tries and mishaps.                              *)
(***************************************************************************)
EXTENDS TaskExecutions, FiniteSetTheorems, TLAPS

(* The rows of a job, and the one it is about to create. *)
Count(j) == Cardinality(RowOf(j))
Pending(j) == IF at[j] = "create" THEN 1 ELSE 0

(* Rows are created one after the other, each by the job that owns it.     *)
Ordered ==
  /\ Latest \in Nat /\ CreatedRows = 1..Latest
  /\ \A r \in TaskRows : owner[r] = 0 <=> rowStatus[r] = "none"
  /\ \A r \in TaskRows : rowStatus[r] = "none" => ~finished[r] /\ outcome[r] = "none"

(* A job creates a row at most once per attempt. *)
Counted ==
  \A j \in Jobs :
    /\ Count(j) + Pending(j) <= attempts[j]
    /\ Count(j) + Pending(j) <= Tries
    /\ at[j] \in {"failing", "expired"} /\ own[j] = 0 => Count(j) < attempts[j]

(* Only a worker has a row, and a job is tried again after a death only.   *)
Died(j) == jobFate[j] \cap {"death", "restart"} # {}
PlacedOf(j) ==
  /\ at[j] = "idle" <=> state[j] # "reserved"
  /\ at[j] \in {"idle", "create"} => own[j] = 0
  /\ at[j] \in {"command", "record", "notify", "catch", "finallyOk", "finallyFailed"}
       => own[j] # 0
  /\ own[j] # 0 => owner[own[j]] = j
  /\ state[j] = "none" => attempts[j] = 0
  /\ state[j] = "queued" /\ attempts[j] > 0 => Died(j)
  /\ attempts[j] > 1 => Died(j)
  /\ at[j] = "expired" \/ (at[j] = "failing" /\ own[j] = 0) => jobFate[j] # {}
  /\ at[j] = "expired" /\ own[j] # 0 => "timeout" \in jobFate[j]
Placed == \A j \in Jobs : PlacedOf(j)

(* What is in a worker's row where it stands. *)
InItsRow ==
  \A j \in Jobs : own[j] # 0 =>
    /\ at[j] = "command" => rowStatus[own[j]] # "success" /\ outcome[own[j]] = "none"
    /\ at[j] \in {"record", "notify", "finallyOk"} => outcome[own[j]] = "ok"
    /\ at[j] \in {"notify", "finallyOk", "finallyFailed", "failing"}
         => rowStatus[own[j]] # "running"
    /\ at[j] \in {"catch", "finallyFailed", "failing"}
         => outcome[own[j]] = "error" \/ jobFate[j] # {}

(* A worker whose row is not the latest one has crossed the job of that. *)
Crossing ==
  \A j \in Jobs :
    /\ \A i \in Jobs : i # j /\ i \in WorkingJobs /\ j \in WorkingJobs => "crossed" \in jobFate[j]
    /\ own[j] # 0 /\ own[j] # Latest =>
         "crossed" \in jobFate[j] /\ "crossed" \in jobFate[owner[Latest]]

(* A row that says other than its command did has an excuse: a mishap of   *)
(* its job, or a job that has lost an attempt before it created a row.     *)
Excused(r) ==
  \/ jobFate[owner[r]] # {}
  \/ \E j \in Jobs : jobFate[j] # {} /\ Count(j) + Pending(j) < attempts[j]
ToldOf(r) ==
  /\ rowStatus[r] = "success" => outcome[r] = "ok"
  /\ rowStatus[r] = "failed" /\ outcome[r] # "error" => Excused(r)
  /\ finished[r] => rowStatus[r] \in {"success", "failed"}
Told == \A r \in TaskRows : ToldOf(r)

Inv ==
  /\ TaskTypeOK /\ Ordered /\ Counted /\ Placed /\ InItsRow /\ Crossing /\ Told
  /\ RunningHasWorker

(* It holds at the beginning.                                              *)
LEMMA InitInv ==
  ASSUME TaskInit
  PROVE  Inv
<1>1. \A j \in Jobs : RowOf(j) = {}
  BY DEF TaskInit, RowOf, Jobs
<1>2. CreatedRows = {}
  BY DEF TaskInit, CreatedRows
<1>3. \A j \in Jobs : Count(j) = 0
  BY <1>1, FS_EmptySet DEF Count
<1>4. Latest = 0
  BY <1>2, FS_EmptySet DEF Latest
<1>5. TaskTypeOK
  BY DEF TaskInit, TaskTypeOK, States, Places, RowStatuses
<1>6. Ordered
  BY <1>2, <1>4 DEF TaskInit, Ordered
<1>7. Counted
  BY <1>3, TaskBounds DEF TaskInit, Counted, Pending
<1>8. Placed /\ InItsRow /\ Crossing /\ Told /\ RunningHasWorker
  BY DEF TaskInit, Placed, PlacedOf, InItsRow, Crossing, Told, ToldOf,
         RunningHasWorker, WorkingJobs
<1>. QED  BY <1>5, <1>6, <1>7, <1>8 DEF Inv

(* What the numbers of jobs and rows are. *)
LEMMA Numbers ==
  /\ \A j \in Jobs : j \in Nat /\ j # 0
  /\ \A r \in TaskRows : r \in Nat /\ r # 0
BY DEF Jobs, TaskRows

(* A step that creates no row: the rows, their number and the excuses stay. *)
LEMMA SameRows ==
  ASSUME TaskTypeOK, Ordered, owner' = owner,
         \A r \in TaskRows : rowStatus'[r] = "none" <=> rowStatus[r] = "none"
  PROVE  /\ \A j : Count(j)' = Count(j)
         /\ Latest' = Latest /\ CreatedRows' = CreatedRows
<1>1. \A j : RowOf(j)' = RowOf(j)
  BY DEF RowOf
<1>2. CreatedRows' = CreatedRows
  BY DEF CreatedRows
<1>. QED  BY <1>1, <1>2 DEF Count, Latest

(* What is counted is a number. *)
LEMMA CountIsNat ==
  ASSUME NEW j
  PROVE  IsFiniteSet(RowOf(j)) /\ Count(j) \in Nat
<1>1. IsFiniteSet(TaskRows)
  BY FS_Interval, TaskBounds DEF TaskRows
<1>. QED  BY <1>1, FS_Subset, FS_CardinalityType DEF RowOf, Count

(* A step that creates no row keeps the counts; if it loses no excuse of   *)
(* an attempt, it keeps the excuses.                                       *)
LEMMA Quiet ==
  ASSUME Inv, owner' = owner,
         \A r \in TaskRows : rowStatus'[r] = "none" <=> rowStatus[r] = "none",
         \A i \in Jobs : jobFate[i] \subseteq jobFate'[i],
         \A i \in Jobs : attempts[i] + Pending(i)' <= attempts'[i] + Pending(i),
         attempts' \in [Jobs -> Nat]
  PROVE  /\ \A i : Count(i)' = Count(i) /\ Count(i) \in Nat
         /\ Latest' = Latest /\ CreatedRows' = CreatedRows
         /\ \A r \in TaskRows : owner[r] # 0 /\ Excused(r) => Excused(r)'
<1>1. /\ \A i : Count(i)' = Count(i) /\ Count(i) \in Nat
      /\ Latest' = Latest /\ CreatedRows' = CreatedRows
  BY SameRows, CountIsNat DEF Inv
<1>2. ASSUME NEW i \in Jobs, Count(i) + Pending(i) < attempts[i]
      PROVE  Count(i)' + Pending(i)' < attempts'[i]
  <2>1. Pending(i) \in Nat /\ Pending(i)' \in Nat
    BY DEF Pending
  <2>. QED  BY <1>1, <1>2, <2>1 DEF Inv, TaskTypeOK
<1>3. ASSUME NEW r \in TaskRows, owner[r] # 0, Excused(r)
      PROVE  Excused(r)'
  BY <1>2, <1>3 DEF Inv, TaskTypeOK, Excused
<1>. QED  BY <1>1, <1>3

(* Who owns the row of a worker. *)
LEMMA OwnRow ==
  ASSUME Inv, NEW j \in Jobs, own[j] # 0
  PROVE  /\ own[j] \in TaskRows /\ owner[own[j]] = j /\ rowStatus[own[j]] # "none"
         /\ \A i \in Jobs : own[i] = own[j] => i = j
BY Numbers DEF Inv, TaskTypeOK, Ordered, Placed, PlacedOf

(* The latest row, if there is one, has an owner. *)
LEMMA LatestRow ==
  ASSUME Inv, Latest # 0
  PROVE  Latest \in TaskRows /\ owner[Latest] \in Jobs /\ rowStatus[Latest] # "none"
<1>1. Latest \in CreatedRows
  BY DEF Inv, Ordered
<1>. QED  BY DEF Inv, TaskTypeOK, Ordered, CreatedRows

(* A row that a step leaves alone tells what it told.                      *)
LEMMA ToldStays ==
  ASSUME Inv, NEW r \in TaskRows, owner' = owner,
         rowStatus'[r] = rowStatus[r], outcome'[r] = outcome[r], finished'[r] = finished[r],
         owner[r] # 0 /\ Excused(r) => Excused(r)'
  PROVE  ToldOf(r)'
BY DEF Inv, Ordered, Told, ToldOf

(* Nobody crosses another but who takes a job or creates a row.            *)
LEMMA CrossingStays ==
  ASSUME Inv, owner' = owner, Latest' = Latest,
         \A i \in Jobs : jobFate[i] \subseteq jobFate'[i],
         WorkingJobs' \subseteq WorkingJobs,
         \A i \in Jobs : own'[i] # 0 => own'[i] = own[i]
  PROVE  Crossing'
<1>1. \A i, j \in Jobs : i # j /\ i \in WorkingJobs' /\ j \in WorkingJobs' => "crossed" \in jobFate'[j]
  BY DEF Inv, Crossing
<1>2. ASSUME NEW j \in Jobs, own'[j] # 0, own'[j] # Latest
      PROVE  "crossed" \in jobFate'[j] /\ "crossed" \in jobFate'[owner[Latest]]
  <2>1. own[j] # 0 /\ own[j] # Latest
    BY <1>2
  <2>2. Latest # 0
    BY <2>1, OwnRow DEF Inv, Ordered, CreatedRows
  <2>3. owner[Latest] \in Jobs
    BY <2>2, LatestRow
  <2>. QED  BY <2>1, <2>3 DEF Inv, Crossing
<1>. QED  BY <1>1, <1>2 DEF Crossing

(* A job is queued.                                                        *)
LEMMA DispatchInv ==
  ASSUME Inv, NEW j \in Jobs, DispatchTask(j)
  PROVE  Inv'
<1>. USE DEF DispatchTask, redis, worker, table, luck
<1>1. TaskTypeOK'
  BY DEF Inv, TaskTypeOK, States
<1>r. \A r \in TaskRows : rowStatus'[r] = "none" <=> rowStatus[r] = "none"
  OBVIOUS
<1>f. \A i \in Jobs : jobFate[i] \subseteq jobFate'[i]
  OBVIOUS
<1>a. \A i \in Jobs : attempts[i] + Pending(i)' <= attempts'[i] + Pending(i)
  BY DEF Inv, TaskTypeOK, Pending
<1>c. /\ \A i : Count(i)' = Count(i) /\ Count(i) \in Nat
      /\ Latest' = Latest /\ CreatedRows' = CreatedRows
      /\ \A r \in TaskRows : owner[r] # 0 /\ Excused(r) => Excused(r)'
  BY <1>1, <1>a, Quiet DEF TaskTypeOK
<1>2. Ordered'
  BY <1>c DEF Inv, Ordered
<1>3. Counted'
  BY <1>c DEF Inv, Counted, Pending
<1>4. Placed'
  BY DEF Inv, Placed, PlacedOf, Died
<1>5. InItsRow'
  BY DEF Inv, InItsRow
<1>6. Crossing'
  BY <1>c, CrossingStays DEF WorkingJobs
<1>7. Told'
  BY <1>c, ToldStays DEF Told
<1>8. RunningHasWorker'
  BY DEF Inv, RunningHasWorker, WorkingJobs
<1>. QED  BY <1>1, <1>2, <1>3, <1>4, <1>5, <1>6, <1>7, <1>8 DEF Inv

(* A worker takes a job, and crosses those at work.                        *)
LEMMA TakeInv ==
  ASSUME Inv, NEW j \in Jobs, Take(j)
  PROVE  Inv'
<1>. USE DEF Take, Move, AfflictJobs, redis, worker, table, luck
<1>1. TaskTypeOK'
  BY DEF Inv, TaskTypeOK, States, Places
<1>r. \A r \in TaskRows : rowStatus'[r] = "none" <=> rowStatus[r] = "none"
  OBVIOUS
<1>f. \A i \in Jobs : jobFate[i] \subseteq jobFate'[i]
  OBVIOUS
<1>a. \A i \in Jobs : attempts[i] + Pending(i)' <= attempts'[i] + Pending(i)
  BY DEF Inv, TaskTypeOK, Pending
<1>c. /\ \A i : Count(i)' = Count(i) /\ Count(i) \in Nat
      /\ Latest' = Latest /\ CreatedRows' = CreatedRows
      /\ \A r \in TaskRows : owner[r] # 0 /\ Excused(r) => Excused(r)'
  BY <1>1, <1>a, Quiet DEF TaskTypeOK
<1>2. Ordered'
  BY <1>c DEF Inv, Ordered
<1>3. Counted'
  BY <1>c, TaskBounds DEF Inv, TaskTypeOK, Counted, Pending
<1>4. Placed'
  <2>1. ASSUME NEW i \in Jobs, i # j PROVE PlacedOf(i)'
    BY <2>1 DEF Inv, Placed, PlacedOf, Died
  <2>2. PlacedOf(j)'
    <3>1. attempts[j] > 0 => jobFate'[j] # {} /\ Died(j)'
      BY DEF Inv, Placed, PlacedOf, Died
    <3>2. at[j] = "idle" /\ own[j] = 0
      BY DEF Inv, Placed, PlacedOf
    <3>3. attempts'[j] = attempts[j] + 1 /\ state'[j] = "reserved" /\ own'[j] = 0
      BY <3>2 DEF Inv, TaskTypeOK
    <3>4. at'[j] = IF attempts[j] < Tries THEN "create" ELSE "expired"
      BY DEF Inv, TaskTypeOK
    <3>5. at'[j] \in {"create", "expired"} /\ (at'[j] = "expired" => attempts[j] > 0)
      BY <3>4, TaskBounds DEF Inv, TaskTypeOK
    <3>6. attempts'[j] > 1 => attempts[j] > 0
      BY <3>3 DEF Inv, TaskTypeOK
    <3>. QED  BY <3>1, <3>3, <3>5, <3>6 DEF PlacedOf
  <2>. QED  BY <2>1, <2>2 DEF Placed
<1>5. InItsRow'
  BY DEF Inv, InItsRow
<1>6. Crossing'
  <2>1. \A i, k \in Jobs : i # k /\ i \in WorkingJobs' /\ k \in WorkingJobs' => "crossed" \in jobFate'[k]
    <3>1. WorkingJobs' = WorkingJobs \cup {j}
      BY DEF Inv, TaskTypeOK, WorkingJobs
    <3>2. \A k \in WorkingJobs \cup {j} : WorkingJobs # {} => "crossed" \in jobFate'[k]
      BY DEF WorkingJobs
    <3>. QED  BY <3>1, <3>2
  <2>2. \A k \in Jobs : own[k] # 0 /\ own[k] # Latest
          => Latest # 0 /\ "crossed" \in jobFate'[k] /\ "crossed" \in jobFate'[owner[Latest]]
    BY LatestRow, OwnRow DEF Inv, Ordered, CreatedRows, Crossing
  <2>. QED  BY <2>1, <2>2, <1>c DEF Crossing
<1>7. Told'
  BY <1>c, ToldStays DEF Told
<1>8. RunningHasWorker'
  BY DEF Inv, TaskTypeOK, RunningHasWorker, Ordered, WorkingJobs
<1>. QED  BY <1>1, <1>2, <1>3, <1>4, <1>5, <1>6, <1>7, <1>8 DEF Inv

(* A job without its context fails without a row.                          *)
LEMMA ContextFailsInv ==
  ASSUME Inv, NEW j \in Jobs, ContextFails(j)
  PROVE  Inv'
<1>. USE DEF ContextFails, Move, StrikeJobs, AfflictJobs, redis, worker, table, luck
<1>1. TaskTypeOK'
  BY DEF Inv, TaskTypeOK, Places
<1>r. \A r \in TaskRows : rowStatus'[r] = "none" <=> rowStatus[r] = "none"
  OBVIOUS
<1>f. \A i \in Jobs : jobFate[i] \subseteq jobFate'[i]
  OBVIOUS
<1>a. \A i \in Jobs : attempts[i] + Pending(i)' <= attempts'[i] + Pending(i)
  BY DEF Inv, TaskTypeOK, Pending
<1>c. /\ \A i : Count(i)' = Count(i) /\ Count(i) \in Nat
      /\ Latest' = Latest /\ CreatedRows' = CreatedRows
      /\ \A r \in TaskRows : owner[r] # 0 /\ Excused(r) => Excused(r)'
  BY <1>1, <1>a, Quiet DEF TaskTypeOK
<1>2. Ordered'
  BY <1>c DEF Inv, Ordered
<1>3. Counted'
  BY <1>c, TaskBounds DEF Inv, TaskTypeOK, Counted, Pending
<1>4. Placed'
  BY DEF Inv, Placed, PlacedOf, Died
<1>5. InItsRow'
  BY DEF Inv, Placed, PlacedOf, InItsRow
<1>6. Crossing'
  BY <1>c, CrossingStays DEF WorkingJobs
<1>7. Told'
  BY <1>c, ToldStays DEF Told
<1>8. RunningHasWorker'
  BY DEF Inv, TaskTypeOK, RunningHasWorker, Ordered, WorkingJobs
<1>. QED  BY <1>1, <1>2, <1>3, <1>4, <1>5, <1>6, <1>7, <1>8 DEF Inv

(* The command ends.                                                       *)
LEMMA CommandInv ==
  ASSUME Inv, NEW j \in Jobs, Command(j)
  PROVE  Inv'
<1>. USE DEF Command, Move, redis, worker, table, luck
<1>o. /\ own[j] \in TaskRows /\ own[j] # 0 /\ owner[own[j]] = j /\ j # 0 /\ rowStatus[own[j]] # "none"
      /\ \A i \in Jobs : own[i] = own[j] => i = j
  BY OwnRow, Numbers DEF Inv, Placed, PlacedOf
<1>1. TaskTypeOK'
  <2>1. outcome' \in [TaskRows -> {"none", "ok", "error"}]
    BY DEF Inv, TaskTypeOK
  <2>. QED  BY <2>1 DEF Inv, TaskTypeOK, Places
<1>r. \A r \in TaskRows : rowStatus'[r] = "none" <=> rowStatus[r] = "none"
  OBVIOUS
<1>f. \A i \in Jobs : jobFate[i] \subseteq jobFate'[i]
  OBVIOUS
<1>a. \A i \in Jobs : attempts[i] + Pending(i)' <= attempts'[i] + Pending(i)
  BY DEF Inv, TaskTypeOK, Pending
<1>c. /\ \A i : Count(i)' = Count(i) /\ Count(i) \in Nat
      /\ Latest' = Latest /\ CreatedRows' = CreatedRows
      /\ \A r \in TaskRows : owner[r] # 0 /\ Excused(r) => Excused(r)'
  BY <1>1, <1>a, Quiet DEF TaskTypeOK
<1>2. Ordered'
  <2>1. \A r \in TaskRows : rowStatus[r] = "none" => outcome'[r] = outcome[r]
    BY <1>o
  <2>. QED  BY <2>1, <1>c DEF Inv, Ordered
<1>3. Counted'
  BY <1>c DEF Inv, Counted, Pending
<1>4. Placed'
  BY DEF Inv, Placed, PlacedOf, Died
<1>5. InItsRow'
  BY DEF Inv, TaskTypeOK, Placed, PlacedOf, InItsRow
<1>6. Crossing'
  BY <1>c, CrossingStays DEF WorkingJobs
<1>7. Told'
  <2> SUFFICES ASSUME NEW r \in TaskRows PROVE ToldOf(r)'
    BY DEF Told
  <2>1. CASE r # own[j]
    BY <2>1, <1>c, ToldStays
  <2>2. CASE r = own[j]
    <3>1. rowStatus[r] = "failed" /\ outcome[r] # "error" => Excused(r)'
      BY <2>2, <1>o, <1>c DEF Inv, Told, ToldOf
    <3>. QED
      BY <2>2, <1>o, <3>1 DEF Inv, Told, ToldOf, InItsRow
  <2>. QED  BY <2>1, <2>2
<1>8. RunningHasWorker'
  BY DEF Inv, RunningHasWorker, WorkingJobs
<1>. QED  BY <1>1, <1>2, <1>3, <1>4, <1>5, <1>6, <1>7, <1>8 DEF Inv

(* Its success is recorded ...                                             *)
LEMMA RecordInv ==
  ASSUME Inv, NEW j \in Jobs, Record(j)
  PROVE  Inv'
<1>. USE DEF Record, Move, redis, worker, table, luck
<1>o. /\ own[j] \in TaskRows /\ own[j] # 0 /\ owner[own[j]] = j /\ j # 0 /\ rowStatus[own[j]] # "none"
      /\ \A i \in Jobs : own[i] = own[j] => i = j
  BY OwnRow, Numbers DEF Inv, Placed, PlacedOf
<1>1. TaskTypeOK'
  BY DEF Inv, TaskTypeOK, Places, RowStatuses
<1>r. \A r \in TaskRows : rowStatus'[r] = "none" <=> rowStatus[r] = "none"
  BY <1>o
<1>f. \A i \in Jobs : jobFate[i] \subseteq jobFate'[i]
  OBVIOUS
<1>a. \A i \in Jobs : attempts[i] + Pending(i)' <= attempts'[i] + Pending(i)
  BY DEF Inv, TaskTypeOK, Pending
<1>c. /\ \A i : Count(i)' = Count(i) /\ Count(i) \in Nat
      /\ Latest' = Latest /\ CreatedRows' = CreatedRows
      /\ \A r \in TaskRows : owner[r] # 0 /\ Excused(r) => Excused(r)'
  BY <1>1, <1>r, <1>a, Quiet DEF TaskTypeOK
<1>2. Ordered'
  BY <1>r, <1>c DEF Inv, Ordered
<1>3. Counted'
  BY <1>c DEF Inv, Counted, Pending
<1>4. Placed'
  BY DEF Inv, Placed, PlacedOf, Died
<1>5. InItsRow'
  BY DEF Inv, TaskTypeOK, InItsRow
<1>6. Crossing'
  BY <1>c, CrossingStays DEF WorkingJobs
<1>7. Told'
  <2> SUFFICES ASSUME NEW r \in TaskRows PROVE ToldOf(r)'
    BY DEF Told
  <2>1. CASE r # own[j]
    BY <2>1, <1>c, ToldStays
  <2>2. CASE r = own[j]
    <3>1. rowStatus[r] = "failed" /\ outcome[r] # "error" => Excused(r)'
      BY <2>2, <1>o, <1>c DEF Inv, Told, ToldOf
    <3>. QED
      BY <2>2, <1>o, <3>1 DEF Inv, Told, ToldOf, InItsRow
  <2>. QED  BY <2>1, <2>2
<1>8. RunningHasWorker'
  BY DEF Inv, RunningHasWorker, WorkingJobs
<1>. QED  BY <1>1, <1>2, <1>3, <1>4, <1>5, <1>6, <1>7, <1>8 DEF Inv

(* ... and told of,                                                        *)
LEMMA NotifyInv ==
  ASSUME Inv, NEW j \in Jobs, Notify(j)
  PROVE  Inv'
<1>. USE DEF Notify, Move, redis, worker, table, luck
<1>1. TaskTypeOK'
  BY DEF Inv, TaskTypeOK, Places
<1>r. \A r \in TaskRows : rowStatus'[r] = "none" <=> rowStatus[r] = "none"
  OBVIOUS
<1>f. \A i \in Jobs : jobFate[i] \subseteq jobFate'[i]
  OBVIOUS
<1>a. \A i \in Jobs : attempts[i] + Pending(i)' <= attempts'[i] + Pending(i)
  BY DEF Inv, TaskTypeOK, Pending
<1>c. /\ \A i : Count(i)' = Count(i) /\ Count(i) \in Nat
      /\ Latest' = Latest /\ CreatedRows' = CreatedRows
      /\ \A r \in TaskRows : owner[r] # 0 /\ Excused(r) => Excused(r)'
  BY <1>1, <1>a, Quiet DEF TaskTypeOK
<1>2. Ordered'
  BY <1>c DEF Inv, Ordered
<1>3. Counted'
  BY <1>c DEF Inv, Counted, Pending
<1>4. Placed'
  BY DEF Inv, Placed, PlacedOf, Died
<1>5. InItsRow'
  BY DEF Inv, InItsRow
<1>6. Crossing'
  BY <1>c, CrossingStays DEF WorkingJobs
<1>7. Told'
  BY <1>c, ToldStays DEF Told
<1>8. RunningHasWorker'
  BY DEF Inv, RunningHasWorker, WorkingJobs
<1>. QED  BY <1>1, <1>2, <1>3, <1>4, <1>5, <1>6, <1>7, <1>8 DEF Inv

(* or the notification throws.                                             *)
LEMMA NotifyThrowsInv ==
  ASSUME Inv, NEW j \in Jobs, NotifyThrows(j)
  PROVE  Inv'
<1>. USE DEF NotifyThrows, Move, StrikeJobs, AfflictJobs, redis, worker, table, luck
<1>1. TaskTypeOK'
  BY DEF Inv, TaskTypeOK, Places
<1>r. \A r \in TaskRows : rowStatus'[r] = "none" <=> rowStatus[r] = "none"
  OBVIOUS
<1>f. \A i \in Jobs : jobFate[i] \subseteq jobFate'[i]
  OBVIOUS
<1>a. \A i \in Jobs : attempts[i] + Pending(i)' <= attempts'[i] + Pending(i)
  BY DEF Inv, TaskTypeOK, Pending
<1>c. /\ \A i : Count(i)' = Count(i) /\ Count(i) \in Nat
      /\ Latest' = Latest /\ CreatedRows' = CreatedRows
      /\ \A r \in TaskRows : owner[r] # 0 /\ Excused(r) => Excused(r)'
  BY <1>1, <1>a, Quiet DEF TaskTypeOK
<1>2. Ordered'
  BY <1>c DEF Inv, Ordered
<1>3. Counted'
  BY <1>c DEF Inv, Counted, Pending
<1>4. Placed'
  BY DEF Inv, Placed, PlacedOf, Died
<1>5. InItsRow'
  BY DEF Inv, InItsRow
<1>6. Crossing'
  BY <1>c, CrossingStays DEF WorkingJobs
<1>7. Told'
  BY <1>c, ToldStays DEF Told
<1>8. RunningHasWorker'
  BY DEF Inv, TaskTypeOK, RunningHasWorker, Ordered, WorkingJobs
<1>. QED  BY <1>1, <1>2, <1>3, <1>4, <1>5, <1>6, <1>7, <1>8 DEF Inv

(* A failure is recorded.                                                  *)
LEMMA CatchInv ==
  ASSUME Inv, NEW j \in Jobs, Catch(j)
  PROVE  Inv'
<1>. USE DEF Catch, Move, redis, worker, table, luck
<1>o. /\ own[j] \in TaskRows /\ own[j] # 0 /\ owner[own[j]] = j /\ j # 0 /\ rowStatus[own[j]] # "none"
      /\ \A i \in Jobs : own[i] = own[j] => i = j
  BY OwnRow, Numbers DEF Inv, Placed, PlacedOf
<1>1. TaskTypeOK'
  BY DEF Inv, TaskTypeOK, Places, RowStatuses
<1>r. \A r \in TaskRows : rowStatus'[r] = "none" <=> rowStatus[r] = "none"
  BY <1>o
<1>f. \A i \in Jobs : jobFate[i] \subseteq jobFate'[i]
  OBVIOUS
<1>a. \A i \in Jobs : attempts[i] + Pending(i)' <= attempts'[i] + Pending(i)
  BY DEF Inv, TaskTypeOK, Pending
<1>c. /\ \A i : Count(i)' = Count(i) /\ Count(i) \in Nat
      /\ Latest' = Latest /\ CreatedRows' = CreatedRows
      /\ \A r \in TaskRows : owner[r] # 0 /\ Excused(r) => Excused(r)'
  BY <1>1, <1>r, <1>a, Quiet DEF TaskTypeOK
<1>2. Ordered'
  BY <1>r, <1>c DEF Inv, Ordered
<1>3. Counted'
  BY <1>c DEF Inv, Counted, Pending
<1>4. Placed'
  BY DEF Inv, Placed, PlacedOf, Died
<1>5. InItsRow'
  BY DEF Inv, TaskTypeOK, InItsRow
<1>6. Crossing'
  BY <1>c, CrossingStays DEF WorkingJobs
<1>7. Told'
  <2> SUFFICES ASSUME NEW r \in TaskRows PROVE ToldOf(r)'
    BY DEF Told
  <2>1. CASE r # own[j]
    BY <2>1, <1>c, ToldStays
  <2>2. CASE r = own[j]
    <3>1. outcome[r] = "error" \/ Excused(r)
      BY <2>2, <1>o DEF Inv, InItsRow, Excused
    <3>. QED  BY <2>2, <1>o, <1>c, <3>1 DEF Inv, TaskTypeOK, ToldOf
  <2>. QED  BY <2>1, <2>2
<1>8. RunningHasWorker'
  BY DEF Inv, RunningHasWorker, WorkingJobs
<1>. QED  BY <1>1, <1>2, <1>3, <1>4, <1>5, <1>6, <1>7, <1>8 DEF Inv

(* handle() ends,                                                          *)
LEMMA FinallyInv ==
  ASSUME Inv, NEW j \in Jobs, Finally(j)
  PROVE  Inv'
<1>. USE DEF Finally, Leave, Move, redis, worker, table, luck
<1>o. /\ own[j] \in TaskRows /\ own[j] # 0 /\ owner[own[j]] = j /\ j # 0 /\ rowStatus[own[j]] # "none"
      /\ \A i \in Jobs : own[i] = own[j] => i = j
  BY OwnRow, Numbers DEF Inv, Placed, PlacedOf
<1>1. TaskTypeOK'
  <2>1. finished' \in [TaskRows -> BOOLEAN]
    BY DEF Inv, TaskTypeOK
  <2>. QED  BY <2>1 DEF Inv, TaskTypeOK, States, Places
<1>r. \A r \in TaskRows : rowStatus'[r] = "none" <=> rowStatus[r] = "none"
  OBVIOUS
<1>f. \A i \in Jobs : jobFate[i] \subseteq jobFate'[i]
  OBVIOUS
<1>a. \A i \in Jobs : attempts[i] + Pending(i)' <= attempts'[i] + Pending(i)
  BY DEF Inv, TaskTypeOK, Pending
<1>c. /\ \A i : Count(i)' = Count(i) /\ Count(i) \in Nat
      /\ Latest' = Latest /\ CreatedRows' = CreatedRows
      /\ \A r \in TaskRows : owner[r] # 0 /\ Excused(r) => Excused(r)'
  BY <1>1, <1>a, Quiet DEF TaskTypeOK
<1>2. Ordered'
  <2>1. \A r \in TaskRows : rowStatus[r] = "none" => finished'[r] = finished[r]
    BY <1>o DEF Inv, TaskTypeOK
  <2>. QED  BY <2>1, <1>c DEF Inv, Ordered
<1>3. Counted'
  BY <1>c DEF Inv, TaskTypeOK, Counted, Placed, PlacedOf, Pending
<1>4. Placed'
  BY DEF Inv, TaskTypeOK, Placed, PlacedOf, Died
<1>5. InItsRow'
  BY DEF Inv, TaskTypeOK, InItsRow
<1>6. Crossing'
  BY <1>c, CrossingStays DEF Inv, TaskTypeOK, WorkingJobs
<1>7. Told'
  <2> SUFFICES ASSUME NEW r \in TaskRows PROVE ToldOf(r)'
    BY DEF Told
  <2>1. CASE r # own[j]
    BY <2>1, <1>c, ToldStays DEF Inv, TaskTypeOK
  <2>2. CASE r = own[j]
    <3>1. rowStatus[r] = "failed" /\ outcome[r] # "error" => Excused(r)'
      BY <2>2, <1>o, <1>c DEF Inv, Told, ToldOf
    <3>. QED
      BY <2>2, <1>o, <3>1 DEF Inv, TaskTypeOK, RowStatuses, Told, ToldOf, InItsRow
  <2>. QED  BY <2>1, <2>2
<1>8. RunningHasWorker'
  BY DEF Inv, TaskTypeOK, RunningHasWorker, WorkingJobs, InItsRow, Placed, PlacedOf
<1>. QED  BY <1>1, <1>2, <1>3, <1>4, <1>5, <1>6, <1>7, <1>8 DEF Inv

(* or its event throws.                                                    *)
LEMMA FinallyThrowsInv ==
  ASSUME Inv, NEW j \in Jobs, FinallyThrows(j)
  PROVE  Inv'
<1>. USE DEF FinallyThrows, Move, StrikeJobs, AfflictJobs, redis, worker, table, luck
<1>1. TaskTypeOK'
  BY DEF Inv, TaskTypeOK, Places
<1>r. \A r \in TaskRows : rowStatus'[r] = "none" <=> rowStatus[r] = "none"
  OBVIOUS
<1>f. \A i \in Jobs : jobFate[i] \subseteq jobFate'[i]
  OBVIOUS
<1>a. \A i \in Jobs : attempts[i] + Pending(i)' <= attempts'[i] + Pending(i)
  BY DEF Inv, TaskTypeOK, Pending
<1>c. /\ \A i : Count(i)' = Count(i) /\ Count(i) \in Nat
      /\ Latest' = Latest /\ CreatedRows' = CreatedRows
      /\ \A r \in TaskRows : owner[r] # 0 /\ Excused(r) => Excused(r)'
  BY <1>1, <1>a, Quiet DEF TaskTypeOK
<1>2. Ordered'
  BY <1>c DEF Inv, Ordered
<1>3. Counted'
  BY <1>c DEF Inv, Counted, Placed, PlacedOf, Pending
<1>4. Placed'
  BY DEF Inv, Placed, PlacedOf, Died
<1>5. InItsRow'
  BY DEF Inv, InItsRow
<1>6. Crossing'
  BY <1>c, CrossingStays DEF WorkingJobs
<1>7. Told'
  BY <1>c, ToldStays DEF Told
<1>8. RunningHasWorker'
  BY DEF Inv, TaskTypeOK, RunningHasWorker, Ordered, WorkingJobs
<1>. QED  BY <1>1, <1>2, <1>3, <1>4, <1>5, <1>6, <1>7, <1>8 DEF Inv

(* failed() takes its own row or the latest one.                           *)
LEMMA FailedInv ==
  ASSUME Inv, NEW j \in Jobs, Failed(j)
  PROVE  Inv'
<1>. USE DEF Failed, Leave, Move, redis, worker, table, luck
<1>0. PICK t : /\ t = Latest \/ (at[j] = "failing" /\ own[j] # 0 /\ t = own[j])
               /\ IF t = 0 THEN UNCHANGED <<rowStatus, finished>>
                  ELSE /\ rowStatus' = [rowStatus EXCEPT ![t] = "failed"]
                       /\ finished' = [finished EXCEPT ![t] = TRUE]
  OBVIOUS
<1>o. t # 0 => t \in TaskRows /\ owner[t] \in Jobs /\ owner[t] # 0 /\ rowStatus[t] # "none"
  BY <1>0, LatestRow, OwnRow, Numbers
<1>1. TaskTypeOK'
  BY <1>0 DEF Inv, TaskTypeOK, States, Places, RowStatuses
<1>r. \A r \in TaskRows : rowStatus'[r] = "none" <=> rowStatus[r] = "none"
  BY <1>0, <1>o DEF Inv, TaskTypeOK
<1>f. \A i \in Jobs : jobFate[i] \subseteq jobFate'[i]
  OBVIOUS
<1>a. \A i \in Jobs : attempts[i] + Pending(i)' <= attempts'[i] + Pending(i)
  BY DEF Inv, TaskTypeOK, Pending
<1>c. /\ \A i : Count(i)' = Count(i) /\ Count(i) \in Nat
      /\ Latest' = Latest /\ CreatedRows' = CreatedRows
      /\ \A r \in TaskRows : owner[r] # 0 /\ Excused(r) => Excused(r)'
  BY <1>1, <1>r, <1>a, Quiet DEF TaskTypeOK
<1>2. Ordered'
  <2>1. \A r \in TaskRows : rowStatus[r] = "none" => finished'[r] = finished[r]
    BY <1>0, <1>o DEF Inv, TaskTypeOK
  <2>. QED  BY <2>1, <1>c DEF Inv, TaskTypeOK, Ordered
<1>3. Counted'
  BY <1>c DEF Inv, TaskTypeOK, Counted, Pending
<1>4. Placed'
  BY DEF Inv, TaskTypeOK, Placed, PlacedOf, Died
<1>5. InItsRow'
  BY <1>0 DEF Inv, TaskTypeOK, InItsRow
<1>6. Crossing'
  BY <1>c, CrossingStays DEF WorkingJobs
<1>7. Told'
  <2> SUFFICES ASSUME NEW r \in TaskRows PROVE ToldOf(r)'
    BY DEF Told
  <2>1. CASE t = 0 \/ r # t
    BY <1>0, <2>1, <1>c, ToldStays DEF Inv, TaskTypeOK
  <2>2. CASE t # 0 /\ r = t
    <3>1. t = own[j] => outcome[t] = "error" \/ Excused(t)
      <4>1. t = own[j] => outcome[t] = "error" \/ jobFate[j] # {}
        BY <2>2 DEF Inv, Placed, PlacedOf, InItsRow
      <4>. QED  BY <4>1, <2>2, OwnRow DEF Excused
    <3>2. t # own[j] /\ own[j] # 0 => Excused(t)
      BY <1>0 DEF Inv, Crossing, Excused
    <3>3. own[j] = 0 => Excused(t)
      <4>1. own[j] = 0 => jobFate[j] # {} /\ Count(j) + Pending(j) < attempts[j]
        BY <1>c DEF Inv, Placed, PlacedOf, Counted, Pending
      <4>. QED  BY <4>1 DEF Excused
    <3>4. outcome[t] = "error" \/ Excused(t)
      BY <3>1, <3>2, <3>3
    <3>. QED  BY <1>0, <1>o, <1>c, <2>2, <3>4 DEF Inv, TaskTypeOK, ToldOf
  <2>. QED  BY <2>1, <2>2
<1>8. RunningHasWorker'
  <2> SUFFICES ASSUME NEW r \in TaskRows, rowStatus'[r] = "running"
               PROVE  \/ \E i \in WorkingJobs' : own'[i] = r
                      \/ "death" \in jobFate'[owner[r]]
                      \/ {"timeout", "crossed"} \subseteq jobFate'[owner[r]]
    BY DEF RunningHasWorker
  <2>1. rowStatus[r] = "running" /\ (t = 0 \/ r # t)
    BY <1>0 DEF Inv, TaskTypeOK
  <2>2. CASE own[j] = r
    <3>1. at[j] = "expired" /\ own[j] # 0 /\ owner[r] = j
      BY <2>1, <2>2, OwnRow, Numbers DEF Inv, InItsRow
    <3>2. own[j] # Latest
      BY <1>0, <2>1, <2>2, <3>1
    <3>. QED  BY <3>1, <3>2 DEF Inv, Placed, PlacedOf, Crossing
  <2>3. CASE own[j] # r
    <3>1. \A i \in WorkingJobs : own[i] = r => i \in WorkingJobs' /\ own'[i] = r
      BY <2>3 DEF WorkingJobs
    <3>. QED  BY <2>1, <3>1 DEF Inv, RunningHasWorker
  <2>. QED  BY <2>2, <2>3
<1>. QED  BY <1>1, <1>2, <1>3, <1>4, <1>5, <1>6, <1>7, <1>8 DEF Inv

(* The time of the command is over.                                        *)
LEMMA TimeoutInv ==
  ASSUME Inv, NEW j \in Jobs, TaskTimeout(j)
  PROVE  Inv'
<1>. USE DEF TaskTimeout, Move, StrikeJobs, AfflictJobs, redis, worker, table, luck
<1>o. /\ own[j] \in TaskRows /\ own[j] # 0 /\ owner[own[j]] = j /\ j # 0 /\ rowStatus[own[j]] # "none"
      /\ \A i \in Jobs : own[i] = own[j] => i = j
  BY OwnRow, Numbers DEF Inv, Placed, PlacedOf
<1>1. TaskTypeOK'
  <2>1. outcome' \in [TaskRows -> {"none", "ok", "error"}]
    BY DEF Inv, TaskTypeOK
  <2>. QED  BY <2>1 DEF Inv, TaskTypeOK, Places
<1>r. \A r \in TaskRows : rowStatus'[r] = "none" <=> rowStatus[r] = "none"
  OBVIOUS
<1>f. \A i \in Jobs : jobFate[i] \subseteq jobFate'[i]
  OBVIOUS
<1>a. \A i \in Jobs : attempts[i] + Pending(i)' <= attempts'[i] + Pending(i)
  BY DEF Inv, TaskTypeOK, Pending
<1>c. /\ \A i : Count(i)' = Count(i) /\ Count(i) \in Nat
      /\ Latest' = Latest /\ CreatedRows' = CreatedRows
      /\ \A r \in TaskRows : owner[r] # 0 /\ Excused(r) => Excused(r)'
  BY <1>1, <1>a, Quiet DEF TaskTypeOK
<1>2. Ordered'
  <2>1. \A r \in TaskRows : rowStatus[r] = "none" => outcome'[r] = outcome[r]
    BY <1>o
  <2>. QED  BY <2>1, <1>c DEF Inv, Ordered
<1>3. Counted'
  BY <1>c DEF Inv, Counted, Placed, PlacedOf, Pending
<1>4. Placed'
  BY DEF Inv, Placed, PlacedOf, Died
<1>5. InItsRow'
  BY DEF Inv, TaskTypeOK, Placed, PlacedOf, InItsRow
<1>6. Crossing'
  BY <1>c, CrossingStays DEF WorkingJobs
<1>7. Told'
  <2> SUFFICES ASSUME NEW r \in TaskRows PROVE ToldOf(r)'
    BY DEF Told
  <2>1. CASE r # own[j]
    BY <2>1, <1>c, ToldStays
  <2>2. CASE r = own[j]
    BY <2>2, <1>o DEF Inv, Told, ToldOf, InItsRow, Excused
  <2>. QED  BY <2>1, <2>2
<1>8. RunningHasWorker'
  BY DEF Inv, TaskTypeOK, RunningHasWorker, Ordered, WorkingJobs
<1>. QED  BY <1>1, <1>2, <1>3, <1>4, <1>5, <1>6, <1>7, <1>8 DEF Inv

(* A worker dies.                                                          *)
LEMMA DieInv ==
  ASSUME Inv, NEW j \in Jobs, WorkerDies(j)
  PROVE  Inv'
<1>. USE DEF WorkerDies, Leave, Move, StrikeJobs, AfflictJobs, redis, worker, table, luck
<1>1. TaskTypeOK'
  BY DEF Inv, TaskTypeOK, States, Places
<1>r. \A r \in TaskRows : rowStatus'[r] = "none" <=> rowStatus[r] = "none"
  OBVIOUS
<1>f. \A i \in Jobs : jobFate[i] \subseteq jobFate'[i]
  OBVIOUS
<1>a. \A i \in Jobs : attempts[i] + Pending(i)' <= attempts'[i] + Pending(i)
  BY DEF Inv, TaskTypeOK, Pending
<1>c. /\ \A i : Count(i)' = Count(i) /\ Count(i) \in Nat
      /\ Latest' = Latest /\ CreatedRows' = CreatedRows
      /\ \A r \in TaskRows : owner[r] # 0 /\ Excused(r) => Excused(r)'
  BY <1>1, <1>a, Quiet DEF TaskTypeOK
<1>2. Ordered'
  BY <1>c DEF Inv, Ordered
<1>3. Counted'
  BY <1>c, TaskBounds DEF Inv, TaskTypeOK, Counted, Pending
<1>4. Placed'
  BY DEF Inv, TaskTypeOK, Placed, PlacedOf, Died
<1>5. InItsRow'
  BY DEF Inv, InItsRow
<1>6. Crossing'
  BY <1>c, CrossingStays DEF WorkingJobs
<1>7. Told'
  BY <1>c, ToldStays DEF Told
<1>8. RunningHasWorker'
  <2> SUFFICES ASSUME NEW r \in TaskRows, rowStatus'[r] = "running"
               PROVE  \/ \E i \in WorkingJobs' : own'[i] = r
                      \/ "death" \in jobFate'[owner[r]]
                      \/ {"timeout", "crossed"} \subseteq jobFate'[owner[r]]
    BY DEF RunningHasWorker
  <2>1. owner[r] \in Jobs
    BY DEF Inv, TaskTypeOK, Ordered
  <2>2. CASE own[j] = r
    BY <2>2, OwnRow, Numbers
  <2>3. CASE own[j] # r
    <3>1. \A i \in WorkingJobs : own[i] = r => i \in WorkingJobs' /\ own'[i] = r
      BY <2>3 DEF WorkingJobs
    <3>. QED  BY <2>1, <3>1 DEF Inv, RunningHasWorker
  <2>. QED  BY <2>2, <2>3
<1>. QED  BY <1>1, <1>2, <1>3, <1>4, <1>5, <1>6, <1>7, <1>8 DEF Inv

(* Coolify restarts.                                                       *)
LEMMA RestartInv ==
  ASSUME Inv, TaskRestart
  PROVE  Inv'
<1>. USE DEF TaskRestart, StrikeJobs, AfflictJobs, redis, worker, table, luck
<1>1. TaskTypeOK'
  BY DEF Inv, TaskTypeOK, States, Places, RowStatuses
<1>r. \A r \in TaskRows : rowStatus'[r] = "none" <=> rowStatus[r] = "none"
  OBVIOUS
<1>f. \A i \in Jobs : jobFate[i] \subseteq jobFate'[i]
  OBVIOUS
<1>a. \A i \in Jobs : attempts[i] + Pending(i)' <= attempts'[i] + Pending(i)
  BY DEF Inv, TaskTypeOK, Pending
<1>c. /\ \A i : Count(i)' = Count(i) /\ Count(i) \in Nat
      /\ Latest' = Latest /\ CreatedRows' = CreatedRows
      /\ \A r \in TaskRows : owner[r] # 0 /\ Excused(r) => Excused(r)'
  BY <1>1, <1>a, Quiet DEF TaskTypeOK
<1>2. Ordered'
  BY <1>c DEF Inv, Ordered
<1>3. Counted'
  BY <1>c, TaskBounds DEF Inv, TaskTypeOK, Counted, Pending
<1>4. Placed'
  BY DEF Inv, Placed, PlacedOf, Died, WorkingJobs
<1>5. InItsRow'
  BY DEF InItsRow
<1>6. Crossing'
  BY <1>c, CrossingStays DEF WorkingJobs
<1>7. Told'
  <2> SUFFICES ASSUME NEW r \in TaskRows PROVE ToldOf(r)'
    BY DEF Told
  <2>1. CASE rowStatus[r] # "running"
    BY <2>1, <1>c, ToldStays DEF Inv, TaskTypeOK
  <2>2. CASE rowStatus[r] = "running"
    <3>1. owner[r] \in Jobs
      BY <2>2 DEF Inv, TaskTypeOK, Ordered
    <3>2. jobFate'[owner[r]] # {}
      <4>1. CASE \E i \in WorkingJobs : own[i] = r
        <5>1. owner[r] \in WorkingJobs
          BY <4>1, OwnRow, Numbers DEF WorkingJobs
        <5>. QED  BY <3>1, <5>1
      <4>2. CASE jobFate[owner[r]] # {}
        BY <3>1, <4>2
      <4>. QED  BY <2>2, <4>1, <4>2 DEF Inv, RunningHasWorker
    <3>. QED  BY <2>2, <3>2 DEF ToldOf, Excused
  <2>. QED  BY <2>1, <2>2
<1>8. RunningHasWorker'
  BY DEF RunningHasWorker
<1>. QED  BY <1>1, <1>2, <1>3, <1>4, <1>5, <1>6, <1>7, <1>8 DEF Inv

(* Jobs with so many tries have so many rows.                              *)
LEMMA RowsFit ==
  ASSUME NEW n \in Nat, NEW f \in [1..n -> Jobs],
         \A i \in Jobs : Cardinality({r \in 1..n : f[r] = i}) <= Tries
  PROVE  n <= MaxJobs * Tries
<1>. DEFINE upto(r) == {s \in 1..r : f[s] = f[r]}
            g == [r \in 1..n |-> <<f[r], Cardinality(upto(r))>>]
<1>1. \A i \in Jobs : IsFiniteSet({r \in 1..n : f[r] = i})
  BY FS_Interval, FS_Subset
<1>2. ASSUME NEW r \in 1..n
      PROVE  IsFiniteSet(upto(r)) /\ Cardinality(upto(r)) \in 1..Tries
  <2>1. upto(r) \subseteq {s \in 1..n : f[s] = f[r]} /\ r \in upto(r) /\ f[r] \in Jobs
    OBVIOUS
  <2>2. /\ IsFiniteSet(upto(r))
        /\ Cardinality(upto(r)) <= Cardinality({s \in 1..n : f[s] = f[r]})
    BY <1>1, <2>1, FS_Subset
  <2>3. Cardinality(upto(r)) \in Nat /\ Cardinality(upto(r)) # 0
    BY <2>1, <2>2, FS_CardinalityType, FS_EmptySet
  <2>4. Cardinality({s \in 1..n : f[s] = f[r]}) \in Nat
    BY <1>1, <2>1, FS_CardinalityType
  <2>. QED  BY <2>1, <2>2, <2>3, <2>4, TaskBounds
<1>3. ASSUME NEW r \in 1..n, NEW s \in 1..n, r < s, f[r] = f[s]
      PROVE  Cardinality(upto(r)) # Cardinality(upto(s))
  <2>1. upto(r) \subseteq upto(s) /\ s \in upto(s) /\ s \notin upto(r)
    BY <1>3
  <2>. QED  BY <1>2, <2>1, FS_Subset
<1>4. g \in Injection(1..n, Jobs \X (1..Tries))
  <2>1. g \in [1..n -> Jobs \X (1..Tries)]
    BY <1>2
  <2>2. ASSUME NEW r \in 1..n, NEW s \in 1..n, g[r] = g[s]  PROVE r = s
    <3>1. f[r] = f[s] /\ Cardinality(upto(r)) = Cardinality(upto(s))
      BY <2>2
    <3>. QED  BY <1>3, <3>1
  <2>. QED  BY <2>1, <2>2 DEF Injection, IsInjective
<1>5. /\ IsFiniteSet(Jobs) /\ Cardinality(Jobs) = MaxJobs
      /\ IsFiniteSet(1..Tries) /\ Cardinality(1..Tries) = Tries
  BY FS_Interval, TaskBounds DEF Jobs
<1>6. /\ IsFiniteSet(Jobs \X (1..Tries))
      /\ Cardinality(Jobs \X (1..Tries)) = MaxJobs * Tries
  BY <1>5, FS_Product
<1>7. Cardinality(1..n) = n
  BY FS_Interval
<1>. HIDE DEF g
<1>. QED  BY <1>4, <1>6, <1>7, FS_Injection

(* There is a place for the row that a job is about to create.             *)
LEMMA NextRow ==
  ASSUME Inv, NEW j \in Jobs, at[j] = "create"
  PROVE  Latest + 1 \in TaskRows /\ rowStatus[Latest + 1] = "none" /\ owner[Latest + 1] = 0
<1>. DEFINE n == Latest + 1
            f == [r \in 1..n |-> IF r = n THEN j ELSE owner[r]]
<1>1. Latest \in Nat /\ n \in Nat /\ CreatedRows = 1..Latest /\ n \notin CreatedRows
  BY DEF Inv, Ordered
<1>2. \A r \in 1..n : r # n => r \in TaskRows /\ owner[r] \in Jobs
  BY DEF Inv, TaskTypeOK, Ordered, CreatedRows
<1>3. f \in [1..n -> Jobs]
  BY <1>2
<1>4. ASSUME NEW i \in Jobs
      PROVE  Cardinality({r \in 1..n : f[r] = i}) <= Tries
  <2>1. \A r \in RowOf(i) : r \in 1..n /\ r # n
    BY Numbers DEF Inv, Ordered, CreatedRows, RowOf
  <2>2. IsFiniteSet(RowOf(i)) /\ Count(i) \in Nat
    BY CountIsNat
  <2>3. Count(i) <= Tries /\ (i = j => Count(i) + 1 <= Tries)
    BY <2>2, TaskBounds DEF Inv, Counted, Pending
  <2>4. CASE i = j
    <3>1. {r \in 1..n : f[r] = i} = RowOf(i) \cup {n}
      BY <1>1, <1>2, <2>1, <2>4 DEF RowOf
    <3>. QED  BY <2>1, <2>2, <2>3, <2>4, <3>1, FS_AddElement DEF Count
  <2>5. CASE i # j
    <3>1. {r \in 1..n : f[r] = i} = RowOf(i)
      BY <1>2, <2>1, <2>5 DEF RowOf
    <3>. QED  BY <2>3, <3>1 DEF Count
  <2>. QED  BY <2>4, <2>5
<1>. HIDE DEF f
<1>5. n <= MaxJobs * Tries
  BY <1>1, <1>3, <1>4, RowsFit
<1>6. MaxJobs * Tries \in Nat
  BY TaskBounds
<1>7. n \in TaskRows
  BY <1>1, <1>5, <1>6 DEF TaskRows
<1>. QED  BY <1>7 DEF Inv, Ordered, CreatedRows

(* A job creates its row, which is the latest one.                         *)
LEMMA CreateInv ==
  ASSUME Inv, NEW j \in Jobs, Create(j)
  PROVE  Inv'
<1>. DEFINE n == Latest + 1
<1>n. n \in TaskRows /\ rowStatus[n] = "none" /\ owner[n] = 0 /\ n # 0 /\ Latest \in Nat
  BY NextRow DEF Inv, Ordered, Create
<1>s. /\ rowStatus' = [rowStatus EXCEPT ![n] = "running"] /\ owner' = [owner EXCEPT ![n] = j]
      /\ own' = [own EXCEPT ![j] = n] /\ at' = [at EXCEPT ![j] = "command"]
      /\ at[j] = "create" /\ own[j] = 0
      /\ UNCHANGED <<state, attempts, finished, outcome, jobFate, taskMishaps>>
  BY DEF Create, Move, redis, luck, Inv, Placed, PlacedOf
<1>. HIDE DEF n
<1>1. TaskTypeOK'
  BY <1>n, <1>s DEF Inv, TaskTypeOK, Places, RowStatuses
<1>c. /\ \A i \in Jobs : Count(i) \in Nat /\ (i # j => Count(i)' = Count(i))
      /\ Count(j)' = Count(j) + 1
  <2>1. RowOf(j)' = RowOf(j) \cup {n} /\ n \notin RowOf(j)
    BY <1>n, <1>s, Numbers DEF Inv, TaskTypeOK, RowOf
  <2>2. \A i \in Jobs : i # j => RowOf(i)' = RowOf(i)
    BY <1>n, <1>s, Numbers DEF RowOf
  <2>. QED  BY <2>1, <2>2, CountIsNat, FS_AddElement DEF Count
<1>l. CreatedRows' = 1..n /\ Latest' = n
  <2>1. CreatedRows' = CreatedRows \cup {n}
    BY <1>n, <1>s DEF Inv, TaskTypeOK, CreatedRows
  <2>2. CreatedRows' = 1..n
    BY <1>n, <2>1 DEF n, Inv, Ordered
  <2>. QED  BY <1>n, <2>2, FS_Interval DEF n, Latest
<1>2. Ordered'
  <2>1. n \in Nat
    BY <1>n DEF n
  <2>. QED  BY <2>1, <1>n, <1>s, <1>l, Numbers DEF Inv, TaskTypeOK, Ordered
<1>3. Counted'
  BY <1>c, <1>n, <1>s DEF Inv, TaskTypeOK, Counted, Pending
<1>4. Placed'
  BY <1>n, <1>s, OwnRow DEF Inv, TaskTypeOK, Placed, PlacedOf, Died
<1>5. InItsRow'
  BY <1>n, <1>s, OwnRow DEF Inv, InItsRow, Ordered
<1>6. Crossing'
  <2>1. \A i \in Jobs : i \in WorkingJobs' <=> i \in WorkingJobs
    BY <1>s DEF WorkingJobs
  <2>2. \A i \in Jobs : own[i] # 0 => i \in WorkingJobs
    BY DEF Inv, Placed, PlacedOf, WorkingJobs
  <2>3. j \in WorkingJobs
    BY <1>s DEF WorkingJobs
  <2>4. owner'[n] = j
    BY <1>n, <1>s DEF Inv, TaskTypeOK
  <2>5. ASSUME NEW i \in Jobs, own'[i] # 0, own'[i] # n
        PROVE  "crossed" \in jobFate[i] /\ "crossed" \in jobFate[j]
    <3>1. i # j /\ own[i] # 0
      BY <1>s, <2>5
    <3>. QED  BY <2>2, <2>3, <3>1 DEF Inv, Crossing
  <2>. QED  BY <1>s, <1>l, <2>1, <2>4, <2>5 DEF Inv, Crossing
<1>7. Told'
  <2> SUFFICES ASSUME NEW r \in TaskRows PROVE ToldOf(r)'
    BY DEF Told
  <2>1. CASE r = n
    BY <1>n, <1>s, <2>1 DEF Inv, Ordered, ToldOf
  <2>2. CASE r # n
    <3>1. rowStatus'[r] = rowStatus[r] /\ owner'[r] = owner[r]
      BY <1>s, <2>2
    <3>2. \A i \in Jobs : Count(i) + Pending(i) < attempts[i]
                          => Count(i)' + Pending(i)' < attempts'[i]
      BY <1>c, <1>s DEF Inv, TaskTypeOK, Pending
    <3>3. Excused(r) => Excused(r)'
      BY <1>s, <3>1, <3>2 DEF Excused
    <3>. QED  BY <1>s, <3>1, <3>3 DEF Inv, Told, ToldOf
  <2>. QED  BY <2>1, <2>2
<1>8. RunningHasWorker'
  <2> SUFFICES ASSUME NEW r \in TaskRows, rowStatus'[r] = "running"
               PROVE  \/ \E i \in WorkingJobs' : own'[i] = r
                      \/ "death" \in jobFate'[owner'[r]]
                      \/ {"timeout", "crossed"} \subseteq jobFate'[owner'[r]]
    BY DEF RunningHasWorker
  <2>1. CASE r = n
    BY <1>s, <2>1 DEF Inv, TaskTypeOK, WorkingJobs
  <2>2. CASE r # n
    <3>1. rowStatus[r] = "running" /\ owner'[r] = owner[r] /\ r # 0
      BY <1>s, <2>2, Numbers
    <3>2. \A i \in WorkingJobs : own[i] = r => i \in WorkingJobs' /\ own'[i] = r
      BY <1>s, <3>1 DEF WorkingJobs
    <3>. QED  BY <1>s, <3>1, <3>2 DEF Inv, RunningHasWorker
  <2>. QED  BY <2>1, <2>2
<1>. QED  BY <1>1, <1>2, <1>3, <1>4, <1>5, <1>6, <1>7, <1>8 DEF Inv

(* A stutter changes none of it. *)
LEMMA StutterInv ==
  ASSUME Inv, UNCHANGED taskVars
  PROVE  Inv'
<1>. USE DEF taskVars, redis, worker, table, luck
<1>1. /\ \A i : Count(i)' = Count(i)
      /\ Latest' = Latest /\ CreatedRows' = CreatedRows
  BY SameRows DEF Inv
<1>2. TaskTypeOK' /\ Ordered' /\ RunningHasWorker'
  BY <1>1 DEF Inv, TaskTypeOK, Ordered, RunningHasWorker, WorkingJobs
<1>3. Counted' /\ Placed' /\ InItsRow'
  BY <1>1 DEF Inv, Counted, Pending, Placed, PlacedOf, Died, InItsRow
<1>4. Crossing' /\ Told'
  BY <1>1 DEF Inv, Crossing, WorkingJobs, Told, ToldOf, Excused, Pending
<1>. QED  BY <1>2, <1>3, <1>4 DEF Inv

(* No step breaks the invariant. *)
LEMMA StepInv ==
  ASSUME Inv, [TaskNext]_taskVars
  PROVE  Inv'
BY DispatchInv, TakeInv, CreateInv, ContextFailsInv, CommandInv, RecordInv,
   NotifyInv, NotifyThrowsInv, CatchInv, FinallyInv, FinallyThrowsInv,
   FailedInv, TimeoutInv, DieInv, RestartInv, StutterInv
   DEF TaskNext

(* The invariant holds in every state. *)
LEMMA AlwaysInv == TaskSpec => []Inv
BY InitInv, StepInv, PTL DEF TaskSpec

(* The command of a job runs once, whatever fails, is late or throws, and  *)
(* more often only when a worker died with the job ($tries,                *)
(* $maxExceptions, handle(), failed()).                                    *)
THEOREM CommandsRunOnce == TaskSpec => []RunsOnce
<1>1. Inv => RunsOnce
  <2> SUFFICES ASSUME Inv, NEW j \in Jobs, Cardinality(Ran(j)) > 1
               PROVE  jobFate[j] \cap {"death", "restart"} # {}
    BY DEF RunsOnce
  <2>1. IsFiniteSet(RowOf(j)) /\ Count(j) \in Nat
    BY CountIsNat
  <2>2. IsFiniteSet(Ran(j)) /\ Cardinality(Ran(j)) <= Count(j)
    BY <2>1, FS_Subset DEF Ran, Count
  <2>3. Cardinality(Ran(j)) \in Nat
    BY <2>2, FS_CardinalityType
  <2>4. attempts[j] \in Nat /\ Count(j) <= attempts[j]
    BY <2>1 DEF Inv, TaskTypeOK, Counted, Pending
  <2>5. attempts[j] > 1
    BY <2>1, <2>2, <2>3, <2>4
  <2>. QED  BY <2>5 DEF Inv, Placed, PlacedOf, Died
<1>. QED  BY <1>1, AlwaysInv, PTL

(* A row that says "running" has a worker, unless its worker died, or its  *)
(* time was over when another job had the latest row (failed(), app:init). *)
THEOREM RunningRowsAreServed == TaskSpec => []RunningHasWorker
<1>1. Inv => RunningHasWorker
  BY DEF Inv
<1>. QED  BY <1>1, AlwaysInv, PTL

(* What a finished row says is what its command did, unless a mishap of    *)
(* its job or of one without a row excuses it (handle(), failed()).        *)
THEOREM RowsTellTheTruth == TaskSpec => []RowTellsOutcome
<1>1. Inv => RowTellsOutcome
  <2> SUFFICES ASSUME Inv, NEW r \in TaskRows
               PROVE  /\ rowStatus[r] = "success" => outcome[r] = "ok"
                      /\ finished[r] /\ outcome[r] = "ok" => rowStatus[r] = "success" \/ Misled(r)
    BY DEF RowTellsOutcome
  <2>1. Excused(r) => Misled(r)
    <3>1. ASSUME NEW j \in Jobs, Count(j) + Pending(j) < attempts[j]
          PROVE  Cardinality(RowOf(j)) < attempts[j]
      BY <3>1, CountIsNat DEF Count, Pending, Inv, TaskTypeOK
    <3>. QED  BY <3>1 DEF Excused, Misled
  <2>. QED  BY <2>1 DEF Inv, Told, ToldOf
<1>. QED  BY <1>1, AlwaysInv, PTL
=============================================================================
