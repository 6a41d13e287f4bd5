------------------------ MODULE DatabaseBackups_proofs -------------------------
(***************************************************************************)
(* The newest successful backup keeps its copy: for any number of jobs,    *)
(* rows and mishaps, whatever the settings.                                *)
(***************************************************************************)
EXTENDS DatabaseBackups, FiniteSetTheorems, TLAPS

(* The lock lets one job at a time work; only a job at work has a row.     *)
Exclusive ==
  /\ \A j \in Jobs : stage[j] # "idle" => lock = "held"
  /\ \A i, j \in Jobs : stage[i] # "idle" /\ stage[j] # "idle" => i = j
  /\ \A j \in Jobs : stage[j] = "idle" => backupRow[j] = 0
  /\ stage[Cleanup] \notin Making

(* What the columns and the histories say of each other. *)
Rowwise ==
  /\ \A r \in BackupRows : rowStatus[r] = "success" => r <= newest
  /\ \A s \in Stores : \A r \in marked[s] : rowStatus[r] \notin {"none", "running"}
  /\ \A r \in stale \cup byUser : rowStatus[r] # "none"
  /\ deleting # 0 => deleting \in byUser

(* The row of a backup that is being made has not been written yet, and    *)
(* the copies it is about to tell of are there; unless a user deletes it.  *)
Fresh == {"dump", "upload", "drop", "record"}
Told(j) ==
  \/ ~dropped[j] /\ backupRow[j] \in has["local"]
  \/ dropped[j] /\ onlyS3 /\ upload[j] = "yes" /\ backupRow[j] \in has["s3"]
InTheMaking ==
  \A j \in Jobs :
    /\ stage[j] \in Fresh =>
         /\ backupRow[j] \in BackupRows /\ backupRow[j] \notin stale
         /\ \/ rowStatus[backupRow[j]] = "running"
            \/ rowStatus[backupRow[j]] = "gone" /\ backupRow[j] \in byUser
    /\ stage[j] \in {"dump", "upload", "drop"} => ~dropped[j]
    /\ backupRow[j] \notin byUser =>
         /\ stage[j] = "upload" => backupRow[j] \in has["local"]
         /\ stage[j] = "drop" => upload[j] = "yes" /\ onlyS3 /\ backupRow[j] \in has["s3"]
         /\ stage[j] = "record" => Told(j)

(* Retention removes what has a newer backup, or one of the same second.   *)
VictimsAreOld ==
  \A w \in Sweepers : \A r \in victims[w] :
    /\ r =< newest /\ (r = newest => r \in tied)
    /\ rowStatus[r] \notin {"none", "running"}

Inv ==
  BackupTypeOK /\ Exclusive /\ Rowwise /\ InTheMaking /\ VictimsAreOld /\ NewestIsKept

(* It holds at the beginning.                                              *)
LEMMA InitInv ==
  ASSUME BackupInit
  PROVE  Inv
<1>1. BackupTypeOK
  BY DEF BackupInit, Sweepers, Stores, BackupTypeOK
<1>2. Exclusive /\ Rowwise /\ InTheMaking /\ VictimsAreOld
  BY DEF BackupInit, Exclusive, Rowwise, InTheMaking, Fresh, VictimsAreOld,
         Sweepers, Making, Cleanup
<1>3. NewestIsKept
  BY DEF BackupInit, NewestIsKept
<1>. QED  BY <1>1, <1>2, <1>3 DEF Inv

(* What the numbers of workers and rows are. *)
LEMMA Numbers ==
  /\ Cleanup \in Sweepers
  /\ \A j \in Jobs : j \in Sweepers /\ j # Cleanup
  /\ \A w \in Sweepers : w = Cleanup \/ w \in Jobs
  /\ \A r \in BackupRows : r \in Nat /\ r # 0
BY DEF Jobs, Sweepers, Cleanup, BackupRows

(* Who forgets keeps the types. *)
WorkerTypes ==
  /\ stage \in [Sweepers -> {"idle"} \cup Making \cup Sweeping]
  /\ left \in [Jobs -> Nat] /\ backupRow \in [Jobs -> BackupRows \cup {0}]
  /\ upload \in [Jobs -> {"null", "yes", "no"}] /\ dropped \in [Jobs -> BOOLEAN]
  /\ store \in [Sweepers -> Stores] /\ victims \in [Sweepers -> SUBSET BackupRows]

LEMMA ForgetsTypes ==
  ASSUME BackupTypeOK, NEW gone, Forgets(gone)
  PROVE  WorkerTypes'
BY DEF BackupTypeOK, Forgets, Stores, WorkerTypes

(* A worker takes a job.                                                   *)
LEMMA TakeInv ==
  ASSUME Inv, NEW j \in Jobs, Take(j)
  PROVE  Inv'
<1>. USE DEF Take, Move, plan, loop, sweep, table, times, user, best
<1>1. BackupTypeOK'
  BY DEF Inv, BackupTypeOK, Making
<1>2. Exclusive'
  BY Numbers DEF Inv, Exclusive
<1>3. Rowwise'
  BY DEF Inv, Rowwise
<1>4. InTheMaking'
  BY DEF Inv, Exclusive, InTheMaking, Fresh
<1>5. VictimsAreOld'
  BY DEF Inv, VictimsAreOld
<1>6. NewestIsKept'
  BY DEF Inv, NewestIsKept, CopyAt
<1>. QED  BY <1>1, <1>2, <1>3, <1>4, <1>5, <1>6 DEF Inv

(* A job begins, or leaves its schedule alone.                             *)
LEMMA BeginInv ==
  ASSUME Inv, NEW j \in Jobs, BeginBackup(j)
  PROVE  Inv'
<1>t. Leave(j) => WorkerTypes'
  BY ForgetsTypes DEF Inv, Leave
<1>. USE DEF BeginBackup, plan, loop, sweep, table, times, user, best
<1>1. BackupTypeOK'
  <2>1. CASE Leave(j)
    BY <2>1, <1>t DEF Leave, WorkerTypes, Inv, BackupTypeOK
  <2>2. CASE ~Leave(j)
    <3>1. PICK n \in 1..Databases : left' = [left EXCEPT ![j] = n]
      BY <2>2
    <3>4. left' \in [Jobs -> Nat]
      BY <3>1, BackupBounds DEF Inv, BackupTypeOK
    <3>2. stage' \in [Sweepers -> {"idle"} \cup Making \cup Sweeping]
      BY <2>2 DEF Inv, BackupTypeOK, Making, Move
    <3>3. rowStatus' \in [BackupRows -> {"none", "running", "success", "failed", "gone"}]
      BY <2>2 DEF Inv, BackupTypeOK
    <3>. QED  BY <2>2, <3>2, <3>3, <3>4 DEF Inv, BackupTypeOK
  <2>. QED  BY <2>1, <2>2
<1>2. Exclusive'
  <2>1. CASE Leave(j)
    BY <2>1, Numbers DEF Leave, Forgets, Inv, Exclusive
  <2>2. CASE ~Leave(j)
    BY <2>2, Numbers DEF Move, Inv, BackupTypeOK, Exclusive
  <2>. QED  BY <2>1, <2>2
<1>3. Rowwise'
  BY DEF Inv, BackupTypeOK, Rowwise
<1>4. InTheMaking'
  <2>1. CASE Leave(j)
    BY <2>1, Numbers DEF Leave, Forgets, Inv, Exclusive, InTheMaking, Fresh
  <2>2. CASE ~Leave(j)
    BY <2>2, Numbers DEF Move, Inv, BackupTypeOK, Exclusive, InTheMaking, Fresh
  <2>. QED  BY <2>1, <2>2
<1>5. VictimsAreOld'
  <2>1. CASE Leave(j)
    BY <2>1 DEF Leave, Forgets, Inv, BackupTypeOK, VictimsAreOld
  <2>2. CASE ~Leave(j)
    BY <2>2 DEF Move, Inv, BackupTypeOK, VictimsAreOld
  <2>. QED  BY <2>1, <2>2
<1>6. NewestIsKept'
  BY DEF Inv, BackupTypeOK, NewestIsKept, CopyAt
<1>. QED  BY <1>1, <1>2, <1>3, <1>4, <1>5, <1>6 DEF Inv

(* A new row has no copy, and none is told of.                             *)
LEMMA CreateInv ==
  ASSUME Inv, NEW j \in Jobs, Create(j)
  PROVE  Inv'
<1>. USE DEF Create, Move, Strike, plan, loop, sweep, table, times, user, best
<1>1. BackupTypeOK'
  BY Numbers DEF Inv, BackupTypeOK, Making
<1>2. Exclusive'
  BY Numbers DEF Inv, Exclusive
<1>3. Rowwise'
  BY DEF Inv, Rowwise
<1>4. InTheMaking'
  BY DEF Inv, BackupTypeOK, Exclusive, Rowwise, InTheMaking
<1>5. VictimsAreOld'
  BY DEF Inv, VictimsAreOld
<1>6. NewestIsKept'
  BY DEF Inv, NewestIsKept, CopyAt
<1>. QED  BY <1>1, <1>2, <1>3, <1>4, <1>5, <1>6 DEF Inv

(* The dump leaves the local copy, or the job gives the row up.            *)
LEMMA DumpInv ==
  ASSUME Inv, NEW j \in Jobs, Dump(j)
  PROVE  Inv'
<1>r. backupRow[j] \in BackupRows
  BY DEF Inv, InTheMaking, Fresh, Dump
<1>. USE DEF Dump, Move, plan, loop, sweep, table, times, user, best
<1>1. BackupTypeOK'
  <2>1. stage' \in [Sweepers -> {"idle"} \cup Making \cup Sweeping]
    BY <1>r DEF Inv, BackupTypeOK, Making
  <2>2. has' \in [Stores -> SUBSET BackupRows]
    BY <1>r DEF Inv, BackupTypeOK
  <2>. QED  BY <2>1, <2>2 DEF Inv, BackupTypeOK
<1>2. Exclusive'
  BY Numbers DEF Inv, BackupTypeOK, Exclusive
<1>3. Rowwise'
  BY DEF Inv, Rowwise
<1>4. InTheMaking'
  BY Numbers DEF Inv, BackupTypeOK, InTheMaking, Told, Fresh, Stores
<1>5. VictimsAreOld'
  BY DEF Inv, VictimsAreOld
<1>6. NewestIsKept'
  BY DEF Inv, BackupTypeOK, NewestIsKept, CopyAt, Stores
<1>. QED  BY <1>1, <1>2, <1>3, <1>4, <1>5, <1>6 DEF Inv

(* A row that cannot be created changes nothing. *)
LEMMA CreateFailsInv ==
  ASSUME Inv, NEW j \in Jobs, CreateFails(j)
  PROVE  Inv'
<1>. USE DEF CreateFails, Move, Strike, plan, loop, sweep, table, times, user, best
<1>1. BackupTypeOK'
  <2>1. left[j] \in Nat /\ left[j] - 1 \in Nat
    BY DEF Inv, BackupTypeOK
  <2>2. stage' \in [Sweepers -> {"idle"} \cup Making \cup Sweeping]
    BY DEF Inv, BackupTypeOK, Making
  <2>3. left' \in [Jobs -> Nat] /\ backupMishaps' \in Nat
    BY <2>1 DEF Inv, BackupTypeOK
  <2>. QED  BY <2>2, <2>3 DEF Inv, BackupTypeOK
<1>2. Exclusive'
  BY Numbers DEF Inv, Exclusive
<1>3. Rowwise'
  BY DEF Inv, Rowwise
<1>4. InTheMaking'
  BY Numbers DEF Inv, BackupTypeOK, InTheMaking, Told, Fresh
<1>5. VictimsAreOld'
  BY DEF Inv, VictimsAreOld
<1>6. NewestIsKept'
  BY DEF Inv, NewestIsKept, CopyAt
<1>. QED  BY <1>1, <1>2, <1>3, <1>4, <1>5, <1>6 DEF Inv

(* What is recorded as failed is nobody's newest backup, or overwritten.   *)
LEMMA CatchInv ==
  ASSUME Inv, NEW j \in Jobs, Catch(j)
  PROVE  Inv'
<1>. DEFINE r == backupRow[j]
<1>1. CASE r # 0 /\ Exists(r)
  <2>r. r \in BackupRows /\ rowStatus[r] \notin {"none", "gone"}
    BY <1>1 DEF Inv, BackupTypeOK, Exists
  <2>s. /\ rowStatus' = [rowStatus EXCEPT ![r] = "failed"]
        /\ uploaded' = [uploaded EXCEPT ![r] = "null"] /\ named' = named \ {r}
        /\ overwritten' = overwritten \cup IF rowStatus[r] = "success" THEN {r} ELSE {}
    BY <1>1 DEF Catch
  <2>. USE DEF Catch, Move, plan, loop, sweep, times, user
  <2>1. BackupTypeOK'
    BY <2>r, <2>s DEF Inv, BackupTypeOK, Making
  <2>2. Exclusive'
    BY Numbers DEF Inv, Exclusive
  <2>3. Rowwise'
    BY <2>r, <2>s DEF Inv, BackupTypeOK, Rowwise
  <2>4. InTheMaking'
    BY <2>r, <2>s, Numbers DEF Inv, BackupTypeOK, Exclusive, InTheMaking, Fresh
  <2>5. VictimsAreOld'
    BY <2>r, <2>s, Numbers DEF Inv, BackupTypeOK, VictimsAreOld
  <2>6. NewestIsKept'
    BY <2>r, <2>s DEF Inv, BackupTypeOK, NewestIsKept, CopyAt
  <2>. QED  BY <2>1, <2>2, <2>3, <2>4, <2>5, <2>6 DEF Inv
<1>2. CASE ~(r # 0 /\ Exists(r))
  <2>s. UNCHANGED <<rowStatus, uploaded, named, overwritten>>
    BY <1>2 DEF Catch
  <2>. USE <2>s DEF Catch, Move, plan, loop, sweep, times, user
  <2>1. BackupTypeOK'
    BY DEF Inv, BackupTypeOK, Making
  <2>2. Exclusive'
    BY Numbers DEF Inv, Exclusive
  <2>3. Rowwise'
    BY DEF Inv, Rowwise
  <2>4. InTheMaking'
    BY Numbers DEF Inv, BackupTypeOK, Exclusive, InTheMaking, Fresh
  <2>5. VictimsAreOld'
    BY DEF Inv, VictimsAreOld
  <2>6. NewestIsKept'
    BY DEF Inv, NewestIsKept, CopyAt
  <2>. QED  BY <2>1, <2>2, <2>3, <2>4, <2>5, <2>6 DEF Inv
<1>. QED  BY <1>1, <1>2

(* The upload leaves the local copy alone.                                 *)
LEMMA UploadInv ==
  ASSUME Inv, NEW j \in Jobs, Upload(j)
  PROVE  Inv'
<1>. USE DEF Upload, Move, Strike, plan, loop, sweep, table, times, user, best
<1>1. BackupTypeOK'
  <2>1. stage' \in [Sweepers -> {"idle"} \cup Making \cup Sweeping]
    BY DEF Inv, BackupTypeOK, Making
  <2>2. has' \in [Stores -> SUBSET BackupRows] /\ upload' \in [Jobs -> {"null", "yes", "no"}]
    BY DEF Inv, BackupTypeOK, Stores
  <2>3. saves' \in BOOLEAN
    BY DEF Inv, BackupTypeOK
  <2>4. backupMishaps' \in Nat
    BY DEF Inv, BackupTypeOK
  <2>. QED  BY <2>1, <2>2, <2>3, <2>4 DEF Inv, BackupTypeOK
<1>2. Exclusive'
  BY Numbers DEF Inv, BackupTypeOK, Exclusive
<1>3. Rowwise'
  BY DEF Inv, Rowwise
<1>4. InTheMaking'
  BY Numbers DEF Inv, BackupTypeOK, InTheMaking, Told, Fresh, Stores
<1>5. VictimsAreOld'
  BY DEF Inv, VictimsAreOld
<1>6. NewestIsKept'
  BY DEF Inv, BackupTypeOK, NewestIsKept, CopyAt, Stores
<1>. QED  BY <1>1, <1>2, <1>3, <1>4, <1>5, <1>6 DEF Inv

(* A local copy is dropped when the one in S3 is there.                    *)
LEMMA DropInv ==
  ASSUME Inv, NEW j \in Jobs, Drop(j)
  PROVE  Inv'
<1>. USE DEF Drop, Move, plan, loop, sweep, table, times, user, best
<1>1. BackupTypeOK'
  BY DEF Inv, BackupTypeOK, Making
<1>2. Exclusive'
  BY Numbers DEF Inv, Exclusive
<1>3. Rowwise'
  BY DEF Inv, Rowwise
<1>4. InTheMaking'
  BY Numbers DEF Inv, BackupTypeOK, Exclusive, InTheMaking, Told, Fresh
<1>5. VictimsAreOld'
  BY DEF Inv, VictimsAreOld
<1>6. NewestIsKept'
  BY DEF Inv, InTheMaking, Fresh, NewestIsKept, CopyAt
<1>. QED  BY <1>1, <1>2, <1>3, <1>4, <1>5, <1>6 DEF Inv

(* A row that records a success has the copy it tells of.                  *)
LEMMA RecordInv ==
  ASSUME Inv, NEW j \in Jobs, Record(j)
  PROVE  Inv'
<1>. DEFINE r == backupRow[j]
<1>r. /\ r \in BackupRows /\ r \notin stale
      /\ rowStatus[r] = "running" \/ (rowStatus[r] = "gone" /\ r \in byUser)
  BY DEF Inv, InTheMaking, Fresh, Record
<1>s. /\ Exists(r) => rowStatus' = [rowStatus EXCEPT ![r] = "success"]
      /\ ~Exists(r) => rowStatus' = rowStatus
  BY DEF Record
<1>. USE DEF Record, Move, Exists, plan, loop, sweep, table, times, user, best
<1>1. BackupTypeOK'
  <2>1. stage' \in [Sweepers -> {"idle"} \cup Making \cup Sweeping]
    BY <1>r, <1>s DEF Inv, BackupTypeOK, Making, Sweeping
  <2>2. store' \in [Sweepers -> Stores]
    BY <1>r, <1>s DEF Inv, BackupTypeOK, Stores
  <2>3. marked' \in [Stores -> SUBSET BackupRows]
    BY <1>r, <1>s DEF Inv, BackupTypeOK
  <2>4. uploaded' \in [BackupRows -> {"null", "yes", "no"}]
    BY <1>r, <1>s DEF Inv, BackupTypeOK
  <2>5. rowStatus' \in [BackupRows -> {"none", "running", "success", "failed", "gone"}]
    BY <1>r, <1>s DEF Inv, BackupTypeOK
  <2>6. newest' \in BackupRows \cup {0}
    BY <1>r, <1>s DEF Inv, BackupTypeOK
  <2>. QED  BY <2>1, <2>2, <2>3, <2>4, <2>5, <2>6 DEF Inv, BackupTypeOK
<1>2. Exclusive'
  BY <1>r, <1>s, Numbers DEF Inv, BackupTypeOK, Exclusive
<1>3. Rowwise'
  <2>1. \A x \in BackupRows : rowStatus'[x] = "success" => x \leq newest'
    BY <1>r, <1>s, Numbers DEF Inv, BackupTypeOK, Rowwise
  <2>2. \A s \in Stores, x \in BackupRows :
          x \in marked'[s] => rowStatus'[x] \notin {"none", "running"}
    BY <1>r, <1>s DEF Inv, BackupTypeOK, Rowwise
  <2>3. \A x \in stale \cup byUser : rowStatus'[x] # "none"
    BY <1>r, <1>s DEF Inv, BackupTypeOK, Rowwise
  <2>. QED  BY <1>1, <2>1, <2>2, <2>3 DEF Inv, BackupTypeOK, Rowwise
<1>4. InTheMaking'
  <2>1. CASE Exists(r)
    BY <1>r, <1>s, <2>1, Numbers DEF Inv, BackupTypeOK, Exclusive, InTheMaking, Fresh
  <2>2. CASE ~Exists(r)
    BY <1>r, <1>s, <2>2, Numbers DEF Inv, BackupTypeOK, Exclusive, InTheMaking
  <2>. QED  BY <2>1, <2>2
<1>5. VictimsAreOld'
  <2>1. CASE Exists(r)
    BY <1>r, <1>s, <2>1, Numbers DEF Inv, BackupTypeOK, VictimsAreOld
  <2>2. CASE ~Exists(r)
    BY <1>r, <1>s, <2>2 DEF Inv, VictimsAreOld
  <2>. QED  BY <2>1, <2>2
<1>6. NewestIsKept'
  <2>1. CASE Exists(r)
    BY <1>r, <1>s, <2>1 DEF Inv, BackupTypeOK, Rowwise, InTheMaking, Told,
           NewestIsKept, CopyAt, Stores
  <2>2. CASE ~Exists(r)
    BY <1>r, <1>s, <2>2 DEF Inv, NewestIsKept, CopyAt
  <2>. QED  BY <2>1, <2>2
<1>. QED  BY <1>1, <1>2, <1>3, <1>4, <1>5, <1>6 DEF Inv

(* A job without a last success ends.                                      *)
LEMMA FinishInv ==
  ASSUME Inv, NEW j \in Jobs, Finish(j)
  PROVE  Inv'
<1>1. BackupTypeOK'
  <2>1. WorkerTypes'
    BY ForgetsTypes DEF Inv, Finish, Leave
  <2>2. backupMishaps' \in Nat /\ lock' \in {"free", "held", "lost"}
    BY DEF Inv, BackupTypeOK, Finish, Leave, Strike
  <2>. QED  BY <2>1, <2>2 DEF Finish, Leave, WorkerTypes,
                   plan, table, times, user, best, Inv, BackupTypeOK
<1>. USE DEF Finish, Move, Leave, Forgets, plan, loop, sweep, table, times, user, best
<1>2. Exclusive'
  BY Numbers DEF Inv, Exclusive
<1>3. Rowwise'
  BY DEF Inv, Rowwise
<1>4. InTheMaking'
  BY Numbers DEF Inv, Exclusive, InTheMaking, Fresh
<1>5. VictimsAreOld'
  BY DEF Inv, VictimsAreOld
<1>6. NewestIsKept'
  BY DEF Inv, NewestIsKept, CopyAt
<1>. QED  BY <1>1, <1>2, <1>3, <1>4, <1>5, <1>6 DEF Inv

(* The clean-up begins.                                                    *)
LEMMA EnforceRetentionInv ==
  ASSUME Inv, EnforceRetention
  PROVE  Inv'
<1>. USE DEF EnforceRetention, Move, plan, loop, sweep, table, times, user, best
<1>1. BackupTypeOK'
  BY DEF Inv, BackupTypeOK, Sweeping, Stores
<1>2. Exclusive'
  BY Numbers DEF Inv, Exclusive, Making
<1>3. Rowwise'
  BY DEF Inv, Rowwise
<1>4. InTheMaking'
  BY Numbers DEF Inv, InTheMaking, Told
<1>5. VictimsAreOld'
  BY DEF Inv, VictimsAreOld
<1>6. NewestIsKept'
  BY DEF Inv, NewestIsKept, CopyAt
<1>. QED  BY <1>1, <1>2, <1>3, <1>4, <1>5, <1>6 DEF Inv

(* Who is beyond the newest backup is not newer than one that stays. *)
LEMMA BeyondIsOld ==
  ASSUME Inv, NEW s \in Stores, NEW n \in Kept(s),
         NEW old \in Beyond(Candidates(s), n), NEW r \in old
  PROVE  /\ r \in BackupRows /\ rowStatus[r] = "success"
         /\ r =< newest /\ (r = newest => r \in tied)
<1>1. n \in Nat /\ n >= 1
  BY BackupBounds DEF Kept, Most
<1>2. PICK y \in Candidates(s) \ old : ~Newer(r, y)
  <2>1. Cardinality(Candidates(s) \ old) = n /\ \A y \in Candidates(s) \ old : ~Newer(r, y)
    BY DEF Beyond
  <2>2. Candidates(s) \ old # {}
    BY <1>1, <2>1, FS_EmptySet
  <2>. QED  BY <2>1, <2>2
<1>3. /\ r \in BackupRows /\ rowStatus[r] = "success" /\ y \in BackupRows /\ r # y
      /\ r =< newest /\ y =< newest
  BY <1>2 DEF Beyond, Candidates, Inv, Rowwise
<1>4. r = newest => r \in tied
  BY <1>2, <1>3, Numbers DEF Newer
<1>. QED  BY <1>3, <1>4

(* Retention selects what is old, in every case.                           *)
LEMMA SelectInv ==
  ASSUME Inv, NEW w \in Sweepers, Select(w)
  PROVE  Inv'
<1>0. PICK n \in Kept(store[w]) : \E old \in Beyond(Candidates(store[w]), n) :
        IF ~Applies(store[w]) \/ old = {}
        THEN NextStore(w) /\ UNCHANGED victims
        ELSE /\ victims' = [victims EXCEPT ![w] = old]
             /\ Move(w, "remove") /\ UNCHANGED store
  BY DEF Select
<1>1. PICK old \in Beyond(Candidates(store[w]), n) :
        IF ~Applies(store[w]) \/ old = {}
        THEN NextStore(w) /\ UNCHANGED victims
        ELSE /\ victims' = [victims EXCEPT ![w] = old]
             /\ Move(w, "remove") /\ UNCHANGED store
  BY <1>0
<1>2. \A r \in old : /\ r \in BackupRows /\ rowStatus[r] = "success"
                     /\ r =< newest /\ (r = newest => r \in tied)
  BY BeyondIsOld DEF Inv, BackupTypeOK
<1>3. \/ victims' = victims
      \/ victims' = [victims EXCEPT ![w] = old]
  BY <1>1
<1>4. \E place \in Sweeping : stage' = [stage EXCEPT ![w] = place]
  BY <1>1 DEF NextStore, Move, Sweeping
<1>5. store' \in [Sweepers -> Stores]
  BY <1>1 DEF NextStore, Inv, BackupTypeOK, Stores
<1>. USE DEF Select, plan, loop, sweep, table, times, user, best
<1>6. BackupTypeOK'
  <2>1. victims' \in [Sweepers -> SUBSET BackupRows]
    BY <1>2, <1>3 DEF Inv, BackupTypeOK
  <2>2. stage' \in [Sweepers -> {"idle"} \cup Making \cup Sweeping]
    BY <1>4 DEF Inv, BackupTypeOK
  <2>. QED  BY <1>5, <2>1, <2>2 DEF Inv, BackupTypeOK
<1>7. Exclusive'
  BY <1>4 DEF Inv, Exclusive, Making, Sweeping
<1>8. Rowwise'
  BY DEF Inv, Rowwise
<1>9. InTheMaking'
  BY <1>4 DEF Inv, InTheMaking, Told, Fresh, Sweeping
<1>10. VictimsAreOld'
  BY <1>2, <1>3 DEF Inv, BackupTypeOK, VictimsAreOld
<1>11. NewestIsKept'
  BY DEF Inv, NewestIsKept, CopyAt
<1>. QED  BY <1>6, <1>7, <1>8, <1>9, <1>10, <1>11 DEF Inv

(* What retention removes is old.                                          *)
LEMMA RemoveInv ==
  ASSUME Inv, NEW w \in Sweepers, Remove(w)
  PROVE  Inv'
<1>. USE DEF Remove, Move, plan, loop, sweep, table, times, user, best
<1>1. BackupTypeOK'
  BY DEF Inv, BackupTypeOK, Sweeping
<1>2. Exclusive'
  BY DEF Inv, Exclusive, Making
<1>3. Rowwise'
  BY DEF Inv, Rowwise
<1>4. InTheMaking'
  BY DEF Inv, InTheMaking, Told, Fresh, VictimsAreOld
<1>5. VictimsAreOld'
  BY DEF Inv, VictimsAreOld
<1>6. NewestIsKept'
  BY Numbers DEF Inv, BackupTypeOK, VictimsAreOld, NewestIsKept, CopyAt
<1>. QED  BY <1>1, <1>2, <1>3, <1>4, <1>5, <1>6 DEF Inv

(* What is not removed is there.                                           *)
LEMMA RemoveFailsInv ==
  ASSUME Inv, NEW w \in Sweepers, RemoveFails(w)
  PROVE  Inv'
<1>r. stage[w] = "drop" => w \in Jobs
  BY Numbers DEF Inv, Exclusive, Making
<1>. USE DEF RemoveFails, Move, Strike, plan, loop, sweep, table, times, user, best
<1>1. BackupTypeOK'
  <2>1. stage' \in [Sweepers -> {"idle"} \cup Making \cup Sweeping]
    BY <1>r DEF Inv, BackupTypeOK, Making, Sweeping
  <2>2. dropped' \in [Jobs -> BOOLEAN]
    BY <1>r DEF Inv, BackupTypeOK
  <2>3. backupMishaps' \in Nat
    BY <1>r DEF Inv, BackupTypeOK
  <2>. QED  BY <2>1, <2>2, <2>3 DEF Inv, BackupTypeOK
<1>2. Exclusive'
  <2>1. CASE stage[w] = "drop"
    BY <1>r, <2>1, Numbers DEF Inv, BackupTypeOK, Exclusive
  <2>2. CASE stage[w] = "remove"
    BY <1>r, <2>2, Numbers DEF Inv, BackupTypeOK, Exclusive, Making
  <2>. QED  BY <2>1, <2>2
<1>3. Rowwise'
  BY DEF Inv, Rowwise
<1>4. InTheMaking'
  <2>1. CASE stage[w] = "drop"
    BY <1>r, <2>1, Numbers DEF Inv, BackupTypeOK, InTheMaking, Told, Fresh
  <2>2. CASE stage[w] = "remove"
    BY <1>r, <2>2, Numbers DEF Inv, BackupTypeOK, InTheMaking, Told, Fresh
  <2>. QED  BY <2>1, <2>2
<1>5. VictimsAreOld'
  BY DEF Inv, VictimsAreOld
<1>6. NewestIsKept'
  BY DEF Inv, NewestIsKept, CopyAt
<1>. QED  BY <1>1, <1>2, <1>3, <1>4, <1>5, <1>6 DEF Inv

(* What retention marks is old.                                            *)
LEMMA MarkInv ==
  ASSUME Inv, NEW w \in Sweepers, MarkDeleted(w)
  PROVE  Inv'
<1>. USE DEF MarkDeleted, Move, NextStore, Exists, plan, loop, sweep, table, times, user, best
<1>1. BackupTypeOK'
  <2>1. stage' \in [Sweepers -> {"idle"} \cup Making \cup Sweeping]
    BY DEF Inv, BackupTypeOK, Sweeping
  <2>2. store' \in [Sweepers -> Stores]
    BY DEF Inv, BackupTypeOK, Stores
  <2>3. marked' \in [Stores -> SUBSET BackupRows]
    BY DEF Inv, BackupTypeOK
  <2>4. victims' \in [Sweepers -> SUBSET BackupRows]
    BY DEF Inv, BackupTypeOK
  <2>. QED  BY <2>1, <2>2, <2>3, <2>4 DEF Inv, BackupTypeOK
<1>2. Exclusive'
  <2>1. CASE store[w] = "local"
    BY <2>1, Numbers DEF Inv, BackupTypeOK, Exclusive, Making
  <2>2. CASE store[w] # "local"
    BY <2>2, Numbers DEF Inv, BackupTypeOK, Exclusive, Making
  <2>. QED  BY <2>1, <2>2
<1>3. Rowwise'
  BY DEF Inv, Rowwise, VictimsAreOld
<1>4. InTheMaking'
  BY Numbers DEF Inv, BackupTypeOK, InTheMaking, Told, Fresh
<1>5. VictimsAreOld'
  BY DEF Inv, VictimsAreOld
<1>6. NewestIsKept'
  BY Numbers DEF Inv, BackupTypeOK, VictimsAreOld, NewestIsKept, CopyAt
<1>. QED  BY <1>1, <1>2, <1>3, <1>4, <1>5, <1>6 DEF Inv

(* A row without copies is not that of the newest backup.                  *)
LEMMA PruneInv ==
  ASSUME Inv, NEW w \in Sweepers, Prune(w)
  PROVE  Inv'
<1>1. BackupTypeOK'
  <2>1. WorkerTypes'
    BY ForgetsTypes DEF Inv, Prune, Leave
  <2>2. backupMishaps' \in Nat /\ lock' \in {"free", "held", "lost"}
    BY DEF Inv, BackupTypeOK, Prune, Leave, Strike
  <2>. QED  BY <2>1, <2>2 DEF Prune, Leave, WorkerTypes, plan, table, times, user, best, Inv, BackupTypeOK
<1>. USE DEF Prune, Move, Leave, Forgets, Bare, Exists, plan, loop, sweep, table, times, user, best
<1>2. Exclusive'
  BY Numbers DEF Inv, Exclusive, Making
<1>3. Rowwise'
  BY DEF Inv, BackupTypeOK, Rowwise
<1>4. InTheMaking'
  BY Numbers DEF Inv, Rowwise, InTheMaking, Told, Fresh, Stores
<1>5. VictimsAreOld'
  BY DEF Inv, BackupTypeOK, VictimsAreOld
<1>6. NewestIsKept'
  BY DEF Inv, BackupTypeOK, NewestIsKept, CopyAt
<1>. QED  BY <1>1, <1>2, <1>3, <1>4, <1>5, <1>6 DEF Inv

(* The user deletes the files of a row ...                                 *)
LEMMA DeleteFilesInv ==
  ASSUME Inv, NEW r \in BackupRows, DeleteFiles(r)
  PROVE  Inv'
<1>. USE DEF DeleteFiles, Exists, Strike, plan, loop, sweep, table, times, user, best
<1>1. BackupTypeOK'
  BY DEF Inv, BackupTypeOK
<1>2. Exclusive'
  BY DEF Inv, Exclusive
<1>3. Rowwise'
  BY DEF Inv, Rowwise
<1>4. InTheMaking'
  BY DEF Inv, InTheMaking, Told, Stores
<1>5. VictimsAreOld'
  BY DEF Inv, VictimsAreOld
<1>6. NewestIsKept'
  BY DEF Inv, NewestIsKept, CopyAt, Stores
<1>. QED  BY <1>1, <1>2, <1>3, <1>4, <1>5, <1>6 DEF Inv

(* ... and then the row.                                                   *)
LEMMA DeleteRowInv ==
  ASSUME Inv, DeleteRow
  PROVE  Inv'
<1>. USE DEF DeleteRow, plan, loop, sweep, table, times, user, best
<1>1. BackupTypeOK'
  BY DEF Inv, BackupTypeOK
<1>2. \A r \in BackupRows : rowStatus'[r] = rowStatus[r] \/ (r = deleting /\ rowStatus'[r] = "gone")
  BY DEF Inv, BackupTypeOK
<1>3. Exclusive'
  BY DEF Inv, Exclusive
<1>4. Rowwise'
  BY <1>2 DEF Inv, BackupTypeOK, Rowwise, Stores
<1>5. InTheMaking'
  BY <1>2 DEF Inv, Rowwise, InTheMaking, Told
<1>6. VictimsAreOld'
  BY <1>2 DEF Inv, BackupTypeOK, VictimsAreOld
<1>7. NewestIsKept'
  BY <1>2 DEF Inv, BackupTypeOK, Rowwise, NewestIsKept, CopyAt
<1>. QED  BY <1>1, <1>3, <1>4, <1>5, <1>6, <1>7 DEF Inv

(* Rows that failed are not successes.                                     *)
LEMMA CleanupFailedInv ==
  ASSUME Inv, CleanupFailed
  PROVE  Inv'
<1>. USE DEF CleanupFailed, Forget, Strike, plan, loop, sweep, table, times, user, best
<1>1. BackupTypeOK'
  BY DEF Inv, BackupTypeOK
<1>2. Exclusive'
  BY DEF Inv, Exclusive
<1>3. Rowwise'
  BY DEF Inv, BackupTypeOK, Rowwise
<1>4. InTheMaking'
  BY DEF Inv, InTheMaking, Told
<1>5. VictimsAreOld'
  BY DEF Inv, BackupTypeOK, VictimsAreOld
<1>6. NewestIsKept'
  BY DEF Inv, BackupTypeOK, NewestIsKept, CopyAt
<1>. QED  BY <1>1, <1>2, <1>3, <1>4, <1>5, <1>6 DEF Inv

(* The user forgets rows.                                                  *)
LEMMA CleanupDeletedInv ==
  ASSUME Inv, CleanupDeleted
  PROVE  Inv'
<1>. USE DEF CleanupDeleted, Forget, Strike, Exists, plan, loop, sweep, table, times, user, best
<1>1. BackupTypeOK'
  BY DEF Inv, BackupTypeOK, Stores
<1>2. Exclusive'
  BY DEF Inv, Exclusive
<1>3. Rowwise'
  BY DEF Inv, BackupTypeOK, Rowwise, Stores
<1>4. InTheMaking'
  BY DEF Inv, InTheMaking, Told
<1>5. VictimsAreOld'
  BY DEF Inv, BackupTypeOK, VictimsAreOld
<1>6. NewestIsKept'
  BY DEF Inv, BackupTypeOK, NewestIsKept, CopyAt
<1>. QED  BY <1>1, <1>2, <1>3, <1>4, <1>5, <1>6 DEF Inv

(* A worker gives up.                                                      *)
LEMMA ThrowsInv ==
  ASSUME Inv, NEW w \in Sweepers, Throws(w)
  PROVE  Inv'
<1>1. BackupTypeOK'
  <2>1. WorkerTypes'
    BY ForgetsTypes DEF Inv, Throws, Leave
  <2>2. backupMishaps' \in Nat /\ lock' \in {"free", "held", "lost"}
    BY DEF Inv, BackupTypeOK, Throws, Leave, Strike
  <2>. QED  BY <2>1, <2>2 DEF Throws, Leave, WorkerTypes,
                   plan, table, times, user, best, Inv, BackupTypeOK
<1>. USE DEF Throws, Move, Leave, Forgets, Strike, plan, loop, sweep, table, times, user, best
<1>2. Exclusive'
  BY Numbers DEF Inv, Exclusive, Making, Sweeping
<1>3. Rowwise'
  BY DEF Inv, Rowwise
<1>4. InTheMaking'
  BY Numbers DEF Inv, InTheMaking, Told, Fresh
<1>5. VictimsAreOld'
  BY DEF Inv, VictimsAreOld
<1>6. NewestIsKept'
  BY DEF Inv, NewestIsKept, CopyAt
<1>. QED  BY <1>1, <1>2, <1>3, <1>4, <1>5, <1>6 DEF Inv

(* A worker dies.                                                          *)
LEMMA DieInv ==
  ASSUME Inv, NEW w \in Sweepers, BackupDies(w)
  PROVE  Inv'
<1>1. BackupTypeOK'
  <2>1. WorkerTypes'
    BY ForgetsTypes DEF Inv, BackupDies, Leave
  <2>2. backupMishaps' \in Nat /\ lock' \in {"free", "held", "lost"}
    BY DEF Inv, BackupTypeOK, BackupDies, Leave, Strike
  <2>. QED  BY <2>1, <2>2 DEF BackupDies, Leave, WorkerTypes, plan, table, times, user, best, Inv, BackupTypeOK
<1>. USE DEF BackupDies, Move, Leave, Forgets, Strike, WorkingJobs, plan, loop, sweep,
             table, times, user, best
<1>2. Exclusive'
  BY Numbers DEF Inv, Exclusive, Making
<1>3. Rowwise'
  BY DEF Inv, Rowwise
<1>4. InTheMaking'
  BY Numbers DEF Inv, InTheMaking, Told, Fresh
<1>5. VictimsAreOld'
  BY DEF Inv, VictimsAreOld
<1>6. NewestIsKept'
  BY DEF Inv, NewestIsKept, CopyAt
<1>. QED  BY <1>1, <1>2, <1>3, <1>4, <1>5, <1>6 DEF Inv

(* A lock expires.                                                         *)
LEMMA LockExpiresInv ==
  ASSUME Inv, LockExpires
  PROVE  Inv'
<1>. USE DEF LockExpires, plan, loop, sweep, table, times, user, best
<1>1. BackupTypeOK'
  BY DEF Inv, BackupTypeOK
<1>2. Exclusive'
  BY DEF Inv, Exclusive
<1>3. Rowwise'
  BY DEF Inv, Rowwise
<1>4. InTheMaking'
  BY DEF Inv, Exclusive, InTheMaking
<1>5. VictimsAreOld'
  BY DEF Inv, VictimsAreOld
<1>6. NewestIsKept'
  BY DEF Inv, NewestIsKept, CopyAt
<1>. QED  BY <1>1, <1>2, <1>3, <1>4, <1>5, <1>6 DEF Inv

(* A row that nobody works on becomes stale.                               *)
LEMMA AgeInv ==
  ASSUME Inv, NEW r \in BackupRows, Age(r)
  PROVE  Inv'
<1>. USE DEF Age, plan, loop, sweep, table, times, user, best
<1>1. BackupTypeOK'
  BY DEF Inv, BackupTypeOK
<1>2. Exclusive'
  BY DEF Inv, Exclusive
<1>3. Rowwise'
  BY DEF Inv, Rowwise
<1>4. InTheMaking'
  BY DEF Inv, InTheMaking, Told
<1>5. VictimsAreOld'
  BY DEF Inv, VictimsAreOld
<1>6. NewestIsKept'
  BY DEF Inv, NewestIsKept, CopyAt
<1>. QED  BY <1>1, <1>2, <1>3, <1>4, <1>5, <1>6 DEF Inv

(* Coolify restarts.                                                       *)
LEMMA RestartInv ==
  ASSUME Inv, BackupRestart
  PROVE  Inv'
<1>1. BackupTypeOK'
  <2>1. WorkerTypes'
    BY ForgetsTypes DEF Inv, BackupRestart, Leave
  <2>2. backupMishaps' \in Nat /\ lock' \in {"free", "held", "lost"}
    BY DEF Inv, BackupTypeOK, BackupRestart, Leave, Strike
  <2>. QED  BY <2>1, <2>2 DEF BackupRestart, Leave, WorkerTypes,
                   plan, table, times, user, best, Inv, BackupTypeOK
<1>. USE DEF BackupRestart, Forgets, Strike, WorkingJobs, plan, loop, sweep, table, times, user, best
<1>2. Exclusive'
  BY Numbers DEF Inv, Exclusive, Making
<1>3. Rowwise'
  BY DEF Inv, BackupTypeOK, Rowwise
<1>4. InTheMaking'
  BY Numbers DEF Inv, InTheMaking, Fresh
<1>5. VictimsAreOld'
  BY DEF Inv, BackupTypeOK, VictimsAreOld
<1>6. NewestIsKept'
  BY DEF Inv, BackupTypeOK, NewestIsKept, CopyAt
<1>. QED  BY <1>1, <1>2, <1>3, <1>4, <1>5, <1>6 DEF Inv

(* Nothing happens.                                                        *)
LEMMA StutterInv ==
  ASSUME Inv, UNCHANGED backupVars
  PROVE  Inv'
<1>1. BackupTypeOK' /\ Exclusive' /\ Rowwise'
  BY DEF backupVars, plan, loop, sweep, table, times, user, best, Inv, BackupTypeOK, Exclusive, Rowwise
<1>2. InTheMaking' /\ VictimsAreOld' /\ NewestIsKept'
  BY DEF backupVars, plan, loop, sweep, table, times, user, best, Inv, InTheMaking, Told,
         VictimsAreOld, NewestIsKept, CopyAt
<1>. QED  BY <1>1, <1>2 DEF Inv

(* Every step keeps the invariant.                                         *)
LEMMA NextInv ==
  ASSUME Inv, [BackupNext]_backupVars
  PROVE  Inv'
<1>1. ASSUME NEW j \in Jobs, Take(j) \/ Make(j) \/ CreateFails(j)
      PROVE  Inv'
  BY <1>1, TakeInv, BeginInv, CreateInv, CreateFailsInv, DumpInv, CatchInv, UploadInv, DropInv,
     RecordInv, FinishInv
     DEF Make
<1>2. ASSUME NEW w \in Sweepers,
             Sweep(w) \/ RemoveFails(w) \/ Throws(w) \/ BackupDies(w)
      PROVE  Inv'
  BY <1>2, SelectInv, RemoveInv, MarkInv, PruneInv, RemoveFailsInv, ThrowsInv,
     DieInv
     DEF Sweep
<1>3. ASSUME NEW r \in BackupRows, DeleteFiles(r) \/ Age(r)
      PROVE  Inv'
  BY <1>3, DeleteFilesInv, AgeInv
<1>4. CASE EnforceRetention \/ DeleteRow \/ CleanupFailed \/ CleanupDeleted
  BY <1>4, EnforceRetentionInv, DeleteRowInv, CleanupFailedInv,
     CleanupDeletedInv
<1>5. CASE LockExpires \/ BackupRestart
  BY <1>5, LockExpiresInv, RestartInv
<1>6. CASE UNCHANGED backupVars
  BY <1>6, StutterInv
<1>. QED  BY <1>1, <1>2, <1>3, <1>4, <1>5, <1>6 DEF BackupNext

(* The newest successful backup keeps a copy where its row tells of it,    *)
(* whatever retention, failed uploads, dead workers and the user's other   *)
(* deletions do, for any number of rows, jobs, databases and mishaps.      *)
THEOREM NewestCopyIsKept == BackupSpec => []NewestIsKept
<1>1. BackupInit => Inv
  BY InitInv
<1>2. Inv /\ [BackupNext]_backupVars => Inv'
  BY NextInv
<1>3. Inv => NewestIsKept
  BY DEF Inv
<1>. QED  BY <1>1, <1>2, <1>3, PTL DEF BackupSpec
=============================================================================
