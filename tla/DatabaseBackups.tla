---------------------------- MODULE DatabaseBackups ----------------------------
(***************************************************************************)
(* The backups of one schedule: the jobs that make them                    *)
(* (app/Jobs/DatabaseBackupJob.php), the retention that removes old ones   *)
(* (removeOldBackups() in bootstrap/helpers/databases.php), which the jobs *)
(* and CleanupInstanceStuffsJob run, and what the user deletes.  Rows are  *)
(* numbered as they are created; a copy is there whatever its contents.    *)
(***************************************************************************)
EXTENDS Naturals, FiniteSets

CONSTANTS
  Databases,       \* a job backs up so many databases or fewer
  Amount,          \* retention amount of each store, 0 for unlimited
  OtherLimits,     \* retention by days or by size is set, too
  MaxJobs,         \* bound: jobs at a time
  MaxRows,         \* bound: rows
  MaxBackupMishaps \* bound: mishaps and actions of the user

Stores == {"local", "s3"}

ASSUME BackupBounds ==
  /\ Databases \in Nat /\ MaxRows \in Nat \ {0} /\ Amount \in [Stores -> Nat]

Jobs == 1..MaxJobs
Cleanup == 0                 \* enforceBackupRetention()
Sweepers == Jobs \cup {Cleanup}
BackupRows == 1..MaxRows

VARIABLES
  saves,        \* save_s3
  onlyS3,       \* disable_local_backup
  stage,        \* where a worker is
  left,         \* databases its loop has still to back up
  backupRow,    \* $this->backup_log, 0 for none
  upload,       \* what to write to s3_uploaded
  dropped,      \* $localStorageDeleted
  store,        \* the store whose old backups a worker removes
  victims,      \* those backups
  lock,         \* WithoutOverlapping: "lost" when its owner has died
  rowStatus,    \* column of a row, "none" before and "gone" after it exists
  uploaded,     \* s3_uploaded
  named,        \* rows whose filename is not null
  marked,       \* local_storage_deleted and s3_storage_deleted
  has,          \* the copies that are there
  stale,        \* rows older than twice the timeout
  tied,         \* rows with the created_at of the row before them
  deleting,     \* the row whose files a user has just deleted, 0 for none
  byUser,       \* history: the rows users have deleted
  newest,       \* history: the newest row that recorded a success, 0 for none
  overwritten,  \* history: rows whose success was then recorded as a failure
  backupMishaps \* number of mishaps and actions of the user so far

plan   == <<saves, onlyS3>>
loop   == <<left, backupRow, upload, dropped>>
sweep  == <<store, victims>>
table  == <<rowStatus, uploaded, named, marked>>
times  == <<stale, tied>>
user   == <<deleting, byUser>>
best   == <<newest, overwritten>>
backupVars   == <<plan, stage, loop, sweep, lock, table, has, times, user, best, backupMishaps>>

Making == {"begin", "next", "dump", "catch", "upload", "drop", "record"}
Sweeping == {"select", "remove", "mark", "prune"}

BackupTypeOK ==
  /\ saves \in BOOLEAN /\ onlyS3 \in BOOLEAN
  /\ stage \in [Sweepers -> {"idle"} \cup Making \cup Sweeping]
  /\ left \in [Jobs -> Nat] /\ backupRow \in [Jobs -> BackupRows \cup {0}]
  /\ upload \in [Jobs -> {"null", "yes", "no"}] /\ dropped \in [Jobs -> BOOLEAN]
  /\ store \in [Sweepers -> Stores] /\ victims \in [Sweepers -> SUBSET BackupRows]
  /\ lock \in {"free", "held", "lost"}
  /\ rowStatus \in [BackupRows -> {"none", "running", "success", "failed", "gone"}]
  /\ uploaded \in [BackupRows -> {"null", "yes", "no"}] /\ named \in SUBSET BackupRows
  /\ marked \in [Stores -> SUBSET BackupRows] /\ has \in [Stores -> SUBSET BackupRows]
  /\ stale \in SUBSET BackupRows /\ tied \in SUBSET BackupRows /\ deleting \in BackupRows \cup {0}
  /\ byUser \in SUBSET BackupRows /\ newest \in BackupRows \cup {0}
  /\ overwritten \in SUBSET BackupRows /\ backupMishaps \in Nat

BackupInit ==
  /\ saves \in BOOLEAN /\ onlyS3 \in BOOLEAN
  /\ stage = [w \in Sweepers |-> "idle"]
  /\ left = [j \in Jobs |-> 0] /\ backupRow = [j \in Jobs |-> 0]
  /\ upload = [j \in Jobs |-> "null"] /\ dropped = [j \in Jobs |-> FALSE]
  /\ store = [w \in Sweepers |-> "local"] /\ victims = [w \in Sweepers |-> {}]
  /\ lock = "free"
  /\ rowStatus = [r \in BackupRows |-> "none"] /\ uploaded = [r \in BackupRows |-> "null"]
  /\ named = {} /\ marked = [s \in Stores |-> {}] /\ has = [s \in Stores |-> {}]
  /\ stale = {} /\ tied = {} /\ deleting = 0 /\ byUser = {}
  /\ newest = 0 /\ overwritten = {} /\ backupMishaps = 0

Move(w, place) == stage' = [stage EXCEPT ![w] = place]

(* What a worker knows is gone when it ends. *)
Forgets(gone) ==
  /\ stage' = [w \in Sweepers |-> IF w \in gone THEN "idle" ELSE stage[w]]
  /\ left' = [j \in Jobs |-> IF j \in gone THEN 0 ELSE left[j]]
  /\ backupRow' = [j \in Jobs |-> IF j \in gone THEN 0 ELSE backupRow[j]]
  /\ upload' = [j \in Jobs |-> IF j \in gone THEN "null" ELSE upload[j]]
  /\ dropped' = [j \in Jobs |-> IF j \in gone THEN FALSE ELSE dropped[j]]
  /\ store' = [w \in Sweepers |-> IF w \in gone THEN "local" ELSE store[w]]
  /\ victims' = [w \in Sweepers |-> IF w \in gone THEN {} ELSE victims[w]]

(* WithoutOverlapping gives the lock of a job back. *)
Leave(w) == Forgets({w}) /\ lock' = IF w = Cleanup THEN lock ELSE "free"

Exists(r) == rowStatus[r] \notin {"none", "gone"}
Strike == backupMishaps < MaxBackupMishaps /\ backupMishaps' = backupMishaps + 1

----------------------------------------------------------------------------
(* DatabaseBackupJob *)

(* The scheduler, a button or the API has dispatched a job, and a worker   *)
(* takes it.  A job whose schedule is locked is dropped (dontRelease).     *)
Take(j) ==
  /\ stage[j] = "idle" /\ lock = "free"
  /\ Move(j, "begin") /\ lock' = "held"
  /\ UNCHANGED <<plan, loop, sweep, table, has, times, user, best, backupMishaps>>

(* Mutant: executions that hang are left alone. *)
BeginWithoutStale(j) ==
  /\ stage[j] = "begin"
  /\ \/ Leave(j)
     \/ /\ \E n \in 1..Databases :
             /\ Cardinality({r \in BackupRows : rowStatus[r] # "none"}) + n <= MaxRows
             /\ left' = [left EXCEPT ![j] = n]
        /\ Move(j, "next") /\ UNCHANGED <<backupRow, upload, dropped, sweep, lock>>
  /\ UNCHANGED <<plan, table, has, times, user, best, backupMishaps>>

(* markStaleExecutionsAsFailed(); a database that does not run is skipped. *)
BeginBackup(j) ==
  /\ stage[j] = "begin"
  /\ rowStatus' = [r \in BackupRows |-> IF rowStatus[r] = "running" /\ r \in stale
                                        THEN "failed" ELSE rowStatus[r]]
  /\ \/ Leave(j)
     \/ /\ \E n \in 1..Databases :
             /\ Cardinality({r \in BackupRows : rowStatus[r] # "none"}) + n <= MaxRows
             /\ left' = [left EXCEPT ![j] = n]
        /\ Move(j, "next") /\ UNCHANGED <<backupRow, upload, dropped, sweep, lock>>
  /\ UNCHANGED <<plan, uploaded, named, marked, has, times, user, best, backupMishaps>>

(* created_at is in seconds: two databases of one job may share it, which *)
(* is rare and counts as a mishap.                                         *)
Create(j) ==
  /\ stage[j] = "next" /\ left[j] > 0
  /\ \E r \in BackupRows :
       /\ rowStatus[r] = "none" /\ \A i \in 1..(r - 1) : rowStatus[i] # "none"
       /\ rowStatus' = [rowStatus EXCEPT ![r] = "running"]
       /\ named' = named \cup {r}
       /\ backupRow' = [backupRow EXCEPT ![j] = r]
       /\ \/ UNCHANGED <<tied, backupMishaps>>
          \/ r > 1 /\ backupRow[j] = r - 1 /\ tied' = tied \cup {r} /\ Strike
  /\ left' = [left EXCEPT ![j] = @ - 1]
  /\ upload' = [upload EXCEPT ![j] = "null"] /\ dropped' = [dropped EXCEPT ![j] = FALSE]
  /\ Move(j, "dump")
  /\ UNCHANGED <<plan, sweep, lock, uploaded, marked, has, stale, user, best>>

(* The row cannot be created: what is caught then finds in backup_log the  *)
(* row of the database before, if there was one.                           *)
CreateFails(j) ==
  /\ stage[j] = "next" /\ left[j] > 0 /\ Strike
  /\ left' = [left EXCEPT ![j] = @ - 1] /\ Move(j, "catch")
  /\ UNCHANGED <<plan, backupRow, upload, dropped, sweep, lock, table, has, times,
                 user, best>>

(* The dump and its size: a dump that fails may leave a part of its file. *)
Dump(j) ==
  /\ stage[j] = "dump"
  /\ \/ /\ has' = [has EXCEPT !["local"] = @ \cup {backupRow[j]}]
        /\ Move(j, IF saves THEN "upload" ELSE "record")
     \/ /\ \E part \in {{}, {backupRow[j]}} : has' = [has EXCEPT !["local"] = @ \cup part]
        /\ Move(j, "catch")
  /\ UNCHANGED <<plan, loop, sweep, lock, table, times, user, best, backupMishaps>>

Catch(j) ==
  /\ stage[j] = "catch"
  /\ LET r == backupRow[j] IN
       IF r # 0 /\ Exists(r)
       THEN /\ rowStatus' = [rowStatus EXCEPT ![r] = "failed"]
            /\ uploaded' = [uploaded EXCEPT ![r] = "null"] /\ named' = named \ {r}
            /\ overwritten' = overwritten \cup IF rowStatus[r] = "success" THEN {r} ELSE {}
       ELSE UNCHANGED <<rowStatus, uploaded, named, overwritten>>
  /\ Move(j, "next")
  /\ UNCHANGED <<plan, loop, sweep, lock, marked, has, times, user, newest,
                 backupMishaps>>

(* Mutant: the local copy is dropped although the upload has failed. *)
UploadOrNot(j) ==
  /\ stage[j] = "upload"
  /\ \/ /\ backupRow[j] \in has["local"]
        /\ has' = [has EXCEPT !["s3"] = @ \cup {backupRow[j]}]
        /\ upload' = [upload EXCEPT ![j] = "yes"]
        /\ Move(j, IF onlyS3 THEN "drop" ELSE "record")
     \/ /\ upload' = [upload EXCEPT ![j] = "no"] /\ UNCHANGED has
        /\ Move(j, IF onlyS3 THEN "drop" ELSE "record")
  /\ UNCHANGED <<plan, left, backupRow, dropped, sweep, lock, table, times, user,
                 best, backupMishaps>>

(* upload_to_s3() copies and succeeds, fails, or copies and then fails to  *)
(* remove its container.  Only the first drops a local copy.  If the       *)
(* storage has been deleted, the schedule no longer saves to S3.           *)
Upload(j) ==
  /\ stage[j] = "upload"
  /\ \/ /\ backupRow[j] \in has["local"]
        /\ has' = [has EXCEPT !["s3"] = @ \cup {backupRow[j]}]
        /\ upload' = [upload EXCEPT ![j] = "yes"]
        /\ \E clean \in BOOLEAN : Move(j, IF onlyS3 /\ clean THEN "drop" ELSE "record")
        /\ UNCHANGED <<saves, backupMishaps>>
     \/ /\ upload' = [upload EXCEPT ![j] = "no"] /\ Move(j, "record")
        /\ UNCHANGED <<has, saves, backupMishaps>>
     \/ /\ Strike /\ saves' = FALSE /\ Move(j, "record")
        /\ upload' = [upload EXCEPT ![j] = "null"] /\ UNCHANGED has
  /\ UNCHANGED <<onlyS3, left, backupRow, dropped, sweep, lock, table, times, user,
                 best>>

Drop(j) ==
  /\ stage[j] = "drop"
  /\ has' = [has EXCEPT !["local"] = @ \ {backupRow[j]}]
  /\ dropped' = [dropped EXCEPT ![j] = TRUE]
  /\ Move(j, "record")
  /\ UNCHANGED <<plan, left, backupRow, upload, sweep, lock, table, times, user,
                 best, backupMishaps>>

(* A row that the user has deleted meanwhile is not written. *)
Record(j) ==
  /\ stage[j] = "record"
  /\ LET r == backupRow[j] IN
       IF Exists(r)
       THEN /\ rowStatus' = [rowStatus EXCEPT ![r] = "success"]
            /\ uploaded' = [uploaded EXCEPT ![r] = upload[j]]
            /\ marked' = [marked EXCEPT !["local"] = @ \cup IF dropped[j] THEN {r} ELSE {}]
            /\ newest' = IF r > newest THEN r ELSE newest
       ELSE UNCHANGED <<rowStatus, uploaded, marked, newest>>
  /\ IF left[j] > 0
     THEN Move(j, "next") /\ UNCHANGED store
     ELSE Move(j, "select") /\ store' = [store EXCEPT ![j] = "local"]
  /\ UNCHANGED <<plan, loop, victims, lock, named, has, times, user, overwritten,
                 backupMishaps>>

(* The last database has failed: no retention. *)
Finish(j) ==
  /\ stage[j] = "next" /\ left[j] = 0 /\ Leave(j)
  /\ UNCHANGED <<plan, table, has, times, user, best, backupMishaps>>

----------------------------------------------------------------------------
(* removeOldBackups(), by a job or by the clean-up *)

EnforceRetention ==
  /\ stage[Cleanup] = "idle"
  /\ Move(Cleanup, "select") /\ store' = [store EXCEPT ![Cleanup] = "local"]
  /\ UNCHANGED <<plan, loop, victims, lock, table, has, times, user, best, backupMishaps>>

Applies(s) == IF s = "local" THEN ~onlyS3 ELSE saves
Candidates(s) == {r \in BackupRows : rowStatus[r] = "success" /\ r \notin marked[s]}

(* How many of the newest stay: the amount, or fewer, down to one, when    *)
(* the others are too old or too large.                                    *)
Most(s) == IF Amount[s] = 0 THEN MaxRows ELSE Amount[s]
Kept(s) == IF OtherLimits THEN 1..Most(s) ELSE {Most(s)}

(* The newest n stay; which of those of one second, the database decides.  *)
Newer(x, y) == \E z \in BackupRows : y < z /\ z <= x /\ z \notin tied
Beyond(set, n) ==
  {old \in SUBSET set :
     /\ IF old = {} THEN Cardinality(set) <= n ELSE Cardinality(set \ old) = n
     /\ \A x \in old, y \in set \ old : ~Newer(x, y)}

NextStore(w) ==
  IF store[w] = "local"
  THEN Move(w, "select") /\ store' = [store EXCEPT ![w] = "s3"]
  ELSE Move(w, "prune") /\ UNCHANGED store

(* Backups whose upload failed count for S3 like the others. *)
Select(w) ==
  /\ stage[w] = "select"
  /\ \E n \in Kept(store[w]) : \E old \in Beyond(Candidates(store[w]), n) :
       IF ~Applies(store[w]) \/ old = {}
       THEN NextStore(w) /\ UNCHANGED victims
       ELSE /\ victims' = [victims EXCEPT ![w] = old]
            /\ Move(w, "remove") /\ UNCHANGED store
  /\ UNCHANGED <<plan, loop, lock, table, has, times, user, best, backupMishaps>>

Remove(w) ==
  /\ stage[w] = "remove" /\ Move(w, "mark")
  /\ has' = [has EXCEPT ![store[w]] = @ \ victims[w]]
  /\ UNCHANGED <<plan, loop, sweep, lock, table, times, user, best, backupMishaps>>

(* A removal that fails, like rm over a broken connection, goes unseen. *)
RemoveFails(w) ==
  /\ Strike
  /\ \/ stage[w] = "remove" /\ Move(w, "mark") /\ UNCHANGED dropped
     \/ /\ stage[w] = "drop" /\ Move(w, "record")
        /\ dropped' = [dropped EXCEPT ![w] = TRUE]
  /\ UNCHANGED <<plan, left, backupRow, upload, sweep, lock, table, has, times, user,
                 best>>

MarkDeleted(w) ==
  /\ stage[w] = "mark" /\ NextStore(w)
  /\ marked' = [marked EXCEPT ![store[w]] = @ \cup {r \in victims[w] : Exists(r)}]
  /\ victims' = [victims EXCEPT ![w] = {}]
  /\ UNCHANGED <<plan, loop, lock, rowStatus, uploaded, named, has, times, user,
                 best, backupMishaps>>

(* Rows without a copy are deleted. *)
Bare(r) ==
  /\ Exists(r) /\ r \in marked["local"]
  /\ r \in marked["s3"] \/ uploaded[r] = "null"

Prune(w) ==
  /\ stage[w] = "prune" /\ Leave(w)
  /\ rowStatus' = [r \in BackupRows |-> IF Bare(r) THEN "gone" ELSE rowStatus[r]]
  /\ UNCHANGED <<plan, uploaded, named, marked, has, times, user, best, backupMishaps>>

----------------------------------------------------------------------------
(* The user *)

(* deleteBackup(): first the files, then the row, whatever its status. *)
DeleteFiles(r) ==
  /\ deleting = 0 /\ Exists(r) /\ Strike
  /\ \E gone \in {{"local"}, Stores} :
       has' = [s \in Stores |-> IF s \in gone /\ r \in named THEN has[s] \ {r} ELSE has[s]]
  /\ deleting' = r /\ byUser' = byUser \cup {r}
  /\ UNCHANGED <<plan, stage, loop, sweep, lock, table, times, best>>

(* The row stays if S3 has refused. *)
DeleteRow ==
  /\ deleting # 0 /\ deleting' = 0
  /\ rowStatus' \in {rowStatus, [rowStatus EXCEPT ![deleting] = "gone"]}
  /\ UNCHANGED <<plan, stage, loop, sweep, lock, uploaded, named, marked, has, times,
                 byUser, best, backupMishaps>>

Forget(rows) ==
  /\ Strike /\ rows # {}
  /\ rowStatus' = [r \in BackupRows |-> IF r \in rows THEN "gone" ELSE rowStatus[r]]
  /\ UNCHANGED <<plan, stage, loop, sweep, lock, uploaded, named, marked, has, times,
                 deleting, best>>

CleanupFailed ==
  Forget({r \in BackupRows : rowStatus[r] = "failed"}) /\ UNCHANGED byUser

(* The rows go, and with them what is known of their copies in S3. *)
CleanupDeleted ==
  LET rows == {r \in marked["local"] : Exists(r)}
  IN Forget(rows) /\ byUser' = byUser \cup rows

----------------------------------------------------------------------------
(* Time and mishaps *)

(* The server or the database is not found, or the retention fails; the    *)
(* job does not know a row then, or only rows that have ended.             *)
Throws(w) ==
  /\ stage[w] \in {"begin"} \cup Sweeping /\ Strike /\ Leave(w)
  /\ UNCHANGED <<plan, table, has, times, user, best>>

WorkingJobs(w) == stage[w] # "idle"

(* A worker is killed or exceeds its timeout.  Whatever calls failed()     *)
(* then, at once or when Redis offers the job again, has a fresh copy of   *)
(* the job, whose backup_log_uuid is null: no row is found.  The same      *)
(* holds for an exception.                                                 *)
BackupDies(w) ==
  /\ WorkingJobs(w) /\ Strike /\ Forgets({w})
  /\ lock' = IF w = Cleanup THEN lock ELSE "lost"
  /\ UNCHANGED <<plan, table, has, times, user, best>>

(* A lock outlasts the timeout of its job by five minutes. *)
LockExpires ==
  /\ lock = "lost" /\ lock' = "free"
  /\ UNCHANGED <<plan, stage, loop, sweep, table, has, times, user, best, backupMishaps>>

(* A row becomes older than twice the timeout of its job. *)
Age(r) ==
  /\ rowStatus[r] = "running" /\ r \notin stale
  /\ \A j \in Jobs : backupRow[j] # r
  /\ stale' = stale \cup {r}
  /\ UNCHANGED <<plan, stage, loop, sweep, lock, table, has, tied, user, best, backupMishaps>>

(* Coolify restarts: app:init clears the locks and fails what runs.  A     *)
(* request of the user ends where it is.                                   *)
BackupRestart ==
  /\ Strike /\ lock' = "free" /\ deleting' = 0 /\ Forgets({w \in Sweepers : WorkingJobs(w)})
  /\ rowStatus' = [r \in BackupRows |-> IF rowStatus[r] = "running" THEN "failed" ELSE rowStatus[r]]
  /\ UNCHANGED <<plan, uploaded, named, marked, has, times, byUser, best>>

----------------------------------------------------------------------------
Make(j) == \/ BeginBackup(j) \/ Create(j) \/ Dump(j) \/ Catch(j) \/ Upload(j) \/ Drop(j)
           \/ Record(j) \/ Finish(j)
Sweep(w) == Select(w) \/ Remove(w) \/ MarkDeleted(w) \/ Prune(w)

BackupNext ==
  \/ \E j \in Jobs : Take(j) \/ Make(j) \/ CreateFails(j)
  \/ \E w \in Sweepers : Sweep(w) \/ RemoveFails(w) \/ Throws(w) \/ BackupDies(w)
  \/ \E r \in BackupRows : DeleteFiles(r) \/ Age(r)
  \/ EnforceRetention \/ DeleteRow \/ CleanupFailed \/ CleanupDeleted
  \/ LockExpires \/ BackupRestart

BackupSpec == BackupInit /\ [][BackupNext]_backupVars

(* The schedule stays enabled, workers take its jobs and go on, and time   *)
(* passes: as a row ages once, some row does so until each has.            *)
BackupProceeds(j) == Take(j) \/ Make(j) \/ Sweep(j)
BackupFairness ==
  /\ \A j \in Jobs : WF_backupVars(BackupProceeds(j))
  /\ WF_backupVars(\E r \in BackupRows : Age(r))
  /\ WF_backupVars(LockExpires)

BackupFairSpec == BackupSpec /\ BackupFairness

----------------------------------------------------------------------------
(* Properties *)

(* Whatever retention, failed uploads, dead workers and the user's other   *)
(* deletions do, the newest successful backup keeps a copy where its row   *)
(* says there is one: on the server, or in S3 if local copies are dropped. *)
(* Except that the failure to create the row of the next database is       *)
(* recorded in its row, and that of rows of one second the newest is       *)
(* whichever the database returns first.                                   *)
CopyAt(r, s) == r \in has[s] /\ r \notin marked[s]

NewestIsKept ==
  newest \notin {0} \cup byUser \cup overwritten \cup tied =>
    /\ rowStatus[newest] = "success"
    /\ \/ CopyAt(newest, "local")
       \/ onlyS3 /\ uploaded[newest] = "yes" /\ CopyAt(newest, "s3")

(* A backup that says it runs ends, also after its worker has died: a      *)
(* later job of the schedule, or a restart, marks it as failed.            *)
BackupEnds == \A r \in BackupRows : []<>(rowStatus[r] # "running")
=============================================================================
