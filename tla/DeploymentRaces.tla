--------------------------- MODULE DeploymentRaces ---------------------------
(***************************************************************************)
(* The limits of the deployment queue, with every interleaving.  Nothing   *)
(* in the code locks the table, so between what a process reads and what   *)
(* it writes others read and write: deployments do break the limits.       *)
(* This module says which ones, and that no other does.                    *)
(*                                                                         *)
(* The history variable excused records, for each kind of race and of      *)
(* deliberate bypass, the rows it has happened to.  It is superposed on    *)
(* DeploymentQueue: it never enables or disables a step.                   *)
(***************************************************************************)
EXTENDS DeploymentQueue

VARIABLE excused

raceVars == <<vars, excused>>

Kinds == {"unchecked", "unqueued", "reopened", "overwritten"}

NothingExcused == [kind \in Kinds |-> {}]

RaceTypeOK == excused \in [Kinds -> SUBSET D]

----------------------------------------------------------------------------
(* What a step makes of row d. *)

(* p has decided to start d; its next statement writes "in_progress".      *)
Claiming(p, d) == At(p, "start") /\ proc[p].cur = d
Claims(p, d) == ~At(p, "start") /\ Claiming(p, d)'

(* The rows that take no part in the limits.                               *)
Outside == excused["unchecked"] \cup excused["reopened"]

SameLane(d, e) == row[d].app = row[e].app /\ row[d].lane = row[e].lane
Rivals(d, e) == SameLane(d, e) \/ row[d].server = row[e].server

(* d is started although nobody asked next_queuable(), or it was asked     *)
(* while another process had the "yes" for a rival of d and had not        *)
(* written it yet.                                                         *)
Unchecked(d) ==
  \E p \in Procs :
    /\ Claims(p, d)
    /\ \/ ~At(p, "scan")
       \/ \E q \in Procs, e \in D \ (Outside \cup {d}) :
            Claiming(q, e) /\ Rivals(d, e)

(* d is started although it is queued no more, or another process is about *)
(* to start it; or it changes under a process that is about to start it.   *)
Unqueued(d) ==
  \/ \E p, q \in Procs :
       Claims(p, d) /\ (status'[d] # "queued" \/ Claiming(q, d))
  \/ /\ status'[d] # status[d]
     /\ \E q \in Procs : Claiming(q, d) /\ Claiming(q, d)'

(* A worker takes the job of a closed row: the row will be opened again.   *)
Reopened(d) ==
  \E p \in Workers :
    ~At(p, "mark") /\ (At(p, "mark") /\ proc[p].job = d /\ proc[p].hold \in Closed)'

(* The rows that a process has found alive and will write.                 *)
WillWrite(p) ==
  CASE At(p, "apicancel") -> {proc[p].cur}
    [] At(p, "sweep")     -> proc[p].todo
    [] At(p, "close")     -> {proc[p].job}
    [] OTHER              -> {}

(* d ends although another process will write it, or it had ended and is   *)
(* cancelled from a page that still shows it alive.                        *)
Overwritten(d) ==
  /\ status'[d] # status[d]
  /\ \/ status'[d] \notin Active /\ \E q \in Procs : d \in WillWrite(q) \cap WillWrite(q)'
     \/ /\ status[d] \notin Active \cup {"none"}
        /\ \E p \in Requests : At(p, "idle") /\ At(p, "snapshot")'

Excuse(kind, d) ==
  CASE kind = "unchecked"   -> Unchecked(d)
    [] kind = "unqueued"    -> Unqueued(d)
    [] kind = "reopened"    -> Reopened(d)
    [] kind = "overwritten" -> Overwritten(d)

NotesExcuses ==
  excused' = [kind \in Kinds |-> excused[kind] \cup {d \in D : Excuse(kind, d)}]

RaceInit == Init /\ excused = NothingExcused
RaceNext == Next /\ NotesExcuses
RaceSpec == RaceInit /\ [][RaceNext]_raceVars

----------------------------------------------------------------------------
(* Properties. *)

(* Two deployments of the same application and pull request never run at   *)
(* the same time ("Restrict concurrent deployments"), whatever the         *)
(* interleaving of requests, workers and mishaps, except those that were   *)
(* forced, or asked for without questions, or got their "yes" before       *)
(* another "yes" was written, or were opened again by a late job.          *)
LaneExclusive ==
  \A d, e \in InState("in_progress") \ Outside : SameLane(d, e) => d = e

(* On the same terms, a server never has more deployments in progress than *)
(* concurrent_builds.                                                      *)
CapacityRespected ==
  \A s \in Servers : Cardinality(ActiveOn(s) \ Outside) =< ConcurrentBuilds[s]

(* A row never has two jobs: pending in Redis, reserved for a worker that  *)
(* died, at work, or about to be pushed.  Only a row that was started      *)
(* while it was no longer queued can.                                      *)
SingleJob ==
  \A d \in D \ excused["unqueued"] :
    pending[d] + reserved[d]
      + Cardinality({p \in Workers : proc[p].job = d})
      + Cardinality({p \in Procs : At(p, "dispatch") /\ proc[p].cur = d}) =< 1

(* A row of which anything is excused is irregular once it is started or   *)
(* has ended; as long as it is queued it is queued like any other.         *)
Irregular == UNION {excused[kind] : kind \in Kinds}
Shown ==
  [d \in D |-> IF d \in Irregular /\ status[d] \notin {"none", "queued"}
               THEN "irregular" ELSE status[d]]

(* The promise of DeploymentLanes, of this very table. *)
Promise == INSTANCE DeploymentLanes
             WITH Deployments <- D, Capacity <- ConcurrentBuilds, status <- Shown

(* With every interleaving the queue keeps the promise of DeploymentLanes  *)
(* for the rows of which nothing is excused: each is started once, from    *)
(* the queue, in a free lane, on a server with room, and its end is final. *)
ImplementsLanes == Promise!LanesSpec

----------------------------------------------------------------------------
(* The inductive invariant. *)

(* The rows that hold their lane and a place on their server: those in     *)
(* progress, and those about to be.                                        *)
Occupants == {d \in D \ Outside :
                status[d] = "in_progress" \/ \E p \in Procs : Claiming(p, d)}

OccupantsFit ==
  /\ \A d, e \in Occupants : SameLane(d, e) => d = e
  /\ \A s \in Servers :
       Cardinality({d \in Occupants : row[d].server = s}) =< ConcurrentBuilds[s]

(* What a process has read of a row still holds, or the row is excused.    *)
ReadsHold ==
  \A p \in Procs : \A d \in D :
    /\ Claiming(p, d) => status[d] = "queued" \/ d \in excused["unqueued"]
    /\ d \in WillWrite(p) => status[d] \in Active \/ d \in excused["overwritten"]
    /\ At(p, "mark") /\ proc[p].job = d =>
         proc[p].hold = "in_progress" \/ d \in excused["reopened"]

RaceInv == Inv /\ RaceTypeOK /\ OccupantsFit /\ ReadsHold /\ SingleJob
=============================================================================
