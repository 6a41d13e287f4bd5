----------------------- MODULE DeploymentQueue_proofs -----------------------
(***************************************************************************)
(* Proofs about DeploymentQueue and DeploymentRaces, for every choice of   *)
(* their constants: any number of applications, servers, processes,        *)
(* deployments and mishaps, and every interleaving.                        *)
(***************************************************************************)
EXTENDS DeploymentRaces, FiniteSetTheorems, TLAPS

(* The local states that Idle and FailJob leave behind. *)
LEMMA IdleProcType ==
  IdleProc \in LocalState
<1>1. AnyServer \in Servers
  BY TopologyAssumption DEF AnyServer
<1>. QED  BY <1>1 DEF IdleProc, Frame, LocalState, PCs, Statuses

LEMMA FailedProcFacts ==
  ASSUME NEW d \in D, NEW p \in Workers
  PROVE  /\ FailedProc(d) \in LocalState
         /\ LocalOK(p, FailedProc(d))
         /\ Held(FailedProc(d)) = {d} /\ Working(FailedProc(d)) = {d}
         /\ Driving(FailedProc(d)) = {d}
<1>1. AnyServer \in Servers
  BY TopologyAssumption DEF AnyServer
<1>2. FailedProc(d) \in LocalState
  BY <1>1 DEF FailedProc, Frame, LocalState, PCs, Statuses, Closed
<1>3. LocalOK(p, FailedProc(d))
  BY ProcessAssumption DEF FailedProc, Frame, LocalOK, Closed
<1>. QED
  BY <1>2, <1>3 DEF FailedProc, Frame, Held, Working, Driving, Pushing, D

LEMMA IdleProcFacts ==
  ASSUME NEW p \in Procs
  PROVE  /\ IdleProc \in LocalState /\ LocalOK(p, IdleProc)
         /\ Held(IdleProc) = {} /\ Working(IdleProc) = {0}
         /\ Driving(IdleProc) = {}
BY IdleProcType DEF IdleProc, Frame, LocalOK, Held, Working, Driving, Pushing

LEMMA InitInv == Init => Inv
<1>. SUFFICES ASSUME Init PROVE Inv
  OBVIOUS
<1>1. TypeOK
  BY IdleProcType, BoundAssumption DEF Init, TypeOK, Statuses
<1>2. ProcOK
  BY IdleProcFacts DEF Init, ProcOK
<1>3. Created = {} /\ \A d \in D : ~HasJob(d) /\ status[d] = "none"
  BY DEF Init, Created, HasJob
<1>4. KnownRows
  BY <1>3, IdleProcFacts DEF Init, KnownRows
<1>5. QueuedNotDispatched /\ InProgressDriven
  BY <1>3 DEF QueuedNotDispatched, InProgressDriven, InState
<1>. QED  BY <1>1, <1>2, <1>4, <1>5 DEF Inv

(* The shape every step of one process has: it replaces its own local      *)
(* state by new, and what it does to the table and to Redis keeps queued   *)
(* rows without jobs and in-progress rows with a driver.                   *)
LEMMA StepPreservesInv ==
  ASSUME Inv, NEW p \in Procs, NEW new \in LocalState, Go(p, new),
         LocalOK(p, new),
         TypeOK',
         \A d \in Created : d \in Created' /\ row'[d] \in Rows,
         \A d \in Created' : row'[d] \in Rows,
         \A d \in D : HasJob(d)' => d \in Created',
         Held(new) \subseteq Created',
         \A d \in D : status'[d] = "queued" =>
            /\ ~HasJob(d)' /\ d \notin Working(new)
            /\ status[d] \in {"queued", "none"},
         \A d \in D : status'[d] = "in_progress" /\ d \notin orphans' =>
            \/ HasJob(d)' \/ d \in Driving(new)
            \/ /\ status[d] = "in_progress" /\ d \notin orphans
               /\ ~HasJob(d) /\ d \notin Driving(proc[p])
  PROVE  Inv'
<1>1. /\ proc'[p] = new
      /\ \A q \in Procs : q # p => proc'[q] = proc[q]
  BY DEF Go, Inv, TypeOK
<1>2. ProcOK'
  BY <1>1 DEF Inv, ProcOK
<1>3. KnownRows'
  BY <1>1 DEF Inv, KnownRows
<1>4. QueuedNotDispatched'
  <2>. SUFFICES ASSUME NEW d \in D, status'[d] = "queued", NEW q \in Procs
                PROVE  d \notin Working(proc'[q])
    BY DEF QueuedNotDispatched, InState
  <2>1. CASE q = p
    BY <2>1, <1>1
  <2>2. CASE q # p /\ status[d] = "queued"
    BY <2>2, <1>1 DEF Inv, QueuedNotDispatched, InState
  <2>3. CASE q # p /\ status[d] = "none"
    <3>1. d \notin Held(proc[q])
      BY <2>3 DEF Inv, KnownRows, Created
    <3>. QED  BY <2>3, <3>1, <1>1 DEF Held, Working, Pushing, D
  <2>. QED  BY <2>1, <2>2, <2>3
<1>5. InProgressDriven'
  <2>. SUFFICES ASSUME NEW d \in D, status'[d] = "in_progress", d \notin orphans'
                PROVE  HasJob(d)' \/ \E q \in Procs : d \in Driving(proc'[q])
    BY DEF InProgressDriven, InState
  <2>1. CASE HasJob(d)' \/ d \in Driving(new)
    BY <2>1, <1>1
  <2>2. CASE /\ status[d] = "in_progress" /\ d \notin orphans
             /\ ~HasJob(d) /\ d \notin Driving(proc[p])
    <3>1. PICK q \in Procs : d \in Driving(proc[q])
      BY <2>2 DEF Inv, InProgressDriven, InState
    <3>. QED  BY <3>1, <2>2, <1>1
  <2>. QED  BY <2>1, <2>2
<1>. QED  BY <1>2, <1>3, <1>4, <1>5 DEF Inv

(* What the invariant says of one process.                                 *)
LEMMA BeforeStep ==
  ASSUME Inv, NEW p \in Procs
  PROVE  /\ proc[p] \in LocalState /\ LocalOK(p, proc[p])
         /\ Held(proc[p]) \subseteq Created
BY DEF Inv, TypeOK, ProcOK, KnownRows

(* The step of a process that touches neither the table nor Redis.         *)
LEMMA LocalStep ==
  ASSUME Inv, NEW p \in Procs, NEW new \in LocalState, Go(p, new),
         LocalOK(p, new),
         UNCHANGED <<status, row, pending, reserved, orphans>>,
         usable' \in SUBSET Apps, faults' \in 0..MaxFaults,
         Held(new) \subseteq Created,
         \A d \in InState("queued") : d \notin Working(new),
         \A d \in InState("in_progress") \ orphans :
           d \in Driving(proc[p]) => d \in Driving(new) \/ HasJob(d)
  PROVE  Inv'
<1>1. TypeOK'
  BY DEF Inv, TypeOK, Go
<1>2. Created' = Created /\ \A d \in D : HasJob(d)' = HasJob(d)
  BY DEF Created, HasJob
<1>3. \A d \in D : status'[d] = "queued" =>
        ~HasJob(d)' /\ d \notin Working(new) /\ status[d] = "queued"
  BY <1>2 DEF Inv, QueuedNotDispatched, InState
<1>4. \A d \in D : status'[d] = "in_progress" /\ d \notin orphans' =>
        \/ HasJob(d)' \/ d \in Driving(new)
        \/ /\ status[d] = "in_progress" /\ d \notin orphans
           /\ ~HasJob(d) /\ d \notin Driving(proc[p])
  BY <1>2 DEF InState
<1>5. /\ \A d \in Created : d \in Created' /\ row'[d] \in Rows
      /\ \A d \in Created' : row'[d] \in Rows
      /\ \A d \in D : HasJob(d)' => d \in Created'
  BY <1>2 DEF Inv, KnownRows
<1>. QED  BY <1>1, <1>2, <1>3, <1>4, <1>5, StepPreservesInv

(* A local step after which p runs and settles what it did before.         *)
LEMMA QuietStep ==
  ASSUME Inv, NEW p \in Procs, NEW new \in LocalState, Go(p, new),
         LocalOK(p, new),
         UNCHANGED <<status, row, pending, reserved, usable, orphans, faults>>,
         Held(new) \subseteq Created,
         Working(new) \subseteq Working(proc[p]) \cup {0},
         Driving(proc[p]) \subseteq Driving(new)
  PROVE  Inv'
<1>1. \A d \in InState("queued") : d \notin Working(new)
  BY DEF Inv, QueuedNotDispatched, InState, D
<1>. QED  BY <1>1, LocalStep DEF Inv, TypeOK

(* The step of a process that writes the status of one row, and touches    *)
(* nothing else but its local state.                                       *)
LEMMA WriteStep ==
  ASSUME Inv, NEW p \in Procs, NEW new \in LocalState, Go(p, new),
         LocalOK(p, new),
         NEW e \in Created, NEW v \in Statuses \ {"none", "queued"},
         status' = [status EXCEPT ![e] = v],
         UNCHANGED <<row, pending, reserved, usable, orphans, faults>>,
         Held(new) \subseteq Created,
         Working(new) \subseteq Working(proc[p]) \cup {e, 0},
         v = "in_progress" => e \in Driving(new),
         \A d \in Driving(proc[p]) : d # e => d \in Driving(new)
  PROVE  Inv'
<1>1. e \in D /\ status \in [D -> Statuses]
  BY DEF Inv, TypeOK, Created
<1>2. status'[e] = v /\ \A d \in D : d # e => status'[d] = status[d]
  BY <1>1
<1>3. TypeOK'
  BY <1>1 DEF Inv, TypeOK, Go
<1>4. Created' = Created /\ \A d \in D : HasJob(d)' = HasJob(d)
  BY <1>1, <1>2 DEF Created, HasJob
<1>5. \A d \in D : status'[d] = "queued" =>
        ~HasJob(d)' /\ d \notin Working(new) /\ status[d] = "queued"
  BY <1>2, <1>4 DEF Inv, QueuedNotDispatched, InState, D
<1>6. \A d \in D : status'[d] = "in_progress" /\ d \notin orphans' =>
        \/ HasJob(d)' \/ d \in Driving(new)
        \/ /\ status[d] = "in_progress" /\ d \notin orphans
           /\ ~HasJob(d) /\ d \notin Driving(proc[p])
  BY <1>2, <1>4
<1>7. /\ \A d \in Created : d \in Created' /\ row'[d] \in Rows
      /\ \A d \in Created' : row'[d] \in Rows
      /\ \A d \in D : HasJob(d)' => d \in Created'
  BY <1>4 DEF Inv, KnownRows
<1>. QED  BY <1>3, <1>4, <1>5, <1>6, <1>7, StepPreservesInv

(* A step in which p drops what it was doing: what it drove becomes an     *)
(* orphan, or its job comes back, or p goes on driving it.                 *)
LEMMA AbandonStep ==
  ASSUME Inv, NEW p \in Procs, NEW new \in LocalState, Go(p, new),
         LocalOK(p, new),
         UNCHANGED <<status, row, pending, usable>>,
         reserved' \in [D -> Nat], orphans' \in SUBSET D,
         faults' \in 0..MaxFaults, orphans \subseteq orphans',
         \A d \in D : reserved[d] > 0 => reserved'[d] > 0,
         \A d \in D : reserved'[d] > 0 => HasJob(d) \/ d \in Working(proc[p]),
         Held(new) \subseteq Held(proc[p]),
         Working(new) \subseteq Working(proc[p]) \cup {0},
         \A d \in InState("in_progress") \cap Driving(proc[p]) :
           d \in Driving(new) \/ d \in orphans' \/ reserved'[d] > 0
  PROVE  Inv'
<1>1. TypeOK' /\ Created' = Created
  BY DEF Inv, TypeOK, Go, Created
<1>2. \A d \in D : HasJob(d) => HasJob(d)'
  BY DEF HasJob
<1>3. \A d \in D : HasJob(d)' => HasJob(d) \/ d \in Working(proc[p])
  BY DEF HasJob
<1>4. \A d \in D : d \in Working(proc[p]) => d \in Created
  BY BeforeStep DEF Working, Held, Pushing, D
<1>5. \A d \in D : status'[d] = "queued" =>
        ~HasJob(d)' /\ d \notin Working(new) /\ status[d] = "queued"
  BY <1>3 DEF Inv, QueuedNotDispatched, InState, D
<1>6. \A d \in D : status'[d] = "in_progress" /\ d \notin orphans' =>
        \/ HasJob(d)' \/ d \in Driving(new)
        \/ /\ status[d] = "in_progress" /\ d \notin orphans
           /\ ~HasJob(d) /\ d \notin Driving(proc[p])
  <2>. SUFFICES ASSUME NEW d \in D, status[d] = "in_progress", d \notin orphans',
                       ~HasJob(d)', d \notin Driving(new)
                PROVE  ~HasJob(d) /\ d \notin Driving(proc[p])
    OBVIOUS
  <2>1. ~(reserved'[d] > 0)
    BY DEF HasJob
  <2>. QED  BY <1>2, <2>1 DEF InState
<1>7. /\ \A d \in Created : d \in Created' /\ row'[d] \in Rows
      /\ \A d \in Created' : row'[d] \in Rows
      /\ \A d \in D : HasJob(d)' => d \in Created'
      /\ Held(new) \subseteq Created'
  BY <1>1, <1>3, <1>4, BeforeStep DEF Inv, KnownRows
<1>. QED  BY <1>1, <1>5, <1>6, <1>7, StepPreservesInv

(* A step in which an idle worker takes the job of row d from Redis.       *)
LEMMA TakeStep ==
  ASSUME Inv, NEW p \in Procs, NEW new \in LocalState, Go(p, new),
         LocalOK(p, new), proc[p].pc = "idle",
         NEW d \in D, HasJob(d),
         UNCHANGED <<status, row, usable, orphans, faults>>,
         pending' \in [D -> Nat], reserved' \in [D -> Nat],
         \A e \in D \ {d} : pending'[e] = pending[e] /\ reserved'[e] = reserved[e],
         Held(new) \subseteq {d}, Working(new) \subseteq {d, 0},
         d \in Driving(new) \/ status[d] = "cancelled"
  PROVE  Inv'
<1>1. TypeOK' /\ Created' = Created
  BY DEF Inv, TypeOK, Go, Created
<1>2. \A e \in D \ {d} : HasJob(e)' = HasJob(e)
  BY DEF HasJob
<1>3. d \in Created /\ status[d] # "queued"
  BY DEF Inv, KnownRows, QueuedNotDispatched, InState
<1>4. \A e \in D : status'[e] = "queued" =>
        ~HasJob(e)' /\ e \notin Working(new) /\ status[e] = "queued"
  BY <1>2, <1>3 DEF Inv, QueuedNotDispatched, InState, D
<1>5. Driving(proc[p]) = {}
  BY DEF Driving, Pushing
<1>6. \A e \in D : status'[e] = "in_progress" /\ e \notin orphans' =>
        \/ HasJob(e)' \/ e \in Driving(new)
        \/ /\ status[e] = "in_progress" /\ e \notin orphans
           /\ ~HasJob(e) /\ e \notin Driving(proc[p])
  BY <1>2, <1>5
<1>7. /\ \A e \in Created : e \in Created' /\ row'[e] \in Rows
      /\ \A e \in Created' : row'[e] \in Rows
      /\ \A e \in D : HasJob(e)' => e \in Created'
      /\ Held(new) \subseteq Created'
  BY <1>1, <1>2, <1>3 DEF Inv, KnownRows
<1>. QED  BY <1>1, <1>4, <1>6, <1>7, StepPreservesInv

(***************************************************************************)
(* One lemma per step of a process.  x is its local state before the step, *)
(* n the one after.                                                        *)
(***************************************************************************)
LEMMA RequestDeployInv ==
  ASSUME Inv, NEW p \in Requests, RequestDeploy(p)
  PROVE  Inv'
<1>. p \in Procs
  BY DEF Procs
<1>1. PICK x \in LocalState : x = proc[p] /\ LocalOK(p, x) /\ Held(x) \subseteq Created
  BY BeforeStep
<1>2. PICK r \in Rows : Go(p, [x EXCEPT !.pc = "insert", !.req = r])
  BY <1>1, TopologyAssumption DEF RequestDeploy
<1>3. PICK n : n = [x EXCEPT !.pc = "insert", !.req = r]
  OBVIOUS
<1>4. x.pc = "idle"
  BY <1>1 DEF RequestDeploy, Begin, At
<1>5. /\ n \in LocalState /\ LocalOK(p, n)
      /\ Held(n) = Held(x) /\ Working(n) = Working(x) /\ Driving(n) = Driving(x)
  BY <1>1, <1>2, <1>3, <1>4, ProcessAssumption
  DEF LocalState, PCs, LocalOK, Held, Working, Driving, Pushing
<1>. QED  BY <1>1, <1>2, <1>3, <1>5, QuietStep DEF RequestDeploy

LEMMA InsertInv ==
  ASSUME Inv, NEW p \in Procs, Insert(p)
  PROVE  Inv'
<1>1. PICK x \in LocalState : x = proc[p]
  BY DEF Inv, TypeOK
<1>2. PICK d \in D \ Created :
        /\ status' = [status EXCEPT ![d] = "queued"]
        /\ row' = [row EXCEPT ![d] = x.req]
        /\ \/ Go(p, [x EXCEPT !.pc = "start", !.cur = d, !.req = NoRow])
           \/ Go(p, [x EXCEPT !.pc = "scan", !.todo = {d}, !.req = NoRow])
  BY <1>1 DEF Insert
<1>3. PICK n : /\ Go(p, n)
               /\ \/ n = [x EXCEPT !.pc = "start", !.cur = d, !.req = NoRow]
                  \/ n = [x EXCEPT !.pc = "scan", !.todo = {d}, !.req = NoRow]
  BY <1>2
<1>4. x.pc = "insert" /\ LocalOK(p, x) /\ x.req \in Rows
  BY <1>1 DEF Insert, At, Inv, ProcOK, LocalOK
<1>5. /\ n \in LocalState /\ LocalOK(p, n)
      /\ Held(n) \subseteq Held(x) \cup {d}
      /\ Working(n) = Working(x) /\ Driving(n) = Driving(x)
  <2>1. CASE n = [x EXCEPT !.pc = "start", !.cur = d, !.req = NoRow]
    BY <2>1, <1>1, <1>2, <1>4
    DEF LocalState, PCs, LocalOK, Held, Working, Driving, Pushing
  <2>2. CASE n = [x EXCEPT !.pc = "scan", !.todo = {d}, !.req = NoRow]
    BY <2>2, <1>1, <1>2, <1>4
    DEF LocalState, PCs, LocalOK, Held, Working, Driving, Pushing
  <2>. QED  BY <2>1, <2>2, <1>3
<1>6. /\ status \in [D -> Statuses] /\ row \in [D -> Rows \cup {NoRow}]
      /\ status[d] = "none"
  BY DEF Inv, TypeOK, Created
<1>7. /\ TypeOK'
      /\ Created' = Created \cup {d} /\ \A e \in D : HasJob(e)' = HasJob(e)
      /\ row'[d] \in Rows /\ \A e \in Created : row'[e] = row[e]
  <2>1. TypeOK'
    BY <1>2, <1>3, <1>4, <1>5, <1>6 DEF Inv, TypeOK, Go, Insert, Statuses, Active
  <2>2. Created' = Created \cup {d}
    BY <1>2, <1>6 DEF Created
  <2>. QED  BY <1>2, <1>4, <1>6, <2>1, <2>2 DEF HasJob, Insert, Created
<1>8. ~HasJob(d) /\ d \notin Held(x)
  BY <1>1 DEF Inv, KnownRows
<1>9. Working(x) \subseteq Held(x) \cup {0}
  BY DEF Working, Held, Pushing
<1>10. \A e \in D : status'[e] = "queued" =>
         ~HasJob(e)' /\ e \notin Working(n) /\ status[e] \in {"queued", "none"}
  <2>. SUFFICES ASSUME NEW e \in D, status'[e] = "queued"
                PROVE  /\ ~HasJob(e)' /\ e \notin Working(n)
                       /\ status[e] \in {"queued", "none"}
    OBVIOUS
  <2>1. CASE e = d
    BY <2>1, <1>5, <1>6, <1>7, <1>8, <1>9 DEF D
  <2>2. CASE e # d
    BY <2>2, <1>1, <1>2, <1>5, <1>6, <1>7 DEF Inv, QueuedNotDispatched, InState
  <2>. QED  BY <2>1, <2>2
<1>11. \A e \in D : status'[e] = "in_progress" /\ e \notin orphans' =>
         \/ HasJob(e)' \/ e \in Driving(n)
         \/ /\ status[e] = "in_progress" /\ e \notin orphans
            /\ ~HasJob(e) /\ e \notin Driving(proc[p])
  BY <1>1, <1>2, <1>5, <1>6, <1>7 DEF Insert
<1>12. /\ \A e \in Created : e \in Created' /\ row'[e] \in Rows
       /\ \A e \in Created' : row'[e] \in Rows
       /\ \A e \in D : HasJob(e)' => e \in Created'
       /\ Held(n) \subseteq Created'
  BY <1>1, <1>5, <1>7 DEF Inv, KnownRows
<1>. QED
  BY <1>3, <1>5, <1>7, <1>10, <1>11, <1>12, StepPreservesInv

LEMMA SnapshotInv ==
  ASSUME Inv, NEW p \in Procs, Snapshot(p)
  PROVE  Inv'
<1>1. PICK x \in LocalState : x = proc[p] /\ LocalOK(p, x) /\ Held(x) \subseteq Created
  BY BeforeStep
<1>2. PICK rows \in SUBSET Created :
        Go(p, [x EXCEPT !.pc = "scan", !.todo = rows])
  <2>1. {d \in InState("queued") : row[d].server = x.srv} \in SUBSET Created
    BY DEF InState, Created
  <2>. QED  BY <1>1, <2>1 DEF Snapshot
<1>3. PICK n : n = [x EXCEPT !.pc = "scan", !.todo = rows]
  OBVIOUS
<1>4. x.pc = "snapshot" /\ Created \subseteq D
  BY <1>1 DEF Snapshot, At, Created
<1>5. /\ n \in LocalState /\ LocalOK(p, n) /\ Held(n) \subseteq Held(x) \cup rows
      /\ Working(n) = Working(x) /\ Driving(n) = Driving(x)
  BY <1>1, <1>2, <1>3, <1>4
  DEF LocalState, PCs, LocalOK, Held, Working, Driving, Pushing
<1>. QED  BY <1>1, <1>2, <1>3, <1>5, QuietStep DEF Snapshot

LEMMA ScanInv ==
  ASSUME Inv, NEW p \in Procs, Scan(p)
  PROVE  Inv'
<1>1. PICK x \in LocalState : x = proc[p] /\ LocalOK(p, x) /\ Held(x) \subseteq Created
  BY BeforeStep
<1>2. PICK d \in x.todo :
        \/ Go(p, [x EXCEPT !.pc = "start", !.cur = d, !.todo = x.todo \ {d}])
        \/ Go(p, [x EXCEPT !.todo = x.todo \ {d}])
  BY <1>1 DEF Scan
<1>3. PICK n : /\ Go(p, n)
               /\ \/ n = [x EXCEPT !.pc = "start", !.cur = d,
                                   !.todo = x.todo \ {d}]
                  \/ n = [x EXCEPT !.todo = x.todo \ {d}]
  BY <1>2
<1>4. x.pc = "scan" /\ d \in D
  BY <1>1, <1>2 DEF Scan, At, LocalState
<1>5. /\ n \in LocalState /\ LocalOK(p, n) /\ Held(n) \subseteq Held(x)
      /\ Working(n) = Working(x) /\ Driving(n) = Driving(x)
  <2>1. CASE n = [x EXCEPT !.pc = "start", !.cur = d, !.todo = x.todo \ {d}]
    BY <2>1, <1>1, <1>2, <1>4
    DEF LocalState, PCs, LocalOK, Held, Working, Driving, Pushing
  <2>2. CASE n = [x EXCEPT !.todo = x.todo \ {d}]
    BY <2>2, <1>1, <1>2, <1>4
    DEF LocalState, PCs, LocalOK, Held, Working, Driving, Pushing
  <2>. QED  BY <2>1, <2>2, <1>3
<1>. QED  BY <1>1, <1>3, <1>5, QuietStep DEF Scan

LEMMA ScanEndInv ==
  ASSUME Inv, NEW p \in Procs, ScanEnd(p)
  PROVE  Inv'
<1>1. PICK x \in LocalState : x = proc[p] /\ LocalOK(p, x) /\ Held(x) \subseteq Created
  BY BeforeStep
<1>2. x.pc = "scan" /\ Driving(x) = {}
  BY <1>1 DEF ScanEnd, At, Driving, Pushing
<1>3. CASE x.back = "idle"
  BY <1>1, <1>2, <1>3, IdleProcFacts, QuietStep DEF ScanEnd, Idle
<1>4. CASE x.back # "idle"
  <2>1. PICK n : n = [x EXCEPT !.pc = x.back, !.cur = 0, !.back = "idle"]
    OBVIOUS
  <2>2. /\ n \in LocalState /\ LocalOK(p, n) /\ Held(n) \subseteq Held(x)
        /\ Working(n) = Working(x)
    BY <1>1, <1>2, <1>4, <2>1
    DEF LocalState, PCs, LocalOK, Held, Working, Pushing
  <2>3. Go(p, n)
    BY <1>1, <1>4, <2>1 DEF ScanEnd
  <2>. QED  BY <1>1, <1>2, <2>2, <2>3, QuietStep DEF ScanEnd
<1>. QED  BY <1>3, <1>4

LEMMA StartInv ==
  ASSUME Inv, NEW p \in Procs, Start(p)
  PROVE  Inv'
<1>1. PICK x \in LocalState : x = proc[p] /\ LocalOK(p, x) /\ Held(x) \subseteq Created
  BY BeforeStep
<1>2. PICK n : n = [x EXCEPT !.pc = "dispatch"]
  OBVIOUS
<1>3. x.pc = "start" /\ x.cur \in D
  BY <1>1 DEF Start, At, LocalOK
<1>4. /\ n \in LocalState /\ LocalOK(p, n) /\ Held(n) = Held(x)
      /\ Working(n) = Working(x) \cup {x.cur} /\ Driving(n) = {x.cur}
      /\ Driving(x) = {} /\ x.cur \in Held(x)
  BY <1>1, <1>2, <1>3
  DEF LocalState, PCs, LocalOK, Held, Working, Driving, Pushing, D
<1>5. "in_progress" \in Statuses \ {"none", "queued"}
  BY DEF Statuses, Active
<1>. QED  BY <1>1, <1>2, <1>4, <1>5, WriteStep DEF Start

LEMMA DispatchInv ==
  ASSUME Inv, NEW p \in Procs, Dispatch(p)
  PROVE  Inv'
<1>1. PICK x \in LocalState : x = proc[p] /\ LocalOK(p, x) /\ Held(x) \subseteq Created
  BY BeforeStep
<1>2. PICK n : n = [x EXCEPT !.pc = "scan", !.cur = 0]
  OBVIOUS
<1>3. x.pc = "dispatch" /\ x.cur \in D
  BY <1>1 DEF Dispatch, At, LocalOK
<1>4. /\ n \in LocalState /\ LocalOK(p, n) /\ Held(n) \subseteq Held(x)
      /\ Working(n) \subseteq Working(x) /\ Driving(x) = {x.cur}
      /\ x.cur \in Working(x) /\ x.cur \in Held(x)
  <2>1. n \in LocalState
    BY <1>1, <1>2 DEF LocalState, PCs
  <2>2. /\ n.pc = "scan" /\ n.cur = 0 /\ n.todo = x.todo /\ n.job = x.job
        /\ n.req = x.req /\ n.hold = x.hold /\ n.back = x.back
        /\ n.failed = x.failed
    BY <1>1, <1>2 DEF LocalState
  <2>3. LocalOK(p, n)
    BY <1>1, <1>3, <2>2 DEF LocalOK
  <2>. QED
    BY <1>3, <2>1, <2>2, <2>3 DEF Held, Working, Driving, Pushing, D
<1>5. /\ Go(p, n) /\ pending' = [pending EXCEPT ![x.cur] = @ + 1]
      /\ orphans' = orphans \ {x.cur}
      /\ UNCHANGED <<status, row, reserved, usable, faults>>
  BY <1>1, <1>2 DEF Dispatch
<1>6. /\ TypeOK' /\ Created' = Created
      /\ \A d \in D : HasJob(d)' <=> HasJob(d) \/ d = x.cur
  BY <1>3, <1>4, <1>5 DEF Inv, TypeOK, Go, HasJob, Created
<1>7. \A d \in D : status'[d] = "queued" =>
        ~HasJob(d)' /\ d \notin Working(n) /\ status[d] = "queued"
  BY <1>1, <1>4, <1>5, <1>6 DEF Inv, QueuedNotDispatched, InState
<1>8. \A d \in D : status'[d] = "in_progress" /\ d \notin orphans' =>
        \/ HasJob(d)' \/ d \in Driving(n)
        \/ /\ status[d] = "in_progress" /\ d \notin orphans
           /\ ~HasJob(d) /\ d \notin Driving(proc[p])
  BY <1>1, <1>4, <1>5, <1>6
<1>9. /\ \A d \in Created : d \in Created' /\ row'[d] \in Rows
      /\ \A d \in Created' : row'[d] \in Rows
      /\ \A d \in D : HasJob(d)' => d \in Created'
  BY <1>1, <1>4, <1>5, <1>6 DEF Inv, KnownRows
<1>. QED  BY <1>1, <1>4, <1>5, <1>6, <1>7, <1>8, <1>9, StepPreservesInv

LEMMA DispatchThrowsInv ==
  ASSUME Inv, NEW p \in Procs, DispatchThrows(p)
  PROVE  Inv'
<1>1. PICK x \in LocalState : x = proc[p] /\ LocalOK(p, x) /\ Held(x) \subseteq Created
  BY BeforeStep
<1>2. x.pc = "dispatch" /\ x.cur \in D /\ Driving(x) = {x.cur}
  BY <1>1 DEF DispatchThrows, At, LocalOK, Driving, Pushing
<1>3. /\ orphans' \in SUBSET D /\ orphans \subseteq orphans'
      /\ \A d \in InState("in_progress") \cap Driving(x) : d \in orphans'
  BY <1>1, <1>2 DEF DispatchThrows, Orphaned, InState, Inv, TypeOK
<1>4. /\ reserved' \in [D -> Nat] /\ reserved' = reserved
      /\ faults' \in 0..MaxFaults
      /\ \A d \in D : reserved[d] > 0 => HasJob(d)
      /\ UNCHANGED <<status, row, pending, usable>>
  BY DEF DispatchThrows, Inv, TypeOK, HasJob
<1>5. CASE InHandle(p)
  <2>1. p \in Workers /\ x.job \in D
    BY <1>1, <1>5 DEF InHandle, At, LocalOK
  <2>2. x.job \in Held(x) /\ x.job \in Working(x)
    BY <2>1 DEF Held, Working, D
  <2>3. Go(p, FailedProc(x.job))
    BY <1>1, <1>5 DEF DispatchThrows, FailJob
  <2>. QED
    BY <1>1, <1>3, <1>4, <2>1, <2>2, <2>3, FailedProcFacts, AbandonStep
<1>6. CASE ~InHandle(p)
  <2>1. Go(p, IdleProc)
    BY <1>6 DEF DispatchThrows, Idle
  <2>. QED  BY <1>1, <1>3, <1>4, <2>1, IdleProcFacts, AbandonStep
<1>. QED  BY <1>5, <1>6

LEMMA MarkInv ==
  ASSUME Inv, NEW p \in Procs, Mark(p)
  PROVE  Inv'
<1>1. PICK x \in LocalState : x = proc[p] /\ LocalOK(p, x) /\ Held(x) \subseteq Created
  BY BeforeStep
<1>2. PICK n : n = [x EXCEPT !.pc = "run", !.hold = "none"]
  OBVIOUS
<1>3. x.pc = "mark" /\ x.job \in D /\ x.back = "idle"
  BY <1>1 DEF Mark, At, LocalOK, Procs
<1>4. /\ n \in LocalState /\ LocalOK(p, n) /\ Held(n) = Held(x)
      /\ Working(n) = Working(x) /\ Driving(n) = {x.job}
      /\ Driving(x) = {x.job} /\ x.job \in Held(x)
  <2>1. n \in LocalState
    BY <1>1, <1>2 DEF LocalState, PCs, Statuses
  <2>2. /\ n.pc = "run" /\ n.cur = x.cur /\ n.todo = x.todo /\ n.job = x.job
        /\ n.req = x.req /\ n.hold = "none" /\ n.back = x.back
        /\ n.failed = x.failed
    BY <1>1, <1>2 DEF LocalState
  <2>3. LocalOK(p, n)
    BY <1>1, <1>3, <2>2 DEF LocalOK
  <2>. QED
    BY <1>3, <2>1, <2>2, <2>3 DEF Held, Working, Driving, Pushing, D
<1>5. CASE x.hold = "in_progress"
  <2>1. status' = status
    BY <1>1, <1>5 DEF Mark
  <2>. QED  BY <1>1, <1>2, <1>4, <2>1, QuietStep DEF Mark
<1>6. CASE x.hold # "in_progress"
  <2>1. status' = [status EXCEPT ![x.job] = "in_progress"]
    BY <1>1, <1>6 DEF Mark
  <2>2. "in_progress" \in Statuses \ {"none", "queued"}
    BY DEF Statuses, Active
  <2>. QED  BY <1>1, <1>2, <1>4, <2>1, <2>2, WriteStep DEF Mark
<1>. QED  BY <1>5, <1>6

LEMMA RunEndsInv ==
  ASSUME Inv, NEW p \in Procs, RunEnds(p)
  PROVE  Inv'
<1>1. PICK x \in LocalState : x = proc[p] /\ LocalOK(p, x) /\ Held(x) \subseteq Created
  BY BeforeStep
<1>2. PICK outcome \in Closed :
        Go(p, [x EXCEPT !.pc = "settle", !.hold = outcome])
  BY <1>1 DEF RunEnds
<1>3. PICK n : n = [x EXCEPT !.pc = "settle", !.hold = outcome]
  OBVIOUS
<1>4. x.pc = "run"
  BY <1>1 DEF RunEnds, At
<1>5. /\ n \in LocalState /\ LocalOK(p, n) /\ Held(n) = Held(x)
      /\ Working(n) = Working(x) /\ Driving(n) = Driving(x)
  BY <1>1, <1>2, <1>3, <1>4
  DEF LocalState, PCs, Statuses, LocalOK, Held, Working, Driving, Pushing
<1>. QED  BY <1>1, <1>2, <1>3, <1>5, QuietStep DEF RunEnds

LEMMA BuildFailsInv ==
  ASSUME Inv, NEW p \in Workers, BuildFails(p)
  PROVE  Inv'
<1>. p \in Procs
  BY DEF Procs
<1>1. PICK x \in LocalState : x = proc[p] /\ LocalOK(p, x) /\ Held(x) \subseteq Created
  BY BeforeStep
<1>2. x.pc = "run" /\ x.job \in D
  BY <1>1 DEF BuildFails, At, LocalOK
<1>3. x.job \in Held(x) /\ Working(x) = {x.job} /\ Driving(x) = {x.job}
  BY <1>2 DEF Held, Working, Driving, Pushing, D
<1>. QED
  BY <1>1, <1>2, <1>3, FailedProcFacts, QuietStep DEF BuildFails, FailJob

LEMMA SettleInv ==
  ASSUME Inv, NEW p \in Procs, Settle(p)
  PROVE  Inv'
<1>1. PICK x \in LocalState : x = proc[p] /\ LocalOK(p, x) /\ Held(x) \subseteq Created
  BY BeforeStep
<1>2. x.pc = "settle" /\ p \in Workers /\ x.job \in D /\ x.hold \in Closed
  BY <1>1 DEF Settle, At, LocalOK, Procs
<1>3. x.job \in Held(x) /\ Working(x) = {x.job} /\ Driving(x) = {x.job}
  BY <1>2 DEF Held, Working, Driving, Pushing, D
<1>4. /\ UNCHANGED <<status, row, pending, reserved, usable, orphans, faults>>
      /\ usable' \in SUBSET Apps /\ faults' \in 0..MaxFaults
  BY DEF Settle, Inv, TypeOK
<1>5. CASE Idle(p) /\ status[x.job] # "in_progress"
  <2>1. \A d \in InState("in_progress") : d \notin Driving(x)
    BY <1>3, <1>5 DEF InState
  <2>2. \A d \in InState("queued") : d \notin Working(IdleProc)
    BY IdleProcFacts DEF InState, D
  <2>. QED
    BY <1>1, <1>4, <1>5, <2>1, <2>2, IdleProcFacts, LocalStep DEF Idle
<1>6. CASE FailJob(p, x.job)
  BY <1>1, <1>2, <1>3, <1>4, <1>6, FailedProcFacts, QuietStep DEF FailJob
<1>7. CASE Go(p, [x EXCEPT !.hold = "finished"])
  <2>1. PICK n : n = [x EXCEPT !.hold = "finished"]
    OBVIOUS
  <2>2. /\ n \in LocalState /\ LocalOK(p, n) /\ Held(n) = Held(x)
        /\ Working(n) = Working(x) /\ Driving(n) = Driving(x)
    BY <1>1, <1>2, <2>1
    DEF LocalState, PCs, Statuses, Closed, LocalOK, Held, Working, Driving,
        Pushing
  <2>. QED  BY <1>1, <1>4, <1>7, <2>1, <2>2, QuietStep
<1>8. CASE Go(p, [x EXCEPT !.pc = "close"])
  <2>1. PICK n : n = [x EXCEPT !.pc = "close"]
    OBVIOUS
  <2>2. /\ n \in LocalState /\ LocalOK(p, n) /\ Held(n) = Held(x)
        /\ Working(n) = Working(x) /\ Driving(n) = Driving(x)
    BY <1>1, <1>2, <2>1
    DEF LocalState, PCs, LocalOK, Held, Working, Driving, Pushing
  <2>. QED  BY <1>1, <1>4, <1>8, <2>1, <2>2, QuietStep
<1>9. \/ Idle(p) /\ status[x.job] # "in_progress"
      \/ FailJob(p, x.job)
      \/ Go(p, [x EXCEPT !.hold = "finished"])
      \/ Go(p, [x EXCEPT !.pc = "close"])
  <2>1. CASE status[x.job] = "cancelled"
    BY <1>1, <2>1 DEF Settle
  <2>2. CASE status[x.job] \in Closed
    BY <1>1, <2>2 DEF Settle, Closed
  <2>3. CASE status[x.job] # "cancelled" /\ status[x.job] \notin Closed
    BY <1>1, <2>3 DEF Settle
  <2>. QED  BY <2>1, <2>2, <2>3
<1>. QED  BY <1>5, <1>6, <1>7, <1>8, <1>9

LEMMA CloseInv ==
  ASSUME Inv, NEW p \in Procs, Close(p)
  PROVE  Inv'
<1>1. PICK x \in LocalState : x = proc[p] /\ LocalOK(p, x) /\ Held(x) \subseteq Created
  BY BeforeStep
<1>2. x.pc = "close" /\ p \in Workers /\ x.job \in D /\ x.hold \in Closed
  BY <1>1 DEF Close, At, LocalOK, Procs
<1>3. x.job \in Held(x) /\ Driving(x) = {x.job}
  BY <1>2 DEF Held, Driving, Pushing, D
<1>4. PICK servers :
        servers = IF x.hold = "finished" THEN AdditionalServers(x.job) ELSE {}
  OBVIOUS
<1>5. servers \subseteq Servers
  <2>1. row[x.job] \in Rows
    BY <1>1, <1>3 DEF Inv, KnownRows
  <2>2. Extra[row[x.job].app] \subseteq Servers
    BY <2>1, TopologyAssumption DEF Rows
  <2>. QED  BY <1>4, <2>2 DEF AdditionalServers
<1>6. PICK n : n = [x EXCEPT !.pc = "effects", !.fan = servers]
  OBVIOUS
<1>7. /\ n \in LocalState /\ LocalOK(p, n)
      /\ Held(n) = Held(x) /\ Working(n) = Working(x)
  <2>1. n \in LocalState
    BY <1>1, <1>5, <1>6 DEF LocalState, PCs
  <2>2. /\ n.pc = "effects" /\ n.cur = x.cur /\ n.todo = x.todo
        /\ n.job = x.job /\ n.req = x.req /\ n.hold = x.hold
        /\ n.back = x.back /\ n.failed = x.failed
    BY <1>1, <1>6 DEF LocalState
  <2>3. LocalOK(p, n)
    BY <1>1, <1>2, <2>2, ProcessAssumption DEF LocalOK
  <2>. QED  BY <1>2, <2>1, <2>2, <2>3 DEF Held, Working, Pushing
<1>8. Go(p, n) /\ status' = [status EXCEPT ![x.job] = x.hold]
  BY <1>1, <1>4, <1>6 DEF Close
<1>9. x.job \in Created /\ x.hold \in Statuses \ {"none", "queued"}
      /\ x.hold # "in_progress"
  BY <1>1, <1>2, <1>3 DEF Statuses, Closed
<1>. QED  BY <1>1, <1>3, <1>7, <1>8, <1>9, WriteStep DEF Close

LEMMA FanOutInv ==
  ASSUME Inv, NEW p \in Procs, FanOut(p)
  PROVE  Inv'
<1>1. PICK x \in LocalState : x = proc[p] /\ LocalOK(p, x) /\ Held(x) \subseteq Created
  BY BeforeStep
<1>2. x.pc = "effects" /\ p \in Workers /\ x.job \in D
  BY <1>1 DEF FanOut, At, LocalOK, Procs
<1>3. row[x.job] \in Rows
  BY <1>1, <1>2 DEF Held, D, Inv, KnownRows
<1>4. PICK s, r :
        /\ s \in x.fan
        /\ r = [app |-> row[x.job].app, lane |-> 0, server |-> s,
                commit |-> HeadCommit, force |-> FALSE, instant |-> TRUE,
                only |-> FALSE]
        /\ \/ Go(p, [x EXCEPT !.pc = "insert", !.req = r,
                              !.fan = x.fan \ {s}, !.back = "effects"])
           \/ Go(p, [x EXCEPT !.fan = x.fan \ {s}])
  BY <1>1 DEF FanOut
<1>5. r \in Rows
  BY <1>1, <1>3, <1>4, TopologyAssumption DEF Rows, LocalState
<1>6. PICK n : /\ Go(p, n)
               /\ \/ n = [x EXCEPT !.pc = "insert", !.req = r,
                                   !.fan = x.fan \ {s}, !.back = "effects"]
                  \/ n = [x EXCEPT !.fan = x.fan \ {s}]
  BY <1>4
<1>7. /\ n \in LocalState /\ LocalOK(p, n) /\ Held(n) = Held(x)
      /\ Working(n) = Working(x) /\ Driving(n) = Driving(x)
  <2>1. CASE n = [x EXCEPT !.pc = "insert", !.req = r,
                           !.fan = x.fan \ {s}, !.back = "effects"]
    <3>1. n \in LocalState
      BY <2>1, <1>1, <1>5 DEF LocalState, PCs
    <3>2. /\ n.pc = "insert" /\ n.cur = x.cur /\ n.todo = x.todo
          /\ n.job = x.job /\ n.req = r /\ n.hold = x.hold
          /\ n.back = "effects" /\ n.failed = x.failed
      BY <2>1, <1>1 DEF LocalState
    <3>3. LocalOK(p, n)
      BY <1>2, <1>5, <3>2, ProcessAssumption DEF LocalOK
    <3>. QED
      BY <1>2, <3>1, <3>2, <3>3 DEF Held, Working, Driving, Pushing
  <2>2. CASE n = [x EXCEPT !.fan = x.fan \ {s}]
    <3>1. n \in LocalState
      BY <2>2, <1>1 DEF LocalState
    <3>2. /\ n.pc = x.pc /\ n.cur = x.cur /\ n.todo = x.todo
          /\ n.job = x.job /\ n.req = x.req /\ n.hold = x.hold
          /\ n.back = x.back /\ n.failed = x.failed
      BY <2>2, <1>1 DEF LocalState
    <3>3. LocalOK(p, n)
      BY <1>1, <1>2, <3>2 DEF LocalOK
    <3>. QED
      BY <1>2, <3>1, <3>2, <3>3 DEF Held, Working, Driving, Pushing
  <2>. QED  BY <2>1, <2>2, <1>6
<1>. QED  BY <1>1, <1>6, <1>7, QuietStep DEF FanOut

LEMMA EffectsEndInv ==
  ASSUME Inv, NEW p \in Procs, EffectsEnd(p)
  PROVE  Inv'
<1>1. PICK x \in LocalState : x = proc[p] /\ LocalOK(p, x) /\ Held(x) \subseteq Created
  BY BeforeStep
<1>2. x.pc = "effects" /\ p \in Workers /\ x.job \in D
  BY <1>1 DEF EffectsEnd, At, LocalOK, Procs
<1>3. PICK s, b :
        /\ s = Home[row[x.job].app] /\ b \in {"idle", "settle"}
        /\ Go(p, [x EXCEPT !.pc = "snapshot", !.srv = s,
                           !.hold = "finished", !.back = b])
  BY <1>1 DEF EffectsEnd
<1>4. s \in Servers
  <2>1. row[x.job] \in Rows
    BY <1>1, <1>2 DEF Held, D, Inv, KnownRows
  <2>. QED  BY <1>3, <2>1, TopologyAssumption DEF Rows
<1>5. PICK n : n = [x EXCEPT !.pc = "snapshot", !.srv = s,
                             !.hold = "finished", !.back = b]
  OBVIOUS
<1>6. /\ n \in LocalState /\ LocalOK(p, n) /\ Held(n) = Held(x)
      /\ Working(n) = Working(x) /\ Driving(n) = Driving(x)
  <2>1. n \in LocalState
    BY <1>1, <1>3, <1>4, <1>5 DEF LocalState, PCs, Statuses, Closed
  <2>2. /\ n.pc = "snapshot" /\ n.cur = x.cur /\ n.todo = x.todo
        /\ n.job = x.job /\ n.req = x.req /\ n.hold = "finished"
        /\ n.back = b /\ n.failed = x.failed
    BY <1>1, <1>5 DEF LocalState
  <2>3. LocalOK(p, n)
    BY <1>2, <1>3, <2>2, ProcessAssumption DEF LocalOK, Closed
  <2>. QED
    BY <1>2, <2>1, <2>2, <2>3 DEF Held, Working, Driving, Pushing
<1>. QED  BY <1>1, <1>3, <1>5, <1>6, QuietStep DEF EffectsEnd

(* What a process that gives up everything, or moves on to failed(), has   *)
(* left behind.                                                            *)
LEMMA MishapFacts ==
  ASSUME Inv, NEW kind, Mishap(kind)
  PROVE  faults' \in 0..MaxFaults
BY BoundAssumption DEF Mishap, Inv, TypeOK

LEMMA EffectsThrowInv ==
  ASSUME Inv, NEW p \in Procs, EffectsThrow(p)
  PROVE  Inv'
<1>1. PICK x \in LocalState : x = proc[p] /\ LocalOK(p, x) /\ Held(x) \subseteq Created
  BY BeforeStep
<1>2. x.pc = "effects" /\ p \in Workers /\ x.job \in D
  BY <1>1 DEF EffectsThrow, At, LocalOK, Procs
<1>3. x.job \in Held(x) /\ Working(x) = {x.job} /\ Driving(x) = {}
  BY <1>2 DEF Held, Working, Driving, Pushing, D
<1>4. /\ UNCHANGED <<status, row, pending, reserved, usable, orphans>>
      /\ reserved' \in [D -> Nat] /\ orphans' \in SUBSET D
      /\ faults' \in 0..MaxFaults
      /\ \A d \in D : reserved[d] > 0 => HasJob(d)
  BY MishapFacts DEF EffectsThrow, Inv, TypeOK, HasJob
<1>5. CASE Go(p, IdleProc)
  BY <1>1, <1>3, <1>4, <1>5, IdleProcFacts, AbandonStep
<1>6. CASE Go(p, FailedProc(x.job))
  BY <1>1, <1>2, <1>3, <1>4, <1>6, FailedProcFacts, AbandonStep
<1>. QED  BY <1>1, <1>5, <1>6 DEF EffectsThrow, Idle, FailJob

LEMMA TimeoutInv ==
  ASSUME Inv, NEW p \in Procs, Timeout(p)
  PROVE  Inv'
<1>1. PICK x \in LocalState : x = proc[p] /\ LocalOK(p, x) /\ Held(x) \subseteq Created
  BY BeforeStep
<1>2. p \in Workers /\ x.job \in D
  BY <1>1 DEF Timeout, InHandle, At, LocalOK
<1>3. x.job \in Held(x) /\ x.job \in Working(x)
  BY <1>2 DEF Held, Working, D
<1>4. /\ UNCHANGED <<status, row, pending, reserved, usable>>
      /\ reserved' \in [D -> Nat] /\ faults' \in 0..MaxFaults
      /\ \A d \in D : reserved[d] > 0 => HasJob(d)
  BY MishapFacts DEF Timeout, Inv, TypeOK, HasJob
<1>5. orphans' = orphans \cup Dropped(p)
  BY DEF Timeout
<1>6. orphans' \in SUBSET D /\ orphans \subseteq orphans'
  BY <1>5 DEF Dropped, Orphaned, Inv, TypeOK
<1>7. \A d \in InState("in_progress") \cap Driving(x) :
        d \in {x.job} \/ d \in orphans'
  BY <1>1, <1>5 DEF Driving, Pushing, Dropped, Orphaned, InState, At
<1>8. Go(p, FailedProc(x.job))
  BY <1>1 DEF Timeout, FailJob
<1>. QED
  BY <1>1, <1>2, <1>3, <1>4, <1>6, <1>7, <1>8, FailedProcFacts, AbandonStep

LEMMA DieInv ==
  ASSUME Inv, NEW p \in Procs, Die(p)
  PROVE  Inv'
<1>1. PICK x \in LocalState : x = proc[p] /\ LocalOK(p, x) /\ Held(x) \subseteq Created
  BY BeforeStep
<1>2. x.pc # "idle" /\ (p \in Workers => x.job \in D)
  BY <1>1 DEF Die, At, LocalOK
<1>3. UNCHANGED <<status, row, pending, usable>> /\ faults' \in 0..MaxFaults
  BY MishapFacts DEF Die
<1>4. \A d \in D : reserved'[d] = IF InHandle(p) /\ d = x.job
                                   THEN reserved[d] + 1 ELSE reserved[d]
  BY <1>1 DEF Die
<1>5. /\ reserved' \in [D -> Nat]
      /\ \A d \in D : reserved[d] > 0 => reserved'[d] > 0
      /\ \A d \in D : reserved'[d] > 0 => HasJob(d) \/ d \in Working(x)
  <2>1. reserved \in [D -> Nat]
    BY DEF Inv, TypeOK
  <2>2. reserved' = [d \in D |-> IF InHandle(p) /\ d = x.job
                                  THEN reserved[d] + 1 ELSE reserved[d]]
    BY <1>1 DEF Die
  <2>3. reserved' \in [D -> Nat]
    BY <2>1, <2>2
  <2>. QED  BY <2>1, <2>3, <1>4 DEF HasJob, Working
<1>6. orphans' = orphans \cup Dropped(p)
                 \cup (IF x.failed THEN Orphaned({x.job}) ELSE {})
  BY <1>1 DEF Die
<1>7. orphans' \in SUBSET D /\ orphans \subseteq orphans'
  BY <1>6 DEF Dropped, Orphaned, Inv, TypeOK
<1>8. \A d \in InState("in_progress") \cap Driving(x) :
        d \in orphans' \/ reserved'[d] > 0
  <2>. SUFFICES ASSUME NEW d \in InState("in_progress") \cap Driving(x)
                PROVE  d \in orphans' \/ reserved'[d] > 0
    OBVIOUS
  <2>1. CASE d \in Pushing(x)
    BY <2>1, <1>1, <1>6 DEF Pushing, Dropped, Orphaned, InState, At
  <2>2. CASE d \notin Pushing(x)
    <3>1. d = x.job /\ x.pc \in {"mark", "run", "settle", "close"} /\ d \in D
      BY <2>2 DEF Driving, InState
    <3>2. p \in Workers
      BY <1>1, <3>1 DEF LocalOK, Procs
    <3>3. CASE x.failed
      BY <3>1, <3>3, <1>6 DEF Orphaned, InState
    <3>4. CASE ~x.failed
      <4>1. InHandle(p)
        BY <3>2, <3>4, <1>1, <1>2 DEF InHandle, At
      <4>2. reserved[d] \in Nat
        BY <3>1 DEF Inv, TypeOK
      <4>. QED  BY <4>1, <4>2, <3>1, <1>4
    <3>. QED  BY <3>3, <3>4
  <2>. QED  BY <2>1, <2>2
<1>9. Go(p, IdleProc)
  BY DEF Die, Idle
<1>. QED
  BY <1>1, <1>3, <1>5, <1>7, <1>8, <1>9, IdleProcFacts, AbandonStep

LEMMA RedeliverInv ==
  ASSUME Inv, NEW p \in Workers, Redeliver(p)
  PROVE  Inv'
<1>. p \in Procs
  BY DEF Procs
<1>1. PICK d \in D :
        /\ reserved[d] > 0
        /\ reserved' = [reserved EXCEPT ![d] = @ - 1]
        /\ Go(p, FailedProc(d))
  BY DEF Redeliver, FailJob
<1>2. /\ proc[p].pc = "idle" /\ HasJob(d)
      /\ UNCHANGED <<status, row, pending, usable, orphans, faults>>
  BY <1>1 DEF Redeliver, Begin, At, HasJob
<1>3. /\ pending' \in [D -> Nat] /\ reserved' \in [D -> Nat]
      /\ \A e \in D \ {d} : pending'[e] = pending[e] /\ reserved'[e] = reserved[e]
  BY <1>1, <1>2 DEF Inv, TypeOK
<1>. QED  BY <1>1, <1>2, <1>3, FailedProcFacts, TakeStep

LEMMA PickInv ==
  ASSUME Inv, NEW p \in Workers, Pick(p)
  PROVE  Inv'
<1>. p \in Procs
  BY DEF Procs
<1>1. PICK x \in LocalState : x = proc[p] /\ LocalOK(p, x) /\ Held(x) \subseteq Created
  BY BeforeStep
<1>2. x = IdleProc
  BY <1>1 DEF Pick, Begin, At, LocalOK
<1>3. PICK d \in D :
        /\ pending[d] > 0
        /\ pending' = [pending EXCEPT ![d] = @ - 1]
        /\ IF status[d] = "cancelled" THEN UNCHANGED proc
           ELSE Go(p, [x EXCEPT !.pc = "mark", !.job = d, !.hold = status[d]])
  BY <1>1 DEF Pick
<1>4. /\ proc[p].pc = "idle" /\ HasJob(d)
      /\ UNCHANGED <<status, row, reserved, usable, orphans, faults>>
  BY <1>3 DEF Pick, Begin, At, HasJob
<1>5. /\ pending' \in [D -> Nat] /\ reserved' \in [D -> Nat]
      /\ \A e \in D \ {d} : pending'[e] = pending[e] /\ reserved'[e] = reserved[e]
  BY <1>3, <1>4 DEF Inv, TypeOK
<1>6. CASE status[d] = "cancelled"
  <2>1. Go(p, IdleProc)
    BY <1>1, <1>2, <1>3, <1>6 DEF Go, Inv, TypeOK
  <2>. QED  BY <2>1, <1>3, <1>4, <1>5, <1>6, IdleProcFacts, TakeStep
<1>7. CASE status[d] # "cancelled"
  <2>1. PICK n : n = [x EXCEPT !.pc = "mark", !.job = d, !.hold = status[d]]
    OBVIOUS
  <2>2. /\ n.pc = "mark" /\ n.job = d /\ n.cur = 0 /\ n.todo = {}
        /\ n.req = NoRow /\ n.back = "idle" /\ n.failed = FALSE
        /\ n.hold = status[d]
    BY <2>1, <1>2 DEF IdleProc, Frame
  <2>3. n \in LocalState
    BY <2>1, <1>1, <1>3 DEF LocalState, PCs, Inv, TypeOK
  <2>4. LocalOK(p, n)
    BY <2>2, <1>3, ProcessAssumption DEF LocalOK
  <2>5. Held(n) = {d} /\ Working(n) = {d} /\ Driving(n) = {d}
    BY <2>2, <1>3 DEF Held, Working, Driving, Pushing, D
  <2>6. Go(p, n)
    BY <1>3, <1>7, <2>1
  <2>. QED  BY <2>3, <2>4, <2>5, <2>6, <1>3, <1>4, <1>5, TakeStep
<1>. QED  BY <1>6, <1>7

(* A request that begins is idle before, and holds nothing.                *)
LEMMA IdleRequest ==
  ASSUME Inv, NEW p \in Requests, Begin(p)
  PROVE  p \in Procs /\ p \notin Workers /\ proc[p] = IdleProc
BY ProcessAssumption DEF Begin, At, Procs, Inv, ProcOK, LocalOK

(* A request that begins by taking rows in hand.                           *)
LEMMA TakeRowsStep ==
  ASSUME Inv, NEW p \in Requests, Begin(p), NEW n \in LocalState, Go(p, n),
         n.pc \in {"start", "apicancel", "sweep"},
         n.job = 0, n.back = "idle", ~n.failed,
         n.pc \in {"start", "apicancel"} => n.cur \in D,
         n.pc = "sweep" => n.hold \in {"failed", "cancelled"},
         Held(n) \subseteq Created,
         UNCHANGED <<status, row, pending, reserved, usable, orphans, faults>>
  PROVE  Inv'
<1>1. p \in Procs /\ p \notin Workers /\ proc[p] = IdleProc
  BY IdleRequest
<1>2. LocalOK(p, n)
  BY <1>1 DEF LocalOK
<1>3. Working(n) = {0}
  BY DEF Working, Pushing
<1>4. Driving(IdleProc) = {}
  BY <1>1, IdleProcFacts
<1>. QED  BY <1>1, <1>2, <1>3, <1>4, QuietStep

LEMMA ForceStartClickInv ==
  ASSUME Inv, NEW p \in Requests, ForceStartClick(p)
  PROVE  Inv'
<1>1. PICK x : x = proc[p] /\ x = IdleProc /\ Begin(p)
  BY IdleRequest DEF ForceStartClick
<1>2. PICK d \in Created : Go(p, [x EXCEPT !.pc = "start", !.cur = d])
  BY <1>1 DEF ForceStartClick
<1>3. PICK n : n = [x EXCEPT !.pc = "start", !.cur = d]
  OBVIOUS
<1>4. /\ n.pc = "start" /\ n.job = 0 /\ n.cur = d /\ n.todo = {}
      /\ n.back = "idle" /\ n.failed = FALSE
  BY <1>1, <1>3 DEF IdleProc, Frame
<1>5. n \in LocalState /\ d \in D
  BY <1>1, <1>2, <1>3, IdleProcType DEF LocalState, PCs, Created
<1>6. Held(n) \subseteq Created
  BY <1>2, <1>4 DEF Held
<1>. QED
  BY <1>1, <1>2, <1>3, <1>4, <1>5, <1>6, TakeRowsStep DEF ForceStartClick

LEMMA CancelDeploymentInv ==
  ASSUME Inv, NEW p \in Requests, CancelDeployment(p)
  PROVE  Inv'
<1>1. PICK x : x = proc[p] /\ x = IdleProc /\ Begin(p)
  BY IdleRequest DEF CancelDeployment
<1>2. PICK d \in Created : Go(p, [x EXCEPT !.pc = "apicancel", !.cur = d])
  BY <1>1 DEF CancelDeployment
<1>3. PICK n : n = [x EXCEPT !.pc = "apicancel", !.cur = d]
  OBVIOUS
<1>4. /\ n.pc = "apicancel" /\ n.job = 0 /\ n.cur = d /\ n.todo = {}
      /\ n.back = "idle" /\ n.failed = FALSE
  BY <1>1, <1>3 DEF IdleProc, Frame
<1>5. n \in LocalState /\ d \in D
  BY <1>1, <1>2, <1>3, IdleProcType DEF LocalState, PCs, Created
<1>6. Held(n) \subseteq Created
  BY <1>2, <1>4 DEF Held
<1>. QED
  BY <1>1, <1>2, <1>3, <1>4, <1>5, <1>6, TakeRowsStep DEF CancelDeployment

LEMMA CancelActiveDeploymentsInv ==
  ASSUME Inv, NEW p \in Requests, CancelActiveDeployments(p)
  PROVE  Inv'
<1>1. PICK x : x = proc[p] /\ x = IdleProc /\ Begin(p)
  BY IdleRequest DEF CancelActiveDeployments
<1>2. PICK rows \in SUBSET Created :
        Go(p, [x EXCEPT !.pc = "sweep", !.todo = rows, !.hold = "cancelled"])
  BY <1>1 DEF CancelActiveDeployments
<1>3. PICK n : n = [x EXCEPT !.pc = "sweep", !.todo = rows, !.hold = "cancelled"]
  OBVIOUS
<1>4. /\ n.pc = "sweep" /\ n.job = 0 /\ n.cur = 0 /\ n.todo = rows
      /\ n.back = "idle" /\ n.failed = FALSE /\ n.hold = "cancelled"
  BY <1>1, <1>3 DEF IdleProc, Frame
<1>5. n \in LocalState
  BY <1>1, <1>2, <1>3, IdleProcType
  DEF LocalState, PCs, Created, Statuses, Closed
<1>6. Held(n) \subseteq Created
  BY <1>2, <1>4 DEF Held
<1>. QED
  BY <1>1, <1>2, <1>3, <1>4, <1>5, <1>6, TakeRowsStep DEF CancelActiveDeployments

LEMMA CheckDeploymentQueueInv ==
  ASSUME Inv, NEW p \in Requests, CheckDeploymentQueue(p)
  PROVE  Inv'
<1>1. PICK x : x = proc[p] /\ x = IdleProc /\ Begin(p)
  BY IdleRequest DEF CheckDeploymentQueue
<1>2. PICK rows \in SUBSET Created :
        Go(p, [x EXCEPT !.pc = "sweep", !.todo = rows, !.hold = "failed"])
  BY <1>1 DEF CheckDeploymentQueue
<1>3. PICK n : n = [x EXCEPT !.pc = "sweep", !.todo = rows, !.hold = "failed"]
  OBVIOUS
<1>4. /\ n.pc = "sweep" /\ n.job = 0 /\ n.cur = 0 /\ n.todo = rows
      /\ n.back = "idle" /\ n.failed = FALSE /\ n.hold = "failed"
  BY <1>1, <1>3 DEF IdleProc, Frame
<1>5. n \in LocalState
  BY <1>1, <1>2, <1>3, IdleProcType
  DEF LocalState, PCs, Created, Statuses, Closed
<1>6. Held(n) \subseteq Created
  BY <1>2, <1>4 DEF Held
<1>. QED
  BY <1>1, <1>2, <1>3, <1>4, <1>5, <1>6, TakeRowsStep DEF CheckDeploymentQueue

LEMMA CancelInv ==
  ASSUME Inv, NEW p \in Requests, Cancel(p)
  PROVE  Inv'
<1>1. p \in Procs /\ p \notin Workers /\ proc[p] = IdleProc
  BY IdleRequest DEF Cancel
<1>2. PICK d, s :
        /\ d \in Created
        /\ s = CancelScanServer(d)
        /\ status' = [status EXCEPT ![d] = "cancelled"]
        /\ Go(p, [IdleProc EXCEPT !.pc = "snapshot", !.srv = s])
  BY <1>1 DEF Cancel
<1>3. s \in Servers
  <2>1. row[d] \in Rows
    BY <1>2 DEF Inv, KnownRows
  <2>. QED  BY <1>2, <2>1, TopologyAssumption DEF CancelScanServer, Rows
<1>4. PICK n : n = [IdleProc EXCEPT !.pc = "snapshot", !.srv = s]
  OBVIOUS
<1>5. /\ n.pc = "snapshot" /\ n.job = 0 /\ n.cur = 0 /\ n.todo = {}
      /\ n.req = NoRow /\ n.back = "idle" /\ n.failed = FALSE
      /\ n.hold = "none"
  BY <1>4 DEF IdleProc, Frame
<1>6. n \in LocalState
  BY <1>3, <1>4, IdleProcType DEF LocalState, PCs
<1>7. LocalOK(p, n)
  BY <1>1, <1>5 DEF LocalOK
<1>8. Held(n) = {} /\ Working(n) = {0} /\ Working(IdleProc) = {0}
      /\ Driving(IdleProc) = {}
  BY <1>1, <1>5, IdleProcFacts DEF Held, Working, Pushing
<1>9. "cancelled" \in Statuses \ {"none", "queued"}
  BY DEF Statuses
<1>. QED
  BY <1>1, <1>2, <1>4, <1>6, <1>7, <1>8, <1>9, WriteStep DEF Cancel

LEMMA CancelDeploymentWriteInv ==
  ASSUME Inv, NEW p \in Procs, CancelDeploymentWrite(p)
  PROVE  Inv'
<1>1. PICK x \in LocalState : x = proc[p] /\ LocalOK(p, x) /\ Held(x) \subseteq Created
  BY BeforeStep
<1>2. x.pc = "apicancel" /\ x.cur \in D /\ Driving(x) = {}
  BY <1>1 DEF CancelDeploymentWrite, At, LocalOK, Driving, Pushing
<1>3. x.cur \in Created
  BY <1>1, <1>2 DEF Held, D
<1>4. /\ status' = [status EXCEPT ![x.cur] = "cancelled"] /\ Go(p, IdleProc)
      /\ UNCHANGED <<row, pending, reserved, usable, orphans, faults>>
  BY <1>1 DEF CancelDeploymentWrite, Idle
<1>5. "cancelled" \in Statuses \ {"none", "queued"}
  BY DEF Statuses
<1>. QED
  BY <1>1, <1>2, <1>3, <1>4, <1>5, IdleProcFacts, WriteStep

LEMMA SweepStepInv ==
  ASSUME Inv, NEW p \in Procs, SweepStep(p)
  PROVE  Inv'
<1>1. PICK x \in LocalState : x = proc[p] /\ LocalOK(p, x) /\ Held(x) \subseteq Created
  BY BeforeStep
<1>2. /\ x.pc = "sweep" /\ Driving(x) = {}
      /\ x.hold \in {"failed", "cancelled"}
      /\ UNCHANGED <<row, pending, reserved, usable, orphans, faults>>
  BY <1>1 DEF SweepStep, At, LocalOK, Driving, Pushing
<1>3. CASE Idle(p) /\ UNCHANGED status
  BY <1>1, <1>2, <1>3, IdleProcFacts, QuietStep DEF Idle
<1>4. ASSUME NEW d \in x.todo,
             status' = [status EXCEPT ![d] = x.hold],
             Go(p, [x EXCEPT !.todo = x.todo \ {d}])
      PROVE  Inv'
  <2>1. PICK n : n = [x EXCEPT !.todo = x.todo \ {d}]
    OBVIOUS
  <2>2. /\ n \in LocalState /\ LocalOK(p, n) /\ Held(n) \subseteq Held(x)
        /\ Working(n) = Working(x)
    BY <1>1, <1>2, <2>1 DEF LocalState, LocalOK, Held, Working, Pushing
  <2>3. d \in Created
    BY <1>1, <1>4 DEF Held, LocalState, D
  <2>4. x.hold \in Statuses \ {"none", "queued"} /\ x.hold # "in_progress"
    BY <1>2 DEF Statuses, Closed
  <2>. QED
    BY <1>1, <1>2, <1>4, <2>1, <2>2, <2>3, <2>4, WriteStep
<1>. QED  BY <1>1, <1>3, <1>4 DEF SweepStep

LEMMA BreakInv ==
  ASSUME Inv, NEW a \in Apps, Break(a)
  PROVE  Inv'
<1>1. TypeOK'
  BY DEF Break, Inv, TypeOK
<1>2. /\ Created' = Created /\ \A d \in D : HasJob(d)' = HasJob(d)
      /\ \A st \in Statuses : InState(st)' = InState(st)
  BY DEF Break, Created, HasJob, InState
<1>3. ProcOK' /\ KnownRows'
  BY <1>2 DEF Break, Inv, ProcOK, KnownRows
<1>4. QueuedNotDispatched' /\ InProgressDriven'
  BY <1>2 DEF Break, Inv, QueuedNotDispatched, InProgressDriven, InState
<1>. QED  BY <1>1, <1>3, <1>4 DEF Inv

LEMMA RestartInv ==
  ASSUME Inv, Restart
  PROVE  Inv'
<1> DEFINE Lost(d) == {p \in Workers : InHandle(p) /\ proc[p].job = d}
<1>1. \A d \in D : Cardinality(Lost(d)) \in Nat
  <2>1. IsFiniteSet(Workers)
    BY ProcessAssumption, FS_Subset DEF Procs
  <2>. QED  BY <2>1, FS_Subset, FS_CardinalityType
<1>2. \A d \in D : Cardinality(Lost(d)) > 0 => d \in Created
  <2>. SUFFICES ASSUME NEW d \in D, Cardinality(Lost(d)) > 0
                PROVE  d \in Created
    OBVIOUS
  <2>1. Lost(d) # {}
    BY FS_EmptySet
  <2>2. PICK p \in Workers : InHandle(p) /\ proc[p].job = d
    BY <2>1
  <2>. QED  BY <2>2 DEF Inv, KnownRows, Held, Procs, D
<1>3. /\ reserved' = [d \in D |-> reserved[d] + Cardinality(Lost(d))]
      /\ status' = [d \in D |-> IF status[d] \in Active THEN "failed"
                                ELSE status[d]]
      /\ proc' = [p \in Procs |-> IdleProc]
      /\ orphans' = {} /\ UNCHANGED <<row, pending, usable>>
  BY DEF Restart
<1>4. status' \in [D -> Statuses] /\ reserved' \in [D -> Nat]
  <2> HIDE DEF Lost
  <2>1. status' \in [D -> Statuses]
    BY <1>3 DEF Inv, TypeOK, Statuses, Closed
  <2>2. \A d \in D : reserved[d] + Cardinality(Lost(d)) \in Nat
    BY <1>1 DEF Inv, TypeOK
  <2>. QED  BY <1>3, <2>1, <2>2
<1>5. TypeOK'
  <2>1. faults' \in 0..MaxFaults
    BY MishapFacts DEF Restart
  <2>. QED  BY <1>3, <1>4, <2>1, IdleProcType DEF Inv, TypeOK
<1>6. Created' = Created
  BY <1>3 DEF Created, Active
<1>7. \A d \in D : HasJob(d)' => d \in Created
  <2> HIDE DEF Lost
  <2>. SUFFICES ASSUME NEW d \in D, HasJob(d)'
                PROVE  d \in Created
    OBVIOUS
  <2>1. CASE pending'[d] > 0
    BY <2>1, <1>3 DEF Inv, KnownRows, HasJob
  <2>2. CASE reserved'[d] > 0
    <3>1. reserved[d] > 0 \/ Cardinality(Lost(d)) > 0
      BY <2>2, <1>1, <1>3 DEF Inv, TypeOK
    <3>. QED  BY <3>1, <1>2 DEF Inv, KnownRows, HasJob
  <2>. QED  BY <2>1, <2>2 DEF HasJob
<1>8. \A d \in D : status'[d] \notin Active
  BY <1>3 DEF Active, Closed
<1>9. ProcOK' /\ KnownRows'
  BY <1>3, <1>6, <1>7, IdleProcFacts DEF Inv, ProcOK, KnownRows
<1>10. QueuedNotDispatched' /\ InProgressDriven'
  BY <1>8 DEF QueuedNotDispatched, InProgressDriven, InState, Active
<1>. QED  BY <1>5, <1>9, <1>10 DEF Inv

(* Every step preserves the invariant.                                     *)
LEMMA ProceedInv ==
  ASSUME Inv, NEW p \in Procs, Proceed(p)
  PROVE  Inv'
BY InsertInv, SnapshotInv, ScanInv, ScanEndInv, StartInv, DispatchInv,
   DispatchThrowsInv, CancelDeploymentWriteInv, SweepStepInv, MarkInv,
   SettleInv, CloseInv, FanOutInv, EffectsEndInv
DEF Proceed

LEMMA StepInv == Inv /\ [Next]_vars => Inv'
<1>. SUFFICES ASSUME Inv, [Next]_vars PROVE Inv'
  OBVIOUS
<1>1. ASSUME NEW p \in Procs, Proceed(p) PROVE Inv'
  BY <1>1, ProceedInv
<1>2. ASSUME NEW p \in Procs, FaultStep(p) PROVE Inv'
  BY <1>2, EffectsThrowInv, TimeoutInv, DieInv DEF FaultStep
<1>3. ASSUME NEW p \in Requests, UserStep(p) PROVE Inv'
  BY <1>3, RequestDeployInv, ForceStartClickInv, CancelInv,
     CancelDeploymentInv, CancelActiveDeploymentsInv, CheckDeploymentQueueInv
  DEF UserStep
<1>4. ASSUME NEW p \in Workers, WorkerStep(p) PROVE Inv'
  BY <1>4, PickInv, RunEndsInv, BuildFailsInv, RedeliverInv
  DEF WorkerStep, Procs
<1>5. ASSUME NEW a \in Apps, Break(a) PROVE Inv'
  BY <1>5, BreakInv
<1>6. CASE Restart
  BY <1>6, RestartInv
<1>7. CASE UNCHANGED vars
  <2>1. /\ Created' = Created /\ \A d \in D : HasJob(d)' = HasJob(d)
    BY <1>7 DEF vars, Created, HasJob
  <2>2. TypeOK' /\ ProcOK' /\ KnownRows'
    BY <1>7, <2>1 DEF vars, Inv, TypeOK, ProcOK, KnownRows
  <2>3. QueuedNotDispatched' /\ InProgressDriven'
    BY <1>7, <2>1
    DEF vars, Inv, QueuedNotDispatched, InProgressDriven, InState
  <2>. QED  BY <2>2, <2>3 DEF Inv
<1>. QED  BY <1>1, <1>2, <1>3, <1>4, <1>5, <1>6, <1>7 DEF Next

(***************************************************************************)
(* The theorems.                                                           *)
(***************************************************************************)

(* The inductive invariant holds in every reachable state, however many    *)
(* requests, workers, rows, servers and mishaps there are.                 *)
THEOREM Invariance == Spec => []Inv
<1>1. Init => Inv
  BY InitInv
<1>2. Inv /\ [Next]_vars => Inv'
  BY StepInv
<1>. QED  BY <1>1, <1>2, PTL DEF Spec

(* The table, the Redis queue and the local states keep their types.       *)
THEOREM TypeCorrect == Spec => []TypeOK
<1>1. Inv => TypeOK
  BY DEF Inv
<1>. QED  BY <1>1, Invariance, PTL

(* A deployment shown as queued has no job, pending, reserved or at work:  *)
(* nothing builds before next_queuable(), a force start or an instant      *)
(* deploy has moved its row to in_progress.                                *)
THEOREM QueuedRowsHaveNoJob == Spec => []QueuedNotDispatched
<1>1. Inv => QueuedNotDispatched
  BY DEF Inv
<1>. QED  BY <1>1, Invariance, PTL

(* A deployment in progress, which occupies its lane and a place on its    *)
(* server, has somebody who will settle it, unless a crash between the     *)
(* status write and the dispatch, a crash inside failed() or a throwing    *)
(* job constructor has orphaned it.                                        *)
THEOREM InProgressRowsHaveADriver == Spec => []InProgressDriven
<1>1. Inv => InProgressDriven
  BY DEF Inv
<1>. QED  BY <1>1, Invariance, PTL
(***************************************************************************)
(* Steps, process by process.                                              *)
(***************************************************************************)
StepOf(p) ==
  \/ Proceed(p) \/ FaultStep(p)
  \/ p \in Requests /\ UserStep(p)
  \/ p \in Workers /\ WorkerStep(p)

(* A step of p leaves the local states of the others alone. *)
LEMMA OthersKept ==
  ASSUME Inv, NEW p \in Procs, StepOf(p)
  PROVE  \A q \in Procs \ {p} : proc'[q] = proc[q]
<1>. SUFFICES (\E new : Go(p, new)) \/ UNCHANGED proc
  BY DEF Go, Inv, TypeOK
<1>1. CASE Proceed(p)
  <2>1. CASE Insert(p) \/ Snapshot(p) \/ Scan(p) \/ ScanEnd(p) \/ Start(p) \/ Dispatch(p)
    BY <2>1 DEF Insert, Snapshot, Scan, ScanEnd, Idle, Start, Dispatch
  <2>2. CASE DispatchThrows(p) \/ CancelDeploymentWrite(p) \/ SweepStep(p) \/ Mark(p)
    BY <2>2 DEF DispatchThrows, FailJob, Idle, CancelDeploymentWrite, SweepStep, Mark
  <2>3. CASE Settle(p)
    BY <2>3 DEF Settle, Idle, FailJob
  <2>4. CASE Close(p) \/ FanOut(p) \/ EffectsEnd(p)
    BY <2>4 DEF Close, FanOut, EffectsEnd
  <2>. QED  BY <1>1, <2>1, <2>2, <2>3, <2>4 DEF Proceed
<1>2. CASE FaultStep(p)
  BY <1>2 DEF FaultStep, EffectsThrow, Timeout, Die, Idle, FailJob
<1>3. CASE UserStep(p)
  BY <1>3 DEF UserStep, RequestDeploy, ForceStartClick, Cancel, CancelDeployment,
     CancelActiveDeployments, CheckDeploymentQueue
<1>4. CASE WorkerStep(p)
  BY <1>4 DEF WorkerStep, Pick, RunEnds, BuildFails, Redeliver, FailJob
<1>. QED  BY <1>1, <1>2, <1>3, <1>4 DEF StepOf

(* Every step is one of a process, or touches no process, or stops all.    *)
LEMMA Steps ==
  ASSUME [Next]_vars
  PROVE  \/ \E p \in Procs : StepOf(p)
         \/ \E a \in Apps : Break(a)
         \/ Restart
         \/ UNCHANGED vars
BY DEF Next, StepOf, Procs

(***************************************************************************)
(* What each step does to the local state of its process, field by field.  *)
(***************************************************************************)
LEMMA GoesTo ==
  ASSUME Inv, NEW p \in Procs, NEW n, Go(p, n)
  PROVE  proc'[p] = n
BY DEF Go, Inv, TypeOK

LEMMA IdleFields ==
  /\ IdleProc.pc = "idle" /\ IdleProc.job = 0 /\ IdleProc.cur = 0
  /\ IdleProc.todo = {} /\ IdleProc.fan = {} /\ IdleProc.hold = "none"
  /\ IdleProc.back = "idle" /\ ~IdleProc.failed
BY DEF IdleProc, Frame

LEMMA FailedFields ==
  ASSUME NEW d
  PROVE  /\ FailedProc(d).pc = "settle" /\ FailedProc(d).job = d
         /\ FailedProc(d).cur = 0 /\ FailedProc(d).todo = {}
         /\ FailedProc(d).fan = {} /\ FailedProc(d).hold = "failed"
         /\ FailedProc(d).back = "idle" /\ FailedProc(d).failed
BY DEF FailedProc, Frame

LEMMA RequestDeployFields ==
  ASSUME Inv, NEW p \in Procs, RequestDeploy(p)
  PROVE  LET x == proc[p]  n == proc'[p] IN
         /\ x = IdleProc
         /\ n.pc = "insert" /\ n.req \in Deploys /\ Admit(n.req)
         /\ n.job = 0 /\ n.todo = {} /\ n.fan = {} /\ n.back = "idle" /\ ~n.failed
<1>1. PICK r \in Deploys : Admit(r) /\ Go(p, [proc[p] EXCEPT !.pc = "insert", !.req = r])
  BY DEF RequestDeploy
<1>2. proc'[p] = [proc[p] EXCEPT !.pc = "insert", !.req = r]
  BY <1>1, GoesTo
<1>3. proc[p] = IdleProc
  BY DEF RequestDeploy, Begin, At, Inv, ProcOK, LocalOK
<1>. QED  BY <1>1, <1>2, <1>3 DEF IdleProc, Frame

LEMMA InsertFields ==
  ASSUME Inv, NEW p \in Procs, Insert(p)
  PROVE  LET x == proc[p]  n == proc'[p] IN
         /\ x.pc = "insert"
         /\ \E d \in D \ Created :
              /\ status' = [status EXCEPT ![d] = "queued"]
              /\ row' = [row EXCEPT ![d] = x.req]
              /\ \/ x.req.instant /\ n.pc = "start" /\ n.cur = d /\ n.todo = x.todo
                 \/ ~x.req.instant /\ n.pc = "scan" /\ n.todo = {d} /\ n.cur = x.cur
         /\ n.job = x.job /\ n.fan = x.fan /\ n.hold = x.hold /\ n.srv = x.srv
         /\ n.back = x.back /\ n.failed = x.failed
         /\ UNCHANGED <<pending, reserved, usable, orphans, faults>>
<1>1. proc[p] \in LocalState
  BY DEF Inv, TypeOK
<1>2. PICK d \in D \ Created :
        /\ status' = [status EXCEPT ![d] = "queued"]
        /\ row' = [row EXCEPT ![d] = proc[p].req]
        /\ IF proc[p].req.instant
           THEN Go(p, [proc[p] EXCEPT !.pc = "start", !.cur = d, !.req = NoRow])
           ELSE Go(p, [proc[p] EXCEPT !.pc = "scan", !.todo = {d}, !.req = NoRow])
  BY DEF Insert
<1>3. CASE proc[p].req.instant
  <2>1. proc'[p] = [proc[p] EXCEPT !.pc = "start", !.cur = d, !.req = NoRow]
    BY <1>2, <1>3, GoesTo
  <2>2. LET x == proc[p]  n == proc'[p] IN
          /\ n.pc = "start" /\ n.todo = x.todo /\ n.cur = d
          /\ n.job = x.job /\ n.fan = x.fan /\ n.hold = x.hold /\ n.srv = x.srv
          /\ n.back = x.back /\ n.failed = x.failed
    BY <1>1, <2>1 DEF LocalState
  <2>. QED  BY <1>2, <1>3, <2>2 DEF Insert, At
<1>4. CASE ~proc[p].req.instant
  <2>1. proc'[p] = [proc[p] EXCEPT !.pc = "scan", !.todo = {d}, !.req = NoRow]
    BY <1>2, <1>4, GoesTo
  <2>2. PICK T : T = {d}
    OBVIOUS
  <2>3. LET x == proc[p]  n == proc'[p] IN
          /\ n.pc = "scan" /\ n.todo = T /\ n.cur = x.cur
          /\ n.job = x.job /\ n.fan = x.fan /\ n.hold = x.hold /\ n.srv = x.srv
          /\ n.back = x.back /\ n.failed = x.failed
    BY <1>1, <2>1, <2>2 DEF LocalState
  <2>. QED  BY <1>2, <1>4, <2>2, <2>3 DEF Insert, At
<1>. QED  BY <1>3, <1>4

LEMMA SnapshotFields ==
  ASSUME Inv, NEW p \in Procs, Snapshot(p)
  PROVE  LET x == proc[p]  n == proc'[p] IN
         /\ x.pc = "snapshot" /\ n.pc = "scan"
         /\ n.todo = {d \in InState("queued") : row[d].server = x.srv}
         /\ n.job = x.job /\ n.fan = x.fan /\ n.hold = x.hold /\ n.srv = x.srv
         /\ n.back = x.back /\ n.failed = x.failed
         /\ UNCHANGED <<status, row, pending, reserved, usable, orphans, faults>>
<1>1. proc[p] \in LocalState
  BY DEF Inv, TypeOK
<1>2. proc'[p] = [proc[p] EXCEPT !.pc = "scan",
                    !.todo = {d \in InState("queued") : row[d].server = proc[p].srv}]
  BY GoesTo DEF Snapshot
<1>. QED  BY <1>1, <1>2 DEF LocalState, Snapshot, At

LEMMA ScanFields ==
  ASSUME Inv, NEW p \in Procs, Scan(p)
  PROVE  LET x == proc[p]  n == proc'[p] IN
         /\ x.pc = "scan"
         /\ \E d \in x.todo :
              /\ n.todo = x.todo \ {d}
              /\ \/ NextQueuable(row[d]) /\ n.pc = "start" /\ n.cur = d
                 \/ ~NextQueuable(row[d]) /\ n.pc = "scan" /\ n.cur = x.cur
         /\ n.job = x.job /\ n.fan = x.fan /\ n.hold = x.hold /\ n.srv = x.srv
         /\ n.back = x.back /\ n.failed = x.failed
         /\ UNCHANGED <<status, row, pending, reserved, usable, orphans, faults>>
<1>1. proc[p] \in LocalState
  BY DEF Inv, TypeOK
<1>2. PICK d \in proc[p].todo :
        IF NextQueuable(row[d])
        THEN Go(p, [proc[p] EXCEPT !.pc = "start", !.cur = d, !.todo = @ \ {d}])
        ELSE Go(p, [proc[p] EXCEPT !.todo = @ \ {d}])
  BY DEF Scan
<1>3. CASE NextQueuable(row[d])
  <2>1. proc'[p] = [proc[p] EXCEPT !.pc = "start", !.cur = d, !.todo = @ \ {d}]
    BY <1>2, <1>3, GoesTo
  <2>. QED  BY <1>1, <1>3, <2>1 DEF LocalState, Scan, At
<1>4. CASE ~NextQueuable(row[d])
  <2>1. proc'[p] = [proc[p] EXCEPT !.todo = @ \ {d}]
    BY <1>2, <1>4, GoesTo
  <2>. QED  BY <1>1, <1>4, <2>1 DEF LocalState, Scan, At
<1>. QED  BY <1>3, <1>4

LEMMA ScanEndFields ==
  ASSUME Inv, NEW p \in Procs, ScanEnd(p)
  PROVE  LET x == proc[p]  n == proc'[p] IN
         /\ x.pc = "scan" /\ x.todo = {}
         /\ \/ x.back = "idle" /\ n = IdleProc
            \/ /\ x.back # "idle" /\ n.pc = x.back /\ n.cur = 0 /\ n.todo = {}
               /\ n.job = x.job /\ n.fan = x.fan /\ n.hold = x.hold
               /\ n.back = "idle" /\ n.failed = x.failed
         /\ UNCHANGED <<status, row, pending, reserved, usable, orphans, faults>>
<1>1. proc[p] \in LocalState
  BY DEF Inv, TypeOK
<1>2. CASE proc[p].back = "idle"
  BY <1>2, GoesTo DEF ScanEnd, Idle, At
<1>3. CASE proc[p].back # "idle"
  <2>1. proc'[p] = [proc[p] EXCEPT !.pc = proc[p].back, !.cur = 0, !.back = "idle"]
    BY <1>3, GoesTo DEF ScanEnd
  <2>. QED  BY <1>1, <1>3, <2>1 DEF LocalState, ScanEnd, At
<1>. QED  BY <1>2, <1>3

LEMMA StartFields ==
  ASSUME Inv, NEW p \in Procs, Start(p)
  PROVE  LET x == proc[p]  n == proc'[p] IN
         /\ x.pc = "start" /\ x.cur \in D /\ n.pc = "dispatch"
         /\ n.cur = x.cur /\ n.todo = x.todo
         /\ n.job = x.job /\ n.fan = x.fan /\ n.hold = x.hold /\ n.srv = x.srv
         /\ n.back = x.back /\ n.failed = x.failed
         /\ status' = [status EXCEPT ![x.cur] = "in_progress"]
         /\ UNCHANGED <<row, pending, reserved, usable, orphans, faults>>
<1>1. proc[p] \in LocalState /\ LocalOK(p, proc[p])
  BY DEF Inv, TypeOK, ProcOK
<1>2. proc'[p] = [proc[p] EXCEPT !.pc = "dispatch"]
  BY GoesTo DEF Start
<1>. QED  BY <1>1, <1>2 DEF LocalState, Start, At, LocalOK

LEMMA DispatchFields ==
  ASSUME Inv, NEW p \in Procs, Dispatch(p)
  PROVE  LET x == proc[p]  n == proc'[p] IN
         /\ x.pc = "dispatch" /\ x.cur \in D /\ n.pc = "scan"
         /\ n.cur = 0 /\ n.todo = x.todo
         /\ n.job = x.job /\ n.fan = x.fan /\ n.hold = x.hold /\ n.srv = x.srv
         /\ n.back = x.back /\ n.failed = x.failed
         /\ pending' = [pending EXCEPT ![x.cur] = @ + 1]
         /\ UNCHANGED <<status, row, reserved, usable, faults>>
<1>1. proc[p] \in LocalState /\ LocalOK(p, proc[p])
  BY DEF Inv, TypeOK, ProcOK
<1>2. proc'[p] = [proc[p] EXCEPT !.pc = "scan", !.cur = 0]
  BY GoesTo DEF Dispatch
<1>. QED  BY <1>1, <1>2 DEF LocalState, Dispatch, At, LocalOK

LEMMA DispatchThrowsFields ==
  ASSUME Inv, NEW p \in Procs, DispatchThrows(p)
  PROVE  LET x == proc[p]  n == proc'[p] IN
         /\ x.pc = "dispatch" /\ x.cur \in D
         /\ row[x.cur].app \notin usable
         /\ \/ InHandle(p) /\ n = FailedProc(x.job)
            \/ ~InHandle(p) /\ n = IdleProc
         /\ UNCHANGED <<status, row, pending, reserved, usable, faults>>
<1>1. LocalOK(p, proc[p])
  BY DEF Inv, ProcOK
<1>. QED  BY <1>1, GoesTo DEF DispatchThrows, FailJob, Idle, At, LocalOK

LEMMA ForceStartClickFields ==
  ASSUME Inv, NEW p \in Procs, ForceStartClick(p)
  PROVE  LET x == proc[p]  n == proc'[p] IN
         /\ x = IdleProc /\ n.pc = "start" /\ n.cur \in Created
         /\ status[n.cur] = "queued" \/ StalePages
         /\ n.job = 0 /\ n.todo = {} /\ n.fan = {} /\ n.back = "idle" /\ ~n.failed
         /\ UNCHANGED <<status, row, pending, reserved, usable, orphans, faults>>
<1>1. PICK d \in Created : /\ status[d] = "queued" \/ StalePages
                           /\ Go(p, [proc[p] EXCEPT !.pc = "start", !.cur = d])
  BY DEF ForceStartClick
<1>2. proc'[p] = [proc[p] EXCEPT !.pc = "start", !.cur = d]
  BY <1>1, GoesTo
<1>3. proc[p] = IdleProc
  BY DEF ForceStartClick, Begin, At, Inv, ProcOK, LocalOK
<1>. QED  BY <1>1, <1>2, <1>3 DEF IdleProc, Frame, ForceStartClick

LEMMA CancelFields ==
  ASSUME Inv, NEW p \in Procs, Cancel(p)
  PROVE  LET x == proc[p]  n == proc'[p] IN
         /\ x = IdleProc /\ n.pc = "snapshot"
         /\ \E d \in Created :
              /\ status[d] \in Active \/ StalePages
              /\ status' = [status EXCEPT ![d] = "cancelled"]
              /\ n.srv = CancelScanServer(d)
         /\ n.job = 0 /\ n.todo = {} /\ n.fan = {} /\ n.back = "idle" /\ ~n.failed
         /\ UNCHANGED <<row, pending, reserved, usable, orphans, faults>>
<1>1. PICK d \in Created :
        /\ status[d] \in Active \/ StalePages
        /\ status' = [status EXCEPT ![d] = "cancelled"]
        /\ Go(p, [proc[p] EXCEPT !.pc = "snapshot", !.srv = CancelScanServer(d)])
  BY DEF Cancel
<1>2. proc'[p] = [proc[p] EXCEPT !.pc = "snapshot", !.srv = CancelScanServer(d)]
  BY <1>1, GoesTo
<1>3. proc[p] = IdleProc
  BY DEF Cancel, Begin, At, Inv, ProcOK, LocalOK
<1>4. LET n == proc'[p] IN
        /\ n.pc = "snapshot" /\ n.srv = CancelScanServer(d)
        /\ n.job = 0 /\ n.todo = {} /\ n.fan = {} /\ n.back = "idle" /\ ~n.failed
  BY <1>2, <1>3 DEF IdleProc, Frame
<1>. QED  BY <1>1, <1>3, <1>4 DEF Cancel

LEMMA CancelDeploymentFields ==
  ASSUME Inv, NEW p \in Procs, CancelDeployment(p)
  PROVE  LET x == proc[p]  n == proc'[p] IN
         /\ ApiCancel
         /\ x = IdleProc /\ n.pc = "apicancel"
         /\ n.cur \in Created /\ status[n.cur] \in Active
         /\ n.job = 0 /\ n.todo = {} /\ n.fan = {} /\ n.back = "idle" /\ ~n.failed
         /\ UNCHANGED <<status, row, pending, reserved, usable, orphans, faults>>
<1>1. PICK d \in Created : /\ status[d] \in Active
                           /\ Go(p, [proc[p] EXCEPT !.pc = "apicancel", !.cur = d])
  BY DEF CancelDeployment
<1>2. proc'[p] = [proc[p] EXCEPT !.pc = "apicancel", !.cur = d]
  BY <1>1, GoesTo
<1>3. proc[p] = IdleProc
  BY DEF CancelDeployment, Begin, At, Inv, ProcOK, LocalOK
<1>. QED  BY <1>1, <1>2, <1>3 DEF IdleProc, Frame, CancelDeployment

LEMMA CancelDeploymentWriteFields ==
  ASSUME Inv, NEW p \in Procs, CancelDeploymentWrite(p)
  PROVE  LET x == proc[p]  n == proc'[p] IN
         /\ x.pc = "apicancel" /\ x.cur \in D /\ n = IdleProc
         /\ status' = [status EXCEPT ![x.cur] = "cancelled"]
         /\ UNCHANGED <<row, pending, reserved, usable, orphans, faults>>
<1>1. LocalOK(p, proc[p])
  BY DEF Inv, ProcOK
<1>. QED  BY <1>1, GoesTo DEF CancelDeploymentWrite, Idle, At, LocalOK

LEMMA TakesRowsFields ==
  ASSUME Inv, NEW p \in Procs, CancelActiveDeployments(p) \/ CheckDeploymentQueue(p)
  PROVE  LET x == proc[p]  n == proc'[p] IN
         /\ x = IdleProc /\ n.pc = "sweep"
         /\ n.todo \subseteq {d \in Created : status[d] \in Active}
         /\ \/ CancelActiveDeployments(p) /\ PreviewCleanup /\ n.hold = "cancelled"
            \/ CheckDeploymentQueue(p) /\ AdminCleanup /\ n.hold = "failed"
         /\ n.job = 0 /\ n.fan = {} /\ n.back = "idle" /\ ~n.failed
         /\ UNCHANGED <<status, row, pending, reserved, usable, orphans, faults>>
<1>1. proc[p] = IdleProc
  BY DEF CancelActiveDeployments, CheckDeploymentQueue, Begin, At, Inv, ProcOK, LocalOK
<1>2. CASE CancelActiveDeployments(p)
  <2>1. PICK rows \in SUBSET {d \in Created : status[d] \in Active} :
          Go(p, [proc[p] EXCEPT !.pc = "sweep", !.todo = rows, !.hold = "cancelled"])
    BY <1>2 DEF CancelActiveDeployments
  <2>2. proc'[p] = [proc[p] EXCEPT !.pc = "sweep", !.todo = rows, !.hold = "cancelled"]
    BY <2>1, GoesTo
  <2>3. LET n == proc'[p] IN
          /\ n.pc = "sweep" /\ n.todo = rows /\ n.hold = "cancelled"
          /\ n.job = 0 /\ n.fan = {} /\ n.back = "idle" /\ ~n.failed
    BY <1>1, <2>2 DEF IdleProc, Frame
  <2>. QED  BY <1>1, <1>2, <2>1, <2>3 DEF CancelActiveDeployments
<1>3. CASE CheckDeploymentQueue(p)
  <2>1. PICK rows \in SUBSET {d \in Created : status[d] \in Active} :
          Go(p, [proc[p] EXCEPT !.pc = "sweep", !.todo = rows, !.hold = "failed"])
    BY <1>3 DEF CheckDeploymentQueue
  <2>2. proc'[p] = [proc[p] EXCEPT !.pc = "sweep", !.todo = rows, !.hold = "failed"]
    BY <2>1, GoesTo
  <2>3. LET n == proc'[p] IN
          /\ n.pc = "sweep" /\ n.todo = rows /\ n.hold = "failed"
          /\ n.job = 0 /\ n.fan = {} /\ n.back = "idle" /\ ~n.failed
    BY <1>1, <2>2 DEF IdleProc, Frame
  <2>. QED  BY <1>1, <1>3, <2>1, <2>3 DEF CheckDeploymentQueue
<1>. QED  BY <1>2, <1>3

LEMMA SweepStepFields ==
  ASSUME Inv, NEW p \in Procs, SweepStep(p)
  PROVE  LET x == proc[p]  n == proc'[p] IN
         /\ x.pc = "sweep"
         /\ \/ n = IdleProc /\ UNCHANGED status
            \/ \E d \in x.todo :
                 /\ status' = [status EXCEPT ![d] = x.hold]
                 /\ n.pc = "sweep" /\ n.todo = x.todo \ {d}
                 /\ n.job = x.job /\ n.fan = x.fan /\ n.hold = x.hold
                 /\ n.back = x.back /\ n.failed = x.failed
         /\ UNCHANGED <<row, pending, reserved, usable, orphans, faults>>
<1>1. proc[p] \in LocalState
  BY DEF Inv, TypeOK
<1>2. CASE Idle(p) /\ UNCHANGED status
  BY <1>2, GoesTo DEF Idle, SweepStep, At
<1>3. ASSUME NEW d \in proc[p].todo, status' = [status EXCEPT ![d] = proc[p].hold],
             Go(p, [proc[p] EXCEPT !.todo = @ \ {d}])
      PROVE  /\ proc'[p].pc = "sweep" /\ proc'[p].todo = proc[p].todo \ {d}
             /\ proc'[p].job = proc[p].job /\ proc'[p].fan = proc[p].fan
             /\ proc'[p].hold = proc[p].hold
             /\ proc'[p].back = proc[p].back /\ proc'[p].failed = proc[p].failed
  <2>1. proc'[p] = [proc[p] EXCEPT !.todo = @ \ {d}]
    BY <1>3, GoesTo
  <2>. QED  BY <1>1, <2>1 DEF LocalState, SweepStep, At
<1>. QED  BY <1>2, <1>3 DEF SweepStep, At

LEMMA PickFields ==
  ASSUME Inv, NEW p \in Workers, Pick(p)
  PROVE  LET x == proc[p]  n == proc'[p] IN
         /\ x = IdleProc
         /\ \E d \in D :
              /\ pending[d] > 0 /\ pending' = [pending EXCEPT ![d] = @ - 1]
              /\ \/ status[d] = "cancelled" /\ n = IdleProc
                 \/ /\ status[d] # "cancelled" /\ n.pc = "mark"
                    /\ n.job = d /\ n.hold = status[d] /\ n.cur = 0
                    /\ n.todo = {} /\ n.fan = {} /\ n.back = "idle" /\ ~n.failed
         /\ UNCHANGED <<status, row, reserved, usable, orphans, faults>>
<1>1. p \in Procs /\ proc[p] = IdleProc
  BY DEF Pick, Begin, At, Inv, ProcOK, LocalOK, Procs
<1>2. PICK d \in D :
        /\ pending[d] > 0 /\ pending' = [pending EXCEPT ![d] = @ - 1]
        /\ IF status[d] = "cancelled" THEN UNCHANGED proc
           ELSE Go(p, [proc[p] EXCEPT !.pc = "mark", !.job = d, !.hold = status[d]])
  BY DEF Pick
<1>3. CASE status[d] = "cancelled"
  BY <1>1, <1>2, <1>3 DEF Pick
<1>4. CASE status[d] # "cancelled"
  <2>1. proc'[p] = [proc[p] EXCEPT !.pc = "mark", !.job = d, !.hold = status[d]]
    BY <1>1, <1>2, <1>4, GoesTo
  <2>2. LET n == proc'[p] IN
          /\ n.pc = "mark" /\ n.job = d /\ n.hold = status[d] /\ n.cur = 0
          /\ n.todo = {} /\ n.fan = {} /\ n.back = "idle" /\ ~n.failed
    BY <1>1, <2>1 DEF IdleProc, Frame
  <2>. QED  BY <1>1, <1>2, <1>4, <2>2 DEF Pick
<1>. QED  BY <1>3, <1>4

LEMMA MarkFields ==
  ASSUME Inv, NEW p \in Procs, Mark(p)
  PROVE  LET x == proc[p]  n == proc'[p] IN
         /\ x.pc = "mark" /\ x.job \in D /\ p \in Workers /\ n.pc = "run"
         /\ n.job = x.job /\ n.cur = x.cur /\ n.todo = x.todo /\ n.fan = x.fan
         /\ n.hold = "none" /\ n.back = x.back /\ n.failed = x.failed
         /\ \/ x.hold = "in_progress" /\ status' = status
            \/ /\ x.hold # "in_progress"
               /\ status' = [status EXCEPT ![x.job] = "in_progress"]
         /\ UNCHANGED <<row, pending, reserved, usable, orphans, faults>>
<1>1. proc[p] \in LocalState /\ LocalOK(p, proc[p])
  BY DEF Inv, TypeOK, ProcOK
<1>2. proc'[p] = [proc[p] EXCEPT !.pc = "run", !.hold = "none"]
  BY GoesTo DEF Mark
<1>3. p \in Workers /\ proc[p].job \in D /\ proc[p].pc = "mark"
  BY <1>1 DEF Mark, At, LocalOK, Procs
<1>4. LET x == proc[p]  n == proc'[p] IN
      /\ n.pc = "run" /\ n.job = x.job /\ n.cur = x.cur /\ n.todo = x.todo
      /\ n.fan = x.fan /\ n.hold = "none" /\ n.back = x.back /\ n.failed = x.failed
  BY <1>1, <1>2 DEF LocalState
<1>. QED  BY <1>3, <1>4 DEF Mark

LEMMA RunEndsFields ==
  ASSUME Inv, NEW p \in Workers, RunEnds(p) \/ BuildFails(p)
  PROVE  LET x == proc[p]  n == proc'[p] IN
         /\ x.pc = "run"
         /\ \/ n = FailedProc(x.job)
            \/ /\ n.pc = "settle" /\ n.job = x.job /\ n.cur = x.cur
               /\ n.todo = x.todo /\ n.fan = x.fan /\ n.hold \in Closed
               /\ n.back = x.back /\ n.failed = x.failed
         /\ UNCHANGED <<status, row, pending, reserved, usable, orphans, faults>>
<1>1. p \in Procs /\ proc[p] \in LocalState
  BY DEF Inv, TypeOK, Procs
<1>2. CASE BuildFails(p)
  BY <1>1, <1>2, GoesTo DEF BuildFails, FailJob, At
<1>3. CASE RunEnds(p)
  <2>1. PICK o \in Closed : proc'[p] = [proc[p] EXCEPT !.pc = "settle", !.hold = o]
    BY <1>1, <1>3, GoesTo DEF RunEnds
  <2>2. LET x == proc[p]  n == proc'[p] IN
        /\ n.pc = "settle" /\ n.job = x.job /\ n.cur = x.cur /\ n.todo = x.todo
        /\ n.fan = x.fan /\ n.hold = o /\ n.back = x.back /\ n.failed = x.failed
    BY <1>1, <2>1 DEF LocalState
  <2>. QED  BY <1>3, <2>2 DEF RunEnds, At
<1>. QED  BY <1>2, <1>3

LEMMA SettleFields ==
  ASSUME Inv, NEW p \in Procs, Settle(p)
  PROVE  LET x == proc[p]  n == proc'[p] IN
         /\ x.pc = "settle" /\ p \in Workers /\ x.job \in D /\ x.hold \in Closed
         /\ \/ n = IdleProc
            \/ n = FailedProc(x.job)
            \/ /\ \/ n.pc = "settle"
                  \/ n.pc = "close" /\ status[x.job] \notin Closed \cup {"cancelled"}
               /\ n.job = x.job /\ n.cur = x.cur /\ n.todo = x.todo /\ n.fan = x.fan
               /\ n.hold \in Closed /\ n.back = x.back /\ n.failed = x.failed
         /\ status[x.job] \in {"queued", "in_progress", "none"} => n.pc = "close"
         /\ UNCHANGED <<status, row, pending, reserved, usable, orphans, faults>>
<1>1. proc[p] \in LocalState /\ LocalOK(p, proc[p])
  BY DEF Inv, TypeOK, ProcOK
<1>2. /\ p \in Workers /\ proc[p].job \in D /\ proc[p].pc = "settle"
      /\ proc[p].hold \in Closed
  BY <1>1 DEF Settle, At, LocalOK, Procs
<1>3. CASE Go(p, IdleProc) /\ status[proc[p].job] \in Closed \cup {"cancelled"}
  BY <1>2, <1>3, GoesTo DEF Settle, Closed
<1>4. CASE Go(p, FailedProc(proc[p].job)) /\ status[proc[p].job] = "cancelled"
  BY <1>2, <1>4, GoesTo DEF Settle
<1>5. CASE /\ Go(p, [proc[p] EXCEPT !.hold = "finished"])
           /\ status[proc[p].job] \in Closed
  <2>1. proc'[p] = [proc[p] EXCEPT !.hold = "finished"]
    BY <1>5, GoesTo
  <2>2. LET x == proc[p]  n == proc'[p] IN
        /\ n.pc = x.pc /\ n.job = x.job /\ n.cur = x.cur /\ n.todo = x.todo
        /\ n.fan = x.fan /\ n.hold = "finished" /\ n.back = x.back
        /\ n.failed = x.failed
    BY <1>1, <2>1 DEF LocalState
  <2>. QED  BY <1>2, <1>5, <2>2 DEF Settle, Closed
<1>6. CASE /\ Go(p, [proc[p] EXCEPT !.pc = "close"])
           /\ status[proc[p].job] \notin Closed \cup {"cancelled"}
  <2>1. proc'[p] = [proc[p] EXCEPT !.pc = "close"]
    BY <1>6, GoesTo
  <2>2. LET x == proc[p]  n == proc'[p] IN
        /\ n.pc = "close" /\ n.job = x.job /\ n.cur = x.cur /\ n.todo = x.todo
        /\ n.fan = x.fan /\ n.hold = x.hold /\ n.back = x.back
        /\ n.failed = x.failed
    BY <1>1, <2>1 DEF LocalState
  <2>. QED  BY <1>2, <1>6, <2>2 DEF Settle
<1>7. \/ Go(p, IdleProc) /\ status[proc[p].job] \in Closed \cup {"cancelled"}
      \/ Go(p, FailedProc(proc[p].job)) /\ status[proc[p].job] = "cancelled"
      \/ /\ Go(p, [proc[p] EXCEPT !.hold = "finished"])
         /\ status[proc[p].job] \in Closed
      \/ /\ Go(p, [proc[p] EXCEPT !.pc = "close"])
         /\ status[proc[p].job] \notin Closed \cup {"cancelled"}
  BY DEF Settle, Idle, FailJob, Closed
<1>. QED  BY <1>3, <1>4, <1>5, <1>6, <1>7

LEMMA CloseFields ==
  ASSUME Inv, NEW p \in Procs, Close(p)
  PROVE  LET x == proc[p]  n == proc'[p] IN
         /\ x.pc = "close" /\ p \in Workers /\ x.job \in D /\ x.hold \in Closed
         /\ n.pc = "effects" /\ n.job = x.job /\ n.cur = x.cur /\ n.todo = x.todo
         /\ n.fan \subseteq AdditionalServers(x.job)
         /\ n.hold = x.hold /\ n.back = x.back /\ n.failed = x.failed
         /\ status' = [status EXCEPT ![x.job] = x.hold]
         /\ UNCHANGED <<row, pending, reserved, usable, orphans, faults>>
<1>1. proc[p] \in LocalState /\ LocalOK(p, proc[p])
  BY DEF Inv, TypeOK, ProcOK
<1>2. /\ p \in Workers /\ proc[p].job \in D /\ proc[p].pc = "close"
      /\ proc[p].hold \in Closed
  BY <1>1 DEF Close, At, LocalOK, Procs
<1>3. PICK F : /\ F \subseteq AdditionalServers(proc[p].job)
               /\ Go(p, [proc[p] EXCEPT !.pc = "effects", !.fan = F])
  BY DEF Close
<1>4. proc'[p] = [proc[p] EXCEPT !.pc = "effects", !.fan = F]
  BY <1>3, GoesTo
<1>5. LET x == proc[p]  n == proc'[p] IN
      /\ n.pc = "effects" /\ n.job = x.job /\ n.cur = x.cur /\ n.todo = x.todo
      /\ n.fan = F /\ n.hold = x.hold /\ n.back = x.back /\ n.failed = x.failed
  BY <1>1, <1>4 DEF LocalState
<1>. QED  BY <1>2, <1>3, <1>5 DEF Close

LEMMA FanOutFields ==
  ASSUME Inv, NEW p \in Procs, FanOut(p)
  PROVE  LET x == proc[p]  n == proc'[p] IN
         /\ x.pc = "effects" /\ x.fan # {}
         /\ \/ /\ n.pc = "insert" /\ Admit(n.req) /\ n.req.instant
               /\ n.back = "effects"
            \/ n.pc = "effects" /\ n.back = x.back
         /\ n.job = x.job /\ n.cur = x.cur /\ n.todo = x.todo
         /\ n.fan \subseteq x.fan /\ n.hold = x.hold /\ n.failed = x.failed
         /\ UNCHANGED <<status, row, pending, reserved, usable, orphans, faults>>
<1>1. proc[p] \in LocalState
  BY DEF Inv, TypeOK
<1>2. PICK s, r :
        /\ s \in proc[p].fan
        /\ r.instant
        /\ \/ /\ Admit(r)
              /\ Go(p, [proc[p] EXCEPT !.pc = "insert", !.req = r,
                                       !.fan = @ \ {s}, !.back = "effects"])
           \/ Go(p, [proc[p] EXCEPT !.fan = @ \ {s}])
  <2>1. PICK s \in proc[p].fan :
          LET r == [app |-> row[proc[p].job].app, lane |-> 0, server |-> s,
                    commit |-> HeadCommit, force |-> FALSE, instant |-> TRUE,
                    only |-> FALSE]
          IN IF Admit(r) /\ Room
             THEN Go(p, [proc[p] EXCEPT !.pc = "insert", !.req = r,
                                       !.fan = @ \ {s}, !.back = "effects"])
             ELSE Go(p, [proc[p] EXCEPT !.fan = @ \ {s}])
    BY DEF FanOut
  <2>2. PICK r : r = [app |-> row[proc[p].job].app, lane |-> 0, server |-> s,
                      commit |-> HeadCommit, force |-> FALSE, instant |-> TRUE,
                      only |-> FALSE]
    OBVIOUS
  <2>3. r.instant
    BY <2>2
  <2>. QED  BY <2>1, <2>2, <2>3
<1>3. PICK F : F = proc[p].fan \ {s}
  OBVIOUS
<1>4. CASE /\ Admit(r)
           /\ Go(p, [proc[p] EXCEPT !.pc = "insert", !.req = r, !.fan = F,
                                    !.back = "effects"])
  <2>1. proc'[p] = [proc[p] EXCEPT !.pc = "insert", !.req = r, !.fan = F,
                                  !.back = "effects"]
    BY <1>4, GoesTo
  <2>2. LET x == proc[p]  n == proc'[p] IN
        /\ n.pc = "insert" /\ n.req = r /\ n.back = "effects"
        /\ n.job = x.job /\ n.cur = x.cur /\ n.todo = x.todo /\ n.fan = F
        /\ n.hold = x.hold /\ n.failed = x.failed
    BY <1>1, <2>1 DEF LocalState
  <2>. QED  BY <1>2, <1>3, <1>4, <2>2 DEF FanOut, At
<1>5. CASE Go(p, [proc[p] EXCEPT !.fan = F])
  <2>1. proc'[p] = [proc[p] EXCEPT !.fan = F]
    BY <1>5, GoesTo
  <2>2. LET x == proc[p]  n == proc'[p] IN
        /\ n.pc = x.pc /\ n.back = x.back
        /\ n.job = x.job /\ n.cur = x.cur /\ n.todo = x.todo /\ n.fan = F
        /\ n.hold = x.hold /\ n.failed = x.failed
    BY <1>1, <2>1 DEF LocalState
  <2>. QED  BY <1>2, <1>3, <2>2 DEF FanOut, At
<1>. QED  BY <1>2, <1>3, <1>4, <1>5

LEMMA EffectsEndFields ==
  ASSUME Inv, NEW p \in Procs, EffectsEnd(p)
  PROVE  LET x == proc[p]  n == proc'[p] IN
         /\ x.pc = "effects" /\ x.fan = {} /\ n.pc = "snapshot"
         /\ n.srv = Home[row[x.job].app]
         /\ n.job = x.job /\ n.cur = x.cur /\ n.todo = x.todo /\ n.fan = {}
         /\ n.hold = "finished" /\ n.back \in {"settle", "idle"}
         /\ n.failed = x.failed
         /\ UNCHANGED <<status, row, pending, reserved, usable, orphans, faults>>
<1>1. proc[p] \in LocalState
  BY DEF Inv, TypeOK
<1>2. PICK s, b : /\ s = Home[row[proc[p].job].app] /\ b \in {"settle", "idle"}
                  /\ Go(p, [proc[p] EXCEPT !.pc = "snapshot", !.srv = s,
                                           !.hold = "finished", !.back = b])
  BY DEF EffectsEnd
<1>3. proc'[p] = [proc[p] EXCEPT !.pc = "snapshot", !.srv = s,
                                !.hold = "finished", !.back = b]
  BY <1>2, GoesTo
<1>4. LET x == proc[p]  n == proc'[p] IN
      /\ n.pc = "snapshot" /\ n.srv = s /\ n.job = x.job /\ n.cur = x.cur
      /\ n.todo = x.todo /\ n.fan = x.fan /\ n.hold = "finished" /\ n.back = b
      /\ n.failed = x.failed
  BY <1>1, <1>3 DEF LocalState
<1>. QED  BY <1>2, <1>4 DEF EffectsEnd, At

LEMMA EffectsThrowFields ==
  ASSUME Inv, NEW p \in Procs, EffectsThrow(p)
  PROVE  LET x == proc[p]  n == proc'[p] IN
         /\ x.pc = "effects" /\ n \in {IdleProc, FailedProc(x.job)}
         /\ "effects" \in Mishaps
         /\ UNCHANGED <<status, row, pending, reserved, usable, orphans>>
BY GoesTo DEF EffectsThrow, Idle, FailJob, At, Mishap

LEMMA DieFields ==
  ASSUME Inv, NEW p \in Procs, Die(p)
  PROVE  /\ proc'[p] = IdleProc
         /\ "death" \in Mishaps
         /\ reserved' = [d \in D |-> IF InHandle(p) /\ d = proc[p].job
                                     THEN reserved[d] + 1 ELSE reserved[d]]
         /\ UNCHANGED <<status, row, pending, usable>>
BY GoesTo DEF Die, Idle, Mishap

LEMMA RedeliverFields ==
  ASSUME Inv, NEW p \in Workers, Redeliver(p)
  PROVE  /\ proc[p] = IdleProc
         /\ \E d \in D : /\ reserved[d] > 0 /\ proc'[p] = FailedProc(d)
                         /\ reserved' = [reserved EXCEPT ![d] = @ - 1]
         /\ UNCHANGED <<status, row, pending, usable, orphans, faults>>
<1>1. p \in Procs /\ proc[p] = IdleProc
  BY DEF Redeliver, Begin, At, Inv, ProcOK, LocalOK, Procs
<1>. QED  BY <1>1, GoesTo DEF Redeliver, FailJob

(***************************************************************************)
(* The queue limit, with every interleaving.                               *)
(***************************************************************************)
LEMMA QueuedCount ==
  ASSUME NEW S \in SUBSET D
  PROVE  IsFiniteSet(S) /\ Cardinality(S) \in Nat
<1>1. IsFiniteSet(D)
  BY BoundAssumption, FS_Interval DEF D
<1>. QED  BY <1>1, FS_Subset, FS_CardinalityType

(* Only the INSERT makes a row queued; no step changes a row.              *)
LEMMA NoneQueued ==
  ASSUME Inv, NEW p \in Procs, StepOf(p), ~Insert(p)
  PROVE  row' = row /\ \A d \in D : status'[d] = "queued" => status[d] = "queued"
<1>0. status \in [D -> Statuses] /\ LocalOK(p, proc[p])
  BY DEF Inv, TypeOK, ProcOK
<1>1. CASE Snapshot(p) \/ Scan(p) \/ ScanEnd(p) \/ Dispatch(p) \/ DispatchThrows(p)
             \/ Settle(p) \/ FanOut(p) \/ EffectsEnd(p)
  BY <1>1 DEF Snapshot, Scan, ScanEnd, Dispatch, DispatchThrows, Settle, FanOut, EffectsEnd
<1>2. CASE Start(p) \/ CancelDeploymentWrite(p) \/ SweepStep(p) \/ Mark(p) \/ Close(p)
  BY <1>0, <1>2 DEF Start, CancelDeploymentWrite, SweepStep, Mark, Close, LocalOK, At, Closed
<1>3. CASE FaultStep(p)
  BY <1>3 DEF FaultStep, EffectsThrow, Timeout, Die
<1>4. CASE UserStep(p)
  BY <1>0, <1>4 DEF UserStep, RequestDeploy, ForceStartClick, Cancel, CancelDeployment,
     CancelActiveDeployments, CheckDeploymentQueue
<1>5. CASE WorkerStep(p)
  BY <1>5 DEF WorkerStep, Pick, RunEnds, BuildFails, Redeliver
<1>. QED  BY <1>1, <1>2, <1>3, <1>4, <1>5 DEF StepOf, Proceed

LEMMA NoneQueuedElse ==
  ASSUME Inv, (\E a \in Apps : Break(a)) \/ Restart \/ UNCHANGED vars
  PROVE  row' = row /\ \A d \in D : status'[d] = "queued" => status[d] = "queued"
BY DEF Break, Restart, vars, Active, Inv, TypeOK

(* Who goes to the INSERT has just looked at the queue; a worker goes for  *)
(* an additional destination.                                              *)
LEMMA AdmitsFirst ==
  ASSUME Inv, NEW p \in Procs, StepOf(p), proc'[p].pc = "insert"
  PROVE  /\ UNCHANGED <<status, row>> /\ ~QueueFull(proc'[p].req.server)
         /\ p \in Requests \/ proc[p].fan # {}
<1>1. CASE p \in Requests /\ RequestDeploy(p)
  BY <1>1, RequestDeployFields DEF RequestDeploy, Admit
<1>2. CASE Proceed(p)
  <2>1. CASE FanOut(p)
    BY <2>1, FanOutFields DEF Admit
  <2>2. CASE Insert(p) \/ Snapshot(p) \/ Scan(p) \/ ScanEnd(p)
    <3>1. proc[p].back # "insert"
      BY DEF Inv, TypeOK, LocalState
    <3>. QED  BY <2>2, <3>1, InsertFields, SnapshotFields, ScanFields, ScanEndFields, IdleFields
  <2>3. CASE Start(p) \/ Dispatch(p) \/ DispatchThrows(p)
    BY <2>3, StartFields, DispatchFields, DispatchThrowsFields, IdleFields, FailedFields
  <2>4. CASE CancelDeploymentWrite(p) \/ SweepStep(p) \/ Mark(p)
    BY <2>4, CancelDeploymentWriteFields, SweepStepFields, MarkFields, IdleFields
  <2>5. CASE Settle(p) \/ Close(p) \/ EffectsEnd(p)
    BY <2>5, SettleFields, CloseFields, EffectsEndFields, IdleFields, FailedFields
  <2>. QED  BY <1>2, <2>1, <2>2, <2>3, <2>4, <2>5 DEF Proceed
<1>3. CASE FaultStep(p)
  BY <1>3, EffectsThrowFields, DieFields, GoesTo, IdleFields, FailedFields
  DEF FaultStep, Timeout, FailJob
<1>4. CASE UserStep(p) /\ ~RequestDeploy(p)
  BY <1>4, ForceStartClickFields, CancelFields, CancelDeploymentFields, TakesRowsFields
  DEF UserStep
<1>5. CASE p \in Workers /\ WorkerStep(p)
  BY <1>5, PickFields, RunEndsFields, RedeliverFields, IdleFields, FailedFields
  DEF WorkerStep
<1>. QED  BY <1>1, <1>2, <1>3, <1>4, <1>5 DEF StepOf

(* Without additional destinations no worker ever inserts a row.           *)
NoFan ==
  (\A a \in Apps : Extra[a] = {}) =>
    \A p \in Procs : proc[p].fan = {} /\ (proc[p].pc = "insert" => p \in Requests)

(* What a step does to the servers its process has yet to serve.           *)
LEMMA FanStep ==
  ASSUME Inv, NEW p \in Procs, StepOf(p)
  PROVE  \/ proc'[p].fan \subseteq proc[p].fan
         \/ Close(p) /\ proc'[p].fan \subseteq AdditionalServers(proc[p].job)
<1>1. CASE Proceed(p)
  <2>1. CASE Insert(p) \/ Snapshot(p) \/ Scan(p) \/ ScanEnd(p)
    BY <2>1, InsertFields, SnapshotFields, ScanFields, ScanEndFields, IdleFields
  <2>2. CASE Start(p) \/ Dispatch(p) \/ DispatchThrows(p)
    BY <2>2, StartFields, DispatchFields, DispatchThrowsFields, IdleFields, FailedFields
  <2>3. CASE CancelDeploymentWrite(p) \/ SweepStep(p) \/ Mark(p)
    BY <2>3, CancelDeploymentWriteFields, SweepStepFields, MarkFields, IdleFields
  <2>4. CASE Settle(p) \/ Close(p) \/ FanOut(p) \/ EffectsEnd(p)
    BY <2>4, SettleFields, CloseFields, FanOutFields, EffectsEndFields, IdleFields, FailedFields
  <2>. QED  BY <1>1, <2>1, <2>2, <2>3, <2>4 DEF Proceed
<1>2. CASE FaultStep(p)
  BY <1>2, EffectsThrowFields, DieFields, GoesTo, IdleFields, FailedFields
  DEF FaultStep, Timeout, FailJob
<1>3. CASE UserStep(p)
  BY <1>3, RequestDeployFields, ForceStartClickFields, CancelFields, CancelDeploymentFields,
     TakesRowsFields
  DEF UserStep
<1>4. CASE p \in Workers /\ WorkerStep(p)
  BY <1>4, PickFields, RunEndsFields, RedeliverFields, IdleFields, FailedFields
  DEF WorkerStep
<1>. QED  BY <1>1, <1>2, <1>3, <1>4 DEF StepOf

LEMMA NoFanStep == Inv /\ NoFan /\ [Next]_vars => NoFan'
<1>. SUFFICES ASSUME Inv, NoFan, [Next]_vars, \A a \in Apps : Extra[a] = {}
              PROVE  \A q \in Procs : /\ proc'[q].fan = {}
                                      /\ proc'[q].pc = "insert" => q \in Requests
  BY Zenon DEF NoFan
<1>0. \A q \in Procs : proc[q].fan = {} /\ (proc[q].pc = "insert" => q \in Requests)
  BY DEF NoFan
<1>1. ASSUME NEW p \in Procs, StepOf(p)
      PROVE  \A q \in Procs : /\ proc'[q].fan = {}
                              /\ proc'[q].pc = "insert" => q \in Requests
  <2>1. ASSUME Close(p) PROVE AdditionalServers(proc[p].job) = {}
    <3>1. proc[p].job \in D /\ proc[p].job \in Held(proc[p])
      BY <2>1, CloseFields DEF Held, D
    <3>2. row[proc[p].job].app \in Apps
      BY <3>1 DEF Inv, KnownRows, Rows
    <3>. QED  BY <3>2 DEF AdditionalServers
  <2>2. proc'[p].fan = {}
    BY <1>0, <1>1, <2>1, FanStep
  <2>3. proc'[p].pc = "insert" => p \in Requests
    BY <1>0, <1>1, AdmitsFirst
  <2>. QED  BY <1>0, <1>1, <2>2, <2>3, OthersKept
<1>2. CASE (\E a \in Apps : Break(a)) \/ UNCHANGED vars
  BY <1>0, <1>2 DEF Break, vars
<1>3. CASE Restart
  BY <1>3, IdleFields DEF Restart
<1>. QED  BY <1>1, <1>2, <1>3, Steps

LEMMA FewInsert ==
  /\ IsFiniteSet(Inserters) /\ Cardinality(Inserters) \in Nat \ {0}
  /\ NoFan => \A s : Inserting(s) \subseteq Inserters
  /\ NoFan' => \A s : Inserting(s)' \subseteq Inserters
<1>1. IsFiniteSet(Inserters) /\ Inserters # {}
  BY ProcessAssumption, FS_Subset DEF Inserters, Procs
<1>2. Cardinality(Inserters) \in Nat \ {0}
  BY <1>1, FS_CardinalityType, FS_EmptySet
<1>. QED  BY <1>1, <1>2 DEF NoFan, Inserting, Inserters, At

(* The rows queued on s and those about to be.                             *)
LEMMA Counts ==
  ASSUME NEW s \in Servers
  PROVE  /\ QueuedOn(s) \in SUBSET D /\ QueuedOn(s)' \in SUBSET D
         /\ IsFiniteSet(Inserting(s)) /\ IsFiniteSet(Inserting(s)')
         /\ Cardinality(QueuedOn(s)) \in Nat /\ Cardinality(QueuedOn(s)') \in Nat
         /\ Cardinality(Inserting(s)) \in Nat /\ Cardinality(Inserting(s)') \in Nat
         /\ QueueLimit[s] \in Nat
<1>1. /\ QueuedOn(s) \in SUBSET D /\ QueuedOn(s)' \in SUBSET D
      /\ Inserting(s) \in SUBSET Procs /\ Inserting(s)' \in SUBSET Procs
  BY DEF QueuedOn, InState, Inserting
<1>2. IsFiniteSet(Inserting(s)) /\ IsFiniteSet(Inserting(s)')
  BY <1>1, ProcessAssumption, FS_Subset
<1>. QED  BY <1>1, <1>2, QueuedCount, FS_CardinalityType, TopologyAssumption

LEMMA SumShrinks ==
  ASSUME NEW s \in Servers, QueuedOn(s)' \subseteq QueuedOn(s),
         Inserting(s)' \subseteq Inserting(s)
  PROVE  Cardinality(QueuedOn(s)') + Cardinality(Inserting(s)')
           =< Cardinality(QueuedOn(s)) + Cardinality(Inserting(s))
<1>1. /\ Cardinality(QueuedOn(s)') =< Cardinality(QueuedOn(s))
      /\ Cardinality(Inserting(s)') =< Cardinality(Inserting(s))
  BY Counts, QueuedCount, FS_Subset
<1>. QED  BY <1>1, Counts

(* The INSERT moves one from those about to be queued to those queued.     *)
LEMMA InsertKeepsSum ==
  ASSUME Inv, NEW p \in Procs, Insert(p), NEW s \in Servers
  PROVE  Cardinality(QueuedOn(s)') + Cardinality(Inserting(s)')
           =< Cardinality(QueuedOn(s)) + Cardinality(Inserting(s))
<1>1. PICK d \in D \ Created : /\ status' = [status EXCEPT ![d] = "queued"]
                               /\ row' = [row EXCEPT ![d] = proc[p].req]
  BY DEF Insert
<1>2. /\ status \in [D -> Statuses] /\ row \in [D -> Rows \cup {NoRow}]
      /\ status[d] = "none"
  BY DEF Inv, TypeOK, Created
<1>3. /\ StepOf(p) /\ proc[p].pc = "insert" /\ proc'[p].pc # "insert"
  BY InsertFields DEF StepOf, Proceed
<1>4. Inserting(s)' \subseteq Inserting(s) \ {p}
  BY <1>3, OthersKept DEF Inserting, At
<1>5. CASE s # proc[p].req.server
  <2>1. QueuedOn(s)' \subseteq QueuedOn(s)
    BY <1>1, <1>2, <1>5 DEF QueuedOn, InState
  <2>. QED  BY <1>4, <2>1, SumShrinks
<1>6. CASE s = proc[p].req.server
  <2>1. QueuedOn(s)' \subseteq QueuedOn(s) \cup {d} /\ QueuedOn(s) \cup {d} \in SUBSET D
    BY <1>1, <1>2 DEF QueuedOn, InState
  <2>2. d \notin QueuedOn(s)
    BY <1>2 DEF QueuedOn, InState
  <2>3. /\ Cardinality(QueuedOn(s) \cup {d}) = Cardinality(QueuedOn(s)) + 1
        /\ Cardinality(QueuedOn(s)') =< Cardinality(QueuedOn(s) \cup {d})
    BY <2>1, <2>2, Counts, QueuedCount, FS_AddElement, FS_Subset
  <2>4. p \in Inserting(s)
    BY <1>3, <1>6 DEF Inserting, At
  <2>5. /\ Cardinality(Inserting(s) \ {p}) = Cardinality(Inserting(s)) - 1
        /\ IsFiniteSet(Inserting(s) \ {p})
    BY <2>4, Counts, FS_RemoveElement
  <2>6. Cardinality(Inserting(s)') =< Cardinality(Inserting(s) \ {p})
    BY <1>4, <2>5, FS_Subset
  <2>. QED  BY <2>3, <2>5, <2>6, Counts
<1>. QED  BY <1>5, <1>6

LEMMA LimitStep ==
  Inv /\ NoFan /\ QueueLimitRespected /\ [Next]_vars => QueueLimitRespected'
<1>. SUFFICES ASSUME Inv, NoFan, QueueLimitRespected, [Next]_vars, NEW s \in Servers
              PROVE  Cardinality(QueuedOn(s)') + Cardinality(Inserting(s)')
                       =< QueueLimit[s] + Cardinality(Inserters) - 1
  BY DEF QueueLimitRespected
<1>0. Cardinality(QueuedOn(s)) + Cardinality(Inserting(s))
        =< QueueLimit[s] + Cardinality(Inserters) - 1
  BY DEF QueueLimitRespected
<1>1. ASSUME Cardinality(QueuedOn(s)') + Cardinality(Inserting(s)')
               =< Cardinality(QueuedOn(s)) + Cardinality(Inserting(s))
      PROVE  Cardinality(QueuedOn(s)') + Cardinality(Inserting(s)')
               =< QueueLimit[s] + Cardinality(Inserters) - 1
  BY <1>0, <1>1, Counts, FewInsert
<1>2. ASSUME NEW p \in Procs, StepOf(p), ~Insert(p), proc'[p].pc # "insert"
      PROVE  Cardinality(QueuedOn(s)') + Cardinality(Inserting(s)')
               =< QueueLimit[s] + Cardinality(Inserters) - 1
  <2>1. QueuedOn(s)' \subseteq QueuedOn(s)
    BY <1>2, NoneQueued DEF QueuedOn, InState
  <2>2. Inserting(s)' \subseteq Inserting(s)
    BY <1>2, OthersKept DEF Inserting, At
  <2>. QED  BY <1>1, <2>1, <2>2, SumShrinks
<1>3. ASSUME NEW p \in Procs, Insert(p)
      PROVE  Cardinality(QueuedOn(s)') + Cardinality(Inserting(s)')
               =< QueueLimit[s] + Cardinality(Inserters) - 1
  BY <1>1, <1>3, InsertKeepsSum
<1>4. ASSUME NEW p \in Procs, StepOf(p), proc'[p].pc = "insert"
      PROVE  Cardinality(QueuedOn(s)') + Cardinality(Inserting(s)')
               =< QueueLimit[s] + Cardinality(Inserters) - 1
  <2>1. UNCHANGED <<status, row>> /\ ~QueueFull(proc'[p].req.server)
    BY <1>4, AdmitsFirst
  <2>2. QueuedOn(s)' = QueuedOn(s)
    BY <2>1 DEF QueuedOn, InState
  <2>3. CASE s # proc'[p].req.server
    <3>1. Inserting(s)' \subseteq Inserting(s)
      BY <1>4, <2>3, OthersKept DEF Inserting, At
    <3>. QED  BY <1>1, <2>2, <3>1, SumShrinks
  <2>4. CASE s = proc'[p].req.server
    <3>1. ~(Cardinality(QueuedOn(s)) >= QueueLimit[s])
      BY <2>1, <2>4 DEF QueueFull, QueuedOn
    <3>2. NoFan'
      BY NoFanStep
    <3>3. Cardinality(Inserting(s)') =< Cardinality(Inserters)
      BY <3>2, FewInsert, FS_Subset
    <3>. QED  BY <2>2, <3>1, <3>3, Counts, FewInsert
  <2>. QED  BY <2>3, <2>4
<1>5. CASE (\E a \in Apps : Break(a)) \/ Restart \/ UNCHANGED vars
  <2>1. QueuedOn(s)' \subseteq QueuedOn(s)
    BY <1>5, NoneQueuedElse DEF QueuedOn, InState
  <2>2. proc' = proc \/ \A q \in Procs : proc'[q].pc = "idle"
    BY <1>5, IdleFields DEF Break, Restart, vars
  <2>3. Inserting(s)' \subseteq Inserting(s)
    BY <2>2 DEF Inserting, At
  <2>. QED  BY <1>1, <2>1, <2>3, SumShrinks
<1>. QED  BY <1>2, <1>3, <1>4, <1>5, Steps

(* Whatever users do, however requests and workers interleave and whoever  *)
(* dies, the queue of a server exceeds deployment_queue_limit by no more   *)
(* than those that looked at it while another was about to insert.         *)
THEOREM QueueKeepsItsLimit == Spec => []QueueLimitRespected
<1> DEFINE LimitInv == Inv /\ NoFan /\ QueueLimitRespected
<1>1. Init => LimitInv
  <2>. SUFFICES ASSUME Init PROVE NoFan /\ QueueLimitRespected
    BY InitInv
  <2>1. NoFan
    BY IdleFields DEF Init, NoFan
  <2>2. ASSUME NEW s \in Servers
        PROVE  Cardinality(QueuedOn(s)) = 0 /\ Cardinality(Inserting(s)) = 0
    <3>1. QueuedOn(s) = {} /\ Inserting(s) = {}
      BY IdleFields DEF Init, QueuedOn, InState, Inserting, At
    <3>. QED  BY <3>1, FS_EmptySet
  <2>3. QueueLimitRespected
    BY <2>2, FewInsert, Counts DEF QueueLimitRespected
  <2>. QED  BY <2>1, <2>3
<1>2. LimitInv /\ [Next]_vars => LimitInv'
  BY StepInv, NoFanStep, LimitStep
<1>3. LimitInv => QueueLimitRespected
  OBVIOUS
<1>. QED  BY <1>1, <1>2, <1>3, PTL DEF Spec

(***************************************************************************)
(* The limits, with every interleaving.  What a process has read of a row  *)
(* still holds when it writes, or the row is excused; that is enough for   *)
(* every row of which nothing is excused.                                  *)
(***************************************************************************)

(* Where a step can lead. *)
LEMMA Arrives ==
  ASSUME Inv, NEW p \in Procs, StepOf(p)
  PROVE  LET pc == proc'[p].pc IN
         /\ pc = "start" => \/ Insert(p) \/ Scan(p)
                            \/ p \in Requests /\ ForceStartClick(p)
         /\ pc = "dispatch" => Start(p)
         /\ pc = "mark" => p \in Workers /\ Pick(p)
         /\ pc = "apicancel" => CancelDeployment(p)
         /\ pc = "sweep" => \/ SweepStep(p)
                            \/ CancelActiveDeployments(p) \/ CheckDeploymentQueue(p)
         /\ pc = "close" => Settle(p)
<1>0. proc[p].back \in {"idle", "effects", "settle"}
  BY DEF Inv, TypeOK, LocalState
<1>1. CASE Proceed(p)
  <2>1. CASE Insert(p) \/ Snapshot(p) \/ Scan(p) \/ ScanEnd(p)
    BY <1>0, <2>1, InsertFields, SnapshotFields, ScanFields, ScanEndFields, IdleFields
  <2>2. CASE Start(p) \/ Dispatch(p) \/ DispatchThrows(p)
    BY <2>2, StartFields, DispatchFields, DispatchThrowsFields, IdleFields, FailedFields
  <2>3. CASE CancelDeploymentWrite(p) \/ SweepStep(p) \/ Mark(p)
    BY <2>3, CancelDeploymentWriteFields, SweepStepFields, MarkFields, IdleFields
  <2>4. CASE Settle(p) \/ Close(p) \/ FanOut(p) \/ EffectsEnd(p)
    BY <2>4, SettleFields, CloseFields, FanOutFields, EffectsEndFields, IdleFields, FailedFields
  <2>. QED  BY <1>1, <2>1, <2>2, <2>3, <2>4 DEF Proceed
<1>2. CASE FaultStep(p)
  BY <1>2, EffectsThrowFields, DieFields, GoesTo, IdleFields, FailedFields
  DEF FaultStep, Timeout, FailJob
<1>3. CASE p \in Requests /\ UserStep(p)
  BY <1>3, RequestDeployFields, ForceStartClickFields, CancelFields, CancelDeploymentFields,
     TakesRowsFields
  DEF UserStep
<1>4. CASE p \in Workers /\ WorkerStep(p)
  BY <1>4, PickFields, RunEndsFields, RedeliverFields, IdleFields, FailedFields
  DEF WorkerStep
<1>. QED  BY <1>1, <1>2, <1>3, <1>4 DEF StepOf

(* The statements that write the table. *)
LEMMA Writers ==
  ASSUME Inv, NEW p \in Procs, StepOf(p)
  PROVE  \/ UNCHANGED <<status, row>>
         \/ Insert(p) \/ Start(p) \/ CancelDeploymentWrite(p) \/ SweepStep(p)
         \/ Mark(p) \/ Close(p)
         \/ p \in Requests /\ Cancel(p)
<1>1. CASE Snapshot(p) \/ Scan(p) \/ ScanEnd(p) \/ Dispatch(p) \/ DispatchThrows(p)
             \/ Settle(p)
  BY <1>1, SnapshotFields, ScanFields, ScanEndFields, DispatchFields, DispatchThrowsFields,
     SettleFields
<1>2. CASE FanOut(p) \/ EffectsEnd(p) \/ FaultStep(p)
  BY <1>2, FanOutFields, EffectsEndFields, EffectsThrowFields, DieFields DEF FaultStep, Timeout
<1>3. CASE p \in Requests /\ UserStep(p)
  BY <1>3, ForceStartClickFields, CancelDeploymentFields, TakesRowsFields
  DEF UserStep, RequestDeploy
<1>4. CASE p \in Workers /\ WorkerStep(p)
  BY <1>4, PickFields, RunEndsFields, RedeliverFields DEF WorkerStep
<1>. QED  BY <1>1, <1>2, <1>3, <1>4 DEF StepOf, Proceed

(* What each of them writes. *)
LEMMA Writes ==
  ASSUME Inv, NEW p \in Procs, StepOf(p), NEW d \in D, status'[d] # status[d]
  PROVE  \/ Insert(p) /\ status[d] = "none" /\ status'[d] = "queued"
         \/ Start(p) /\ d = proc[p].cur /\ status'[d] = "in_progress"
         \/ CancelDeploymentWrite(p) /\ d = proc[p].cur /\ status'[d] = "cancelled"
         \/ SweepStep(p) /\ d \in proc[p].todo /\ status'[d] \in {"failed", "cancelled"}
         \/ /\ Mark(p) /\ d = proc[p].job /\ proc[p].hold # "in_progress"
            /\ status'[d] = "in_progress"
         \/ Close(p) /\ d = proc[p].job /\ status'[d] \in Closed
         \/ p \in Requests /\ Cancel(p) /\ status'[d] = "cancelled"
<1>0. status \in [D -> Statuses] /\ LocalOK(p, proc[p])
  BY DEF Inv, TypeOK, ProcOK
<1>1. CASE Insert(p)
  BY <1>0, <1>1, InsertFields DEF Created
<1>2. CASE Start(p) \/ CancelDeploymentWrite(p)
  BY <1>0, <1>2, StartFields, CancelDeploymentWriteFields
<1>3. CASE SweepStep(p)
  BY <1>0, <1>3, SweepStepFields DEF LocalOK
<1>4. CASE Mark(p) \/ Close(p)
  BY <1>0, <1>4, MarkFields, CloseFields
<1>5. CASE p \in Requests /\ Cancel(p)
  BY <1>0, <1>5, CancelFields
<1>. QED  BY <1>1, <1>2, <1>3, <1>4, <1>5, Writers

(* What is excused stays excused.                                          *)
LEMMA Excuses ==
  ASSUME RaceTypeOK, NotesExcuses
  PROVE  /\ RaceTypeOK'
         /\ \A d \in D :
              /\ d \in excused'["unchecked"] <=> d \in excused["unchecked"] \/ Unchecked(d)
              /\ d \in excused'["unqueued"] <=> d \in excused["unqueued"] \/ Unqueued(d)
              /\ d \in excused'["reopened"] <=> d \in excused["reopened"] \/ Reopened(d)
              /\ d \in excused'["overwritten"] <=> d \in excused["overwritten"] \/ Overwritten(d)
         /\ \A kind \in Kinds : excused[kind] \subseteq D /\ excused[kind] \subseteq excused'[kind]
<1>1. \A kind \in Kinds :
        /\ excused'[kind] = excused[kind] \cup {d \in D : Excuse(kind, d)}
        /\ excused[kind] \subseteq D
  BY DEF NotesExcuses, RaceTypeOK
<1>2. RaceTypeOK'
  <2>1. excused' \in [Kinds -> SUBSET D]
    BY <1>1 DEF NotesExcuses
  <2>. QED  BY <2>1 DEF RaceTypeOK
<1>3. \A d \in D : /\ Excuse("unchecked", d) <=> Unchecked(d)
                   /\ Excuse("unqueued", d) <=> Unqueued(d)
                   /\ Excuse("reopened", d) <=> Reopened(d)
                   /\ Excuse("overwritten", d) <=> Overwritten(d)
  BY DEF Excuse
<1>4. {"unchecked", "unqueued", "reopened", "overwritten"} \subseteq Kinds
  BY DEF Kinds
<1>. QED  BY <1>1, <1>2, <1>3, <1>4

LEMMA Grows ==
  ASSUME RaceTypeOK, NotesExcuses
  PROVE  Outside \subseteq Outside' /\ Irregular \subseteq Irregular'
BY Excuses DEF Outside, Irregular, Kinds

(* The only rows of which a step excuses something new are those it        *)
(* writes, starts or has a worker take.                                    *)
LEMMA ExcusesOne ==
  ASSUME Inv, RaceTypeOK, NotesExcuses, NEW p \in Procs, StepOf(p), NEW d \in D,
         status'[d] = status[d],
         proc'[p].pc = "start" => proc'[p].cur # d,
         proc'[p].pc # "mark"
  PROVE  \A kind \in Kinds : d \in excused'[kind] <=> d \in excused[kind]
<1>1. \A q \in Procs : ~Claims(q, d)
  BY OthersKept DEF Claims, Claiming, At
<1>2. ~Unchecked(d) /\ ~Unqueued(d)
  BY <1>1 DEF Unchecked, Unqueued
<1>3. ~Reopened(d)
  BY OthersKept DEF Reopened, At, Procs
<1>4. ~Overwritten(d)
  BY DEF Overwritten
<1>. QED  BY <1>2, <1>3, <1>4, Excuses DEF Kinds

(* What a process has read holds, or the row is excused.                   *)
LEMMA ReadsStep ==
  ASSUME Inv, RaceTypeOK, ReadsHold, NotesExcuses, NEW p \in Procs, StepOf(p)
  PROVE  ReadsHold'
<1>1. ASSUME NEW q \in Procs, q # p, NEW d \in D
      PROVE  /\ Claiming(q, d)' => status'[d] = "queued" \/ d \in excused'["unqueued"]
             /\ d \in WillWrite(q)' => status'[d] \in Active \/ d \in excused'["overwritten"]
             /\ At(q, "mark")' /\ proc'[q].job = d =>
                  proc'[q].hold = "in_progress" \/ d \in excused'["reopened"]
  <2>1. proc'[q] = proc[q]
    BY <1>1, OthersKept
  <2>2. /\ Claiming(q, d)' <=> Claiming(q, d)
        /\ WillWrite(q)' = WillWrite(q)
        /\ At(q, "mark")' <=> At(q, "mark")
    BY <2>1 DEF Claiming, WillWrite, At
  <2>3. ASSUME Claiming(q, d)' PROVE status'[d] = "queued" \/ d \in excused'["unqueued"]
    <3>1. CASE status'[d] = status[d]
      BY <2>2, <2>3, <3>1, Excuses DEF ReadsHold, Kinds
    <3>2. CASE status'[d] # status[d]
      BY <2>2, <2>3, <3>2, Excuses DEF Unqueued
    <3>. QED  BY <3>1, <3>2
  <2>4. ASSUME d \in WillWrite(q)'
        PROVE  status'[d] \in Active \/ d \in excused'["overwritten"]
    <3>1. CASE status'[d] = status[d]
      BY <2>2, <2>4, <3>1, Excuses DEF ReadsHold, Kinds
    <3>2. CASE status'[d] # status[d]
      BY <2>2, <2>4, <3>2, Excuses DEF Overwritten
    <3>. QED  BY <3>1, <3>2
  <2>5. ASSUME At(q, "mark")', proc'[q].job = d
        PROVE  proc'[q].hold = "in_progress" \/ d \in excused'["reopened"]
    BY <2>1, <2>2, <2>5, Excuses DEF ReadsHold, Kinds
  <2>. QED  BY <2>3, <2>4, <2>5
<1>2. ASSUME NEW d \in D, Claiming(p, d)'
      PROVE  status'[d] = "queued" \/ d \in excused'["unqueued"]
  <2>1. proc'[p].pc = "start" /\ proc'[p].cur = d
    BY <1>2 DEF Claiming, At
  <2>2. proc[p].pc # "start"
    BY <2>1, Arrives, InsertFields, ScanFields, ForceStartClickFields, IdleFields
  <2>3. Claims(p, d)
    BY <1>2, <2>2 DEF Claims, At
  <2>. QED  BY <2>3, Excuses DEF Unqueued
<1>3. ASSUME NEW d \in D, d \in WillWrite(p)'
      PROVE  status'[d] \in Active \/ d \in excused'["overwritten"]
  <2>1. CASE proc'[p].pc = "apicancel"
    BY <1>3, <2>1, Arrives, CancelDeploymentFields DEF WillWrite, At
  <2>2. CASE proc'[p].pc = "close"
    <3>1. Settle(p) /\ d = proc'[p].job
      BY <1>3, <2>2, Arrives DEF WillWrite, At
    <3>2. d = proc[p].job /\ status[d] \notin Closed \cup {"cancelled"} /\ status' = status
      BY <2>2, <3>1, SettleFields, IdleFields, FailedFields
    <3>3. status[d] # "none" /\ status[d] \in Statuses
      BY <3>2 DEF Inv, TypeOK, KnownRows, Held, Created, D
    <3>. QED  BY <3>2, <3>3 DEF Statuses, Active
  <2>3. CASE proc'[p].pc = "sweep"
    <3>1. d \in proc'[p].todo
      BY <1>3, <2>3 DEF WillWrite, At
    <3>2. CASE CancelActiveDeployments(p) \/ CheckDeploymentQueue(p)
      BY <3>1, <3>2, TakesRowsFields
    <3>3. CASE SweepStep(p)
      <4>1. /\ d \in WillWrite(p) /\ status \in [D -> Statuses]
        BY <2>3, <3>1, <3>3, SweepStepFields, IdleFields DEF WillWrite, At, Inv, TypeOK
      <4>2. status'[d] = status[d]
        BY <2>3, <3>1, <3>3, <4>1, SweepStepFields, IdleFields
      <4>. QED  BY <4>1, <4>2, Excuses DEF ReadsHold, Kinds
    <3>. QED  BY <2>3, <3>2, <3>3, Arrives
  <2>. QED  BY <1>3, <2>1, <2>2, <2>3 DEF WillWrite, At
<1>4. ASSUME NEW d \in D, At(p, "mark")', proc'[p].job = d
      PROVE  proc'[p].hold = "in_progress" \/ d \in excused'["reopened"]
  <2>1. p \in Workers /\ Pick(p) /\ proc'[p].pc = "mark"
    BY <1>4, Arrives DEF At
  <2>2. /\ proc[p] = IdleProc /\ pending[d] > 0
        /\ proc'[p].hold = status[d] /\ status[d] # "cancelled"
    BY <1>4, <2>1, PickFields, IdleFields
  <2>3. status[d] \in Closed \cup {"in_progress"}
    BY <2>2 DEF Inv, TypeOK, KnownRows, QueuedNotDispatched, HasJob, Created, InState,
       Statuses, Active
  <2>4. status[d] \in Closed => Reopened(d)
    BY <1>4, <2>1, <2>2, IdleFields DEF Reopened, At
  <2>. QED  BY <2>2, <2>3, <2>4, Excuses
<1>. QED  BY <1>1, <1>2, <1>3, <1>4 DEF ReadsHold

(* A row that begins to hold its lane and its place is the one that a scan *)
(* has found queuable, while no rival was about to be started.             *)
LEMMA NewOccupant ==
  ASSUME Inv, RaceTypeOK, ReadsHold, NotesExcuses, NEW p \in Procs, StepOf(p),
         NEW d \in Occupants', d \notin Occupants
  PROVE  /\ Scan(p) /\ d = proc'[p].cur /\ d \in proc[p].todo /\ NextQueuable(row[d])
         /\ \A e \in Occupants \ {d} : status[e] # "in_progress" => ~Rivals(d, e)
<1>1. /\ d \in D /\ d \notin Outside /\ d \notin Outside'
      /\ ~Unchecked(d) /\ d \notin excused["reopened"]
  BY Grows, Excuses DEF Occupants, Outside
<1>2. status'[d] = "in_progress" => status[d] = "in_progress"
  <2>. SUFFICES ASSUME status'[d] = "in_progress", status[d] # "in_progress" PROVE FALSE
    OBVIOUS
  <2>1. \/ Start(p) /\ d = proc[p].cur
        \/ Mark(p) /\ d = proc[p].job /\ proc[p].hold # "in_progress"
    BY <1>1, Writes DEF Closed
  <2>2. ~Claiming(p, d)
    BY <1>1 DEF Occupants
  <2>. QED  BY <1>1, <2>1, <2>2, StartFields DEF Claiming, ReadsHold, At, Mark
<1>3. ~(status[d] = "in_progress") /\ \A q \in Procs : ~Claiming(q, d)
  BY <1>1 DEF Occupants
<1>4. PICK q \in Procs : Claiming(q, d)'
  BY <1>2, <1>3 DEF Occupants
<1>5. q = p
  BY <1>3, <1>4, OthersKept DEF Claiming, At
<1>6. /\ Claims(p, d) /\ proc'[p].pc = "start" /\ proc'[p].cur = d /\ proc[p].pc # "start"
  BY <1>3, <1>4, <1>5, Arrives, InsertFields, ScanFields, ForceStartClickFields, IdleFields
  DEF Claims, Claiming, At
<1>7. /\ At(p, "scan")
      /\ \A r \in Procs, e \in D \ (Outside \cup {d}) : ~(Claiming(r, e) /\ Rivals(d, e))
  BY <1>1, <1>6 DEF Unchecked
<1>8. Scan(p)
  BY <1>6, <1>7, Arrives, InsertFields, ForceStartClickFields, IdleFields DEF At
<1>9. d \in proc[p].todo /\ NextQueuable(row[d])
  BY <1>6, <1>8, ScanFields
<1>10. ASSUME NEW e \in Occupants, e # d, status[e] # "in_progress" PROVE ~Rivals(d, e)
  BY <1>7, <1>10 DEF Occupants
<1>. QED  BY <1>6, <1>8, <1>9, <1>10

LEMMA FewOccupants ==
  ASSUME NEW s
  PROVE  LET S == {d \in Occupants : row[d].server = s} IN
         S \in SUBSET D /\ S' \in SUBSET D
BY DEF Occupants

(* Rows that hold a place exist. *)
LEMMA OccupantsExist ==
  ASSUME Inv
  PROVE  Occupants \subseteq Created
<1>1. ASSUME NEW p \in Procs, NEW d \in D, Claiming(p, d) PROVE d \in Created
  BY <1>1 DEF Claiming, At, Inv, KnownRows, Held, D
<1>. QED  BY <1>1 DEF Occupants, Created

LEMMA FitShrinks ==
  ASSUME OccupantsFit, Occupants' \subseteq Occupants,
         \A d \in Occupants' : row'[d] = row[d]
  PROVE  OccupantsFit'
<1>1. ASSUME NEW d \in Occupants', NEW e \in Occupants', SameLane(d, e)' PROVE d = e
  BY <1>1 DEF OccupantsFit, SameLane
<1>2. ASSUME NEW s \in Servers
      PROVE  Cardinality({d \in Occupants' : row'[d].server = s}) =< ConcurrentBuilds[s]
  <2>1. PICK S, T : S = {d \in Occupants : row[d].server = s}
                    /\ T = {d \in Occupants' : row'[d].server = s}
    OBVIOUS
  <2>2. T \subseteq S /\ S \in SUBSET D /\ Cardinality(S) =< ConcurrentBuilds[s]
    BY <2>1 DEF OccupantsFit, Occupants
  <2>3. /\ Cardinality(T) =< Cardinality(S) /\ Cardinality(T) \in Nat
        /\ Cardinality(S) \in Nat /\ ConcurrentBuilds[s] \in Nat
    BY <2>2, QueuedCount, FS_Subset, TopologyAssumption
  <2>. QED  BY <2>1, <2>2, <2>3
<1>. QED  BY <1>1, <1>2 DEF OccupantsFit

LEMMA FitStep ==
  ASSUME Inv, RaceTypeOK, ReadsHold, OccupantsFit, NotesExcuses,
         NEW p \in Procs, StepOf(p)
  PROVE  OccupantsFit'
<1>1. \A d \in Occupants' : d \in Created /\ row'[d] = row[d]
  <2>1. ASSUME NEW d \in Occupants' PROVE d \in Created
    <3>1. CASE d \notin Occupants
      <4>1. d \in proc[p].todo /\ d \in D
        BY <3>1, NewOccupant DEF Occupants
      <4>. QED  BY <4>1 DEF Inv, KnownRows, Held, D
    <3>. QED  BY <3>1, OccupantsExist
  <2>2. \A d \in Created : row'[d] = row[d]
    BY NoneQueued, InsertFields DEF Inv, TypeOK, Created
  <2>. QED  BY <2>1, <2>2
<1>2. CASE Occupants' \subseteq Occupants
  BY <1>1, <1>2, FitShrinks
<1>3. CASE ~(Occupants' \subseteq Occupants)
  <2>1. PICK d \in Occupants' : d \notin Occupants
    BY <1>3
  <2>2. /\ d \in D /\ d = proc'[p].cur /\ NextQueuable(row[d])
        /\ \A e \in Occupants \ {d} : status[e] # "in_progress" => ~Rivals(d, e)
    BY <2>1, NewOccupant DEF Occupants
  <2>3. Occupants' \subseteq Occupants \cup {d}
    BY <2>2, NewOccupant
  <2>4. \A e \in Occupants : ~SameLane(d, e) /\ ~SameLane(e, d)
    BY <2>1, <2>2 DEF NextQueuable, LaneBusy, InState, Rivals, SameLane, Occupants
  <2>5. ASSUME NEW e \in Occupants', NEW f \in Occupants', SameLane(e, f)' PROVE e = f
    <3>1. SameLane(e, f)
      BY <1>1, <2>5 DEF SameLane
    <3>. QED  BY <2>3, <2>4, <3>1 DEF OccupantsFit
  <2>6. ASSUME NEW s \in Servers
        PROVE  Cardinality({e \in Occupants' : row'[e].server = s}) =< ConcurrentBuilds[s]
    <3>1. PICK S, T : /\ S = {e \in Occupants : row[e].server = s}
                      /\ T = {e \in Occupants' : row'[e].server = s}
      OBVIOUS
    <3>2. /\ S \in SUBSET D /\ T \in SUBSET D /\ ActiveOn(s) \in SUBSET D
          /\ Cardinality(S) =< ConcurrentBuilds[s] /\ ConcurrentBuilds[s] \in Nat
      BY <3>1, TopologyAssumption DEF OccupantsFit, Occupants, ActiveOn, InState
    <3>3. CASE row[d].server # s
      <4>1. T \subseteq S
        BY <1>1, <2>3, <3>1, <3>3
      <4>2. /\ Cardinality(T) =< Cardinality(S) /\ Cardinality(T) \in Nat
            /\ Cardinality(S) \in Nat
        BY <3>2, <4>1, QueuedCount, FS_Subset
      <4>. QED  BY <3>1, <3>2, <4>2
    <3>4. CASE row[d].server = s
      <4>1. T \subseteq ActiveOn(s) \cup {d}
        BY <1>1, <2>2, <2>3, <3>1, <3>4 DEF Rivals, ActiveOn, InState, Occupants
      <4>2. d \notin ActiveOn(s) /\ Cardinality(ActiveOn(s)) < ConcurrentBuilds[s]
        <5>1. d \notin Outside
          BY <2>1, Grows DEF Occupants
        <5>. QED  BY <2>1, <2>2, <3>4, <5>1 DEF NextQueuable, ActiveOn, InState, Occupants
      <4>3. /\ Cardinality(ActiveOn(s) \cup {d}) = Cardinality(ActiveOn(s)) + 1
            /\ IsFiniteSet(ActiveOn(s) \cup {d}) /\ Cardinality(ActiveOn(s)) \in Nat
        BY <3>2, <4>2, QueuedCount, FS_AddElement
      <4>4. Cardinality(T) =< Cardinality(ActiveOn(s) \cup {d}) /\ Cardinality(T) \in Nat
        BY <3>2, <4>1, <4>3, QueuedCount, FS_Subset
      <4>. QED  BY <3>1, <3>2, <4>2, <4>3, <4>4
    <3>. QED  BY <3>3, <3>4
  <2>. QED  BY <2>5, <2>6 DEF OccupantsFit
<1>. QED  BY <1>2, <1>3

(* A set all of whose members are equal.                                   *)
LEMMA AtMostOne ==
  ASSUME NEW S, \A a, b \in S : a = b
  PROVE  Cardinality(S) \in Nat /\ Cardinality(S) =< 1 /\ IsFiniteSet(S)
         /\ (S = {} => Cardinality(S) = 0)
<1>1. CASE S = {}
  BY <1>1, FS_EmptySet
<1>2. CASE S # {}
  <2>1. PICK a \in S : TRUE
    BY <1>2
  <2>2. S = {a}
    BY <2>1
  <2>3. IsFiniteSet(S) /\ Cardinality(S) = 1
    BY <2>2, FS_Singleton, Zenon
  <2>. QED  BY <1>2, <2>3
<1>. QED  BY <1>1, <1>2

(* The jobs of row d: in Redis, at work, and about to be pushed.           *)
AtJob(p, d) == p \in Workers /\ proc[p].job = d

OneJob(d) ==
  /\ pending[d] + reserved[d] =< 1
  /\ \A p, q \in Procs : AtJob(p, d) /\ AtJob(q, d) => p = q
  /\ (\E p \in Procs : AtJob(p, d)) => ~HasJob(d)
  /\ \A p \in Procs : d \in Pushing(proc[p]) =>
       /\ ~HasJob(d)
       /\ \A q \in Procs : ~AtJob(q, d) /\ (d \in Pushing(proc[q]) => q = p)

(* A step of p that moves no job of d, takes none and will push none.      *)
LEMMA JobsRest ==
  ASSUME Inv, NEW d \in D, OneJob(d), NEW p \in Procs, StepOf(p),
         pending'[d] = pending[d], reserved'[d] = reserved[d],
         proc'[p].job \in {proc[p].job, 0},
         proc'[p].pc = "dispatch" => proc'[p].cur # d
  PROVE  OneJob(d)'
<1>1. \A q \in Procs : AtJob(q, d)' => AtJob(q, d)
  BY OthersKept DEF AtJob, D
<1>2. \A q \in Procs : d \in Pushing(proc[q])' => d \in Pushing(proc[q])
  BY OthersKept DEF Pushing
<1>3. HasJob(d)' = HasJob(d)
  BY DEF HasJob
<1>. QED  BY <1>1, <1>2, <1>3 DEF OneJob

LEMMA JobsStart ==
  ASSUME Inv, NEW p \in Procs, Start(p), NEW d \in D, d = proc[p].cur,
         status[d] = "queued"
  PROVE  OneJob(d)'
<1>0. StepOf(p)
  BY DEF StepOf, Proceed
<1>1. /\ proc'[p].job = proc[p].job /\ UNCHANGED <<pending, reserved>>
      /\ pending \in [D -> Nat] /\ reserved \in [D -> Nat]
  BY StartFields DEF Inv, TypeOK
<1>2. ~HasJob(d) /\ \A q \in Procs : ~AtJob(q, d) /\ d \notin Pushing(proc[q])
  BY DEF Inv, QueuedNotDispatched, Working, AtJob, InState
<1>3. \A q \in Procs : ~AtJob(q, d)'
  BY <1>0, <1>1, <1>2, OthersKept DEF AtJob
<1>4. \A q \in Procs : d \in Pushing(proc[q])' => q = p
  BY <1>0, <1>2, OthersKept DEF Pushing
<1>5. ~HasJob(d)' /\ pending'[d] + reserved'[d] = 0
  BY <1>1, <1>2 DEF HasJob
<1>. QED  BY <1>3, <1>4, <1>5 DEF OneJob

LEMMA JobsDispatch ==
  ASSUME Inv, NEW p \in Procs, Dispatch(p), NEW d \in D, d = proc[p].cur, OneJob(d)
  PROVE  OneJob(d)'
<1>0. StepOf(p)
  BY DEF StepOf, Proceed
<1>1. /\ proc'[p].job = proc[p].job /\ proc'[p].pc = "scan"
      /\ pending' = [pending EXCEPT ![d] = @ + 1] /\ reserved' = reserved
      /\ d \in Pushing(proc[p])
      /\ pending \in [D -> Nat] /\ reserved \in [D -> Nat]
  BY DispatchFields DEF Pushing, Inv, TypeOK
<1>2. /\ pending[d] = 0 /\ reserved[d] = 0
      /\ \A q \in Procs : ~AtJob(q, d) /\ (d \in Pushing(proc[q]) => q = p)
  BY <1>1 DEF OneJob, HasJob
<1>3. \A q \in Procs : ~AtJob(q, d)'
  BY <1>0, <1>1, <1>2, OthersKept DEF AtJob
<1>4. \A q \in Procs : d \notin Pushing(proc[q])'
  BY <1>0, <1>1, <1>2, OthersKept DEF Pushing
<1>5. pending'[d] + reserved'[d] = 1
  BY <1>1, <1>2
<1>. QED  BY <1>3, <1>4, <1>5 DEF OneJob

(* A worker takes the job of row d from Redis, and keeps it or drops it.   *)
LEMMA JobsTaken ==
  ASSUME Inv, NEW p \in Workers, StepOf(p), NEW d \in D, OneJob(d), HasJob(d),
         pending'[d] \in Nat, reserved'[d] \in Nat,
         pending'[d] + reserved'[d] = pending[d] + reserved[d] - 1,
         proc'[p].pc # "dispatch"
  PROVE  OneJob(d)'
<1>0. p \in Procs /\ pending[d] \in Nat /\ reserved[d] \in Nat
  BY DEF Procs, Inv, TypeOK
<1>1. /\ pending[d] + reserved[d] = 1 /\ \A q \in Procs : ~AtJob(q, d)
      /\ \A q \in Procs : d \notin Pushing(proc[q])
  BY <1>0 DEF OneJob, HasJob
<1>2. ~HasJob(d)' /\ pending'[d] + reserved'[d] = 0
  BY <1>0, <1>1 DEF HasJob
<1>3. \A q \in Procs : AtJob(q, d)' => q = p
  BY <1>0, <1>1, OthersKept DEF AtJob
<1>4. \A q \in Procs : d \notin Pushing(proc[q])'
  BY <1>0, <1>1, OthersKept DEF Pushing
<1>. QED  BY <1>2, <1>3, <1>4 DEF OneJob

LEMMA JobsDie ==
  ASSUME Inv, NEW p \in Procs, Die(p), NEW d \in D, OneJob(d)
  PROVE  OneJob(d)'
<1>0. StepOf(p)
  BY DEF StepOf, FaultStep
<1>1. /\ proc'[p] = IdleProc /\ pending' = pending
      /\ reserved' = [e \in D |-> IF InHandle(p) /\ e = proc[p].job
                                  THEN reserved[e] + 1 ELSE reserved[e]]
      /\ pending \in [D -> Nat] /\ reserved \in [D -> Nat]
  BY DieFields DEF Inv, TypeOK
<1>2. CASE InHandle(p) /\ d = proc[p].job
  <2>1. AtJob(p, d)
    BY <1>2 DEF InHandle, AtJob
  <2>2. /\ pending[d] = 0 /\ reserved[d] = 0
        /\ \A q \in Procs : (AtJob(q, d) => q = p) /\ d \notin Pushing(proc[q])
    BY <1>1, <2>1 DEF OneJob, HasJob
  <2>3. \A q \in Procs : ~AtJob(q, d)' /\ d \notin Pushing(proc[q])'
    BY <1>0, <1>1, <2>2, IdleFields, OthersKept DEF AtJob, Pushing, D
  <2>4. pending'[d] + reserved'[d] = 1
    BY <1>1, <1>2, <2>2
  <2>. QED  BY <2>3, <2>4 DEF OneJob
<1>3. CASE ~(InHandle(p) /\ d = proc[p].job)
  <2>1. reserved'[d] = reserved[d]
    BY <1>1, <1>3
  <2>. QED  BY <1>0, <1>1, <2>1, IdleFields, JobsRest
<1>. QED  BY <1>2, <1>3

LEMMA JobsRestart ==
  ASSUME Inv, Restart, NEW d \in D, OneJob(d)
  PROVE  OneJob(d)'
<1>1. PICK Lost : Lost = {p \in Workers : InHandle(p) /\ proc[p].job = d}
  OBVIOUS
<1>2. /\ \A q \in Procs : proc'[q] = IdleProc
      /\ pending' = pending /\ reserved'[d] = reserved[d] + Cardinality(Lost)
      /\ pending[d] \in Nat /\ reserved[d] \in Nat
  BY <1>1 DEF Restart, Inv, TypeOK
<1>3. \A p \in Lost : p \in Procs /\ AtJob(p, d)
  BY <1>1 DEF AtJob, Procs
<1>4. /\ \A p, q \in Lost : p = q
      /\ Lost # {} => ~HasJob(d)
  BY <1>3 DEF OneJob
<1>5. /\ Cardinality(Lost) \in Nat /\ Cardinality(Lost) =< 1
      /\ Lost = {} => Cardinality(Lost) = 0
  BY <1>4, AtMostOne
<1>6. pending'[d] + reserved'[d] =< 1
  BY <1>2, <1>4, <1>5 DEF OneJob, HasJob
<1>7. \A q \in Procs : d \notin Pushing(proc[q])' /\ ~AtJob(q, d)'
  BY <1>2, IdleFields DEF Pushing, AtJob, D
<1>. QED  BY <1>6, <1>7 DEF OneJob

OneJobEach == \A d \in D \ excused["unqueued"] : OneJob(d)

(* The steps that push no job and take none. *)
LEMMA JobsUntouched ==
  ASSUME Inv, NEW p \in Procs, StepOf(p),
         ~Dispatch(p), ~Die(p), p \in Workers => ~Pick(p) /\ ~Redeliver(p)
  PROVE  /\ UNCHANGED <<pending, reserved>>
         /\ proc'[p].job \in {proc[p].job, 0}
<1>1. CASE Insert(p) \/ Snapshot(p) \/ Scan(p) \/ ScanEnd(p) \/ Start(p) \/ DispatchThrows(p)
  BY <1>1, InsertFields, SnapshotFields, ScanFields, ScanEndFields, StartFields,
     DispatchThrowsFields, IdleFields, FailedFields
<1>2. CASE CancelDeploymentWrite(p) \/ SweepStep(p) \/ Mark(p) \/ Settle(p)
             \/ Close(p) \/ FanOut(p) \/ EffectsEnd(p)
  BY <1>2, CancelDeploymentWriteFields, SweepStepFields, MarkFields, SettleFields,
     CloseFields, FanOutFields, EffectsEndFields, IdleFields, FailedFields
<1>3. CASE EffectsThrow(p) \/ Timeout(p) \/ (p \in Workers /\ (RunEnds(p) \/ BuildFails(p)))
  BY <1>3, EffectsThrowFields, RunEndsFields, GoesTo, IdleFields, FailedFields
  DEF Timeout, FailJob
<1>4. CASE UserStep(p)
  BY <1>4, RequestDeployFields, ForceStartClickFields, CancelFields,
     CancelDeploymentFields, TakesRowsFields, IdleFields
  DEF UserStep, RequestDeploy
<1>. QED  BY <1>1, <1>2, <1>3, <1>4 DEF StepOf, Proceed, FaultStep, WorkerStep

LEMMA OneJobStep ==
  ASSUME Inv, RaceTypeOK, ReadsHold, OneJobEach, NotesExcuses, NEW p \in Procs, StepOf(p)
  PROVE  OneJobEach'
<1>. SUFFICES ASSUME NEW d \in D, d \notin excused'["unqueued"] PROVE OneJob(d)'
  BY DEF OneJobEach
<1>0. /\ d \notin excused["unqueued"] /\ OneJob(d)
      /\ pending \in [D -> Nat] /\ reserved \in [D -> Nat]
  BY Excuses DEF OneJobEach, Inv, TypeOK
<1>1. CASE Start(p) /\ d = proc[p].cur
  <2>1. status[d] = "queued"
    BY <1>0, <1>1 DEF ReadsHold, Claiming, Start
  <2>. QED  BY <1>1, <2>1, JobsStart
<1>2. CASE Dispatch(p)
  <2>1. CASE d = proc[p].cur
    BY <1>0, <1>2, <2>1, JobsDispatch
  <2>2. CASE d # proc[p].cur
    BY <1>0, <1>2, <2>2, JobsRest, DispatchFields
  <2>. QED  BY <2>1, <2>2
<1>3. CASE Die(p)
  BY <1>0, <1>3, JobsDie
<1>4. ASSUME p \in Workers, Pick(p) PROVE OneJob(d)'
  <2>1. PICK e \in D : /\ pending[e] > 0
                       /\ pending' = [pending EXCEPT ![e] = @ - 1]
                       /\ reserved' = reserved
                       /\ proc'[p].job \in {e, 0} /\ proc'[p].pc # "dispatch"
                       /\ proc[p].job = 0
    BY <1>4, PickFields, IdleFields
  <2>2. CASE d = e
    BY <1>0, <1>4, <2>1, <2>2, JobsTaken DEF HasJob
  <2>3. CASE d # e
    <3>1. /\ \A q \in Procs : AtJob(q, d)' => AtJob(q, d)
          /\ \A q \in Procs : d \in Pushing(proc[q])' => d \in Pushing(proc[q])
      BY <2>1, <2>3, OthersKept DEF AtJob, Pushing, D
    <3>2. /\ HasJob(d)' = HasJob(d)
          /\ pending'[d] = pending[d] /\ reserved'[d] = reserved[d]
      BY <1>0, <2>1, <2>3 DEF HasJob
    <3>. QED  BY <1>0, <3>1, <3>2 DEF OneJob
  <2>. QED  BY <2>2, <2>3
<1>5. ASSUME p \in Workers, Redeliver(p) PROVE OneJob(d)'
  <2>1. PICK e \in D : /\ reserved[e] > 0
                       /\ reserved' = [reserved EXCEPT ![e] = @ - 1]
                       /\ pending' = pending
                       /\ proc'[p].job = e /\ proc'[p].pc # "dispatch"
    BY <1>5, RedeliverFields, FailedFields
  <2>2. CASE d = e
    BY <1>0, <1>5, <2>1, <2>2, JobsTaken DEF HasJob
  <2>3. CASE d # e
    <3>1. /\ \A q \in Procs : AtJob(q, d)' => AtJob(q, d)
          /\ \A q \in Procs : d \in Pushing(proc[q])' => d \in Pushing(proc[q])
      BY <2>1, <2>3, OthersKept DEF AtJob, Pushing
    <3>2. /\ HasJob(d)' = HasJob(d)
          /\ pending'[d] = pending[d] /\ reserved'[d] = reserved[d]
      BY <1>0, <2>1, <2>3 DEF HasJob
    <3>. QED  BY <1>0, <3>1, <3>2 DEF OneJob
  <2>. QED  BY <2>2, <2>3
<1>6. CASE ~Dispatch(p) /\ ~Die(p) /\ ~(Start(p) /\ d = proc[p].cur)
           /\ (p \in Workers => ~Pick(p) /\ ~Redeliver(p))
  <2>1. proc'[p].pc = "dispatch" => proc'[p].cur # d
    BY <1>6, Arrives, StartFields
  <2>. QED  BY <1>0, <1>6, <2>1, JobsUntouched, JobsRest
<1>. QED  BY <1>1, <1>2, <1>3, <1>4, <1>5, <1>6

LEMMA OneJobCounted == Inv /\ OneJobEach => SingleJob
<1>. SUFFICES ASSUME Inv, NEW d \in D, OneJob(d)
              PROVE  pending[d] + reserved[d]
                       + Cardinality({p \in Workers : proc[p].job = d})
                       + Cardinality({p \in Procs : At(p, "dispatch") /\ proc[p].cur = d})
                         =< 1
  BY DEF OneJobEach, SingleJob
<1>1. PICK S, T : /\ S = {p \in Workers : proc[p].job = d}
                  /\ T = {p \in Procs : At(p, "dispatch") /\ proc[p].cur = d}
  OBVIOUS
<1>2. /\ \A p \in S : p \in Procs /\ AtJob(p, d)
      /\ \A p \in T : p \in Procs /\ d \in Pushing(proc[p])
  BY <1>1 DEF AtJob, Procs, Pushing, At
<1>3. /\ \A p, q \in S : p = q
      /\ \A p, q \in T : p = q
      /\ S # {} => ~HasJob(d)
      /\ T # {} => ~HasJob(d) /\ S = {}
      /\ pending[d] + reserved[d] =< 1 /\ pending[d] \in Nat /\ reserved[d] \in Nat
  BY <1>2 DEF OneJob, Inv, TypeOK
<1>4. /\ Cardinality(S) \in Nat /\ Cardinality(S) =< 1 /\ (S = {} => Cardinality(S) = 0)
      /\ Cardinality(T) \in Nat /\ Cardinality(T) =< 1 /\ (T = {} => Cardinality(T) = 0)
  BY <1>3, AtMostOne
<1>5. pending[d] + reserved[d] + Cardinality(S) + Cardinality(T) =< 1
  BY <1>3, <1>4 DEF HasJob
<1>. QED  BY <1>1, <1>5

(* The inductive invariant behind RaceInv, and the steps of no process.    *)
RowInv == Inv /\ RaceTypeOK /\ OccupantsFit /\ ReadsHold /\ OneJobEach

LEMMA RowInvInit == RaceInit => RowInv
<1>. SUFFICES ASSUME RaceInit
              PROVE  RaceTypeOK /\ OccupantsFit /\ ReadsHold /\ OneJobEach
  BY InitInv DEF RaceInit, RowInv
<1>0. /\ \A p \in Procs : proc[p] = IdleProc
      /\ \A d \in D : status[d] = "none" /\ pending[d] = 0 /\ reserved[d] = 0
  BY DEF RaceInit, Init
<1>1. RaceTypeOK
  BY DEF RaceInit, RaceTypeOK, NothingExcused
<1>2. Occupants = {}
  BY <1>0, IdleFields DEF Occupants, Claiming, At
<1>3. \A s : Cardinality({d \in Occupants : row[d].server = s}) = 0
  <2>1. \A s : {d \in Occupants : row[d].server = s} = {}
    BY <1>2
  <2>. QED  BY <2>1, FS_EmptySet
<1>4. OccupantsFit
  BY <1>2, <1>3, TopologyAssumption DEF OccupantsFit
<1>5. ReadsHold
  BY <1>0, IdleFields DEF ReadsHold, Claiming, WillWrite, At
<1>6. OneJobEach
  BY <1>0, IdleFields DEF OneJobEach, OneJob, AtJob, HasJob, Pushing, D
<1>. QED  BY <1>1, <1>4, <1>5, <1>6

LEMMA RaceStep ==
  ASSUME [RaceNext]_raceVars
  PROVE  /\ [Next]_vars
         /\ NotesExcuses \/ UNCHANGED <<vars, excused>>
BY DEF RaceNext, raceVars

LEMMA RestInv ==
  ASSUME RowInv, UNCHANGED <<status, row, pending, reserved, proc, orphans, faults>>,
         RaceTypeOK', \A kind \in Kinds : excused[kind] \subseteq excused'[kind]
  PROVE  OccupantsFit' /\ ReadsHold' /\ OneJobEach'
<1>1. Outside \subseteq Outside'
  BY DEF Outside, Kinds
<1>2. Occupants' \subseteq Occupants
  BY <1>1 DEF Occupants, Claiming, At
<1>3. OccupantsFit'
  BY <1>2, FitShrinks DEF RowInv
<1>4. /\ \A p \in Procs, d \in D : Claiming(p, d)' <=> Claiming(p, d)
      /\ \A p \in Procs : WillWrite(p)' = WillWrite(p)
  BY DEF Claiming, WillWrite, At
<1>5. ReadsHold'
  BY <1>4 DEF RowInv, ReadsHold, At, Kinds
<1>6. OneJobEach'
  BY DEF RowInv, OneJobEach, OneJob, AtJob, HasJob, Pushing, Kinds
<1>. QED  BY <1>3, <1>5, <1>6

LEMMA RestartRowInv ==
  ASSUME RowInv, Restart, NotesExcuses
  PROVE  OccupantsFit' /\ ReadsHold' /\ OneJobEach'
<1>0. /\ \A p \in Procs : proc'[p] = IdleProc
      /\ \A d \in D : status'[d] # "in_progress"
      /\ row' = row
  BY DEF Restart, Active
<1>1. Occupants' = {}
  BY <1>0, IdleFields DEF Occupants, Claiming, At
<1>2. OccupantsFit'
  BY <1>0, <1>1, FitShrinks DEF RowInv
<1>3. ReadsHold'
  BY <1>0, IdleFields DEF ReadsHold, Claiming, WillWrite, At
<1>4. OneJobEach'
  BY JobsRestart, Excuses DEF RowInv, OneJobEach, Kinds
<1>. QED  BY <1>2, <1>3, <1>4

LEMMA RowInvStep == RowInv /\ [RaceNext]_raceVars => RowInv'
<1>. SUFFICES ASSUME RowInv, [RaceNext]_raceVars PROVE RowInv'
  OBVIOUS
<1>1. Inv' /\ [Next]_vars
  BY StepInv, RaceStep DEF RowInv
<1>2. RaceTypeOK' /\ \A kind \in Kinds : excused[kind] \subseteq excused'[kind]
  BY RaceStep, Excuses DEF RowInv, RaceTypeOK
<1>3. SUFFICES OccupantsFit' /\ ReadsHold' /\ OneJobEach'
  BY <1>1, <1>2 DEF RowInv
<1>4. ASSUME NEW p \in Procs, StepOf(p), NotesExcuses
      PROVE  OccupantsFit' /\ ReadsHold' /\ OneJobEach'
  BY <1>4, FitStep, ReadsStep, OneJobStep DEF RowInv
<1>5. CASE UNCHANGED <<status, row, pending, reserved, proc, orphans, faults>>
  BY <1>2, <1>5, RestInv
<1>6. CASE Restart /\ NotesExcuses
  BY <1>6, RestartRowInv
<1>. QED  BY <1>1, <1>4, <1>5, <1>6, RaceStep, Steps DEF vars, Break

LEMMA RowInvAlways == RaceSpec => []RowInv
BY RowInvInit, RowInvStep, PTL DEF RaceSpec

(* What makes the limits hold for every row of which nothing is excused:   *)
(* the rows that are in progress or about to be fit the lanes and the      *)
(* servers, and what a process has read of a row holds until it writes.    *)
THEOREM RaceInvariance == RaceSpec => []RaceInv
<1>1. RowInv => RaceInv
  BY OneJobCounted DEF RowInv, RaceInv
<1>. QED  BY <1>1, RowInvAlways, PTL

(* However requests and workers interleave, whoever dies, whatever is      *)
(* forced, and however often Redis hands a job out again, a row never has  *)
(* two jobs, pending, reserved, at work or about to be pushed, unless it   *)
(* was started while it was no longer queued.                              *)
THEOREM RowsHaveOneJob == RaceSpec => []SingleJob
<1>1. RaceInv => SingleJob
  BY DEF RaceInv
<1>. QED  BY <1>1, RaceInvariance, PTL

(* With every interleaving, two deployments of one application and pull    *)
(* request are in progress together only if one of them was started        *)
(* without asking next_queuable(), or while a rival's "yes" was not yet    *)
(* written, or was opened again by a late job.                             *)
THEOREM LanesAreExclusive == RaceSpec => []LaneExclusive
<1>1. RaceInv => LaneExclusive
  BY DEF RaceInv, OccupantsFit, Occupants, LaneExclusive, InState
<1>. QED  BY <1>1, RaceInvariance, PTL

(* Not counting those deployments, a server never has more in progress     *)
(* than concurrent_builds.                                                 *)
THEOREM ServersKeepToTheirCapacity == RaceSpec => []CapacityRespected
<1>1. RaceInv => CapacityRespected
  <2>. SUFFICES ASSUME RaceInv, NEW s \in Servers
                PROVE  Cardinality(ActiveOn(s) \ Outside) =< ConcurrentBuilds[s]
    BY DEF CapacityRespected
  <2>1. PICK S, T : S = {d \in Occupants : row[d].server = s} /\ T = ActiveOn(s) \ Outside
    OBVIOUS
  <2>2. T \subseteq S /\ S \in SUBSET D /\ Cardinality(S) =< ConcurrentBuilds[s]
    BY <2>1 DEF RaceInv, OccupantsFit, Occupants, ActiveOn, InState
  <2>3. /\ Cardinality(T) =< Cardinality(S) /\ Cardinality(T) \in Nat
        /\ Cardinality(S) \in Nat /\ ConcurrentBuilds[s] \in Nat
    BY <2>2, QueuedCount, FS_Subset, TopologyAssumption
  <2>. QED  BY <2>1, <2>2, <2>3
<1>. QED  BY <1>1, RaceInvariance, PTL

(***************************************************************************)
(* The promise of DeploymentLanes, with every interleaving.                *)
(***************************************************************************)

LEMMA PromiseTerms ==
  /\ \A s : Promise!RunningOn(s) = {e \in D : Shown[e] = "in_progress" /\ row[e].server = s}
  /\ Promise!Running = {e \in D : Shown[e] = "in_progress"}
  /\ \A S : Promise!Cardinality(S) = Cardinality(S)
<1>1. \A S : Promise!Cardinality(S) = Cardinality(S)
  BY Zenon DEF Promise!Cardinality, Cardinality
<1>. QED
  BY <1>1 DEF Promise!Running, Promise!RunningOn

LEMMA ShownRow ==
  ASSUME NEW d \in D
  PROVE  /\ Shown[d] = IF d \in Irregular /\ status[d] \notin {"none", "queued"}
                       THEN "irregular" ELSE status[d]
         /\ Shown'[d] = IF d \in Irregular' /\ status'[d] \notin {"none", "queued"}
                        THEN "irregular" ELSE status'[d]
BY DEF Shown

LEMMA ShownDomain ==
  /\ Shown = [d \in D |-> Shown[d]]
  /\ Shown' = [d \in D |-> Shown'[d]]
BY DEF Shown

(* A step that writes no row may only make some of them irregular.         *)
LEMMA QuietMove ==
  ASSUME UNCHANGED <<status, row>>, Irregular \subseteq Irregular'
  PROVE  \E S \in SUBSET D : Promise!Leave(S)
<1> DEFINE S == {d \in D : d \in Irregular' /\ status[d] \notin {"none", "queued"}}
<1>1. \A d \in D : Shown'[d] = IF d \in S THEN "irregular" ELSE Shown[d]
  BY ShownRow
<1>2. Shown' = [d \in D |-> IF d \in S THEN "irregular" ELSE Shown[d]]
  BY <1>1, ShownDomain
<1>3. Promise!Leave(S)
  BY <1>2 DEF Promise!Leave
<1>. QED  BY <1>3

(* A step that writes row d only.                                          *)
LEMMA OneMove ==
  ASSUME Inv, NEW d \in D, NEW v, status' = [status EXCEPT ![d] = v],
         Irregular \subseteq Irregular',
         \A e \in D \ {d} : e \in Irregular' <=> e \in Irregular
  PROVE  /\ d \notin Irregular' => /\ Shown[d] = status[d]
                                   /\ Shown' = [Shown EXCEPT ![d] = v]
         /\ v \in {"none", "queued"} => Shown' = [Shown EXCEPT ![d] = v]
         /\ d \in Irregular' /\ v \notin {"none", "queued"} /\ row' = row
              => \E S \in SUBSET D : Promise!Leave(S)
<1>0. status \in [D -> Statuses]
  BY DEF Inv, TypeOK
<1>1. \A e \in D \ {d} : Shown'[e] = Shown[e]
  BY <1>0, ShownRow
<1>2. status'[d] = v
  BY <1>0
<1>3. ASSUME d \notin Irregular'
      PROVE  Shown[d] = status[d] /\ Shown' = [Shown EXCEPT ![d] = v]
  BY <1>1, <1>2, <1>3, ShownRow, ShownDomain
<1>4. ASSUME v \in {"none", "queued"} PROVE Shown' = [Shown EXCEPT ![d] = v]
  BY <1>1, <1>2, <1>4, ShownRow, ShownDomain
<1>5. ASSUME d \in Irregular', v \notin {"none", "queued"}, row' = row
      PROVE  \E S \in SUBSET D : Promise!Leave(S)
  <2>1. Shown' = [e \in D |-> IF e \in {d} THEN "irregular" ELSE Shown[e]]
    BY <1>1, <1>2, <1>5, ShownRow, ShownDomain
  <2>2. Promise!Leave({d})
    BY <1>5, <2>1 DEF Promise!Leave
  <2>. QED  BY <2>2
<1>. QED  BY <1>3, <1>4, <1>5

(* Start of a row of which nothing is excused: its lane is free and its    *)
(* server has room.                                                        *)
LEMMA StartMove ==
  ASSUME RowInv, NEW d \in D, NEW p \in Procs, Claiming(p, d),
         d \notin Irregular, status[d] = "queued",
         Shown' = [Shown EXCEPT ![d] = "in_progress"], row' = row
  PROVE  Promise!Launch(d)
<1>1. Outside \subseteq Irregular
  BY DEF Outside, Irregular, Kinds
<1>2. d \in Occupants /\ Shown[d] = "queued" /\ row[d].server \in Servers
  BY <1>1, ShownRow DEF Occupants, RowInv, Inv, KnownRows, Created, Rows
<1>3. \A e \in D : Shown[e] = "in_progress" => status[e] = "in_progress" /\ e \notin Irregular
  BY ShownRow
<1>4. \A e \in D : Shown[e] = "in_progress" => e \in Occupants /\ e # d
  BY <1>1, <1>2, <1>3 DEF Occupants
<1>5. ASSUME NEW e \in Promise!Running
      PROVE  row[e].app # row[d].app \/ row[e].lane # row[d].lane
  BY <1>2, <1>4, <1>5, PromiseTerms DEF RowInv, OccupantsFit, SameLane
<1>6. Cardinality(Promise!RunningOn(row[d].server)) < ConcurrentBuilds[row[d].server]
  <2>1. PICK s \in Servers : s = row[d].server
    BY <1>2
  <2>2. PICK S, T : /\ S = {e \in Occupants : row[e].server = s}
                    /\ T = Promise!RunningOn(s)
    OBVIOUS
  <2>3. T = {e \in D : Shown[e] = "in_progress" /\ row[e].server = s}
    BY <2>2, PromiseTerms
  <2>4. /\ T \cup {d} \subseteq S /\ d \notin T
        /\ S \in SUBSET D /\ T \in SUBSET D
        /\ Cardinality(S) =< ConcurrentBuilds[s]
    BY <1>2, <1>4, <2>1, <2>2, <2>3 DEF RowInv, OccupantsFit, Occupants
  <2>5. /\ Cardinality(T \cup {d}) = Cardinality(T) + 1
        /\ Cardinality(T \cup {d}) =< Cardinality(S)
        /\ Cardinality(T) \in Nat /\ Cardinality(S) \in Nat
        /\ ConcurrentBuilds[s] \in Nat
    BY <2>4, QueuedCount, FS_AddElement, FS_Subset, TopologyAssumption
  <2>. QED  BY <2>1, <2>2, <2>4, <2>5
<1>7. Promise!Cardinality(Promise!RunningOn(row[d].server)) < ConcurrentBuilds[row[d].server]
  BY <1>6, PromiseTerms
<1>. QED  BY <1>2, <1>5, <1>7 DEF Promise!Launch

LEMMA StepMove ==
  ASSUME RowInv, RowInv', NotesExcuses, NEW p \in Procs, StepOf(p)
  PROVE  [Promise!LanesNext]_(Promise!lanesVars)
<1>0. /\ Inv /\ ReadsHold /\ status \in [D -> Statuses]
      /\ Irregular \subseteq Irregular' /\ LocalOK(p, proc[p])
  BY Grows DEF RowInv, Inv, TypeOK, ProcOK
<1>a. /\ \A d \in D : d \in Irregular <=> \E kind \in Kinds : d \in excused[kind]
      /\ \A d \in D : d \in Irregular' <=> \E kind \in Kinds : d \in excused'[kind]
  BY DEF Irregular
<1>b. ASSUME NEW S \in SUBSET D, Promise!Leave(S) PROVE Promise!LanesNext
  BY <1>b DEF Promise!LanesNext
<1>c. ASSUME NEW d \in D, Promise!Submit(d) \/ Promise!Launch(d) \/ Promise!Conclude(d)
                            \/ Promise!Withdraw(d)
      PROVE  Promise!LanesNext
  BY <1>c DEF Promise!LanesNext
<1>1. CASE UNCHANGED <<status, row>>
  BY <1>0, <1>1, <1>b, QuietMove
<1>2. ASSUME NEW d \in D, NEW v, status' = [status EXCEPT ![d] = v],
             proc'[p].pc # "mark", proc'[p].pc = "start" => proc'[p].cur = d
      PROVE  \A e \in D \ {d} : e \in Irregular' <=> e \in Irregular
  BY <1>0, <1>2, <1>a, ExcusesOne DEF RowInv
<1>3. ASSUME Insert(p) PROVE Promise!LanesNext
  <2>1. PICK d \in D \ Created :
          /\ status' = [status EXCEPT ![d] = "queued"]
          /\ row' = [row EXCEPT ![d] = proc[p].req]
          /\ proc'[p].pc = "start" => proc'[p].cur = d
          /\ proc'[p].pc # "mark"
    BY <1>0, <1>3, InsertFields
  <2>2. Shown' = [Shown EXCEPT ![d] = "queued"]
    BY <1>0, <1>2, <2>1, OneMove
  <2>3. Shown[d] = "none" /\ proc[p].req \in Rows
    BY <1>0, <1>3, ShownRow DEF Created, LocalOK, Insert, At
  <2>4. Promise!Submit(d)
    BY <2>1, <2>2, <2>3 DEF Promise!Submit
  <2>. QED  BY <1>c, <2>4
<1>4. ASSUME NEW d \in D, NEW v, status' = [status EXCEPT ![d] = v], row' = row,
             v \notin {"none", "queued"},
             proc'[p].pc \notin {"mark", "start"},
             d \notin Irregular' =>
               \/ /\ v = "in_progress" /\ status[d] = "queued" /\ Claiming(p, d)
               \/ status[d] \in Active /\ v \in {"cancelled", "failed"}
               \/ status[d] = "in_progress" /\ v \in Closed
               \/ status[d] = v
      PROVE  [Promise!LanesNext]_(Promise!lanesVars)
  <2>1. CASE d \in Irregular'
    BY <1>0, <1>2, <1>4, <1>b, <2>1, OneMove
  <2>2. CASE d \notin Irregular'
    <3>1. /\ Shown[d] = status[d] /\ Shown' = [Shown EXCEPT ![d] = v]
          /\ d \notin Irregular
      BY <1>0, <1>2, <1>4, <2>2, OneMove
    <3>2. CASE v = "in_progress" /\ status[d] = "queued" /\ Claiming(p, d)
      BY <1>4, <1>c, <3>1, <3>2, StartMove
    <3>3. CASE status[d] \in Active /\ v \in {"cancelled", "failed"}
      <4>1. Promise!Withdraw(d)
        BY <1>4, <3>1, <3>3 DEF Promise!Withdraw, Promise!Alive, Active
      <4>. QED  BY <1>c, <4>1
    <3>4. CASE status[d] = "in_progress" /\ v \in Closed
      <4>1. Promise!Conclude(d)
        BY <1>4, <3>1, <3>4 DEF Promise!Conclude, Closed
      <4>. QED  BY <1>c, <4>1
    <3>5. CASE status[d] = v
      <4>1. Shown' = Shown
        BY <3>1, <3>5, ShownDomain
      <4>. QED  BY <1>4, <4>1 DEF Promise!lanesVars
    <3>. QED  BY <1>4, <2>2, <3>2, <3>3, <3>4, <3>5
  <2>. QED  BY <2>1, <2>2
<1>5. CASE Start(p)
  <2>1. PICK d \in D : d = proc[p].cur
    BY <1>0, <1>5, StartFields
  <2>2. /\ status' = [status EXCEPT ![d] = "in_progress"] /\ row' = row
        /\ proc'[p].pc = "dispatch" /\ Claiming(p, d)
    BY <1>0, <1>5, <2>1, StartFields DEF Claiming, At
  <2>3. d \notin Irregular' => status[d] = "queued"
    BY <1>0, <1>a, <2>2 DEF ReadsHold, Kinds
  <2>. QED  BY <1>4, <2>2, <2>3
<1>6. CASE CancelDeploymentWrite(p)
  <2>1. PICK d \in D : d = proc[p].cur
    BY <1>0, <1>6, CancelDeploymentWriteFields
  <2>2. /\ status' = [status EXCEPT ![d] = "cancelled"] /\ row' = row
        /\ proc'[p].pc = "idle" /\ d \in WillWrite(p)
    BY <1>0, <1>6, <2>1, CancelDeploymentWriteFields, IdleFields DEF WillWrite, At
  <2>3. d \notin Irregular' => status[d] \in Active
    BY <1>0, <1>a, <2>2 DEF ReadsHold, Kinds
  <2>. QED  BY <1>4, <2>2, <2>3
<1>7. CASE SweepStep(p)
  <2>1. CASE status' = status
    BY <1>0, <1>1, <1>7, <2>1, SweepStepFields
  <2>2. CASE status' # status
    <3>1. PICK d \in proc[p].todo :
            /\ status' = [status EXCEPT ![d] = proc[p].hold] /\ row' = row
            /\ proc'[p].pc = "sweep" /\ proc[p].pc = "sweep"
      BY <1>0, <1>7, <2>2, SweepStepFields
    <3>2. /\ d \in D /\ d \in WillWrite(p) /\ proc[p].hold \in {"failed", "cancelled"}
      BY <1>0, <3>1 DEF WillWrite, At, LocalOK, Inv, TypeOK, LocalState
    <3>3. d \notin Irregular' => status[d] \in Active
      BY <1>0, <1>a, <3>2 DEF ReadsHold, Kinds
    <3>. QED  BY <1>4, <3>1, <3>2, <3>3
  <2>. QED  BY <2>1, <2>2
<1>8. CASE Mark(p)
  <2>1. PICK d \in D : d = proc[p].job
    BY <1>0, <1>8, MarkFields
  <2>2. CASE status' = status
    BY <1>0, <1>1, <1>8, <2>2, MarkFields
  <2>3. CASE status' # status
    <3>1. /\ status' = [status EXCEPT ![d] = "in_progress"] /\ row' = row
          /\ proc'[p].pc = "run" /\ proc[p].hold # "in_progress" /\ At(p, "mark")
      BY <1>0, <1>8, <2>1, <2>3, MarkFields DEF At
    <3>2. d \in Irregular'
      BY <1>0, <1>a, <2>1, <3>1 DEF ReadsHold, Kinds
    <3>. QED  BY <1>4, <3>1, <3>2
  <2>. QED  BY <2>2, <2>3
<1>9. CASE Close(p)
  <2>1. PICK d \in D : d = proc[p].job
    BY <1>0, <1>9, CloseFields
  <2>2. /\ status' = [status EXCEPT ![d] = proc[p].hold] /\ row' = row
        /\ proc'[p].pc = "effects" /\ proc[p].hold \in Closed /\ d \in WillWrite(p)
    BY <1>0, <1>9, <2>1, CloseFields DEF WillWrite, At
  <2>3. d \notin Irregular' => status[d] = "in_progress"
    <3>1. d \notin Irregular' => status[d] \in Active
      BY <1>0, <1>a, <2>2 DEF ReadsHold, Kinds
    <3>2. status[d] # "queued"
      BY <1>0, <2>1 DEF Inv, QueuedNotDispatched, InState, Working
    <3>. QED  BY <3>1, <3>2 DEF Active
  <2>. QED  BY <1>4, <2>2, <2>3 DEF Closed
<1>10. CASE p \in Requests /\ Cancel(p)
  <2>1. PICK d \in D : status' = [status EXCEPT ![d] = "cancelled"] /\ status[d] # "none"
    BY <1>0, <1>10, CancelFields DEF Created
  <2>2. /\ row' = row /\ proc[p].pc = "idle" /\ proc'[p].pc = "snapshot"
    BY <1>0, <1>10, CancelFields, IdleFields
  <2>3. ASSUME d \notin Irregular', status[d] # "cancelled" PROVE status[d] \in Active
    <3>1. ~Overwritten(d)
      BY <1>a, <2>3, Excuses DEF RowInv, Kinds
    <3>2. status'[d] # status[d]
      BY <1>0, <2>1, <2>3
    <3>. QED  BY <1>10, <2>1, <2>2, <3>1, <3>2 DEF Overwritten, At
  <2>. QED  BY <1>4, <2>1, <2>2, <2>3
<1>. QED  BY <1>0, <1>1, <1>3, <1>5, <1>6, <1>7, <1>8, <1>9, <1>10, Writers

LEMMA RestartMove ==
  ASSUME RowInv, NotesExcuses, Restart
  PROVE  Promise!StopAll
<1>0. /\ \A q \in Procs : proc'[q] = IdleProc
      /\ \A d \in D : status'[d] = IF status[d] \in Active THEN "failed" ELSE status[d]
      /\ row' = row /\ RaceTypeOK
  BY DEF Restart, RowInv
<1>1. ASSUME NEW d \in D
      PROVE  ~Unchecked(d) /\ ~Unqueued(d) /\ ~Reopened(d) /\ ~Overwritten(d)
  <2>1. \A q \in Procs : ~Claiming(q, d)' /\ ~Claims(q, d)
    BY <1>0, IdleFields DEF Claiming, Claims, At
  <2>2. \A q \in Procs : /\ WillWrite(q)' = {}
                         /\ ~At(q, "mark")' /\ ~At(q, "snapshot")'
    BY <1>0, IdleFields DEF WillWrite, At
  <2>. QED  BY <2>1, <2>2 DEF Unchecked, Unqueued, Reopened, Overwritten, Procs
<1>2. \A d \in D : d \in Irregular' <=> d \in Irregular
  BY <1>0, <1>1, Excuses DEF Irregular, Kinds
<1>3. \A d \in D : Shown'[d] = IF Shown[d] \notin Promise!Alive THEN Shown[d]
                               ELSE IF d \in Irregular THEN "irregular" ELSE "failed"
  BY <1>0, <1>2, ShownRow DEF Promise!Alive, Active
<1>4. Shown' = [d \in D |-> IF Shown[d] \notin Promise!Alive THEN Shown[d]
                            ELSE IF d \in Irregular \cap D THEN "irregular" ELSE "failed"]
  BY <1>3, ShownDomain
<1>. QED  BY <1>0, <1>4 DEF Promise!StopAll

(* With every interleaving the queue implements DeploymentLanes: every     *)
(* statement of every process is a step of the promise, or no step at all, *)
(* or makes irregular the rows of which it excuses something.              *)
THEOREM QueueKeepsThePromise == RaceSpec => ImplementsLanes
<1>1. RaceInit => Promise!LanesInit
  <2>. SUFFICES ASSUME RaceInit PROVE Promise!LanesInit
    OBVIOUS
  <2>1. \A d \in D : Shown[d] = "none"
    BY ShownRow DEF RaceInit, Init
  <2>2. Shown = [d \in D |-> "none"]
    BY <2>1, ShownDomain
  <2>. QED  BY <2>2 DEF RaceInit, Init, Promise!LanesInit
<1>2. RowInv /\ [RaceNext]_raceVars => [Promise!LanesNext]_(Promise!lanesVars)
  <2>. SUFFICES ASSUME RowInv, [RaceNext]_raceVars
                PROVE  [Promise!LanesNext]_(Promise!lanesVars)
    OBVIOUS
  <2>1. RowInv' /\ [Next]_vars
    BY RowInvStep, RaceStep
  <2>2. CASE UNCHANGED raceVars
    BY <2>2 DEF raceVars, vars, Shown, Irregular, Promise!lanesVars
  <2>3. CASE NotesExcuses
    <3>1. ASSUME NEW p \in Procs, StepOf(p) PROVE [Promise!LanesNext]_(Promise!lanesVars)
      BY <2>1, <2>3, <3>1, StepMove
    <3>2. CASE UNCHANGED <<status, row>>
      <4>1. Irregular \subseteq Irregular'
        BY <2>3, Grows DEF RowInv
      <4>. QED  BY <3>2, <4>1, QuietMove DEF Promise!LanesNext
    <3>3. CASE Restart
      BY <2>3, <3>3, RestartMove DEF Promise!LanesNext
    <3>. QED  BY <2>1, <3>1, <3>2, <3>3, Steps DEF vars, Break
  <2>. QED  BY <2>2, <2>3 DEF RaceNext
<1>. QED  BY <1>1, <1>2, RowInvAlways, PTL DEF RaceSpec, ImplementsLanes, Promise!LanesSpec

(***************************************************************************)
(* No lost wake-up, however many processes interleave.  A queued row that  *)
(* may run has somebody who will look at it.                               *)
(***************************************************************************)
EveryEndScans ==
  /\ ~ApiCancel /\ ~PreviewCleanup /\ ~AdminCleanup
  /\ MayBreak = {} /\ Mishaps \subseteq {"restart"}
  /\ \A a \in Apps : Extra[a] = {}
  /\ \A r \in Deploys : r.server = Home[r.app]

(* With local state x a process will look at row d.                        *)
Will(d, x) ==
  \/ x.pc = "snapshot" /\ x.srv = row[d].server
  \/ x.pc = "effects" /\ Home[row[x.job].app] = row[d].server
  \/ x.pc \in {"scan", "start", "dispatch"} /\ d \in x.todo
  \/ x.pc = "start" /\ x.cur = d

Awaited ==
  \A d \in InState("queued") : NextQueuable(row[d]) => \E p \in Procs : Will(d, proc[p])

(* A deployment runs on the server of its application's destination.       *)
Tame(x) ==
  /\ x.fan = {} /\ x.pc \notin {"apicancel", "sweep"}
  /\ x.pc = "insert" => x.req.server = Home[x.req.app]

AtHome ==
  /\ \A p \in Procs : Tame(proc[p])
  /\ \A d \in Created : row[d].server = Home[row[d].app]
  /\ usable = Apps

WakeInv == Inv /\ AtHome /\ Awaited

LEMMA NoMishap ==
  ASSUME EveryEndScans, NEW p
  PROVE  ~FaultStep(p) /\ \A a : ~Break(a)
BY DEF EveryEndScans, FaultStep, EffectsThrow, Timeout, Die, Mishap, Break

LEMMA TameItself ==
  ASSUME EveryEndScans, Inv, AtHome, NEW p \in Procs, StepOf(p)
  PROVE  Tame(proc'[p])
<1>0. Tame(proc[p]) /\ proc[p] \in LocalState /\ usable = Apps
  BY DEF AtHome, Inv, TypeOK
<1>1. ASSUME proc'[p] = IdleProc \/ \E d : proc'[p] = FailedProc(d)
      PROVE  Tame(proc'[p])
  BY <1>1, IdleFields, FailedFields DEF Tame
<1>2. CASE Proceed(p)
  <2>1. CASE Insert(p) \/ Snapshot(p) \/ Scan(p)
    BY <1>0, <2>1, InsertFields, SnapshotFields, ScanFields DEF Tame
  <2>2. CASE ScanEnd(p)
    BY <1>0, <1>1, <2>2, ScanEndFields DEF Tame, LocalState
  <2>3. CASE Start(p) \/ Dispatch(p) \/ DispatchThrows(p) \/ Mark(p)
    BY <1>0, <1>1, <2>3, StartFields, DispatchFields, DispatchThrowsFields, MarkFields
    DEF Tame
  <2>4. CASE CancelDeploymentWrite(p) \/ SweepStep(p) \/ FanOut(p)
    BY <1>0, <1>1, <2>4, CancelDeploymentWriteFields, SweepStepFields, FanOutFields
    DEF Tame
  <2>5. CASE Settle(p) \/ EffectsEnd(p)
    BY <1>0, <1>1, <2>5, SettleFields, EffectsEndFields DEF Tame
  <2>6. CASE Close(p)
    <3>1. proc[p].job \in Created
      BY <2>6, CloseFields DEF Inv, KnownRows, Held, D
    <3>2. AdditionalServers(proc[p].job) = {}
      BY <3>1 DEF AdditionalServers, EveryEndScans, Inv, KnownRows, Rows
    <3>. QED  BY <2>6, <3>2, CloseFields DEF Tame
  <2>. QED  BY <1>2, <2>1, <2>2, <2>3, <2>4, <2>5, <2>6 DEF Proceed
<1>3. CASE UserStep(p)
  <2>1. CASE RequestDeploy(p)
    BY <2>1, RequestDeployFields DEF Tame, EveryEndScans
  <2>2. CASE ForceStartClick(p) \/ Cancel(p)
    BY <2>2, ForceStartClickFields, CancelFields DEF Tame
  <2>3. ~CancelDeployment(p) /\ ~CancelActiveDeployments(p) /\ ~CheckDeploymentQueue(p)
    BY DEF CancelDeployment, CancelActiveDeployments, CheckDeploymentQueue, EveryEndScans
  <2>. QED  BY <1>3, <2>1, <2>2, <2>3 DEF UserStep
<1>4. CASE p \in Workers /\ WorkerStep(p)
  BY <1>0, <1>1, <1>4, PickFields, RunEndsFields, RedeliverFields DEF Tame, WorkerStep
<1>. QED  BY <1>2, <1>3, <1>4, NoMishap DEF StepOf

LEMMA AtHomeStep ==
  EveryEndScans /\ Inv /\ AtHome /\ [Next]_vars => AtHome'
<1>. SUFFICES ASSUME EveryEndScans, Inv, AtHome, [Next]_vars PROVE AtHome'
  OBVIOUS
<1>0. /\ status \in [D -> Statuses] /\ row \in [D -> Rows \cup {NoRow}]
      /\ usable \subseteq Apps
  BY DEF Inv, TypeOK
<1>1. ASSUME NEW p \in Procs, StepOf(p) PROVE AtHome'
  <2>1. \A q \in Procs : Tame(proc'[q])
    BY <1>1, OthersKept, TameItself DEF AtHome
  <2>2. \A d \in Created' : row'[d].server = Home[row'[d].app]
    <3>1. CASE Insert(p)
      BY <1>0, <3>1, InsertFields DEF AtHome, Tame, Created
    <3>2. CASE ~Insert(p)
      <4>1. row' = row
        BY <1>1, <3>2, NoneQueued
      <4>2. ASSUME NEW d \in Created' PROVE d \in Created
        <5>1. CASE status' = status
          BY <4>2, <5>1 DEF Created
        <5>2. CASE Start(p) \/ CancelDeploymentWrite(p) \/ SweepStep(p) \/ Mark(p) \/ Close(p)
                     \/ Cancel(p)
          <6>1. Held(proc[p]) \subseteq Created /\ proc[p].todo \subseteq D
            BY DEF Inv, TypeOK, LocalState, KnownRows
          <6>2. ASSUME NEW e \in Created, NEW v, status' = [status EXCEPT ![e] = v]
                PROVE  d \in Created
            BY <1>0, <4>2, <6>2 DEF Created
          <6>3. CASE Start(p) \/ CancelDeploymentWrite(p)
            <7>1. proc[p].cur \in Created
              BY <6>1, <6>3, StartFields, CancelDeploymentWriteFields DEF Held, D
            <7>. QED  BY <6>2, <6>3, <7>1, StartFields, CancelDeploymentWriteFields
          <6>4. CASE Mark(p) \/ Close(p)
            <7>1. proc[p].job \in Created
              BY <6>1, <6>4, MarkFields, CloseFields DEF Held, D
            <7>2. \/ status' = status
                  \/ \E v : status' = [status EXCEPT ![proc[p].job] = v]
              BY <6>4, MarkFields, CloseFields
            <7>. QED  BY <5>1, <6>2, <7>1, <7>2
          <6>5. CASE SweepStep(p)
            BY <6>5, SweepStepFields DEF AtHome, Tame
          <6>6. CASE Cancel(p)
            BY <6>2, <6>6, CancelFields
          <6>. QED  BY <5>2, <6>3, <6>4, <6>5, <6>6
        <5>3. CASE Proceed(p) /\ ~(Start(p) \/ CancelDeploymentWrite(p) \/ SweepStep(p)
                                     \/ Mark(p) \/ Close(p))
          <6>1. status' = status
            BY <3>2, <5>3 DEF Proceed, Snapshot, Scan, ScanEnd, Dispatch, DispatchThrows,
               Settle, FanOut, EffectsEnd
          <6>. QED  BY <5>1, <6>1
        <5>4. CASE UserStep(p) /\ ~Cancel(p)
          <6>1. status' = status
            BY <5>4 DEF UserStep, RequestDeploy, ForceStartClick, CancelDeployment,
               CancelActiveDeployments, CheckDeploymentQueue
          <6>. QED  BY <5>1, <6>1
        <5>5. CASE WorkerStep(p)
          <6>1. status' = status
            BY <5>5 DEF WorkerStep, Pick, RunEnds, BuildFails, Redeliver
          <6>. QED  BY <5>1, <6>1
        <5>. QED  BY <1>1, <5>2, <5>3, <5>4, <5>5, NoMishap DEF StepOf
      <4>. QED  BY <4>1, <4>2 DEF AtHome
    <3>. QED  BY <3>1, <3>2
  <2>3. usable' = Apps
    <3>1. CASE Proceed(p)
      BY <3>1 DEF AtHome, Proceed, Insert, Snapshot, Scan, ScanEnd, Start, Dispatch,
         DispatchThrows, CancelDeploymentWrite, SweepStep, Mark, Settle, Close, FanOut,
         EffectsEnd
    <3>2. CASE UserStep(p)
      BY <3>2 DEF AtHome, UserStep, RequestDeploy, ForceStartClick, Cancel,
         CancelDeployment, CancelActiveDeployments, CheckDeploymentQueue
    <3>3. CASE WorkerStep(p)
      BY <3>3 DEF AtHome, WorkerStep, Pick, RunEnds, BuildFails, Redeliver
    <3>. QED  BY <1>1, <3>1, <3>2, <3>3, NoMishap DEF StepOf
  <2>. QED  BY <2>1, <2>2, <2>3 DEF AtHome
<1>2. CASE UNCHANGED vars
  BY <1>2 DEF vars, AtHome, Created
<1>3. CASE Restart
  <2>1. Created' = Created
    BY <1>0, <1>3 DEF Restart, Created, Active
  <2>. QED  BY <1>3, <2>1, IdleFields DEF Restart, AtHome, Tame
<1>. QED  BY <1>1, <1>2, <1>3, Steps, NoMishap

(* As long as no row leaves in_progress, next_queuable() turns no no into  *)
(* a yes.                                                                  *)
LEMMA Busier ==
  ASSUME \A e \in InState("in_progress") : e \in InState("in_progress")' /\ row'[e] = row[e],
         NEW r, NextQueuable(r)', r.server \in Servers
  PROVE  NextQueuable(r)
<1>1. ~LaneBusy(r)
  BY DEF NextQueuable, LaneBusy
<1> DEFINE s == r.server
<1>2. ActiveOn(s) \subseteq ActiveOn(s)' /\ ActiveOn(s)' \in SUBSET D
      /\ ActiveOn(s) \in SUBSET D
  BY DEF ActiveOn, InState
<1>3. /\ Cardinality(ActiveOn(s)) =< Cardinality(ActiveOn(s)')
      /\ Cardinality(ActiveOn(s)) \in Nat /\ Cardinality(ActiveOn(s)') \in Nat
  BY <1>2, QueuedCount, FS_Subset
<1>4. ConcurrentBuilds[s] \in Nat /\ Cardinality(ActiveOn(s)') < ConcurrentBuilds[s]
  BY TopologyAssumption DEF NextQueuable
<1>. QED  BY <1>1, <1>3, <1>4 DEF NextQueuable

(* When one row e ends, it can only make room for a row of its own server. *)
LEMMA MakesRoom ==
  ASSUME Inv, AtHome, NEW e \in Created, NEW v \in Statuses,
         status' = [status EXCEPT ![e] = v], row' = row,
         NEW d \in Created, NextQueuable(row[d])', ~NextQueuable(row[d])
  PROVE  row[d].server = Home[row[e].app] /\ row[d].server = row[e].server
<1>0. /\ status \in [D -> Statuses] /\ row[d] \in Rows /\ row[d].server \in Servers
      /\ row[d].server = Home[row[d].app] /\ row[e].server = Home[row[e].app]
      /\ d \in D /\ e \in D
  BY DEF Inv, TypeOK, KnownRows, Rows, AtHome, Created
<1>1. SUFFICES ASSUME row[e].server # row[d].server PROVE FALSE
  BY <1>0
<1>2. row[e].app # row[d].app
  BY <1>0, <1>1
<1>3. \A f \in D : f # e => (f \in InState("in_progress")' <=> f \in InState("in_progress"))
  BY <1>0 DEF InState
<1>4. ActiveOn(row[d].server)' = ActiveOn(row[d].server)
  BY <1>0, <1>1, <1>3 DEF ActiveOn, InState
<1>5. LaneBusy(row[d])' <=> LaneBusy(row[d])
  BY <1>0, <1>2, <1>3 DEF LaneBusy, InState
<1>. QED  BY <1>4, <1>5 DEF NextQueuable

(* Who was going to look at a queued row still is, or has started it.      *)
LEMMA WillStays ==
  ASSUME EveryEndScans, Inv, AtHome, NEW p \in Procs, StepOf(p),
         NEW d \in InState("queued"), NextQueuable(row[d]), Will(d, proc[p]),
         row'[d] = row[d]
  PROVE  Will(d, proc[p])' \/ d \notin InState("queued")'
<1>0. Tame(proc[p]) /\ proc[p] \in LocalState /\ d \in D /\ status \in [D -> Statuses]
  BY DEF AtHome, Inv, TypeOK, InState
<1>1. proc[p].pc \in {"snapshot", "effects", "scan", "start", "dispatch"}
  BY DEF Will
<1>2. CASE Proceed(p)
  <2>1. CASE Snapshot(p)
    BY <1>0, <2>1, SnapshotFields DEF Will
  <2>2. CASE Scan(p)
    <3>1. PICK e \in proc[p].todo :
            /\ proc'[p].todo = proc[p].todo \ {e}
            /\ \/ NextQueuable(row[e]) /\ proc'[p].pc = "start" /\ proc'[p].cur = e
               \/ ~NextQueuable(row[e]) /\ proc'[p].pc = "scan"
      BY <2>2, ScanFields
    <3>2. d \in proc[p].todo
      BY <2>2, ScanFields DEF Will
    <3>. QED  BY <3>1, <3>2 DEF Will
  <2>3. CASE ScanEnd(p)
    BY <2>3, ScanEndFields DEF Will
  <2>4. CASE Start(p)
    BY <1>0, <2>4, StartFields DEF Will, InState
  <2>5. CASE Dispatch(p)
    BY <2>5, DispatchFields DEF Will
  <2>6. ~DispatchThrows(p)
    <3>. SUFFICES ASSUME DispatchThrows(p) PROVE FALSE
      OBVIOUS
    <3>1. proc[p].cur \in Created
      BY DispatchThrowsFields DEF Inv, KnownRows, Held, D
    <3>. QED  BY <3>1, DispatchThrowsFields DEF Inv, KnownRows, Rows, AtHome
  <2>7. CASE FanOut(p)
    BY <1>0, <2>7, FanOutFields DEF Tame
  <2>8. CASE EffectsEnd(p)
    BY <1>0, <2>8, EffectsEndFields DEF Will
  <2>9. ~Insert(p) /\ ~CancelDeploymentWrite(p) /\ ~SweepStep(p) /\ ~Mark(p) /\ ~Settle(p)
        /\ ~Close(p)
    BY <1>1, InsertFields, CancelDeploymentWriteFields, SweepStepFields, MarkFields,
       SettleFields, CloseFields
  <2>. QED  BY <1>2, <2>1, <2>2, <2>3, <2>4, <2>5, <2>6, <2>7, <2>8, <2>9 DEF Proceed
<1>3. ~UserStep(p)
  BY <1>1, RequestDeployFields, ForceStartClickFields, CancelFields,
     CancelDeploymentFields, TakesRowsFields, IdleFields DEF UserStep
<1>4. ~(p \in Workers /\ WorkerStep(p))
  BY <1>1, PickFields, RunEndsFields, RedeliverFields, IdleFields DEF WorkerStep
<1>. QED  BY <1>2, <1>3, <1>4, NoMishap DEF StepOf

LEMMA AwaitedStep ==
  EveryEndScans /\ WakeInv /\ [Next]_vars => Awaited'
<1>. SUFFICES ASSUME EveryEndScans, WakeInv, [Next]_vars PROVE Awaited'
  OBVIOUS
<1>0. /\ Inv /\ AtHome /\ Awaited
      /\ status \in [D -> Statuses] /\ row \in [D -> Rows \cup {NoRow}]
  BY DEF WakeInv, Inv, TypeOK
<1>1. ASSUME NEW p \in Procs, StepOf(p),
             NEW d \in InState("queued")', NextQueuable(row[d])'
      PROVE  \E q \in Procs : Will(d, proc[q])'
  <2>0. d \in D /\ status'[d] = "queued"
    BY DEF InState
  <2>1. CASE Insert(p) /\ d \notin InState("queued")
    <3>1. PICK e \in D \ Created :
            /\ status' = [status EXCEPT ![e] = "queued"]
            /\ \/ proc'[p].pc = "start" /\ proc'[p].cur = e
               \/ proc'[p].pc = "scan" /\ proc'[p].todo = {e}
      BY <1>0, <2>1, InsertFields
    <3>2. d = e
      BY <1>0, <2>0, <2>1, <3>1 DEF InState
    <3>. QED  BY <3>1, <3>2 DEF Will
  <2>2. ASSUME d \in InState("queued"), row'[d] = row[d], NextQueuable(row[d])
        PROVE  \E q \in Procs : Will(d, proc[q])'
    <3>1. PICK q \in Procs : Will(d, proc[q])
      BY <1>0, <2>2 DEF Awaited
    <3>2. CASE q = p
      BY <1>0, <1>1, <2>2, <3>1, <3>2, WillStays
    <3>3. CASE q # p
      <4>1. proc'[q] = proc[q]
        BY <1>0, <1>1, <3>3, OthersKept
      <4>2. proc[q].pc = "effects" => row'[proc[q].job] = row[proc[q].job]
        <5>. SUFFICES ASSUME proc[q].pc = "effects" PROVE row'[proc[q].job] = row[proc[q].job]
          OBVIOUS
        <5>1. proc[q].job \in Created /\ proc[q].job \in D
          BY <1>0, ProcessAssumption DEF Inv, ProcOK, KnownRows, LocalOK, Held, Procs, D
        <5>2. CASE Insert(p)
          BY <1>0, <5>1, <5>2, InsertFields
        <5>3. CASE ~Insert(p)
          BY <1>0, <1>1, <5>3, NoneQueued
        <5>. QED  BY <5>2, <5>3
      <4>. QED  BY <2>2, <3>1, <4>1, <4>2 DEF Will
    <3>. QED  BY <3>2, <3>3
  <2>3. CASE Insert(p) /\ d \in InState("queued")
    <3>1. /\ row'[d] = row[d]
          /\ \A e \in InState("in_progress") : e \in InState("in_progress")' /\ row'[e] = row[e]
      BY <1>0, <2>0, <2>3, InsertFields DEF InState, Created
    <3>2. row[d].server \in Servers
      BY <2>0, <2>3, <1>0 DEF Inv, KnownRows, InState, Created, Rows
    <3>3. NextQueuable(row[d])
      <4>1. PICK r : r = row[d]
        OBVIOUS
      <4>2. NextQueuable(r)'
        BY <1>1, <3>1, <4>1 DEF NextQueuable, LaneBusy
      <4>. QED  BY <3>1, <3>2, <4>1, <4>2, Busier
    <3>. QED  BY <2>2, <2>3, <3>1, <3>3
  <2>4. CASE ~Insert(p)
    <3>1. row' = row /\ d \in InState("queued") /\ d \in Created
      BY <1>0, <1>1, <2>0, <2>4, NoneQueued DEF InState, Created
    <3>2. row[d].server \in Servers
      BY <1>0, <3>1 DEF Inv, KnownRows, Rows
    <3>3. CASE NextQueuable(row[d])
      BY <2>2, <3>1, <3>3
    <3>4. CASE ~NextQueuable(row[d]) /\ Close(p)
      <4>1. /\ proc[p].job \in Created /\ proc[p].hold \in Statuses
            /\ status' = [status EXCEPT ![proc[p].job] = proc[p].hold]
            /\ proc'[p].pc = "effects" /\ proc'[p].job = proc[p].job
        BY <1>0, <3>4, CloseFields DEF Inv, KnownRows, Held, D, Statuses, Closed
      <4>2. row[d].server = Home[row[proc[p].job].app]
        BY <1>0, <1>1, <3>1, <3>4, <4>1, MakesRoom
      <4>. QED  BY <3>1, <4>1, <4>2 DEF Will
    <3>5. CASE ~NextQueuable(row[d]) /\ Cancel(p)
      <4>1. PICK e \in Created : /\ status' = [status EXCEPT ![e] = "cancelled"]
                                 /\ proc'[p].srv = CancelScanServer(e)
        BY <1>0, <3>5, CancelFields
      <4>2. row[d].server = CancelScanServer(e)
        BY <1>0, <1>1, <3>1, <3>5, <4>1, MakesRoom DEF CancelScanServer, Statuses
      <4>3. proc'[p].pc = "snapshot"
        BY <1>0, <3>5, CancelFields
      <4>. QED  BY <3>1, <4>1, <4>2, <4>3 DEF Will
    <3>6. CASE ~Close(p) /\ ~Cancel(p)
      <4>1. \A e \in InState("in_progress") : e \in InState("in_progress")' /\ row'[e] = row[e]
        <5>1. CASE Start(p) \/ Mark(p)
          BY <1>0, <3>1, <5>1, StartFields, MarkFields DEF InState
        <5>2. CASE CancelDeploymentWrite(p) \/ SweepStep(p)
          BY <1>0, <5>2, CancelDeploymentWriteFields, SweepStepFields DEF AtHome, Tame
        <5>3. CASE Snapshot(p) \/ Scan(p) \/ ScanEnd(p) \/ Dispatch(p) \/ DispatchThrows(p)
                     \/ Settle(p) \/ FanOut(p) \/ EffectsEnd(p)
          <6>1. status' = status
            BY <5>3 DEF Snapshot, Scan, ScanEnd, Dispatch, DispatchThrows, Settle, FanOut,
               EffectsEnd
          <6>. QED  BY <3>1, <6>1 DEF InState
        <5>4. CASE UserStep(p) \/ WorkerStep(p)
          <6>1. status' = status
            BY <3>6, <5>4 DEF UserStep, RequestDeploy, ForceStartClick, CancelDeployment,
               CancelActiveDeployments, CheckDeploymentQueue, WorkerStep, Pick, RunEnds,
               BuildFails, Redeliver
          <6>. QED  BY <3>1, <6>1 DEF InState
        <5>. QED  BY <1>1, <2>4, <3>6, <5>1, <5>2, <5>3, <5>4, NoMishap DEF StepOf, Proceed
      <4>2. NextQueuable(row[d])
        <5>1. PICK r : r = row[d]
          OBVIOUS
        <5>2. NextQueuable(r)'
          BY <1>1, <3>1, <5>1 DEF NextQueuable, LaneBusy
        <5>. QED  BY <3>2, <4>1, <5>1, <5>2, Busier
      <4>. QED  BY <2>2, <3>1, <4>2
    <3>. QED  BY <3>3, <3>4, <3>5, <3>6
  <2>. QED  BY <2>1, <2>3, <2>4
<1>2. CASE UNCHANGED vars
  BY <1>0, <1>2 DEF vars, Awaited, InState, NextQueuable, LaneBusy, ActiveOn, Will
<1>3. CASE Restart
  BY <1>0, <1>3 DEF Restart, Awaited, InState, Active
<1>4. CASE \E p \in Procs : StepOf(p)
  BY <1>1, <1>4 DEF Awaited
<1>. QED  BY <1>2, <1>3, <1>4, Steps, NoMishap

LEMMA WakeInvInit == Init => WakeInv
<1>. SUFFICES ASSUME Init PROVE AtHome /\ Awaited
  BY InitInv DEF WakeInv
<1>1. Created = {} /\ InState("queued") = {}
  BY DEF Init, Created, InState
<1>. QED  BY <1>1, IdleFields DEF Init, AtHome, Tame, Awaited

LEMMA WakeInvStep == EveryEndScans /\ WakeInv /\ [Next]_vars => WakeInv'
BY StepInv, AtHomeStep, AwaitedStep DEF WakeInv

(* Whatever processes interleave and whenever the program is restarted, if *)
(* deployments end by themselves, by completing, failing or the cancel     *)
(* button, and run on the server of their application's destination, then  *)
(* no queued deployment that may run is left without somebody to start it. *)
THEOREM NoWakeupIsLost ==
  ASSUME EveryEndScans
  PROVE  Spec => []NoLostWakeup
<1>1. Init => WakeInv
  BY WakeInvInit
<1>2. WakeInv /\ [Next]_vars => WakeInv'
  BY WakeInvStep
<1>3. WakeInv => NoLostWakeup
  BY DEF WakeInv, Awaited, NoLostWakeup, Will
<1>. QED  BY <1>1, <1>2, <1>3, PTL DEF Spec

=============================================================================
