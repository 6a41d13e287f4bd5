------------------------- MODULE RollingUpdate_proofs --------------------------
(***************************************************************************)
(* A rolling update keeps the application served, a deployment that failed *)
(* is undone, and one that has finished is the only one that runs: for any *)
(* number of deployments, attempts and mishaps.                            *)
(***************************************************************************)
EXTENDS RollingUpdate, TLAPS

Before == {"build", "start", "up", "check", "list", "remove", "rollback"}
After == {"discard", "drop", "post", "done"}
Safe == {"remove", "complete", "post", "done"}

Typed ==
  /\ mode \in {"rolling", "ports", "name"}
  /\ shown \in [Updates -> {"none", "in_progress", "finished", "failed", "cancelled"}]
  /\ pc \in [Updates -> UpdateSteps] /\ todo \in [Updates -> SUBSET Versions]
  /\ container \in [Versions -> Health]

(* What the status of a deployment may be where its job is. *)
StatusOfPlace ==
  \A d \in Updates :
    /\ pc[d] = "idle" <=> shown[d] = "none"
    /\ pc[d] \in Before => shown[d] \in {"in_progress", "cancelled"}
    /\ pc[d] \in After => shown[d] \in {"finished", "failed", "cancelled"}

(* Who has failed and goes on to its end has discarded its container. *)
Discarded ==
  mode # "name" =>
    \A d \in Updates :
      pc[d] \in {"complete", "post", "done"} /\ shown[d] = "failed" /\ "ssh" \notin fate[d]
        => container[d] = "none"

(* Deployments that are at work in progress are alone, unless forced. *)
Driven(d) == shown[d] = "in_progress" /\ pc[d] # "cut"
NoneForced == \A d \in Updates : ~Forced(d)
Lone == NoneForced => \A d, e \in Updates : Driven(d) /\ Driven(e) => d = e

(* Nobody removes its own container as an old one. *)
NotOwn == mode # "name" => \A d \in Updates : d \notin todo[d]

(* In a rolling update some version is healthy whose own deployment will   *)
(* not remove it, and the one that is about to remove the others is too.   *)
Kept(v) == container[v] = "healthy" /\ (v # 0 => v \in Updates /\ pc[v] \in Safe)
Removing(d) == pc[d] \in {"list", "remove"} /\ shown[d] = "in_progress"
Served ==
  mode = "rolling" /\ checks /\ late = {} /\ NoneForced =>
    /\ \E v \in Versions : Kept(v)
    /\ \A d \in Updates : Removing(d) => container[d] = "healthy"

Inv == Typed /\ StatusOfPlace /\ Discarded /\ Lone /\ NotOwn /\ Served

(* It holds at the beginning. *)
LEMMA InitInv ==
  ASSUME RollingInit
  PROVE  Inv
<1>1. Typed
  BY DEF RollingInit, Typed, UpdateSteps, Health, Updates, Versions
<1>2. StatusOfPlace /\ Discarded /\ Lone /\ NotOwn
  BY DEF RollingInit, StatusOfPlace, Discarded, Lone, NotOwn, Before, After, Driven
<1>3. Served
  <2>1. 0 \in Versions /\ container[0] = "healthy"
    BY DEF RollingInit, Versions
  <2>. QED  BY <2>1 DEF RollingInit, Served, Kept, Removing
<1>. QED  BY <1>1, <1>2, <1>3 DEF Inv

(* Whoever begins is alone at work in progress, or forced. *)
LEMMA BeginInv ==
  ASSUME Inv, NEW d \in Updates,
         BeginUpdate(d)
  PROVE  Inv'
<1>. USE DEF BeginUpdate, GoTo, SetStatus, Throw, Late, Strike, UpdateMishap, Afflict,
    AtWork,
           Ended, settings, job, history
<1>1. Typed'
  BY DEF Inv, Typed, UpdateSteps, Health, Versions, Updates
<1>2. StatusOfPlace'
  BY DEF Inv, Typed, StatusOfPlace, Before, After
<1>3. Discarded'
  BY DEF Inv, Typed, StatusOfPlace, Before, After, Discarded, Versions
<1>4. Lone'
  BY DEF Inv, Typed, StatusOfPlace, Before, After, Lone, Driven, NoneForced, Forced
<1>5. NotOwn'
  BY DEF Inv, Typed, NotOwn
<1>6. Served'
  BY DEF Inv, Typed, StatusOfPlace, Before, Served, Kept, Removing, Safe,
         NoneForced, Forced, Versions
<1>. QED  BY <1>1, <1>2, <1>3, <1>4, <1>5, <1>6 DEF Inv

(* Steps before the removal. *)
LEMMA UpdateInv ==
  ASSUME Inv, NEW d \in Updates,
         Build(d) \/ StartContainer(d) \/ Check(d)
  PROVE  Inv'
<1>. USE DEF Build, StartContainer, Check, GoTo, SetStatus, Throw, Late, Strike,
    UpdateMishap,
           Afflict, Cancelled, settings, job, history
<1>1. Typed'
  BY DEF Inv, Typed, UpdateSteps, Health, Versions, Updates
<1>2. StatusOfPlace'
  BY DEF Inv, Typed, StatusOfPlace, Before, After
<1>3. Discarded'
  BY DEF Inv, Typed, StatusOfPlace, Before, After, Discarded, Versions
<1>4. Lone'
  BY DEF Inv, Typed, StatusOfPlace, Before, After, Lone, Driven, NoneForced, Forced
<1>5. NotOwn'
  BY DEF Inv, Typed, NotOwn
<1>6. Served'
  BY DEF Inv, Typed, StatusOfPlace, Before, Served, Kept, Removing, Safe,
         NoneForced, Forced, Versions
<1>. QED  BY <1>1, <1>2, <1>3, <1>4, <1>5, <1>6 DEF Inv

(* Old containers are listed, or not, when the server cannot be asked. *)
LEMMA ListInv ==
  ASSUME Inv, NEW d \in Updates,
         List(d) \/ ListFails(d)
  PROVE  Inv'
<1>. USE DEF List, ListFails, GoTo, SetStatus, Throw, Late, Strike, UpdateMishap,
           Afflict, AfterRemoval, Exist, settings, job, history
<1>1. Typed'
  <2>1. todo' = todo \/ \E vs \in SUBSET Versions : todo' = [todo EXCEPT ![d] = vs]
    OBVIOUS
  <2>2. pc' \in [Updates -> UpdateSteps] /\ UNCHANGED <<mode, shown, container>>
    BY DEF Inv, Typed, UpdateSteps
  <2>. QED  BY <2>1, <2>2 DEF Inv, Typed
<1>2. StatusOfPlace'
  BY DEF Inv, Typed, StatusOfPlace, Before, After
<1>3. Discarded'
  BY DEF Inv, Typed, StatusOfPlace, Before, After, Discarded, Versions
<1>4. Lone'
  BY DEF Inv, Typed, StatusOfPlace, Before, After, Lone, Driven, NoneForced, Forced
<1>5. NotOwn'
  BY DEF Inv, Typed, NotOwn
<1>6. Served'
  <2> SUFFICES ASSUME mode' = "rolling", checks', late' = {}, NoneForced'
               PROVE  /\ \E v \in Versions : Kept(v)'
                      /\ \A e \in Updates : Removing(e)' => container'[e] = "healthy"
    BY DEF Served
  <2>1. mode = "rolling" /\ checks /\ late = {} /\ NoneForced
    <3>1. mode' = mode /\ checks' = checks
      OBVIOUS
    <3>2. late \subseteq late'
      OBVIOUS
    <3>3. \A e \in Updates : fate[e] \subseteq fate'[e]
      OBVIOUS
    <3>. QED  BY <3>1, <3>2, <3>3 DEF NoneForced, Forced
  <2>2. PICK v \in Versions : Kept(v)
    BY <2>1 DEF Inv, Served
  <2>3. Kept(v)'
    <3>1. v # d => container'[v] = container[v] /\ (v # 0 => pc'[v] = pc[v])
      BY <2>1, <2>2 DEF Inv, Typed, Kept, Versions, Updates
    <3>2. v = d => pc[d] \in Safe /\ d # 0
      BY <2>2 DEF Kept, Updates
    <3>3. v = d => container'[d] = container[d] /\ pc'[d] \in Safe
      BY <2>1, <3>2 DEF Inv, Typed, Safe, Versions
    <3>. QED  BY <2>2, <3>1, <3>2, <3>3 DEF Kept
  <2>4. ASSUME NEW e \in Updates, Removing(e)' PROVE container'[e] = "healthy"
    BY <2>1, <2>4 DEF Inv, Typed, Served, Removing, Versions
  <2>. QED  BY <2>3, <2>4
<1>. QED  BY <1>1, <1>2, <1>3, <1>4, <1>5, <1>6 DEF Inv

(* Steps that write the status, or follow it. *)
LEMMA CloseInv ==
  ASSUME Inv, NEW d \in Updates,
         Rollback(d) \/ Complete(d) \/ Post(d) \/ Failing(d) \/
         CancelUpdate(d) \/ UpdateEffectsThrow(d)
  PROVE  Inv'
<1>. USE DEF Rollback, Complete, Post, Failing, CancelUpdate, UpdateEffectsThrow, GoTo,
           SetStatus, Throw, Late, Strike, UpdateMishap, Afflict, UpdateClosed, Cancelled,
           InFailed, settings, job, history
<1>1. Typed'
  BY DEF Inv, Typed, UpdateSteps, Health, Versions, Updates
<1>2. StatusOfPlace'
  BY DEF Inv, Typed, StatusOfPlace, Before, After
<1>3. Discarded'
  BY DEF Inv, Typed, StatusOfPlace, Before, After, Discarded, Versions
<1>4. Lone'
  BY DEF Inv, Typed, StatusOfPlace, Before, After, Lone, Driven, NoneForced, Forced
<1>5. NotOwn'
  BY DEF Inv, Typed, NotOwn
<1>6. Served'
  <2> SUFFICES ASSUME mode' = "rolling", checks', late' = {}, NoneForced'
               PROVE  /\ \E v \in Versions : Kept(v)'
                      /\ \A e \in Updates : Removing(e)' => container'[e] = "healthy"
    BY DEF Served
  <2>1. mode = "rolling" /\ checks /\ late = {} /\ NoneForced
    <3>1. mode' = mode /\ checks' = checks
      OBVIOUS
    <3>2. late \subseteq late'
      OBVIOUS
    <3>3. \A e \in Updates : fate[e] \subseteq fate'[e]
      OBVIOUS
    <3>. QED  BY <3>1, <3>2, <3>3 DEF NoneForced, Forced
  <2>2. PICK v \in Versions : Kept(v)
    BY <2>1 DEF Inv, Served
  <2>3. Kept(v)'
    <3>1. v # d => container'[v] = container[v] /\ (v # 0 => pc'[v] = pc[v])
      BY <2>1, <2>2 DEF Inv, Typed, Kept, Versions, Updates
    <3>2. v = d => pc[d] \in Safe /\ d # 0
      BY <2>2 DEF Kept, Updates
    <3>3. v = d => container'[d] = container[d] /\ pc'[d] \in Safe
      BY <2>1, <3>2 DEF Inv, Typed, Safe, Versions
    <3>. QED  BY <2>2, <3>1, <3>2, <3>3 DEF Kept
  <2>4. ASSUME NEW e \in Updates, Removing(e)' PROVE container'[e] = "healthy"
    BY <2>1, <2>4 DEF Inv, Typed, Served, Removing, Versions
  <2>. QED  BY <2>3, <2>4
<1>. QED  BY <1>1, <1>2, <1>3, <1>4, <1>5, <1>6 DEF Inv

(* A removal that fails changes no container. *)
LEMMA RemoveFailsInv ==
  ASSUME Inv, NEW d \in Updates,
         RemoveFails(d)
  PROVE  Inv'
<1>. USE DEF RemoveFails, GoTo, SetStatus, Throw, Late, Strike, UpdateMishap, Afflict,
           settings, job, history
<1>1. Typed'
  BY DEF Inv, Typed, UpdateSteps, Health, Versions, Updates
<1>2. StatusOfPlace'
  BY DEF Inv, Typed, StatusOfPlace, Before, After
<1>3. Discarded'
  BY DEF Inv, Typed, StatusOfPlace, Before, After, Discarded, Versions
<1>4. Lone'
  BY DEF Inv, Typed, StatusOfPlace, Before, After, Lone, Driven, NoneForced, Forced
<1>5. NotOwn'
  BY DEF Inv, Typed, NotOwn
<1>6. Served'
  BY DEF Inv, Typed, StatusOfPlace, Before, Served, Kept, Removing, Safe,
         NoneForced, Forced, Versions
<1>. QED  BY <1>1, <1>2, <1>3, <1>4, <1>5, <1>6 DEF Inv

(* A container that starts is not one that is kept. *)
LEMMA UpInv ==
  ASSUME Inv, NEW d \in Updates,
         Up(d) \/ Struck(d)
  PROVE  Inv'
<1>. USE DEF Up, Struck, GoTo, SetStatus, Throw, Late, Strike, UpdateMishap, Afflict,
           Started, Exist, AtWork, Ended, InFailed, settings, job, history
<1>1. Typed'
  BY DEF Inv, Typed, UpdateSteps, Health, Versions, Updates
<1>2. StatusOfPlace'
  BY DEF Inv, Typed, StatusOfPlace, Before, After
<1>3. Discarded'
  BY DEF Inv, Typed, StatusOfPlace, Before, After, Discarded, Versions
<1>4. Lone'
  BY DEF Inv, Typed, StatusOfPlace, Before, After, Lone, Driven, NoneForced, Forced
<1>5. NotOwn'
  BY DEF Inv, Typed, NotOwn
<1>6. Served'
  <2> SUFFICES ASSUME mode' = "rolling", checks', late' = {}, NoneForced'
               PROVE  /\ \E v \in Versions : Kept(v)'
                      /\ \A e \in Updates : Removing(e)' => container'[e] = "healthy"
    BY DEF Served
  <2>1. mode = "rolling" /\ checks /\ late = {} /\ NoneForced
    <3>1. mode' = mode /\ checks' = checks
      OBVIOUS
    <3>2. late \subseteq late'
      OBVIOUS
    <3>3. \A e \in Updates : fate[e] \subseteq fate'[e]
      OBVIOUS
    <3>. QED  BY <3>1, <3>2, <3>3 DEF NoneForced, Forced
  <2>2. PICK v \in Versions : Kept(v)
    BY <2>1 DEF Inv, Served
  <2>3. Kept(v)'
    <3>1. v # d => container'[v] = container[v] /\ (v # 0 => pc'[v] = pc[v])
      BY <2>1, <2>2 DEF Inv, Typed, Kept, Versions, Updates
    <3>2. v = d => pc[d] \in Safe /\ d # 0
      BY <2>2 DEF Kept, Updates
    <3>3. v = d => container'[d] = container[d] /\ pc'[d] \in Safe
      BY <2>1, <3>2 DEF Inv, Typed, Safe, Versions
    <3>. QED  BY <2>2, <3>1, <3>2, <3>3 DEF Kept
  <2>4. ASSUME NEW e \in Updates, Removing(e)' PROVE container'[e] = "healthy"
    BY <2>1, <2>4 DEF Inv, Typed, Served, Removing, Versions
  <2>. QED  BY <2>3, <2>4
<1>. QED  BY <1>1, <1>2, <1>3, <1>4, <1>5, <1>6 DEF Inv

(* A container that is dropped is not one that is kept. *)
LEMMA DropInv ==
  ASSUME Inv, NEW d \in Updates,
         Discard(d) \/ Drop(d)
  PROVE  Inv'
<1>. USE DEF Discard, Drop, GoTo, SetStatus, Throw, Late, Strike, UpdateMishap, Afflict,
           Cancelled, Removed, settings, job, history
<1>1. Typed'
  BY DEF Inv, Typed, UpdateSteps, Health, Versions, Updates
<1>2. StatusOfPlace'
  BY DEF Inv, Typed, StatusOfPlace, Before, After
<1>3. Discarded'
  BY DEF Inv, Typed, StatusOfPlace, Before, After, Discarded, Versions
<1>4. Lone'
  BY DEF Inv, Typed, StatusOfPlace, Before, After, Lone, Driven, NoneForced, Forced
<1>5. NotOwn'
  BY DEF Inv, Typed, NotOwn
<1>6. Served'
  <2> SUFFICES ASSUME mode' = "rolling", checks', late' = {}, NoneForced'
               PROVE  /\ \E v \in Versions : Kept(v)'
                      /\ \A e \in Updates : Removing(e)' => container'[e] = "healthy"
    BY DEF Served
  <2>1. mode = "rolling" /\ checks /\ late = {} /\ NoneForced
    <3>1. mode' = mode /\ checks' = checks
      OBVIOUS
    <3>2. late \subseteq late'
      OBVIOUS
    <3>3. \A e \in Updates : fate[e] \subseteq fate'[e]
      OBVIOUS
    <3>. QED  BY <3>1, <3>2, <3>3 DEF NoneForced, Forced
  <2>2. PICK v \in Versions : Kept(v)
    BY <2>1 DEF Inv, Served
  <2>3. Kept(v)'
    <3>1. v # d => container'[v] = container[v] /\ (v # 0 => pc'[v] = pc[v])
      BY <2>1, <2>2 DEF Inv, Typed, Kept, Versions, Updates
    <3>2. v = d => pc[d] \in Safe /\ d # 0
      BY <2>2 DEF Kept, Updates
    <3>3. v = d => container'[d] = container[d] /\ pc'[d] \in Safe
      BY <2>1, <3>2 DEF Inv, Typed, Safe, Versions
    <3>. QED  BY <2>2, <3>1, <3>2, <3>3 DEF Kept
  <2>4. ASSUME NEW e \in Updates, Removing(e)' PROVE container'[e] = "healthy"
    BY <2>1, <2>4 DEF Inv, Typed, Served, Removing, Versions
  <2>. QED  BY <2>3, <2>4
<1>. QED  BY <1>1, <1>2, <1>3, <1>4, <1>5, <1>6 DEF Inv

(* Who removes the others is kept itself. *)
LEMMA RemoveInv ==
  ASSUME Inv, NEW d \in Updates,
         Remove(d)
  PROVE  Inv'
<1>. USE DEF Remove, GoTo, SetStatus, Throw, Late, Strike, UpdateMishap, Afflict,
           Cancelled, Removed, AfterRemoval, settings, job, history
<1>1. Typed'
  BY DEF Inv, Typed, UpdateSteps, Health, Versions, Updates
<1>2. StatusOfPlace'
  BY DEF Inv, Typed, StatusOfPlace, Before, After
<1>3. Discarded'
  BY DEF Inv, Typed, StatusOfPlace, Before, After, Discarded, Versions
<1>4. Lone'
  BY DEF Inv, Typed, StatusOfPlace, Before, After, Lone, Driven, NoneForced, Forced
<1>5. NotOwn'
  BY DEF Inv, Typed, NotOwn
<1>6. Served'
  <2> SUFFICES ASSUME mode' = "rolling", checks', late' = {}, NoneForced'
               PROVE  /\ \E v \in Versions : Kept(v)'
                      /\ \A e \in Updates : Removing(e)' => container'[e] = "healthy"
    BY DEF Served
  <2>1. mode = "rolling" /\ checks /\ late = {} /\ NoneForced
    <3>1. mode' = mode /\ checks' = checks
      OBVIOUS
    <3>2. late \subseteq late'
      OBVIOUS
    <3>3. \A e \in Updates : fate[e] \subseteq fate'[e]
      OBVIOUS
    <3>. QED  BY <3>1, <3>2, <3>3 DEF NoneForced, Forced
  <2>2. PICK v \in Versions : Kept(v)
    BY <2>1 DEF Inv, Served
  <2>3. \E w \in Versions : Kept(w)'
    BY <2>1, <2>2 DEF Inv, Typed, StatusOfPlace, Before, NotOwn, Served, Kept, Removing,
        Safe, Versions
  <2>4. ASSUME NEW e \in Updates, Removing(e)' PROVE container'[e] = "healthy"
    BY <2>1, <2>4 DEF Inv, Typed, StatusOfPlace, Before, Lone, Driven, NotOwn, Served,
        Removing, Versions
  <2>. QED  BY <2>3, <2>4
<1>. QED  BY <1>1, <1>2, <1>3, <1>4, <1>5, <1>6 DEF Inv

(* A container that settles was not healthy before, and was there. *)
LEMMA SettleInv ==
  ASSUME Inv, NEW v \in Versions, SettleContainer(v)
  PROVE  Inv'
<1>. USE DEF SettleContainer, settings, job, history
<1>1. Typed'
  BY DEF Inv, Typed, Health
<1>2. StatusOfPlace'
  BY DEF Inv, StatusOfPlace
<1>3. Discarded'
  BY DEF Inv, Typed, Discarded, Versions
<1>4. Lone' /\ NotOwn'
  BY DEF Inv, Lone, Driven, NoneForced, Forced, NotOwn
<1>5. Served'
  <2>1. \A w \in Versions : container[w] = "healthy" => container'[w] = "healthy"
    BY DEF Inv, Typed
  <2>. QED  BY <2>1 DEF Inv, Served, Kept, Removing, NoneForced, Forced, Versions
<1>. QED  BY <1>1, <1>2, <1>3, <1>4, <1>5 DEF Inv

(* Whoever is at work when Coolify restarts is failing afterwards. *)
LEMMA RestartInv ==
  ASSUME Inv, RollingRestart
  PROVE  Inv'
<1>. USE DEF RollingRestart, Strike, UpdateMishap, Afflict, Late, settings
<1>1. Typed'
  BY DEF Inv, Typed, UpdateSteps, Updates
<1>2. \A d \in Updates :
        /\ shown'[d] # "in_progress"
        /\ AtWork(d) => pc'[d] \in {"cut", "failing"} /\ pc[d] # "idle"
        /\ ~AtWork(d) => pc'[d] = pc[d] /\ fate'[d] = fate[d]
  BY DEF Inv, Typed, AtWork, Ended, InFailed
<1>3. StatusOfPlace'
  BY <1>2 DEF Inv, Typed, StatusOfPlace, Before, After, AtWork, Ended
<1>4. Discarded'
  BY <1>2 DEF Inv, Typed, StatusOfPlace, After, Discarded, AtWork, Ended
<1>5. Lone' /\ NotOwn'
  BY <1>2 DEF Inv, Lone, Driven, NotOwn
<1>6. Served'
  <2> SUFFICES ASSUME mode' = "rolling", checks', late' = {}, NoneForced'
               PROVE  \E v \in Versions : Kept(v)'
    BY <1>2 DEF Served, Removing
  <2>1. mode = "rolling" /\ checks /\ late = {} /\ NoneForced
    <3>1. mode' = mode /\ checks' = checks
      OBVIOUS
    <3>2. late \subseteq late'
      OBVIOUS
    <3>3. \A e \in Updates : fate[e] \subseteq fate'[e]
      OBVIOUS
    <3>. QED  BY <3>1, <3>2, <3>3 DEF NoneForced, Forced
  <2>2. PICK v \in Versions : Kept(v)
    BY <2>1 DEF Inv, Served
  <2>3. v # 0 => ~AtWork(v)
    BY <2>2 DEF Kept, Safe, AtWork, Ended, InFailed
  <2>. QED  BY <1>2, <2>2, <2>3 DEF Kept, Versions
<1>. QED  BY <1>1, <1>3, <1>4, <1>5, <1>6 DEF Inv

(* A stutter changes none of it. *)
LEMMA StutterInv ==
  ASSUME Inv, UNCHANGED rollingVars
  PROVE  Inv'
BY DEF Inv, Typed, StatusOfPlace, Discarded, Lone, NotOwn, Served, Driven, Kept,
       Removing, NoneForced, Forced, rollingVars, settings, job, history

(* No step breaks the invariant. *)
LEMMA StepInv ==
  ASSUME Inv, [RollingNext]_rollingVars
  PROVE  Inv'
<1>1. CASE UNCHANGED rollingVars  BY <1>1, StutterInv
<1>2. CASE RollingRestart  BY <1>2, RestartInv
<1>3. CASE \E v \in Versions : SettleContainer(v)  BY <1>3, SettleInv
<1>4. ASSUME NEW d \in Updates, BeginUpdate(d)  PROVE Inv'  BY <1>4, BeginInv
<1>5. ASSUME NEW d \in Updates, Build(d) \/ StartContainer(d) \/ Check(d)  PROVE Inv'
  BY <1>5, UpdateInv
<1>6. ASSUME NEW d \in Updates, List(d) \/ ListFails(d)  PROVE Inv'  BY <1>6, ListInv
<1>7. ASSUME NEW d \in Updates,
             Rollback(d) \/ Complete(d) \/ Post(d) \/ Failing(d) \/
             CancelUpdate(d) \/ UpdateEffectsThrow(d)
      PROVE  Inv'
  BY <1>7, CloseInv
<1>8. ASSUME NEW d \in Updates, RemoveFails(d)  PROVE Inv'  BY <1>8, RemoveFailsInv
<1>9. ASSUME NEW d \in Updates, Up(d) \/ Struck(d)  PROVE Inv'  BY <1>9, UpInv
<1>10. ASSUME NEW d \in Updates, Discard(d) \/ Drop(d)  PROVE Inv'  BY <1>10, DropInv
<1>11. ASSUME NEW d \in Updates, Remove(d)  PROVE Inv'  BY <1>11, RemoveInv
<1>. QED
  BY <1>1, <1>2, <1>3, <1>4, <1>5, <1>6, <1>7, <1>8, <1>9, <1>10, <1>11 DEF RollingNext

(* The invariant holds in every state. *)
LEMMA AlwaysInv == RollingSpec => []Inv
BY InitInv, StepInv, PTL DEF RollingSpec

(* A rolling update never takes the application away: whatever deployments *)
(* are cancelled, killed or fail, some version of it is healthy, unless    *)
(* one failed after it had begun to remove the old ones or was forced to   *)
(* run beside another (rolling_update(), health_check(),                   *)
(* stop_running_container(), failed()).                                    *)
THEOREM ServesThroughout == RollingSpec => []KeepsServing
<1>1. Inv => KeepsServing
  BY DEF Inv, Served, Kept, NoneForced, KeepsServing
<1>. QED  BY <1>1, AlwaysInv, PTL

(* A deployment that failed and is done has no container left, unless its  *)
(* name is shared or the server could not be reached: it removed it when   *)
(* its check failed, or failed() did.                                      *)
THEOREM FailedAreUndone == RollingSpec => []FailedIsUndone
<1>1. Inv => FailedIsUndone
  BY DEF Inv, Discarded, FailedIsUndone, Exist
<1>. QED  BY <1>1, AlwaysInv, PTL
----------------------------------------------------------------------------
(* Deployments begin in their order, and one that was cancelled is told.   *)
Ordered == \A d, e \in Updates : e < d /\ pc[d] # "idle" => pc[e] # "idle"
CancelIsTold == \A d \in Updates : Cancelled(d) => "cancel" \in fate[d]

(* The newest deployment, when nothing happened that excuses what it       *)
(* leaves behind.  A state that is quiet was quiet before.                 *)
Quiet(d) ==
  /\ Newest(d) /\ d \notin late /\ ~Forced(d) /\ "ssh" \notin fate[d]
  /\ \A e \in Updates : ~({"cancel", "crossed"} \subseteq fate[e])

(* Then the others have closed their rows, so they start nothing any more; *)
(* it finds its container and lists what else there is; and once the old   *)
(* containers are removed there is no other one.                           *)
OthersAreOver(d) ==
  \A e \in Updates : e # d /\ AtWork(e) => shown[e] \in {"finished", "failed"}
FinishesInPlace(d) == shown[d] = "finished" => pc[d] \in {"post", "done"}
OldAreListed(d) ==
  mode = "rolling" /\ shown[d] = "in_progress" =>
    /\ pc[d] \in {"check", "list", "remove"} => d \in Exist
    /\ pc[d] = "remove" => Exist \subseteq todo[d] \cup {d}
StandsAlone(d) ==
  \/ shown[d] = "finished"
  \/ shown[d] = "in_progress" /\ pc[d] = "complete"
  => Exist = {d}
QuietIsAlone(d) ==
  Quiet(d) => /\ OthersAreOver(d) /\ FinishesInPlace(d)
              /\ OldAreListed(d) /\ StandsAlone(d)

AloneInv == Ordered /\ CancelIsTold /\ \A d \in Updates : QuietIsAlone(d)

(* What no step takes back: who has begun has begun, who is done is done,  *)
(* a closed row stays as it is, and the history only grows.                *)
Onward(d) ==
  /\ fate[d] \subseteq fate'[d]
  /\ pc[d] # "idle" => pc'[d] # "idle" /\ shown'[d] # "none"
  /\ pc[d] = "idle" => BeginUpdate(d) \/ (pc'[d] = "idle" /\ shown'[d] = "none")
  /\ Ended(d) => pc'[d] = pc[d]
  /\ UpdateClosed(d) => shown'[d] = shown[d]
  /\ Cancelled(d)' => Cancelled(d) \/ "cancel" \in fate'[d]
OnlyGrows == late \subseteq late' /\ \A d \in Updates : Onward(d)

LEMMA StepOnlyGrows ==
  ASSUME Inv, RollingNext
  PROVE  OnlyGrows
<1>. USE DEF Inv, Typed, StatusOfPlace, Before, After, OnlyGrows, Onward,
             GoTo, SetStatus, Throw, Late, Strike, UpdateMishap, Afflict, Ended, InFailed,
             AtWork, UpdateClosed, Cancelled, settings, job, history
<1>1. ASSUME NEW d \in Updates, BeginUpdate(d)  PROVE OnlyGrows
  <2>1. \A e \in Updates \ {d} : shown'[e] = shown[e] /\ pc'[e] = pc[e]
    BY <1>1 DEF BeginUpdate
  <2>2. pc[d] = "idle" /\ shown'[d] = "in_progress" /\ pc'[d] = "build"
    BY <1>1 DEF BeginUpdate
  <2>3. late' = late /\ \A e \in Updates : fate[e] \subseteq fate'[e]
    BY <1>1 DEF BeginUpdate
  <2>. QED  BY <1>1, <2>1, <2>2, <2>3
<1>2. ASSUME NEW d \in Updates, Build(d) \/ StartContainer(d) \/ Up(d) \/ Check(d)
      PROVE  OnlyGrows
  BY <1>2 DEF Build, StartContainer, Up, Check
<1>3. ASSUME NEW d \in Updates, List(d) \/ ListFails(d) \/ Remove(d)  PROVE OnlyGrows
  <2>1. CASE List(d)
    BY <2>1 DEF List
  <2>2. CASE ListFails(d)
    BY <2>2 DEF ListFails, AfterRemoval
  <2>3. CASE Remove(d)
    <3>1. pc'[d] # "idle" /\ \A e \in Updates \ {d} : pc'[e] = pc[e]
      BY <2>3 DEF Remove, AfterRemoval
    <3>2. pc[d] = "remove" /\ UNCHANGED <<shown, fate, late>>
      BY <2>3 DEF Remove
    <3>. QED  BY <3>1, <3>2
  <2>. QED  BY <1>3, <2>1, <2>2, <2>3
<1>4. ASSUME NEW d \in Updates,
             Rollback(d) \/ Discard(d) \/ Complete(d) \/ Post(d) \/ Failing(d) \/ Drop(d)
      PROVE  OnlyGrows
  BY <1>4 DEF Rollback, Discard, Complete, Post, Failing, Drop
<1>5. ASSUME NEW d \in Updates,
             RemoveFails(d) \/ CancelUpdate(d) \/ UpdateEffectsThrow(d) \/ Struck(d)
      PROVE  OnlyGrows
  BY <1>5 DEF RemoveFails, CancelUpdate, UpdateEffectsThrow, Struck
<1>6. ASSUME NEW v \in Versions, SettleContainer(v)  PROVE OnlyGrows
  BY <1>6 DEF SettleContainer
<1>7. CASE RollingRestart
  BY <1>7 DEF RollingRestart
<1>. QED  BY <1>1, <1>2, <1>3, <1>4, <1>5, <1>6, <1>7 DEF RollingNext

(* Who is quiet after a step, and had begun before it, was quiet before.   *)
LEMMA QuietBefore ==
  ASSUME Inv, OnlyGrows, NEW d \in Updates, Quiet(d)', pc[d] # "idle"
  PROVE  Quiet(d)
<1>1. shown[d] # "none"
  BY DEF Inv, StatusOfPlace
<1>2. \A e \in Updates : shown[e] # "none" => shown'[e] # "none"
  BY DEF Inv, StatusOfPlace, OnlyGrows, Onward
<1>3. Newest(d)
  BY <1>1, <1>2 DEF Quiet, Newest
<1>. QED  BY <1>3 DEF Quiet, OnlyGrows, Onward, Forced

(* Steps keep the order, and tell of a cancellation. *)
LEMMA OrderKept ==
  ASSUME Inv, AloneInv, OnlyGrows
  PROVE  Ordered' /\ CancelIsTold'
<1>1. Ordered'
  BY DEF AloneInv, Ordered, OnlyGrows, Onward, BeginUpdate
<1>2. CancelIsTold'
  BY DEF AloneInv, CancelIsTold, OnlyGrows, Onward
<1>. QED  BY <1>1, <1>2

(* A deployment begins when no other one is in progress, and it is newer   *)
(* than all that have begun.  One at work beside it that was cancelled     *)
(* would have crossed it.                                                  *)
LEMMA BeginAlone ==
  ASSUME Inv, AloneInv, OnlyGrows, NEW d \in Updates, BeginUpdate(d)
  PROVE  AloneInv'
<1>. SUFFICES ASSUME NEW e \in Updates, Quiet(e)'  PROVE QuietIsAlone(e)'
  BY OrderKept DEF AloneInv, QuietIsAlone
<1>1. e = d
  <2>1. pc[e] # "idle" \/ e = d
    BY DEF Inv, Typed, StatusOfPlace, Quiet, Newest, BeginUpdate, SetStatus
  <2>2. ~(d < e) \/ pc[e] = "idle"
    BY DEF AloneInv, Ordered, BeginUpdate
  <2>3. ~(e < d)
    BY DEF Inv, Typed, Quiet, Newest, BeginUpdate, SetStatus, Updates
  <2>. QED  BY <2>1, <2>2, <2>3 DEF Updates
<1>2. ASSUME NEW f \in Updates, AtWork(f)
      PROVE  shown[f] # "in_progress" /\ "crossed" \in fate'[f]
  <2> DEFINE pair == {d} \cup {g \in Updates : AtWork(g)}
  <2>1. {g \in Updates : AtWork(g)} # {} /\ f \in pair /\ d \in pair
    BY <1>2
  <2>2. \/ (\A g \in Updates : shown[g] # "in_progress") /\ Afflict(pair, {"crossed"})
        \/ Afflict(pair, {"crossed", "force"})
    BY <2>1 DEF BeginUpdate
  <2>3. ~Afflict(pair, {"crossed", "force"})
    BY <1>1, <2>1 DEF Quiet, Forced, Afflict
  <2>. QED  BY <1>2, <2>1, <2>2, <2>3 DEF Afflict
<1>3. OthersAreOver(d)'
  <2>. SUFFICES ASSUME NEW f \in Updates, f # d, AtWork(f)'
                PROVE  shown'[f] \in {"finished", "failed"}
    BY DEF OthersAreOver
  <2>1. pc'[f] = pc[f] /\ shown'[f] = shown[f]
    BY DEF Inv, Typed, BeginUpdate, GoTo, SetStatus
  <2>2. AtWork(f)
    BY <2>1 DEF AtWork, Ended
  <2>3. shown[f] \in {"finished", "failed", "cancelled"}
    BY <1>2, <2>2 DEF Inv, Typed, StatusOfPlace, AtWork
  <2>4. "crossed" \in fate'[f]
    BY <1>2, <2>2
  <2>5. shown[f] = "cancelled" => "cancel" \in fate'[f]
    BY DEF AloneInv, CancelIsTold, Cancelled, OnlyGrows, Onward
  <2>6. ~({"cancel", "crossed"} \subseteq fate'[f])
    BY DEF Quiet
  <2>. QED  BY <2>1, <2>3, <2>4, <2>5, <2>6
<1>4. shown'[d] = "in_progress" /\ pc'[d] = "build"
  BY DEF Inv, Typed, BeginUpdate, GoTo, SetStatus
<1>. QED
  BY <1>1, <1>3, <1>4 DEF QuietIsAlone, FinishesInPlace, OldAreListed, StandsAlone

(* Steps in which nobody begins. *)
LEMMA OthersStayOver ==
  ASSUME Inv, AloneInv, OnlyGrows, NEW d \in Updates, Quiet(d)', pc[d] # "idle",
         \A e \in Updates : e > d => ~BeginUpdate(e)
  PROVE  Quiet(d) /\ QuietIsAlone(d) /\ OthersAreOver(d)'
<1>1. Quiet(d)
  BY QuietBefore
<1>2. QuietIsAlone(d) /\ OthersAreOver(d)
  BY <1>1 DEF AloneInv, QuietIsAlone
<1>3. OthersAreOver(d)'
  <2>. SUFFICES ASSUME NEW e \in Updates, e # d, AtWork(e)'
                PROVE  shown'[e] \in {"finished", "failed"}
    BY DEF OthersAreOver
  <2>1. pc[e] # "idle"
    <3>1. e < d \/ e > d
      BY DEF Updates
    <3>2. pc[e] = "idle" => BeginUpdate(e)
      BY DEF OnlyGrows, Onward, AtWork
    <3>. QED  BY <3>1, <3>2 DEF AloneInv, Ordered
  <2>2. ~Ended(e)
    BY DEF OnlyGrows, Onward, AtWork, Ended
  <2>. QED  BY <1>2, <2>1, <2>2 DEF OthersAreOver, AtWork, OnlyGrows, Onward, UpdateClosed
<1>. QED  BY <1>1, <1>2, <1>3

(* What is left to show of the step of a job, of its own deployment and of *)
(* another.                                                                *)
NobodyBegins == \A e \in Updates : ~BeginUpdate(e)
Rest(d) == FinishesInPlace(d) /\ OldAreListed(d) /\ StandsAlone(d)

LEMMA RestIsEnough ==
  ASSUME Inv, AloneInv, OnlyGrows, NobodyBegins,
         \A d \in Updates : Quiet(d) /\ Quiet(d)' /\ QuietIsAlone(d) => Rest(d)'
  PROVE  AloneInv'
<1>1. ASSUME NEW d \in Updates, Quiet(d)'  PROVE QuietIsAlone(d)'
  <2>1. pc[d] # "idle"
    BY <1>1 DEF Inv, StatusOfPlace, Quiet, Newest, OnlyGrows, Onward, NobodyBegins
  <2>. QED  BY <1>1, <2>1, OthersStayOver DEF QuietIsAlone, Rest, NobodyBegins
<1>. QED  BY <1>1, OrderKept DEF AloneInv, QuietIsAlone

(* A step of a job at work begins no other one. *)
LEMMA WorkIsOne ==
  ASSUME Inv, NEW d \in Updates, pc[d] # "idle",
         \A e \in Updates : e # d => pc'[e] = pc[e]
  PROVE  NobodyBegins
<1>1. pc \in [Updates -> UpdateSteps]
  BY DEF Inv, Typed
<1>. QED  BY <1>1 DEF NobodyBegins, BeginUpdate, GoTo

(* Whoever is at work beside a quiet deployment is closed, so all it may   *)
(* still do to containers is to remove its own.                            *)
Minds(d) ==
  /\ \A e \in Updates \ {d} :
       shown'[e] = shown[e] /\ pc'[e] = pc[e] /\ todo'[e] = todo[e]
  /\ mode' = mode
  /\ pc[d] \notin Before => Exist' \subseteq Exist /\ Exist \subseteq Exist' \cup {d}

LEMMA RestOfOther ==
  ASSUME Inv, NEW d \in Updates, AtWork(d), Minds(d),
         NEW e \in Updates, e # d, Quiet(e), QuietIsAlone(e)
  PROVE  Rest(e)'
<1>1. pc[d] \notin Before
  BY DEF Inv, StatusOfPlace, QuietIsAlone, OthersAreOver
<1>2. Exist' \subseteq Exist /\ Exist \subseteq Exist' \cup {d} /\ mode' = mode
  BY <1>1 DEF Minds
<1>3. shown'[e] = shown[e] /\ pc'[e] = pc[e] /\ todo'[e] = todo[e]
  BY DEF Minds
<1>4. Rest(e)
  BY DEF QuietIsAlone, Rest
<1>. QED
  BY <1>2, <1>3, <1>4 DEF Rest, FinishesInPlace, OldAreListed, StandsAlone

(* So a step of a job needs to be looked at for its own deployment only.   *)
LEMMA OwnIsEnough ==
  ASSUME Inv, AloneInv, OnlyGrows,
         NEW d \in Updates, AtWork(d), Minds(d),
         Quiet(d) /\ Quiet(d)' /\ QuietIsAlone(d) => Rest(d)'
  PROVE  AloneInv'
<1>1. NobodyBegins
  BY WorkIsOne DEF Minds, AtWork
<1>. QED  BY <1>1, RestOfOther, RestIsEnough

(* Before the removal it has not finished, and it finds its container if   *)
(* its check found it.                                                     *)
LEMMA UpdateAlone ==
  ASSUME Inv, AloneInv, OnlyGrows, NEW d \in Updates,
         Build(d) \/ StartContainer(d) \/ Check(d)
  PROVE  AloneInv'
<1>. USE DEF Build, StartContainer, Check, GoTo, Throw, Cancelled, settings, job, history
<1>1. AtWork(d)
  BY DEF AtWork, Ended
<1>2. Minds(d)
  BY DEF Inv, Typed, Minds, Exist
<1>3. ASSUME Quiet(d), QuietIsAlone(d)  PROVE Rest(d)'
  <2>1. shown'[d] \in {"in_progress", "cancelled"}
    BY DEF Inv, StatusOfPlace, Before
  <2>2. pc'[d] \notin {"remove", "complete"}
    BY DEF Inv, Typed
  <2>3. pc'[d] \in {"check", "list"} /\ mode = "rolling" => pc[d] = "check" \/ Cancelled(d)
    BY DEF Inv, Typed
  <2>4. OldAreListed(d)'
    BY <1>3, <2>2, <2>3 DEF QuietIsAlone, OldAreListed, Exist
  <2>. QED  BY <2>1, <2>2, <2>4 DEF Rest, FinishesInPlace, StandsAlone
<1>. QED  BY <1>1, <1>2, <1>3, OwnIsEnough

(* Its container is there once it has started, and alone if it was to take *)
(* the port or the name of another.                                        *)
LEMMA UpAlone ==
  ASSUME Inv, AloneInv, OnlyGrows, NEW d \in Updates, Up(d)
  PROVE  AloneInv'
<1>. USE DEF Up, GoTo, Throw, settings, job, history
<1>1. AtWork(d)
  BY DEF AtWork, Ended
<1>2. Minds(d)
  BY DEF Inv, Typed, Minds, Before
<1>3. Rest(d)'
  <2>1. shown'[d] \in {"in_progress", "cancelled"}
    BY DEF Inv, StatusOfPlace, Before
  <2>2. pc'[d] \in {"check", "complete", "failing"}
    BY DEF Inv, Typed
  <2>3. pc'[d] # "failing" => container' = Started(d) /\ (mode = "ports" => Exist \subseteq {d})
    BY DEF Inv, Typed
  <2>4. pc'[d] # "failing" => (pc'[d] = "check" <=> mode = "rolling")
    BY DEF Inv, Typed
  <2>5. container' = Started(d) =>
          d \in Exist' /\ (mode = "name" => Exist' = {d})
                       /\ (Exist \subseteq {d} => Exist' = {d})
    BY DEF Started, Exist, Versions
  <2>6. pc'[d] = "complete" => mode \in {"ports", "name"}
    BY <2>4 DEF Inv, Typed
  <2>. QED  BY <2>1, <2>2, <2>3, <2>4, <2>5, <2>6
            DEF Rest, FinishesInPlace, OldAreListed, StandsAlone
<1>. QED  BY <1>1, <1>2, <1>3, OwnIsEnough

(* A job that dies after it has finished was late. *)
LEMMA StruckAlone ==
  ASSUME Inv, AloneInv, OnlyGrows, NEW d \in Updates, Struck(d)
  PROVE  AloneInv'
<1>. USE DEF Struck, GoTo, Throw, Late, InFailed, settings, job, history
<1>1. Minds(d)
  <2>1. pc[d] \notin Before => container' = container
    BY DEF Before
  <2>2. \A e \in Updates \ {d} : pc'[e] = pc[e]
    BY DEF Inv, Typed
  <2>. QED  BY <2>1, <2>2 DEF Minds, Exist
<1>2. ASSUME Quiet(d), Quiet(d)', QuietIsAlone(d)  PROVE Rest(d)'
  <2>1. pc'[d] \in {"failing", "cut"} /\ shown' = shown
    BY DEF Inv, Typed
  <2>2. shown[d] = "finished" => pc[d] = "post"
    BY <1>2 DEF QuietIsAlone, FinishesInPlace, AtWork, Ended
  <2>3. pc[d] # "post"
    BY <1>2 DEF Quiet
  <2>. QED  BY <2>1, <2>2, <2>3 DEF Rest, FinishesInPlace, OldAreListed, StandsAlone
<1>. QED  BY <1>1, <1>2, OwnIsEnough DEF Struck

(* Who lists the old containers leaves out its own; one that cannot list   *)
(* them is not quiet any more.                                             *)
LEMMA ListAlone ==
  ASSUME Inv, AloneInv, OnlyGrows, NEW d \in Updates,
         List(d) \/ ListFails(d)
  PROVE  AloneInv'
<1>. USE DEF List, ListFails, GoTo, Strike, UpdateMishap, Afflict, settings, job, history
<1>1. AtWork(d)
  BY DEF AtWork, Ended
<1>2. Minds(d)
  BY DEF Inv, Typed, Minds, Exist
<1>3. ASSUME Quiet(d), Quiet(d)', QuietIsAlone(d)  PROVE Rest(d)'
  <2>1. List(d)
    BY <1>3 DEF Quiet
  <2>2. shown'[d] \in {"in_progress", "cancelled"} /\ pc'[d] = "remove" /\ mode' = mode
    BY <2>1 DEF Inv, Typed, StatusOfPlace, Before
  <2>3. Exist' = Exist /\ shown'[d] = shown[d]
    BY <2>1 DEF Exist
  <2>4. mode = "rolling" => todo'[d] = Exist \ {d}
    BY <2>1 DEF Inv, Typed
  <2>5. mode = "rolling" /\ shown[d] = "in_progress" => d \in Exist
    BY <1>3 DEF QuietIsAlone, OldAreListed
  <2>. QED  BY <2>2, <2>3, <2>4, <2>5
            DEF Rest, FinishesInPlace, OldAreListed, StandsAlone
<1>. QED  BY <1>1, <1>2, <1>3, OwnIsEnough

(* Once all that were listed are removed its own is the only one.          *)
LEMMA RemoveAlone ==
  ASSUME Inv, AloneInv, OnlyGrows, NEW d \in Updates,
         Remove(d) \/ RemoveFails(d)
  PROVE  AloneInv'
<1>. USE DEF Remove, RemoveFails, GoTo, Removed, Strike, UpdateMishap, Afflict,
             AfterRemoval, settings, job, history
<1>1. AtWork(d)
  BY DEF AtWork, Ended
<1>2. Minds(d)
  BY DEF Inv, Typed, Minds, Exist, Before
<1>3. ASSUME Quiet(d), Quiet(d)', QuietIsAlone(d)  PROVE Rest(d)'
  <2>1. Remove(d)
    BY <1>3 DEF Quiet
  <2>2. shown'[d] \in {"in_progress", "cancelled"} /\ shown'[d] = shown[d] /\ mode' = mode
    BY <2>1 DEF Inv, StatusOfPlace, Before
  <2>3. OldAreListed(d) /\ (mode = "rolling" => d \notin todo[d])
    BY <1>3 DEF QuietIsAlone, Inv, NotOwn
  <2>4. CASE todo[d] = {}
    <3>1. container' = container /\ todo' = todo /\ pc'[d] = AfterRemoval
      BY <2>1, <2>4 DEF Inv, Typed
    <3>2. pc'[d] = "complete" => mode = "rolling"
      BY <3>1
    <3>3. pc'[d] \in {"complete", "start"}
      BY <3>1
    <3>4. mode = "rolling" /\ shown[d] = "in_progress" => Exist = {d}
      BY <2>1, <2>3, <2>4 DEF OldAreListed
    <3>. QED  BY <2>2, <3>1, <3>2, <3>3, <3>4
              DEF Rest, FinishesInPlace, OldAreListed, StandsAlone, Exist
  <2>5. CASE todo[d] # {}
    <3>1. PICK v \in todo[d] :
            /\ todo' = [todo EXCEPT ![d] = @ \ {v}]
            /\ container' = [w \in Versions |-> IF w \in (IF Cancelled(d) THEN {} ELSE {v})
                                               THEN "none" ELSE container[w]]
      BY <2>1, <2>5
    <3>2. pc'[d] = "remove" /\ todo'[d] = todo[d] \ {v}
      BY <2>1, <2>5, <3>1 DEF Inv, Typed
    <3>3. shown[d] = "in_progress" => Exist' = Exist \ {v}
      BY <3>1 DEF Cancelled, Exist
    <3>. QED  BY <2>1, <2>2, <2>3, <3>1, <3>2, <3>3
              DEF Rest, FinishesInPlace, OldAreListed, StandsAlone
  <2>. QED  BY <2>4, <2>5
<1>. QED  BY <1>1, <1>2, <1>3, OwnIsEnough

(* The row is closed where its own container is the only one.              *)
LEMMA CloseAlone ==
  ASSUME Inv, AloneInv, OnlyGrows, NEW d \in Updates,
         Rollback(d) \/ Complete(d) \/ Post(d) \/ Failing(d)
  PROVE  AloneInv'
<1>. USE DEF Rollback, Complete, Post, Failing, GoTo, SetStatus, Throw, Cancelled,
             UpdateClosed, settings, job, history
<1>1. AtWork(d)
  BY DEF AtWork, Ended
<1>2. Minds(d)
  BY DEF Inv, Typed, Minds, Exist
<1>3. ASSUME Quiet(d), QuietIsAlone(d)  PROVE Rest(d)'
  <2>1. FinishesInPlace(d) /\ StandsAlone(d)
    BY <1>3 DEF QuietIsAlone
  <2>2. Exist' = Exist /\ pc'[d] \in {"failing", "discard", "post", "done", "drop"}
    BY DEF Inv, Typed, Exist
  <2>3. shown'[d] = "finished" => pc'[d] \in {"post", "done"}
    BY <2>1 DEF Inv, Typed, StatusOfPlace, Before, FinishesInPlace
  <2>4. shown'[d] = "finished" =>
          \/ shown[d] = "finished"
          \/ shown[d] = "in_progress" /\ pc[d] = "complete"
    <3>1. \/ shown' = shown \/ shown' = [shown EXCEPT ![d] = "failed"]
          \/ shown[d] = "in_progress" /\ pc[d] = "complete"
      OBVIOUS
    <3>2. shown' = [shown EXCEPT ![d] = "failed"] => shown'[d] # "finished"
      BY DEF Inv, Typed
    <3>. QED  BY <3>1, <3>2
  <2>. QED  BY <2>1, <2>2, <2>3, <2>4
            DEF Rest, FinishesInPlace, OldAreListed, StandsAlone
<1>. QED  BY <1>1, <1>2, <1>3, OwnIsEnough

(* Who drops its own container has not finished. *)
LEMMA DropAlone ==
  ASSUME Inv, AloneInv, OnlyGrows, NEW d \in Updates,
         Discard(d) \/ Drop(d)
  PROVE  AloneInv'
<1>. USE DEF Discard, Drop, GoTo, Removed, settings, job, history
<1>1. AtWork(d)
  BY DEF AtWork, Ended
<1>2. Minds(d)
  BY DEF Inv, Typed, Minds, Exist
<1>3. ASSUME Quiet(d), QuietIsAlone(d)  PROVE Rest(d)'
  <2>1. shown'[d] \in {"failed", "cancelled"}
    BY <1>3 DEF Inv, StatusOfPlace, After, QuietIsAlone, FinishesInPlace
  <2>. QED  BY <2>1 DEF Rest, FinishesInPlace, OldAreListed, StandsAlone
<1>. QED  BY <1>1, <1>2, <1>3, OwnIsEnough

(* The row is written from outside of the job, or by what throws then.     *)
LEMMA OutsideAlone ==
  ASSUME Inv, AloneInv, OnlyGrows, NEW d \in Updates,
         CancelUpdate(d) \/ UpdateEffectsThrow(d)
  PROVE  AloneInv'
<1>. USE DEF CancelUpdate, UpdateEffectsThrow, GoTo, SetStatus, Throw, Late, InFailed,
             settings, job, history
<1>1. shown[d] = "in_progress" /\ pc[d] # "idle" /\ Exist' = Exist /\ todo' = todo
      /\ mode' = mode
  BY DEF Inv, StatusOfPlace, Exist
<1>2. \A e \in Updates \ {d} : shown'[e] = shown[e] /\ pc'[e] = pc[e]
  BY DEF Inv, Typed
<1>3. NobodyBegins
  BY <1>1, <1>2, WorkIsOne
<1>4. ASSUME NEW e \in Updates, Quiet(e), Quiet(e)', QuietIsAlone(e)  PROVE Rest(e)'
  <2>1. CASE e # d
    BY <1>1, <1>2, <1>4, <2>1
    DEF QuietIsAlone, Rest, FinishesInPlace, OldAreListed, StandsAlone
  <2>2. CASE e = d
    <3>1. shown'[d] = "finished" => pc[d] = "complete" /\ UpdateEffectsThrow(d)
      BY DEF Inv, Typed
    <3>2. shown'[d] = "finished" => d \in late'
      BY <3>1
    <3>3. shown'[d] # "finished" /\ shown'[d] # "in_progress"
      BY <1>4, <2>2, <3>2 DEF Quiet, Inv, Typed
    <3>. QED  BY <2>2, <3>3 DEF Rest, FinishesInPlace, OldAreListed, StandsAlone
  <2>. QED  BY <2>1, <2>2
<1>. QED  BY <1>3, <1>4, RestIsEnough

(* A container that settles stays where it is. *)
LEMMA SettleAlone ==
  ASSUME Inv, AloneInv, OnlyGrows,
         NEW v \in Versions, SettleContainer(v)
  PROVE  AloneInv'
<1>. USE DEF SettleContainer, settings, job, history
<1>1. Exist' = Exist
  BY DEF Inv, Typed, Exist
<1>2. NobodyBegins
  BY DEF NobodyBegins, BeginUpdate, GoTo, Inv, Typed
<1>. QED
  BY <1>1, <1>2, RestIsEnough
  DEF QuietIsAlone, Rest, FinishesInPlace, OldAreListed, StandsAlone

(* A restart makes late what had finished and was still at work.           *)
LEMMA RestartAlone ==
  ASSUME Inv, AloneInv, OnlyGrows, RollingRestart
  PROVE  AloneInv'
<1>. USE DEF RollingRestart, Late, settings
<1>1. ASSUME NEW d \in Updates  PROVE pc[d] = "idle" => pc'[d] = "idle"
  BY DEF AtWork
<1>2. NobodyBegins
  BY <1>1 DEF NobodyBegins, BeginUpdate, GoTo, Inv, Typed, UpdateSteps
<1>3. ASSUME NEW d \in Updates, Quiet(d), Quiet(d)', QuietIsAlone(d)  PROVE Rest(d)'
  <2>1. shown'[d] # "in_progress" /\ (shown'[d] = "finished" => shown[d] = "finished")
    OBVIOUS
  <2>2. Exist' = Exist
    BY DEF Exist
  <2>3. shown[d] = "finished" => pc[d] \in {"post", "done"} /\ Exist = {d}
    BY <1>3 DEF QuietIsAlone, FinishesInPlace, StandsAlone
  <2>4. pc[d] = "post" => d \in late'
    BY DEF AtWork, Ended, InFailed
  <2>5. shown[d] = "finished" => pc[d] = "done"
    BY <1>3, <2>3, <2>4 DEF Quiet
  <2>6. pc[d] = "done" => pc'[d] = "done"
    BY DEF AtWork, Ended
  <2>. QED  BY <2>1, <2>2, <2>3, <2>5, <2>6
            DEF Rest, FinishesInPlace, OldAreListed, StandsAlone
<1>. QED  BY <1>2, <1>3, RestIsEnough

LEMMA InitAlone ==
  ASSUME RollingInit
  PROVE  AloneInv
BY DEF RollingInit, AloneInv, Ordered, CancelIsTold, Cancelled, QuietIsAlone, Quiet, Newest

LEMMA StutterAlone ==
  ASSUME AloneInv, UNCHANGED rollingVars
  PROVE  AloneInv'
BY DEF AloneInv, Ordered, CancelIsTold, Cancelled, QuietIsAlone, Quiet, Newest, Forced,
       OthersAreOver, AtWork, Ended, FinishesInPlace, OldAreListed, StandsAlone, Exist,
       rollingVars, settings, job, history

LEMMA StepAlone ==
  ASSUME Inv, AloneInv, [RollingNext]_rollingVars
  PROVE  AloneInv'
<1>1. CASE UNCHANGED rollingVars  BY <1>1, StutterAlone
<1>2. CASE RollingNext
  <2>. OnlyGrows
    BY <1>2, StepOnlyGrows
  <2>1. CASE RollingRestart  BY <2>1, RestartAlone
  <2>2. CASE \E v \in Versions : SettleContainer(v)  BY <2>2, SettleAlone
  <2>3. ASSUME NEW d \in Updates, BeginUpdate(d)  PROVE AloneInv'  BY <2>3, BeginAlone
  <2>4. ASSUME NEW d \in Updates, Build(d) \/ StartContainer(d) \/ Check(d)
        PROVE  AloneInv'
    BY <2>4, UpdateAlone
  <2>5. ASSUME NEW d \in Updates, Up(d)  PROVE AloneInv'  BY <2>5, UpAlone
  <2>6. ASSUME NEW d \in Updates, List(d) \/ ListFails(d)  PROVE AloneInv'
    BY <2>6, ListAlone
  <2>7. ASSUME NEW d \in Updates, Remove(d) \/ RemoveFails(d)  PROVE AloneInv'
    BY <2>7, RemoveAlone
  <2>8. ASSUME NEW d \in Updates, Rollback(d) \/ Complete(d) \/ Post(d) \/ Failing(d)
        PROVE  AloneInv'
    BY <2>8, CloseAlone
  <2>9. ASSUME NEW d \in Updates, Discard(d) \/ Drop(d)  PROVE AloneInv'
    BY <2>9, DropAlone
  <2>10. ASSUME NEW d \in Updates, CancelUpdate(d) \/ UpdateEffectsThrow(d)
         PROVE  AloneInv'
    BY <2>10, OutsideAlone
  <2>11. ASSUME NEW d \in Updates, Struck(d)  PROVE AloneInv'  BY <2>11, StruckAlone
  <2>. QED
    BY <1>2, <2>1, <2>2, <2>3, <2>4, <2>5, <2>6, <2>7, <2>8, <2>9, <2>10, <2>11
    DEF RollingNext
<1>. QED  BY <1>1, <1>2

(* When a deployment has finished, its version runs and nothing else does, *)
(* whatever the deployments before it left behind: unless it failed after  *)
(* it had begun to remove old containers, was forced to run beside another *)
(* or could not reach the server, or a cancelled one was still at work     *)
(* when another began (next_queuable(), stop_running_container(),          *)
(* post_deployment()).                                                     *)
THEOREM TheFinishedStandsAlone == RollingSpec => []FinishedStandsAlone
<1>1. AloneInv => FinishedStandsAlone
  BY DEF AloneInv, QuietIsAlone, Quiet, StandsAlone, FinishedStandsAlone
<1>2. RollingInit => AloneInv
  BY InitAlone
<1>3. Inv /\ AloneInv /\ [RollingNext]_rollingVars => AloneInv'
  BY StepAlone
<1>. QED  BY <1>1, <1>2, <1>3, AlwaysInv, PTL DEF RollingSpec
====
