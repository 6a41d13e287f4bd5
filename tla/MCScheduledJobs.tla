---------------------------- MODULE MCScheduledJobs ----------------------------
(***************************************************************************)
(* Instances of ScheduledJobs for TLC: a schedule that is due every two    *)
(* minutes, of any kind.                                                   *)
(***************************************************************************)
EXTENDS ScheduledJobs, TLC

EveryTwoMinutes == {t \in Minutes : t % 2 = 0}
AnyKind == {"backup", "task", "cleanup"}
Interchangeable == Permutations(Managers)
=============================================================================
