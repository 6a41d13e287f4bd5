-------------------------- MODULE MCDeploymentQueue --------------------------
(***************************************************************************)
(* Instances of DeploymentQueue for TLC.                                   *)
(***************************************************************************)
EXTENDS DeploymentQueue, TLC

CONSTANTS a, b,     \* two applications
          s, t,     \* two servers
          Capacity, \* concurrent_builds of every server
          Limit     \* deployment_queue_limit of every server

Plain(x, srv) ==
  [app |-> x, lane |-> 0, server |-> srv, commit |-> "HEAD",
   force |-> FALSE, instant |-> FALSE, only |-> FALSE]

(* A normal deployment and a preview of a, and a normal deployment of b.   *)
DeploysOneServer ==
  {Plain(a, s), [Plain(a, s) EXCEPT !.lane = 7], Plain(b, s)}

(* Two applications, one lane each. *)
DeploysTwoApps == {Plain(a, s), Plain(b, s)}

(* A normal deployment and a preview of a. *)
DeploysPreview == {Plain(a, s), [Plain(a, s) EXCEPT !.lane = 7]}

(* a on s, the same commit again with force_rebuild; b and a preview on t. *)
DeploysRacing ==
  {Plain(a, s), [Plain(a, s) EXCEPT !.force = TRUE],
   Plain(b, t), [Plain(b, t) EXCEPT !.lane = 7]}

(* a lives on s and is also deployed on t; b lives on t.                   *)
DeploysTwoServers ==
  {Plain(a, s), Plain(b, t),
   [Plain(a, t) EXCEPT !.instant = TRUE, !.only = TRUE]}

(* The same two servers, with a preview and without an instant deployment. *)
DeploysAll == {Plain(a, s), [Plain(a, s) EXCEPT !.lane = 7], Plain(b, t)}

HomeOneServer == [x \in Apps |-> s]
HomeTwoServers == [x \in Apps |-> IF x = a THEN s ELSE t]
NoExtra == [x \in Apps |-> {}]
ExtraForA == [x \in Apps |-> IF x = a THEN {t} ELSE {}]
Builds == [x \in Servers |-> Capacity]
OneMoreOnS == [x \in Servers |-> IF x = s THEN Capacity + 1 ELSE Capacity]
Limits == [x \in Servers |-> Limit]

(* Requests are interchangeable, and so are workers.                       *)
Interchangeable == Permutations(Requests) \cup Permutations(Workers)
=============================================================================
