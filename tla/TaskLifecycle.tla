---------------------------- MODULE TaskLifecycle ----------------------------
(***************************************************************************)
(* What the episodic journal of one task promises a reader who, like       *)
(* fleet/status.py, looks at its latest lifecycle event: the task is       *)
(* submitted, each round's delegation is started and then reported with    *)
(* one verdict, another round may follow a reported one, and the task ends *)
(* with the verdict of its last round.  No crash, no handover and no       *)
(* duplicated write is visible at this level.                              *)
(***************************************************************************)
EXTENDS Naturals

VARIABLES
  phase,    (* what the latest lifecycle event says of the task           *)
  round,    (* the delegation round that event belongs to                 *)
  verdict   (* how the round was reported, "none" before it is            *)

vars == <<phase, round, verdict>>

Init == phase = "new" /\ round = 0 /\ verdict = "none"

Submit ==
  /\ phase = "new"
  /\ phase' = "queued"
  /\ round' = 1
  /\ UNCHANGED verdict

Start ==
  /\ phase \in {"queued", "reported"}
  /\ phase' = "working"
  /\ round' = IF phase = "queued" THEN round ELSE round + 1
  /\ verdict' = "none"

Report ==
  /\ phase = "working"
  /\ phase' = "reported"
  /\ verdict' \in {"completed", "refused", "failed"}
  /\ UNCHANGED round

Finish ==
  /\ phase = "reported"
  /\ phase' = "over"
  /\ verdict' = IF verdict = "completed" THEN "completed" ELSE "failed"
  /\ UNCHANGED round

Next == Submit \/ Start \/ Report \/ Finish

Spec == Init /\ [][Next]_vars
=============================================================================
