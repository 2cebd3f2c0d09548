---------------------------- MODULE TeamLifecycle ----------------------------
(***************************************************************************)
(* What the shared journal of a team promises a reader who looks at the    *)
(* latest lifecycle event of each role: every role is submitted before any *)
(* delegation starts, each then goes through its own rounds whatever the   *)
(* others do, and no role is over before the last round of every role is   *)
(* reported.                                                               *)
(***************************************************************************)
EXTENDS Naturals

CONSTANT Roles

VARIABLES phase, round, verdict   (* of each role, as in TaskLifecycle     *)

vars == <<phase, round, verdict>>

Init ==
  /\ phase = [r \in Roles |-> "new"]
  /\ round = [r \in Roles |-> 0]
  /\ verdict = [r \in Roles |-> "none"]

Submit(r) ==
  /\ phase[r] = "new"
  /\ phase' = [phase EXCEPT ![r] = "queued"]
  /\ round' = [round EXCEPT ![r] = 1]
  /\ UNCHANGED verdict

Start(r) ==
  /\ phase[r] \in {"queued", "reported"}
  /\ \A q \in Roles : phase[q] \notin {"new", "over"}
  /\ phase' = [phase EXCEPT ![r] = "working"]
  /\ round' = [round EXCEPT ![r] = IF phase[r] = "queued" THEN @ ELSE @ + 1]
  /\ verdict' = [verdict EXCEPT ![r] = "none"]

Report(r) ==
  /\ phase[r] = "working"
  /\ \A q \in Roles : phase[q] \in {"working", "reported"}
  /\ phase' = [phase EXCEPT ![r] = "reported"]
  /\ \E v \in {"completed", "refused", "failed"} : verdict' = [verdict EXCEPT ![r] = v]
  /\ UNCHANGED round

Finish(r) ==
  /\ phase[r] = "reported"
  /\ \A q \in Roles : phase[q] \in {"reported", "over"}
  /\ phase' = [phase EXCEPT ![r] = "over"]
  /\ verdict' = [verdict EXCEPT ![r] = IF @ = "completed" THEN "completed" ELSE "failed"]
  /\ UNCHANGED round

Next == \E r \in Roles : Submit(r) \/ Start(r) \/ Report(r) \/ Finish(r)

Spec == Init /\ [][Next]_vars
=============================================================================
