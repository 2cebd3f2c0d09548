----------------------------- MODULE AgentCall -----------------------------
(***************************************************************************)
(* What a delegation promises the workflow that asked for it: one answer,  *)
(* a verdict or an error; a completed verdict that hides no edit made with *)
(* an edit tool, and a refusal only where something was denied; and after  *)
(* the answer an agent that changes nothing more, unless its sandbox could *)
(* not be removed.  What a command or another tool changed no verdict      *)
(* tells.                                                                  *)
(***************************************************************************)
CONSTANT Paths

VARIABLES
  landed,   (* the paths the agent's edit tools changed                    *)
  unseen,   (* the paths it changed in another way                         *)
  denied,   (* whether its permission gate denied anything                 *)
  answer    (* what the workflow got                                       *)

vars == <<landed, unseen, denied, answer>>

NoAnswer == [kind |-> "none", edited |-> {}]

Init == landed = {} /\ unseen = {} /\ denied = FALSE /\ answer = NoAnswer

Work ==
  /\ answer.kind \in {"none", "SandboxError"}
  /\ landed' \in SUBSET Paths /\ landed \subseteq landed'
  /\ unseen' \in SUBSET Paths /\ unseen \subseteq unseen'
  /\ denied' \in BOOLEAN
  /\ denied => denied'
  /\ UNCHANGED answer

Returns ==
  /\ answer = NoAnswer
  /\ answer' \in [kind : {"completed", "refused", "failed"}, edited : SUBSET Paths]
  /\ answer'.kind = "completed" => landed \subseteq answer'.edited
  /\ answer'.kind = "refused" => denied
  /\ UNCHANGED <<landed, unseen, denied>>

Raises ==
  /\ answer = NoAnswer
  /\ answer' \in [kind : {"DelegationError", "SandboxError"}, edited : {{}}]
  /\ UNCHANGED <<landed, unseen, denied>>

Spec == Init /\ [][Work \/ Returns \/ Raises]_vars
=============================================================================
