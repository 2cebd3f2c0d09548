--------------------------- MODULE EpisodicEvents ---------------------------
(***************************************************************************)
(* The vocabulary of the episodic journal (episodic/events.py) and the     *)
(* pure reads the code makes of it: which events drive a status view       *)
(* (fleet/status.py) and which events one handover summarises              *)
(* (handover.py).  A journal is a sequence of records with at least the    *)
(* fields kind and role; the index of an event is its seq.                 *)
(***************************************************************************)
EXTENDS Naturals, Sequences, FiniteSets

(* events.py gives every payload of a plain run_task the role None.        *)
NoRole == "None"

Verdicts == {"completed", "refused", "failed"}

(* workflow.py 146-154: the event that reports a DelegationOutcome.        *)
OutcomeKind(verdict) ==
  CASE verdict = "completed" -> "DelegationCompleted"
    [] verdict = "refused"   -> "DelegationRefused"
    [] OTHER                 -> "DelegationFailed"

OutcomeKinds  == {"DelegationCompleted", "DelegationRefused", "DelegationFailed"}
TerminalKinds == {"TaskCompleted", "TaskFailed"}

(* A checkpoint taken for a transition.                                    *)
LifecycleOrHandover ==
  {"TaskSubmitted", "DelegationStarted", "HandoverWritten"}
    \cup OutcomeKinds \cup TerminalKinds

(* status.py _LIFECYCLE_TYPES: HandoverWritten and SteeringMessage are     *)
(* journaled, but are no lifecycle transition.                             *)
LifecycleKinds ==
  {"TaskSubmitted", "DelegationStarted"} \cup OutcomeKinds \cup TerminalKinds

EventKinds == LifecycleKinds \cup {"HandoverWritten", "SteeringMessage"}

-----------------------------------------------------------------------------
(* maybe_handover's filter: the seqs of the events tagged with role.       *)
OwnSeqs(journal, role) == {i \in DOMAIN journal : journal[i].role = role}

(* last_handover_seq: n is the seq of role's last HandoverWritten, or 0.   *)
IsLastHandover(journal, role, n) ==
  /\ \/ n = 0
     \/ n \in OwnSeqs(journal, role) /\ journal[n].kind = "HandoverWritten"
  /\ \A i \in OwnSeqs(journal, role) :
       i > n => journal[i].kind # "HandoverWritten"

(* An off-by-one at the window's lower end: the last handover itself is    *)
(* summarised again.                                                       *)
WindowFromHandover(journal, role, n) ==
  {i \in OwnSeqs(journal, role) : i >= n}

(* The roles of a team not told apart.                                     *)
WindowOfAll(journal, role, n) == {i \in DOMAIN journal : i > n}

(* The window one handover summarises: every event of role after the last  *)
(* handover.                                                               *)
WindowAfter(journal, role, n) == {i \in OwnSeqs(journal, role) : i > n}

(* Whether the window is summarised.  Every text of the model is short, so *)
(* estimate_tokens (len // 4, at least 1) counts each event of a window as *)
(* one token.                                                              *)
OverBudget(window, budget) == window # {} /\ Cardinality(window) >= budget

(* The last event of a kind of the set kinds, as every "latest wins" loop  *)
(* over the journal finds it: n is its seq, or 0.                          *)
IsLastOf(journal, kinds, n) ==
  /\ n = 0 \/ (n \in DOMAIN journal /\ journal[n].kind \in kinds)
  /\ \A i \in DOMAIN journal : i > n => journal[i].kind \notin kinds

LastOf(journal, kinds) ==
  CHOOSE n \in 0 .. Len(journal) : IsLastOf(journal, kinds, n)

-----------------------------------------------------------------------------
(* What a lifecycle event says of the task or role it is the latest of.    *)
PhaseOf(kind) ==
  CASE kind = "TaskSubmitted"     -> "queued"
    [] kind = "DelegationStarted" -> "working"
    [] kind \in TerminalKinds     -> "over"
    [] OTHER                      -> "reported"

VerdictOf(kind) ==
  CASE kind \in {"DelegationCompleted", "TaskCompleted"} -> "completed"
    [] kind = "DelegationRefused"                        -> "refused"
    [] kind \in {"DelegationFailed", "TaskFailed"}       -> "failed"
    [] OTHER                                             -> "none"

(* _status_from.                                                           *)
StatusOf(kind) ==
  CASE kind = "TaskSubmitted"                             -> "queued"
    [] kind = "TaskCompleted"                             -> "done"
    [] kind \in {"TaskFailed", "DelegationFailed"}        -> "failed"
    [] kind = "DelegationRefused"                         -> "blocked"
    [] OTHER                                              -> "working"
=============================================================================
