------------------------------- MODULE RunTask -------------------------------
(***************************************************************************)
(* One run of the run_task workflow (workflow.py), with maybe_handover     *)
(* (handover.py), the journal-append task (tasks/journal.py), the          *)
(* delegation task (tasks/delegate.py), the LLM task (tasks/llm.py) and    *)
(* the steering inbox, under satay's durable execution.                    *)
(*                                                                         *)
(* satay is external and is modelled from how this code and its tests use  *)
(* it: the workflow body runs from one durable call to the next; the       *)
(* result of a call that returned is committed and never recomputed; a     *)
(* crash loses what is not committed; starting the run id again replays    *)
(* the committed results and executes the first call without one.  A call  *)
(* that raised commits nothing (tests/integration/test_crash_recovery.py   *)
(* 24-30), so replay runs it again.                                        *)
(*                                                                         *)
(* The body's locals are therefore a function of the committed results:    *)
(* pc names the durable call the body waits for, and only landed, redo and *)
(* up belong to the process that can die.                                  *)
(***************************************************************************)
EXTENDS EpisodicEvents, Integers

CONSTANTS
  Steerable,    (* the task's "steerable" input                            *)
  Budget,       (* the task's "token_budget", in texts of one token        *)
  Faults,       (* which calls may fail: a subset of FaultKinds            *)
  MaxMessages,  (* bound: steering messages an operator sends              *)
  MaxCrashes    (* bound: crashes of the process                           *)

FaultKinds ==
  {"delegation_error",  (* the backend raises DelegationError              *)
   "sandbox",           (* the sandbox provider raises SandboxError        *)
   "llm",               (* the handover's LLM call raises                  *)
   "store"}             (* sqlite raises in a journal append or read       *)

ASSUME RunTaskAssumption ==
  /\ Steerable \in BOOLEAN
  /\ Budget \in Nat
  /\ Faults \subseteq FaultKinds
  /\ MaxMessages \in Nat
  /\ MaxCrashes \in Nat

VARIABLES
  pc,       (* the durable call the body is waiting for                    *)
  site,     (* which of the four maybe_handover calls is being made        *)
  round,    (* the delegation round, from 1                                *)
  outcome,  (* the last DelegationOutcome's kind, or "error"               *)
  raw,      (* round_summaries: the rounds whose outcome text it holds     *)
  told,     (* current_text: the rounds it tells of                        *)
  window,   (* the seqs the handover in progress read                      *)
  msg,      (* steer_event: the steering message last consumed             *)
  run,      (* satay's row for the run                                     *)
  journal,  (* the task's rows of episodic.db                              *)
  inbox,    (* satay's inbox for steering_key(task_id, None)               *)
  up,       (* whether a process is driving the run                        *)
  landed,   (* the call's effect happened, its result is not committed     *)
  redo,     (* replay is running a delegation that had raised once more    *)
  sent,     (* how many messages were accepted                             *)
  invoked,  (* backend invocations made for this round                     *)
  crashes

body == <<pc, site, round, outcome, raw, told, window, msg>>
host == <<up, landed, redo>>
vars == <<body, run, journal, inbox, host, sent, invoked, crashes>>

AppendCalls ==
  {"submit", "write", "started", "outcome", "dfail", "steer", "terminal"}
Calls == AppendCalls \cup {"read", "llm", "delegate", "poll", "summary", "return"}
Sites == {"start", "round", "end", "error"}

Event ==
  [kind : EventKinds, role : {NoRole}, round : Nat, covers : SUBSET Nat,
   tells : SUBSET Nat, msg : Nat]

TypeOK ==
  /\ pc \in Calls
  /\ site \in Sites
  /\ round \in Nat \ {0}
  /\ outcome \in Verdicts \cup {"none", "error"}
  /\ raw \in SUBSET Nat /\ told \in SUBSET Nat
  /\ window \subseteq DOMAIN journal
  /\ msg \in Nat
  /\ run \in {"running", "returned", "raised"}
  /\ journal \in Seq(Event)
  /\ inbox \in Seq(Nat)
  /\ up \in BOOLEAN /\ landed \in BOOLEAN /\ redo \in BOOLEAN
  /\ sent \in 0 .. MaxMessages
  /\ invoked \in Nat
  /\ crashes \in 0 .. MaxCrashes

Init ==
  /\ pc = "submit" /\ site = "start"
  /\ round = 1 /\ outcome = "none"
  /\ raw = {} /\ told = {}
  /\ window = {} /\ msg = 0
  /\ run = "running" /\ journal = <<>> /\ inbox = <<>>
  /\ up = TRUE /\ landed = FALSE /\ redo = FALSE
  /\ sent = 0 /\ invoked = 0 /\ crashes = 0

-----------------------------------------------------------------------------
(* The body is driven, and replay has caught up with what was committed.   *)
Driving == up /\ run = "running" /\ ~redo

(* A call's result is committed ...                                        *)
Commit(call) == Driving /\ pc = call /\ landed /\ landed' = FALSE

(* ... and the body goes on to its next call.                              *)
GoTo(call, at) ==
  /\ pc' = call /\ site' = at
  /\ UNCHANGED <<round, outcome, raw, told, window, msg, run, journal, inbox,
                 up, redo, sent, invoked, crashes>>

(***************************************************************************)
(* append_episodic_event: the row lands before satay records that the task *)
(* completed, and a crash in between leaves it there.                      *)
(***************************************************************************)
(* A refusal taken for a success.                                          *)
VerdictOfTaskLax == IF outcome = "failed" THEN "TaskFailed" ELSE "TaskCompleted"

VerdictOfTask == IF outcome = "completed" THEN "TaskCompleted" ELSE "TaskFailed"

PendingKind ==
  CASE pc = "submit"   -> "TaskSubmitted"
    [] pc = "write"    -> "HandoverWritten"
    [] pc = "started"  -> "DelegationStarted"
    [] pc = "outcome"  -> OutcomeKind(outcome)
    [] pc = "dfail"    -> "DelegationFailed"
    [] pc = "steer"    -> "SteeringMessage"
    [] OTHER           -> VerdictOfTask

(* DelegationStarted with the task's own text in place of current_text.    *)
TextTellsNothing ==
  CASE pc = "write" -> UNION {journal[i].tells : i \in window}
    [] pc \in {"outcome", "dfail"} -> {round}
    [] OTHER -> {}

(* The rounds the event's text tells of: the prompt of a delegation, the   *)
(* summary of a window, and the outcome of the round itself.               *)
TextTells ==
  CASE pc = "started" -> told
    [] pc = "write" -> UNION {journal[i].tells : i \in window}
    [] pc \in {"outcome", "dfail"} -> {round}
    [] OTHER -> {}

PendingEvent ==
  [kind |-> PendingKind, role |-> NoRole, round |-> round,
   covers |-> IF pc = "write" THEN window ELSE {}, tells |-> TextTells,
   msg |-> IF pc = "steer" THEN msg ELSE 0]

AppendEvent ==
  /\ Driving /\ pc \in AppendCalls /\ ~landed
  /\ journal' = Append(journal, PendingEvent)
  /\ landed' = TRUE
  /\ UNCHANGED <<body, run, inbox, up, redo, sent, invoked, crashes>>

(***************************************************************************)
(* maybe_handover, called at four sites of the body.                       *)
(***************************************************************************)
(* workflow.py 162-163.                                                    *)
RawAfter(fired) == IF fired THEN {} ELSE raw

LeaveHandover(fired) ==
  \/ /\ site = "start" /\ pc' = "started"
     /\ UNCHANGED <<site, raw>>
  \/ /\ site = "round" /\ Steerable
     /\ pc' = "poll" /\ raw' = RawAfter(fired)
     /\ UNCHANGED site
  \/ /\ site = "round" /\ ~Steerable
     /\ pc' = "read" /\ site' = "end" /\ raw' = RawAfter(fired)
  \/ /\ site \in {"end", "error"} /\ pc' = "terminal"
     /\ UNCHANGED <<site, raw>>

(* read_episodic_events, then the budget check on the window read.         *)
ReadWindow ==
  /\ Driving /\ pc = "read"
  /\ \E n \in 0 .. Len(journal) :
       /\ IsLastHandover(journal, NoRole, n)
       /\ window' = WindowAfter(journal, NoRole, n)
  /\ \/ /\ OverBudget(window', Budget) /\ pc' = "llm"
        /\ UNCHANGED <<site, raw>>
     \/ ~OverBudget(window', Budget) /\ LeaveHandover(FALSE)
  /\ UNCHANGED <<round, outcome, told, msg, run, journal, inbox, host,
                 sent, invoked, crashes>>

CallLlm == Driving /\ pc = "llm" /\ GoTo("write", site) /\ UNCHANGED landed

HandoverWritten ==
  /\ Commit("write")
  /\ LeaveHandover(TRUE)
  /\ UNCHANGED <<round, outcome, told, window, msg, run, journal, inbox, up,
                 redo, sent, invoked, crashes>>

-----------------------------------------------------------------------------
(***************************************************************************)
(* The body of run_task.                                                   *)
(***************************************************************************)
TaskSubmitted == Commit("submit") /\ GoTo("read", "start")

DelegationStarted == Commit("started") /\ GoTo("delegate", site)

InvokeBackend ==
  /\ Driving /\ pc = "delegate" /\ ~landed
  /\ landed' = TRUE /\ invoked' = invoked + 1
  /\ UNCHANGED <<body, run, journal, inbox, up, redo, sent, crashes>>

BackendReturns ==
  /\ Commit("delegate")
  /\ outcome' \in Verdicts /\ pc' = "outcome"
  /\ UNCHANGED <<site, round, raw, told, window, msg, run, journal, inbox,
                 up, redo, sent, invoked, crashes>>

(* except DelegationError: the exception is handled, its call commits      *)
(* nothing.                                                                *)
BackendErrors ==
  /\ "delegation_error" \in Faults
  /\ Commit("delegate")
  /\ outcome' = "error" /\ pc' = "dfail"
  /\ UNCHANGED <<site, round, raw, told, window, msg, run, journal, inbox,
                 up, redo, sent, invoked, crashes>>

DelegationReported == Commit("outcome") /\ GoTo("read", "round")

DelegationErrorReported == Commit("dfail") /\ GoTo("read", "error")

(* wait_for_event: one queued message, first in first out ...              *)
SteeringHit ==
  /\ Driving /\ pc = "poll" /\ inbox # <<>>
  /\ msg' = Head(inbox) /\ inbox' = Tail(inbox)
  /\ pc' = "steer"
  /\ UNCHANGED <<site, round, outcome, raw, told, window, run, journal, host,
                 sent, invoked, crashes>>

(* A timeout that polls again.                                             *)
MissPollsAgain ==
  Driving /\ pc = "poll" /\ inbox = <<>> /\ UNCHANGED vars

(* A timeout that wins over a message already queued.                      *)
MissFirst ==
  /\ Driving /\ pc = "poll"
  /\ GoTo("read", "end") /\ UNCHANGED landed

(* ... or None once the grace has passed with nothing queued.              *)
SteeringMiss ==
  /\ Driving /\ pc = "poll" /\ inbox = <<>>
  /\ GoTo("read", "end") /\ UNCHANGED landed

SteeringJournaled ==
  /\ Commit("steer")
  /\ raw' = raw \cup {round} /\ pc' = "summary"
  /\ UNCHANGED <<site, round, outcome, told, window, msg, run, journal, inbox,
                 up, redo, sent, invoked, crashes>>

(* latest_handover_summary and compose_steered_text.                       *)
ComposeRound ==
  /\ Driving /\ pc = "summary"
  /\ \E n \in 0 .. Len(journal) :
       /\ IsLastHandover(journal, NoRole, n)
       /\ told' = raw \cup IF n = 0 THEN {} ELSE journal[n].tells
  /\ round' = round + 1 /\ invoked' = 0 /\ pc' = "started"
  /\ UNCHANGED <<site, outcome, raw, window, msg, run, journal, inbox, host,
                 sent, crashes>>

(* The except branch without its return: the body goes on to report the    *)
(* delegation.                                                             *)
TaskEndedFallsThrough ==
  Commit("terminal") /\ GoTo(IF site = "error" THEN "outcome" ELSE "return", site)

TaskEnded == Commit("terminal") /\ GoTo("return", site)

Return ==
  /\ Driving /\ pc = "return"
  /\ run' = "returned"
  /\ UNCHANGED <<body, journal, inbox, host, sent, invoked, crashes>>

-----------------------------------------------------------------------------
(***************************************************************************)
(* What the body does not catch ends the workflow with                     *)
(* WorkflowFailedError.                                                    *)
(***************************************************************************)
CallRaises ==
  /\ up /\ run = "running"
  /\ \/ "llm" \in Faults /\ ~redo /\ pc = "llm"
     \/ "sandbox" \in Faults /\ (redo \/ pc = "delegate") /\ landed
     \/ /\ "store" \in Faults /\ ~redo /\ ~landed
        /\ pc \in AppendCalls \cup {"read", "summary"}
  /\ run' = "raised"
  /\ landed' = FALSE
  /\ UNCHANGED <<body, journal, inbox, up, redo, sent, invoked, crashes>>

(***************************************************************************)
(* Crash, resume and replay (external: satay).                             *)
(***************************************************************************)
(* The process dies; once resumed, the body will wait for call.            *)
CrashTo(call) ==
  /\ up /\ run = "running" /\ crashes < MaxCrashes
  /\ up' = FALSE /\ landed' = FALSE /\ redo' = (outcome = "error")
  /\ crashes' = crashes + 1
  /\ pc' = call
  /\ UNCHANGED <<site, round, outcome, raw, told, window, msg, run, journal,
                 inbox, sent, invoked>>

(* The outcome of a reported delegation had not been kept.                 *)
CrashLosesOutcome ==
  CrashTo(IF pc = "read" /\ site = "round" THEN "delegate" ELSE pc)

(* A steering message taken from the inbox had not been kept.              *)
CrashLosesMessage == CrashTo(IF pc = "steer" THEN "poll" ELSE pc)

Crash == CrashTo(pc)

(* satay.start with the run id of a run that is not terminal.              *)
Resume ==
  /\ ~up /\ run = "running"
  /\ up' = TRUE
  /\ UNCHANGED <<body, run, journal, inbox, landed, redo, sent, invoked, crashes>>

Replaying == up /\ run = "running" /\ redo

(* The delegation that raised has no committed result to replay.           *)
InvokeAgain ==
  /\ Replaying /\ ~landed
  /\ landed' = TRUE /\ invoked' = invoked + 1
  /\ UNCHANGED <<body, run, journal, inbox, up, redo, sent, crashes>>

(* It raises the same error: the calls after it replay.                    *)
ErrorAgain ==
  /\ Replaying /\ landed
  /\ landed' = FALSE /\ redo' = FALSE
  /\ UNCHANGED <<body, run, journal, inbox, up, sent, invoked, crashes>>

(* It returns this time.  While nothing after it is committed, the body    *)
(* takes the new outcome; afterwards the journal call replay expects is    *)
(* another one, and strict nondeterminism checking fails the run.          *)
ReturnsInstead ==
  /\ Replaying /\ landed
  /\ landed' = FALSE /\ redo' = FALSE
  /\ IF pc = "dfail"
     THEN /\ outcome' \in Verdicts /\ pc' = "outcome"
          /\ UNCHANGED run
     ELSE /\ run' = "raised"
          /\ UNCHANGED <<pc, outcome>>
  /\ UNCHANGED <<site, round, raw, told, window, msg, journal, inbox, up,
                 sent, invoked, crashes>>

(***************************************************************************)
(* The operator: POST /runs/{task_id}/events while the run is served.      *)
(***************************************************************************)
SendSteering ==
  /\ Steerable /\ up /\ run = "running" /\ sent < MaxMessages
  /\ sent' = sent + 1
  /\ inbox' = Append(inbox, sent + 1)
  /\ UNCHANGED <<body, run, journal, host, invoked, crashes>>

-----------------------------------------------------------------------------
Handover == ReadWindow \/ CallLlm \/ HandoverWritten

Body ==
  \/ AppendEvent \/ Handover
  \/ TaskSubmitted \/ DelegationStarted \/ InvokeBackend
  \/ DelegationReported \/ DelegationErrorReported
  \/ SteeringHit \/ SteeringMiss \/ SteeringJournaled \/ ComposeRound
  \/ TaskEnded \/ Return

Backend == BackendReturns \/ BackendErrors

Replay == InvokeAgain \/ ErrorAgain \/ ReturnsInstead

Next ==
  \/ Body \/ Backend \/ Replay \/ CallRaises
  \/ Crash \/ Resume \/ SendSteering

Spec == Init /\ [][Next]_vars

(* The event loop keeps driving a run that is up.  Nothing is assumed of   *)
(* the backend, which runs without a timeout, or of who resumes a run.     *)
FairSpec == Spec /\ WF_vars(Body \/ InvokeAgain)

-----------------------------------------------------------------------------
(***************************************************************************)
(* Safety.                                                                 *)
(***************************************************************************)
Seqs == DOMAIN journal

Reported(r) == {i \in Seqs : journal[i].round = r /\ journal[i].kind \in OutcomeKinds}

(* Once a terminal event is journaled, nothing but a copy of it is ever    *)
(* journaled after it, whatever crashes and replays happen (workflow.py    *)
(* 141-144, 185-197).                                                      *)
TerminalIsFinal ==
  \A i \in Seqs :
    journal[i].kind \in TerminalKinds => \A k \in i .. Len(journal) : journal[k] = journal[i]

(* A run that returned ends its journal with a terminal event, and that is *)
(* TaskCompleted exactly if the last delegation outcome journaled is       *)
(* DelegationCompleted: the result and what "show" prints agree.           *)
ReturnedRunIsExplained ==
  run = "returned" =>
    LET last == LastOf(journal, OutcomeKinds) IN
      /\ last # 0
      /\ journal[Len(journal)].kind =
           IF journal[last].kind = "DelegationCompleted" THEN "TaskCompleted"
                                                         ELSE "TaskFailed"

(* Each handover summarises the whole stretch between the handover before  *)
(* it and itself, so that every event before the last handover is in       *)
(* exactly one summary (handover.py 106-137).                              *)
HandoverWindowsTile ==
  LET handovers == {i \in Seqs : journal[i].kind = "HandoverWritten"} IN
    \A h \in handovers : \E first, last \in 1 .. h - 1 :
      /\ journal[h].covers = first .. last
      /\ first <= last /\ (first .. last) \cap handovers = {}
      /\ first = 1 \/ first - 1 \in handovers
      /\ (last + 1) .. h \subseteq handovers

(* No round is dropped from the working memory: the prompt of round n      *)
(* tells of every round before it, through a raw summary or through the    *)
(* last handover, however many handovers lie between: only that summary is *)
(* read back, and each one must have been given what the one before it     *)
(* told (handover.py 119-129, 143-160, workflow.py 156-181).               *)
NoRoundForgotten == pc = "started" => 1 .. (round - 1) \subseteq told

(* A message that was accepted is queued, being journaled or journaled: no *)
(* crash and no round boundary loses it, and messages are consumed in the  *)
(* order they were sent, one per round (workflow.py 168-183).              *)
NoMessageLost ==
  /\ \A m \in 1 .. sent :
       \/ \E i \in DOMAIN inbox : inbox[i] = m
       \/ \E i \in Seqs : journal[i].kind = "SteeringMessage" /\ journal[i].msg = m
       \/ pc = "steer" /\ msg = m
  /\ \A i \in Seqs : journal[i].kind = "SteeringMessage" => journal[i].msg = journal[i].round

(* A delegation whose outcome is in the journal is never invoked again     *)
(* (test_crash_recovery.py), unless it had raised DelegationError.         *)
ReportedDelegationStands ==
  [][invoked' > invoked => Reported(round) = {} \/ outcome = "error"]_vars

-----------------------------------------------------------------------------
(***************************************************************************)
(* Liveness.                                                               *)
(***************************************************************************)
AwaitingBackend == landed /\ (redo \/ pc = "delegate")

(* If the process stays up, the run ends or a backend never answers: the   *)
(* round loop, which polls again after each steered round, cannot run on   *)
(* by itself (workflow.py 110-183).                                        *)
RunEnds == <>[]up => (<>(run # "running") \/ <>[]AwaitingBackend)

(* A message queued before a round's outcome is journaled is not missed by *)
(* the poll that follows (steering.py 19-23): it is journaled and starts a *)
(* round, unless the run fails or a round ends in DelegationError.  The    *)
(* process stays up and backends answer.                                   *)
QueuedMessageIsServed ==
  <>[]up /\ []<>~AwaitingBackend =>
    \A m \in 1 .. MaxMessages :
      (pc = "delegate" /\ \E i \in DOMAIN inbox : inbox[i] = m)
        ~> \/ \E i \in Seqs : journal[i].kind = "SteeringMessage" /\ journal[i].msg = m
           \/ run = "raised" \/ outcome = "error"

-----------------------------------------------------------------------------
(***************************************************************************)
(* The journal as its readers see it implements TaskLifecycle.             *)
(***************************************************************************)
LastLifecycle == LastOf(journal, LifecycleKinds)

Lifecycle == INSTANCE TaskLifecycle WITH
  phase   <- IF LastLifecycle = 0 THEN "new" ELSE PhaseOf(journal[LastLifecycle].kind),
  round   <- IF LastLifecycle = 0 THEN 0 ELSE journal[LastLifecycle].round,
  verdict <- IF LastLifecycle = 0 THEN "none" ELSE VerdictOf(journal[LastLifecycle].kind)

(* Read by its latest lifecycle event, the journal goes through a legal    *)
(* task lifecycle, although rows are repeated, handovers and messages are  *)
(* interleaved and the process crashes (status.py 63-92).                  *)
JournalIsLifecycle == Lifecycle!Spec

-----------------------------------------------------------------------------
(***************************************************************************)
(* What the repository says of this code and the code does not do.         *)
(***************************************************************************)
(* "Caught, journaled as a typed episodic event" (QUESTIONS.md Q16): a run *)
(* that failed in a delegation says so in its journal.                     *)
FailedDelegationIsJournaled ==
  run = "raised" /\ pc = "delegate" => Reported(round) # {}
=============================================================================
