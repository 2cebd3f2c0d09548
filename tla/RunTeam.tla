------------------------------- MODULE RunTeam -------------------------------
(***************************************************************************)
(* One run of the run_team workflow (team.py): several roles share one     *)
(* satay run, one journal and one checkout.  The roles are the numbers     *)
(* 1 .. NumRoles in the order of the "roles" input, their names distinct   *)
(* as cli.py requires.                                                     *)
(*                                                                         *)
(* satay is external and is modelled as in RunTask.  A round's delegations *)
(* run under satay.gather with return_exceptions, which commits a failure  *)
(* like a result; with kopicode and several active roles they run one      *)
(* after the other in a try that satay does not see, so that a failure     *)
(* commits nothing and replay runs the call again.                         *)
(***************************************************************************)
EXTENDS EpisodicEvents, Integers

CONSTANTS
  NumRoles,
  Steerable,    (* the team's "steerable" input                            *)
  Budget,       (* the team's "token_budget", in texts of one token        *)
  Faults,       (* which calls may fail: a subset of FaultKinds            *)
  MaxMessages,  (* bound: steering messages an operator sends              *)
  MaxCrashes    (* bound: crashes of the process                           *)

FaultKinds ==
  {"collected",  (* a delegation under gather raises                       *)
   "caught",     (* a delegation of the sequential loop raises             *)
   "llm",        (* the handover's LLM call raises                         *)
   "store"}      (* sqlite raises in a journal append or read              *)

ASSUME RunTeamAssumption ==
  /\ NumRoles \in Nat \ {0}
  /\ Steerable \in BOOLEAN
  /\ Budget \in Nat
  /\ Faults \subseteq FaultKinds
  /\ MaxMessages \in Nat
  /\ MaxCrashes \in Nat

Roles == 1 .. NumRoles

VARIABLES
  kopicode,  (* whether runtime_.agent_backend is "kopicode"               *)
  pc,        (* the durable call the body is waiting for                   *)
  site,      (* which of the three maybe_handover calls is being made      *)
  who,       (* the role the body's loops are at                           *)
  active,    (* active_names                                               *)
  next,      (* next_active                                                *)
  round,     (* each role's delegation round, from 1                       *)
  outcome,   (* what _dispatch_round has for each role, "none" before      *)
  final,     (* final_outcome, "none" where it has no entry                *)
  raw,       (* round_summaries                                            *)
  told,      (* current_text: the roles' rounds it tells of                *)
  window,    (* the seqs the handover in progress read                     *)
  msg,       (* steer_event: the steering message last consumed            *)
  run,       (* satay's row for the run                                    *)
  journal,   (* the team's rows of episodic.db                             *)
  inbox,     (* satay's inbox for each steering_key(team_id, role)         *)
  sent,      (* the role each accepted message was sent to                 *)
  running,   (* the roles whose backend is at work                         *)
  loose,     (* the roles whose delegation raised uncommitted, in order    *)
  redo,      (* the delegations replay has yet to run again                *)
  up,        (* whether a process is driving the run                       *)
  landed,    (* the append's row is there, its result is not committed     *)
  crashes,
  orphans    (* how many backends at work lost their process so far        *)

texts == <<raw, told>>
body == <<pc, site, who, active, next, round, outcome, final, window, msg>>
host == <<up, running, loose, redo>>
world == <<kopicode, run, journal, inbox, sent, crashes, orphans>>
vars == <<texts, body, host, landed, world>>

AppendCalls == {"submit", "write", "started", "outcome", "steer", "terminal"}
Calls == AppendCalls \cup {"read", "llm", "dispatch", "poll", "summary", "return"}

Event ==
  [kind : EventKinds, role : Roles, round : Nat, covers : SUBSET Nat,
   tells : SUBSET (Roles \X Nat), msg : Nat]

TypeOK ==
  /\ kopicode \in BOOLEAN
  /\ pc \in Calls /\ site \in {"start", "round", "end"}
  /\ who \in Roles /\ active \subseteq Roles /\ next \subseteq Roles
  /\ round \in [Roles -> Nat \ {0}]
  /\ outcome \in [Roles -> Verdicts \cup {"none", "error"}]
  /\ final \in [Roles -> Verdicts \cup {"none", "error"}]
  /\ raw \in [Roles -> SUBSET Nat] /\ told \in [Roles -> SUBSET (Roles \X Nat)]
  /\ window \subseteq DOMAIN journal /\ msg \in Nat
  /\ run \in {"running", "returned", "raised"}
  /\ journal \in Seq(Event)
  /\ inbox \in [Roles -> Seq(Nat)] /\ sent \in Seq(Roles)
  /\ running \subseteq Roles /\ loose \in Seq(Roles) /\ redo \in Seq(Roles)
  /\ up \in BOOLEAN /\ landed \in BOOLEAN
  /\ crashes \in 0 .. MaxCrashes /\ orphans \in Nat

Init ==
  /\ kopicode \in BOOLEAN
  /\ pc = "submit" /\ site = "start" /\ who = 1
  /\ active = Roles /\ next = {}
  /\ round = [r \in Roles |-> 1]
  /\ outcome = [r \in Roles |-> "none"] /\ final = [r \in Roles |-> "none"]
  /\ raw = [r \in Roles |-> {}] /\ told = [r \in Roles |-> {}]
  /\ window = {} /\ msg = 0
  /\ run = "running" /\ journal = <<>>
  /\ inbox = [r \in Roles |-> <<>>] /\ sent = <<>>
  /\ running = {} /\ loose = <<>> /\ redo = <<>>
  /\ up = TRUE /\ landed = FALSE /\ crashes = 0 /\ orphans = 0

-----------------------------------------------------------------------------
(* The body is driven, and replay has caught up with what was committed.   *)
Driving == up /\ run = "running" /\ redo = <<>>

Commit(call) == Driving /\ pc = call /\ landed /\ landed' = FALSE

(* The body's loops visit the roles of a list in the order of the input:   *)
(* First holds the one visited first.                                      *)
After(list) == {r \in list : r > who}
First(list) == {r \in list : \A q \in list : r <= q}

PendingKind ==
  CASE pc = "submit"   -> "TaskSubmitted"
    [] pc = "write"    -> "HandoverWritten"
    [] pc = "started"  -> "DelegationStarted"
    [] pc = "outcome"  -> OutcomeKind(outcome[who])
    [] pc = "steer"    -> "SteeringMessage"
    [] OTHER           -> IF final[who] = "completed" THEN "TaskCompleted" ELSE "TaskFailed"

(* The rounds the event's text tells of, as in RunTask.                    *)
TextTells ==
  CASE pc = "started" -> told[who]
    [] pc = "write"   -> UNION {journal[i].tells : i \in window}
    [] pc = "outcome" -> {<<who, round[who]>>}
    [] OTHER          -> {}

PendingEvent ==
  [kind |-> PendingKind, role |-> who, round |-> round[who],
   covers |-> IF pc = "write" THEN window ELSE {}, tells |-> TextTells,
   msg |-> IF pc = "steer" THEN msg ELSE 0]

AppendEvent ==
  /\ Driving /\ pc \in AppendCalls /\ ~landed
  /\ journal' = Append(journal, PendingEvent)
  /\ landed' = TRUE
  /\ UNCHANGED <<texts, body, host, kopicode, run, inbox, sent, crashes, orphans>>

(***************************************************************************)
(* Where the report loop goes after a role that is not (or is) steered:    *)
(* nx is next_active by then.                                              *)
(***************************************************************************)
(* Finalising with the roles of this round, while others are steered.      *)
NextReportEarly(nx) ==
  \/ /\ After(active) # {}
     /\ pc' = "outcome" /\ who' \in First(After(active))
     /\ next' = nx /\ UNCHANGED active
  \/ /\ After(active) = {} /\ nx = active
     /\ pc' = "started" /\ who' \in First(nx)
     /\ active' = nx /\ next' = {}
  \/ /\ After(active) = {} /\ nx # active
     /\ pc' = "terminal" /\ who' = 1
     /\ active' = {} /\ next' = {}

NextReport(nx) ==
  \/ /\ After(active) # {}
     /\ pc' = "outcome" /\ who' \in First(After(active))
     /\ next' = nx /\ UNCHANGED active
  \/ /\ After(active) = {} /\ nx # {}
     /\ pc' = "started" /\ who' \in First(nx)
     /\ active' = nx /\ next' = {}
  \/ /\ After(active) = {} /\ nx = {}
     /\ pc' = "terminal" /\ who' = 1
     /\ active' = {} /\ next' = {}

-----------------------------------------------------------------------------
(***************************************************************************)
(* maybe_handover, called for one role at three sites of the body.         *)
(***************************************************************************)
LeaveHandover(fired) ==
  \/ /\ site = "start" /\ After(Roles) # {}
     /\ pc' = "submit" /\ who' = who + 1
     /\ UNCHANGED <<site, active, next, raw>>
  \/ /\ site = "start" /\ After(Roles) = {}
     /\ pc' = "started" /\ who' = 1
     /\ UNCHANGED <<site, active, next, raw>>
  \/ /\ site = "round"
     /\ raw' = IF fired THEN [raw EXCEPT ![who] = {}] ELSE raw
     /\ IF Steerable THEN pc' = "poll" /\ UNCHANGED <<who, active, next>>
                     ELSE NextReport(next)
     /\ UNCHANGED site
  \/ /\ site = "end" /\ After(Roles) # {}
     /\ pc' = "terminal" /\ who' = who + 1
     /\ UNCHANGED <<site, active, next, raw>>
  \/ /\ site = "end" /\ After(Roles) = {}
     /\ pc' = "return"
     /\ UNCHANGED <<site, who, active, next, raw>>

(* read_episodic_events, then the budget check on the role's own window.   *)
ReadWindow ==
  /\ Driving /\ pc = "read"
  /\ \E n \in 0 .. Len(journal) :
       /\ IsLastHandover(journal, who, n)
       /\ window' = WindowAfter(journal, who, n)
  /\ \/ /\ OverBudget(window', Budget) /\ pc' = "llm"
        /\ UNCHANGED <<site, who, active, next, raw>>
     \/ ~OverBudget(window', Budget) /\ LeaveHandover(FALSE)
  /\ UNCHANGED <<told, round, outcome, final, msg, host, landed, world>>

CallLlm ==
  /\ Driving /\ pc = "llm" /\ pc' = "write"
  /\ UNCHANGED <<texts, site, who, active, next, round, outcome, final, window,
                 msg, host, landed, world>>

HandoverWritten ==
  /\ Commit("write")
  /\ LeaveHandover(TRUE)
  /\ UNCHANGED <<told, round, outcome, final, window, msg, host, world>>

-----------------------------------------------------------------------------
(***************************************************************************)
(* The body of run_team.                                                   *)
(***************************************************************************)
TaskSubmitted ==
  /\ Commit("submit")
  /\ pc' = "read" /\ site' = "start"
  /\ UNCHANGED <<texts, who, active, next, round, outcome, final, window, msg,
                 host, world>>

DelegationStarted ==
  /\ Commit("started")
  /\ IF After(active) # {}
     THEN who' \in First(After(active)) /\ UNCHANGED pc
     ELSE pc' = "dispatch" /\ UNCHANGED who
  /\ UNCHANGED <<texts, site, active, next, round, outcome, final, window, msg,
                 host, world>>

(* An off-by-one in the number of roles that may collide.                  *)
DispatchesTwo == kopicode /\ Cardinality(active) > 2

(* _needs_sequential_dispatch.                                             *)
Sequential == kopicode /\ \E a, b \in active : a # b

Unanswered == {r \in active : outcome[r] = "none"}

(* gather starts every call at once; the loop starts the first without an  *)
(* outcome.                                                                *)
InvokeBackend(r) ==
  /\ Driving /\ pc = "dispatch"
  /\ r \in Unanswered \ running
  /\ Sequential => running = {} /\ r \in First(Unanswered)
  /\ running' = running \cup {r}
  /\ UNCHANGED <<texts, body, up, loose, redo, landed, world>>

Answer(r, result) ==
  /\ Driving /\ pc = "dispatch" /\ r \in running
  /\ running' = running \ {r}
  /\ outcome' = [outcome EXCEPT ![r] = result]
  /\ IF Unanswered = {r} THEN pc' = "outcome" /\ who' \in First(active)
                         ELSE UNCHANGED <<pc, who>>
  /\ UNCHANGED <<texts, site, active, next, round, final, window, msg, up, redo,
                 landed, world>>

BackendReturns(r) ==
  /\ \E v \in Verdicts : Answer(r, v)
  /\ UNCHANGED loose

(* Any exception is collected; only gather's is committed.                 *)
BackendErrors(r) ==
  /\ (IF Sequential THEN "caught" ELSE "collected") \in Faults
  /\ Answer(r, "error")
  /\ loose' = IF Sequential THEN Append(loose, r) ELSE loose

(* The outcome is journaled and kept; an exception finalizes the role.     *)
DelegationReported ==
  /\ Commit("outcome")
  /\ final' = [final EXCEPT ![who] = outcome[who]]
  /\ IF outcome[who] = "error"
     THEN NextReport(next) /\ UNCHANGED site
     ELSE pc' = "read" /\ site' = "round" /\ UNCHANGED <<who, active, next>>
  /\ UNCHANGED <<texts, round, outcome, window, msg, host, world>>

(* One inbox for the whole team: another role's message wakes this poll.   *)
SteeringHitAny ==
  /\ Driving /\ pc = "poll"
  /\ \E r \in Roles :
       /\ inbox[r] # <<>>
       /\ msg' = Head(inbox[r]) /\ inbox' = [inbox EXCEPT ![r] = Tail(@)]
  /\ pc' = "steer"
  /\ UNCHANGED <<texts, site, who, active, next, round, outcome, final, window,
                 host, landed, kopicode, run, journal, sent, crashes, orphans>>

SteeringHit ==
  /\ Driving /\ pc = "poll" /\ inbox[who] # <<>>
  /\ msg' = Head(inbox[who]) /\ inbox' = [inbox EXCEPT ![who] = Tail(@)]
  /\ pc' = "steer"
  /\ UNCHANGED <<texts, site, who, active, next, round, outcome, final, window,
                 host, landed, kopicode, run, journal, sent, crashes, orphans>>

(* A timeout that polls again.                                             *)
MissPollsAgain ==
  Driving /\ pc = "poll" /\ inbox[who] = <<>> /\ UNCHANGED vars

(* None once the grace has passed with nothing queued: the role has its    *)
(* final outcome.                                                          *)
SteeringMiss ==
  /\ Driving /\ pc = "poll" /\ inbox[who] = <<>>
  /\ NextReport(next)
  /\ UNCHANGED <<texts, site, round, outcome, final, window, msg, host, landed, world>>

SteeringJournaled ==
  /\ Commit("steer")
  /\ raw' = [raw EXCEPT ![who] = @ \cup {round[who]}]
  /\ pc' = "summary"
  /\ UNCHANGED <<told, site, who, active, next, round, outcome, final, window,
                 msg, host, world>>

(* latest_handover_summary of any role.                                    *)
LatestOfAny(n) == IsLastOf(journal, {"HandoverWritten"}, n)

(* latest_handover_summary(team_id, role=name).                            *)
LatestOfRole(n) == IsLastHandover(journal, who, n)

ComposeRound ==
  /\ Driving /\ pc = "summary"
  /\ \E n \in 0 .. Len(journal) :
       /\ LatestOfRole(n)
       /\ told' = [told EXCEPT ![who] =
                     ({who} \X raw[who]) \cup IF n = 0 THEN {} ELSE journal[n].tells]
  /\ round' = [round EXCEPT ![who] = @ + 1]
  /\ outcome' = [outcome EXCEPT ![who] = "none"]
  /\ final' = [final EXCEPT ![who] = "none"]
  /\ NextReport(next \cup {who})
  /\ UNCHANGED <<raw, site, window, msg, host, landed, world>>

TaskEnded ==
  /\ Commit("terminal")
  /\ pc' = "read" /\ site' = "end"
  /\ UNCHANGED <<texts, who, active, next, round, outcome, final, window, msg,
                 host, world>>

Return ==
  /\ Driving /\ pc = "return"
  /\ run' = "returned"
  /\ UNCHANGED <<texts, body, host, landed, kopicode, journal, inbox, sent, crashes, orphans>>

(* What the body does not catch ends the whole team.                       *)
CallRaises ==
  /\ Driving
  /\ \/ "llm" \in Faults /\ pc = "llm"
     \/ "store" \in Faults /\ ~landed /\ pc \in AppendCalls \cup {"read", "summary"}
  /\ run' = "raised"
  /\ UNCHANGED <<texts, body, host, landed, kopicode, journal, inbox, sent, crashes, orphans>>

-----------------------------------------------------------------------------
(***************************************************************************)
(* Crash, resume and replay (external: satay).                             *)
(***************************************************************************)
(* The backends at work go on, on the same checkout, without anyone who    *)
(* waits for them, stops them or removes their sandbox.                    *)
CrashTo(call, results) ==
  /\ up /\ run = "running" /\ crashes < MaxCrashes
  /\ orphans' = orphans + Cardinality(running)
  /\ up' = FALSE /\ landed' = FALSE /\ running' = {}
  /\ redo' = loose
  /\ crashes' = crashes + 1
  /\ pc' = call /\ outcome' = results
  /\ UNCHANGED <<texts, site, who, active, next, round, final, window, msg, loose,
                 kopicode, run, journal, inbox, sent>>

(* The outcome a role's report is about had not been kept.                 *)
CrashLosesOutcome ==
  IF pc = "read" /\ site = "round"
  THEN CrashTo("dispatch", [outcome EXCEPT ![who] = "none"])
  ELSE CrashTo(pc, outcome)

Crash == CrashTo(pc, outcome)

(* satay.start with the run id of a run that is not terminal.              *)
Resume ==
  /\ ~up /\ run = "running"
  /\ up' = TRUE
  /\ UNCHANGED <<texts, body, running, loose, redo, landed, world>>

Replaying == up /\ run = "running" /\ redo # <<>>

InvokeAgain ==
  /\ Replaying /\ running = {}
  /\ running' = {Head(redo)}
  /\ UNCHANGED <<texts, body, up, loose, redo, landed, world>>

ErrorAgain ==
  /\ Replaying /\ running # {}
  /\ running' = {} /\ redo' = Tail(redo)
  /\ UNCHANGED <<texts, body, up, loose, landed, world>>

(* The list without its i-th entry.                                        *)
Without(list, i) == [k \in 1 .. Len(list) - 1 |-> list[IF k < i THEN k ELSE k + 1]]

(* It returns this time.  Before its report is committed the body takes    *)
(* the new outcome; afterwards the recorded journal call is another one,   *)
(* and strict nondeterminism checking fails the run.                       *)
ReturnsInstead ==
  /\ Replaying /\ running # {}
  /\ running' = {} /\ redo' = Tail(redo)
  /\ LET r == Head(redo) IN
       IF final[r] = "none"
       THEN /\ \E v \in Verdicts : outcome' = [outcome EXCEPT ![r] = v]
            /\ \E i \in DOMAIN loose : loose[i] = r /\ loose' = Without(loose, i)
            /\ UNCHANGED run
       ELSE run' = "raised" /\ UNCHANGED <<outcome, loose>>
  /\ UNCHANGED <<texts, pc, site, who, active, next, round, final, window, msg, up,
                 landed, kopicode, journal, inbox, sent, crashes, orphans>>

(* The operator: POST /runs/{team_id}/events with key team_id:role.        *)
SendSteering(r) ==
  /\ Steerable /\ up /\ run = "running" /\ Len(sent) < MaxMessages
  /\ sent' = Append(sent, r)
  /\ inbox' = [inbox EXCEPT ![r] = Append(@, Len(sent) + 1)]
  /\ UNCHANGED <<texts, body, host, landed, kopicode, run, journal, crashes, orphans>>

-----------------------------------------------------------------------------
Handover == ReadWindow \/ CallLlm \/ HandoverWritten

Body ==
  \/ AppendEvent \/ Handover
  \/ TaskSubmitted \/ DelegationStarted \/ DelegationReported
  \/ SteeringHit \/ SteeringMiss \/ SteeringJournaled \/ ComposeRound
  \/ TaskEnded \/ Return
  \/ \E r \in Roles : InvokeBackend(r)

Replay == InvokeAgain \/ ErrorAgain \/ ReturnsInstead

Next ==
  \/ Body \/ Replay \/ CallRaises \/ Crash \/ Resume
  \/ \E r \in Roles : BackendReturns(r) \/ BackendErrors(r) \/ SendSteering(r)

Spec == Init /\ [][Next]_vars

(* The event loop keeps driving a run that is up; nothing is assumed of    *)
(* the backends or of who resumes a run.                                   *)
FairSpec == Spec /\ WF_vars(Body \/ InvokeAgain)

-----------------------------------------------------------------------------
(***************************************************************************)
(* Safety.                                                                 *)
(***************************************************************************)
Seqs == DOMAIN journal

HandoversOf(r) == {i \in OwnSeqs(journal, r) : journal[i].kind = "HandoverWritten"}

(* Each role's handovers summarise its own events, every one of them once, *)
(* whatever the other roles journal in between (handover.py 99-112).  A    *)
(* handover repeated by a crash covers what its first row covers.          *)
RoleWindowsTile ==
  \A r \in Roles : \A h \in HandoversOf(r) :
    \E lo \in {0} \cup HandoversOf(r) :
      /\ lo < h
      /\ journal[h].covers = {i \in OwnSeqs(journal, r) \ HandoversOf(r) : lo < i /\ i < h}
      /\ \A g \in HandoversOf(r) : lo < g /\ g < h => journal[g] = journal[h]

(* When a role's delegation is started, its prompt tells of every round    *)
(* the role has had, however often its window was checkpointed, and of no  *)
(* other role's, although all share one journal (handover.py 143-160,      *)
(* team.py 254-281).                                                       *)
PromptIsOwnHistory ==
  pc \in {"started", "dispatch"} =>
    \A r \in active : told[r] = {r} \X (1 .. (round[r] - 1))

(* The kopicode sessions one process starts never overlap on the team's    *)
(* working tree, where kopicode's lock would refuse the second             *)
(* (QUESTIONS.md Q44, team.py 88-97), in the replay after a crash neither. *)
(* A session whose process was killed may still be at work beside the next *)
(* process's; there is at most one such for each crash.                    *)
OneKopicodeAtATime ==
  kopicode => (\A a, b \in running : a = b) /\ orphans <= crashes

(* An accepted message is queued for its role, being journaled or          *)
(* journaled under it: no other role's poll consumes it, and no crash and  *)
(* no round boundary loses it (team.py 258-281).                           *)
NoMessageLost ==
  \A m \in DOMAIN sent :
    \/ \E i \in DOMAIN inbox[sent[m]] : inbox[sent[m]][i] = m
    \/ \E i \in OwnSeqs(journal, sent[m]) : journal[i].msg = m
    \/ pc = "steer" /\ who = sent[m] /\ msg = m

IsLatest(log, r, n) ==
  /\ n = 0 \/ (n \in OwnSeqs(log, r) /\ log[n].kind \in LifecycleKinds)
  /\ \A i \in OwnSeqs(log, r) : i > n => log[i].kind \notin LifecycleKinds

Latest(log, r) == CHOOSE n \in 0 .. Len(log) : IsLatest(log, r, n)

LatestEvent(r) == journal[Latest(journal, r)]

Quiet(r) == Latest(journal, r) = 0

RoleStatus(r) == IF Quiet(r) THEN "queued" ELSE StatusOf(LatestEvent(r).kind)

(* Once the team returned, the status view and the result agree on every   *)
(* role, although a role's handover may follow its terminal event          *)
(* (status.py 29-34, team.py 285-306).                                     *)
ReturnedTeamIsExplained ==
  run = "returned" =>
    \A r \in Roles : RoleStatus(r) = IF final[r] = "completed" THEN "done" ELSE "failed"

(* A role's delegation whose outcome is in the journal is never invoked    *)
(* again, unless its exception was caught outside gather.                  *)
ReportedDelegationStands ==
  [][\A r \in running' \ running :
       \/ \E i \in DOMAIN loose : loose[i] = r
       \/ \A i \in OwnSeqs(journal, r) :
            journal[i].round = round[r] => journal[i].kind \notin OutcomeKinds]_vars

-----------------------------------------------------------------------------
(***************************************************************************)
(* Liveness.                                                               *)
(***************************************************************************)
(* If the process stays up, the team ends or a backend never answers: no   *)
(* role waits for another one that waits for it (team.py 194-283).         *)
TeamEnds == <>[]up => (<>(run # "running") \/ <>[](running # {}))

-----------------------------------------------------------------------------
(* What a reader of the journal makes of each role's latest event.         *)
phaseShown == [r \in Roles |-> IF Quiet(r) THEN "new" ELSE PhaseOf(LatestEvent(r).kind)]
roundShown == [r \in Roles |-> IF Quiet(r) THEN 0 ELSE LatestEvent(r).round]
verdictShown == [r \in Roles |-> IF Quiet(r) THEN "none" ELSE VerdictOf(LatestEvent(r).kind)]

Lifecycle == INSTANCE TeamLifecycle WITH
  phase <- phaseShown, round <- roundShown, verdict <- verdictShown

(* Read role by role, the shared journal goes through the lifecycle of a   *)
(* team (team.py 173-306, status.py 58-92).                                *)
JournalIsLifecycle == Lifecycle!Spec

=============================================================================
