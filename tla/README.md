# A verification project for cuttlefish

cuttlefish runs coding agents on behalf of an operator. A *task* (one agent) or a *team*
(several roles) is a workflow under satay, a library of durable execution; what happened is
journaled in an episodic SQLite log, which the workflow, the command line and a dashboard read
back. This directory holds TLA+ modules of that system, TLC configurations that check them on
small instances, and theorems that TLAPS checks for every value of the constants. `src/` below is
`src/cuttlefish/` in the repository unless a path says otherwise.

    tlc -workers 2 -config RunTaskSafety.cfg RunTask      (every run: see "The runs")
    tlapm RunTaskProofs.tla                               (and every module named ...Proofs)

## 1. Inventory

### The parts, their state and their operations

| Part | Code | State | Operations |
|---|---|---|---|
| Task workflow | `workflow.py` | locals of `run_task`: round, `round_summaries`, `current_text`, `outcome` | the body, from `TaskSubmitted` through rounds of delegation to a terminal event |
| Team workflow | `team.py` | per role: round, `round_summaries`, `current_text`, `final_outcome`; `active_names` | `run_team`, `_dispatch_round` (gathered or sequential) |
| Durable tasks | `tasks/*.py` | none | `append_episodic_event`, `read_episodic_events`, `delegate_to_agent_backend`, `call_llm` |
| Handover | `handover.py` | none of its own: the last `HandoverWritten` in the journal | `maybe_handover`, `latest_handover_summary` |
| Episodic store | `episodic/store.py`, `events.py` | rows `(task_id, seq, ts, type, payload)` | `open`, `append`, `read`, `close` |
| Steering | `steering.py` | a pointer file per run; satay's inbox per `steering_key` | `write_`, `read_`, `remove_steering_pointer`, `send_steering_message`, `cancel_run`, `compose_steered_text` |
| Status view | `fleet/status.py` | none | `role_statuses`, `roles_in` |
| Fleet daemon | `fleet/daemon.py` | `_running`; last team of each project in the project store | `start`, `_launch_team`, `resume_pending`, `stop`, `steer`, `status`, `events` |
| Project store | `projects/store.py` | a row per project | `register`, `deregister`, `update_*`, `record_team_started`, `get`, `list` |
| HTTP surface | `fleet/server.py` | none | one route per daemon operation |
| Agent backends | `agents/*.py`, `delegate/*.py` | none between calls | `delegate`, two `classify_stream`s, policy files |
| Sandbox | `sandbox/*.py` | a container or an E2B sandbox | `create`, `exec`, `destroy` |
| Secrets | `secrets/store.py` | a table per root, a row per scope and name | `open`, `get`, `set`, `delete`, `list_names`, `resolve` |
| Redaction | `episodic/redact.py` | a list of values | `redact` |
| Configuration | `config.py`, `runtime.py` | a `ContextVar` of stores and providers | `prepare_run`, `close`, `configure`, `current` |
| Command line | `cli.py` | one run per process, its pointer file | `run`, `run-team`, `steer`, `show`, `secrets`, `projects`, `serve` |
| LLM providers | `llm/*.py` | none | `complete` |
| Dashboard | `frontend/` | a cache of the HTTP answers | polling |

### How they interact

A process (the CLI, or the daemon for a team) opens the stores, configures the runtime and starts
a workflow under a run id. The body makes *durable calls*: satay commits the result of a call that
returned, and a process that starts the same run id again replays committed results and executes
the first call that has none. The calls append to and read from `episodic.db`, run an agent
backend (perhaps in a sandbox) or an LLM. The operator, or the dashboard through the daemon, posts
steering messages into satay's inbox; the body consumes one per round with
`wait_for_event(key, timeout)`. Status views and `show` read `episodic.db` only.

### What is hard, and what makes each part correct

* **Replay.** A row lands in `episodic.db` before satay commits the call's result, so a crash in
  between repeats it; a call that raised commits nothing and is run again. Correct: the journal
  that readers see is still a task's lifecycle, its end is final, it agrees with the result, an
  accepted message survives, a reported delegation does not run again.
* **Working memory.** The next prompt is made of `round_summaries` and the last handover; the
  window of a handover is what was journaled since the last one. Correct: windows tile the
  journal and every prompt tells of every round before it.
* **Steering.** A poll has a timeout and messages arrive at any time; another process finds the
  run through a file, which outlives a killed one, at a port that others may take. Correct:
  consumed once, in order, by the run or the role they were sent to; what the operator is told
  is so.
* **Preparation.** Several stores are opened one after the other and an error may come at any
  of them; a daemon drives several runs in one process; secrets are read row by row while
  another terminal writes them. Correct: a run finds its own stores, open until it is over,
  its backend gets its project's values, and an accepted run keeps the secrets it declared.
* **Teams.** Roles share the journal and the working tree and go through their rounds
  independently. Correct: nothing of one role reaches another; the kopicode sessions of one
  process do not overlap; the loop stops and every role has one terminal event.
* **The store.** Several processes append statement by statement. Correct: numbering without
  gaps, atomic appends, no transaction left open.
* **Delegations.** The agent, its container or the exec that listens to it may end at any
  point, and what it prints is parsed line by line. Correct: the outcome names what the edit
  tools changed, a session recorded to its end is an outcome, nothing is left behind.
* **Partial failure.** A sandbox, an LLM, a store or a backend may fail at every call.
* **The daemon.** Requests for one project interleave at every `await`; a launch may fail before
  or after it is announced; a crash may come between launching a team and recording it.
  Correct: no two runs on one checkout, every live team within reach of stop and steer, every
  request answered, every recorded team taken up after a restart with the input it had.

`PROJECT.json` lists the components and every hazard at its line, with the properties that cover
it or the reason why none does yet.

## 2. The modules

| Module | Models | Specification it implements |
|---|---|---|
| `EpisodicEvents` | the events and the pure reads of a journal: windows, latest events, statuses | |
| `RunTask` | `run_task`, `maybe_handover`, the durable tasks, satay, the operator | `TaskLifecycle` |
| `RunTeam` | `run_team` likewise, for several roles | `TeamLifecycle` |
| `EpisodicStore` | `append` of several connections, statement by statement | `EpisodicLog` |
| `Delegation` | one `delegate()` of either backend, on the host or in a sandbox, and the two `classify_stream`s | `AgentCall` |
| `FleetDaemon` | the daemon's event loop, its registry, the project store, `resume_pending` | `TeamRuns` |
| `Steering` | pointer files, control APIs and their ports, `steer` of the CLI and of the daemon, the polls | |
| `PreparedRuns` | `prepare_run`, the runtime, the secrets store and its commands, `close` | |
| `MCPreparedRuns` | `PreparedRuns` with the symmetry TLC uses | |
| `RunTaskProofs`, `RunTaskHandoverProofs`, `RunTeamProofs`, `EpisodicStoreProofs`, `DelegationProofs`, `FleetDaemonProofs`, `SteeringProofs`, `PreparedRunsProofs` | the theorems | |

**From code to actions.** In `RunTask` and `RunTeam`, `pc` is the durable call the body waits for,
and each action is one durable call together with the code up to the next one, which no crash
can separate from it: the body's locals are a function of the committed results. A journal
append is two steps, `AppendEvent` (the row lands; `landed`) and the commit (`TaskSubmitted`,
`DelegationStarted`, `DelegationReported`, ...), because a crash between them is what repeats a row. A
delegation is two steps as well (`InvokeBackend`, then `BackendReturns` or `BackendErrors`).
`maybe_handover` is `ReadWindow`, `CallLlm`, `HandoverWritten`; `site` says which of its call sites is
active and `LeaveHandover` where the body goes from there. `Crash` forgets what is not
committed and `Resume` starts the run id again. What a killed process leaves
behind is not the resumed one's: its agent may still be at work, which no later step of the workflow sees (`orphans` in
`RunTeam` counts them). A call that raised and was handled by the body
(`DelegationError`; an exception of the sequential loop) has no result: `redo` makes replay run it
again, with `ErrorAgain` or `ReturnsInstead`. `CallRaises` is every exception the body does not catch.

**What is abstracted.** A text is the set of rounds it tells of (`tells`, `told`): an outcome's reason of
its own round, a prompt of its raw summaries' rounds and of what the last handover tells, a
summary of whatever the events of its window tell. That a summary keeps what it was given
is the LLM's part and is assumed. Every text is short, so a window costs one token per event
(`max(1, len // 4)`), and `Budget` counts events. Names, timestamps, the reasons of a verdict and the
wire form of events are left out. satay and SQLite are external and are modelled from how this
code and its tests use them; the comment at the top of each module says what is assumed.

**The store.** One action per SQL statement, per connection. Whether `PRAGMA journal_mode=WAL`
took is chosen at the start (`wal`): the code does not read its answer. `SelectMax` picks the
maximum by what characterises it (`IsMaxSeq`), so that the module can be proved about.

**A delegation.** `pc` is where the coroutine stands, from `Begin` (kopicode's policy file) through `Create`,
`Spawn` and `AwaitReturns` to the two finally clauses `Destroy` and `Unlink`. Meanwhile the agent acts: each of its
actions changes files (`landed`, `denied`) and prints what that agent prints of it, so the verdict
`Classify` reads from `stream` can be compared with what happened. `KopicodeReads` and `ClaudeReads` are the bodies of the two
loops, folded over the stream by a recursive function, and the two `...Verdict`s are the returns in
their order. A line that is no JSON, or JSON but no object, makes the parser raise wherever it stands, also when the
session's end is in the stream: `Garble` prints one and `Reads` remembers it (`broken`). Only the tools the classifiers name
count as edit tools (`flag`); what a command or another tool changes (`UseOther`) goes to `unseen` and is in no verdict, as
in the code. `ContainerSandboxProvider.exec` takes every exit code but zero with "No such container" in its stderr for a missing
container, and stderr is the agent's too: `missing` says that it does, and may become true with any end of
the exec, whatever became of the container. E2B refuses mounts and both backends always mount the root, so under `e2b`
`CreateRaises` is all there is. No caller passes a timeout, so none expires. `RunTask` and `RunTeam` take a delegation
as `InvokeBackend` and one of its endings: a verdict, a `DelegationError`, or the `SandboxError` neither workflow catches.
What allows them to is `AgentCall`, which `Delegation` implements: there is one answer, and no edit lands after
it, unless it was the `SandboxError` that ends the workflow.

**The daemon.** One process is one event loop, so what stands between two awaits is one action.
A launch is `Start` or `ResumeLaunches` (up to `await ready`), then the `_drive` task's `RunAppOpens` or
`OpeningFails`, `SatayStart`, and `RunEnds` or `DriveRaises`, while the request goes on with `Started`, `StartFailed`,
`Resumed` or `ResumeFailed` whenever the loop comes to it. `call[t]` is the `ready` future, `drive[t]` the task,
`running` is `FleetDaemon._running`, `last` the two columns `record_team_started` writes; `row` and `rowInput` are satay's
run row. Two projects may be registered on one checkout (nothing refuses that), and what keeps
their teams apart is the lock `run_app` takes on its data directory, an assumption about satay that
ADR-0010 (finding 4) records. `Update` stands for both `update_roles` and `update_allow`: an input is the
version of what it was composed from. The daemon and `RunTeam` meet in one place: a team between `SatayStart`
and `RunEnds` is a run of `RunTeam`, and `Crash` is that module's `Crash`.

**Steering.** `phase[r]` is how far the process that drives run `r` has come, in the order of `_run` and
`_run_team` (announce, create and write the pointer, start, remove it, close the control API) or of the
daemon's `_drive`, whose teams are looked up in `entered` (`FleetDaemon._running`) instead of a file. A client is one
`steer` command or request: `Steer`, `LookUp`, `Post`, then `Respond` or `ResponseLost`; the control API has taken the message or not
when the answer is lost. A port may be taken by another run as soon as nobody listens there, but
its token is that run's. The pointer's write stands before the `try` whose `finally` removes it, and either may raise: `PointerRaises` leaves
the control API with the file as it is. `StartRaises` is an exception of `satay.start`, inside the `try`. The workflows are reduced to the keys they will poll again (`polls`): `PollMiss`
is the timeout after which a role, or the task, is not polled any more. `RunTask` and `RunTeam` have the same
polls with everything between them, and there a message is sent only while the run is up: `Steering` is
where it comes from.

**Preparation.** `phase[p]` follows `prepare_run` and then the run of project `p`. `resolve` is taken apart into its gets:
`lookups` holds those not made yet, a name's shared scope after its own, and `SetSecret` and `DeleteSecret`, committed by
another process, may come between any two. The names are read in any order, which contains the
sorted one. A row remembers the key it was encrypted under: `GetFinds` needs the same one. `GetRaises` is Fernet's
`InvalidToken` and every error SQLite may raise on a get; it ends `prepare_run`, or fails one delegation, which ends a task and leaves
a team to its other roles. `SecretsStoreRaises`, `SecretsKeyRaises` and `EpisodicStoreRaises` are the errors of opening,
`AllowRaises` the `ValueError` of `shlex.split`, between `prepare_run` and the `try` of the command. `context[p]` is the runtime the `ContextVar` shows to the tasks of `p`. `been` and `deleted` are history
variables: what each row has been since a resolve began, and what was deleted since the run was
prepared. A store left open by an error nobody expects is `dropped`; the model says where that happens and no
property calls it right (section 6).

**The abstract specifications** say what a reader of the journal may rely on. `TaskLifecycle` is
the life of a task as its latest lifecycle event tells it; the mapping is `LastOf(journal,
LifecycleKinds)`, the read `fleet/status.py` makes. `TeamLifecycle` is that role by role, with what ties
the roles together: nothing starts before every role was submitted, none is over before every
role's last round is reported. `EpisodicLog` is a log with an atomic append. `TeamRuns` is what the
fleet's runs may do: begin once on one checkout, be interrupted and taken up again, end at most once
and for good, never two on one checkout. `AgentCall` is what a delegation promises the workflow that asked
for it: the agent works, then one answer is given, a completed verdict hides no edit of an edit tool, a refusal needs a
denial, and after the answer nothing changes any more, by whatever tool, unless its sandbox could not be removed.

## 3. The runs

| Run | Question | Bounds |
|---|---|---|
| `RunTaskSafety` | is the journal's end final and does it explain the result, do windows tile, does every prompt tell of every round, are messages kept, do reported delegations stand | budget 3, every fault, 2 messages, 2 crashes |
| `RunTaskLifecycle` | does the journal implement `TaskLifecycle`; does the run end; is a queued message served | budget 7, 2 messages, 1 crash, every fault but `DelegationError` |
| `RunTeamSafety` | do windows, prompts and messages stay with their role, do the kopicode sessions of one process overlap, does the status view explain the result | 2 roles, either backend, budget 4, every fault, 2 messages, 1 crash |
| `RunTeamLifecycle` | does the shared journal implement `TeamLifecycle`; does the team end | 2 roles, either backend, budget 3, gathered exceptions and failing LLM calls (no exception of the sequential loop, no fault of the store), 1 message, 1 crash |
| `EpisodicStore` | numbering, atomicity, no transaction left open, every append ends | 3 connections, 2 tasks, 3 appends, WAL or not |
| `Fleet` | do the teams' runs implement `TeamRuns`; can every live team be reached; does a restart take up what was recorded, unchanged; is every launch answered | 2 projects, 2 checkouts, 2 teams, 1 crash, one update of each project |
| `Steering` | is what the operator is told true; whose is a pointer; is every steer answered | 2 runs of any kind, 2 ports, 1 client, 2 role names, 1 kill |
| `PreparedRuns` (of `MCPreparedRuns`) | whose secrets does a backend get; does an accepted run keep the declared ones; does a run find its own open runtime | 2 projects, 1 name that is declared, ambient or both, 2 values, 2 keys, 3 writes |
| `Delegation` | do outcomes report what the edit tools changed; is a recorded session an outcome; is anything left behind; does it implement `AgentCall`; does the call end | both backends, 3 sandboxes, 2 paths, nothing new after 3 events |
| `RunTaskSandbox`, `DelegationRefused`, `FleetLost` | one finding each, see section 6 | as small as the finding allows |

**Why these bounds are enough.** Two messages give three rounds: one before, at and after a
handover, which is when the clear and the append of `round_summaries` matter. A budget of 3
makes a handover fire after almost every round, one of 7 after some rounds and not others, which
is when a round must survive in `round_summaries`; 4 does both for teams, where two roles
share the journal and each counts its own events. Two crashes allow one
during a replay caused by the other. With two roles every order of reports, polls and
finalisations of "this role" and "another role" occurs, both stay, leave together or leave
one by one. Two connections make a race for the lock and a third one a bystander who must not
be locked out; two tasks make numbering per task matter. Two teams are two starts that
race for one project, or one each for two projects, on one checkout or on two; the one
crash can fall anywhere between a launch and its record. The counters the constants bound
(messages, crashes, appends, teams) only bound the environment; nothing in the code is cut short.
Two runs are one that dies and one that takes its port, of the same kind or not, and one
client may steer either with a role it has, one it lacks or none; one name suffices for secrets, because
names do not share rows, and three writes are enough to replace a value in both scopes and
delete one while a single resolve reads them. Values, keys and projects are interchangeable there, hence
the symmetry, and the run checks no liveness.
With `MaxEvents` = 3 the agent begins nothing new after three events: a call it is in may still print its result, and the
session its end. That is two whole-file writes of which either may fail or be denied, or one beside an edit, a
denial, a command or a malformed line. `RunTaskLifecycle` leaves out `DelegationError`: a call that raised has no committed result, so a resume
after a handled one invokes the backend again, and if that succeeds a journaled failure goes on
and satay's nondeterminism policy fails the run. No statement of the repository decides what
should happen then; `RunTaskSafety` covers these runs.

**Deadlock** is not checked: a run that returned or raised, a store nobody calls any more, and a
daemon whose projects are gone and whose bounds are used up, stop.

**Fairness.** `RunTask` and `RunTeam`: `WF_vars(Body \/ InvokeAgain)`, one weak fairness for
everything asyncio's event loop and satay do while a process is up. A journal append, a poll
with a timeout and an LLM call complete or raise; the code gives none of them a way to
wait without end. Nothing is assumed of the agent backend, which runs without a timeout
(`tasks/delegate.py` 39-62), nor of `Resume`, which an operator does. Hence the form of `RunEnds` and
`TeamEnds`: if the process stays up, the run ends *or* a backend never answers.
`EpisodicStore`: `WF_vars(Progress(c))` for each connection, because `append` is synchronous code in its
process, and `Close` (the process may die) is always possible.
`Delegation`: `WF_vars(Progress)`, the coroutine whenever it does not wait for the agent; an agent may never answer.
`FleetDaemon`: `WF_vars(Opening(t))` and `WF_vars(Answer(t))` for each team: the event loop runs a task that can go on,
and opening a run either succeeds or raises (the lock is refused, never waited for). Nothing is
assumed of how long a team works, nor that anyone starts or serves anything.

`Steering`: `WF_vars(Client(c))` for each client. Its lookup is a read of a file or of a dictionary, its POST has a
timeout of ten seconds, and its process, or the daemon's thread, does nothing else. Nothing is
assumed of the runs. `PreparedRuns` states no fairness.

**Mutants.** Each property of a passing run has a plausible bug in the modelled code that breaks
it. Most stand in the modules as a definition with a comment, next to the one they would
replace (`WindowFromHandover`, `NextReportEarly`, `NoRollback`, ...); no specification uses them.

## 4. What is proved

`RunTaskProofs` and `RunTaskHandoverProofs`, for every budget, set of faults, number of messages and crashes:

* `TypeCorrect`: `Spec => []TypeOK`; every other module of proofs has it too.
* `TerminalEventIsFinal`: `Spec => []TerminalIsFinal`. The property is not inductive: it says
  nothing of where the body is. `TerminalInv` adds that a terminal event in the journal puts the
  body in its last calls with a fixed outcome (`Ending`), so that only the same event, the one
  `PendingEvent` would write, can be appended again.
* `ReportedStands`: `Spec => ReportedDelegationStands`, an action property. `ReportInv` says that outcomes in the
  journal belong to rounds up to this one, to earlier ones only while this round is unreported,
  and that replay runs a delegation again only after a `DelegationError`.
* `MessagesSurvive`: `Spec => []NoMessageLost`. `MessageInv` ties the inbox, the journal and the counter
  together: messages were consumed one per round, the inbox holds exactly the numbers from
  there to `sent` in order, and all earlier ones are journaled.
* `ReturnedIsExplained`: `Spec => []ReturnedRunIsExplained`. `ExplainInv` says that from a report's commit on the last outcome
  journaled is the body's, whatever a crash made it journal before, and what stands at the end of the journal.
* `JournalImplementsLifecycle`: `Spec => JournalIsLifecycle`, the refinement of `TaskLifecycle`, under the assumption that
  `DelegationError` is not among the faults (section 3, the bounds). `LifeInv` reads the latest lifecycle event off `pc`; each
  append is a step of the abstract task or, when it repeats a row, a stutter.
* `InvocationsPaid`: `Spec => []InvocationsArePaid`, which says `invoked <= crashes + 1`: a round's delegation runs once and
  once more for each crash at most. `PaidInv` says that nothing was invoked before the round's delegation is asked for,
  that whenever it is about to be invoked each invocation so far was lost to a crash, and that an
  `outcome` of `"error"` keeps the body in its last calls (`Failing`), where replay may run the delegation again.
  No run lists it: TLC checked `PaidInv` on the instance of `RunTaskSafety`.
* `NoRoundIsForgotten`: `Spec => []NoRoundForgotten`. What a prompt must tell travels through the journal, so `MemoryInv` follows
  it: while a round is under way its `DelegationStarted` and then its outcome lie behind the last handover
  (`StartInv`, `OutcomeInv`), the window read for the round's handover tells of every round so far (`WindowInv`), so does
  the handover once written (`WrittenInv`), and at a round's end the raw summaries and the last
  handover together do (`CoverInv`).
* `WindowsTile`: `Spec => []HandoverWindowsTile`. `TileInv` adds that the window read would still tile if its handover
  were journaled now, which copies of that handover do not change.

`RunTeamProofs`, for every number of roles, budget, set of faults, messages and crashes: the same for a team, where each
fact is one of each role and an event of another role must be shown to leave it alone.

* `OneKopicode` (`OneKopicodeAtATime`): the sessions of one process never overlap, and those that outlived a killed one are at
  most one for each crash. `OrphanInv` counts them; `RunningInv`: a backend at work belongs to a delegation without an outcome, or it is
  the one that replay runs again, which are never both.
* `NoMessageIsLost` (`NoMessageLost`): `MessageInv`, the message in the body's hands is of the role the loop is at and is journaled before the loop goes on.
* `ReportedStands` (`ReportedDelegationStands`): `SiteInv` and `VisitInv` say how far the loop over the roles has come and which of them
  stay active, `ReportInv` which rounds of a role may be reported, `LooseInv` that only an exception caught
  outside gather leaves a reported delegation without a result.
* `PromptsAreOwn` (`PromptIsOwnHistory`): `MemoryInv`, as for a task, and `OwnInv`: what a role's events tell is of that role.
* `RoleWindows` (`RoleWindowsTile`), with `TileInv`, and `ReturnedIsExplained` (`ReturnedTeamIsExplained`), with `EndInv`: a role's latest lifecycle event
  is its terminal event from its commit on, although handovers and the other roles' events follow.
* `JournalImplementsLifecycle`: `Spec => JournalIsLifecycle`, the refinement of `TeamLifecycle`, as long as no exception is
  caught outside gather (`"caught"`, whose replay may differ as a `DelegationError`'s does). `LifeInv` says what the journal last shows of each
  role at each place of the four loops (`SubmitShows`, `StartShows`, `ReportShows`, `EndShows`); the abstract
  guards that range over all roles follow from it.

Each invariant is proved from `TypeOK` and itself, one lemma per action or group of actions
that disturbs it; the temporal step combines them with PTL.

`EpisodicStoreProofs`, for any connections, tasks and number of appends: `TypeCorrect`, `Contiguous`
(`SeqsContiguous`), `TxEnds` (`NoTxOutlivesItsAppend`) and `StoreImplementsLog` (`Spec => ImplementsLog`, the refinement). The
invariant is a conjunction of named parts: `LockInv` (a connection past BEGIN holds the lock),
`DirtyInv` and `FreeInv` (what the open transaction holds at each step), `NumberInv` (committed and
dirty rows together are numbered without a gap), `TxInv`, `ReturnInv` (what append returns is
committed) and `EventInv` (an event has at most one row). `NumberInv` is the reason why the lock
must be taken before `MAX(seq)` is read.

`DelegationProofs`, for any paths and sessions of any length:

* `LeavesNothing` (`NothingLeftBehind`). The invariant says that a sandbox or a working agent is on its way through the
  finally clauses (`LiveInv`), that nothing exists before its step (`EarlyInv`) and that only a container is
  ever destroyed (`BoxInv`). It does not depend on how a stream is read; the rest does.
* `Read` folds a classifier's loop over the stream by a recursive function. `ReadingExists` and `ReadingsAgree` show that
  there is exactly one such reading, each by the least length at which it could fail (`LeastNumber`, from the
  well-foundedness of `<`), since the provers have no induction rule. From them `ReadEmpty` and `ReadAppend`: reading one more
  event is one more step of the loop. That is all the invariants need, and `TypeCorrect` follows.
* `KopicodeEdits` (`KopicodeReportsItsEdits`), `RecordedIsOutcome` (`RecordedSessionIsNoError`: an error comes of a stream without an end or with
  a malformed line, of a missing binary, or of a failed exec that speaks of a missing container) and `RefusalsAreDenials`: a verdict is a refusal
  exactly if something was denied and, under kopicode, nothing landed. For Claude Code the second half is missing, which
  is finding 2. `KopicodeInv` and `ClaudeInv` tie what was read so far to what happened, `PendingInv` the call the
  classifier holds back to the one the agent is in, `OpenInv` says that the event that ends a session is its
  last; `ResultInv` is what all this makes of `result`.
* `Implementation` (`Spec => ImplementsAgentCall`, the refinement). It needs `CompletedHidesNoEdit`, that a verdict
  comes from an agent that has ended (`ResultInv`), and that an agent outlives its call only behind a `SandboxError`.

`FleetDaemonProofs`, for any projects, checkouts, teams and crashes: `Reachability` (`LiveTeamsAreReachable`), `IdenticalResume` (`ResumeIsIdentical`), `NoneLeftBehind`
(`NoTeamLeftBehind`) and `Implementation` (`Spec => ImplementsTeamRuns`, the refinement). `LaunchInv` ties a team's `ready` future, its task and its
request together, `OwnerInv` says whose team a project's entry is, `LockInv` that at most one task holds a checkout,
`InputInv` that a recorded team was recorded with the input satay holds, `ReachInv` that a team at work is in the registry
or still being launched, `ResumeInv` what `resume_pending` has done so far. The refinement needs `LockInv` for
"never two on one checkout" and `InputInv` for "taken up with its own input".

`SteeringProofs`, for any runs, ports, clients and kills: `TrueAnswers` (`AnswersAreTrue`) and `PointersTrack` (`PointerTracksRun`, which excepts
a process that was killed or could not write or remove its pointer). `AnswersAreTrue` needs that a message is in no inbox before its client posts and only in the one of
the run it names afterwards; `PointerTracksRun` needs in which phases the pointer is absent, empty or whole.

`PreparedRunsProofs`, for any projects, names, scopes' contents and writers: `OwnRuntime` (`RunHasItsOwnRuntime`),
`DeclaredSecrets` (`AcceptedRunHasItsSecrets`) and `ProjectSecrets` (`SecretsAreTheProjects`). `RuntimeInv` says which store is open in which phase and that a
delegation reads its own root; `PresenceInv` that a declared name, once accepted, is in one of its scopes
or was deleted; `ReadInv` that what a resolve found, and what it missed, was so at some moment since it began.

The proofs assume the constants' typing and distinctness (the module's `...Assumption`) and nothing else; TLC evaluates
the assumptions in the runs.

**Only model-checked**: the liveness properties (`RunEnds`, `QueuedMessageIsServed`, `TeamEnds`, `AppendsEnd`,
`LaunchIsAnswered`, `CallEnds`, `SteerEnds`) and every use of
fairness, which are beyond TLAPS here. Every invariant, action property and refinement the passing
runs check is a theorem. The two refinements of lifecycles have a hypothesis on the faults, given above.

## 5. Not modelled

* Of the daemon and its HTTP surface: `status`, `events` and the other reads, and the token of the routes. How satay carries a cancel into a running body is not in this
  repository; `Stop` only makes the run's row go terminal when it ends.
* Of a delegation: argv, environment and credentials, the texts of reasons and summaries, the form
  of paths; `snapshot`, which has no caller; cancellation; what a killed process leaves running, which
  `RunTeam` counts but does not let act (a hazard).
* Of the configuration: which backend and provider the environment names; a process that resumes
  under another backend than the one that crashed is listed as a hazard.
* Redaction: what it promises is about characters. LLM providers and the drivers of docker
  and E2B: pure I/O. Of the CLI: parsing and printing, `show`. The
  dashboard: presentation.
* In the store: the wire form of payloads and the read cursor (`read` is a snapshot in the
  workflows).

## 6. Findings

Each is a statement of a doc, comment or test that the code does not keep; the run of that
name finds a trace, `PROJECT.json` quotes both sides.

1. `RunTaskSandbox`: a `SandboxError` ends the workflow with nothing journaled (under `e2b`, every delegation).
2. `DelegationRefused`: a Claude Code session that edited a file and was denied another tool is refused.
3. `FleetLost`: a crash between launching a team and recording it leaves a run no restart takes up.

Other places where a text and the code differ, or where the code leaves something behind, met while
modelling; the models do what the code does, and no property is stated of them:

* `docs/adr/0008` (127-128) says `--role` is required to steer a team and rejected for a plain task. `_steer` (`cli.py` 230-254)
  looks at neither; such a message is accepted and queued under a key nobody polls, as is one for a role that
  is polled no more. `AnswersAreTrue` holds of it: it was delivered to the run, and is not read.
* `prepare_run` says it closes the secrets store on a `ConfigError` (`config.py` 216-219). With a malformed key the connection is lost before
  `prepare_run` knows of it (`secrets/store.py` 87). An empty key, an error of SQLite or Fernet, and a malformed
  `--allow` (`cli.py` 96, 167) are no `ConfigError` and leave a store open as well.
* `write_steering_pointer` may raise after it created the file, outside the `try` that removes it (`cli.py` 112, 192).
* `run_kopicode` says that what kopicode recorded is never an exception (`delegate/kopicode.py` 163-166), the sandboxed variant that it keeps
  the same contract. An exec whose exit code is not zero and whose stderr holds "No such container" is an
  exception, whoever wrote that line (`sandbox/container.py` 124).
* A completed verdict of Claude Code lists only what `Write`, `Edit` and `MultiEdit` were asked to change.

That a crash *during* a delegation invokes the backend again is not listed: the code accepts it,
and `ReportedDelegationStands` states what it does keep.

## 7. Plan

1. The composition of `Steering` with `RunTeam` step by step, in place of the reduction to `polls`.
2. The backend a resuming process is configured with, once the repository says what a resume under
   another one should do.
