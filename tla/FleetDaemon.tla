----------------------------- MODULE FleetDaemon -----------------------------
(***************************************************************************)
(* The fleet daemon (fleet/daemon.py) with the project store it writes     *)
(* (projects/store.py): one process drives the teams of every project, an  *)
(* asyncio task each, and a restarted one takes up the teams that were     *)
(* still running.                                                          *)
(*                                                                         *)
(* The daemon is one event loop: what stands between two awaits is one     *)
(* action.  satay is external: run_app holds an exclusive lock on its data *)
(* directory and refuses a second one (ADR-0010, finding 4); satay.start   *)
(* creates the row of a new run id and resumes the row of a known one; a   *)
(* run is terminal or it is not.  What a run does meanwhile is RunTeam.    *)
(***************************************************************************)
EXTENDS Naturals

CONSTANTS
  Projects,
  Roots,
  NoRoot,
  MaxTeams,    (* bound: team ids minted                                   *)
  MaxCrashes   (* bound: times the process dies                            *)

ASSUME FleetAssumption ==
  /\ Projects # {} /\ NoRoot \notin Roots
  /\ MaxTeams \in Nat /\ MaxCrashes \in Nat

Teams == 1 .. MaxTeams
NoTeam == 0

(* The personas and the allow list a TeamInput was composed from; bound:   *)
(* they are updated once.                                                  *)
Versions == {1, 2}
NoInput == 0

VARIABLES
  reg,      (* whether each project has its row, had it, or never had      *)
  root,     (* Project.root, fixed at registration                         *)
  persona,  (* the version of Project.roles and Project.allow              *)
  last,     (* last_team_id and last_team_roles                            *)
  made,     (* how many team ids were minted                               *)
  owner,    (* the project each team was started for                       *)
  row,      (* satay's row of each run: none, running, cancelling, over    *)
  rowInput, (* the TeamInput that row was created with                     *)
  phase,    (* what cuttlefish serve is doing                              *)
  todo,     (* the projects resume_pending has not come to yet             *)
  running,  (* FleetDaemon._running                                        *)
  call,     (* the _launch_team of each team: what its ready future holds  *)
  drive,    (* the _drive task of each team                                *)
  input,    (* the TeamInput that task passes to satay.start               *)
  crashes

store == <<reg, root, persona, last>>
runs == <<made, owner, row, rowInput>>
memory == <<phase, todo, running, call, drive, input>>
vars == <<store, runs, memory, crashes>>

TypeOK ==
  /\ reg \in [Projects -> {"unknown", "registered", "gone"}]
  /\ root \in [Projects -> Roots \cup {NoRoot}]
  /\ persona \in [Projects -> Versions]
  /\ last \in [Projects -> [team : Teams \cup {NoTeam}, input : Versions \cup {NoInput}]]
  /\ made \in 0 .. MaxTeams
  /\ owner \in [Teams -> Projects]
  /\ row \in [Teams -> {"none", "running", "cancelling", "over"}]
  /\ rowInput \in [Teams -> Versions \cup {NoInput}]
  /\ phase \in {"down", "resuming", "serving"}
  /\ todo \subseteq Projects
  /\ running \in [Projects -> Teams \cup {NoTeam}]
  /\ call \in [Teams -> {"none", "await", "ready", "error"}]
  /\ drive \in [Teams -> {"none", "opening", "open", "driving", "done"}]
  /\ input \in [Teams -> Versions \cup {NoInput}]
  /\ crashes \in 0 .. MaxCrashes

Init ==
  /\ reg = [p \in Projects |-> "unknown"]
  /\ root = [p \in Projects |-> NoRoot]
  /\ persona = [p \in Projects |-> 1]
  /\ last = [p \in Projects |-> [team |-> NoTeam, input |-> NoInput]]
  /\ made = 0 /\ owner = [t \in Teams |-> CHOOSE p \in Projects : TRUE]
  /\ row = [t \in Teams |-> "none"] /\ rowInput = [t \in Teams |-> NoInput]
  /\ phase = "down" /\ todo = {}
  /\ running = [p \in Projects |-> NoTeam]
  /\ call = [t \in Teams |-> "none"] /\ drive = [t \in Teams |-> "none"]
  /\ input = [t \in Teams |-> NoInput]
  /\ crashes = 0

-----------------------------------------------------------------------------
(***************************************************************************)
(* The project store: requests, and the CLI's projects commands at any     *)
(* time.                                                                   *)
(***************************************************************************)
Register(p) ==
  /\ reg[p] = "unknown"
  /\ reg' = [reg EXCEPT ![p] = "registered"]
  /\ \E r \in Roots : root' = [root EXCEPT ![p] = r]
  /\ UNCHANGED <<persona, last, runs, memory, crashes>>

(* The row is deleted, whatever the daemon is doing with the project.      *)
Deregister(p) ==
  /\ reg[p] = "registered"
  /\ reg' = [reg EXCEPT ![p] = "gone"]
  /\ UNCHANGED <<root, persona, last, runs, memory, crashes>>

(* update_roles, update_allow.                                             *)
Update(p) ==
  /\ reg[p] = "registered"
  /\ \E v \in Versions : v > persona[p] /\ persona' = [persona EXCEPT ![p] = v]
  /\ UNCHANGED <<reg, root, last, runs, memory, crashes>>

-----------------------------------------------------------------------------
(***************************************************************************)
(* Requests.                                                               *)
(***************************************************************************)
(* running(): a team whose task is done is forgotten.                      *)
IsRunning(p) == running[p] # NoTeam /\ drive[running[p]] # "done"

(* _launch_team up to its await: the task is created, ready is empty.      *)
Launch(t, version) ==
  /\ call' = [call EXCEPT ![t] = "await"]
  /\ drive' = [drive EXCEPT ![t] = "opening"]
  /\ input' = [input EXCEPT ![t] = version]

Start(p) ==
  /\ phase = "serving" /\ reg[p] = "registered" /\ ~IsRunning(p)
  /\ made < MaxTeams
  /\ made' = made + 1
  /\ owner' = [owner EXCEPT ![made'] = p]
  /\ running' = [running EXCEPT ![p] = NoTeam]
  /\ Launch(made', persona[p])
  /\ UNCHANGED <<store, row, rowInput, phase, todo, crashes>>

(* The team is recorded before it is entered, so that an error leaves it   *)
(* out of the registry.                                                    *)
StartedRecordsFirst(t) ==
  /\ phase = "serving" /\ call[t] = "ready"
  /\ call' = [call EXCEPT ![t] = "none"]
  /\ LET p == owner[t] IN
       IF reg[p] = "registered"
       THEN /\ last' = [last EXCEPT ![p] = [team |-> t, input |-> input[t]]]
            /\ running' = [running EXCEPT ![p] = t]
       ELSE UNCHANGED <<last, running>>
  /\ UNCHANGED <<reg, root, persona, runs, phase, todo, drive, input, crashes>>

(* ready holds the address: the team is entered in _running, and recorded  *)
(* unless its project is gone by now, which makes the request fail.        *)
Started(t) ==
  /\ phase = "serving" /\ call[t] = "ready"
  /\ call' = [call EXCEPT ![t] = "none"]
  /\ running' = [running EXCEPT ![owner[t]] = t]
  /\ last' = IF reg[owner[t]] = "registered"
             THEN [last EXCEPT ![owner[t]] = [team |-> t, input |-> input[t]]]
             ELSE last
  /\ UNCHANGED <<reg, root, persona, runs, phase, todo, drive, input, crashes>>

(* ready holds an exception: FleetError.                                   *)
StartFailed(t) ==
  /\ phase = "serving" /\ call[t] = "error"
  /\ call' = [call EXCEPT ![t] = "none"]
  /\ UNCHANGED <<store, runs, phase, todo, running, drive, input, crashes>>

(* POST .../cancel to the team's own run_app; the run ends when its round  *)
(* does.                                                                   *)
Stop(p) ==
  /\ phase = "serving" /\ IsRunning(p)
  /\ drive[running[p]] = "driving" /\ row[running[p]] = "running"
  /\ row' = [row EXCEPT ![running[p]] = "cancelling"]
  /\ UNCHANGED <<store, made, owner, rowInput, memory, crashes>>

-----------------------------------------------------------------------------
(***************************************************************************)
(* The _drive task of a team.                                              *)
(***************************************************************************)
(* A data directory for each project.                                      *)
DataDirOfProject(t) == owner[t]

DataDir(t) == root[owner[t]]

HoldsDataDir(t) == drive[t] \in {"open", "driving"}

RunAppOpens(t) ==
  /\ drive[t] = "opening"
  /\ \A u \in Teams : HoldsDataDir(u) => DataDir(u) # DataDir(t)
  /\ drive' = [drive EXCEPT ![t] = "open"]
  /\ call' = [call EXCEPT ![t] = "ready"]
  /\ UNCHANGED <<store, runs, phase, todo, running, input, crashes>>

TaskDone(t) ==
  /\ drive' = [drive EXCEPT ![t] = "done"]
  /\ input' = [input EXCEPT ![t] = NoInput]

(* The failing task keeps its exception to itself.                         *)
FailsUnanswered(t) ==
  /\ drive[t] = "opening"
  /\ TaskDone(t)
  /\ UNCHANGED <<store, runs, phase, todo, running, call, crashes>>

(* prepare_run raises, or run_app does (the lock is taken): the exception  *)
(* goes to ready.                                                          *)
OpeningFails(t) ==
  /\ drive[t] = "opening"
  /\ TaskDone(t)
  /\ call' = [call EXCEPT ![t] = "error"]
  /\ UNCHANGED <<store, runs, phase, todo, running, crashes>>

(* satay.start under the team's id.                                        *)
SatayStart(t) ==
  /\ drive[t] = "open"
  /\ drive' = [drive EXCEPT ![t] = "driving"]
  /\ IF row[t] = "none"
     THEN /\ row' = [row EXCEPT ![t] = "running"]
          /\ rowInput' = [rowInput EXCEPT ![t] = input[t]]
     ELSE UNCHANGED <<row, rowInput>>
  /\ UNCHANGED <<store, made, owner, phase, todo, running, call, input, crashes>>

(* The task leaves run_app, which lets the loop go round more than once:   *)
(* the request that waits on ready runs before that.                       *)
DriveEnds(t) == call[t] # "ready" /\ TaskDone(t)

(* handle.result() returns, or raises a WorkflowFailedError, which is       *)
(* suppressed: the run completed, failed or was cancelled.                 *)
RunEnds(t) ==
  /\ drive[t] = "driving" /\ DriveEnds(t)
  /\ row' = [row EXCEPT ![t] = "over"]
  /\ UNCHANGED <<store, made, owner, rowInput, phase, todo, running, call, crashes>>

(* Any other exception leaves the run as it is.                            *)
DriveRaises(t) ==
  /\ drive[t] \in {"open", "driving"} /\ DriveEnds(t)
  /\ UNCHANGED <<store, runs, phase, todo, running, call, crashes>>

-----------------------------------------------------------------------------
(***************************************************************************)
(* cuttlefish serve: resume_pending, then the HTTP surface.                *)
(***************************************************************************)
Serve ==
  /\ phase = "down"
  /\ phase' = "resuming"
  /\ todo' = {p \in Projects : reg[p] = "registered"}
  /\ UNCHANGED <<store, runs, running, call, drive, input, crashes>>

(* Between two projects no launch of resume_pending is awaited.            *)
AtNextProject == phase = "resuming" /\ \A t \in Teams : call[t] = "none"

IsResumable(p) ==
  /\ last[p].team # NoTeam
  /\ row[last[p].team] \in {"running", "cancelling"}

ResumeSkips(p) ==
  /\ AtNextProject /\ p \in todo /\ ~IsResumable(p)
  /\ todo' = todo \ {p}
  /\ UNCHANGED <<store, runs, phase, running, call, drive, input, crashes>>

(* The input is composed again from what the project says now.             *)
ResumeRecomposes(p) ==
  /\ AtNextProject /\ p \in todo /\ IsResumable(p)
  /\ todo' = todo \ {p}
  /\ Launch(last[p].team, persona[p])
  /\ UNCHANGED <<store, runs, phase, running, crashes>>

ResumeLaunches(p) ==
  /\ AtNextProject /\ p \in todo /\ IsResumable(p)
  /\ todo' = todo \ {p}
  /\ Launch(last[p].team, last[p].input)
  /\ UNCHANGED <<store, runs, phase, running, crashes>>

Resumed(t) ==
  /\ phase = "resuming" /\ call[t] = "ready"
  /\ call' = [call EXCEPT ![t] = "none"]
  /\ running' = [running EXCEPT ![owner[t]] = t]
  /\ UNCHANGED <<store, runs, phase, todo, drive, input, crashes>>

(* The first failure ends the loop.                                        *)
ResumeGivesUp(t) ==
  /\ phase = "resuming" /\ call[t] = "error"
  /\ call' = [call EXCEPT ![t] = "none"]
  /\ todo' = {}
  /\ UNCHANGED <<store, runs, phase, running, drive, input, crashes>>

(* A ResumeAttempt with its error, and the loop goes on.                   *)
ResumeFailed(t) ==
  /\ phase = "resuming" /\ call[t] = "error"
  /\ call' = [call EXCEPT ![t] = "none"]
  /\ UNCHANGED <<store, runs, phase, todo, running, drive, input, crashes>>

OpenHttp ==
  /\ AtNextProject /\ todo = {}
  /\ phase' = "serving"
  /\ UNCHANGED <<store, runs, todo, running, call, drive, input, crashes>>

(* The process dies, or is stopped: nothing of it but the two stores is    *)
(* left.  A cancel that had no effect yet may be lost.                     *)
Crash ==
  /\ phase # "down" /\ crashes < MaxCrashes
  /\ crashes' = crashes + 1
  /\ phase' = "down" /\ todo' = {}
  /\ running' = [p \in Projects |-> NoTeam]
  /\ call' = [t \in Teams |-> "none"] /\ drive' = [t \in Teams |-> "none"]
  /\ input' = [t \in Teams |-> NoInput]
  /\ \E lost \in BOOLEAN :
       row' = [t \in Teams |-> IF lost /\ row[t] = "cancelling" THEN "running" ELSE row[t]]
  /\ UNCHANGED <<store, made, owner, rowInput>>

-----------------------------------------------------------------------------
Drive(t) ==
  \/ RunAppOpens(t) \/ OpeningFails(t) \/ SatayStart(t)
  \/ RunEnds(t) \/ DriveRaises(t)

Answer(t) == Started(t) \/ StartFailed(t) \/ Resumed(t) \/ ResumeFailed(t)

Boot ==
  \/ OpenHttp
  \/ \E p \in Projects : ResumeSkips(p) \/ ResumeLaunches(p)

Request(p) ==
  \/ Register(p) \/ Deregister(p) \/ Update(p)
  \/ Start(p) \/ Stop(p)

Next ==
  \/ Serve \/ Boot \/ Crash
  \/ \E p \in Projects : Request(p)
  \/ \E t \in Teams : Drive(t) \/ Answer(t)

Spec == Init /\ [][Next]_vars

(* The event loop runs every task that can go on; how long a team works is *)
(* its own affair, and nobody is assumed to start or serve anything.       *)
Opening(t) == RunAppOpens(t) \/ OpeningFails(t)

FairSpec ==
  /\ Spec
  /\ \A t \in Teams : WF_vars(Opening(t)) /\ WF_vars(Answer(t))

-----------------------------------------------------------------------------
(***************************************************************************)
(* Safety.                                                                 *)
(***************************************************************************)
Live(t) == drive[t] = "driving"

(* Every team that is being driven is the one stop and steer reach for its *)
(* project, or its request is about to enter it: no interleaving of starts *)
(* and deregistrations leaves one running on its own (daemon.py 166-231).  *)
LiveTeamsAreReachable ==
  \A t \in Teams : Live(t) => running[owner[t]] = t \/ call[t] # "none"

(* When the HTTP surface opens, and from then on, every registered         *)
(* project's last team either is terminal or was driven or reported by     *)
(* this process: a failing resume does not leave the others behind         *)
(* (daemon.py 250-282, cli.py 383-397).                                    *)
NoTeamLeftBehind ==
  phase = "serving" =>
    \A p \in Projects :
      reg[p] = "registered" /\ IsResumable(p) => drive[last[p].team] # "none"

(* A run is always driven with the input it was created with, although the *)
(* project's personas changed since: satay's strict nondeterminism policy  *)
(* would fail it otherwise (daemon.py 95-118, 261-267).                    *)
ResumeIsIdentical ==
  \A t \in Teams : drive[t] = "driving" => input[t] = rowInput[t]

-----------------------------------------------------------------------------
(***************************************************************************)
(* Liveness.                                                               *)
(***************************************************************************)
(* A start or a resume is answered: whatever fails before the team is up   *)
(* reaches the request, unless the process dies (daemon.py 186-227,        *)
(* tests/integration/test_fleet_daemon.py 35-47).                          *)
LaunchIsAnswered == \A t \in Teams : call[t] # "none" ~> call[t] = "none"

-----------------------------------------------------------------------------
Promise == INSTANCE TeamRuns WITH
  checkout <- [t \in Teams |-> IF row[t] = "none" THEN NoRoot ELSE root[owner[t]]],
  live     <- {t \in Teams : Live(t)},
  ended    <- {t \in Teams : row[t] = "over"}

(* However starts, crashes and resumes fall, also of projects that share a *)
(* checkout, the runs keep what TeamRuns promises (daemon.py 176-231).     *)
ImplementsTeamRuns == Promise!Spec

-----------------------------------------------------------------------------
(* "it re-drives every project's last, still-non-terminal team"            *)
(* (daemon.py 9-12): once serve is up, the last team that ran for a        *)
(* registered project is terminal or this process has taken it up.         *)
LastRunOf(p, t) ==
  /\ owner[t] = p /\ row[t] # "none"
  /\ \A u \in Teams : owner[u] = p /\ row[u] # "none" => u <= t

EveryTeamIsRedriven ==
  phase = "serving" =>
    \A p \in Projects, t \in Teams :
      reg[p] = "registered" /\ LastRunOf(p, t) /\ row[t] = "running" => drive[t] # "none"
=============================================================================
