------------------------------- MODULE Steering -------------------------------
(***************************************************************************)
(* How a steering message finds its run: the pointer file that a steerable *)
(* "cuttlefish run" or "run-team" publishes (cli.py, steering.py), the     *)
(* "cuttlefish steer" of another terminal, and the fleet daemon's registry *)
(* and steer request (fleet/daemon.py, fleet/server.py), which end in the  *)
(* same POST to the control API of one run.                                *)
(*                                                                         *)
(* Every process may die between two steps.  A port is anyone's once its   *)
(* run is gone; run ids and tokens are never used twice.  satay's control  *)
(* API is external: it refuses another run's token, and queues a message   *)
(* for a run that is being driven under whatever key the message names.    *)
(* What a run does between two polls is RunTask and RunTeam; here it is    *)
(* reduced to the keys it still polls.                                     *)
(***************************************************************************)
EXTENDS Naturals

CONSTANTS
  Runs,      (* run ids                                                    *)
  NoRun,
  Ports,
  NoPort,
  Clients,   (* bound: steer commands and requests, one message each       *)
  Roles,     (* the names of a team's roles                                *)
  NoRole,    (* steer without --role                                       *)
  MaxKills   (* bound: processes killed                                    *)

ASSUME SteeringAssumption ==
  NoRun \notin Runs /\ NoPort \notin Ports /\ NoRole \notin Roles /\ MaxKills \in Nat

VARIABLES
  kind,     (* "task" (run), "team" (run-team), "fleet" (the daemon's)     *)
  phase,    (* how far the process that drives the run has come            *)
  port,     (* where its control API listens, or listened                  *)
  pointer,  (* its file in .cuttlefish/steering                            *)
  entered,  (* the runs in FleetDaemon._running                            *)
  polls,    (* the keys the workflow will poll again                       *)
  inbox,    (* satay's inbox of each run: the messages not consumed        *)
  taken,    (* the messages a poll of the run consumed                     *)
  at,       (* where each client stands, or what it was told               *)
  to,       (* the run a client names                                      *)
  role,     (* the --role, or "role", it gives                             *)
  kills

process == <<phase, port, pointer, entered>>
queue == <<inbox, taken>>
request == <<at, to, role>>
vars == <<kind, process, polls, queue, request, kills>>

(* steering_key on the side of the workflows.                              *)
Keys == Roles \cup {NoRole}
KeysOf(r) == IF kind[r] = "task" THEN {NoRole} ELSE Roles

Up == {"announced", "published", "running", "over", "withdrawn", "failing"}
Busy == {"looking", "posting", "waiting"}
Answers == {"sent",         (* exit 0; "sent"                              *)
            "not_running",  (* exit 2; 409                                 *)
            "undelivered",  (* SteeringDeliveryError: exit 1; 409          *)
            "exception"}    (* any other exception: a traceback; 500       *)

TypeOK ==
  /\ kind \in [Runs -> {"task", "team", "fleet"}]
  /\ phase \in [Runs -> Up \cup {"new", "closed", "failed", "killed"}]
  /\ port \in [Runs -> Ports \cup {NoPort}]
  /\ pointer \in [Runs -> {"none", "empty", "whole"}]
  /\ entered \subseteq Runs
  /\ polls \in [Runs -> SUBSET Keys]
  /\ inbox \in [Runs -> SUBSET Clients] /\ taken \in [Runs -> SUBSET Clients]
  /\ at \in [Clients -> Busy \cup Answers \cup {"idle"}]
  /\ to \in [Clients -> Runs \cup {NoRun}] /\ role \in [Clients -> Keys]
  /\ kills \in 0 .. MaxKills

Init ==
  /\ kind \in [Runs -> {"task", "team", "fleet"}]
  /\ phase = [r \in Runs |-> "new"] /\ port = [r \in Runs |-> NoPort]
  /\ pointer = [r \in Runs |-> "none"] /\ entered = {}
  /\ polls = [r \in Runs |-> KeysOf(r)]
  /\ inbox = [r \in Runs |-> {}] /\ taken = [r \in Runs |-> {}]
  /\ at = [c \in Clients |-> "idle"]
  /\ to = [c \in Clients |-> NoRun] /\ role = [c \in Clients |-> NoRole]
  /\ kills = 0

-----------------------------------------------------------------------------
(***************************************************************************)
(* The process of a run: _run, _run_team, or the daemon's _drive.          *)
(***************************************************************************)
Step(r, from, next) == phase[r] = from /\ phase' = [phase EXCEPT ![r] = next]

Listening(p) == {r \in Runs : phase[r] \in Up /\ port[r] = p}

(* run_app binds a free port; the CLI prints the id and the address.       *)
OpenControlApi(r) ==
  /\ Step(r, "new", IF kind[r] = "fleet" THEN "running" ELSE "announced")
  /\ \E p \in Ports : Listening(p) = {} /\ port' = [port EXCEPT ![r] = p]
  /\ UNCHANGED <<kind, pointer, entered, polls, queue, request, kills>>

(* write_steering_pointer: the file is created ...                         *)
CreatePointer(r) ==
  /\ phase[r] = "announced" /\ pointer[r] = "none"
  /\ pointer' = [pointer EXCEPT ![r] = "empty"]
  /\ UNCHANGED <<kind, phase, port, entered, polls, queue, request, kills>>

(* ... and written.                                                        *)
WritePointer(r) ==
  /\ Step(r, "announced", "published") /\ pointer[r] = "empty"
  /\ pointer' = [pointer EXCEPT ![r] = "whole"]
  /\ UNCHANGED <<kind, port, entered, polls, queue, request, kills>>

(* The file cannot be created, written or, later, removed: the exception   *)
(* leaves run_app without touching the file again.  A failed write leaves  *)
(* nothing that can be read.                                               *)
PointerRaises(r) ==
  /\ kind[r] # "fleet" /\ phase[r] \in {"announced", "over"}
  /\ phase' = [phase EXCEPT ![r] = "failing"]
  /\ UNCHANGED <<kind, port, pointer, entered, polls, queue, request, kills>>

SatayStart(r) ==
  /\ Step(r, "published", "running")
  /\ UNCHANGED <<kind, port, pointer, entered, polls, queue, request, kills>>

(* It raises, inside the try.                                              *)
StartRaises(r) ==
  /\ Step(r, "published", "over")
  /\ UNCHANGED <<kind, port, pointer, entered, polls, queue, request, kills>>

(* _launch_team goes on and enters the team in _running.                   *)
EnterTeam(r) ==
  /\ kind[r] = "fleet" /\ phase[r] \in {"running", "over", "closed"}
  /\ r \notin entered
  /\ entered' = entered \cup {r}
  /\ UNCHANGED <<kind, phase, port, pointer, polls, queue, request, kills>>

(* The finally of the CLI: the pointer goes whether the run returned or    *)
(* raised.                                                                 *)
RemovePointer(r) ==
  /\ kind[r] # "fleet" /\ Step(r, "over", "withdrawn")
  /\ pointer' = [pointer EXCEPT ![r] = "none"]
  /\ UNCHANGED <<kind, port, entered, polls, queue, request, kills>>

(* run_app left without the finally inside it.                             *)
CloseEarly(r) ==
  /\ phase[r] \in {"over", "withdrawn"}
  /\ phase' = [phase EXCEPT ![r] = "closed"]
  /\ UNCHANGED <<kind, port, pointer, entered, polls, queue, request, kills>>

(* run_app is left: nobody listens any more.                               *)
CloseControlApi(r) ==
  /\ \/ Step(r, IF kind[r] = "fleet" THEN "over" ELSE "withdrawn", "closed")
     \/ Step(r, "failing", "failed")
  /\ UNCHANGED <<kind, port, pointer, entered, polls, queue, request, kills>>

-----------------------------------------------------------------------------
(***************************************************************************)
(* The workflow's polls (run_task, run_team).                              *)
(***************************************************************************)
Queued(r, k) == {c \in inbox[r] : role[c] = k}

(* The role, or the task, is not polled again; a run without keys is over. *)
Leave(r, keys) ==
  /\ polls' = [polls EXCEPT ![r] = @ \ keys]
  /\ phase' = IF polls[r] \ keys = {} THEN [phase EXCEPT ![r] = "over"] ELSE phase

PollHit(r, k) ==
  /\ phase[r] = "running" /\ k \in polls[r]
  /\ \E c \in Queued(r, k) :
       /\ inbox' = [inbox EXCEPT ![r] = @ \ {c}]
       /\ taken' = [taken EXCEPT ![r] = @ \cup {c}]
  /\ UNCHANGED <<kind, process, polls, request, kills>>

PollMiss(r, k) ==
  /\ phase[r] = "running" /\ k \in polls[r] /\ Queued(r, k) = {}
  /\ Leave(r, {k})
  /\ UNCHANGED <<kind, port, pointer, entered, queue, request, kills>>

(* No poll follows a delegation that raised, nor an exception that ends    *)
(* the whole run.                                                          *)
GivesUp(r, keys) ==
  /\ phase[r] = "running" /\ keys \subseteq polls[r]
  /\ Leave(r, keys)
  /\ UNCHANGED <<kind, port, pointer, entered, queue, request, kills>>

DelegationRaises(r, k) == k \in polls[r] /\ GivesUp(r, {k})
RunRaises(r) == GivesUp(r, polls[r])

-----------------------------------------------------------------------------
(***************************************************************************)
(* _steer, and the daemon's steer with its request.                        *)
(***************************************************************************)
Told(c, answer) == at' = [at EXCEPT ![c] = answer]

(* The operator knows the id, and any role can be given; the route         *)
(* requires one.                                                           *)
Steer(c) ==
  /\ at[c] = "idle" /\ Told(c, "looking")
  /\ \E r \in Runs, k \in Keys :
       /\ phase[r] # "new"
       /\ kind[r] = "fleet" => k # NoRole
       /\ to' = [to EXCEPT ![c] = r] /\ role' = [role EXCEPT ![c] = k]
  /\ UNCHANGED <<kind, process, polls, queue, kills>>

(* read_steering_pointer; FleetDaemon.running, which forgets a team whose  *)
(* task is done.                                                           *)
Found(r) ==
  IF kind[r] = "fleet" THEN r \in entered /\ phase[r] # "closed"
                       ELSE pointer[r] = "whole"

LookUp(c) ==
  /\ at[c] = "looking"
  /\ Told(c, IF Found(to[c]) THEN "posting" ELSE "not_running")
  /\ UNCHANGED <<kind, process, polls, queue, to, role, kills>>

(* The run's inbox takes the message, also under a key that is polled no   *)
(* more or never was.                                                      *)
Accept(c, r) ==
  /\ inbox' = [inbox EXCEPT ![r] = @ \cup {c}]
  /\ Told(c, "waiting")
  /\ UNCHANGED taken

Refuse(c) == Told(c, "undelivered") /\ UNCHANGED queue

(* An unreachable run is tried again.                                      *)
PostRetries(c) ==
  /\ at[c] = "posting"
  /\ \E r \in Listening(port[to[c]]) : IF r = to[c] THEN Accept(c, r) ELSE Refuse(c)
  /\ UNCHANGED <<kind, process, polls, to, role, kills>>

(* send_steering_message, to whoever listens where the run did: nobody, a  *)
(* run with another token, or the run itself, which need not take messages *)
(* before satay knows it or once it is over.                               *)
Post(c) ==
  /\ at[c] = "posting"
  /\ LET r == to[c] IN
       \/ r \in Listening(port[r]) /\ Accept(c, r)
       \/ (r \notin Listening(port[r]) \/ phase[r] # "running") /\ Refuse(c)
  /\ UNCHANGED <<kind, process, polls, to, role, kills>>

Respond(c) ==
  /\ at[c] = "waiting" /\ phase[to[c]] \in Up
  /\ Told(c, "sent")
  /\ UNCHANGED <<kind, process, polls, queue, to, role, kills>>

(* A lost answer taken for an unreachable run.                             *)
LostIsUndelivered(c) ==
  /\ at[c] = "waiting"
  /\ Told(c, "undelivered")
  /\ UNCHANGED <<kind, process, polls, queue, to, role, kills>>

(* No answer within the timeout, or the connection breaks, before or after *)
(* the run took the message: urllib raises what is no URLError once the    *)
(* request is out.                                                         *)
ResponseLost(c) ==
  /\ \/ at[c] = "waiting"
     \/ at[c] = "posting" /\ Listening(port[to[c]]) # {}
  /\ Told(c, "exception")
  /\ UNCHANGED <<kind, process, polls, queue, to, role, kills>>

-----------------------------------------------------------------------------
(***************************************************************************)
(* A process dies: no finally runs.                                        *)
(***************************************************************************)
Kill(r) ==
  /\ kind[r] # "fleet" /\ phase[r] \in Up /\ kills < MaxKills
  /\ kills' = kills + 1
  /\ phase' = [phase EXCEPT ![r] = "killed"]
  /\ UNCHANGED <<kind, port, pointer, entered, polls, queue, request>>

FleetUp == {r \in Runs : kind[r] = "fleet" /\ phase[r] \in Up}

(* The daemon takes its teams, its registry and its requests with it.      *)
KillDaemon ==
  /\ FleetUp # {} /\ kills < MaxKills
  /\ kills' = kills + 1
  /\ phase' = [r \in Runs |-> IF r \in FleetUp THEN "killed" ELSE phase[r]]
  /\ entered' = {}
  /\ at' = [c \in Clients |->
              IF at[c] \in Busy /\ kind[to[c]] = "fleet" THEN "exception" ELSE at[c]]
  /\ UNCHANGED <<kind, port, pointer, polls, queue, to, role>>

-----------------------------------------------------------------------------
Process(r) ==
  \/ OpenControlApi(r) \/ CreatePointer(r) \/ WritePointer(r) \/ PointerRaises(r)
  \/ SatayStart(r) \/ StartRaises(r)
  \/ EnterTeam(r) \/ RemovePointer(r) \/ CloseControlApi(r)

Workflow(r) ==
  \/ \E k \in Keys : PollHit(r, k) \/ PollMiss(r, k) \/ DelegationRaises(r, k)
  \/ RunRaises(r)

Client(c) == LookUp(c) \/ Post(c) \/ Respond(c) \/ ResponseLost(c)

Next ==
  \/ \E r \in Runs : Process(r) \/ Workflow(r) \/ Kill(r)
  \/ \E c \in Clients : Steer(c) \/ Client(c)
  \/ KillDaemon

Spec == Init /\ [][Next]_vars

(* A client is a short-lived process, or a thread of the daemon, whose     *)
(* only call has a timeout.  Nothing is assumed of the runs.               *)
FairSpec == Spec /\ \A c \in Clients : WF_vars(Client(c))

-----------------------------------------------------------------------------
(***************************************************************************)
(* Safety.                                                                 *)
(***************************************************************************)
Delivered(c) == c \in inbox[to[c]] \cup taken[to[c]]

(* What the operator is told is so, although the run may end or die and    *)
(* its port be another's between the lookup and the answer: "sent" is in   *)
(* the inbox of the run it names, or consumed by it, and a message that    *)
(* was reported as not delivered is in nobody's inbox, so that it may be   *)
(* sent again (steering.py 110-147, cli.py 230-254).                       *)
AnswersAreTrue ==
  \A c \in Clients :
    /\ at[c] = "sent" => Delivered(c)
    /\ at[c] \in {"not_running", "undelivered"} =>
         \A r \in Runs : c \notin inbox[r] \cup taken[r]

(* While a run of the CLI is driven its pointer is there and readable, and *)
(* a pointer that is there is the run's own control API: a run that ended, *)
(* whatever its verdict or exception, leaves none (steering.py 77-83,      *)
(* cli.py 104-126).  A process that was killed may leave one, and so may   *)
(* one whose pointer could not be written or removed: the write stands     *)
(* before the try whose finally removes it (cli.py 112, 192).              *)
PointerTracksRun ==
  \A r \in Runs :
    /\ kind[r] # "fleet" /\ phase[r] = "running" => pointer[r] = "whole"
    /\ pointer[r] # "none" => phase[r] \in {"failed", "killed"} \/ r \in Listening(port[r])

(***************************************************************************)
(* Liveness.                                                               *)
(***************************************************************************)
(* A steer is answered, also by a stale pointer or a run that dies on it:  *)
(* "a clear error, not a hang" (ADR-0008 153-159).                         *)
SteerEnds == \A c \in Clients : at[c] \in Busy ~> at[c] \in Answers
=============================================================================
