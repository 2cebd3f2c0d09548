---------------------------- MODULE SteeringProofs ----------------------------
(***************************************************************************)
(* Proofs about Steering, for every number of runs, ports, clients, roles  *)
(* and killed processes.                                                   *)
(***************************************************************************)
EXTENDS Steering, TLAPS

(* A message is in an inbox only once its client posted it, and then in    *)
(* the inbox of the run the client names, or consumed by that run.         *)
ClientInv ==
  \A c \in Clients :
    /\ at[c] \in {"idle", "looking", "posting", "not_running", "undelivered"} =>
         \A r \in Runs : c \notin inbox[r] \cup taken[r]
    /\ at[c] # "idle" => to[c] \in Runs
    /\ at[c] \in {"waiting", "sent"} => Delivered(c)

(* The pointer follows the process, which is the CLI's.                    *)
PointerInv ==
  \A r \in Runs :
    /\ kind[r] = "fleet" => phase[r] \notin {"announced", "published", "withdrawn", "failing"}
    /\ pointer[r] # "none" =>
         kind[r] # "fleet" /\ phase[r] \in {"announced", "published", "running", "over", "failing", "failed", "killed"}
    /\ kind[r] # "fleet" /\ phase[r] \in {"published", "running", "over"} =>
         pointer[r] = "whole"

LEMMA InitialInvariants == Init => TypeOK /\ ClientInv /\ PointerInv
<1> SUFFICES ASSUME Init PROVE TypeOK /\ ClientInv /\ PointerInv
  OBVIOUS
<1>1. TypeOK
  BY SteeringAssumption DEF Init, TypeOK, KeysOf, Keys, Up, Busy, Answers
<1>2. ClientInv /\ PointerInv
  BY DEF Init, ClientInv, PointerInv
<1> QED BY <1>1, <1>2

LEMMA StepTypes == TypeOK /\ [Next]_vars => TypeOK'
<1> SUFFICES ASSUME TypeOK, [Next]_vars PROVE TypeOK'
  OBVIOUS
<1> USE SteeringAssumption
    DEF TypeOK, Keys, Up, Busy, Answers, process, queue, request, Step, Leave, Told
<1>1. ASSUME NEW r \in Runs, Process(r) PROVE TypeOK'
  <2>1. CASE OpenControlApi(r)
    BY <2>1 DEF OpenControlApi
  <2>2. CASE CreatePointer(r) \/ WritePointer(r) \/ SatayStart(r)
    BY <2>2 DEF CreatePointer, WritePointer, SatayStart
  <2>3. CASE EnterTeam(r) \/ RemovePointer(r) \/ CloseControlApi(r)
    BY <2>3 DEF EnterTeam, RemovePointer, CloseControlApi
  <2>4. CASE PointerRaises(r) \/ StartRaises(r)
    BY <2>4 DEF PointerRaises, StartRaises
  <2> QED BY <1>1, <2>1, <2>2, <2>3, <2>4 DEF Process
<1>2. ASSUME NEW r \in Runs, Workflow(r) PROVE TypeOK'
  <2>1. ASSUME NEW k \in Keys, PollHit(r, k) PROVE TypeOK'
    BY <2>1 DEF PollHit, Queued
  <2>2. ASSUME NEW k \in Keys, PollMiss(r, k) PROVE TypeOK'
    BY <2>2 DEF PollMiss
  <2>3. ASSUME NEW keys, GivesUp(r, keys) PROVE TypeOK'
    BY <2>3 DEF GivesUp
  <2> QED BY <1>2, <2>1, <2>2, <2>3 DEF Workflow, DelegationRaises, RunRaises
<1>3. ASSUME NEW r \in Runs, Kill(r) PROVE TypeOK'
  BY <1>3 DEF Kill
<1>4. CASE KillDaemon
  BY <1>4 DEF KillDaemon
<1>5. ASSUME NEW c \in Clients, Steer(c) PROVE TypeOK'
  BY <1>5 DEF Steer
<1>6. ASSUME NEW c \in Clients, Client(c) PROVE TypeOK'
  <2>1. CASE LookUp(c)
    BY <2>1 DEF LookUp
  <2>2. CASE Post(c)
    BY <2>2 DEF Post, Accept, Refuse, Listening
  <2>3. CASE Respond(c) \/ ResponseLost(c)
    BY <2>3 DEF Respond, ResponseLost
  <2> QED BY <1>6, <2>1, <2>2, <2>3 DEF Client
<1>7. CASE UNCHANGED vars
  BY <1>7 DEF vars
<1> QED BY <1>1, <1>2, <1>3, <1>4, <1>5, <1>6, <1>7 DEF Next

(* Only a post puts a message into an inbox, and only a poll takes it out. *)
LEMMA ClientStep == TypeOK /\ ClientInv /\ [Next]_vars => ClientInv'
<1> SUFFICES ASSUME TypeOK, ClientInv, [Next]_vars PROVE ClientInv'
  OBVIOUS
<1> USE DEF TypeOK, ClientInv, Delivered, process, queue, request, Told, Busy
<1>1. ASSUME NEW r \in Runs, Process(r) \/ Kill(r) PROVE ClientInv'
  BY <1>1 DEF Process, OpenControlApi, CreatePointer, WritePointer, PointerRaises, SatayStart,
    StartRaises, EnterTeam, RemovePointer, CloseControlApi, Kill
<1>2. ASSUME NEW r \in Runs, Workflow(r) PROVE ClientInv'
  <2>1. ASSUME NEW k \in Keys, PollHit(r, k) PROVE ClientInv'
    <3>1. PICK c \in Clients :
            /\ inbox' = [inbox EXCEPT ![r] = @ \ {c}] /\ c \in inbox[r]
            /\ taken' = [taken EXCEPT ![r] = @ \cup {c}]
      BY <2>1 DEF PollHit, Queued
    <3>2. \A q \in Runs : inbox'[q] \cup taken'[q] = inbox[q] \cup taken[q]
      BY <3>1
    <3>3. UNCHANGED <<at, to>>
      BY <2>1 DEF PollHit
    <3> QED BY <3>2, <3>3
  <2>2. ASSUME NEW k \in Keys, PollMiss(r, k) PROVE ClientInv'
    BY <2>2 DEF PollMiss
  <2>3. ASSUME NEW keys, GivesUp(r, keys) PROVE ClientInv'
    BY <2>3 DEF GivesUp
  <2> QED BY <1>2, <2>1, <2>2, <2>3 DEF Workflow, DelegationRaises, RunRaises
<1>3. CASE KillDaemon
  BY <1>3 DEF KillDaemon
<1>4. ASSUME NEW c \in Clients, Steer(c) PROVE ClientInv'
  BY <1>4 DEF Steer
<1>5. ASSUME NEW c \in Clients, Client(c) PROVE ClientInv'
  <2>1. CASE LookUp(c)
    BY <2>1 DEF LookUp
  <2>2. CASE Post(c)
    <3>1. at[c] = "posting" /\ to' = to /\ to[c] \in Runs
      BY <2>2 DEF Post
    <3>2. CASE Accept(c, to[c])
      <4>1. \A r \in Runs : inbox'[r] \cup taken'[r] =
              (inbox[r] \cup taken[r]) \cup (IF r = to[c] THEN {c} ELSE {})
        BY <3>1, <3>2 DEF Accept
      <4>2. at' = [at EXCEPT ![c] = "waiting"]
        BY <3>2 DEF Accept
      <4> QED BY <3>1, <4>1, <4>2
    <3>3. CASE Refuse(c)
      BY <3>1, <3>3 DEF Refuse
    <3> QED BY <2>2, <3>2, <3>3 DEF Post
  <2>3. CASE Respond(c) \/ ResponseLost(c)
    BY <2>3 DEF Respond, ResponseLost
  <2> QED BY <1>5, <2>1, <2>2, <2>3 DEF Client
<1>6. CASE UNCHANGED vars
  BY <1>6 DEF vars
<1> QED BY <1>1, <1>2, <1>3, <1>4, <1>5, <1>6 DEF Next

LEMMA PointerStep == TypeOK /\ PointerInv /\ [Next]_vars => PointerInv'
<1> SUFFICES ASSUME TypeOK, PointerInv, [Next]_vars PROVE PointerInv'
  OBVIOUS
<1> USE DEF TypeOK, PointerInv, process, Step, Leave, Up
<1>1. ASSUME NEW r \in Runs, Process(r) PROVE PointerInv'
  <2>1. CASE OpenControlApi(r)
    BY <2>1 DEF OpenControlApi
  <2>2. CASE CreatePointer(r) \/ WritePointer(r) \/ SatayStart(r)
    BY <2>2 DEF CreatePointer, WritePointer, SatayStart
  <2>3. CASE EnterTeam(r) \/ RemovePointer(r)
    BY <2>3 DEF EnterTeam, RemovePointer
  <2>4. CASE CloseControlApi(r)
    BY <2>4 DEF CloseControlApi
  <2>5. CASE PointerRaises(r) \/ StartRaises(r)
    BY <2>5 DEF PointerRaises, StartRaises
  <2> QED BY <1>1, <2>1, <2>2, <2>3, <2>4, <2>5 DEF Process
<1>2. ASSUME NEW r \in Runs, Workflow(r) PROVE PointerInv'
  <2>1. ASSUME NEW k \in Keys, PollHit(r, k) PROVE PointerInv'
    BY <2>1 DEF PollHit
  <2>2. ASSUME NEW k \in Keys, PollMiss(r, k) PROVE PointerInv'
    BY <2>2 DEF PollMiss
  <2>3. ASSUME NEW keys, GivesUp(r, keys) PROVE PointerInv'
    BY <2>3 DEF GivesUp
  <2> QED BY <1>2, <2>1, <2>2, <2>3 DEF Workflow, DelegationRaises, RunRaises
<1>3. ASSUME NEW r \in Runs, Kill(r) PROVE PointerInv'
  BY <1>3 DEF Kill
<1>4. CASE KillDaemon
  BY <1>4 DEF KillDaemon, FleetUp
<1>5. ASSUME NEW c \in Clients, Steer(c) \/ Client(c) PROVE PointerInv'
  BY <1>5 DEF Steer, Client, LookUp, Post, Respond, ResponseLost
<1>6. CASE UNCHANGED vars
  BY <1>6 DEF vars
<1> QED BY <1>1, <1>2, <1>3, <1>4, <1>5, <1>6 DEF Next

IInv == TypeOK /\ ClientInv /\ PointerInv

LEMMA Invariance == Spec => []IInv
<1>1. Init => IInv
  BY InitialInvariants DEF IInv
<1>2. IInv /\ [Next]_vars => IInv'
  BY StepTypes, ClientStep, PointerStep DEF IInv
<1> QED BY <1>1, <1>2, PTL DEF Spec

-----------------------------------------------------------------------------
(* Every variable of the model keeps its type.                             *)
THEOREM TypeCorrect == Spec => []TypeOK
<1>1. IInv => TypeOK
  BY DEF IInv
<1> QED BY <1>1, Invariance, PTL

(* A steer that was answered "sent" is with the run it names, and one that *)
(* was answered "not running" or "undelivered" is with no run.             *)
THEOREM TrueAnswers == Spec => []AnswersAreTrue
<1>1. IInv => AnswersAreTrue
  BY DEF IInv, ClientInv, AnswersAreTrue
<1> QED BY <1>1, Invariance, PTL

(* A run of the CLI that is driven has a readable pointer, and a pointer   *)
(* is that of a run that listens, of a process that was killed or of one   *)
(* that could not write or remove it.                                      *)
THEOREM PointersTrack == Spec => []PointerTracksRun
<1>1. IInv => PointerTracksRun
  BY DEF IInv, TypeOK, PointerInv, PointerTracksRun, Listening, Up
<1> QED BY <1>1, Invariance, PTL
=============================================================================
