-------------------------- MODULE FleetDaemonProofs --------------------------
(***************************************************************************)
(* Proofs about FleetDaemon, for every set of projects and roots, number   *)
(* of teams and number of crashes.                                         *)
(***************************************************************************)
EXTENDS FleetDaemon, TLAPS

LEMMA InitialTypes == Init => TypeOK
<1> SUFFICES ASSUME Init PROVE TypeOK
  OBVIOUS
<1>1. (CHOOSE p \in Projects : TRUE) \in Projects
  BY FleetAssumption
<1>2. owner \in [Teams -> Projects]
  <2> DEFINE q == CHOOSE p \in Projects : TRUE
  <2>1. q \in Projects
    BY <1>1
  <2>2. owner = [t \in Teams |-> q]
    BY DEF Init
  <2> HIDE DEF q
  <2> QED BY <2>1, <2>2
<1>3. last \in [Projects -> [team : Teams \cup {NoTeam}, input : Versions \cup {NoInput}]]
  BY DEF Init
<1>4. /\ made \in 0 .. MaxTeams /\ crashes \in 0 .. MaxCrashes /\ todo \subseteq Projects
      /\ phase \in {"down", "resuming", "serving"}
  BY FleetAssumption DEF Init
<1>5. /\ reg \in [Projects -> {"unknown", "registered", "gone"}]
      /\ root \in [Projects -> Roots \cup {NoRoot}] /\ persona \in [Projects -> Versions]
      /\ running \in [Projects -> Teams \cup {NoTeam}]
  BY DEF Init, Versions
<1>6. /\ row \in [Teams -> {"none", "running", "cancelling", "over"}]
      /\ rowInput \in [Teams -> Versions \cup {NoInput}]
      /\ call \in [Teams -> {"none", "await", "ready", "error"}]
      /\ drive \in [Teams -> {"none", "opening", "open", "driving", "done"}]
      /\ input \in [Teams -> Versions \cup {NoInput}]
  BY DEF Init
<1> QED BY <1>2, <1>3, <1>4, <1>5, <1>6 DEF TypeOK

LEMMA StepTypes == TypeOK /\ [Next]_vars => TypeOK'
<1> SUFFICES ASSUME TypeOK, [Next]_vars PROVE TypeOK'
  OBVIOUS
<1> USE FleetAssumption DEF TypeOK, store, runs, memory
<1>1. ASSUME NEW p \in Projects, Request(p) PROVE TypeOK'
  <2>1. CASE Register(p)
    BY <2>1 DEF Register
  <2>2. CASE Deregister(p)
    BY <2>2 DEF Deregister
  <2>3. CASE Update(p)
    BY <2>3 DEF Update
  <2>4. CASE Start(p)
    <3>1. made' \in Teams
      BY <2>4 DEF Start, Teams
    <3> QED BY <2>4, <3>1 DEF Start, Launch, Teams
  <2>5. CASE Stop(p)
    BY <2>5 DEF Stop
  <2> QED BY <1>1, <2>1, <2>2, <2>3, <2>4, <2>5 DEF Request
<1>2. ASSUME NEW t \in Teams, Drive(t) PROVE TypeOK'
  <2>1. CASE RunAppOpens(t)
    BY <2>1 DEF RunAppOpens
  <2>2. CASE OpeningFails(t)
    BY <2>2 DEF OpeningFails, TaskDone
  <2>3. CASE SatayStart(t)
    BY <2>3 DEF SatayStart
  <2>4. CASE RunEnds(t)
    BY <2>4 DEF RunEnds, DriveEnds, TaskDone
  <2>5. CASE DriveRaises(t)
    BY <2>5 DEF DriveRaises, DriveEnds, TaskDone
  <2> QED BY <1>2, <2>1, <2>2, <2>3, <2>4, <2>5 DEF Drive
<1>3. ASSUME NEW t \in Teams, Answer(t) PROVE TypeOK'
  <2>1. CASE Started(t)
    BY <2>1 DEF Started
  <2>2. CASE StartFailed(t) \/ ResumeFailed(t)
    BY <2>2 DEF StartFailed, ResumeFailed
  <2>3. CASE Resumed(t)
    BY <2>3 DEF Resumed
  <2> QED BY <1>3, <2>1, <2>2, <2>3 DEF Answer
<1>4. CASE Serve \/ OpenHttp
  BY <1>4 DEF Serve, OpenHttp
<1>5. ASSUME NEW p \in Projects, ResumeSkips(p) \/ ResumeLaunches(p) PROVE TypeOK'
  <2>1. CASE ResumeSkips(p)
    BY <2>1 DEF ResumeSkips
  <2>2. CASE ResumeLaunches(p)
    <3>1. last[p] \in [team : Teams \cup {NoTeam}, input : Versions \cup {NoInput}]
      OBVIOUS
    <3>2. last[p].team \in Teams /\ last[p].input \in Versions \cup {NoInput}
      BY <2>2, <3>1 DEF ResumeLaunches, IsResumable
    <3> QED BY <2>2, <3>2 DEF ResumeLaunches, Launch
  <2> QED BY <1>5, <2>1, <2>2
<1>6. CASE Crash
  BY <1>6 DEF Crash
<1>7. CASE UNCHANGED vars
  BY <1>7 DEF vars
<1> QED BY <1>1, <1>2, <1>3, <1>4, <1>5, <1>6, <1>7 DEF Next, Boot

(* Every variable of the daemon keeps its type.                            *)
THEOREM TypeCorrect == Spec => []TypeOK
BY InitialTypes, StepTypes, PTL DEF Spec

-----------------------------------------------------------------------------
(***************************************************************************)
(* The inductive invariant.                                                *)
(***************************************************************************)
(* A launch waits exactly as long as its task is opening, and a team that  *)
(* was never minted has none; one whose run is over is not driven.         *)
LaunchInv ==
  \A t \in Teams :
    /\ call[t] = "await" <=> drive[t] = "opening"
    /\ call[t] = "ready" => drive[t] \in {"open", "driving"}
    /\ call[t] = "error" => drive[t] = "done"
    /\ t > made => drive[t] = "none" /\ row[t] = "none"
    /\ phase = "down" => drive[t] = "none"
    /\ drive[t] \in {"opening", "open", "driving"} => row[t] # "over"

(* Whoever owns a team was registered once, and has kept its root since.   *)
OwnerInv ==
  /\ \A t \in Teams : t <= made => reg[owner[t]] # "unknown"
  /\ \A p \in Projects : last[p].team # NoTeam =>
       last[p].team <= made /\ owner[last[p].team] = p /\ reg[p] # "unknown"
  /\ \A p \in Projects : reg[p] # "unknown" => root[p] \in Roots

(* run_app's lock.                                                         *)
LockInv ==
  \A t, u \in Teams : t # u /\ HoldsDataDir(t) /\ HoldsDataDir(u) => DataDir(t) # DataDir(u)

(* The input a team was created with is the one recorded for it and the    *)
(* one its task is given.                                                  *)
InputInv ==
  /\ \A t \in Teams :
       /\ drive[t] \in {"opening", "open"} /\ row[t] # "none" => input[t] = rowInput[t]
       /\ drive[t] = "driving" => row[t] # "none" /\ input[t] = rowInput[t]
  /\ \A p \in Projects : last[p].team # NoTeam =>
       /\ row[last[p].team] # "none" => last[p].input = rowInput[last[p].team]
       /\ drive[last[p].team] \in {"opening", "open", "driving"} =>
            last[p].input = input[last[p].team]

(* A team that holds its data directory is in the registry, or the launch  *)
(* that will enter it has not ended.                                       *)
ReachInv ==
  \A t \in Teams : HoldsDataDir(t) => running[owner[t]] = t \/ call[t] # "none"

(* resume_pending has launched nothing for the projects it has not come    *)
(* to, and whatever it could for the others.                               *)
ResumeInv ==
  /\ phase = "resuming" => \A t \in Teams : drive[t] # "none" => owner[t] \notin todo
  /\ phase # "down" => \A p \in Projects :
       reg[p] = "registered" /\ IsResumable(p) /\ (phase = "resuming" => p \notin todo) =>
         drive[last[p].team] # "none"

LEMMA InitialInvariants ==
  Init => LaunchInv /\ OwnerInv /\ LockInv /\ InputInv /\ ReachInv /\ ResumeInv
<1> SUFFICES ASSUME Init
             PROVE  LaunchInv /\ OwnerInv /\ LockInv /\ InputInv /\ ReachInv /\ ResumeInv
  OBVIOUS
<1>1. \A p \in Projects : last[p].team = NoTeam
  BY DEF Init
<1>2. \A t \in Teams : drive[t] = "none" /\ call[t] = "none" /\ row[t] = "none"
  BY DEF Init
<1>3. phase = "down" /\ made = 0 /\ \A p \in Projects : reg[p] = "unknown"
  BY DEF Init
<1> QED
  BY <1>1, <1>2, <1>3 DEF LaunchInv, OwnerInv, LockInv, InputInv, ReachInv, ResumeInv,
    HoldsDataDir, Teams

LEMMA LaunchStep == TypeOK /\ LaunchInv /\ [Next]_vars => LaunchInv'
<1> SUFFICES ASSUME TypeOK, LaunchInv, [Next]_vars PROVE LaunchInv'
  OBVIOUS
<1> USE DEF TypeOK, LaunchInv, store, runs, memory
<1>1. ASSUME NEW p \in Projects, Request(p) PROVE LaunchInv'
  <2>1. CASE Register(p) \/ Deregister(p) \/ Update(p)
    BY <2>1 DEF Register, Deregister, Update
  <2>2. CASE Start(p)
    <3>1. made' \in Teams /\ made' = made + 1
      BY <2>2, FleetAssumption DEF Start, Teams
    <3>2. drive[made'] = "none" /\ row[made'] = "none"
      BY <3>1
    <3> QED BY <2>2, <3>1, <3>2 DEF Start, Launch, Teams
  <2>3. CASE Stop(p)
    BY <2>3 DEF Stop
  <2> QED BY <1>1, <2>1, <2>2, <2>3 DEF Request
<1>2. ASSUME NEW t \in Teams, Drive(t) PROVE LaunchInv'
  <2>1. CASE RunAppOpens(t)
    BY <2>1 DEF RunAppOpens
  <2>2. CASE OpeningFails(t)
    BY <2>2 DEF OpeningFails, TaskDone
  <2>3. CASE SatayStart(t)
    BY <2>3 DEF SatayStart
  <2>4. CASE RunEnds(t)
    BY <2>4 DEF RunEnds, DriveEnds, TaskDone
  <2>5. CASE DriveRaises(t)
    BY <2>5 DEF DriveRaises, DriveEnds, TaskDone
  <2> QED BY <1>2, <2>1, <2>2, <2>3, <2>4, <2>5 DEF Drive
<1>3. ASSUME NEW t \in Teams, Answer(t) PROVE LaunchInv'
  BY <1>3 DEF Answer, Started, StartFailed, Resumed, ResumeFailed
<1>4. CASE Serve \/ OpenHttp
  BY <1>4 DEF Serve, OpenHttp
<1>5. ASSUME NEW p \in Projects, ResumeSkips(p) \/ ResumeLaunches(p) PROVE LaunchInv'
  <2>1. CASE ResumeSkips(p)
    BY <2>1 DEF ResumeSkips
  <2>2. CASE ResumeLaunches(p)
    <3>1. last[p].team \in Teams /\ row[last[p].team] \in {"running", "cancelling"}
      BY <2>2 DEF ResumeLaunches, IsResumable
    <3>2. last[p].team <= made
      BY <3>1 DEF Teams
    <3> QED BY <2>2, <3>1, <3>2 DEF ResumeLaunches, Launch, AtNextProject
  <2> QED BY <1>5, <2>1, <2>2
<1>6. CASE Crash
  BY <1>6 DEF Crash
<1>7. CASE UNCHANGED vars
  BY <1>7 DEF vars
<1> QED BY <1>1, <1>2, <1>3, <1>4, <1>5, <1>6, <1>7 DEF Next, Boot

LEMMA OwnerStep == TypeOK /\ LaunchInv /\ OwnerInv /\ [Next]_vars => OwnerInv'
<1> SUFFICES ASSUME TypeOK, LaunchInv, OwnerInv, [Next]_vars PROVE OwnerInv'
  OBVIOUS
<1> USE DEF TypeOK, OwnerInv, store, runs, memory
<1>1. ASSUME NEW p \in Projects, Request(p) PROVE OwnerInv'
  <2>1. CASE Register(p)
    BY <2>1 DEF Register
  <2>2. CASE Deregister(p) \/ Update(p)
    BY <2>2 DEF Deregister, Update
  <2>3. CASE Start(p)
    <3>1. made' \in Teams /\ made' = made + 1 /\ reg[p] = "registered"
      BY <2>3, FleetAssumption DEF Start, Teams
    <3>2. owner' = [owner EXCEPT ![made'] = p] /\ UNCHANGED <<reg, root, last>>
      BY <2>3 DEF Start
    <3>3. \A q \in Projects : last[q].team # NoTeam => last[q].team \in Teams /\ last[q].team # made'
      BY <3>1 DEF Teams
    <3> QED BY <3>1, <3>2, <3>3 DEF Teams
  <2>4. CASE Stop(p)
    BY <2>4 DEF Stop
  <2> QED BY <1>1, <2>1, <2>2, <2>3, <2>4 DEF Request
<1>2. ASSUME NEW t \in Teams, Drive(t) PROVE OwnerInv'
  BY <1>2 DEF Drive, RunAppOpens, OpeningFails, SatayStart, RunEnds, DriveRaises, DriveEnds
<1>3. ASSUME NEW t \in Teams, Answer(t) PROVE OwnerInv'
  <2>1. CASE Started(t)
    <3>1. t <= made
      BY <2>1 DEF Started, LaunchInv, Teams
    <3> QED BY <2>1, <3>1 DEF Started
  <2>2. CASE StartFailed(t) \/ Resumed(t) \/ ResumeFailed(t)
    BY <2>2 DEF StartFailed, Resumed, ResumeFailed
  <2> QED BY <1>3, <2>1, <2>2 DEF Answer
<1>4. CASE Serve \/ OpenHttp \/ Crash
  BY <1>4 DEF Serve, OpenHttp, Crash
<1>5. ASSUME NEW p \in Projects, ResumeSkips(p) \/ ResumeLaunches(p) PROVE OwnerInv'
  BY <1>5 DEF ResumeSkips, ResumeLaunches
<1>6. CASE UNCHANGED vars
  BY <1>6 DEF vars
<1> QED BY <1>1, <1>2, <1>3, <1>4, <1>5, <1>6 DEF Next, Boot

LEMMA LockStep == TypeOK /\ LaunchInv /\ OwnerInv /\ LockInv /\ [Next]_vars => LockInv'
<1> SUFFICES ASSUME TypeOK, LaunchInv, OwnerInv, LockInv, [Next]_vars PROVE LockInv'
  OBVIOUS
<1> USE DEF TypeOK, LockInv, HoldsDataDir, DataDir, store, runs, memory
<1>1. ASSUME NEW p \in Projects, Request(p) PROVE LockInv'
  <2>1. CASE Register(p)
    <3>1. \A t \in Teams : HoldsDataDir(t) => owner[t] # p
      BY <2>1 DEF Register, LaunchInv, OwnerInv, Teams
    <3> QED BY <2>1, <3>1 DEF Register
  <2>2. CASE Deregister(p) \/ Update(p)
    BY <2>2 DEF Deregister, Update
  <2>3. CASE Start(p)
    <3>1. made' \in Teams
      BY <2>3, FleetAssumption DEF Start, Teams
    <3> QED BY <2>3, <3>1 DEF Start, Launch
  <2>4. CASE Stop(p)
    BY <2>4 DEF Stop
  <2> QED BY <1>1, <2>1, <2>2, <2>3, <2>4 DEF Request
<1>2. ASSUME NEW t \in Teams, Drive(t) PROVE LockInv'
  <2>1. CASE RunAppOpens(t)
    BY <2>1 DEF RunAppOpens
  <2>2. CASE OpeningFails(t)
    BY <2>2 DEF OpeningFails, TaskDone
  <2>3. CASE SatayStart(t)
    BY <2>3 DEF SatayStart
  <2>4. CASE RunEnds(t) \/ DriveRaises(t)
    BY <2>4 DEF RunEnds, DriveRaises, DriveEnds, TaskDone
  <2> QED BY <1>2, <2>1, <2>2, <2>3, <2>4 DEF Drive
<1>3. ASSUME NEW t \in Teams, Answer(t) PROVE LockInv'
  BY <1>3 DEF Answer, Started, StartFailed, Resumed, ResumeFailed
<1>4. CASE Serve \/ OpenHttp \/ Crash
  BY <1>4 DEF Serve, OpenHttp, Crash
<1>5. ASSUME NEW p \in Projects, ResumeSkips(p) \/ ResumeLaunches(p) PROVE LockInv'
  BY <1>5 DEF ResumeSkips, ResumeLaunches, Launch, IsResumable
<1>6. CASE UNCHANGED vars
  BY <1>6 DEF vars
<1> QED BY <1>1, <1>2, <1>3, <1>4, <1>5, <1>6 DEF Next, Boot

LEMMA InputStep ==
  TypeOK /\ LaunchInv /\ OwnerInv /\ InputInv /\ [Next]_vars => InputInv'
<1> SUFFICES ASSUME TypeOK, LaunchInv, OwnerInv, InputInv, [Next]_vars PROVE InputInv'
  OBVIOUS
<1> USE DEF TypeOK, InputInv, store, runs, memory
<1>1. ASSUME NEW p \in Projects, Request(p) PROVE InputInv'
  <2>1. CASE Register(p) \/ Deregister(p) \/ Update(p)
    BY <2>1 DEF Register, Deregister, Update
  <2>2. CASE Start(p)
    <3>1. made' \in Teams /\ made' = made + 1
      BY <2>2, FleetAssumption DEF Start, Teams
    <3>2. row[made'] = "none"
      BY <3>1 DEF LaunchInv
    <3>3. \A q \in Projects : last[q].team # NoTeam => last[q].team \in Teams /\ last[q].team # made'
      BY <3>1 DEF OwnerInv, Teams
    <3> QED BY <2>2, <3>1, <3>2, <3>3 DEF Start, Launch
  <2>3. CASE Stop(p)
    BY <2>3 DEF Stop
  <2> QED BY <1>1, <2>1, <2>2, <2>3 DEF Request
<1>2. ASSUME NEW t \in Teams, Drive(t) PROVE InputInv'
  <2>1. CASE RunAppOpens(t)
    BY <2>1 DEF RunAppOpens
  <2>2. CASE OpeningFails(t)
    BY <2>2 DEF OpeningFails, TaskDone
  <2>3. CASE SatayStart(t)
    BY <2>3 DEF SatayStart
  <2>4. CASE RunEnds(t)
    BY <2>4 DEF RunEnds, DriveEnds, TaskDone
  <2>5. CASE DriveRaises(t)
    BY <2>5 DEF DriveRaises, DriveEnds, TaskDone
  <2> QED BY <1>2, <2>1, <2>2, <2>3, <2>4, <2>5 DEF Drive
<1>3. ASSUME NEW t \in Teams, Answer(t) PROVE InputInv'
  <2>1. CASE Started(t)
    <3>1. drive[t] \in {"open", "driving"}
      BY <2>1 DEF Started, LaunchInv
    <3> QED BY <2>1, <3>1 DEF Started
  <2>2. CASE StartFailed(t) \/ Resumed(t) \/ ResumeFailed(t)
    BY <2>2 DEF StartFailed, Resumed, ResumeFailed
  <2> QED BY <1>3, <2>1, <2>2 DEF Answer
<1>4. CASE Serve \/ OpenHttp
  BY <1>4 DEF Serve, OpenHttp
<1>5. ASSUME NEW p \in Projects, ResumeSkips(p) \/ ResumeLaunches(p) PROVE InputInv'
  <2>1. CASE ResumeSkips(p)
    BY <2>1 DEF ResumeSkips
  <2>2. CASE ResumeLaunches(p)
    <3>1. last[p].team \in Teams /\ owner[last[p].team] = p
      BY <2>2 DEF ResumeLaunches, IsResumable, OwnerInv
    <3>2. \A q \in Projects : last[q].team = last[p].team => q = p
      BY <3>1 DEF OwnerInv, NoTeam, Teams
    <3> QED BY <2>2, <3>1, <3>2 DEF ResumeLaunches, Launch, IsResumable
  <2> QED BY <1>5, <2>1, <2>2
<1>6. CASE Crash
  BY <1>6 DEF Crash
<1>7. CASE UNCHANGED vars
  BY <1>7 DEF vars
<1> QED BY <1>1, <1>2, <1>3, <1>4, <1>5, <1>6, <1>7 DEF Next, Boot

LEMMA ReachStep ==
  TypeOK /\ LaunchInv /\ LockInv /\ ReachInv /\ [Next]_vars => ReachInv'
<1> SUFFICES ASSUME TypeOK, LaunchInv, LockInv, ReachInv, [Next]_vars PROVE ReachInv'
  OBVIOUS
<1> USE DEF TypeOK, ReachInv, HoldsDataDir, store, runs, memory
<1>1. ASSUME NEW p \in Projects, Request(p) PROVE ReachInv'
  <2>1. CASE Register(p) \/ Deregister(p) \/ Update(p) \/ Stop(p)
    BY <2>1 DEF Register, Deregister, Update, Stop
  <2>2. CASE Start(p)
    <3>1. made' \in Teams
      BY <2>2, FleetAssumption DEF Start, Teams
    <3>2. \A t \in Teams : HoldsDataDir(t) /\ running[p] = t => FALSE
      BY <2>2 DEF Start, IsRunning, Teams, NoTeam
    <3> QED BY <2>2, <3>1, <3>2 DEF Start, Launch
  <2> QED BY <1>1, <2>1, <2>2 DEF Request
<1>2. ASSUME NEW t \in Teams, Drive(t) PROVE ReachInv'
  <2>1. CASE RunAppOpens(t)
    BY <2>1 DEF RunAppOpens
  <2>2. CASE OpeningFails(t)
    BY <2>2 DEF OpeningFails, TaskDone
  <2>3. CASE SatayStart(t)
    BY <2>3 DEF SatayStart
  <2>4. CASE RunEnds(t) \/ DriveRaises(t)
    BY <2>4 DEF RunEnds, DriveRaises, DriveEnds, TaskDone
  <2> QED BY <1>2, <2>1, <2>2, <2>3, <2>4 DEF Drive
<1>3. ASSUME NEW t \in Teams, Answer(t) PROVE ReachInv'
  <2>1. CASE Started(t) \/ Resumed(t)
    <3>1. HoldsDataDir(t)
      BY <2>1 DEF Started, Resumed, LaunchInv
    <3>2. \A u \in Teams : u # t /\ HoldsDataDir(u) => owner[u] # owner[t]
      BY <3>1 DEF LockInv, DataDir
    <3> QED BY <2>1, <3>1, <3>2 DEF Started, Resumed
  <2>2. CASE StartFailed(t) \/ ResumeFailed(t)
    BY <2>2 DEF StartFailed, ResumeFailed, LaunchInv
  <2> QED BY <1>3, <2>1, <2>2 DEF Answer
<1>4. CASE Serve \/ OpenHttp \/ Crash
  BY <1>4 DEF Serve, OpenHttp, Crash
<1>5. ASSUME NEW p \in Projects, ResumeSkips(p) \/ ResumeLaunches(p) PROVE ReachInv'
  BY <1>5 DEF ResumeSkips, ResumeLaunches, Launch, IsResumable
<1>6. CASE UNCHANGED vars
  BY <1>6 DEF vars
<1> QED BY <1>1, <1>2, <1>3, <1>4, <1>5, <1>6 DEF Next, Boot

LEMMA ResumeStep ==
  TypeOK /\ LaunchInv /\ OwnerInv /\ ResumeInv /\ [Next]_vars => ResumeInv'
<1> SUFFICES ASSUME TypeOK, LaunchInv, OwnerInv, ResumeInv, [Next]_vars PROVE ResumeInv'
  OBVIOUS
<1> USE DEF TypeOK, ResumeInv, IsResumable, store, runs, memory
<1>1. ASSUME NEW p \in Projects, Request(p) PROVE ResumeInv'
  <2>1. CASE Register(p)
    <3>1. last[p].team = NoTeam
      BY <2>1 DEF Register, OwnerInv
    <3> QED BY <2>1, <3>1 DEF Register
  <2>2. CASE Deregister(p) \/ Update(p)
    BY <2>2 DEF Deregister, Update
  <2>3. CASE Start(p)
    <3>1. made' \in Teams /\ made' = made + 1
      BY <2>3, FleetAssumption DEF Start, Teams
    <3> QED BY <2>3, <3>1 DEF Start, Launch
  <2>4. CASE Stop(p)
    BY <2>4 DEF Stop
  <2> QED BY <1>1, <2>1, <2>2, <2>3, <2>4 DEF Request
<1>2. ASSUME NEW t \in Teams, Drive(t) PROVE ResumeInv'
  <2>1. CASE RunAppOpens(t)
    BY <2>1 DEF RunAppOpens
  <2>2. CASE OpeningFails(t)
    BY <2>2 DEF OpeningFails, TaskDone
  <2>3. CASE SatayStart(t)
    BY <2>3 DEF SatayStart
  <2>4. CASE RunEnds(t) \/ DriveRaises(t)
    BY <2>4 DEF RunEnds, DriveRaises, DriveEnds, TaskDone
  <2> QED BY <1>2, <2>1, <2>2, <2>3, <2>4 DEF Drive
<1>3. ASSUME NEW t \in Teams, Answer(t) PROVE ResumeInv'
  <2>1. CASE Started(t)
    <3>1. drive[t] # "none"
      BY <2>1 DEF Started, LaunchInv
    <3> QED BY <2>1, <3>1 DEF Started
  <2>2. CASE StartFailed(t) \/ Resumed(t) \/ ResumeFailed(t)
    BY <2>2 DEF StartFailed, Resumed, ResumeFailed
  <2> QED BY <1>3, <2>1, <2>2 DEF Answer
<1>4. CASE Serve
  BY <1>4 DEF Serve, LaunchInv
<1>5. CASE OpenHttp
  BY <1>5 DEF OpenHttp, AtNextProject
<1>6. ASSUME NEW p \in Projects, ResumeSkips(p) \/ ResumeLaunches(p) PROVE ResumeInv'
  <2>1. CASE ResumeSkips(p)
    BY <2>1 DEF ResumeSkips
  <2>2. CASE ResumeLaunches(p)
    <3>1. last[p].team \in Teams /\ owner[last[p].team] = p
      BY <2>2 DEF ResumeLaunches, OwnerInv
    <3> QED BY <2>2, <3>1 DEF ResumeLaunches, Launch
  <2> QED BY <1>6, <2>1, <2>2
<1>7. CASE Crash
  BY <1>7 DEF Crash
<1>8. CASE UNCHANGED vars
  BY <1>8 DEF vars
<1> QED BY <1>1, <1>2, <1>3, <1>4, <1>5, <1>6, <1>7, <1>8 DEF Next, Boot

IInv ==
  TypeOK /\ LaunchInv /\ OwnerInv /\ LockInv /\ InputInv /\ ReachInv /\ ResumeInv

LEMMA Invariance == Spec => []IInv
<1>1. Init => IInv
  BY InitialTypes, InitialInvariants DEF IInv
<1>2. IInv /\ [Next]_vars => IInv'
  BY StepTypes, LaunchStep, OwnerStep, LockStep, InputStep, ReachStep, ResumeStep DEF IInv
<1> QED BY <1>1, <1>2, PTL DEF Spec

-----------------------------------------------------------------------------
(***************************************************************************)
(* The theorems.                                                           *)
(***************************************************************************)
(* No interleaving of starts, deregistrations, failures and crashes leaves *)
(* a team running that stop and steer do not reach, or are not about to.   *)
THEOREM Reachability == Spec => []LiveTeamsAreReachable
<1>1. IInv => LiveTeamsAreReachable
  BY DEF IInv, ReachInv, HoldsDataDir, LiveTeamsAreReachable, Live
<1> QED BY <1>1, Invariance, PTL

(* Every run is driven with the input it was created with, whatever was    *)
(* updated since and however often it was resumed.                         *)
THEOREM IdenticalResume == Spec => []ResumeIsIdentical
<1>1. IInv => ResumeIsIdentical
  BY DEF IInv, InputInv, ResumeIsIdentical
<1> QED BY <1>1, Invariance, PTL

(* Once the HTTP surface is open, the last team of every registered        *)
(* project is terminal or was taken up by this process.                    *)
THEOREM NoneLeftBehind == Spec => []NoTeamLeftBehind
<1>1. IInv => NoTeamLeftBehind
  BY DEF IInv, ResumeInv, NoTeamLeftBehind
<1> QED BY <1>1, Invariance, PTL

-----------------------------------------------------------------------------
(***************************************************************************)
(* The daemon implements TeamRuns.                                         *)
(***************************************************************************)
Checkout == [t \in Teams |-> IF row[t] = "none" THEN NoRoot ELSE root[owner[t]]]
LiveTeams == {t \in Teams : Live(t)}
Ended == {t \in Teams : row[t] = "over"}

Stutters == UNCHANGED <<Checkout, LiveTeams, Ended>>

(* Requests, launches and answers are no steps of TeamRuns: a team that    *)
(* has a row keeps its checkout although its project may be deregistered.  *)
LEMMA RequestsStutter ==
  ASSUME IInv, NEW p \in Projects, Request(p) PROVE Stutters
<1> USE DEF IInv, TypeOK, Stutters, Checkout, LiveTeams, Ended, Live, store, runs, memory
<1>1. CASE Register(p)
  <2>1. \A t \in Teams : row[t] # "none" => owner[t] # p
    BY <1>1 DEF Register, LaunchInv, OwnerInv, Teams
  <2> QED BY <1>1, <2>1 DEF Register
<1>2. CASE Deregister(p) \/ Update(p)
  BY <1>2 DEF Deregister, Update
<1>3. CASE Start(p)
  <2>1. made' \in Teams /\ made' = made + 1
    BY <1>3, FleetAssumption DEF Start, Teams
  <2>2. row[made'] = "none" /\ drive[made'] = "none"
    BY <2>1 DEF LaunchInv
  <2> QED BY <1>3, <2>1, <2>2 DEF Start, Launch
<1>4. CASE Stop(p)
  BY <1>4 DEF Stop, IsRunning
<1> QED BY <1>1, <1>2, <1>3, <1>4 DEF Request

LEMMA OthersStutter ==
  ASSUME IInv,
         \/ Serve \/ OpenHttp
         \/ \E p \in Projects : ResumeSkips(p) \/ ResumeLaunches(p)
         \/ \E t \in Teams : RunAppOpens(t) \/ OpeningFails(t) \/ Answer(t)
         \/ UNCHANGED vars
  PROVE  Stutters
<1> USE DEF IInv, TypeOK, Stutters, Checkout, LiveTeams, Ended, Live, store, runs, memory
<1>1. CASE Serve \/ OpenHttp
  BY <1>1 DEF Serve, OpenHttp
<1>2. CASE \E p \in Projects : ResumeSkips(p) \/ ResumeLaunches(p)
  <2>1. PICK p \in Projects : ResumeSkips(p) \/ ResumeLaunches(p)
    BY <1>2
  <2>2. CASE ResumeSkips(p)
    BY <2>2 DEF ResumeSkips
  <2>3. CASE ResumeLaunches(p)
    <3>1. last[p].team \in Teams /\ call[last[p].team] = "none"
      BY <2>3 DEF ResumeLaunches, IsResumable, AtNextProject
    <3>2. drive[last[p].team] # "driving"
      BY <2>3, <3>1 DEF ResumeLaunches, IsResumable, ResumeInv, OwnerInv, AtNextProject
    <3> QED BY <2>3, <3>1, <3>2 DEF ResumeLaunches, Launch
  <2> QED BY <2>1, <2>2, <2>3
<1>3. CASE \E t \in Teams : RunAppOpens(t) \/ OpeningFails(t) \/ Answer(t)
  BY <1>3 DEF RunAppOpens, OpeningFails, TaskDone, Answer, Started, StartFailed, Resumed,
    ResumeFailed
<1>4. CASE UNCHANGED vars
  BY <1>4 DEF vars
<1> QED BY <1>1, <1>2, <1>3, <1>4

(* satay.start begins a run on a checkout that is free, or resumes one     *)
(* whose checkout is: the data directory's lock is what both rest on.      *)
LEMMA SatayStartBegins ==
  ASSUME IInv, NEW t \in Teams, SatayStart(t) PROVE Promise!Begin(t) \/ Promise!Resume(t)
<1> USE DEF IInv, TypeOK, Live, store, runs, memory
<1>1. owner[t] \in Projects /\ root[owner[t]] \in Roots /\ row[t] # "over"
  BY DEF SatayStart, LaunchInv, OwnerInv, Teams
<1>2. \A u \in Teams : Live(u) => u # t /\ root[owner[u]] # root[owner[t]] /\ row[u] # "none"
  BY DEF SatayStart, LockInv, InputInv, HoldsDataDir, DataDir
<1>3. LiveTeams' = LiveTeams \cup {t}
  BY DEF SatayStart, LiveTeams
<1>4. Ended' = Ended
  BY <1>1 DEF SatayStart, Ended
<1>5. \A u \in LiveTeams : Checkout[u] # root[owner[t]]
  BY <1>2 DEF LiveTeams, Checkout
<1>6. CASE row[t] = "none"
  <2>1. Checkout[t] = NoRoot /\ Checkout' = [Checkout EXCEPT ![t] = root[owner[t]]]
    BY <1>6 DEF SatayStart, Checkout
  <2> QED BY <1>1, <1>3, <1>4, <1>5, <2>1 DEF Promise!Begin, Promise!Free, Checkout, LiveTeams, Ended
<1>7. CASE row[t] # "none"
  <2>1. Checkout[t] = root[owner[t]] /\ Checkout' = Checkout
    BY <1>7 DEF SatayStart, Checkout
  <2>2. Checkout[t] # NoRoot
    BY <1>1, <2>1, FleetAssumption
  <2>3. t \notin LiveTeams \cup Ended
    BY <1>1, <1>2 DEF LiveTeams, Ended
  <2> QED BY <1>3, <1>4, <1>5, <2>1, <2>2, <2>3
        DEF Promise!Resume, Promise!Free, Checkout, LiveTeams, Ended
<1> QED BY <1>6, <1>7

LEMMA RunEndsEnds ==
  ASSUME IInv, NEW t \in Teams, RunEnds(t) PROVE Promise!End(t)
<1> USE DEF IInv, TypeOK, Live, store, runs, memory
<1>1. t \in LiveTeams /\ LiveTeams' = LiveTeams \ {t}
  BY DEF RunEnds, DriveEnds, TaskDone, LiveTeams
<1>2. Ended' = Ended \cup {t}
  BY DEF RunEnds, Ended
<1>3. row[t] # "none"
  BY DEF RunEnds, InputInv
<1>4. Checkout' = Checkout
  BY <1>3 DEF RunEnds, Checkout
<1> QED BY <1>1, <1>2, <1>4 DEF Promise!End, Checkout, LiveTeams, Ended

LEMMA InterruptsOrStutters ==
  ASSUME IInv, Crash \/ \E t \in Teams : DriveRaises(t)
  PROVE  Promise!Interrupt \/ Stutters
<1> USE DEF IInv, TypeOK, Live, store, runs, memory
<1>1. Checkout' = Checkout /\ Ended' = Ended
  BY DEF Crash, DriveRaises, Checkout, Ended
<1>2. LiveTeams' \subseteq LiveTeams
  BY DEF Crash, DriveRaises, DriveEnds, TaskDone, LiveTeams
<1>3. CASE LiveTeams = {}
  BY <1>1, <1>2, <1>3 DEF Stutters
<1>4. CASE LiveTeams # {}
  BY <1>1, <1>2, <1>4 DEF Promise!Interrupt, Checkout, LiveTeams, Ended
<1> QED BY <1>3, <1>4

(* However starts, crashes and resumes fall, a run begins once, ends at    *)
(* most once, and never shares its checkout with another that is driven.   *)
THEOREM Implementation == Spec => ImplementsTeamRuns
<1>1. Init => Promise!Init
  BY DEF Init, Promise!Init, Live
<1>2. Stutters => UNCHANGED Promise!vars
  BY DEF Stutters, Promise!vars, Checkout, LiveTeams, Ended
<1>3. IInv /\ [Next]_vars => [Promise!Next]_(Promise!vars)
  <2> SUFFICES ASSUME IInv, [Next]_vars PROVE Promise!Next \/ Stutters
    BY <1>2
  <2>1. CASE \E p \in Projects : Request(p)
    BY <2>1, RequestsStutter
  <2>2. CASE \E t \in Teams : SatayStart(t)
    BY <2>2, SatayStartBegins DEF Promise!Next
  <2>3. CASE \E t \in Teams : RunEnds(t)
    BY <2>3, RunEndsEnds DEF Promise!Next
  <2>4. CASE Crash \/ \E t \in Teams : DriveRaises(t)
    BY <2>4, InterruptsOrStutters DEF Promise!Next
  <2>5. CASE \/ Serve \/ Boot \/ UNCHANGED vars
             \/ \E t \in Teams : RunAppOpens(t) \/ OpeningFails(t) \/ Answer(t)
    BY <2>5, OthersStutter DEF Boot
  <2> QED BY <2>1, <2>2, <2>3, <2>4, <2>5 DEF Next, Drive
<1> QED BY <1>1, <1>3, Invariance, PTL DEF Spec, ImplementsTeamRuns, Promise!Spec
=============================================================================
