---------------------------- MODULE RunTeamProofs ----------------------------
(***************************************************************************)
(* Proofs about RunTeam, for every number of roles, either dispatch, every *)
(* token budget, set of faults, number of messages and number of crashes.  *)
(***************************************************************************)
EXTENDS RunTeam, FiniteSetTheorems, TLAPS

(* One append adds one element, after the others.                          *)
LEMMA AppendLast ==
  ASSUME NEW S, NEW s \in Seq(S), NEW e \in S
  PROVE  /\ Append(s, e) \in Seq(S)
         /\ Len(Append(s, e)) = Len(s) + 1
         /\ \A i \in 1 .. Len(s) : Append(s, e)[i] = s[i]
         /\ Append(s, e)[Len(s) + 1] = e
OBVIOUS

(* What replay removes from the list of uncommitted exceptions.            *)
LEMMA RemovalKeeps ==
  ASSUME NEW S, NEW s \in Seq(S), NEW i \in DOMAIN s
  PROVE  /\ Without(s, i) \in Seq(S)
         /\ \A a \in DOMAIN Without(s, i) : \E b \in DOMAIN s :
              b # i /\ Without(s, i)[a] = s[b] /\ b = IF a < i THEN a ELSE a + 1
         /\ \A b \in DOMAIN s :
              b # i => \E a \in DOMAIN Without(s, i) : Without(s, i)[a] = s[b]
<1> DEFINE t == Without(s, i)
<1>1. /\ i \in 1 .. Len(s) /\ Len(s) \in Nat /\ DOMAIN s = 1 .. Len(s) /\ DOMAIN t = 1 .. Len(s) - 1
      /\ \A b \in 1 .. Len(s) : s[b] \in S
      /\ \A a \in 1 .. Len(s) - 1 : t[a] = s[IF a < i THEN a ELSE a + 1]
  BY DEF Without
<1>2. t \in Seq(S)
  <2>1. \A a \in 1 .. Len(s) - 1 : (IF a < i THEN a ELSE a + 1) \in 1 .. Len(s)
    BY <1>1
  <2>2. t \in [1 .. Len(s) - 1 -> S] /\ Len(s) - 1 \in Nat
    BY <1>1, <2>1 DEF Without
  <2> QED BY <2>2
<1>3. ASSUME NEW a \in DOMAIN t
      PROVE  \E b \in DOMAIN s : b # i /\ t[a] = s[b] /\ b = IF a < i THEN a ELSE a + 1
  BY <1>1
<1>4. ASSUME NEW b \in DOMAIN s, b # i PROVE \E a \in DOMAIN t : t[a] = s[b]
  <2>1. CASE b < i
    BY <1>1, <2>1
  <2>2. CASE b > i
    <3>1. b - 1 \in 1 .. Len(s) - 1 /\ ~(b - 1 < i) /\ (b - 1) + 1 = b
      BY <1>1, <2>2
    <3> QED BY <1>1, <3>1
  <2> QED BY <1>1, <1>4, <2>1, <2>2
<1> QED BY <1>2, <1>3, <1>4

-----------------------------------------------------------------------------
(* The flags of the process, and everything else.                          *)
HostTypes ==
  /\ kopicode \in BOOLEAN /\ up \in BOOLEAN /\ landed \in BOOLEAN
  /\ running \subseteq Roles /\ loose \in Seq(Roles) /\ redo \in Seq(Roles)
  /\ crashes \in 0 .. MaxCrashes /\ orphans \in Nat

LoopTypes ==
  /\ pc \in Calls /\ site \in {"start", "round", "end"}
  /\ who \in Roles /\ active \subseteq Roles /\ next \subseteq Roles
  /\ run \in {"running", "returned", "raised"}

DataTypes ==
  /\ round \in [Roles -> Nat \ {0}]
  /\ outcome \in [Roles -> Verdicts \cup {"none", "error"}]
  /\ final \in [Roles -> Verdicts \cup {"none", "error"}]
  /\ raw \in [Roles -> SUBSET Nat] /\ told \in [Roles -> SUBSET (Roles \X Nat)]
  /\ window \subseteq DOMAIN journal /\ msg \in Nat
  /\ journal \in Seq(Event)
  /\ inbox \in [Roles -> Seq(Nat)] /\ sent \in Seq(Roles)

LEMMA TypesSplit == TypeOK <=> HostTypes /\ LoopTypes /\ DataTypes
BY DEF TypeOK, HostTypes, LoopTypes, DataTypes

LEMMA PendingEventType == LoopTypes /\ DataTypes => PendingEvent \in Event
<1> SUFFICES ASSUME LoopTypes, DataTypes PROVE PendingEvent \in Event
  OBVIOUS
<1>1. PendingKind \in EventKinds
  BY DEF LoopTypes, DataTypes, Calls, AppendCalls, PendingKind, OutcomeKind, EventKinds,
    LifecycleKinds, OutcomeKinds, TerminalKinds, Verdicts
<1>2. \A i \in window : journal[i] \in Event
  BY DEF DataTypes
<1>3. <<who, round[who]>> \in Roles \X Nat
  BY DEF LoopTypes, DataTypes
<1>4. TextTells \in SUBSET (Roles \X Nat)
  <2>1. told[who] \in SUBSET (Roles \X Nat)
    BY DEF LoopTypes, DataTypes
  <2>2. \A i \in window : journal[i].tells \in SUBSET (Roles \X Nat)
    BY <1>2 DEF Event
  <2> QED BY <1>3, <2>1, <2>2 DEF TextTells
<1>5. window \in SUBSET Nat
  BY DEF DataTypes
<1> QED BY <1>1, <1>4, <1>5 DEF LoopTypes, DataTypes, PendingEvent, Event

LEMMA SomeRole == 1 \in Roles /\ Roles \subseteq Nat
BY RunTeamAssumption DEF Roles

LEMMA NextRole == ASSUME LoopTypes, After(Roles) # {} PROVE who + 1 \in Roles
BY RunTeamAssumption DEF After, Roles, LoopTypes

LEMMA InitialTypes == Init => TypeOK
<1> SUFFICES ASSUME Init PROVE HostTypes /\ LoopTypes /\ DataTypes
  BY TypesSplit
<1>1. HostTypes
  <2>1. kopicode \in BOOLEAN /\ up \in BOOLEAN /\ landed \in BOOLEAN
    BY DEF Init
  <2>2. /\ running \subseteq Roles /\ loose \in Seq(Roles) /\ redo \in Seq(Roles)
        /\ crashes \in 0 .. MaxCrashes /\ orphans \in Nat
    BY RunTeamAssumption DEF Init
  <2> QED BY <2>1, <2>2 DEF HostTypes
<1>2. LoopTypes
  BY SomeRole DEF Init, LoopTypes, Calls, AppendCalls
<1>3. DataTypes
  BY DEF Init, DataTypes, Event
<1> QED BY <1>1, <1>2, <1>3

LEMMA NextReportTypes ==
  ASSUME LoopTypes, NEW nx \in SUBSET Roles, NextReport(nx)
  PROVE  /\ pc' \in {"outcome", "started", "terminal"} /\ who' \in Roles
         /\ active' \subseteq Roles /\ next' \subseteq Roles
BY SomeRole DEF LoopTypes, NextReport, First, After

LEMMA LeaveHandoverTypes ==
  ASSUME LoopTypes, DataTypes, NEW fired \in BOOLEAN, LeaveHandover(fired)
  PROVE  /\ pc' \in {"submit", "outcome", "poll", "started", "terminal", "return"}
         /\ site' = site /\ who' \in Roles
         /\ active' \subseteq Roles /\ next' \subseteq Roles /\ raw' \in [Roles -> SUBSET Nat]
<1>1. CASE site = "round"
  <2>1. raw' \in [Roles -> SUBSET Nat]
    BY <1>1 DEF LeaveHandover, DataTypes, LoopTypes
  <2>2. CASE Steerable
    BY <1>1, <2>1, <2>2 DEF LeaveHandover, LoopTypes
  <2>3. CASE ~Steerable
    <3>1. NextReport(next) /\ site' = site
      BY <1>1, <2>3 DEF LeaveHandover
    <3>2. next \in SUBSET Roles
      BY DEF LoopTypes
    <3> QED BY <2>1, <3>1, <3>2, NextReportTypes
  <2> QED BY <2>2, <2>3
<1>2. CASE site # "round"
  BY <1>2, SomeRole, NextRole DEF LeaveHandover, LoopTypes, DataTypes
<1> QED BY <1>1, <1>2

LEMMA StepLoopTypes == LoopTypes /\ DataTypes /\ [Next]_vars => LoopTypes'
<1> SUFFICES ASSUME LoopTypes, DataTypes, [Next]_vars PROVE LoopTypes'
  OBVIOUS
<1> USE DEF body, host, world
<1>1. CASE AppendEvent \/ InvokeAgain \/ ErrorAgain \/ Resume \/ Crash \/ ReturnsInstead
           \/ Return \/ CallRaises \/ (\E r \in Roles : InvokeBackend(r) \/ SendSteering(r))
           \/ UNCHANGED vars
  <2>1. UNCHANGED <<pc, site, who, active, next>>
    BY <1>1 DEF AppendEvent, InvokeAgain, ErrorAgain, Resume, Crash, CrashTo, ReturnsInstead,
      Return, CallRaises, InvokeBackend, SendSteering, vars
  <2>2. run' \in {"running", "returned", "raised"}
    BY <1>1 DEF AppendEvent, InvokeAgain, ErrorAgain, Resume, Crash, CrashTo, ReturnsInstead,
      Return, CallRaises, InvokeBackend, SendSteering, vars, LoopTypes
  <2> QED BY <2>1, <2>2 DEF LoopTypes
<1>2. CASE ReadWindow
  <2>1. UNCHANGED run /\ (LeaveHandover(FALSE) \/ (pc' = "llm" /\ UNCHANGED <<site, who, active, next>>))
    BY <1>2 DEF ReadWindow
  <2> QED BY <2>1, LeaveHandoverTypes DEF LoopTypes, Calls, AppendCalls
<1>3. CASE HandoverWritten
  <2>1. UNCHANGED run /\ LeaveHandover(TRUE)
    BY <1>3 DEF HandoverWritten
  <2> QED BY <2>1, LeaveHandoverTypes DEF LoopTypes, Calls, AppendCalls
<1>4. CASE CallLlm \/ TaskSubmitted \/ SteeringHit \/ SteeringJournaled \/ TaskEnded
  BY <1>4 DEF CallLlm, TaskSubmitted, SteeringHit, SteeringJournaled, TaskEnded, LoopTypes, Calls,
    AppendCalls
<1>5. CASE DelegationStarted
  BY <1>5 DEF DelegationStarted, LoopTypes, Calls, AppendCalls, First, After
<1>6. CASE DelegationReported
  <2>1. UNCHANGED run
    BY <1>6 DEF DelegationReported
  <2>2. CASE outcome[who] = "error"
    <3>1. NextReport(next) /\ UNCHANGED site /\ next \in SUBSET Roles
      BY <1>6, <2>2 DEF DelegationReported, LoopTypes
    <3> QED BY <2>1, <3>1, NextReportTypes DEF LoopTypes, Calls, AppendCalls
  <2>3. CASE outcome[who] # "error"
    BY <1>6, <2>3 DEF DelegationReported, LoopTypes, Calls, AppendCalls
  <2> QED BY <2>2, <2>3
<1>7. CASE SteeringMiss
  <2>1. UNCHANGED <<run, site>> /\ NextReport(next) /\ next \in SUBSET Roles
    BY <1>7 DEF SteeringMiss, LoopTypes
  <2> QED BY <2>1, NextReportTypes DEF LoopTypes, Calls, AppendCalls
<1>8. CASE ComposeRound
  <2>1. UNCHANGED <<run, site>> /\ NextReport(next \cup {who}) /\ next \cup {who} \in SUBSET Roles
    BY <1>8 DEF ComposeRound, LoopTypes
  <2> QED BY <2>1, NextReportTypes DEF LoopTypes, Calls, AppendCalls
<1>9. CASE \E r \in Roles : BackendReturns(r) \/ BackendErrors(r)
  <2>1. PICK r \in Roles, v \in Verdicts \cup {"error"} : Answer(r, v)
    BY <1>9 DEF BackendReturns, BackendErrors
  <2> QED BY <2>1 DEF Answer, LoopTypes, Calls, AppendCalls, First
<1> QED
  BY <1>1, <1>2, <1>3, <1>4, <1>5, <1>6, <1>7, <1>8, <1>9 DEF Next, Body, Handover, Replay

LEMMA RolesFinite == IsFiniteSet(Roles)
BY RunTeamAssumption, FS_Interval DEF Roles

LEMMA StepHostTypes == HostTypes /\ LoopTypes /\ [Next]_vars => HostTypes'
<1> SUFFICES ASSUME HostTypes, LoopTypes, [Next]_vars PROVE HostTypes'
  OBVIOUS
<1>1. UNCHANGED kopicode /\ up' \in BOOLEAN /\ landed' \in BOOLEAN
  BY Zenon DEF HostTypes, vars, host, world, Next, Body, Handover, Replay, AppendEvent,
    ReadWindow, CallLlm, HandoverWritten, TaskSubmitted, DelegationStarted, InvokeBackend,
    BackendReturns, BackendErrors, Answer, DelegationReported, SteeringHit, SteeringMiss,
    SteeringJournaled, ComposeRound, TaskEnded, Return, CallRaises, Crash, CrashTo, Resume,
    InvokeAgain, ErrorAgain, ReturnsInstead, SendSteering, Commit
<1>2. crashes' \in 0 .. MaxCrashes /\ orphans' \in Nat
  <2>1. CASE Crash
    <3>1. Cardinality(running) \in Nat
      BY RolesFinite, FS_Subset, FS_CardinalityType DEF HostTypes
    <3> QED BY <2>1, <3>1, RunTeamAssumption DEF Crash, CrashTo, HostTypes
  <2>2. CASE ~Crash
    <3>1. UNCHANGED <<crashes, orphans>>
      BY <2>2, Zenon DEF vars, host, world, Next, Body, Handover, Replay, AppendEvent, ReadWindow,
        CallLlm, HandoverWritten, TaskSubmitted, DelegationStarted, InvokeBackend, BackendReturns,
        BackendErrors, Answer, DelegationReported, SteeringHit, SteeringMiss, SteeringJournaled,
        ComposeRound, TaskEnded, Return, CallRaises, Resume, InvokeAgain, ErrorAgain,
        ReturnsInstead, SendSteering, Commit
    <3> QED BY <3>1 DEF HostTypes
  <2> QED BY <2>1, <2>2
<1>3. running' \subseteq Roles /\ loose' \in Seq(Roles) /\ redo' \in Seq(Roles)
  <2>1. CASE \E r \in Roles : InvokeBackend(r)
    BY <2>1 DEF InvokeBackend, HostTypes
  <2>2. CASE \E r \in Roles : BackendReturns(r) \/ BackendErrors(r)
    <3>0. PICK r \in Roles : BackendReturns(r) \/ BackendErrors(r)
      BY <2>2
    <3>1. /\ running' = running \ {r} /\ UNCHANGED redo
          /\ loose' = loose \/ loose' = Append(loose, r)
      <4>1. CASE BackendReturns(r)
        BY <4>1 DEF BackendReturns, Answer
      <4>2. CASE BackendErrors(r)
        BY <4>2 DEF BackendErrors, Answer
      <4> QED BY <3>0, <4>1, <4>2
    <3>2. loose' \in Seq(Roles)
      BY <3>1, AppendLast DEF HostTypes
    <3> QED BY <3>1, <3>2 DEF HostTypes
  <2>3. CASE Crash
    BY <2>3 DEF Crash, CrashTo, HostTypes
  <2>4. CASE InvokeAgain
    BY <2>4 DEF InvokeAgain, Replaying, HostTypes
  <2>5. CASE ErrorAgain
    BY <2>5 DEF ErrorAgain, Replaying, HostTypes
  <2>6. CASE ReturnsInstead
    <3>1. running' = {} /\ redo' \in Seq(Roles)
      BY <2>6 DEF ReturnsInstead, Replaying, HostTypes
    <3>2. loose' \in Seq(Roles)
      <4>1. CASE UNCHANGED loose
        BY <4>1 DEF HostTypes
      <4>2. CASE \E i \in DOMAIN loose : loose' = Without(loose, i)
        BY <4>2, RemovalKeeps DEF HostTypes
      <4> QED BY <2>6, <4>1, <4>2 DEF ReturnsInstead
    <3> QED BY <3>1, <3>2
  <2>7. CASE UNCHANGED <<running, loose, redo>>
    BY <2>7 DEF HostTypes
  <2> QED
    BY <2>1, <2>2, <2>3, <2>4, <2>5, <2>6, <2>7, Zenon DEF vars, host, Next, Body, Handover,
      Replay, AppendEvent, ReadWindow, CallLlm, HandoverWritten, TaskSubmitted, DelegationStarted,
      DelegationReported, SteeringHit, SteeringMiss, SteeringJournaled, ComposeRound, TaskEnded,
      Return, CallRaises, Resume, SendSteering
<1> QED BY <1>1, <1>2, <1>3 DEF HostTypes

LEMMA StepDataTypes == LoopTypes /\ DataTypes /\ HostTypes /\ [Next]_vars => DataTypes'
<1> SUFFICES ASSUME LoopTypes, DataTypes, HostTypes, [Next]_vars PROVE DataTypes'
  OBVIOUS
<1> USE DEF body, host, world, texts
<1>0. who \in Roles
  BY DEF LoopTypes
<1>1. CASE AppendEvent
  <2>1. journal' \in Seq(Event) /\ DOMAIN journal \subseteq DOMAIN journal'
    BY <1>1, PendingEventType, AppendLast DEF AppendEvent, DataTypes
  <2> QED BY <1>1, <2>1 DEF AppendEvent, DataTypes
<1>2. CASE ReadWindow
  <2>1. window' \subseteq DOMAIN journal
    BY <1>2 DEF ReadWindow, WindowAfter, OwnSeqs
  <2>2. raw' \in [Roles -> SUBSET Nat]
    <3>1. CASE LeaveHandover(FALSE)
      BY <3>1, LeaveHandoverTypes
    <3>2. CASE UNCHANGED raw
      BY <3>2 DEF DataTypes
    <3> QED BY <1>2, <3>1, <3>2 DEF ReadWindow
  <2> QED BY <1>2, <2>1, <2>2 DEF ReadWindow, DataTypes
<1>3. CASE HandoverWritten
  <2>1. raw' \in [Roles -> SUBSET Nat]
    BY <1>3, LeaveHandoverTypes DEF HandoverWritten
  <2> QED BY <1>3, <2>1 DEF HandoverWritten, DataTypes
<1>4. CASE DelegationReported
  <2>1. final' \in [Roles -> Verdicts \cup {"none", "error"}]
    BY <1>0, <1>4 DEF DelegationReported, DataTypes
  <2> QED BY <1>4, <2>1 DEF DelegationReported, DataTypes
<1>5. CASE SteeringHit
  <2>1. inbox[who] \in Seq(Nat) /\ inbox[who] # <<>>
    BY <1>0, <1>5 DEF SteeringHit, DataTypes
  <2>2. Head(inbox[who]) \in Nat /\ Tail(inbox[who]) \in Seq(Nat)
    BY <2>1
  <2> QED BY <1>5, <2>2 DEF SteeringHit, DataTypes
<1>6. CASE SteeringJournaled
  <2>1. raw' \in [Roles -> SUBSET Nat]
    BY <1>0, <1>6 DEF SteeringJournaled, DataTypes
  <2> QED BY <1>6, <2>1 DEF SteeringJournaled, DataTypes
<1>7. CASE ComposeRound
  <2>1. /\ round' \in [Roles -> Nat \ {0}]
        /\ outcome' \in [Roles -> Verdicts \cup {"none", "error"}]
        /\ final' \in [Roles -> Verdicts \cup {"none", "error"}]
    BY <1>0, <1>7 DEF ComposeRound, DataTypes
  <2>2. told' \in [Roles -> SUBSET (Roles \X Nat)]
    <3>1. PICK n \in 0 .. Len(journal) :
            told' = [told EXCEPT ![who] =
                       ({who} \X raw[who]) \cup IF n = 0 THEN {} ELSE journal[n].tells]
      BY <1>7 DEF ComposeRound
    <3>2. n # 0 => journal[n].tells \in SUBSET (Roles \X Nat)
      <4>1. n # 0 => journal[n] \in Event
        BY DEF DataTypes
      <4> QED BY <4>1 DEF Event
    <3>3. {who} \X raw[who] \in SUBSET (Roles \X Nat)
      BY <1>0 DEF DataTypes
    <3>4. ({who} \X raw[who]) \cup (IF n = 0 THEN {} ELSE journal[n].tells) \in SUBSET (Roles \X Nat)
      BY <3>2, <3>3
    <3> QED BY <3>1, <3>4 DEF DataTypes
  <2> QED BY <1>7, <2>1, <2>2 DEF ComposeRound, DataTypes
<1>8. CASE \E r \in Roles : BackendReturns(r) \/ BackendErrors(r)
  <2>1. PICK r \in Roles, v \in Verdicts \cup {"error"} : Answer(r, v)
    BY <1>8 DEF BackendReturns, BackendErrors
  <2>2. outcome' \in [Roles -> Verdicts \cup {"none", "error"}]
    BY <2>1 DEF Answer, DataTypes
  <2> QED BY <2>1, <2>2 DEF Answer, DataTypes
<1>9. CASE ReturnsInstead
  <2>1. outcome' \in [Roles -> Verdicts \cup {"none", "error"}]
    BY <1>9 DEF ReturnsInstead, DataTypes
  <2> QED BY <1>9, <2>1 DEF ReturnsInstead, DataTypes
<1>10. CASE \E r \in Roles : SendSteering(r)
  <2>1. PICK r \in Roles : SendSteering(r)
    BY <1>10
  <2>2. sent' \in Seq(Roles) /\ inbox' \in [Roles -> Seq(Nat)]
    BY <2>1 DEF SendSteering, DataTypes
  <2> QED BY <2>1, <2>2 DEF SendSteering, DataTypes
<1>11. CASE CallLlm \/ TaskSubmitted \/ DelegationStarted \/ SteeringMiss \/ TaskEnded \/ Return
            \/ CallRaises \/ Crash \/ Resume \/ InvokeAgain \/ ErrorAgain \/ UNCHANGED vars
            \/ \E r \in Roles : InvokeBackend(r)
  <2>1. UNCHANGED <<round, outcome, final, raw, told, window, msg, journal, inbox, sent>>
    BY <1>11, Zenon DEF CallLlm, TaskSubmitted, DelegationStarted, SteeringMiss, TaskEnded, Return,
      CallRaises, Crash, CrashTo, Resume, InvokeAgain, ErrorAgain, vars, InvokeBackend
  <2> QED BY <2>1 DEF DataTypes
<1> QED
  BY <1>1, <1>2, <1>3, <1>4, <1>5, <1>6, <1>7, <1>8, <1>9, <1>10, <1>11
  DEF Next, Body, Handover, Replay

(* Every variable of a team's run keeps its type.                          *)
THEOREM TypeCorrect == Spec => []TypeOK
<1>1. Init => HostTypes /\ LoopTypes /\ DataTypes
  BY InitialTypes, TypesSplit
<1>2. HostTypes /\ LoopTypes /\ DataTypes /\ [Next]_vars => (HostTypes /\ LoopTypes /\ DataTypes)'
  BY StepHostTypes, StepLoopTypes, StepDataTypes
<1> QED BY <1>1, <1>2, TypesSplit, PTL DEF Spec

-----------------------------------------------------------------------------
(* Only a journal append can be written and not committed.                 *)
LandedInv == landed => pc \in AppendCalls

LEMMA LandedStep == LandedInv /\ [Next]_vars => LandedInv'
<1> SUFFICES ASSUME LandedInv, [Next]_vars, landed' PROVE pc' \in AppendCalls
  BY DEF LandedInv
<1>1. CASE AppendEvent
  BY <1>1 DEF AppendEvent, body
<1>2. CASE ReadWindow \/ CallLlm \/ SteeringHit \/ SteeringMiss \/ ComposeRound
           \/ \E r \in Roles : BackendReturns(r) \/ BackendErrors(r)
  <2>1. pc \notin AppendCalls \ {"write"} /\ UNCHANGED landed
    BY <1>2 DEF ReadWindow, CallLlm, SteeringHit, SteeringMiss, ComposeRound, BackendReturns,
      BackendErrors, Answer, AppendCalls
  <2>2. pc # "write"
    BY <1>2 DEF ReadWindow, CallLlm, SteeringHit, SteeringMiss, ComposeRound, BackendReturns,
      BackendErrors, Answer
  <2> QED BY <2>1, <2>2 DEF LandedInv
<1>3. CASE Crash
  BY <1>3 DEF Crash, CrashTo
<1>4. CASE UNCHANGED <<pc, landed>>
  BY <1>4 DEF LandedInv
<1>5. CASE HandoverWritten \/ TaskSubmitted \/ DelegationStarted \/ DelegationReported
           \/ SteeringJournaled \/ TaskEnded
  BY <1>5, Zenon DEF HandoverWritten, TaskSubmitted, DelegationStarted, DelegationReported,
    SteeringJournaled, TaskEnded, Commit
<1>6. CASE \/ \E r \in Roles : InvokeBackend(r) \/ SendSteering(r)
           \/ InvokeAgain \/ ErrorAgain \/ ReturnsInstead \/ CallRaises \/ Return \/ Resume
  <2>1. UNCHANGED <<pc, landed>>
    BY <1>6 DEF InvokeBackend, SendSteering, InvokeAgain, ErrorAgain, ReturnsInstead, CallRaises,
      Return, Resume, body
  <2> QED BY <2>1, <1>4
<1> QED
  BY <1>1, <1>2, <1>3, <1>4, <1>5, <1>6, Zenon DEF Next, Body, Handover, Replay, vars, body

(***************************************************************************)
(* OneKopicodeAtATime.  A running backend belongs to a delegation without  *)
(* an outcome, or it is the one that replay runs again.                    *)
(***************************************************************************)
Single(set) == \A a, b \in set : a = b

RunningInv ==
  /\ redo = <<>> => running \subseteq IF pc = "dispatch" THEN Unanswered ELSE {}
  /\ redo # <<>> => running \subseteq {Head(redo)}
  /\ kopicode => Single(running)

LEMMA RunningStep == HostTypes /\ LoopTypes /\ RunningInv /\ [Next]_vars => RunningInv'
<1> SUFFICES ASSUME HostTypes, LoopTypes, RunningInv, [Next]_vars PROVE RunningInv'
  OBVIOUS
<1>0. UNCHANGED kopicode
  BY Zenon DEF vars, host, world, Next, Body, Handover, Replay, AppendEvent,
    ReadWindow, CallLlm, HandoverWritten, TaskSubmitted, DelegationStarted, InvokeBackend,
    BackendReturns, BackendErrors, Answer, DelegationReported, SteeringHit, SteeringMiss,
    SteeringJournaled, ComposeRound, TaskEnded, Return, CallRaises, Crash, CrashTo, Resume,
    InvokeAgain, ErrorAgain, ReturnsInstead, SendSteering
<1>1. CASE \E r \in Roles : InvokeBackend(r)
  <2>1. PICK r \in Roles : InvokeBackend(r)
    BY <1>1
  <2>2. /\ pc = "dispatch" /\ redo = <<>> /\ r \in Unanswered /\ running' = running \cup {r}
        /\ Sequential => running = {}
        /\ UNCHANGED <<pc, active, outcome, redo>>
    BY <2>1 DEF InvokeBackend, Driving, body
  <2>3. running \cup {r} \subseteq Unanswered /\ Unanswered' = Unanswered
    BY <2>2 DEF RunningInv, Unanswered
  <2>4. kopicode => Single(running')
    <3>1. CASE Sequential
      BY <2>2, <3>1 DEF Single
    <3>2. CASE ~Sequential
      BY <2>2, <2>3, <3>2 DEF Single, Sequential, Unanswered
    <3> QED BY <3>1, <3>2
  <2> QED BY <1>0, <2>2, <2>3, <2>4 DEF RunningInv
<1>2. CASE \E r \in Roles : BackendReturns(r) \/ BackendErrors(r)
  <2>1. PICK r \in Roles, v \in Verdicts \cup {"error"} : Answer(r, v)
    BY <1>2 DEF BackendReturns, BackendErrors
  <2>2. /\ pc = "dispatch" /\ redo = <<>> /\ running' = running \ {r}
        /\ outcome' = [outcome EXCEPT ![r] = v]
        /\ IF Unanswered = {r} THEN pc' = "outcome" ELSE UNCHANGED pc
        /\ UNCHANGED <<active, redo>>
    BY <2>1 DEF Answer, Driving
  <2>3. running \subseteq Unanswered
    BY <2>2 DEF RunningInv
  <2>4. \A q \in Unanswered \ {r} : q \in Unanswered'
    BY <2>2 DEF Unanswered
  <2>5. running' \subseteq IF pc' = "dispatch" THEN Unanswered' ELSE {}
    BY <2>2, <2>3, <2>4
  <2> QED BY <1>0, <2>2, <2>5 DEF RunningInv, Single
<1>3. CASE Crash \/ ErrorAgain \/ ReturnsInstead
  <2>1. running' = {}
    BY <1>3 DEF Crash, CrashTo, ErrorAgain, ReturnsInstead
  <2> QED BY <2>1 DEF RunningInv, Single
<1>4. CASE InvokeAgain
  BY <1>0, <1>4 DEF InvokeAgain, Replaying, RunningInv, Single
<1>5. CASE UNCHANGED <<running, redo, pc, active, outcome>>
  BY <1>0, <1>5 DEF RunningInv, Unanswered
<1>6. CASE ReadWindow \/ CallLlm \/ HandoverWritten \/ TaskSubmitted \/ DelegationStarted
           \/ DelegationReported \/ SteeringHit \/ SteeringMiss \/ SteeringJournaled
           \/ ComposeRound \/ TaskEnded
  <2>1. pc # "dispatch" /\ redo = <<>> /\ UNCHANGED <<running, redo>>
    BY <1>6 DEF ReadWindow, CallLlm, HandoverWritten, TaskSubmitted, DelegationStarted,
      DelegationReported, SteeringHit, SteeringMiss, SteeringJournaled, ComposeRound, TaskEnded,
      Commit, Driving, host
  <2>2. running' = {}
    BY <2>1 DEF RunningInv
  <2> QED BY <2>2 DEF RunningInv, Single
<1> QED
  BY <1>1, <1>2, <1>3, <1>4, <1>5, <1>6, Zenon DEF Next, Body, Handover, Replay, vars, body, host,
    AppendEvent, Return, CallRaises, Resume, SendSteering

(* Each crash leaves at most the one kopicode session that was at work.    *)
OrphanInv == kopicode => orphans <= crashes

LEMMA SingleIsSmall ==
  ASSUME NEW set, Single(set) PROVE Cardinality(set) \in {0, 1}
<1>1. CASE set = {}
  BY <1>1, FS_EmptySet
<1>2. CASE set # {}
  <2>1. PICK r \in set : set = {r}
    BY <1>2 DEF Single
  <2> QED BY <2>1, FS_Singleton
<1> QED BY <1>1, <1>2

LEMMA OrphanStep == HostTypes /\ RunningInv /\ OrphanInv /\ [Next]_vars => OrphanInv'
<1> SUFFICES ASSUME HostTypes, RunningInv, OrphanInv, [Next]_vars PROVE OrphanInv'
  OBVIOUS
<1>1. CASE Crash
  <2>1. /\ orphans' = orphans + Cardinality(running) /\ crashes' = crashes + 1
        /\ UNCHANGED kopicode
    BY <1>1 DEF Crash, CrashTo
  <2>2. kopicode => Cardinality(running) \in {0, 1}
    BY SingleIsSmall DEF RunningInv
  <2>3. crashes \in Nat /\ orphans \in Nat
    BY RunTeamAssumption DEF HostTypes
  <2> QED BY <2>1, <2>2, <2>3 DEF OrphanInv
<1>2. CASE ~Crash
  <2>1. UNCHANGED <<kopicode, crashes, orphans>>
    BY <1>2, Zenon DEF vars, host, world, Next, Body, Handover, Replay, AppendEvent, ReadWindow,
      CallLlm, HandoverWritten, TaskSubmitted, DelegationStarted, InvokeBackend, BackendReturns,
      BackendErrors, Answer, DelegationReported, SteeringHit, SteeringMiss, SteeringJournaled,
      ComposeRound, TaskEnded, Return, CallRaises, Resume, InvokeAgain, ErrorAgain,
      ReturnsInstead, SendSteering
  <2> QED BY <2>1 DEF OrphanInv
<1> QED BY <1>1, <1>2

(* The kopicode sessions a process starts never overlap, for every number  *)
(* of roles and although replay runs the uncommitted delegations of a      *)
(* crashed process again (team.py 88-97); sessions that crashes left at    *)
(* work are at most one for each crash.                                    *)
THEOREM OneKopicode == Spec => []OneKopicodeAtATime
<1>1. Init => RunningInv /\ OrphanInv
  BY DEF Init, RunningInv, OrphanInv, Single
<1>2. RunningInv /\ OrphanInv => OneKopicodeAtATime
  BY DEF RunningInv, OrphanInv, OneKopicodeAtATime, Single
<1> QED BY <1>1, <1>2, TypeCorrect, TypesSplit, RunningStep, OrphanStep, PTL DEF Spec

(***************************************************************************)
(* NoMessageLost.  The message in the body's hands is journaled before the *)
(* body goes on.                                                           *)
(***************************************************************************)
Queued(m) == \E i \in DOMAIN inbox[sent[m]] : inbox[sent[m]][i] = m

Journaled(r, m) == \E i \in OwnSeqs(journal, r) : journal[i].msg = m

MessageInv ==
  /\ \A m \in DOMAIN sent :
       \/ Queued(m) \/ Journaled(sent[m], m)
       \/ pc = "steer" /\ who = sent[m] /\ msg = m
  /\ pc = "steer" /\ landed => Journaled(who, msg)

(* What is in the journal stays there.                                     *)
LEMMA AppendGrows ==
  ASSUME LoopTypes, DataTypes, AppendEvent
  PROVE  /\ Len(journal) \in Nat /\ Len(journal') = Len(journal) + 1
         /\ DOMAIN journal = 1 .. Len(journal) /\ DOMAIN journal' = 1 .. Len(journal')
         /\ \A i \in DOMAIN journal : i \in DOMAIN journal' /\ journal'[i] = journal[i]
         /\ journal'[Len(journal')] = PendingEvent /\ Len(journal') \in DOMAIN journal'
         /\ journal' \in Seq(Event) /\ PendingEvent \in Event
<1>1. PendingEvent \in Event /\ journal \in Seq(Event) /\ journal' = Append(journal, PendingEvent)
  BY PendingEventType DEF AppendEvent, DataTypes
<1> QED BY <1>1, AppendLast

LEMMA MessageStep ==
  LoopTypes /\ DataTypes /\ LandedInv /\ MessageInv /\ [Next]_vars => MessageInv'
<1> SUFFICES ASSUME LoopTypes, DataTypes, LandedInv, MessageInv, [Next]_vars PROVE MessageInv'
  OBVIOUS
<1>0. /\ who \in Roles /\ sent \in Seq(Roles) /\ inbox \in [Roles -> Seq(Nat)]
      /\ \A m \in DOMAIN sent : sent[m] \in Roles
  BY DEF LoopTypes, DataTypes
<1>1. CASE AppendEvent
  <2>1. UNCHANGED <<pc, who, msg, inbox, sent>>
    BY <1>1 DEF AppendEvent, body
  <2>2. \A r, m : Journaled(r, m) => Journaled(r, m)'
    BY <1>1, AppendGrows DEF Journaled, OwnSeqs
  <2>3. pc = "steer" => Journaled(who, msg)'
    <3>1. pc = "steer" => PendingEvent.role = who /\ PendingEvent.msg = msg
      BY DEF PendingEvent
    <3> QED BY <1>1, <2>1, <3>1, AppendGrows DEF Journaled, OwnSeqs
  <2>4. \A m : Queued(m)' = Queued(m)
    BY <2>1 DEF Queued
  <2> QED BY <2>1, <2>2, <2>3, <2>4 DEF MessageInv
<1>2. CASE SteeringHit
  <2>1. /\ pc = "poll" /\ pc' = "steer" /\ inbox[who] # <<>> /\ ~landed /\ ~landed'
        /\ msg' = Head(inbox[who]) /\ inbox' = [inbox EXCEPT ![who] = Tail(inbox[who])]
        /\ UNCHANGED <<who, journal, sent>>
    BY <1>2 DEF SteeringHit, LandedInv, AppendCalls
  <2>2. \A r, m : Journaled(r, m)' = Journaled(r, m)
    BY <2>1 DEF Journaled
  <2>3. ASSUME NEW m \in DOMAIN sent, Queued(m)
        PROVE  Queued(m)' \/ (pc' = "steer" /\ who' = sent'[m] /\ msg' = m)
    <3>1. PICK i \in DOMAIN inbox[sent[m]] : inbox[sent[m]][i] = m
      BY <2>3 DEF Queued
    <3>2. CASE sent[m] # who
      <4>1. inbox'[sent[m]] = inbox[sent[m]]
        BY <1>0, <2>1, <2>3, <3>2
      <4> QED BY <2>1, <3>1, <4>1 DEF Queued
    <3>3. CASE sent[m] = who
      <4>1. inbox'[who] = Tail(inbox[who]) /\ inbox[who] \in Seq(Nat)
        BY <1>0, <2>1
      <4>2. CASE i = 1
        <5>1. Head(inbox[who]) = inbox[who][1]
          BY <2>1, <4>1
        <5> QED BY <2>1, <3>1, <3>3, <4>2, <5>1
      <4>3. CASE i # 1
        <5>1. i - 1 \in DOMAIN Tail(inbox[who]) /\ Tail(inbox[who])[i - 1] = inbox[who][i]
          BY <2>1, <3>1, <3>3, <4>1, <4>3
        <5> QED BY <2>1, <3>1, <3>3, <4>1, <5>1 DEF Queued
      <4> QED BY <4>2, <4>3
    <3> QED BY <3>2, <3>3
  <2> QED BY <2>1, <2>2, <2>3 DEF MessageInv
<1>3. CASE SteeringJournaled
  <2>1. /\ pc = "steer" /\ landed /\ pc' = "summary" /\ UNCHANGED <<inbox, journal, sent>>
    BY <1>3 DEF SteeringJournaled, Commit, world
  <2>2. Journaled(who, msg)
    BY <2>1 DEF MessageInv
  <2>3. \A r, m : (Journaled(r, m)' = Journaled(r, m)) /\ (Queued(m)' = Queued(m))
    BY <2>1 DEF Journaled, Queued
  <2> QED BY <2>1, <2>2, <2>3 DEF MessageInv
<1>4. CASE \E r \in Roles : SendSteering(r)
  <2>1. PICK r \in Roles : SendSteering(r)
    BY <1>4
  <2>2. /\ sent' = Append(sent, r)
        /\ inbox' = [inbox EXCEPT ![r] = Append(inbox[r], Len(sent) + 1)]
        /\ UNCHANGED <<pc, who, msg, landed, journal>>
    BY <2>1 DEF SendSteering, body
  <2>3. /\ Len(sent) \in Nat /\ Len(sent') = Len(sent) + 1 /\ sent'[Len(sent) + 1] = r
        /\ DOMAIN sent = 1 .. Len(sent) /\ DOMAIN sent' = 1 .. Len(sent')
        /\ \A m \in DOMAIN sent : sent'[m] = sent[m]
    BY <1>0, <2>2, AppendLast
  <2>4. /\ inbox[r] \in Seq(Nat) /\ Len(inbox[r]) \in Nat
        /\ DOMAIN inbox[r] = 1 .. Len(inbox[r])
        /\ inbox'[r] = Append(inbox[r], Len(sent) + 1) /\ Len(sent) + 1 \in Nat
        /\ \A q \in Roles : q # r => inbox'[q] = inbox[q]
    BY <1>0, <2>2, <2>3
  <2>5. /\ \A i \in DOMAIN inbox[r] : i \in DOMAIN inbox'[r] /\ inbox'[r][i] = inbox[r][i]
        /\ Len(inbox[r]) + 1 \in DOMAIN inbox'[r]
        /\ inbox'[r][Len(inbox[r]) + 1] = Len(sent) + 1
    BY <2>4, AppendLast
  <2>6. ASSUME NEW m \in DOMAIN sent, Queued(m) PROVE Queued(m)'
    <3>1. PICK i \in DOMAIN inbox[sent[m]] : inbox[sent[m]][i] = m
      BY <2>6 DEF Queued
    <3>2. i \in DOMAIN inbox'[sent[m]] /\ inbox'[sent[m]][i] = m
      BY <1>0, <2>4, <2>5, <3>1
    <3> QED BY <2>3, <3>2 DEF Queued
  <2>7. \A m : m = Len(sent) + 1 => Queued(m)'
    BY <2>3, <2>5 DEF Queued
  <2>8. \A q, m : Journaled(q, m)' = Journaled(q, m)
    BY <2>2 DEF Journaled
  <2>9. ASSUME NEW m \in DOMAIN sent'
        PROVE  \/ Queued(m)' \/ Journaled(sent[m], m)'
               \/ pc' = "steer" /\ who' = sent'[m] /\ msg' = m
    <3>1. CASE m = Len(sent) + 1
      BY <2>7, <3>1
    <3>2. CASE m # Len(sent) + 1
      <4>1. m \in DOMAIN sent /\ sent'[m] = sent[m]
        BY <2>3, <3>2
      <4> QED BY <2>2, <2>6, <2>8, <4>1 DEF MessageInv
    <3> QED BY <3>1, <3>2
  <2>10. pc' = "steer" /\ landed' => Journaled(who, msg)'
    BY <2>2, <2>8 DEF MessageInv
  <2> QED BY <2>2, <2>9, <2>10 DEF MessageInv
<1>5. CASE UNCHANGED <<inbox, journal, sent>> /\ (pc = "steer" => UNCHANGED <<pc, who, msg>>)
           /\ (pc' = "steer" /\ landed' => pc = "steer" /\ landed)
  <2>1. \A r, m : (Journaled(r, m)' = Journaled(r, m)) /\ (Queued(m)' = Queued(m))
    BY <1>5 DEF Journaled, Queued
  <2> QED BY <1>5, <2>1 DEF MessageInv
<1>6. CASE \/ InvokeAgain \/ ErrorAgain \/ ReturnsInstead \/ CallRaises \/ Return \/ Resume \/ Crash
           \/ UNCHANGED vars \/ \E r \in Roles : InvokeBackend(r)
  BY <1>6, <1>5 DEF InvokeAgain, ErrorAgain, ReturnsInstead, CallRaises, Return, Resume, Crash,
    CrashTo, vars, InvokeBackend, body, world
<1>7. CASE \/ ReadWindow \/ CallLlm \/ HandoverWritten \/ TaskSubmitted \/ DelegationStarted
           \/ DelegationReported \/ SteeringMiss \/ ComposeRound \/ TaskEnded
           \/ \E r \in Roles : BackendReturns(r) \/ BackendErrors(r)
  <2>1. UNCHANGED <<inbox, journal, sent>> /\ pc # "steer"
    BY <1>7 DEF ReadWindow, CallLlm, HandoverWritten, TaskSubmitted, DelegationStarted,
      DelegationReported, SteeringMiss, ComposeRound, TaskEnded, BackendReturns, BackendErrors,
      Answer, Commit, world
  <2>2. pc' # "steer"
    BY <1>7 DEF ReadWindow, CallLlm, HandoverWritten, LeaveHandover, TaskSubmitted,
      DelegationStarted, DelegationReported, SteeringMiss, NextReport, ComposeRound, TaskEnded,
      BackendReturns, BackendErrors, Answer, Commit
  <2> QED BY <1>5, <2>1, <2>2
<1> QED
  BY <1>1, <1>2, <1>3, <1>4, <1>6, <1>7 DEF Next, Body, Handover, Replay

(* An accepted message is queued for its role, in the body's hands, or     *)
(* journaled under it, for every number of roles and messages: no other    *)
(* role's poll, no crash and no round boundary loses it (team.py 258-281). *)
THEOREM NoMessageIsLost == Spec => []NoMessageLost
<1>1. Init => LandedInv /\ MessageInv
  <2>1. Init => sent = <<>> /\ pc = "submit" /\ ~landed
    BY DEF Init
  <2> QED BY <2>1 DEF LandedInv, MessageInv
<1>2. MessageInv => NoMessageLost
  BY DEF MessageInv, NoMessageLost, Queued, Journaled
<1> QED BY <1>1, <1>2, TypeCorrect, TypesSplit, LandedStep, MessageStep, PTL DEF Spec

(***************************************************************************)
(* Where the body is: the three places of a handover, and what the report  *)
(* loop knows of the roles it has yet to visit.                            *)
(***************************************************************************)
Handing == {"read", "llm", "write"}

AtStart == pc = "submit" \/ (pc \in Handing /\ site = "start")

PastReport ==
  pc \in {"poll", "steer", "summary"} \/ (pc \in Handing /\ site = "round")

Reporting == pc = "outcome" \/ PastReport

SiteInv ==
  /\ pc = "submit" => site = "start"
  /\ pc \in {"poll", "steer", "summary"} => site = "round"
  /\ site = "end" => pc \in Handing \cup {"terminal", "return"}
  /\ AtStart => active = Roles
  /\ site = "start" => \A r \in Roles : round[r] = 1

VisitInv ==
  /\ pc = "started" => who \in active
  /\ Reporting => who \in active /\ \A r \in active : r >= who => outcome[r] # "none"
  /\ PastReport => outcome[who] # "error"
  /\ next \subseteq active

LoopInv == SiteInv /\ VisitInv

LEMMA ReportMoves ==
  ASSUME LoopTypes, LoopInv, Reporting, NEW nx \in SUBSET active, NextReport(nx),
         \A r \in Roles : r # who => outcome'[r] = outcome[r],
         UNCHANGED site, site = "round" \/ UNCHANGED round
  PROVE  LoopInv'
<1>0. /\ who \in Nat /\ active \subseteq Roles /\ Roles \subseteq Nat
      /\ \A r \in active : r >= who => outcome[r] # "none"
      /\ site \in {"start", "round"}
  BY SomeRole DEF LoopTypes, LoopInv, SiteInv, VisitInv, Reporting, PastReport, Handing
<1>1. pc' \in {"outcome", "started", "terminal"}
  BY DEF NextReport
<1>2. SiteInv'
  BY <1>0, <1>1 DEF LoopInv, SiteInv, AtStart, Handing
<1>3. pc' = "started" => who' \in active'
  BY <1>0 DEF NextReport, First
<1>4. pc' = "outcome" => who' \in active' /\ \A r \in active' : r >= who' => outcome'[r] # "none"
  <2> SUFFICES ASSUME pc' = "outcome"
               PROVE  who' \in active' /\ \A r \in active' : r >= who' => outcome'[r] # "none"
    OBVIOUS
  <2>1. UNCHANGED active /\ who' \in After(active)
    BY DEF NextReport, First
  <2>2. who' \in active /\ who' > who
    BY <2>1 DEF After
  <2>3. ASSUME NEW r \in active, r >= who' PROVE outcome'[r] # "none"
    <3>1. r \in Nat /\ who' \in Nat
      BY <1>0, <2>2
    <3>2. r # who /\ r >= who
      BY <1>0, <2>2, <2>3, <3>1
    <3> QED BY <1>0, <3>2
  <2> QED BY <2>1, <2>2, <2>3
<1>5. next' \subseteq active'
  BY DEF NextReport
<1> QED
  BY <1>1, <1>2, <1>3, <1>4, <1>5 DEF LoopInv, VisitInv, Reporting, PastReport, Handing

LEMMA LoopHandover ==
  ASSUME LoopTypes, DataTypes, LoopInv, pc \in {"read", "write"}, NEW fired, LeaveHandover(fired),
         UNCHANGED <<round, outcome>>
  PROVE  LoopInv'
<1>1. CASE site = "start"
  BY <1>1, SomeRole DEF LeaveHandover, LoopInv, SiteInv, VisitInv, AtStart, Reporting, PastReport,
    Handing, LoopTypes, After
<1>2. CASE site = "round"
  <2>1. Reporting /\ UNCHANGED site
    BY <1>2 DEF Reporting, PastReport, Handing, LeaveHandover
  <2>2. CASE Steerable
    BY <1>2, <2>1, <2>2 DEF LeaveHandover, LoopInv, SiteInv, VisitInv, AtStart, Reporting,
      PastReport, Handing
  <2>3. CASE ~Steerable
    <3>1. NextReport(next) /\ next \in SUBSET active
      BY <1>2, <2>3 DEF LeaveHandover, LoopInv, VisitInv
    <3> QED BY <2>1, <3>1, ReportMoves
  <2> QED BY <2>2, <2>3
<1>3. CASE site = "end"
  BY <1>3 DEF LeaveHandover, LoopInv, SiteInv, VisitInv, AtStart, Reporting, PastReport, Handing
<1> QED BY <1>1, <1>2, <1>3 DEF LoopTypes

LEMMA LoopStep == LoopTypes /\ DataTypes /\ LoopInv /\ [Next]_vars => LoopInv'
<1> SUFFICES ASSUME LoopTypes, DataTypes, LoopInv, [Next]_vars PROVE LoopInv'
  OBVIOUS
<1>1. CASE UNCHANGED <<pc, site, who, active, next, round, outcome>>
  BY <1>1 DEF LoopInv, SiteInv, VisitInv, AtStart, Reporting, PastReport
<1>2. CASE \/ AppendEvent \/ InvokeAgain \/ ErrorAgain \/ CallRaises \/ Return \/ Resume
           \/ Crash \/ UNCHANGED vars \/ \E r \in Roles : InvokeBackend(r) \/ SendSteering(r)
  BY <1>1, <1>2 DEF AppendEvent, InvokeAgain, ErrorAgain, CallRaises, Return, Resume, Crash,
    CrashTo, vars, InvokeBackend, SendSteering, body
<1>3. CASE ReadWindow
  <2>1. UNCHANGED <<round, outcome>> /\ pc = "read"
    BY <1>3 DEF ReadWindow
  <2>2. CASE LeaveHandover(FALSE)
    BY <2>1, <2>2, LoopHandover
  <2>3. CASE pc' = "llm" /\ UNCHANGED <<site, who, active, next>>
    BY <2>1, <2>3 DEF LoopInv, SiteInv, VisitInv, AtStart, Reporting, PastReport, Handing
  <2> QED BY <1>3, <2>2, <2>3 DEF ReadWindow
<1>4. CASE HandoverWritten
  BY <1>4, LoopHandover DEF HandoverWritten, Commit
<1>5. CASE CallLlm \/ SteeringHit \/ SteeringJournaled \/ TaskSubmitted \/ TaskEnded
  <2>1. /\ UNCHANGED <<who, active, next, round, outcome>>
        /\ \/ pc = "llm" /\ pc' = "write" /\ UNCHANGED site
           \/ pc = "poll" /\ pc' = "steer" /\ UNCHANGED site
           \/ pc = "steer" /\ pc' = "summary" /\ UNCHANGED site
           \/ pc = "submit" /\ pc' = "read" /\ site' = "start"
           \/ pc = "terminal" /\ pc' = "read" /\ site' = "end"
    BY <1>5 DEF CallLlm, SteeringHit, SteeringJournaled, TaskSubmitted, TaskEnded, Commit
  <2>2. SiteInv'
    BY <2>1 DEF LoopInv, SiteInv, AtStart, Handing
  <2>3. VisitInv'
    BY <2>1 DEF LoopInv, SiteInv, VisitInv, Reporting, PastReport, Handing
  <2> QED BY <2>2, <2>3 DEF LoopInv
<1>6. CASE DelegationStarted
  <2>1. /\ UNCHANGED <<site, active, next, round, outcome>> /\ site # "end"
        /\ (pc' = "started" /\ who' \in active) \/ pc' = "dispatch"
    BY <1>6 DEF DelegationStarted, Commit, First, After, LoopInv, SiteInv, Handing
  <2> QED BY <2>1 DEF LoopInv, SiteInv, VisitInv, AtStart, Reporting, PastReport, Handing
<1>7. CASE \E r \in Roles : BackendReturns(r) \/ BackendErrors(r)
  <2>1. PICK r \in Roles, v \in Verdicts \cup {"error"} : Answer(r, v)
    BY <1>7 DEF BackendReturns, BackendErrors
  <2>2. /\ pc = "dispatch" /\ outcome' = [outcome EXCEPT ![r] = v]
        /\ UNCHANGED <<site, active, next, round>>
        /\ \/ Unanswered = {r} /\ pc' = "outcome" /\ who' \in active
           \/ UNCHANGED <<pc, who>>
    BY <2>1 DEF Answer, First
  <2>3. CASE Unanswered = {r} /\ pc' = "outcome" /\ who' \in active
    <3>1. \A q \in active : outcome'[q] # "none"
      BY <2>2, <2>3 DEF Unanswered, LoopTypes, DataTypes, Verdicts
    <3> QED BY <2>2, <2>3, <3>1 DEF LoopInv, SiteInv, VisitInv, AtStart, Reporting, PastReport,
      Handing
  <2>4. CASE UNCHANGED <<pc, who>>
    BY <2>2, <2>4 DEF LoopInv, SiteInv, VisitInv, AtStart, Reporting, PastReport, Handing
  <2> QED BY <2>2, <2>3, <2>4
<1>8. CASE DelegationReported
  <2>1. pc = "outcome" /\ UNCHANGED <<round, outcome>> /\ Reporting /\ next \in SUBSET active
    BY <1>8 DEF DelegationReported, Commit, Reporting, LoopInv, VisitInv
  <2>2. CASE outcome[who] = "error"
    BY <1>8, <2>1, <2>2, ReportMoves DEF DelegationReported
  <2>3. CASE outcome[who] # "error"
    <3>1. pc' = "read" /\ site' = "round" /\ UNCHANGED <<who, active, next>>
      BY <1>8, <2>3 DEF DelegationReported
    <3> QED BY <2>1, <2>3, <3>1 DEF LoopInv, SiteInv, VisitInv, AtStart, Reporting, PastReport,
      Handing
  <2> QED BY <2>2, <2>3
<1>9. CASE SteeringMiss
  <2>1. /\ UNCHANGED <<site, round, outcome>> /\ Reporting /\ next \in SUBSET active
        /\ NextReport(next)
    BY <1>9 DEF SteeringMiss, Reporting, PastReport, LoopInv, VisitInv
  <2> QED BY <2>1, ReportMoves
<1>10. CASE ComposeRound
  <2>1. /\ UNCHANGED site /\ site = "round" /\ Reporting /\ NextReport(next \cup {who})
        /\ outcome' = [outcome EXCEPT ![who] = "none"]
    BY <1>10 DEF ComposeRound, Reporting, PastReport, LoopInv, SiteInv
  <2>2. next \cup {who} \in SUBSET active
    BY <2>1 DEF LoopInv, VisitInv
  <2>3. \A r \in Roles : r # who => outcome'[r] = outcome[r]
    BY <2>1 DEF DataTypes
  <2> QED BY <2>1, <2>2, <2>3, ReportMoves
<1>11. CASE ReturnsInstead
  <2>1. /\ UNCHANGED <<pc, site, who, active, next, round>>
        /\ \/ UNCHANGED outcome
           \/ \E r \in Roles, v \in Verdicts : outcome' = [outcome EXCEPT ![r] = v]
           \/ \E r, v : r \notin Roles /\ outcome' = [outcome EXCEPT ![r] = v]
    BY <1>11 DEF ReturnsInstead
  <2>2. /\ \A r \in Roles : outcome[r] # "none" => outcome'[r] # "none"
        /\ \A r \in Roles : outcome[r] # "error" => outcome'[r] # "error"
    BY <2>1 DEF DataTypes, Verdicts
  <2>3. who \in Roles /\ active \subseteq Roles
    BY DEF LoopTypes
  <2>4. VisitInv'
    BY <2>1, <2>2, <2>3 DEF LoopInv, VisitInv, Reporting, PastReport
  <2> QED BY <2>1, <2>4 DEF LoopInv, SiteInv, AtStart
<1> QED
  BY <1>2, <1>3, <1>4, <1>5, <1>6, <1>7, <1>8, <1>9, <1>10, <1>11 DEF Next, Body, Handover, Replay

(***************************************************************************)
(* ReportedDelegationStands.  An outcome in the journal is the one that    *)
(* the body holds; what replay runs again is an exception it never kept.   *)
(***************************************************************************)
NoDup(list) == \A i, j \in DOMAIN list : list[i] = list[j] => i = j

Loose(r) == \E i \in DOMAIN loose : loose[i] = r

LooseInv ==
  /\ NoDup(loose) /\ NoDup(redo)
  /\ \A j \in DOMAIN redo : Loose(redo[j])
  /\ \A i \in DOMAIN loose : outcome[loose[i]] = "error"

ReportInv ==
  \A r \in Roles : \A i \in OwnSeqs(journal, r) :
    journal[i].kind \in OutcomeKinds =>
      journal[i].round <= round[r] /\ (journal[i].round = round[r] => outcome[r] # "none")

LEMMA ReportStep ==
  LoopTypes /\ DataTypes /\ LoopInv /\ ReportInv /\ [Next]_vars => ReportInv'
<1> SUFFICES ASSUME LoopTypes, DataTypes, LoopInv, ReportInv, [Next]_vars PROVE ReportInv'
  OBVIOUS
<1>0. /\ who \in Roles /\ round \in [Roles -> Nat \ {0}] /\ journal \in Seq(Event)
      /\ \A i \in DOMAIN journal : journal[i].round \in Nat
  <2>1. \A i \in DOMAIN journal : journal[i] \in Event
    BY DEF DataTypes
  <2> QED BY <2>1 DEF LoopTypes, DataTypes, Event
<1>1. CASE AppendEvent
  <2>1. UNCHANGED <<who, round, outcome>>
    BY <1>1 DEF AppendEvent, body
  <2>2. PendingEvent.kind \in OutcomeKinds => pc = "outcome"
    BY <1>1 DEF AppendEvent, AppendCalls, PendingEvent, PendingKind, OutcomeKinds
  <2>3. PendingEvent.role = who /\ PendingEvent.round = round[who] /\ round[who] \in Nat
    BY <1>0 DEF PendingEvent
  <2>4. pc = "outcome" => outcome[who] # "none"
    BY <1>0, SomeRole DEF LoopInv, VisitInv, Reporting
  <2>5. ASSUME NEW r \in Roles, NEW i \in OwnSeqs(journal', r), journal'[i].kind \in OutcomeKinds
        PROVE  journal'[i].round <= round[r] /\ (journal'[i].round = round[r] => outcome[r] # "none")
    <3>1. i \in DOMAIN journal' /\ journal'[i].role = r
      BY <2>5 DEF OwnSeqs
    <3>2. CASE i = Len(journal')
      BY <1>1, <2>2, <2>3, <2>4, <2>5, <3>1, <3>2, AppendGrows
    <3>3. CASE i # Len(journal')
      <4>1. i \in OwnSeqs(journal, r) /\ journal'[i] = journal[i]
        BY <1>1, <3>1, <3>3, AppendGrows DEF OwnSeqs
      <4> QED BY <2>5, <4>1 DEF ReportInv
    <3> QED BY <3>2, <3>3
  <2> QED BY <2>1, <2>5 DEF ReportInv
<1>2. CASE ComposeRound
  <2>1. UNCHANGED journal /\ round' = [round EXCEPT ![who] = round[who] + 1]
        /\ outcome' = [outcome EXCEPT ![who] = "none"]
    BY <1>2 DEF ComposeRound, world
  <2>2. ASSUME NEW r \in Roles, NEW i \in OwnSeqs(journal, r), journal[i].kind \in OutcomeKinds
        PROVE  journal[i].round <= round'[r] /\ (journal[i].round = round'[r] => outcome'[r] # "none")
    <3>1. i \in DOMAIN journal
      BY DEF OwnSeqs
    <3>2. journal[i].round <= round[r] /\ journal[i].round \in Nat /\ round[r] \in Nat
      BY <1>0, <2>2, <3>1 DEF ReportInv
    <3>3. CASE r = who
      <4>1. round'[r] = round[r] + 1
        BY <1>0, <2>1, <3>3
      <4> QED BY <3>2, <4>1
    <3>4. CASE r # who
      <4>1. round'[r] = round[r] /\ outcome'[r] = outcome[r]
        BY <1>0, <2>1, <3>4 DEF DataTypes
      <4> QED BY <2>2, <4>1 DEF ReportInv
    <3> QED BY <3>3, <3>4
  <2> QED BY <2>1, <2>2 DEF ReportInv
<1>3. CASE UNCHANGED <<journal, round>>
           /\ \A r \in Roles : outcome[r] # "none" => outcome'[r] # "none"
  BY <1>3 DEF ReportInv
<1>4. CASE \E r \in Roles : BackendReturns(r) \/ BackendErrors(r)
  <2>1. PICK r \in Roles, v \in Verdicts \cup {"error"} : Answer(r, v)
    BY <1>4 DEF BackendReturns, BackendErrors
  <2>2. UNCHANGED <<journal, round>> /\ outcome' = [outcome EXCEPT ![r] = v]
    BY <2>1 DEF Answer, world
  <2> QED BY <1>3, <2>2 DEF DataTypes, Verdicts
<1>5. CASE ReturnsInstead
  <2>1. /\ UNCHANGED <<journal, round>>
        /\ \/ UNCHANGED outcome
           \/ \E v \in Verdicts : outcome' = [outcome EXCEPT ![Head(redo)] = v]
    BY <1>5 DEF ReturnsInstead
  <2> QED BY <1>3, <2>1 DEF DataTypes, Verdicts
<1>6. CASE UNCHANGED <<journal, round, outcome>>
  BY <1>3, <1>6
<1> QED
  BY <1>1, <1>2, <1>4, <1>5, <1>6, Zenon DEF Next, Body, Handover, Replay, InvokeAgain, ErrorAgain,
    CallRaises, Return, Resume, Crash, CrashTo, vars, InvokeBackend, SendSteering, body, world,
    ReadWindow, CallLlm, HandoverWritten, TaskSubmitted, DelegationStarted, DelegationReported,
    SteeringHit, SteeringMiss, SteeringJournaled, TaskEnded

LEMMA LooseStep ==
  HostTypes /\ LoopTypes /\ DataTypes /\ LoopInv /\ RunningInv /\ LooseInv /\ [Next]_vars
    => LooseInv'
<1> SUFFICES ASSUME HostTypes, LoopTypes, DataTypes, LoopInv, RunningInv, LooseInv, [Next]_vars
             PROVE  LooseInv'
  OBVIOUS
<1>0. /\ loose \in Seq(Roles) /\ redo \in Seq(Roles)
      /\ DOMAIN loose = 1 .. Len(loose) /\ Len(loose) \in Nat
      /\ outcome \in [Roles -> Verdicts \cup {"none", "error"}]
      /\ \A i \in DOMAIN loose : loose[i] \in Roles
  BY DEF HostTypes, DataTypes
<1>1. CASE \E r \in Roles : BackendReturns(r) \/ BackendErrors(r)
  <2>1. PICK r \in Roles : BackendReturns(r) \/ BackendErrors(r)
    BY <1>1
  <2>2. /\ pc = "dispatch" /\ redo = <<>> /\ r \in running /\ UNCHANGED redo
        /\ \E v : outcome' = [outcome EXCEPT ![r] = v]
    BY <2>1 DEF BackendReturns, BackendErrors, Answer, Driving
  <2>3. outcome[r] = "none"
    BY <2>2 DEF RunningInv, Unanswered
  <2>4. \A i \in DOMAIN loose : loose[i] # r /\ outcome'[loose[i]] = "error"
    BY <1>0, <2>2, <2>3 DEF LooseInv
  <2>5. NoDup(redo') /\ \A j \in DOMAIN redo' : FALSE
    BY <2>2 DEF NoDup
  <2>6. CASE UNCHANGED loose
    BY <2>4, <2>5, <2>6 DEF LooseInv, NoDup
  <2>7. CASE BackendErrors(r) /\ loose' = Append(loose, r)
    <3>1. outcome'[r] = "error"
      BY <1>0, <2>7 DEF BackendErrors, Answer
    <3>2. /\ DOMAIN loose' = 1 .. Len(loose) + 1 /\ loose'[Len(loose) + 1] = r
          /\ \A i \in DOMAIN loose : loose'[i] = loose[i]
      BY <1>0, <2>7, AppendLast
    <3>3. NoDup(loose')
      BY <1>0, <2>4, <3>2 DEF LooseInv, NoDup
    <3>4. \A i \in DOMAIN loose' : outcome'[loose'[i]] = "error"
      BY <1>0, <2>4, <3>1, <3>2
    <3> QED BY <2>5, <3>3, <3>4 DEF LooseInv
  <2> QED BY <2>1, <2>6, <2>7 DEF BackendReturns, BackendErrors
<1>2. CASE ComposeRound
  <2>1. UNCHANGED <<loose, redo>> /\ outcome' = [outcome EXCEPT ![who] = "none"]
        /\ outcome[who] # "error" /\ who \in Roles
    BY <1>2 DEF ComposeRound, host, LoopInv, VisitInv, PastReport, LoopTypes
  <2>2. \A i \in DOMAIN loose : outcome'[loose[i]] = "error"
    BY <1>0, <2>1 DEF LooseInv
  <2> QED BY <2>1, <2>2 DEF LooseInv, Loose
<1>3. CASE Crash
  BY <1>3 DEF Crash, CrashTo, LooseInv, Loose
<1>4. CASE ErrorAgain \/ ReturnsInstead
  <2>1. redo # <<>> /\ redo' = Tail(redo)
    BY <1>4 DEF ErrorAgain, ReturnsInstead, Replaying
  <2>2. /\ Head(redo) = redo[1] /\ 1 \in DOMAIN redo
        /\ \A j \in DOMAIN redo' : j + 1 \in DOMAIN redo /\ redo'[j] = redo[j + 1] /\ j \in Nat \ {0}
    BY <1>0, <2>1
  <2>3. NoDup(redo') /\ \A j \in DOMAIN redo' : redo'[j] # Head(redo) /\ Loose(redo'[j])
    <3>1. ASSUME NEW i \in DOMAIN redo', NEW j \in DOMAIN redo', redo'[i] = redo'[j] PROVE i = j
      <4>1. i + 1 = j + 1
        BY <2>2, <3>1 DEF LooseInv, NoDup
      <4> QED BY <2>2, <4>1
    <3>2. ASSUME NEW j \in DOMAIN redo' PROVE redo'[j] # Head(redo) /\ Loose(redo'[j])
      <4>1. j + 1 # 1
        BY <2>2
      <4> QED BY <2>2, <4>1 DEF LooseInv, NoDup
    <3> QED BY <3>1, <3>2 DEF NoDup
  <2>4. CASE UNCHANGED <<loose, outcome>>
    BY <2>3, <2>4 DEF LooseInv, Loose
  <2>5. CASE \E v \in Verdicts : outcome' = [outcome EXCEPT ![Head(redo)] = v] /\
               \E i \in DOMAIN loose : loose[i] = Head(redo) /\ loose' = Without(loose, i)
    <3>1. PICK v \in Verdicts : outcome' = [outcome EXCEPT ![Head(redo)] = v] /\
               \E i \in DOMAIN loose : loose[i] = Head(redo) /\ loose' = Without(loose, i)
      BY <2>5
    <3>2. PICK i \in DOMAIN loose : loose[i] = Head(redo) /\ loose' = Without(loose, i)
      BY <3>1
    <3>3. /\ \A a \in DOMAIN loose' : \E b \in DOMAIN loose :
               b # i /\ loose'[a] = loose[b] /\ b = IF a < i THEN a ELSE a + 1
          /\ \A b \in DOMAIN loose : b # i => \E a \in DOMAIN loose' : loose'[a] = loose[b]
          /\ loose' \in Seq(Roles)
      <4>1. loose \in Seq(Roles) /\ i \in DOMAIN loose
        BY <1>0, <3>2
      <4>2. /\ \A a \in DOMAIN Without(loose, i) : \E b \in DOMAIN loose :
                 b # i /\ Without(loose, i)[a] = loose[b] /\ b = IF a < i THEN a ELSE a + 1
            /\ \A b \in DOMAIN loose :
                 b # i => \E a \in DOMAIN Without(loose, i) : Without(loose, i)[a] = loose[b]
            /\ Without(loose, i) \in Seq(Roles)
        BY <4>1, RemovalKeeps
      <4> QED BY <3>2, <4>2
    <3>4. NoDup(loose')
      <4>1. SUFFICES ASSUME NEW a \in DOMAIN loose', NEW c \in DOMAIN loose', loose'[a] = loose'[c]
                     PROVE  a = c
        BY DEF NoDup
      <4>2. (IF a < i THEN a ELSE a + 1) = (IF c < i THEN c ELSE c + 1)
        BY <3>3, <4>1 DEF LooseInv, NoDup
      <4>3. a \in Nat /\ c \in Nat /\ i \in Nat
        <5>1. DOMAIN loose = 1 .. Len(loose) /\ DOMAIN loose' = 1 .. Len(loose')
              /\ Len(loose) \in Nat /\ Len(loose') \in Nat
          BY <1>0, <3>3
        <5> QED BY <3>2, <4>1, <5>1
      <4> QED BY <4>2, <4>3
    <3>5. \A a \in DOMAIN loose' : outcome'[loose'[a]] = "error"
      <4>1. SUFFICES ASSUME NEW a \in DOMAIN loose' PROVE outcome'[loose'[a]] = "error"
        OBVIOUS
      <4>2. PICK b \in DOMAIN loose : b # i /\ loose'[a] = loose[b]
        BY <3>3
      <4>3. loose[b] # Head(redo) /\ loose[b] \in Roles /\ outcome[loose[b]] = "error"
        BY <1>0, <3>2, <4>2 DEF LooseInv, NoDup
      <4> QED BY <1>0, <3>1, <4>2, <4>3
    <3>6. \A j \in DOMAIN redo' : \E a \in DOMAIN loose' : loose'[a] = redo'[j]
      BY <2>3, <3>2, <3>3 DEF Loose
    <3> QED BY <2>3, <3>4, <3>5, <3>6 DEF LooseInv, Loose
  <2> QED BY <1>4, <2>4, <2>5 DEF ErrorAgain, ReturnsInstead, body
<1>5. CASE UNCHANGED <<loose, redo, outcome>>
  BY <1>5 DEF LooseInv, Loose
<1> QED
  BY <1>1, <1>2, <1>3, <1>4, <1>5, Zenon DEF Next, Body, Handover, Replay, AppendEvent,
    InvokeAgain, CallRaises, Return, Resume, vars, InvokeBackend, SendSteering, body, host,
    ReadWindow, CallLlm, HandoverWritten, TaskSubmitted, DelegationStarted, DelegationReported,
    SteeringHit, SteeringMiss, SteeringJournaled, TaskEnded

(* The invariants of the report loop hold together.                        *)
TeamInv ==
  /\ HostTypes /\ LoopTypes /\ DataTypes
  /\ LandedInv /\ LoopInv /\ RunningInv

LEMMA TeamInductive == Spec => []TeamInv
<1>1. Init => TeamInv
  <2>1. Init => LandedInv /\ RunningInv
    BY DEF Init, LandedInv, RunningInv, Single
  <2>2. ASSUME Init PROVE LoopInv
    BY <2>2 DEF Init, LoopInv, SiteInv, VisitInv, AtStart, Reporting, PastReport, Handing
  <2> QED BY <2>1, <2>2, InitialTypes, TypesSplit DEF TeamInv
<1>2. TeamInv /\ [Next]_vars => TeamInv'
  BY StepHostTypes, StepLoopTypes, StepDataTypes, LandedStep, LoopStep, RunningStep DEF TeamInv
<1> QED BY <1>1, <1>2, PTL DEF Spec

(* For every number of roles and crashes, a delegation whose outcome is in *)
(* the journal is not invoked again, unless its exception was caught       *)
(* outside gather and never committed (team.py 200-229).                   *)
THEOREM ReportedStands == Spec => ReportedDelegationStands
<1> DEFINE Stands ==
      \A r \in running' \ running :
        \/ \E i \in DOMAIN loose : loose[i] = r
        \/ \A i \in OwnSeqs(journal, r) :
             journal[i].round = round[r] => journal[i].kind \notin OutcomeKinds
<1>1. Init => ReportInv /\ LooseInv
  <2>1. Init => journal = <<>> /\ loose = <<>> /\ redo = <<>>
    BY DEF Init
  <2> QED BY <2>1 DEF ReportInv, LooseInv, OwnSeqs, NoDup
<1>2. TeamInv /\ ReportInv /\ LooseInv /\ [Next]_vars => ReportInv' /\ LooseInv'
  BY ReportStep, LooseStep DEF TeamInv
<1>3. TeamInv /\ ReportInv /\ LooseInv /\ [Next]_vars => [Stands]_vars
  <2> SUFFICES ASSUME TeamInv, ReportInv, LooseInv, [Next]_vars, NEW r \in running' \ running
               PROVE  \/ \E i \in DOMAIN loose : loose[i] = r
                      \/ \A i \in OwnSeqs(journal, r) :
                           journal[i].round = round[r] => journal[i].kind \notin OutcomeKinds
    OBVIOUS
  <2>1. (\E q \in Roles : InvokeBackend(q)) \/ InvokeAgain
    BY Zenon DEF Next, Body, Handover, Replay, AppendEvent, BackendReturns, BackendErrors, Answer,
      Crash, CrashTo, ErrorAgain, ReturnsInstead, CallRaises, Return, Resume, vars, SendSteering,
      body, host, ReadWindow, CallLlm, HandoverWritten, TaskSubmitted, DelegationStarted,
      DelegationReported, SteeringHit, SteeringMiss, SteeringJournaled, ComposeRound, TaskEnded
  <2>2. CASE \E q \in Roles : InvokeBackend(q)
    <3>1. r \in Roles /\ outcome[r] = "none"
      BY <2>2 DEF InvokeBackend, Unanswered
    <3> QED BY <3>1 DEF ReportInv
  <2>3. CASE InvokeAgain
    <3>1. r = Head(redo) /\ redo # <<>> /\ redo \in Seq(Roles)
      BY <2>3 DEF InvokeAgain, Replaying, TeamInv, HostTypes
    <3>2. 1 \in DOMAIN redo /\ r = redo[1]
      BY <3>1
    <3> QED BY <3>2 DEF LooseInv, Loose
  <2> QED BY <2>1, <2>2, <2>3
<1> QED BY <1>1, <1>2, <1>3, TeamInductive, PTL DEF Spec, ReportedDelegationStands

(***************************************************************************)
(* PromptIsOwnHistory.  What a role's prompt must tell travels from the    *)
(* prompt before it through the shared journal: the role's                 *)
(* DelegationStarted and its outcome lie after its last handover until the *)
(* handover of its round reads them, whatever other roles journal between. *)
(***************************************************************************)
Pairs(r, set) == {r} \X set

Rounds(r, n) == Pairs(r, 1 .. n)

LEMMA PairsGrow ==
  ASSUME NEW r, NEW set, NEW more, set \subseteq more
  PROVE  Pairs(r, {}) = {} /\ Pairs(r, set) \subseteq Pairs(r, more)
BY DEF Pairs

LEMMA PairsAdd ==
  ASSUME NEW r, NEW set, NEW m
  PROVE  Pairs(r, set \cup {m}) = Pairs(r, set) \cup {<<r, m>>}
BY DEF Pairs

LEMMA RoundsGrow ==
  ASSUME NEW r, NEW n \in Nat \ {0}
  PROVE  /\ Rounds(r, 0) = {}
         /\ Rounds(r, n) = Rounds(r, n - 1) \cup {<<r, n>>}
         /\ Rounds(r, n - 1) \subseteq Rounds(r, n)
         /\ Rounds(r, n) \subseteq Rounds(r, n + 1)
         /\ <<r, n>> \in Rounds(r, n)
<1>1. 1 .. 0 = {} /\ 1 .. n = 1 .. (n - 1) \cup {n} /\ 1 .. n \subseteq 1 .. (n + 1)
  OBVIOUS
<1>2. Rounds(r, 0) = {} /\ Rounds(r, n) \subseteq Rounds(r, n + 1)
  BY <1>1, PairsGrow DEF Rounds
<1>3. Rounds(r, n) = Rounds(r, n - 1) \cup {<<r, n>>}
  <2>1. Pairs(r, 1 .. (n - 1) \cup {n}) = Pairs(r, 1 .. (n - 1)) \cup {<<r, n>>}
    BY PairsAdd
  <2> QED BY <1>1, <2>1 DEF Rounds
<1> QED BY <1>2, <1>3

LastTells(log, n) == IF n = 0 THEN {} ELSE log[n].tells

(* What the role's next prompt would tell, if it were composed now.        *)
Covered(log, r, kept, upto) ==
  \A n \in 0 .. Len(log) :
    IsLastHandover(log, r, n) => Rounds(r, upto) \subseteq Pairs(r, kept) \cup LastTells(log, n)

AfterHandovers(log, r, i) ==
  /\ i \in OwnSeqs(log, r)
  /\ \A k \in OwnSeqs(log, r) : k >= i => log[k].kind # "HandoverWritten"

StartUnread(r) ==
  \/ pc = "started" /\ (r < who \/ (r = who /\ landed))
  \/ pc = "dispatch"
  \/ Reporting /\ r > who
  \/ r = who /\ (pc = "outcome" \/ (pc = "read" /\ site = "round"))

OutcomeUnread == (pc = "outcome" /\ landed) \/ (pc = "read" /\ site = "round")

WindowRead == pc \in {"llm", "write"} /\ site = "round"

StartInv ==
  \A r \in active : StartUnread(r) =>
    \E i \in Nat : AfterHandovers(journal, r, i) /\ told[r] \subseteq journal[i].tells

OutcomeInv ==
  OutcomeUnread =>
    \E i \in Nat : AfterHandovers(journal, who, i) /\ <<who, round[who]>> \in journal[i].tells

WindowInv ==
  WindowRead => Rounds(who, round[who]) \subseteq UNION {journal[i].tells : i \in window}

WrittenInv ==
  WindowRead /\ pc = "write" /\ landed => Covered(journal, who, {}, round[who])

CoverInv ==
  /\ \A r \in Roles : Rounds(r, round[r] - 1) \subseteq told[r]
  /\ site # "end" => \A r \in Roles : Covered(journal, r, raw[r], round[r] - 1)
  /\ pc = "summary" => Covered(journal, who, raw[who], round[who])

MemoryInv == StartInv /\ OutcomeInv /\ WindowInv /\ WrittenInv /\ CoverInv

(* A step that leaves the texts and the journal alone.                     *)
LEMMA MemoryStays ==
  ASSUME MemoryInv, UNCHANGED <<round, told, raw, window, journal>>,
         \A r \in active' : StartUnread(r)' => r \in active /\ StartUnread(r),
         OutcomeUnread' => OutcomeUnread /\ who' = who,
         WindowRead' => WindowRead /\ who' = who,
         WindowRead' /\ pc' = "write" /\ landed' => pc = "write" /\ landed,
         site' # "end" => site # "end",
         pc' = "summary" => pc = "summary" /\ who' = who
  PROVE  MemoryInv'
<1>1. StartInv'
  BY DEF MemoryInv, StartInv
<1>2. OutcomeInv' /\ WindowInv' /\ WrittenInv'
  BY DEF MemoryInv, OutcomeInv, WindowInv, WrittenInv
<1>3. CoverInv'
  BY DEF MemoryInv, CoverInv
<1> QED BY <1>1, <1>2, <1>3 DEF MemoryInv

(* After a role's report the next role's prompt is still unread.           *)
LEMMA UnreadNext ==
  ASSUME LoopTypes, LoopInv, Reporting, ~landed', UNCHANGED site,
         NEW nx \in SUBSET active, NextReport(nx)
  PROVE  /\ pc' \in {"outcome", "started", "terminal"} /\ site \in {"start", "round"}
         /\ \A r \in active' : StartUnread(r)' => r \in active /\ r > who
<1>1. /\ pc' \in {"outcome", "started", "terminal"} /\ site \in {"start", "round"}
  BY DEF NextReport, LoopTypes, LoopInv, SiteInv, Reporting, PastReport, Handing
<1>2. ASSUME NEW r \in active', StartUnread(r)' PROVE r \in active /\ r > who
  <2>1. active \subseteq Nat /\ active' \subseteq Nat /\ who \in Nat
    BY SomeRole DEF LoopTypes, NextReport
  <2>2. CASE pc' = "outcome"
    <3>1. UNCHANGED active /\ who' \in After(active) /\ r >= who'
      <4>1. UNCHANGED active /\ who' \in After(active)
        BY <2>2 DEF NextReport, First
      <4>2. r > who' \/ r = who'
        BY <1>2, <2>2 DEF StartUnread
      <4> QED BY <2>1, <4>1, <4>2 DEF After
    <3> QED BY <2>1, <3>1 DEF After
  <2>3. CASE pc' = "started"
    <3>1. r < who'
      BY <1>2, <2>3 DEF StartUnread, Reporting, PastReport, Handing
    <3>2. who' <= r
      BY <1>2, <2>3 DEF NextReport, First
    <3>3. who' \in Nat
      BY <2>1, <2>3 DEF NextReport, First
    <3> QED BY <2>1, <3>1, <3>2, <3>3
  <2>4. CASE pc' = "terminal"
    BY <1>2, <2>4 DEF StartUnread, Reporting, PastReport, Handing
  <2> QED BY <1>1, <2>2, <2>3, <2>4
<1> QED BY <1>1, <1>2

(* What one append does to the journal that maybe_handover reads for r.    *)
LEMMA AppendHandovers ==
  ASSUME LoopTypes, DataTypes, AppendEvent, NEW r \in Roles
  PROVE  /\ pc = "write" /\ r = who => \A n \in 0 .. Len(journal') :
              IsLastHandover(journal', r, n) => n = Len(journal')
         /\ ~(pc = "write" /\ r = who) => \A n \in 0 .. Len(journal') :
              IsLastHandover(journal', r, n) =>
                /\ n \in 0 .. Len(journal) /\ IsLastHandover(journal, r, n)
                /\ LastTells(journal', n) = LastTells(journal, n)
         /\ ~(pc = "write" /\ r = who) => \A i \in Nat : AfterHandovers(journal, r, i) =>
                AfterHandovers(journal', r, i) /\ journal'[i] = journal[i]
         /\ pc # "write" /\ r = who => AfterHandovers(journal', r, Len(journal'))
<1>1. /\ Len(journal) \in Nat /\ Len(journal') = Len(journal) + 1
      /\ DOMAIN journal = 1 .. Len(journal) /\ DOMAIN journal' = 1 .. Len(journal')
      /\ \A i \in DOMAIN journal : journal'[i] = journal[i]
      /\ journal'[Len(journal')] = PendingEvent /\ PendingEvent.role = who
  BY AppendGrows DEF PendingEvent
<1>2. PendingEvent.kind = "HandoverWritten" <=> pc = "write"
  BY DEF AppendEvent, PendingEvent, PendingKind, OutcomeKind, AppendCalls
<1>3. /\ \A i : i \in OwnSeqs(journal, r) <=> i \in 1 .. Len(journal) /\ journal[i].role = r
      /\ \A i : i \in OwnSeqs(journal', r) <=>
           i \in OwnSeqs(journal, r) \/ (i = Len(journal) + 1 /\ r = who)
  BY <1>1 DEF OwnSeqs
<1>4. ASSUME pc = "write", r = who, NEW n \in 0 .. Len(journal'), IsLastHandover(journal', r, n)
      PROVE  n = Len(journal')
  <2>1. Len(journal') \in OwnSeqs(journal', r) /\ journal'[Len(journal')].kind = "HandoverWritten"
    BY <1>1, <1>2, <1>3, <1>4
  <2>2. ~(Len(journal') > n)
    BY <1>4, <2>1 DEF IsLastHandover
  <2> QED BY <1>1, <2>2
<1>5. ASSUME ~(pc = "write" /\ r = who), NEW n \in 0 .. Len(journal'), IsLastHandover(journal', r, n)
      PROVE  /\ n \in 0 .. Len(journal) /\ IsLastHandover(journal, r, n)
             /\ LastTells(journal', n) = LastTells(journal, n)
  <2>1. n \in 0 .. Len(journal)
    <3>1. n # Len(journal')
      BY <1>1, <1>2, <1>3, <1>5 DEF IsLastHandover
    <3> QED BY <1>1, <3>1
  <2>2. n # 0 => n \in DOMAIN journal /\ journal'[n] = journal[n]
    BY <1>1, <2>1
  <2>3. IsLastHandover(journal, r, n)
    BY <1>1, <1>3, <1>5, <2>1, <2>2 DEF IsLastHandover
  <2> QED BY <2>1, <2>2, <2>3 DEF LastTells
<1>6. ASSUME ~(pc = "write" /\ r = who), NEW i \in Nat, AfterHandovers(journal, r, i)
      PROVE  AfterHandovers(journal', r, i) /\ journal'[i] = journal[i]
  <2>1. i \in OwnSeqs(journal', r) /\ journal'[i] = journal[i]
    BY <1>1, <1>3, <1>6 DEF AfterHandovers
  <2>2. ASSUME NEW k \in OwnSeqs(journal', r), k >= i PROVE journal'[k].kind # "HandoverWritten"
    <3>1. CASE k \in OwnSeqs(journal, r)
      <4>1. journal'[k] = journal[k]
        BY <1>1, <1>3, <3>1
      <4> QED BY <1>6, <2>2, <3>1, <4>1 DEF AfterHandovers
    <3>2. CASE k = Len(journal) + 1 /\ r = who
      BY <1>1, <1>2, <1>6, <3>2
    <3> QED BY <1>3, <2>2, <3>1, <3>2
  <2> QED BY <2>1, <2>2 DEF AfterHandovers
<1>7. ASSUME pc # "write", r = who PROVE AfterHandovers(journal', r, Len(journal'))
  <2>1. Len(journal') \in OwnSeqs(journal', r)
    BY <1>1, <1>3, <1>7
  <2>2. ASSUME NEW k \in OwnSeqs(journal', r), k >= Len(journal')
        PROVE  journal'[k].kind # "HandoverWritten"
    <3>1. k = Len(journal')
      BY <1>1, <1>3, <2>2
    <3> QED BY <1>1, <1>2, <1>7, <3>1
  <2> QED BY <2>1, <2>2 DEF AfterHandovers
<1> QED BY <1>4, <1>5, <1>6, <1>7

LEMMA MemoryAppend ==
  ASSUME LoopTypes, DataTypes, LoopInv, MemoryInv, AppendEvent, window \subseteq DOMAIN journal
  PROVE  MemoryInv'
<1>1. /\ Len(journal) \in Nat /\ Len(journal') \in Nat /\ journal'[Len(journal')] = PendingEvent
      /\ \A i \in DOMAIN journal : journal'[i] = journal[i]
  BY AppendGrows
<1>2. /\ UNCHANGED <<pc, site, who, active, round, told, raw, window>>
      /\ pc \in AppendCalls /\ ~landed /\ who \in Roles /\ active \subseteq Roles
      /\ Roles \subseteq Nat
  BY SomeRole DEF AppendEvent, body, texts, LoopTypes
<1>3. StartInv'
  <2> SUFFICES ASSUME NEW r \in active, StartUnread(r)'
               PROVE  \E i \in Nat : AfterHandovers(journal', r, i) /\ told[r] \subseteq journal'[i].tells
    BY <1>2 DEF StartInv
  <2>1. r \in Roles
    BY <1>2
  <2>2. CASE pc = "started" /\ r = who
    <3>1. PendingEvent.tells = told[r]
      BY <2>2 DEF PendingEvent, TextTells
    <3>2. AfterHandovers(journal', r, Len(journal'))
      BY <2>1, <2>2, AppendHandovers
    <3> QED BY <1>1, <3>1, <3>2
  <2>3. CASE ~(pc = "started" /\ r = who)
    <3>1. StartUnread(r)
      BY <1>2, <2>3 DEF StartUnread, Reporting, PastReport
    <3>2. ~(pc = "write" /\ r = who)
      BY <1>2, <3>1 DEF StartUnread
    <3>3. PICK i \in Nat : AfterHandovers(journal, r, i) /\ told[r] \subseteq journal[i].tells
      BY <3>1 DEF MemoryInv, StartInv
    <3>4. AfterHandovers(journal', r, i) /\ journal'[i] = journal[i]
      BY <2>1, <3>2, <3>3, AppendHandovers
    <3> QED BY <3>3, <3>4
  <2> QED BY <2>2, <2>3
<1>4. OutcomeInv'
  <2>1. CASE pc = "outcome"
    <3>1. PendingEvent.tells = {<<who, round[who]>>}
      BY <2>1 DEF PendingEvent, TextTells
    <3>2. AfterHandovers(journal', who, Len(journal'))
      BY <1>2, <2>1, AppendHandovers
    <3> QED BY <1>1, <1>2, <3>1, <3>2 DEF OutcomeInv
  <2>2. CASE pc # "outcome"
    BY <1>2, <2>2 DEF OutcomeInv, OutcomeUnread, AppendCalls
  <2> QED BY <2>1, <2>2
<1>5. UNION {journal'[i].tells : i \in window} = UNION {journal[i].tells : i \in window}
  BY <1>1
<1>6. WindowInv'
  BY <1>2, <1>5 DEF MemoryInv, WindowInv, WindowRead
<1>7. \A r \in Roles : \A kept, n :
        ~(pc = "write" /\ r = who) /\ Covered(journal, r, kept, n) => Covered(journal', r, kept, n)
  BY AppendHandovers DEF Covered
<1>8. pc = "write" => \A n \in 0 .. Len(journal') : IsLastHandover(journal', who, n) =>
        LastTells(journal', n) = UNION {journal[i].tells : i \in window}
  <2> SUFFICES ASSUME pc = "write", NEW n \in 0 .. Len(journal'), IsLastHandover(journal', who, n)
               PROVE  LastTells(journal', n) = UNION {journal[i].tells : i \in window}
    OBVIOUS
  <2>1. n = Len(journal')
    BY <1>2, AppendHandovers
  <2>2. PendingEvent.tells = UNION {journal[i].tells : i \in window}
    BY DEF PendingEvent, TextTells
  <2>3. Len(journal') # 0
    BY AppendGrows
  <2> QED BY <1>1, <2>1, <2>2, <2>3 DEF LastTells
<1>9. WrittenInv'
  BY <1>2, <1>8 DEF MemoryInv, WindowInv, WindowRead, WrittenInv, Covered
<1>10. CoverInv'
  <2>1. site # "end" => \A r \in Roles : Covered(journal', r, raw[r], round[r] - 1)
    <3> SUFFICES ASSUME site # "end", NEW r \in Roles PROVE Covered(journal', r, raw[r], round[r] - 1)
      OBVIOUS
    <3>1. CASE ~(pc = "write" /\ r = who)
      BY <1>7, <3>1 DEF MemoryInv, CoverInv
    <3>2. CASE pc = "write" /\ r = who
      <4>0. round[r] \in Nat \ {0}
        BY DEF DataTypes
      <4>1. CASE site = "start"
        <5>1. round[r] - 1 = 0
          BY <4>1 DEF LoopInv, SiteInv
        <5> QED BY <4>0, <5>1, RoundsGrow DEF Covered
      <4>2. CASE site = "round"
        <5>1. Rounds(r, round[r]) \subseteq UNION {journal[i].tells : i \in window}
          BY <3>2, <4>2 DEF MemoryInv, WindowInv, WindowRead
        <5>2. Rounds(r, round[r] - 1) \subseteq Rounds(r, round[r])
          BY <4>0, RoundsGrow
        <5> QED BY <1>8, <3>2, <5>1, <5>2 DEF Covered
      <4> QED BY <4>1, <4>2 DEF LoopTypes
    <3> QED BY <3>1, <3>2
  <2>2. pc # "summary"
    BY <1>2 DEF AppendCalls
  <2> QED BY <1>2, <2>1, <2>2 DEF MemoryInv, CoverInv
<1> QED BY <1>3, <1>4, <1>6, <1>9, <1>10 DEF MemoryInv

(* A round's own handover reads the round and what its prompt told.        *)
LEMMA RoundIsRead ==
  ASSUME LoopTypes, DataTypes, LoopInv, MemoryInv, pc = "read", site = "round",
         NEW n \in 0 .. Len(journal), IsLastHandover(journal, who, n)
  PROVE  Rounds(who, round[who]) \subseteq
           UNION {journal[i].tells : i \in WindowAfter(journal, who, n)}
<1>1. who \in active /\ who \in Roles /\ round[who] \in Nat \ {0}
  BY DEF LoopInv, VisitInv, Reporting, PastReport, Handing, LoopTypes, DataTypes
<1>2. PICK i \in Nat : AfterHandovers(journal, who, i) /\ told[who] \subseteq journal[i].tells
  BY <1>1 DEF MemoryInv, StartInv, StartUnread
<1>3. PICK j \in Nat : AfterHandovers(journal, who, j) /\ <<who, round[who]>> \in journal[j].tells
  BY DEF MemoryInv, OutcomeInv, OutcomeUnread
<1>4. ASSUME NEW k \in Nat, AfterHandovers(journal, who, k) PROVE k \in WindowAfter(journal, who, n)
  <2>1. k \in OwnSeqs(journal, who)
    BY <1>4 DEF AfterHandovers
  <2>2. n # 0 => ~(n >= k)
    BY <1>4 DEF AfterHandovers, IsLastHandover
  <2>3. k # 0
    BY <2>1 DEF OwnSeqs, DataTypes
  <2> QED BY <2>1, <2>2, <2>3 DEF WindowAfter
<1>5. Rounds(who, round[who]) = Rounds(who, round[who] - 1) \cup {<<who, round[who]>>}
  BY <1>1, RoundsGrow
<1>6. Rounds(who, round[who] - 1) \subseteq told[who]
  BY <1>1 DEF MemoryInv, CoverInv
<1> QED BY <1>2, <1>3, <1>4, <1>5, <1>6

LEMMA MemoryLeaves ==
  ASSUME LoopTypes, DataTypes, LoopInv, MemoryInv, pc \in {"read", "write"}, ~landed',
         NEW fired \in BOOLEAN, LeaveHandover(fired), UNCHANGED <<told, round, journal>>,
         fired /\ site = "round" => Covered(journal, who, {}, round[who])
  PROVE  MemoryInv'
<1>1. /\ pc' \in {"submit", "started", "poll", "outcome", "terminal", "return"} /\ UNCHANGED site
      /\ \A r \in active' : StartUnread(r)' => r \in active /\ StartUnread(r)
  <2>1. CASE site = "start"
    <3>1. pc' \in {"submit", "started"} /\ UNCHANGED site /\ (pc' = "started" => who' = 1)
      BY <2>1 DEF LeaveHandover
    <3>2. \A r \in active' : r \in Roles
      BY LeaveHandoverTypes
    <3>3. \A r \in Roles : ~(r < 1)
      BY RunTeamAssumption DEF Roles
    <3> QED BY <3>1, <3>2, <3>3 DEF StartUnread, Reporting, PastReport, Handing
  <2>2. CASE site = "round" /\ Steerable
    BY <2>2 DEF LeaveHandover, StartUnread, Reporting, PastReport, Handing
  <2>3. CASE site = "round" /\ ~Steerable
    <3>1. Reporting /\ NextReport(next) /\ UNCHANGED site /\ next \in SUBSET active
      BY <2>3 DEF LeaveHandover, Reporting, PastReport, Handing, LoopInv, VisitInv
    <3> QED BY <3>1, UnreadNext DEF StartUnread
  <2>4. CASE site = "end"
    BY <2>4 DEF LeaveHandover, StartUnread, Reporting, PastReport, Handing
  <2> QED BY <2>1, <2>2, <2>3, <2>4 DEF LoopTypes
<1>2. ~OutcomeUnread' /\ ~WindowRead'
  BY <1>1 DEF OutcomeUnread, WindowRead
<1>3. StartInv' /\ OutcomeInv' /\ WindowInv' /\ WrittenInv'
  BY <1>1, <1>2 DEF MemoryInv, StartInv, OutcomeInv, WindowInv, WrittenInv
<1>4. \A r \in Roles : site # "end" => Covered(journal, r, raw'[r], round[r] - 1)
  <2> SUFFICES ASSUME NEW r \in Roles, site # "end" PROVE Covered(journal, r, raw'[r], round[r] - 1)
    OBVIOUS
  <2>0. round[r] \in Nat \ {0}
    BY DEF DataTypes
  <2>1. CASE raw'[r] = raw[r]
    BY <2>1 DEF MemoryInv, CoverInv
  <2>2. CASE fired /\ site = "round" /\ r = who /\ raw'[r] = {}
    <3>1. Rounds(r, round[r] - 1) \subseteq Rounds(r, round[r])
      BY <2>0, RoundsGrow
    <3> QED BY <2>2, <3>1 DEF Covered
  <2>3. raw'[r] = raw[r] \/ (fired /\ site = "round" /\ r = who /\ raw'[r] = {})
    <3>1. CASE UNCHANGED raw
      BY <3>1
    <3>2. CASE site = "round" /\ raw' = IF fired THEN [raw EXCEPT ![who] = {}] ELSE raw
      BY <3>2 DEF DataTypes
    <3> QED BY <3>1, <3>2 DEF LeaveHandover
  <2> QED BY <2>1, <2>2, <2>3
<1>5. CoverInv'
  BY <1>1, <1>4 DEF MemoryInv, CoverInv
<1> QED BY <1>3, <1>5 DEF MemoryInv

LEMMA MemoryReadWindow ==
  ASSUME LoopTypes, DataTypes, LoopInv, LandedInv, MemoryInv, ReadWindow
  PROVE  MemoryInv'
<1>1. pc = "read" /\ ~landed' /\ UNCHANGED <<told, round, journal>>
  BY DEF ReadWindow, LandedInv, AppendCalls, world
<1>2. CASE LeaveHandover(FALSE)
  BY <1>1, <1>2, MemoryLeaves
<1>3. CASE pc' = "llm" /\ UNCHANGED <<site, who, active, next, raw>>
  <2>1. PICK n \in 0 .. Len(journal) :
          IsLastHandover(journal, who, n) /\ window' = WindowAfter(journal, who, n)
    BY DEF ReadWindow
  <2>2. WindowInv'
    BY <1>1, <1>3, <2>1, RoundIsRead DEF WindowInv, WindowRead
  <2>3. StartInv'
    BY <1>1, <1>3 DEF MemoryInv, StartInv, StartUnread, Reporting, PastReport, Handing
  <2>4. OutcomeInv' /\ WrittenInv' /\ CoverInv'
    BY <1>1, <1>3 DEF MemoryInv, OutcomeInv, OutcomeUnread, WrittenInv, CoverInv
  <2> QED BY <2>2, <2>3, <2>4 DEF MemoryInv
<1> QED BY <1>2, <1>3 DEF ReadWindow

LEMMA MemoryWritten ==
  ASSUME LoopTypes, DataTypes, LoopInv, MemoryInv, HandoverWritten
  PROVE  MemoryInv'
<1>1. /\ pc = "write" /\ landed /\ ~landed' /\ UNCHANGED <<told, round, journal>>
      /\ LeaveHandover(TRUE)
  BY DEF HandoverWritten, Commit, world
<1>2. site = "round" => Covered(journal, who, {}, round[who])
  BY <1>1 DEF MemoryInv, WrittenInv, WindowRead
<1> QED BY <1>1, <1>2, MemoryLeaves

LEMMA MemorySteered ==
  ASSUME LoopTypes, DataTypes, LoopInv, MemoryInv, SteeringJournaled
  PROVE  MemoryInv'
<1>1. /\ pc = "steer" /\ pc' = "summary" /\ ~landed'
      /\ raw' = [raw EXCEPT ![who] = raw[who] \cup {round[who]}]
      /\ UNCHANGED <<told, site, who, active, round, window, journal>> /\ who \in Roles
  BY DEF SteeringJournaled, Commit, world, LoopTypes
<1>2. StartInv'
  BY <1>1 DEF MemoryInv, StartInv, StartUnread, Reporting, PastReport
<1>3. OutcomeInv' /\ WindowInv' /\ WrittenInv'
  BY <1>1 DEF OutcomeInv, OutcomeUnread, WindowInv, WrittenInv, WindowRead
<1>4. site # "end"
  BY <1>1 DEF LoopInv, SiteInv
<1>5. \A r \in Roles : Pairs(r, raw[r]) \subseteq Pairs(r, raw'[r])
  <2>1. \A r \in Roles : raw[r] \subseteq raw'[r]
    BY <1>1 DEF DataTypes
  <2> QED BY <2>1, PairsGrow
<1>6. \A r \in Roles : Covered(journal, r, raw'[r], round[r] - 1)
  BY <1>4, <1>5 DEF MemoryInv, CoverInv, Covered
<1>7. Covered(journal, who, raw'[who], round[who])
  <2>1. raw'[who] = raw[who] \cup {round[who]} /\ round[who] \in Nat \ {0}
    BY <1>1 DEF DataTypes
  <2>2. Pairs(who, raw'[who]) = Pairs(who, raw[who]) \cup {<<who, round[who]>>}
    <3>1. Pairs(who, raw[who] \cup {round[who]}) = Pairs(who, raw[who]) \cup {<<who, round[who]>>}
      BY PairsAdd
    <3> QED BY <2>1, <3>1
  <2>3. Rounds(who, round[who]) = Rounds(who, round[who] - 1) \cup {<<who, round[who]>>}
    BY <2>1, RoundsGrow
  <2>4. Covered(journal, who, raw[who], round[who] - 1)
    BY <1>1, <1>4 DEF MemoryInv, CoverInv
  <2> QED BY <2>2, <2>3, <2>4 DEF Covered
<1>8. CoverInv'
  BY <1>1, <1>6, <1>7 DEF MemoryInv, CoverInv
<1> QED BY <1>2, <1>3, <1>8 DEF MemoryInv

LEMMA MemoryComposed ==
  ASSUME LoopTypes, DataTypes, LoopInv, LandedInv, MemoryInv, ComposeRound
  PROVE  MemoryInv'
<1>1. /\ pc = "summary" /\ ~landed' /\ NextReport(next \cup {who})
      /\ round' = [round EXCEPT ![who] = round[who] + 1]
      /\ UNCHANGED <<raw, site, window, journal>> /\ who \in Roles
      /\ next \cup {who} \in SUBSET active /\ Reporting
  BY DEF ComposeRound, LandedInv, AppendCalls, world, LoopTypes, LoopInv, VisitInv, Reporting,
    PastReport
<1>2. PICK n \in 0 .. Len(journal) :
        /\ IsLastHandover(journal, who, n)
        /\ told' = [told EXCEPT ![who] = Pairs(who, raw[who]) \cup LastTells(journal, n)]
  BY DEF ComposeRound, LatestOfRole, Pairs, LastTells
<1>3. /\ pc' \in {"outcome", "started", "terminal"} /\ site \in {"start", "round"}
      /\ \A r \in active' : StartUnread(r)' => r \in active /\ r > who
  BY <1>1, UnreadNext
<1>4. \A r \in Roles : r # who => told'[r] = told[r] /\ round'[r] = round[r]
  BY <1>1, <1>2 DEF DataTypes
<1>5. round'[who] = round[who] + 1 /\ round[who] \in Nat \ {0}
      /\ told'[who] = Pairs(who, raw[who]) \cup LastTells(journal, n)
  BY <1>1, <1>2 DEF DataTypes
<1>6. Covered(journal, who, raw[who], round[who])
  BY <1>1 DEF MemoryInv, CoverInv
<1>7. StartInv'
  <2>1. \A r \in active : r \in Roles /\ (r > who => r # who)
    BY <1>1, SomeRole DEF LoopTypes
  <2> QED BY <1>1, <1>3, <1>4, <2>1 DEF MemoryInv, StartInv, StartUnread
<1>8. OutcomeInv' /\ WindowInv' /\ WrittenInv'
  BY <1>1, <1>3 DEF OutcomeInv, OutcomeUnread, WindowInv, WrittenInv, WindowRead
<1>9. CoverInv'
  <2>1. round'[who] - 1 = round[who]
    BY <1>5
  <2>2. \A r \in Roles : Rounds(r, round'[r] - 1) \subseteq told'[r]
    <3>1. Rounds(who, round[who]) \subseteq told'[who]
      BY <1>2, <1>5, <1>6 DEF Covered
    <3> QED BY <1>4, <2>1, <3>1 DEF MemoryInv, CoverInv
  <2>3. \A r \in Roles : Covered(journal, r, raw[r], round'[r] - 1)
    BY <1>3, <1>4, <1>6, <2>1 DEF MemoryInv, CoverInv
  <2> QED BY <1>1, <1>3, <2>2, <2>3 DEF CoverInv
<1> QED BY <1>7, <1>8, <1>9 DEF MemoryInv

LEMMA MemoryStep == TeamInv /\ MemoryInv /\ [Next]_vars => MemoryInv'
<1> SUFFICES ASSUME TeamInv, MemoryInv, [Next]_vars PROVE MemoryInv'
  OBVIOUS
<1>0. LoopTypes /\ DataTypes /\ LoopInv /\ LandedInv
  BY DEF TeamInv
<1>1. CASE AppendEvent
  BY <1>0, <1>1, MemoryAppend DEF DataTypes
<1>2. CASE ReadWindow \/ HandoverWritten \/ SteeringJournaled \/ ComposeRound
  BY <1>0, <1>2, MemoryReadWindow, MemoryWritten, MemorySteered, MemoryComposed
<1>3. CASE \/ InvokeAgain \/ ErrorAgain \/ ReturnsInstead \/ CallRaises \/ Return \/ Resume \/ Crash
           \/ UNCHANGED vars \/ \E r \in Roles : InvokeBackend(r) \/ SendSteering(r)
  <2>1. /\ UNCHANGED <<round, told, raw, window, journal, pc, site, who, active>>
        /\ landed' => landed
    BY <1>3 DEF InvokeAgain, ErrorAgain, ReturnsInstead, CallRaises, Return, Resume, Crash, CrashTo,
      vars, InvokeBackend, SendSteering, body, texts, world
  <2>2. \A r \in active' : StartUnread(r)' => r \in active /\ StartUnread(r)
    BY <2>1 DEF StartUnread, Reporting, PastReport
  <2>3. (OutcomeUnread' => OutcomeUnread) /\ (WindowRead' => WindowRead)
    BY <2>1 DEF OutcomeUnread, WindowRead
  <2> QED BY <2>1, <2>2, <2>3, MemoryStays
<1>4. CASE CallLlm \/ TaskSubmitted \/ SteeringHit \/ TaskEnded
  <2>1. /\ UNCHANGED <<round, told, raw, window, journal, who, active>>
        /\ \/ pc = "llm" /\ pc' = "write" /\ UNCHANGED <<site, landed>> /\ ~landed
           \/ pc = "submit" /\ pc' = "read" /\ site' = "start" /\ site = "start"
           \/ pc = "poll" /\ pc' = "steer" /\ UNCHANGED <<site, landed>>
           \/ pc = "terminal" /\ pc' = "read" /\ site' = "end"
    BY <1>0, <1>4 DEF CallLlm, TaskSubmitted, SteeringHit, TaskEnded, Commit, texts, world,
      LandedInv, AppendCalls, LoopInv, SiteInv
  <2>2. \A r \in active' : StartUnread(r)' => r \in active /\ StartUnread(r)
    BY <2>1 DEF StartUnread, Reporting, PastReport, Handing
  <2>3. ~OutcomeUnread' /\ (WindowRead' => WindowRead)
    BY <2>1 DEF OutcomeUnread, WindowRead
  <2> QED BY <2>1, <2>2, <2>3, MemoryStays
<1>5. CASE DelegationStarted
  <2>1. /\ UNCHANGED <<round, told, raw, window, journal, site, active>> /\ pc = "started" /\ landed
        /\ \/ After(active) = {} /\ pc' = "dispatch" /\ UNCHANGED who
           \/ who' \in First(After(active)) /\ UNCHANGED pc /\ ~landed'
    BY <1>5 DEF DelegationStarted, Commit, texts, world
  <2>2. active \subseteq Nat /\ who \in Nat
    BY <1>0, SomeRole DEF LoopTypes
  <2>3. ASSUME NEW r \in active, StartUnread(r)' PROVE StartUnread(r)
    <3>1. ~(r > who)
      <4>1. CASE After(active) = {}
        BY <4>1 DEF After
      <4>2. CASE who' \in First(After(active)) /\ UNCHANGED pc /\ ~landed'
        <5>1. r < who'
          BY <2>1, <2>3, <4>2 DEF StartUnread, Reporting, PastReport, Handing
        <5>2. r \in After(active) => who' <= r
          BY <4>2 DEF First
        <5>3. who' \in Nat
          BY <2>2, <4>2 DEF First, After
        <5> QED BY <2>2, <5>1, <5>2, <5>3 DEF After
      <4> QED BY <2>1, <4>1, <4>2
    <3> QED BY <2>1, <2>2, <3>1 DEF StartUnread
  <2>4. ~OutcomeUnread' /\ ~WindowRead' /\ pc' # "summary"
    BY <2>1 DEF OutcomeUnread, WindowRead
  <2> QED BY <2>1, <2>3, <2>4, MemoryStays
<1>6. CASE DelegationReported
  <2>1. /\ UNCHANGED <<round, told, raw, window, journal>> /\ pc = "outcome" /\ landed /\ ~landed'
        /\ site # "end" /\ Reporting /\ next \in SUBSET active
    BY <1>0, <1>6 DEF DelegationReported, Commit, texts, world, LoopInv, SiteInv, VisitInv, Handing,
      Reporting
  <2>2. CASE NextReport(next) /\ UNCHANGED site
    <3>1. /\ pc' \in {"outcome", "started", "terminal"}
          /\ \A r \in active' : StartUnread(r)' => r \in active /\ r > who
      BY <1>0, <2>1, <2>2, UnreadNext
    <3>2. \A r \in active' : StartUnread(r)' => r \in active /\ StartUnread(r)
      BY <2>1, <3>1 DEF StartUnread
    <3>3. ~OutcomeUnread' /\ ~WindowRead'
      BY <2>1, <3>1 DEF OutcomeUnread, WindowRead
    <3> QED BY <2>1, <2>2, <3>1, <3>2, <3>3, MemoryStays
  <2>3. CASE pc' = "read" /\ site' = "round" /\ UNCHANGED <<who, active, next>>
    <3>1. \A r \in active' : StartUnread(r)' => r \in active /\ StartUnread(r)
      BY <2>1, <2>3 DEF StartUnread, Reporting
    <3>2. OutcomeUnread /\ ~WindowRead'
      BY <2>1, <2>3 DEF OutcomeUnread, WindowRead
    <3> QED BY <2>1, <2>3, <3>1, <3>2, MemoryStays
  <2> QED BY <1>6, <2>2, <2>3 DEF DelegationReported
<1>7. CASE SteeringMiss
  <2>1. /\ UNCHANGED <<round, told, raw, window, journal, site>> /\ pc = "poll" /\ ~landed'
        /\ Reporting /\ next \in SUBSET active /\ NextReport(next)
    BY <1>0, <1>7 DEF SteeringMiss, texts, world, LoopInv, VisitInv, Reporting, PastReport,
      LandedInv, AppendCalls
  <2>2. /\ pc' \in {"outcome", "started", "terminal"}
        /\ \A r \in active' : StartUnread(r)' => r \in active /\ r > who
    BY <1>0, <2>1, UnreadNext
  <2>3. \A r \in active' : StartUnread(r)' => r \in active /\ StartUnread(r)
    BY <2>1, <2>2 DEF StartUnread
  <2>4. ~OutcomeUnread' /\ ~WindowRead'
    BY <2>1, <2>2 DEF OutcomeUnread, WindowRead
  <2> QED BY <2>1, <2>2, <2>3, <2>4, MemoryStays
<1>8. CASE \E r \in Roles : BackendReturns(r) \/ BackendErrors(r)
  <2>1. PICK r \in Roles, v \in Verdicts \cup {"error"} : Answer(r, v)
    BY <1>8 DEF BackendReturns, BackendErrors
  <2>2. /\ UNCHANGED <<round, told, raw, window, journal, site, active, landed>>
        /\ pc = "dispatch" /\ ~landed
        /\ (pc' = "outcome" \/ pc' = "dispatch")
    BY <1>0, <2>1 DEF Answer, texts, world, LandedInv, AppendCalls
  <2>3. \A q \in active' : StartUnread(q)' => q \in active /\ StartUnread(q)
    BY <2>2 DEF StartUnread
  <2>4. ~OutcomeUnread' /\ ~WindowRead'
    BY <2>2 DEF OutcomeUnread, WindowRead
  <2> QED BY <2>2, <2>3, <2>4, MemoryStays
<1> QED
  BY <1>1, <1>2, <1>3, <1>4, <1>5, <1>6, <1>7, <1>8 DEF Next, Body, Handover, Replay

(* Nothing a role is told, keeps or journals is another role's.            *)
OwnTexts(log) ==
  \A r \in Roles : \A i \in OwnSeqs(log, r) : log[i].tells \subseteq Rounds(r, round[r])

OwnInv ==
  /\ \A r \in Roles : told[r] \subseteq Rounds(r, round[r] - 1)
  /\ \A r \in Roles : raw[r] \subseteq 1 .. round[r]
  /\ OwnTexts(journal)
  /\ pc \in {"llm", "write"} => window \subseteq OwnSeqs(journal, who)

LEMMA OwnAppend ==
  ASSUME LoopTypes, DataTypes, OwnInv, AppendEvent
  PROVE  OwnInv'
<1>1. /\ DOMAIN journal' = 1 .. Len(journal') /\ journal'[Len(journal')] = PendingEvent
      /\ \A i \in DOMAIN journal : i \in DOMAIN journal' /\ journal'[i] = journal[i]
      /\ \A i \in DOMAIN journal' : i = Len(journal') \/ i \in DOMAIN journal
      /\ PendingEvent.role = who
  BY AppendGrows DEF PendingEvent
<1>2. /\ UNCHANGED <<pc, who, round, told, raw, window>> /\ who \in Roles
      /\ round[who] \in Nat \ {0}
  BY DEF AppendEvent, body, texts, LoopTypes, DataTypes
<1>3. PendingEvent.tells \subseteq Rounds(who, round[who])
  <2>1. PendingEvent.tells = TextTells
    BY DEF PendingEvent
  <2>2. pc = "started" => TextTells \subseteq Rounds(who, round[who])
    <3>1. told[who] \subseteq Rounds(who, round[who] - 1)
      BY <1>2 DEF OwnInv
    <3>2. Rounds(who, round[who] - 1) \subseteq Rounds(who, round[who])
      BY <1>2, RoundsGrow
    <3> QED BY <3>1, <3>2 DEF TextTells
  <2>3. pc = "write" => TextTells \subseteq Rounds(who, round[who])
    <3>1. pc = "write" => \A i \in window : journal[i].tells \subseteq Rounds(who, round[who])
      BY <1>2 DEF OwnInv, OwnTexts
    <3> QED BY <3>1 DEF TextTells
  <2>4. pc = "outcome" => TextTells \subseteq Rounds(who, round[who])
    <3>1. <<who, round[who]>> \in Rounds(who, round[who])
      BY <1>2, RoundsGrow
    <3> QED BY <3>1 DEF TextTells
  <2> QED BY <2>1, <2>2, <2>3, <2>4 DEF TextTells
<1>4. ASSUME NEW r \in Roles, NEW i \in OwnSeqs(journal', r)
      PROVE  journal'[i].tells \subseteq Rounds(r, round[r])
  <2>1. i \in DOMAIN journal' /\ journal'[i].role = r
    BY <1>4 DEF OwnSeqs
  <2>2. CASE i = Len(journal')
    BY <1>1, <1>3, <2>1, <2>2
  <2>3. CASE i \in DOMAIN journal
    <3>1. i \in OwnSeqs(journal, r) /\ journal'[i] = journal[i]
      BY <1>1, <2>1, <2>3 DEF OwnSeqs
    <3> QED BY <3>1 DEF OwnInv, OwnTexts
  <2> QED BY <1>1, <2>1, <2>2, <2>3
<1>5. OwnSeqs(journal, who) \subseteq OwnSeqs(journal', who)
  BY <1>1 DEF OwnSeqs
<1> QED BY <1>2, <1>4, <1>5 DEF OwnInv, OwnTexts

LEMMA OwnStep == LoopTypes /\ DataTypes /\ OwnInv /\ [Next]_vars => OwnInv'
<1> SUFFICES ASSUME LoopTypes, DataTypes, OwnInv, [Next]_vars PROVE OwnInv'
  OBVIOUS
<1>0. who \in Roles /\ \A r \in Roles : round[r] \in Nat \ {0}
  BY DEF LoopTypes, DataTypes
<1>1. CASE AppendEvent
  BY <1>1, OwnAppend
<1>2. CASE ComposeRound
  <2>1. /\ round' = [round EXCEPT ![who] = round[who] + 1] /\ UNCHANGED <<raw, journal>>
        /\ pc' \notin {"llm", "write"}
    BY <1>2 DEF ComposeRound, NextReport, world
  <2>2. PICK n \in 0 .. Len(journal) :
          /\ IsLastHandover(journal, who, n)
          /\ told' = [told EXCEPT ![who] = Pairs(who, raw[who]) \cup LastTells(journal, n)]
    BY <1>2 DEF ComposeRound, LatestOfRole, Pairs, LastTells
  <2>3. /\ \A r \in Roles : r # who => told'[r] = told[r] /\ round'[r] = round[r]
        /\ round'[who] = round[who] + 1
        /\ told'[who] = Pairs(who, raw[who]) \cup LastTells(journal, n)
    BY <1>0, <2>1, <2>2 DEF DataTypes
  <2>4. told'[who] \subseteq Rounds(who, round'[who] - 1)
    <3>1. round'[who] - 1 = round[who]
      BY <1>0, <2>3
    <3>2. Pairs(who, raw[who]) \subseteq Rounds(who, round[who])
      BY <1>0, PairsGrow DEF OwnInv, Rounds
    <3>3. LastTells(journal, n) \subseteq Rounds(who, round[who])
      BY <1>0, <2>2 DEF OwnInv, OwnTexts, LastTells, IsLastHandover
    <3> QED BY <2>3, <3>1, <3>2, <3>3
  <2>5. \A r \in Roles : Rounds(r, round[r]) \subseteq Rounds(r, round'[r])
    <3>1. Rounds(who, round[who]) \subseteq Rounds(who, round[who] + 1)
      BY <1>0, RoundsGrow
    <3> QED BY <2>3, <3>1
  <2>6. \A r \in Roles : raw[r] \subseteq 1 .. round'[r]
    <3>1. raw[who] \subseteq 1 .. round[who] /\ 1 .. round[who] \subseteq 1 .. (round[who] + 1)
      BY <1>0 DEF OwnInv
    <3> QED BY <2>3, <3>1 DEF OwnInv
  <2>7. OwnTexts(journal)'
    BY <2>1, <2>5 DEF OwnInv, OwnTexts
  <2>8. \A r \in Roles : told'[r] \subseteq Rounds(r, round'[r] - 1)
    BY <2>3, <2>4 DEF OwnInv
  <2> QED BY <2>1, <2>6, <2>7, <2>8 DEF OwnInv
<1>3. CASE UNCHANGED <<told, round, journal>> /\ (\A r \in Roles : raw'[r] \subseteq 1 .. round[r])
           /\ (pc' \in {"llm", "write"} => window' \subseteq OwnSeqs(journal, who'))
  BY <1>3 DEF OwnInv, OwnTexts
<1>4. CASE ReadWindow \/ HandoverWritten
  <2>1. UNCHANGED <<told, round, journal>>
    BY <1>4 DEF ReadWindow, HandoverWritten, world
  <2>2. \A r \in Roles : raw'[r] \subseteq 1 .. round[r]
    <3>1. \A r \in Roles : raw'[r] = raw[r] \/ raw'[r] = {}
      BY <1>4 DEF ReadWindow, HandoverWritten, LeaveHandover, DataTypes
    <3> QED BY <3>1 DEF OwnInv
  <2>3. pc' \in {"llm", "write"} => ReadWindow /\ pc' = "llm" /\ who' = who
    BY <1>4 DEF ReadWindow, HandoverWritten, LeaveHandover, NextReport
  <2>4. ReadWindow => window' \subseteq OwnSeqs(journal, who)
    BY DEF ReadWindow, WindowAfter
  <2> QED BY <1>3, <2>1, <2>2, <2>3, <2>4
<1>5. CASE SteeringJournaled
  <2>1. /\ UNCHANGED <<told, round, journal>> /\ pc' = "summary"
        /\ raw' = [raw EXCEPT ![who] = raw[who] \cup {round[who]}]
    BY <1>5 DEF SteeringJournaled, world
  <2>2. \A r \in Roles : raw'[r] \subseteq 1 .. round[r]
    BY <1>0, <2>1 DEF OwnInv, DataTypes
  <2> QED BY <1>3, <2>1, <2>2
<1>6. CASE \/ CallLlm \/ InvokeAgain \/ ErrorAgain \/ ReturnsInstead \/ CallRaises \/ Return
           \/ Resume \/ Crash \/ UNCHANGED vars \/ \E r \in Roles : InvokeBackend(r) \/ SendSteering(r)
  <2>1. UNCHANGED <<told, raw, round, journal, window, who>> /\ (pc' # pc => pc = "llm")
    BY <1>6 DEF CallLlm, InvokeAgain, ErrorAgain, ReturnsInstead, CallRaises, Return, Resume, Crash,
      CrashTo, vars, InvokeBackend, SendSteering, body, texts, world
  <2> QED BY <1>3, <2>1 DEF OwnInv
<1>7. CASE \/ TaskSubmitted \/ DelegationStarted \/ DelegationReported \/ SteeringHit \/ SteeringMiss
           \/ TaskEnded \/ \E r \in Roles : BackendReturns(r) \/ BackendErrors(r)
  <2>1. UNCHANGED <<told, raw, round, journal>>
    BY <1>7 DEF TaskSubmitted, DelegationStarted, DelegationReported, SteeringHit, SteeringMiss,
      TaskEnded, BackendReturns, BackendErrors, Answer, texts, world
  <2>2. pc' \notin {"llm", "write"}
    BY <1>7 DEF TaskSubmitted, DelegationStarted, DelegationReported, SteeringHit, SteeringMiss,
      TaskEnded, BackendReturns, BackendErrors, Answer, Commit, NextReport
  <2> QED BY <1>3, <2>1, <2>2 DEF OwnInv
<1> QED
  BY <1>1, <1>2, <1>4, <1>5, <1>6, <1>7 DEF Next, Body, Handover, Replay

(* For every number of roles and every budget, the prompt of a role's      *)
(* round tells of every earlier round of that role and of no other role's, *)
(* however the roles' handovers interleave in the one journal              *)
(* (handover.py 143-160, team.py 254-281).                                 *)
THEOREM PromptsAreOwn == Spec => []PromptIsOwnHistory
<1>1. Init => MemoryInv /\ OwnInv
  <2> SUFFICES ASSUME Init PROVE MemoryInv /\ OwnInv
    OBVIOUS
  <2>1. /\ journal = <<>> /\ pc = "submit" /\ ~landed
        /\ \A r \in Roles : round[r] = 1 /\ told[r] = {} /\ raw[r] = {}
    BY DEF Init
  <2>2. \A r \in Roles : Rounds(r, round[r] - 1) = {}
    <3>1. \A r \in Roles : Rounds(r, 0) = {}
      BY DEF Rounds, Pairs
    <3> QED BY <2>1, <3>1
  <2>3. StartInv /\ OutcomeInv /\ WindowInv /\ WrittenInv
    BY <2>1 DEF StartInv, StartUnread, Reporting, PastReport, Handing, OutcomeInv, OutcomeUnread,
      WindowInv, WindowRead, WrittenInv
  <2>4. CoverInv
    BY <2>1, <2>2 DEF CoverInv, Covered
  <2>5. OwnTexts(journal)
    BY <2>1 DEF OwnTexts, OwnSeqs
  <2>6. OwnInv
    BY <2>1, <2>2, <2>5 DEF OwnInv
  <2> QED BY <2>3, <2>4, <2>6 DEF MemoryInv
<1>2. TeamInv /\ MemoryInv /\ OwnInv => PromptIsOwnHistory
  <2> SUFFICES ASSUME TeamInv, MemoryInv, OwnInv, NEW r \in active
               PROVE  told[r] = {r} \X (1 .. (round[r] - 1))
    BY DEF PromptIsOwnHistory
  <2>1. r \in Roles
    BY DEF TeamInv, LoopTypes
  <2>2. told[r] = Rounds(r, round[r] - 1)
    BY <2>1 DEF MemoryInv, CoverInv, OwnInv
  <2> QED BY <2>2 DEF Rounds, Pairs
<1>3. TeamInv /\ OwnInv /\ [Next]_vars => OwnInv'
  BY OwnStep DEF TeamInv
<1> QED BY <1>1, <1>2, <1>3, MemoryStep, TeamInductive, PTL DEF Spec

(***************************************************************************)
(* RoleWindowsTile.  From the read to the committed write, the window      *)
(* holds what the role journaled since its last handover, but for the      *)
(* copies of its own handover that crashes have left.                      *)
(***************************************************************************)
Handovers(log, r) == {i \in OwnSeqs(log, r) : log[i].kind = "HandoverWritten"}

Tile(log, r, event, h) ==
  \E lo \in {0} \cup Handovers(log, r) :
    /\ lo < h
    /\ event.covers = {i \in OwnSeqs(log, r) \ Handovers(log, r) : lo < i /\ i < h}
    /\ \A g \in Handovers(log, r) : lo < g /\ g < h => log[g] = event

WriteEvent ==
  [kind |-> "HandoverWritten", role |-> who, round |-> round[who], covers |-> window,
   tells |-> UNION {journal[i].tells : i \in window}, msg |-> 0]

TileInv ==
  /\ \A r \in Roles : \A h \in Handovers(journal, r) : Tile(journal, r, journal[h], h)
  /\ pc \in {"llm", "write"} => Tile(journal, who, WriteEvent, Len(journal) + 1)

(* What lies before a tile's end is not disturbed by a row after it.       *)
LEMMA TileKept ==
  ASSUME NEW log \in Seq(Event), NEW longer \in Seq(Event), Len(longer) = Len(log) + 1,
         \A i \in DOMAIN log : longer[i] = log[i],
         NEW r, NEW event, NEW h \in 1 .. Len(log) + 1, Tile(log, r, event, h)
  PROVE  /\ Tile(longer, r, event, h)
         /\ h = Len(longer) /\ longer[h] = event /\ event.kind = "HandoverWritten" =>
              Tile(longer, r, event, h + 1)
<1>1. /\ Len(log) \in Nat /\ DOMAIN log = 1 .. Len(log) /\ h \in Nat
      /\ DOMAIN longer = 1 .. Len(log) + 1
  OBVIOUS
<1>2. /\ \A i : i < h /\ i \in Handovers(longer, r) => i \in Handovers(log, r) /\ longer[i] = log[i]
      /\ \A i : i \in Handovers(log, r) => i \in Handovers(longer, r)
      /\ \A i : i < h /\ i \in OwnSeqs(longer, r) => i \in OwnSeqs(log, r)
      /\ \A i : i \in OwnSeqs(log, r) => i \in OwnSeqs(longer, r)
  BY <1>1 DEF Handovers, OwnSeqs
<1>3. PICK lo \in {0} \cup Handovers(log, r) :
        /\ lo < h
        /\ event.covers = {i \in OwnSeqs(log, r) \ Handovers(log, r) : lo < i /\ i < h}
        /\ \A g \in Handovers(log, r) : lo < g /\ g < h => log[g] = event
  BY DEF Tile
<1>4. lo \in {0} \cup Handovers(longer, r)
  BY <1>2, <1>3
<1>5. {i \in OwnSeqs(log, r) \ Handovers(log, r) : lo < i /\ i < h} =
      {i \in OwnSeqs(longer, r) \ Handovers(longer, r) : lo < i /\ i < h}
  BY <1>2
<1>6. \A g \in Handovers(longer, r) : lo < g /\ g < h => longer[g] = event
  BY <1>2, <1>3
<1>7. Tile(longer, r, event, h)
  BY <1>3, <1>4, <1>5, <1>6 DEF Tile
<1>8. ASSUME h = Len(longer), longer[h] = event, event.kind = "HandoverWritten"
      PROVE  Tile(longer, r, event, h + 1)
  <2>1. \A i \in OwnSeqs(longer, r) : i < h + 1 => i < h \/ i = h
    BY <1>1 DEF OwnSeqs
  <2>2. h \in OwnSeqs(longer, r) => h \in Handovers(longer, r)
    BY <1>8 DEF Handovers
  <2>3. {i \in OwnSeqs(longer, r) \ Handovers(longer, r) : lo < i /\ i < h + 1} =
        {i \in OwnSeqs(longer, r) \ Handovers(longer, r) : lo < i /\ i < h}
    <3>1. \A i \in OwnSeqs(longer, r) : i < h => i < h + 1
      BY <1>1 DEF OwnSeqs
    <3> QED BY <2>1, <2>2, <3>1
  <2>4. \A g \in Handovers(longer, r) : lo < g /\ g < h + 1 => longer[g] = event
    BY <1>6, <1>8, <2>1 DEF Handovers
  <2>5. lo < h + 1
    BY <1>1, <1>3 DEF Handovers, OwnSeqs
  <2> QED BY <1>3, <1>4, <1>5, <2>3, <2>4, <2>5 DEF Tile
<1> QED BY <1>7, <1>8

LEMMA TileAppend ==
  ASSUME LoopTypes, DataTypes, TileInv, AppendEvent
  PROVE  TileInv'
<1>1. /\ Len(journal) \in Nat /\ Len(journal') = Len(journal) + 1
      /\ DOMAIN journal = 1 .. Len(journal) /\ DOMAIN journal' = 1 .. Len(journal')
      /\ \A i \in DOMAIN journal : journal'[i] = journal[i]
      /\ journal'[Len(journal')] = PendingEvent /\ PendingEvent.role = who
      /\ journal \in Seq(Event) /\ journal' \in Seq(Event)
  BY AppendGrows DEF DataTypes, PendingEvent
<1>2. /\ UNCHANGED <<pc, who, round, window>> /\ pc \in AppendCalls
      /\ window \subseteq DOMAIN journal
  BY DEF AppendEvent, body, DataTypes
<1>3. PendingEvent.kind = "HandoverWritten" <=> pc = "write"
  BY <1>2 DEF PendingEvent, PendingKind, OutcomeKind, AppendCalls
<1>4. pc = "write" => PendingEvent = WriteEvent
  BY DEF PendingEvent, PendingKind, TextTells, WriteEvent
<1>5. WriteEvent' = WriteEvent
  <2>1. UNION {journal'[i].tells : i \in window} = UNION {journal[i].tells : i \in window}
    BY <1>1, <1>2
  <2> QED BY <1>2, <2>1 DEF WriteEvent
<1>6. pc = "write" => /\ Tile(journal', who, WriteEvent, Len(journal'))
                      /\ Tile(journal', who, WriteEvent, Len(journal') + 1)
  <2> SUFFICES ASSUME pc = "write"
               PROVE  /\ Tile(journal', who, WriteEvent, Len(journal'))
                      /\ Tile(journal', who, WriteEvent, Len(journal') + 1)
    OBVIOUS
  <2>1. Tile(journal, who, WriteEvent, Len(journal'))
    BY <1>1 DEF TileInv
  <2>2. /\ journal'[Len(journal')] = WriteEvent /\ WriteEvent.kind = "HandoverWritten"
        /\ Len(journal') \in 1 .. Len(journal) + 1
    BY <1>1, <1>4 DEF WriteEvent
  <2> QED BY <1>1, <2>1, <2>2, TileKept
<1>7. ASSUME NEW r \in Roles, NEW h \in Handovers(journal', r)
      PROVE  Tile(journal', r, journal'[h], h)
  <2>1. h \in DOMAIN journal' /\ journal'[h].kind = "HandoverWritten" /\ journal'[h].role = r
    BY <1>7 DEF Handovers, OwnSeqs
  <2>2. CASE h = Len(journal')
    BY <1>1, <1>3, <1>4, <1>6, <2>1, <2>2
  <2>3. CASE h # Len(journal')
    <3>1. h \in DOMAIN journal /\ h \in 1 .. Len(journal) + 1 /\ journal'[h] = journal[h]
      BY <1>1, <2>1, <2>3
    <3>2. Tile(journal, r, journal[h], h)
      BY <2>1, <3>1 DEF TileInv, Handovers, OwnSeqs
    <3> QED BY <1>1, <3>1, <3>2, TileKept
  <2> QED BY <2>2, <2>3
<1>8. pc' \in {"llm", "write"} => Tile(journal', who', WriteEvent', Len(journal') + 1)
  BY <1>2, <1>5, <1>6 DEF AppendCalls
<1> QED BY <1>7, <1>8 DEF TileInv

LEMMA TileRead ==
  ASSUME LoopTypes, DataTypes, TileInv, ReadWindow
  PROVE  TileInv'
<1>1. UNCHANGED journal /\ Len(journal) \in Nat /\ DOMAIN journal = 1 .. Len(journal)
  BY DEF ReadWindow, DataTypes, world
<1>2. pc' # "write" /\ (pc' = "llm" => UNCHANGED who)
  BY DEF ReadWindow, LeaveHandover, NextReport
<1>3. PICK n \in 0 .. Len(journal) :
        IsLastHandover(journal, who, n) /\ window' = WindowAfter(journal, who, n)
  BY DEF ReadWindow
<1>4. n \in {0} \cup Handovers(journal, who) /\ n < Len(journal) + 1
  BY <1>1, <1>3 DEF IsLastHandover, Handovers
<1>5. \A g \in Handovers(journal, who) : ~(n < g)
  BY <1>1, <1>3 DEF IsLastHandover, Handovers, OwnSeqs
<1>6. window' = {i \in OwnSeqs(journal, who) \ Handovers(journal, who) :
                   n < i /\ i < Len(journal) + 1}
  <2>1. \A i \in OwnSeqs(journal, who) : i < Len(journal) + 1 /\ (i > n <=> n < i)
    BY <1>1, <1>3 DEF OwnSeqs
  <2> QED BY <1>3, <1>5, <2>1 DEF WindowAfter
<1>7. pc' = "llm" => Tile(journal, who, WriteEvent', Len(journal) + 1)
  <2>1. WriteEvent'.covers = window'
    BY DEF WriteEvent
  <2> QED BY <1>4, <1>5, <1>6, <2>1 DEF Tile
<1> QED BY <1>1, <1>2, <1>7 DEF TileInv

LEMMA TileStep == LoopTypes /\ DataTypes /\ TileInv /\ [Next]_vars => TileInv'
<1> SUFFICES ASSUME LoopTypes, DataTypes, TileInv, [Next]_vars PROVE TileInv'
  OBVIOUS
<1>1. CASE AppendEvent \/ ReadWindow
  BY <1>1, TileAppend, TileRead
<1>2. CASE ComposeRound \/ HandoverWritten \/ SteeringJournaled
  <2>1. UNCHANGED journal /\ pc' \notin {"llm", "write"}
    BY <1>2 DEF ComposeRound, HandoverWritten, SteeringJournaled, LeaveHandover, NextReport, world
  <2> QED BY <2>1 DEF TileInv
<1>3. CASE \/ CallLlm \/ InvokeAgain \/ ErrorAgain \/ ReturnsInstead \/ CallRaises \/ Return
           \/ Resume \/ Crash \/ UNCHANGED vars \/ \E r \in Roles : InvokeBackend(r) \/ SendSteering(r)
  <2>1. UNCHANGED <<journal, window, who, round>> /\ (pc' # pc => pc = "llm")
    BY <1>3 DEF CallLlm, InvokeAgain, ErrorAgain, ReturnsInstead, CallRaises, Return, Resume, Crash,
      CrashTo, vars, InvokeBackend, SendSteering, body, texts, world
  <2>2. WriteEvent' = WriteEvent
    BY <2>1 DEF WriteEvent
  <2> QED BY <2>1, <2>2 DEF TileInv
<1>4. CASE \/ TaskSubmitted \/ DelegationStarted \/ DelegationReported \/ SteeringHit \/ SteeringMiss
           \/ TaskEnded \/ \E r \in Roles : BackendReturns(r) \/ BackendErrors(r)
  <2>1. UNCHANGED journal
    BY <1>4 DEF TaskSubmitted, DelegationStarted, DelegationReported, SteeringHit, SteeringMiss,
      TaskEnded, BackendReturns, BackendErrors, Answer, texts, world
  <2>2. pc' \notin {"llm", "write"}
    BY <1>4 DEF TaskSubmitted, DelegationStarted, DelegationReported, SteeringHit, SteeringMiss,
      TaskEnded, BackendReturns, BackendErrors, Answer, Commit, NextReport
  <2> QED BY <2>1, <2>2 DEF TileInv
<1> QED
  BY <1>1, <1>2, <1>3, <1>4 DEF Next, Body, Handover, Replay

(* For every number of roles and every budget, a role's handovers          *)
(* summarise each of its own events exactly once, whatever the other roles *)
(* journal in between and whatever crashes repeat (handover.py 99-137).    *)
THEOREM RoleWindows == Spec => []RoleWindowsTile
<1>1. Init => TileInv
  BY DEF Init, TileInv, Handovers, OwnSeqs
<1>2. TileInv => RoleWindowsTile
  <2>1. \A r \in Roles : HandoversOf(r) = Handovers(journal, r)
    BY DEF HandoversOf, Handovers
  <2> QED BY <2>1 DEF TileInv, Tile, RoleWindowsTile
<1>3. TeamInv /\ TileInv /\ [Next]_vars => TileInv'
  BY TileStep DEF TeamInv
<1> QED BY <1>1, <1>2, <1>3, TeamInductive, PTL DEF Spec

(***************************************************************************)
(* ReturnedTeamIsExplained.  Once the roles' terminal events are written   *)
(* in turn, only handovers follow them.                                    *)
(***************************************************************************)
EndKind(r) == IF final[r] = "completed" THEN "TaskCompleted" ELSE "TaskFailed"

Over(r) == \E n \in OwnSeqs(journal, r) : IsLatest(journal, r, n) /\ journal[n].kind = EndKind(r)

EndInv ==
  /\ pc = "terminal" => \A r \in Roles : r < who \/ (r = who /\ landed) => Over(r)
  /\ pc \in Handing /\ site = "end" => \A r \in Roles : r <= who => Over(r)
  /\ pc = "return" => \A r \in Roles : Over(r)
  /\ run = "returned" => pc = "return"

LEMMA EndAppend ==
  ASSUME LoopTypes, DataTypes, EndInv, AppendEvent
  PROVE  EndInv'
<1>1. /\ Len(journal) \in Nat /\ Len(journal') = Len(journal) + 1
      /\ DOMAIN journal = 1 .. Len(journal) /\ DOMAIN journal' = 1 .. Len(journal')
      /\ \A i \in DOMAIN journal : i \in DOMAIN journal' /\ journal'[i] = journal[i]
      /\ journal'[Len(journal')] = PendingEvent /\ PendingEvent.role = who
      /\ PendingEvent.kind = PendingKind
  BY AppendGrows DEF PendingEvent
<1>2. UNCHANGED <<pc, site, who, final, run>> /\ pc \in AppendCalls /\ ~landed /\ who \in Roles
      /\ run = "running"
  BY DEF AppendEvent, body, Driving, LoopTypes
<1>3. \A r, i : i \in OwnSeqs(journal', r) <=>
        i \in OwnSeqs(journal, r) \/ (i = Len(journal') /\ r = who)
  BY <1>1 DEF OwnSeqs
<1>4. ASSUME NEW r \in Roles, Over(r), r # who \/ pc = "write" PROVE Over(r)'
  <2>1. PICK n \in OwnSeqs(journal, r) : IsLatest(journal, r, n) /\ journal[n].kind = EndKind(r)
    BY <1>4 DEF Over
  <2>2. n \in OwnSeqs(journal', r) /\ journal'[n] = journal[n] /\ EndKind(r)' = EndKind(r)
    BY <1>1, <1>2, <1>3, <2>1 DEF OwnSeqs, EndKind
  <2>3. pc = "write" => PendingKind \notin LifecycleKinds
    BY DEF PendingKind, LifecycleKinds, OutcomeKinds, TerminalKinds
  <2>4. ASSUME NEW i \in OwnSeqs(journal', r), i > n PROVE journal'[i].kind \notin LifecycleKinds
    <3>1. CASE i \in OwnSeqs(journal, r)
      <4>1. journal'[i] = journal[i]
        BY <1>1, <3>1 DEF OwnSeqs
      <4> QED BY <2>1, <2>4, <3>1, <4>1 DEF IsLatest
    <3>2. CASE i = Len(journal') /\ r = who
      BY <1>1, <1>4, <2>3, <3>2
    <3> QED BY <1>3, <2>4, <3>1, <3>2
  <2>5. journal'[n].kind \in LifecycleKinds
    <3>1. n # 0
      BY <1>1, <2>1 DEF OwnSeqs
    <3> QED BY <2>1, <2>2, <3>1 DEF IsLatest
  <2>6. IsLatest(journal', r, n)
    BY <2>2, <2>4, <2>5 DEF IsLatest
  <2>7. journal'[n].kind = EndKind(r)'
    BY <2>1, <2>2
  <2> QED BY <2>2, <2>6, <2>7 DEF Over
<1>5. ASSUME pc = "terminal", NEW r \in Roles, r = who PROVE Over(r)'
  <2>1. PendingKind = EndKind(r) /\ PendingKind \in LifecycleKinds
    BY <1>5 DEF PendingKind, EndKind, LifecycleKinds, TerminalKinds
  <2>2. Len(journal') \in OwnSeqs(journal', r)
    BY <1>1, <1>3, <1>5
  <2>3. \A i \in OwnSeqs(journal', r) : ~(i > Len(journal'))
    BY <1>1 DEF OwnSeqs
  <2>4. \E n \in OwnSeqs(journal', r) :
          /\ n = 0 \/ (n \in OwnSeqs(journal', r) /\ journal'[n].kind \in LifecycleKinds)
          /\ \A i \in OwnSeqs(journal', r) : i > n => journal'[i].kind \notin LifecycleKinds
          /\ journal'[n].kind = EndKind(r)
    BY <1>1, <2>1, <2>2, <2>3
  <2> QED BY <1>2, <2>4 DEF Over, IsLatest, EndKind
<1>6. pc = "terminal" => \A r \in Roles : r < who \/ r = who => Over(r)'
  <2>1. \A r \in Roles : r < who => r # who
    BY <1>2, SomeRole
  <2> QED BY <1>4, <1>5, <2>1 DEF EndInv
<1>7. pc = "write" /\ site = "end" => \A r \in Roles : r <= who => Over(r)'
  BY <1>4 DEF EndInv, Handing
<1> QED BY <1>2, <1>6, <1>7 DEF EndInv, AppendCalls, Handing

LEMMA EndStep == TeamInv /\ EndInv /\ [Next]_vars => EndInv'
<1> SUFFICES ASSUME TeamInv, EndInv, [Next]_vars PROVE EndInv'
  OBVIOUS
<1>0. /\ LoopTypes /\ DataTypes /\ LoopInv /\ LandedInv
      /\ who \in Nat /\ Roles \subseteq Nat
  BY SomeRole DEF TeamInv, LoopTypes
<1>1. CASE AppendEvent
  BY <1>0, <1>1, EndAppend
<1>2. CASE \/ InvokeAgain \/ ErrorAgain \/ ReturnsInstead \/ CallRaises \/ Resume \/ Crash
           \/ UNCHANGED vars \/ Return \/ \E r \in Roles : InvokeBackend(r) \/ SendSteering(r)
  <2>1. /\ UNCHANGED <<journal, final, pc, site, who>> /\ (landed' => landed)
        /\ run' = "returned" => run = "returned" \/ pc = "return"
    BY <1>2 DEF InvokeAgain, ErrorAgain, ReturnsInstead, CallRaises, Resume, Crash, CrashTo, vars,
      Return, InvokeBackend, SendSteering, body, world
  <2>2. \A r : Over(r)' = Over(r)
    BY <2>1 DEF Over, IsLatest, EndKind
  <2> QED BY <2>1, <2>2 DEF EndInv
<1>3. CASE ReadWindow \/ HandoverWritten
  <2>1. /\ UNCHANGED <<journal, final, run>> /\ run = "running" /\ ~landed' /\ pc \in Handing
        /\ \/ LeaveHandover(FALSE) \/ LeaveHandover(TRUE)
           \/ pc' = "llm" /\ UNCHANGED <<site, who>>
    <3>1. CASE ReadWindow
      <4>1. /\ UNCHANGED <<journal, final, run, landed>> /\ run = "running" /\ pc = "read"
            /\ LeaveHandover(FALSE) \/ (pc' = "llm" /\ UNCHANGED <<site, who>>)
        BY <3>1 DEF ReadWindow, Driving, world
      <4> QED BY <1>0, <4>1 DEF Handing, LandedInv, AppendCalls
    <3>2. CASE HandoverWritten
      BY <3>2 DEF HandoverWritten, Commit, Driving, world, Handing
    <3> QED BY <1>3, <3>1, <3>2
  <2>2. \A r : Over(r)' = Over(r)
    BY <2>1 DEF Over, IsLatest, EndKind
  <2>3. CASE site = "end"
    <3>1. \A r \in Roles : r <= who => Over(r)
      BY <2>1, <2>3 DEF EndInv
    <3>2. After(Roles) = {} => \A r \in Roles : r <= who
      BY <1>0 DEF After
    <3>3. \/ After(Roles) # {} /\ pc' = "terminal" /\ who' = who + 1
          \/ After(Roles) = {} /\ pc' = "return"
          \/ pc' = "llm" /\ UNCHANGED <<site, who>>
      BY <2>1, <2>3 DEF LeaveHandover
    <3>4. \A r \in Roles : r < who + 1 => r <= who
      BY <1>0
    <3> QED BY <2>1, <2>2, <3>1, <3>2, <3>3, <3>4 DEF EndInv, Handing
  <2>4. CASE site # "end"
    <3>1. /\ pc' # "return" /\ (pc' \in Handing => site' # "end")
          /\ pc' = "terminal" => who' = 1
      BY <2>1, <2>4 DEF LeaveHandover, NextReport, Handing
    <3>2. \A r \in Roles : ~(r < 1)
      BY RunTeamAssumption DEF Roles
    <3> QED BY <2>1, <3>1, <3>2 DEF EndInv
  <2> QED BY <2>3, <2>4
<1>4. CASE CallLlm \/ TaskEnded
  <2>1. /\ UNCHANGED <<journal, final, run, who>> /\ run = "running"
        /\ \/ pc = "llm" /\ pc' = "write" /\ UNCHANGED site
           \/ pc = "terminal" /\ landed /\ pc' = "read"
    BY <1>4 DEF CallLlm, TaskEnded, Commit, Driving, world
  <2>2. \A r : Over(r)' = Over(r)
    BY <2>1 DEF Over, IsLatest, EndKind
  <2>3. \A r \in Roles : r <= who => r < who \/ r = who
    BY <1>0
  <2> QED BY <2>1, <2>2, <2>3 DEF EndInv, Handing
<1>5. CASE DelegationReported \/ SteeringMiss \/ ComposeRound
  <2>1. run' = "running" /\ ~landed'
    BY <1>0, <1>5 DEF DelegationReported, SteeringMiss, ComposeRound, Commit, Driving, world,
      LandedInv, AppendCalls
  <2>2. /\ pc' \in {"outcome", "started", "terminal", "read"} /\ (pc' = "terminal" => who' = 1)
        /\ pc' = "read" => site' = "round"
    BY <1>5 DEF DelegationReported, SteeringMiss, ComposeRound, NextReport
  <2>3. \A r \in Roles : ~(r < 1)
    BY RunTeamAssumption DEF Roles
  <2> QED BY <2>1, <2>2, <2>3 DEF EndInv, Handing
<1>6. CASE \/ TaskSubmitted \/ DelegationStarted \/ SteeringHit \/ SteeringJournaled
           \/ \E r \in Roles : BackendReturns(r) \/ BackendErrors(r)
  <2>1. /\ run' = "running" /\ pc' \notin {"llm", "write", "terminal", "return"}
        /\ pc' = "read" => site' = "start"
    BY <1>6 DEF TaskSubmitted, DelegationStarted, SteeringHit, SteeringJournaled, BackendReturns,
      BackendErrors, Answer, Commit, Driving, world
  <2> QED BY <2>1 DEF EndInv, Handing
<1> QED
  BY <1>1, <1>2, <1>3, <1>4, <1>5, <1>6 DEF Next, Body, Handover, Replay

(* Once a team returned, the status view and the result agree on every     *)
(* role, for every number of roles, although handovers may follow a role's *)
(* terminal event (status.py 29-34, team.py 285-306).                      *)
THEOREM ReturnedIsExplained == Spec => []ReturnedTeamIsExplained
<1>1. Init => EndInv
  <2> SUFFICES ASSUME Init PROVE EndInv
    OBVIOUS
  <2>1. pc = "submit" /\ run = "running"
    BY DEF Init
  <2> QED BY <2>1 DEF EndInv, Handing
<1>2. TeamInv /\ EndInv => ReturnedTeamIsExplained
  <2> SUFFICES ASSUME TeamInv, EndInv, run = "returned", NEW r \in Roles
               PROVE  RoleStatus(r) = IF final[r] = "completed" THEN "done" ELSE "failed"
    BY DEF ReturnedTeamIsExplained
  <2>1. PICK n \in OwnSeqs(journal, r) : IsLatest(journal, r, n) /\ journal[n].kind = EndKind(r)
    BY DEF EndInv, Over
  <2>2. n \in 1 .. Len(journal) /\ Len(journal) \in Nat
    BY <2>1 DEF OwnSeqs, TeamInv, DataTypes
  <2>3. Latest(journal, r) \in 0 .. Len(journal) /\ IsLatest(journal, r, Latest(journal, r))
    <3>1. \E m \in 0 .. Len(journal) : IsLatest(journal, r, m)
      BY <2>1, <2>2
    <3> QED BY <3>1, Zenon DEF Latest
  <2>4. journal[n].kind \in LifecycleKinds
    BY <2>1, <2>2 DEF IsLatest
  <2>5. Latest(journal, r) = n
    <3>1. ~(n > Latest(journal, r))
      BY <2>1, <2>3, <2>4 DEF IsLatest
    <3>2. CASE Latest(journal, r) = 0
      BY <2>2, <3>1, <3>2
    <3>3. CASE Latest(journal, r) # 0
      <4>1. Latest(journal, r) \in OwnSeqs(journal, r) /\ journal[Latest(journal, r)].kind \in LifecycleKinds
        BY <2>3, <3>3 DEF IsLatest
      <4>2. ~(Latest(journal, r) > n)
        BY <2>1, <4>1 DEF IsLatest
      <4> QED BY <2>2, <2>3, <3>1, <4>2
    <3> QED BY <3>2, <3>3
  <2>6. RoleStatus(r) = StatusOf(EndKind(r))
    BY <2>1, <2>2, <2>5 DEF RoleStatus, Quiet, LatestEvent
  <2> QED BY <2>6 DEF EndKind, StatusOf
<1> QED BY <1>1, <1>2, EndStep, TeamInductive, PTL DEF Spec

-----------------------------------------------------------------------------
(***************************************************************************)
(* JournalIsLifecycle.  What the journal last says of each role follows    *)
(* from where the body's loops are.  A caught exception may be followed,   *)
(* on replay, by another outcome of the same round; without one, replay    *)
(* invents no events.                                                      *)
(***************************************************************************)
Shows(log, r, kind, n) ==
  \E m \in OwnSeqs(log, r) : IsLatest(log, r, m) /\ log[m].kind = kind /\ log[m].round = n

NoneYet(log, r) == IsLatest(log, r, 0)

Submitted(r) == Shows(journal, r, "TaskSubmitted", round[r])
Restartable(r) == \E kind \in OutcomeKinds : Shows(journal, r, kind, round[r] - 1)
Working(r) == Shows(journal, r, "DelegationStarted", round[r])
Startable(r) == Submitted(r) \/ Restartable(r) \/ Working(r)
Answered(r) == Shows(journal, r, OutcomeKind(outcome[r]), round[r])
Reported(r) == Shows(journal, r, OutcomeKind(final[r]), round[r])
Ended(r) == Shows(journal, r, EndKind(r), round[r])

AtEnd == pc \in {"terminal", "return"} \/ (pc \in Handing /\ site = "end")

SubmitShows(r) ==
  /\ r < who \/ (r = who /\ (pc # "submit" \/ landed)) => Submitted(r)
  /\ r = who => Submitted(r) \/ NoneYet(journal, r)
  /\ r > who => NoneYet(journal, r)

StartShows(r) ==
  /\ r \notin active => Reported(r)
  /\ r \in active => Startable(r)
  /\ r \in active /\ (pc = "dispatch" \/ r < who \/ (r = who /\ landed)) => Working(r)

ReportShows(r) ==
  /\ r \notin active \/ (r < who /\ r \notin next) => Reported(r)
  /\ r \in active /\ r < who /\ r \in next => Restartable(r)
  /\ r = who /\ pc # "outcome" => Reported(r)
  /\ r = who /\ pc = "outcome" => Answered(r) \/ (~landed /\ Working(r))
  /\ r \in active /\ r > who => Working(r)

EndShows(r) ==
  /\ pc = "return" \/ r < who \/ (r = who /\ (pc # "terminal" \/ landed)) => Ended(r)
  /\ r = who => Ended(r) \/ Reported(r)
  /\ pc # "return" /\ r > who => Reported(r)

LifeInv ==
  /\ loose = <<>> /\ redo = <<>>
  /\ AtStart => \A r \in Roles : SubmitShows(r)
  /\ pc \in {"started", "dispatch"} => \A r \in Roles : StartShows(r)
  /\ Reporting => \A r \in Roles : ReportShows(r)
  /\ AtEnd => \A r \in Roles : EndShows(r)
  /\ AtStart \/ pc \in {"started", "dispatch"} => next = {}
  /\ Reporting => \A r \in next : r < who

(* What a reader sees of a role whose latest lifecycle event is known.     *)
LEMMA LatestIsUnique ==
  ASSUME NEW log \in Seq(Event), NEW r, NEW n \in 0 .. Len(log), IsLatest(log, r, n)
  PROVE  Latest(log, r) = n
<1>1. n \in 0 .. Len(log) /\ DOMAIN log = 1 .. Len(log) /\ OwnSeqs(log, r) \subseteq DOMAIN log
  BY DEF OwnSeqs
<1>2. ASSUME NEW m \in 0 .. Len(log), IsLatest(log, r, m) PROVE m = n
  <2>1. ~(n > m) /\ ~(m > n)
    BY <1>1, <1>2 DEF IsLatest
  <2> QED BY <1>1, <2>1
<1> QED BY <1>1, <1>2 DEF Latest

LEMMA ShownIsLatest ==
  ASSUME NEW log \in Seq(Event), NEW r, NEW kind, NEW n, Shows(log, r, kind, n)
  PROVE  /\ Latest(log, r) # 0
         /\ log[Latest(log, r)].kind = kind /\ log[Latest(log, r)].round = n
<1>1. PICK m \in OwnSeqs(log, r) : IsLatest(log, r, m) /\ log[m].kind = kind /\ log[m].round = n
  BY DEF Shows
<1>2. m \in 0 .. Len(log) /\ m # 0
  BY DEF OwnSeqs
<1> QED BY <1>1, <1>2, LatestIsUnique

LEMMA NoneIsLatest ==
  ASSUME NEW log \in Seq(Event), NEW r, NoneYet(log, r)
  PROVE  Latest(log, r) = 0
<1>1. 0 \in 0 .. Len(log)
  OBVIOUS
<1> QED BY <1>1, LatestIsUnique DEF NoneYet

(* An append shows its role's new event, if that is one of the lifecycle,  *)
(* and leaves what is shown of the others.                                 *)
LEMMA ShowsAppend ==
  ASSUME NEW log \in Seq(Event), NEW event \in Event, NEW r \in Roles
  PROVE  /\ event.role # r \/ event.kind \notin LifecycleKinds =>
              /\ NoneYet(log, r) => NoneYet(Append(log, event), r)
              /\ \A kind, n : Shows(log, r, kind, n) => Shows(Append(log, event), r, kind, n)
         /\ event.role = r /\ event.kind \in LifecycleKinds =>
              Shows(Append(log, event), r, event.kind, event.round)
<1> DEFINE longer == Append(log, event)
<1>1. /\ Len(log) \in Nat /\ DOMAIN log = 1 .. Len(log) /\ DOMAIN longer = 1 .. Len(log) + 1
      /\ \A i \in DOMAIN log : i \in DOMAIN longer /\ longer[i] = log[i]
      /\ longer[Len(log) + 1] = event
  BY AppendLast
<1> HIDE DEF longer
<1>2. \A i \in OwnSeqs(longer, r) :
        i \in OwnSeqs(log, r) \/ (i = Len(log) + 1 /\ event.role = r)
  BY <1>1 DEF OwnSeqs
<1>3. \A i \in OwnSeqs(log, r) : i \in OwnSeqs(longer, r) /\ longer[i] = log[i]
  BY <1>1 DEF OwnSeqs
<1>4. ASSUME event.role # r \/ event.kind \notin LifecycleKinds, NEW n, IsLatest(log, r, n)
      PROVE  IsLatest(longer, r, n)
  <2>1. ASSUME NEW i \in OwnSeqs(longer, r), i > n PROVE longer[i].kind \notin LifecycleKinds
    <3>1. CASE i \in OwnSeqs(log, r)
      BY <1>3, <1>4, <2>1, <3>1 DEF IsLatest
    <3>2. CASE i = Len(log) + 1 /\ event.role = r
      BY <1>1, <1>4, <3>2
    <3> QED BY <1>2, <3>1, <3>2
  <2>2. n = 0 \/ (n \in OwnSeqs(longer, r) /\ longer[n].kind \in LifecycleKinds)
    BY <1>3, <1>4 DEF IsLatest
  <2> QED BY <2>1, <2>2 DEF IsLatest
<1>5. ASSUME event.role = r, event.kind \in LifecycleKinds
      PROVE  Shows(longer, r, event.kind, event.round)
  <2>1. Len(log) + 1 \in OwnSeqs(longer, r)
    BY <1>1, <1>5 DEF OwnSeqs
  <2>2. \A i \in OwnSeqs(longer, r) : ~(i > Len(log) + 1)
    BY <1>1 DEF OwnSeqs
  <2>3. IsLatest(longer, r, Len(log) + 1)
    BY <1>1, <1>5, <2>1, <2>2 DEF IsLatest
  <2> QED BY <1>1, <2>1, <2>3 DEF Shows
<1>6. ASSUME event.role # r \/ event.kind \notin LifecycleKinds
      PROVE  \A kind, n : Shows(log, r, kind, n) => Shows(longer, r, kind, n)
  BY <1>3, <1>4, <1>6 DEF Shows
<1>7. event.role # r \/ event.kind \notin LifecycleKinds =>
        (NoneYet(log, r) => NoneYet(longer, r))
  BY <1>4 DEF NoneYet
<1> QED BY <1>5, <1>6, <1>7 DEF longer

LEMMA PendingShows ==
  ASSUME LoopTypes, DataTypes, AppendEvent, NEW r \in Roles
  PROVE  /\ r # who \/ pc \in {"write", "steer"} =>
              /\ NoneYet(journal, r) => NoneYet(journal', r)
              /\ \A kind, n : Shows(journal, r, kind, n) => Shows(journal', r, kind, n)
         /\ r = who /\ pc \notin {"write", "steer"} =>
              Shows(journal', r, PendingKind, round[r])
<1>1. /\ journal \in Seq(Event) /\ PendingEvent \in Event
      /\ journal' = Append(journal, PendingEvent)
      /\ PendingEvent.role = who /\ PendingEvent.kind = PendingKind
      /\ PendingEvent.round = round[who]
  BY PendingEventType DEF AppendEvent, DataTypes, PendingEvent
<1>2. pc \in {"write", "steer"} <=> PendingKind \notin LifecycleKinds
  BY DEF PendingKind, OutcomeKind, LifecycleKinds, OutcomeKinds, TerminalKinds
<1> HIDE DEF PendingEvent
<1>3. /\ PendingEvent.role # r \/ PendingEvent.kind \notin LifecycleKinds =>
           /\ NoneYet(journal, r) => NoneYet(journal', r)
           /\ \A kind, n : Shows(journal, r, kind, n) => Shows(journal', r, kind, n)
      /\ PendingEvent.role = r /\ PendingEvent.kind \in LifecycleKinds =>
           Shows(journal', r, PendingEvent.kind, PendingEvent.round)
  BY <1>1, ShowsAppend
<1> QED BY <1>1, <1>2, <1>3

LEMMA LifeAppend ==
  ASSUME LoopTypes, DataTypes, LoopInv, LifeInv, AppendEvent
  PROVE  LifeInv'
<1>1. /\ UNCHANGED <<pc, site, who, active, next, round, outcome, final, loose, redo>>
      /\ pc \in AppendCalls /\ who \in Roles /\ who \in Nat /\ Roles \subseteq Nat
  BY SomeRole DEF AppendEvent, body, host, LoopTypes
<1>2. ASSUME NEW r \in Roles, r # who \/ pc \in {"write", "steer"}
      PROVE  /\ NoneYet(journal, r) => NoneYet(journal', r)
             /\ Submitted(r) => Submitted(r)'
             /\ Restartable(r) => Restartable(r)'
             /\ Working(r) => Working(r)'
             /\ Startable(r) => Startable(r)'
             /\ Answered(r) => Answered(r)'
             /\ Reported(r) => Reported(r)'
             /\ Ended(r) => Ended(r)'
  <2>1. /\ NoneYet(journal, r) => NoneYet(journal', r)
        /\ \A kind, n : Shows(journal, r, kind, n) => Shows(journal', r, kind, n)
    BY <1>2, PendingShows
  <2>2. Restartable(r) => Restartable(r)'
    BY <1>1, <2>1 DEF Restartable
  <2>3. /\ Submitted(r) => Submitted(r)'
        /\ Working(r) => Working(r)'
    BY <1>1, <2>1 DEF Submitted, Working
  <2>4. /\ Answered(r) => Answered(r)'
        /\ Reported(r) => Reported(r)'
        /\ Ended(r) => Ended(r)'
    BY <1>1, <2>1 DEF Answered, Reported, Ended, EndKind
  <2> QED BY <2>1, <2>2, <2>3, <2>4 DEF Startable
<1>3. /\ pc = "submit" => Submitted(who)'
      /\ pc = "started" => Working(who)'
      /\ pc = "outcome" => Answered(who)'
      /\ pc = "terminal" => Ended(who)'
  <2>1. pc \notin {"write", "steer"} => Shows(journal', who, PendingKind, round[who])
    BY <1>1, PendingShows
  <2>2. /\ pc = "submit" => PendingKind = "TaskSubmitted"
        /\ pc = "started" => PendingKind = "DelegationStarted"
        /\ pc = "outcome" => PendingKind = OutcomeKind(outcome[who])
        /\ pc = "terminal" => PendingKind = EndKind(who)
    BY DEF PendingKind, EndKind
  <2> QED BY <1>1, <2>1, <2>2 DEF Submitted, Working, Answered, Ended, EndKind
<1>4. \A r \in Roles : (r < who \/ r > who) => r # who
  BY <1>1
<1>5. AtStart => \A r \in Roles : SubmitShows(r)'
  BY <1>1, <1>2, <1>3, <1>4 DEF LifeInv, SubmitShows, AtStart, Handing, AppendCalls
<1>6. pc \in {"started", "dispatch"} => \A r \in Roles : StartShows(r)'
  BY <1>1, <1>2, <1>3, <1>4 DEF LifeInv, StartShows, Startable, AppendCalls, LoopInv, VisitInv
<1>7. Reporting => \A r \in Roles : ReportShows(r)'
  BY <1>1, <1>2, <1>3, <1>4 DEF LifeInv, ReportShows, Reporting, PastReport, Handing, AppendCalls,
    LoopInv, VisitInv
<1>8. AtEnd => \A r \in Roles : EndShows(r)'
  BY <1>1, <1>2, <1>3, <1>4 DEF LifeInv, EndShows, AtEnd, Handing, AppendCalls
<1> QED BY <1>1, <1>5, <1>6, <1>7, <1>8 DEF LifeInv, AtStart, Reporting, PastReport, AtEnd

(* The report loop goes on after a role that is reported or restartable.   *)
LEMMA LifeMoves ==
  ASSUME LoopTypes, LoopInv, LifeInv, Reporting, NEW nx \in SUBSET active, NextReport(nx),
         \A r \in nx : r <= who, ~landed', loose' = <<>>, redo' = <<>>,
         \A r \in Roles : r \notin active \/ (r <= who /\ r \notin nx) => Reported(r)',
         \A r \in nx : Restartable(r)',
         \A r \in active : r > who => Working(r)'
  PROVE  LifeInv'
<1>0. who \in Nat /\ Roles \subseteq Nat /\ active \subseteq Roles /\ 1 \in Roles
  BY SomeRole DEF LoopTypes
<1>1. CASE After(active) # {}
  <2>1. /\ pc' = "outcome" /\ next' = nx /\ active' = active
        /\ who' \in active /\ who' > who /\ \A q \in active : q > who => who' <= q
    BY <1>0, <1>1 DEF NextReport, First, After
  <2>2. \A r \in active : (r < who' => r <= who) /\ (r >= who' => r > who)
    BY <1>0, <2>1
  <2>3. \A r \in Roles : ReportShows(r)'
    BY <1>0, <2>1, <2>2 DEF ReportShows
  <2>4. \A r \in next' : r < who'
    BY <1>0, <2>1
  <2> QED BY <2>1, <2>3, <2>4 DEF LifeInv, AtStart, Reporting, PastReport, AtEnd, Handing
<1>2. CASE After(active) = {} /\ nx # {}
  <2>1. /\ pc' = "started" /\ active' = nx /\ next' = {}
        /\ who' \in nx /\ \A q \in nx : who' <= q
    BY <1>2 DEF NextReport, First
  <2>2. \A r \in active : r <= who
    BY <1>0, <1>2 DEF After
  <2>3. \A r \in Roles : StartShows(r)'
    BY <1>0, <2>1, <2>2 DEF StartShows, Startable
  <2> QED BY <2>1, <2>3 DEF LifeInv, AtStart, Reporting, PastReport, AtEnd, Handing
<1>3. CASE After(active) = {} /\ nx = {}
  <2>1. pc' = "terminal" /\ who' = 1 /\ next' = {}
    BY <1>3 DEF NextReport
  <2>2. \A r \in active : r <= who
    BY <1>0, <1>3 DEF After
  <2>3. \A r \in Roles : Reported(r)' /\ ~(r < 1)
    BY <1>0, <1>3, <2>2, RunTeamAssumption DEF Roles
  <2>4. \A r \in Roles : EndShows(r)'
    BY <2>1, <2>3 DEF EndShows
  <2> QED BY <2>1, <2>4 DEF LifeInv, AtStart, Reporting, PastReport, AtEnd, Handing
<1> QED BY <1>1, <1>2, <1>3

(* What the journal shows depends on no other variable than these.         *)
LEMMA ShowsStay ==
  ASSUME UNCHANGED <<journal, round>>
  PROVE  \A r :
           /\ Submitted(r)' = Submitted(r) /\ Working(r)' = Working(r)
           /\ Restartable(r)' = Restartable(r) /\ Startable(r)' = Startable(r)
           /\ outcome'[r] = outcome[r] => Answered(r)' = Answered(r)
           /\ final'[r] = final[r] => Reported(r)' = Reported(r)
           /\ final'[r] = final[r] => Ended(r)' = Ended(r)
BY DEF Submitted, Working, Restartable, Startable, Answered, Reported, Ended, EndKind

LEMMA LifeHandover ==
  ASSUME LoopTypes, LoopInv, LandedInv, LifeInv, ReadWindow \/ CallLlm \/ HandoverWritten
  PROVE  LifeInv'
<1>1. /\ UNCHANGED <<journal, round, outcome, final, loose, redo>> /\ ~landed' /\ pc \in Handing
      /\ \/ LeaveHandover(FALSE) \/ LeaveHandover(TRUE)
         \/ pc' \in Handing /\ UNCHANGED <<site, who, active, next>>
  <2>1. CASE ReadWindow
    BY <2>1 DEF ReadWindow, host, world, Handing, LandedInv, AppendCalls
  <2>2. CASE CallLlm
    BY <2>2 DEF CallLlm, host, world, Handing, LandedInv, AppendCalls
  <2>3. CASE HandoverWritten
    BY <2>3 DEF HandoverWritten, Commit, host, world, Handing
  <2> QED BY <2>1, <2>2, <2>3
<1>2. /\ \A r : NoneYet(journal', r) = NoneYet(journal, r)
      /\ \A r : /\ Submitted(r)' = Submitted(r) /\ Working(r)' = Working(r)
                /\ Restartable(r)' = Restartable(r) /\ Startable(r)' = Startable(r)
                /\ Answered(r)' = Answered(r) /\ Reported(r)' = Reported(r)
                /\ Ended(r)' = Ended(r)
  BY <1>1, ShowsStay
<1>3. who \in Roles /\ who \in Nat /\ Roles \subseteq Nat /\ active \subseteq Roles
  BY SomeRole DEF LoopTypes
<1>4. CASE pc' \in Handing /\ UNCHANGED <<site, who, active, next>>
  BY <1>1, <1>2, <1>4 DEF LifeInv, AtStart, Reporting, PastReport, AtEnd, Handing,
    SubmitShows, ReportShows, EndShows
<1>5. CASE site = "start" /\ (LeaveHandover(FALSE) \/ LeaveHandover(TRUE))
  <2>1. /\ active = Roles /\ next = {} /\ UNCHANGED <<active, next>>
        /\ \A r \in Roles : SubmitShows(r)
        /\ \/ pc' = "submit" /\ who' = who + 1
           \/ pc' = "started" /\ who' = 1 /\ After(Roles) = {}
    BY <1>1, <1>5 DEF LeaveHandover, LoopInv, SiteInv, LifeInv, AtStart
  <2>2. /\ \A r \in Roles : r <= who => Submitted(r)
        /\ \A r \in Roles : r > who => NoneYet(journal, r)
    BY <1>1, <1>3, <2>1 DEF SubmitShows, Handing
  <2>3. CASE pc' = "submit"
    <3>1. \A r \in Roles : (r < who + 1 => r <= who) /\ (r >= who + 1 => r > who)
      BY <1>3
    <3>2. \A r \in Roles : SubmitShows(r)'
      BY <1>1, <1>2, <1>3, <2>1, <2>2, <2>3, <3>1 DEF SubmitShows
    <3> QED BY <1>1, <2>1, <2>3, <3>2 DEF LifeInv, AtStart, Reporting, PastReport, AtEnd, Handing
  <2>4. CASE pc' = "started"
    <3>1. \A r \in Roles : Submitted(r) /\ ~(r < 1)
      BY <1>3, <2>1, <2>2, <2>4, RunTeamAssumption DEF After, Roles
    <3>2. \A r \in Roles : StartShows(r)'
      BY <1>1, <1>2, <2>1, <2>4, <3>1 DEF StartShows, Startable
    <3> QED BY <1>1, <2>1, <2>4, <3>2 DEF LifeInv, AtStart, Reporting, PastReport, AtEnd, Handing
  <2> QED BY <2>1, <2>3, <2>4
<1>6. CASE site = "round" /\ (LeaveHandover(FALSE) \/ LeaveHandover(TRUE))
  <2>1. /\ Reporting /\ pc # "outcome" /\ \A r \in Roles : ReportShows(r)
        /\ \A r \in next : r < who
    BY <1>1, <1>6 DEF LifeInv, Reporting, PastReport, Handing
  <2>2. /\ \A r \in Roles : r \notin active \/ (r <= who /\ r \notin next) => Reported(r)
        /\ \A r \in active : r > who => Working(r)
        /\ next \in SUBSET active
    BY <1>3, <2>1 DEF ReportShows, LoopInv, VisitInv
  <2>3. \A r \in next : Restartable(r) /\ r <= who
    BY <1>3, <2>1, <2>2 DEF ReportShows
  <2>4. CASE NextReport(next)
    BY <1>1, <1>2, <1>3, <2>1, <2>2, <2>3, <2>4, LifeMoves DEF LifeInv
  <2>5. CASE pc' = "poll" /\ UNCHANGED <<who, active, next>>
    <3>1. \A r \in Roles : ReportShows(r)'
      BY <1>1, <1>2, <2>1, <2>5 DEF ReportShows
    <3> QED BY <1>1, <2>1, <2>5, <3>1 DEF LifeInv, AtStart, Reporting, PastReport, AtEnd, Handing
  <2> QED BY <1>6, <2>4, <2>5 DEF LeaveHandover
<1>7. CASE site = "end" /\ (LeaveHandover(FALSE) \/ LeaveHandover(TRUE))
  <2>1. \A r \in Roles : (r <= who => Ended(r)) /\ (r > who => Reported(r))
    BY <1>1, <1>3, <1>7 DEF LifeInv, AtEnd, EndShows, Handing
  <2>2. \/ pc' = "terminal" /\ who' = who + 1
        \/ pc' = "return" /\ After(Roles) = {}
    BY <1>7 DEF LeaveHandover
  <2>3. CASE pc' = "terminal"
    <3>1. \A r \in Roles : (r < who + 1 => r <= who) /\ (r >= who + 1 => r > who)
      BY <1>3
    <3>2. \A r \in Roles : EndShows(r)'
      BY <1>1, <1>2, <1>3, <2>1, <2>2, <2>3, <3>1 DEF EndShows
    <3> QED BY <1>1, <2>3, <3>2 DEF LifeInv, AtStart, Reporting, PastReport, AtEnd, Handing
  <2>4. CASE pc' = "return"
    <3>1. \A r \in Roles : Ended(r)
      BY <1>3, <2>1, <2>2, <2>4 DEF After
    <3>2. \A r \in Roles : EndShows(r)'
      BY <1>2, <2>4, <3>1 DEF EndShows
    <3> QED BY <1>1, <2>4, <3>2 DEF LifeInv, AtStart, Reporting, PastReport, AtEnd, Handing
  <2> QED BY <2>2, <2>3, <2>4
<1> QED BY <1>1, <1>4, <1>5, <1>6, <1>7 DEF LoopTypes

LEMMA LifeReport ==
  ASSUME LoopTypes, DataTypes, LoopInv, LandedInv, LifeInv,
         DelegationReported \/ SteeringMiss \/ ComposeRound \/ SteeringHit \/ SteeringJournaled
  PROVE  LifeInv'
<1>0. /\ who \in Roles /\ who \in Nat /\ Roles \subseteq Nat /\ active \subseteq Roles
      /\ loose = <<>> /\ redo = <<>> /\ Reporting
      /\ who \in active /\ next \in SUBSET active /\ (\A r \in next : r < who)
      /\ UNCHANGED <<journal, loose, redo>> /\ ~landed'
  <2>1. Reporting /\ UNCHANGED <<journal, loose, redo>> /\ ~landed'
    BY DEF DelegationReported, SteeringMiss, ComposeRound, SteeringHit, SteeringJournaled, Commit,
      host, world, Reporting, PastReport, LandedInv, AppendCalls
  <2> QED BY <2>1, SomeRole DEF LoopTypes, LifeInv, LoopInv, VisitInv
<1>1. /\ \A r \in Roles : r \notin active \/ (r < who /\ r \notin next) => Reported(r)
      /\ \A r \in next : Restartable(r)
      /\ \A r \in active : r > who => Working(r)
      /\ pc # "outcome" => Reported(who)
      /\ pc = "outcome" /\ landed => Answered(who)
  <2>1. \A r \in Roles : ReportShows(r)
    BY <1>0 DEF LifeInv
  <2> QED BY <1>0, <2>1 DEF ReportShows
<1>2. CASE SteeringHit \/ SteeringJournaled
  <2>1. /\ UNCHANGED <<round, outcome, final, who, active, next>> /\ pc # "outcome"
        /\ pc' \in {"steer", "summary"} 
    BY <1>2 DEF SteeringHit, SteeringJournaled, Commit
  <2>2. \A r : /\ Working(r)' = Working(r) /\ Restartable(r)' = Restartable(r)
               /\ Reported(r)' = Reported(r)
    BY <1>0, <2>1, ShowsStay
  <2>3. \A r \in Roles : ReportShows(r)'
    BY <1>0, <1>1, <2>1, <2>2 DEF ReportShows
  <2> QED BY <1>0, <2>1, <2>3 DEF LifeInv, AtStart, Reporting, PastReport, AtEnd, Handing
<1>3. CASE SteeringMiss
  <2>1. UNCHANGED <<round, outcome, final>> /\ pc # "outcome" /\ NextReport(next)
    BY <1>3 DEF SteeringMiss
  <2>2. \A r : /\ Working(r)' = Working(r) /\ Restartable(r)' = Restartable(r)
               /\ Reported(r)' = Reported(r)
    BY <1>0, <2>1, ShowsStay
  <2> QED BY <1>0, <1>1, <2>1, <2>2, LifeMoves
<1>4. CASE DelegationReported
  <2>1. /\ UNCHANGED <<round, outcome>> /\ pc = "outcome" /\ landed
        /\ final' = [final EXCEPT ![who] = outcome[who]]
        /\ \/ NextReport(next)
           \/ pc' = "read" /\ site' = "round" /\ UNCHANGED <<who, active, next>>
    BY <1>4 DEF DelegationReported, Commit
  <2>2. \A r : Working(r)' = Working(r) /\ Restartable(r)' = Restartable(r)
    BY <1>0, <2>1, ShowsStay
  <2>3. ASSUME NEW r \in Roles
        PROVE  IF r = who THEN Reported(r)' ELSE Reported(r)' = Reported(r)
    <3>1. final'[r] = IF r = who THEN outcome[r] ELSE final[r]
      BY <1>0, <2>1 DEF DataTypes
    <3> QED BY <1>0, <1>1, <2>1, <3>1 DEF Answered, Reported
  <2>4. CASE NextReport(next)
    <3>1. \A r \in Roles : r \notin active \/ (r <= who /\ r \notin next) => Reported(r)'
      BY <1>0, <1>1, <2>3
    <3> QED BY <1>0, <1>1, <2>2, <2>4, <3>1, LifeMoves
  <2>5. CASE pc' = "read" /\ site' = "round" /\ UNCHANGED <<who, active, next>>
    <3>1. \A r \in Roles : ReportShows(r)'
      BY <1>0, <1>1, <2>2, <2>3, <2>5 DEF ReportShows
    <3> QED BY <1>0, <2>5, <3>1 DEF LifeInv, AtStart, Reporting, PastReport, AtEnd, Handing
  <2> QED BY <2>1, <2>4, <2>5
<1>5. CASE ComposeRound
  <2>1. /\ pc # "outcome" /\ NextReport(next \cup {who})
        /\ round' = [round EXCEPT ![who] = @ + 1]
        /\ final' = [final EXCEPT ![who] = "none"]
    BY <1>5 DEF ComposeRound
  <2>2. /\ round'[who] = round[who] + 1 /\ round[who] \in Nat
        /\ \A r \in Roles : r # who => round'[r] = round[r] /\ final'[r] = final[r]
    BY <1>0, <2>1 DEF DataTypes
  <2>3. ASSUME NEW r \in Roles, r = who PROVE Restartable(r)'
    <3>1. Shows(journal, r, OutcomeKind(final[r]), round[r]) /\ round'[r] - 1 = round[r]
      BY <1>1, <2>1, <2>2, <2>3 DEF Reported
    <3>2. OutcomeKind(final[r]) \in OutcomeKinds
      BY DEF OutcomeKind, OutcomeKinds
    <3> QED BY <1>0, <3>1, <3>2 DEF Restartable
  <2>4. \A r \in Roles : r # who =>
          /\ Working(r)' = Working(r) /\ Restartable(r)' = Restartable(r)
          /\ Reported(r)' = Reported(r)
    BY <1>0, <2>2 DEF Working, Restartable, Reported
  <2>5. /\ \A r \in Roles : r \notin active \/ (r <= who /\ r \notin next \cup {who}) => Reported(r)'
        /\ \A r \in next \cup {who} : Restartable(r)' /\ r <= who
        /\ \A r \in active : r > who => Working(r)'
        /\ next \cup {who} \in SUBSET active
    BY <1>0, <1>1, <2>3, <2>4
  <2> QED BY <1>0, <2>1, <2>5, LifeMoves
<1> QED BY <1>2, <1>3, <1>4, <1>5

LEMMA LifeStep ==
  ASSUME "caught" \notin Faults, TeamInv, LifeInv, [Next]_vars
  PROVE  LifeInv'
<1>0. /\ LoopTypes /\ DataTypes /\ LoopInv /\ LandedInv
      /\ who \in Roles /\ who \in Nat /\ Roles \subseteq Nat /\ active \subseteq Roles
      /\ loose = <<>> /\ redo = <<>>
  BY SomeRole DEF TeamInv, LoopTypes, LifeInv
<1>1. CASE AppendEvent
  BY <1>0, <1>1, LifeAppend
<1>2. CASE Handover
  BY <1>0, <1>2, LifeHandover DEF Handover
<1>3. CASE \/ Replay \/ CallRaises \/ Resume \/ Crash \/ UNCHANGED vars \/ Return
           \/ \E r \in Roles : InvokeBackend(r) \/ SendSteering(r)
  <2>1. /\ UNCHANGED <<journal, round, outcome, final, pc, site, who, active, next, loose>>
        /\ (landed' => landed) /\ redo' = <<>>
    <3>1. ~Replay
      BY <1>0 DEF Replay, InvokeAgain, ErrorAgain, ReturnsInstead, Replaying
    <3>2. CASE Crash
      BY <1>0, <3>2 DEF Crash, CrashTo
    <3>3. CASE CallRaises \/ Resume \/ UNCHANGED vars \/ Return
      BY <1>0, <3>3 DEF CallRaises, Resume, vars, Return, body, host, world
    <3>4. CASE \E r \in Roles : InvokeBackend(r) \/ SendSteering(r)
      BY <1>0, <3>4 DEF InvokeBackend, SendSteering, body, host, world
    <3> QED BY <1>3, <3>1, <3>2, <3>3, <3>4
  <2>2. /\ \A r : NoneYet(journal', r) = NoneYet(journal, r)
        /\ \A r : /\ Submitted(r)' = Submitted(r) /\ Working(r)' = Working(r)
                  /\ Restartable(r)' = Restartable(r) /\ Startable(r)' = Startable(r)
                  /\ Answered(r)' = Answered(r) /\ Reported(r)' = Reported(r)
                  /\ Ended(r)' = Ended(r)
    BY <2>1, ShowsStay
  <2> QED BY <2>1, <2>2, <1>0 DEF LifeInv, AtStart, Reporting, PastReport, AtEnd,
            SubmitShows, StartShows, ReportShows, EndShows
<1>4. CASE TaskSubmitted
  <2>1. /\ UNCHANGED <<journal, round, outcome, final, who, active, next, loose, redo>>
        /\ pc = "submit" /\ landed /\ pc' = "read" /\ site' = "start" /\ next = {}
        /\ \A r \in Roles : SubmitShows(r)
    BY <1>4 DEF TaskSubmitted, Commit, host, world, LifeInv, AtStart
  <2>2. \A r : Submitted(r)' = Submitted(r) /\ NoneYet(journal', r) = NoneYet(journal, r)
    BY <2>1, ShowsStay
  <2>3. \A r \in Roles : SubmitShows(r)'
    BY <2>1, <2>2 DEF SubmitShows
  <2> QED BY <1>0, <2>1, <2>3 DEF LifeInv, AtStart, Reporting, PastReport, AtEnd, Handing
<1>5. CASE DelegationStarted
  <2>1. /\ UNCHANGED <<journal, round, outcome, final, site, active, next, loose, redo>>
        /\ pc = "started" /\ landed /\ ~landed' /\ next = {}
        /\ \A r \in Roles : StartShows(r)
        /\ \/ After(active) # {} /\ who' \in First(After(active)) /\ pc' = "started"
           \/ After(active) = {} /\ pc' = "dispatch"
    BY <1>5 DEF DelegationStarted, Commit, host, world, LifeInv
  <2>2. \A r : /\ Working(r)' = Working(r) /\ Startable(r)' = Startable(r)
               /\ Reported(r)' = Reported(r)
    BY <2>1, ShowsStay
  <2>3. \A r \in active : r <= who => Working(r)
    BY <1>0, <2>1 DEF StartShows
  <2>4. \/ pc' = "started" /\ \A r \in active : r < who' => r <= who
        \/ pc' = "dispatch" /\ \A r \in active : r <= who
    <3>1. CASE After(active) # {} /\ who' \in First(After(active)) /\ pc' = "started"
      <4>1. who' \in Nat /\ \A q \in active : q > who => who' <= q
        BY <1>0, <3>1 DEF First, After
      <4> QED BY <1>0, <3>1, <4>1
    <3>2. CASE After(active) = {} /\ pc' = "dispatch"
      BY <1>0, <3>2 DEF After
    <3> QED BY <2>1, <3>1, <3>2
  <2>5. \A r \in Roles : StartShows(r)'
    BY <2>1, <2>2, <2>3, <2>4 DEF StartShows
  <2> QED BY <1>0, <2>1, <2>5 DEF LifeInv, AtStart, Reporting, PastReport, AtEnd, Handing
<1>6. CASE \E r \in Roles : BackendReturns(r) \/ BackendErrors(r)
  <2>1. PICK q \in Roles, v \in Verdicts \cup {"error"} : Answer(q, v) /\ UNCHANGED loose
    BY <1>6 DEF BackendReturns, BackendErrors
  <2>2. /\ UNCHANGED <<journal, round, final, site, active, next, redo>> /\ next = {}
        /\ pc = "dispatch" /\ ~landed' /\ \A r \in Roles : StartShows(r)
        /\ \/ pc' = "outcome" /\ who' \in First(active)
           \/ UNCHANGED <<pc, who>>
    BY <1>0, <2>1 DEF Answer, world, LifeInv, LandedInv, AppendCalls
  <2>3. \A r : /\ Working(r)' = Working(r) /\ Startable(r)' = Startable(r)
               /\ Reported(r)' = Reported(r)
    BY <2>2, ShowsStay
  <2>4. CASE UNCHANGED <<pc, who>>
    <3>1. \A r \in Roles : StartShows(r)'
      BY <2>2, <2>3, <2>4 DEF StartShows
    <3> QED BY <1>0, <2>1, <2>2, <2>4, <3>1 DEF LifeInv, AtStart, Reporting, PastReport, AtEnd, Handing
  <2>5. CASE pc' = "outcome" /\ who' \in First(active)
    <3>1. who' \in active /\ \A r \in active : ~(r < who')
      BY <1>0, <2>5 DEF First
    <3>2. \A r \in Roles : ReportShows(r)'
      BY <2>2, <2>3, <2>5, <3>1 DEF StartShows, ReportShows
    <3> QED BY <1>0, <2>1, <2>2, <2>5, <3>2 DEF LifeInv, AtStart, Reporting, PastReport, AtEnd, Handing
  <2> QED BY <2>2, <2>4, <2>5
<1>7. CASE DelegationReported \/ SteeringMiss \/ ComposeRound \/ SteeringHit \/ SteeringJournaled
  BY <1>0, <1>7, LifeReport
<1>8. CASE TaskEnded
  <2>1. /\ UNCHANGED <<journal, round, outcome, final, who, active, next, loose, redo>>
        /\ pc = "terminal" /\ landed /\ pc' = "read" /\ site' = "end"
        /\ \A r \in Roles : EndShows(r)
    BY <1>8 DEF TaskEnded, Commit, host, world, LifeInv, AtEnd
  <2>2. \A r : Ended(r)' = Ended(r) /\ Reported(r)' = Reported(r)
    BY <2>1, ShowsStay
  <2>3. \A r \in Roles : EndShows(r)'
    BY <2>1, <2>2 DEF EndShows
  <2> QED BY <1>0, <2>1, <2>3 DEF LifeInv, AtStart, Reporting, PastReport, AtEnd, Handing
<1> QED
  BY <1>1, <1>2, <1>3, <1>4, <1>5, <1>6, <1>7, <1>8 DEF Next, Body

(* There is something to be seen of every role wherever the body is.       *)
LEMMA EveryRoleShows ==
  ASSUME LoopTypes, LoopInv, LifeInv, NEW r \in Roles
  PROVE  NoneYet(journal, r) \/ \E kind, n : Shows(journal, r, kind, n)
<1>1. who \in Nat /\ r \in Nat /\ who \in Roles /\ pc \in Calls /\ site \in {"start", "round", "end"}
  BY SomeRole DEF LoopTypes
<1>2. \/ AtStart /\ SubmitShows(r)
      \/ pc \in {"started", "dispatch"} /\ StartShows(r)
      \/ Reporting /\ ReportShows(r)
      \/ AtEnd /\ EndShows(r)
  BY <1>1 DEF LifeInv, AtStart, Reporting, PastReport, AtEnd, Handing, Calls, AppendCalls
<1>3. \/ NoneYet(journal, r) \/ Submitted(r) \/ Restartable(r) \/ Working(r)
      \/ Answered(r) \/ Reported(r) \/ Ended(r)
  BY <1>1, <1>2 DEF SubmitShows, StartShows, ReportShows, EndShows, Startable
<1> QED BY <1>3 DEF Submitted, Restartable, Working, Answered, Reported, Ended

(* What the abstract team's variables make of a role's latest event.       *)
View(kind, n) == [phase |-> PhaseOf(kind), round |-> n, verdict |-> VerdictOf(kind)]

Seen(log, r) ==
  IF Latest(log, r) = 0 THEN [phase |-> "new", round |-> 0, verdict |-> "none"]
  ELSE View(log[Latest(log, r)].kind, log[Latest(log, r)].round)

LEMMA ShownIsSeen ==
  ASSUME NEW log \in Seq(Event), NEW r
  PROVE  /\ \A kind, n : Shows(log, r, kind, n) => Seen(log, r) = View(kind, n)
         /\ NoneYet(log, r) => Seen(log, r) = [phase |-> "new", round |-> 0, verdict |-> "none"]
BY ShownIsLatest, NoneIsLatest DEF Seen

(* An append changes what is seen of its role only, and only by an event   *)
(* of the lifecycle.                                                       *)
LEMMA AppendSeen ==
  ASSUME LoopTypes, DataTypes, LoopInv, LifeInv, AppendEvent, journal' \in Seq(Event),
         NEW r \in Roles
  PROVE  Seen(journal', r) = IF r = who /\ pc \notin {"write", "steer"}
                             THEN View(PendingKind, round[r]) ELSE Seen(journal, r)
<1>1. journal \in Seq(Event)
  BY DEF DataTypes
<1>2. CASE r = who /\ pc \notin {"write", "steer"}
  BY <1>2, PendingShows, ShownIsSeen
<1>3. CASE r # who \/ pc \in {"write", "steer"}
  <2>1. NoneYet(journal, r) \/ \E kind, n : Shows(journal, r, kind, n)
    BY EveryRoleShows
  <2>2. /\ NoneYet(journal, r) => NoneYet(journal', r)
        /\ \A kind, n : Shows(journal, r, kind, n) => Shows(journal', r, kind, n)
    BY <1>3, PendingShows
  <2> QED BY <1>1, <1>3, <2>1, <2>2, ShownIsSeen
<1> QED BY <1>2, <1>3

(* What the journal shows, seen as the abstract team's phases.             *)
LEMMA PhasesSeen ==
  ASSUME DataTypes, NEW r \in Roles
  PROVE  /\ NoneYet(journal, r) => Seen(journal, r) = [phase |-> "new", round |-> 0, verdict |-> "none"]
         /\ Submitted(r) => Seen(journal, r) = [phase |-> "queued", round |-> round[r], verdict |-> "none"]
         /\ Working(r) => Seen(journal, r) = [phase |-> "working", round |-> round[r], verdict |-> "none"]
         /\ Restartable(r) => /\ Seen(journal, r).phase = "reported"
                              /\ Seen(journal, r).round = round[r] - 1
         /\ Answered(r) => Seen(journal, r) = View(OutcomeKind(outcome[r]), round[r])
         /\ Reported(r) => Seen(journal, r) = View(OutcomeKind(final[r]), round[r])
         /\ Ended(r) => Seen(journal, r) = View(EndKind(r), round[r])
<1>1. /\ \A kind, n : Shows(journal, r, kind, n) => Seen(journal, r) = View(kind, n)
      /\ NoneYet(journal, r) => Seen(journal, r) = [phase |-> "new", round |-> 0, verdict |-> "none"]
  BY ShownIsSeen DEF DataTypes
<1>2. Restartable(r) => /\ Seen(journal, r).phase = "reported"
                        /\ Seen(journal, r).round = round[r] - 1
  <2>1. \A kind \in OutcomeKinds : PhaseOf(kind) = "reported"
    BY DEF OutcomeKinds, PhaseOf, TerminalKinds
  <2> QED BY <1>1, <2>1 DEF Restartable, View
<1>3. /\ View("TaskSubmitted", round[r]) = [phase |-> "queued", round |-> round[r], verdict |-> "none"]
      /\ View("DelegationStarted", round[r]) =
           [phase |-> "working", round |-> round[r], verdict |-> "none"]
  BY DEF View, PhaseOf, VerdictOf, TerminalKinds
<1>4. /\ Submitted(r) => Seen(journal, r) = [phase |-> "queued", round |-> round[r], verdict |-> "none"]
      /\ Working(r) => Seen(journal, r) = [phase |-> "working", round |-> round[r], verdict |-> "none"]
  BY <1>1, <1>3 DEF Submitted, Working
<1>5. /\ Answered(r) => Seen(journal, r) = View(OutcomeKind(outcome[r]), round[r])
      /\ Reported(r) => Seen(journal, r) = View(OutcomeKind(final[r]), round[r])
      /\ Ended(r) => Seen(journal, r) = View(EndKind(r), round[r])
  BY <1>1 DEF Answered, Reported, Ended
<1> QED BY <1>1, <1>2, <1>4, <1>5

LEMMA ReportPhases ==
  ASSUME NEW verdict, NEW r, NEW n
  PROVE  /\ View(OutcomeKind(verdict), n).phase = "reported"
         /\ View(OutcomeKind(verdict), n).verdict =
              IF verdict \in {"completed", "refused"} THEN verdict ELSE "failed"
         /\ View(EndKind(r), n).phase = "over"
         /\ View(EndKind(r), n).verdict = IF final[r] = "completed" THEN "completed" ELSE "failed"
         /\ View(OutcomeKind(verdict), n).round = n /\ View(EndKind(r), n).round = n
BY DEF View, OutcomeKind, EndKind, PhaseOf, VerdictOf, TerminalKinds

(* Each append is a step of the abstract team, or repeats what is seen.    *)
LEMMA AppendSimulates ==
  ASSUME TeamInv, LifeInv, AppendEvent, journal' \in Seq(Event)
  PROVE  [Lifecycle!Next]_(Lifecycle!vars)
<1>0. /\ LoopTypes /\ DataTypes /\ LoopInv /\ who \in Roles /\ who \in Nat /\ Roles \subseteq Nat
      /\ round \in [Roles -> Nat \ {0}] /\ pc \in AppendCalls /\ ~landed
  BY SomeRole DEF TeamInv, LoopTypes, DataTypes, AppendEvent
<1>1. /\ phaseShown = [r \in Roles |-> Seen(journal, r).phase]
      /\ roundShown = [r \in Roles |-> Seen(journal, r).round]
      /\ verdictShown = [r \in Roles |-> Seen(journal, r).verdict]
      /\ phaseShown' = [r \in Roles |-> Seen(journal', r).phase]
      /\ roundShown' = [r \in Roles |-> Seen(journal', r).round]
      /\ verdictShown' = [r \in Roles |-> Seen(journal', r).verdict]
  BY DEF Seen, View, Quiet, LatestEvent, phaseShown, roundShown, verdictShown
<1>2. \A r \in Roles : Seen(journal', r) = IF r = who /\ pc \notin {"write", "steer"}
                                           THEN View(PendingKind, round[r]) ELSE Seen(journal, r)
  BY <1>0, AppendSeen
<1>3. ASSUME pc \in {"write", "steer"} \/ Seen(journal, who) = View(PendingKind, round[who])
      PROVE  UNCHANGED Lifecycle!vars
  <2>1. \A r \in Roles : Seen(journal', r) = Seen(journal, r)
    BY <1>2, <1>3
  <2> QED BY <1>1, <2>1 DEF Lifecycle!vars
<1>4. ASSUME pc \notin {"write", "steer"}
      PROVE  /\ phaseShown' = [phaseShown EXCEPT ![who] = View(PendingKind, round[who]).phase]
             /\ roundShown' = [roundShown EXCEPT ![who] = View(PendingKind, round[who]).round]
             /\ verdictShown' = [verdictShown EXCEPT ![who] = View(PendingKind, round[who]).verdict]
  <2>1. \A r \in Roles : Seen(journal', r) = IF r = who THEN View(PendingKind, round[who])
                                               ELSE Seen(journal, r)
    BY <1>2, <1>4
  <2> QED BY <1>0, <1>1, <2>1
<1>5. \A r \in Roles : /\ phaseShown[r] = Seen(journal, r).phase /\ roundShown[r] = Seen(journal, r).round
                       /\ verdictShown[r] = Seen(journal, r).verdict
  BY <1>1
<1>6. CASE pc = "submit"
  <2>1. /\ PendingKind = "TaskSubmitted" /\ round[who] = 1
        /\ Submitted(who) \/ NoneYet(journal, who)
    BY <1>0, <1>6 DEF PendingKind, LifeInv, AtStart, SubmitShows, LoopInv, SiteInv
  <2>2. View("TaskSubmitted", 1) = [phase |-> "queued", round |-> 1, verdict |-> "none"]
    BY DEF View, PhaseOf, VerdictOf, TerminalKinds
  <2>3. CASE Submitted(who)
    BY <1>0, <1>3, <2>1, <2>2, <2>3, PhasesSeen
  <2>4. CASE NoneYet(journal, who)
    <3>1. Seen(journal, who) = [phase |-> "new", round |-> 0, verdict |-> "none"]
      BY <1>0, <2>4, PhasesSeen
    <3>2. /\ phaseShown[who] = "new" /\ verdictShown[who] = "none"
          /\ verdictShown = [verdictShown EXCEPT ![who] = "none"]
      BY <1>0, <1>1, <1>5, <3>1
    <3> QED BY <1>0, <1>4, <1>6, <2>1, <2>2, <3>2 DEF Lifecycle!Next, Lifecycle!Submit
  <2> QED BY <2>1, <2>3, <2>4
<1>7. CASE pc = "started"
  <2>1. /\ PendingKind = "DelegationStarted" /\ who \in active
        /\ \A r \in Roles : Reported(r) \/ Startable(r)
        /\ Startable(who)
    BY <1>0, <1>7 DEF PendingKind, LifeInv, StartShows, LoopInv, VisitInv
  <2>2. View("DelegationStarted", round[who]) =
          [phase |-> "working", round |-> round[who], verdict |-> "none"]
    BY DEF View, PhaseOf, VerdictOf, TerminalKinds
  <2>3. ASSUME NEW r \in Roles PROVE phaseShown[r] \notin {"new", "over"}
    <3>1. CASE Reported(r)
      BY <1>0, <1>5, <3>1, PhasesSeen, ReportPhases
    <3>2. CASE Startable(r)
      BY <1>0, <1>5, <3>2, PhasesSeen DEF Startable
    <3> QED BY <2>1, <3>1, <3>2
  <2>4. CASE Working(who)
    BY <1>0, <1>3, <2>1, <2>2, <2>4, PhasesSeen
  <2>5. CASE Submitted(who) \/ Restartable(who)
    <3>1. \/ phaseShown[who] = "queued" /\ roundShown[who] = round[who]
          \/ phaseShown[who] = "reported" /\ roundShown[who] + 1 = round[who]
      BY <1>0, <1>5, <2>5, PhasesSeen
    <3> QED BY <1>0, <1>4, <1>7, <2>1, <2>2, <2>3, <3>1 DEF Lifecycle!Next, Lifecycle!Start
  <2> QED BY <2>1, <2>4, <2>5 DEF Startable
<1>8. CASE pc = "outcome"
  <2>1. /\ PendingKind = OutcomeKind(outcome[who]) /\ who \in active /\ Reporting
        /\ Answered(who) \/ Working(who)
        /\ \A r \in Roles : Reported(r) \/ Restartable(r) \/ Working(r) \/ Answered(r)
    BY <1>0, <1>8 DEF PendingKind, LifeInv, ReportShows, Reporting, LoopInv, VisitInv
  <2>2. CASE Answered(who)
    BY <1>0, <1>3, <2>1, <2>2, PhasesSeen
  <2>3. CASE Working(who)
    <3>1. ASSUME NEW r \in Roles PROVE phaseShown[r] \in {"working", "reported"}
      <4>1. CASE Reported(r)
        BY <1>0, <1>5, <4>1, PhasesSeen, ReportPhases
      <4>2. CASE Restartable(r) \/ Working(r)
        BY <1>0, <1>5, <4>2, PhasesSeen
      <4>3. CASE Answered(r)
        BY <1>0, <1>5, <4>3, PhasesSeen, ReportPhases
      <4> QED BY <2>1, <4>1, <4>2, <4>3
    <3>2. phaseShown[who] = "working" /\ roundShown[who] = round[who]
      BY <1>0, <1>5, <2>3, PhasesSeen
    <3>3. /\ View(PendingKind, round[who]).phase = "reported"
          /\ View(PendingKind, round[who]).round = round[who]
          /\ View(PendingKind, round[who]).verdict \in {"completed", "refused", "failed"}
      BY <2>1, ReportPhases
    <3>4. roundShown = [roundShown EXCEPT ![who] = round[who]]
      BY <1>0, <1>1, <1>5, <3>2
    <3> QED BY <1>0, <1>4, <1>8, <3>1, <3>2, <3>3, <3>4 DEF Lifecycle!Next, Lifecycle!Report
  <2> QED BY <2>1, <2>2, <2>3
<1>9. CASE pc = "terminal"
  <2>1. /\ PendingKind = EndKind(who)
        /\ \A r \in Roles : Ended(r) \/ Reported(r)
    BY <1>0, <1>9 DEF PendingKind, EndKind, LifeInv, AtEnd, EndShows
  <2>2. CASE Ended(who)
    BY <1>0, <1>3, <2>1, <2>2, PhasesSeen
  <2>3. CASE Reported(who)
    <3>1. \A r \in Roles : phaseShown[r] \in {"reported", "over"}
      BY <1>0, <1>5, <2>1, PhasesSeen, ReportPhases
    <3>2. /\ phaseShown[who] = "reported" /\ roundShown[who] = round[who]
          /\ verdictShown[who] = "completed" <=> final[who] = "completed"
      BY <1>0, <1>5, <2>3, PhasesSeen, ReportPhases
    <3>3. /\ View(PendingKind, round[who]).phase = "over"
          /\ View(PendingKind, round[who]).round = round[who]
          /\ View(PendingKind, round[who]).verdict =
               IF verdictShown[who] = "completed" THEN "completed" ELSE "failed"
      BY <2>1, <3>2, ReportPhases
    <3>4. roundShown = [roundShown EXCEPT ![who] = round[who]]
      BY <1>0, <1>1, <1>5, <3>2
    <3> QED BY <1>0, <1>4, <1>9, <3>1, <3>2, <3>3, <3>4 DEF Lifecycle!Next, Lifecycle!Finish
  <2> QED BY <1>0, <2>1, <2>2, <2>3
<1> QED BY <1>0, <1>3, <1>6, <1>7, <1>8, <1>9 DEF AppendCalls

(* The journal only grows by an append.                                    *)
LEMMA JournalStep == [Next]_vars => AppendEvent \/ UNCHANGED journal
<1> SUFFICES ASSUME [Next]_vars, ~AppendEvent PROVE UNCHANGED journal
  OBVIOUS
<1>1. CASE Handover \/ Replay
  BY <1>1 DEF Handover, Replay, ReadWindow, CallLlm, HandoverWritten, InvokeAgain, ErrorAgain,
    ReturnsInstead, world
<1>2. CASE CallRaises \/ Crash \/ Resume \/ UNCHANGED vars
  BY <1>2 DEF CallRaises, Crash, CrashTo, Resume, vars, world
<1>3. CASE \E r \in Roles : BackendReturns(r) \/ BackendErrors(r) \/ SendSteering(r)
  BY <1>3 DEF BackendReturns, BackendErrors, Answer, SendSteering, world
<1>4. CASE Body /\ ~Handover
  BY <1>4 DEF Body, TaskSubmitted, DelegationStarted, DelegationReported, SteeringHit, SteeringMiss,
    SteeringJournaled, ComposeRound, TaskEnded, Return, InvokeBackend, world
<1> QED BY <1>1, <1>2, <1>3, <1>4 DEF Next

(* As long as no exception is caught outside gather, the shared journal,   *)
(* read role by role, goes through the life of a team, for every number of *)
(* roles and however often the run is crashed, replayed or checkpointed    *)
(* (team.py 173-306, status.py 58-92).                                     *)
THEOREM JournalImplementsLifecycle ==
  ASSUME "caught" \notin Faults
  PROVE  Spec => JournalIsLifecycle
<1>1. Init => LifeInv /\ Lifecycle!Init
  <2> SUFFICES ASSUME Init PROVE LifeInv /\ Lifecycle!Init
    OBVIOUS
  <2>1. /\ journal \in Seq(Event) /\ journal = <<>> /\ pc = "submit" /\ who = 1 /\ ~landed
        /\ next = {} /\ loose = <<>> /\ redo = <<>>
    BY DEF Init
  <2>2. \A r : NoneYet(journal, r)
    BY <2>1 DEF NoneYet, IsLatest, OwnSeqs
  <2>3. LifeInv
    BY <2>1, <2>2, RunTeamAssumption DEF LifeInv, AtStart, Reporting, PastReport, AtEnd, Handing,
      SubmitShows, Roles
  <2>4. \A r : Latest(journal, r) = 0
    BY <2>1, <2>2, NoneIsLatest
  <2> QED BY <2>3, <2>4 DEF Lifecycle!Init, Quiet, phaseShown, roundShown, verdictShown
<1>2. TeamInv /\ TeamInv' /\ LifeInv /\ [Next]_vars => [Lifecycle!Next]_(Lifecycle!vars)
  <2> SUFFICES ASSUME TeamInv, TeamInv', LifeInv, [Next]_vars
               PROVE  [Lifecycle!Next]_(Lifecycle!vars)
    OBVIOUS
  <2>1. CASE AppendEvent
    <3>1. journal' \in Seq(Event)
      BY DEF TeamInv, DataTypes
    <3> QED BY <2>1, <3>1, AppendSimulates
  <2>2. CASE UNCHANGED journal
    BY <2>2 DEF Lifecycle!vars, Quiet, LatestEvent, phaseShown, roundShown, verdictShown
  <2> QED BY <2>1, <2>2, JournalStep
<1>3. TeamInv /\ LifeInv /\ [Next]_vars => LifeInv'
  BY LifeStep
<1> QED BY <1>1, <1>2, <1>3, TeamInductive, PTL DEF Spec, JournalIsLifecycle, Lifecycle!Spec
=============================================================================
