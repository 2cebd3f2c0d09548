---------------------------- MODULE RunTaskProofs ----------------------------
(***************************************************************************)
(* Proofs about RunTask, for every token budget, set of faults, number of  *)
(* messages and number of crashes.                                         *)
(***************************************************************************)
EXTENDS RunTask, TLAPS

(* One append adds one element, after the others.                          *)
LEMMA AppendLast ==
  ASSUME NEW S, NEW s \in Seq(S), NEW e \in S
  PROVE  /\ Append(s, e) \in Seq(S)
         /\ Len(Append(s, e)) = Len(s) + 1
         /\ \A i \in 1 .. Len(s) : Append(s, e)[i] = s[i]
         /\ Append(s, e)[Len(s) + 1] = e
OBVIOUS

-----------------------------------------------------------------------------
(* The flags of the process, and everything else.                          *)
HostTypes == up \in BOOLEAN /\ landed \in BOOLEAN /\ redo \in BOOLEAN

DataTypes ==
  /\ pc \in Calls /\ site \in Sites /\ round \in Nat \ {0}
  /\ outcome \in Verdicts \cup {"none", "error"}
  /\ raw \in SUBSET Nat /\ told \in SUBSET Nat
  /\ window \subseteq DOMAIN journal /\ msg \in Nat
  /\ run \in {"running", "returned", "raised"}
  /\ journal \in Seq(Event) /\ inbox \in Seq(Nat)
  /\ sent \in 0 .. MaxMessages /\ invoked \in Nat /\ crashes \in 0 .. MaxCrashes

LEMMA TypesSplit == TypeOK <=> HostTypes /\ DataTypes
BY DEF TypeOK, HostTypes, DataTypes

LEMMA PendingEventType == DataTypes => PendingEvent \in Event
<1> SUFFICES ASSUME DataTypes PROVE PendingEvent \in Event
  OBVIOUS
<1>1. PendingKind \in EventKinds
  BY DEF DataTypes, Calls, AppendCalls, PendingKind, OutcomeKind, VerdictOfTask, EventKinds,
         LifecycleKinds, OutcomeKinds, TerminalKinds, Verdicts
<1>2. \A i \in window : journal[i] \in Event
  BY DEF DataTypes
<1>3. TextTells \in SUBSET Nat
  BY <1>2 DEF DataTypes, TextTells, Event
<1>4. window \in SUBSET Nat
  BY DEF DataTypes
<1> QED BY <1>1, <1>3, <1>4 DEF DataTypes, PendingEvent, Event

LEMMA InitialTypes == Init => TypeOK
<1> SUFFICES ASSUME Init PROVE HostTypes /\ DataTypes
  BY TypesSplit
<1>1. HostTypes
  BY DEF Init, HostTypes
<1>2. DataTypes
  BY RunTaskAssumption DEF Init, DataTypes, Calls, AppendCalls, Sites, Event
<1> QED BY <1>1, <1>2

LEMMA StepHostTypes == HostTypes /\ [Next]_vars => HostTypes'
<1> SUFFICES ASSUME HostTypes, [Next]_vars PROVE HostTypes'
  OBVIOUS
<1> QED
  BY Zenon DEF HostTypes, vars, host, Next, Body, Handover, Backend, Replay, AppendEvent,
    ReadWindow, CallLlm, HandoverWritten, TaskSubmitted, DelegationStarted, InvokeBackend,
    BackendReturns, BackendErrors, DelegationReported, DelegationErrorReported, SteeringHit,
    SteeringMiss, SteeringJournaled, ComposeRound, TaskEnded, Return, CallRaises, Crash,
    CrashTo, Resume, InvokeAgain, ErrorAgain, ReturnsInstead, SendSteering, Commit, GoTo

LEMMA StepDataTypes == DataTypes /\ [Next]_vars => DataTypes'
<1> SUFFICES ASSUME DataTypes, [Next]_vars PROVE DataTypes'
  OBVIOUS
<1> USE RunTaskAssumption DEF DataTypes, Calls, AppendCalls, Sites, body, host
<1>1. CASE AppendEvent
  BY <1>1, PendingEventType, AppendLast DEF AppendEvent
<1>2. CASE ReadWindow
  BY <1>2 DEF ReadWindow, LeaveHandover, RawAfter, WindowAfter, OwnSeqs
<1>3. CASE CallLlm
  BY <1>3 DEF CallLlm, GoTo
<1>4. CASE HandoverWritten
  <2>1. pc' \in Calls /\ site' \in Sites /\ raw' \in SUBSET Nat
    <3>1. RawAfter(TRUE) \in SUBSET Nat
      BY DEF RawAfter
    <3>2. LeaveHandover(TRUE)
      BY <1>4 DEF HandoverWritten
    <3> QED BY <3>1, <3>2 DEF LeaveHandover
  <2> QED BY <1>4, <2>1 DEF HandoverWritten
<1>5. CASE TaskSubmitted \/ DelegationStarted \/ DelegationReported \/ DelegationErrorReported \/ TaskEnded
  BY <1>5 DEF TaskSubmitted, DelegationStarted, DelegationReported, DelegationErrorReported,
              TaskEnded, Commit, GoTo
<1>6. CASE InvokeBackend \/ BackendReturns \/ BackendErrors
  <2>1. CASE InvokeBackend
    BY <1>6, <2>1 DEF InvokeBackend
  <2>2. CASE BackendReturns
    BY <2>2 DEF BackendReturns
  <2>3. CASE BackendErrors
    BY <2>3 DEF BackendErrors
  <2> QED BY <1>6, <2>1, <2>2, <2>3
<1>7. CASE SteeringHit
  BY <1>7 DEF SteeringHit
<1>8. CASE SteeringMiss
  BY <1>8 DEF SteeringMiss, GoTo
<1>9. CASE SteeringJournaled
  BY <1>9 DEF SteeringJournaled, Commit
<1>10. CASE ComposeRound
  <2>1. PICK n \in 0 .. Len(journal) : told' = raw \cup IF n = 0 THEN {} ELSE journal[n].tells
    BY <1>10 DEF ComposeRound
  <2>2. n # 0 => journal[n] \in Event
    OBVIOUS
  <2>3. told' \in SUBSET Nat
    BY <2>1, <2>2 DEF Event
  <2> QED BY <1>10, <2>3 DEF ComposeRound
<1>11. CASE Return \/ CallRaises
  BY <1>11 DEF Return, CallRaises
<1>12. CASE Crash \/ Resume
  <2>1. CASE Crash
    BY <2>1 DEF Crash, CrashTo
  <2>2. CASE Resume
    BY <2>2 DEF Resume
  <2> QED BY <1>12, <2>1, <2>2
<1>13. CASE Replay
  <2>1. CASE InvokeAgain
    BY <2>1 DEF InvokeAgain
  <2>2. CASE ErrorAgain
    BY <2>2 DEF ErrorAgain
  <2>3. CASE ReturnsInstead
    BY <2>3 DEF ReturnsInstead
  <2> QED BY <1>13, <2>1, <2>2, <2>3 DEF Replay
<1>14. CASE SendSteering
  BY <1>14 DEF SendSteering
<1>15. CASE UNCHANGED vars
  BY <1>15 DEF vars
<1> QED
  BY <1>1, <1>2, <1>3, <1>4, <1>5, <1>6, <1>7, <1>8, <1>9, <1>10, <1>11, <1>12, <1>13,
     <1>14, <1>15 DEF Next, Body, Handover, Backend

(* Every variable of a run keeps its type.                                 *)
THEOREM TypeCorrect == Spec => []TypeOK
BY TypesSplit, InitialTypes, StepHostTypes, StepDataTypes, PTL DEF Spec

-----------------------------------------------------------------------------
(* The journal grows by one event at a time, at its end, and by an append  *)
(* alone.                                                                  *)
LEMMA JournalStep ==
  ASSUME TypeOK, [Next]_vars
  PROVE  \/ AppendEvent
         \/ UNCHANGED journal
BY DEF Next, Body, Handover, Backend, Replay, vars, body, host, ReadWindow, CallLlm,
  HandoverWritten, TaskSubmitted, DelegationStarted, InvokeBackend, BackendReturns,
  BackendErrors, DelegationReported, DelegationErrorReported, SteeringHit, SteeringMiss,
  SteeringJournaled, ComposeRound, TaskEnded, Return, CallRaises, Crash, CrashTo, Resume,
  InvokeAgain, ErrorAgain, ReturnsInstead, SendSteering, GoTo

LEMMA AppendGrows ==
  ASSUME TypeOK, AppendEvent
  PROVE  /\ Len(journal') = Len(journal) + 1
         /\ \A i \in Seqs : journal'[i] = journal[i]
         /\ journal'[Len(journal')] = PendingEvent
         /\ Seqs' = Seqs \cup {Len(journal')}
<1>1. journal \in Seq(Event) /\ PendingEvent \in Event
  BY TypesSplit, PendingEventType DEF TypeOK
<1> QED BY <1>1, AppendLast DEF AppendEvent, Seqs

(***************************************************************************)
(* TerminalIsFinal.  It is not inductive: what keeps a second event from   *)
(* following a terminal one is that the body is past every other append,   *)
(* with the round and the outcome the terminal event was made of.          *)
(***************************************************************************)
Ending == pc \in {"terminal", "return"}

TerminalEvent ==
  [kind |-> VerdictOfTask, role |-> NoRole, round |-> round, covers |-> {}, tells |-> {},
   msg |-> 0]

TerminalInv ==
  \A i \in Seqs : journal[i].kind \in TerminalKinds =>
    Ending /\ \A k \in i .. Len(journal) : journal[k] = TerminalEvent

LEMMA TerminalAppend == TypeOK /\ TerminalInv /\ AppendEvent => TerminalInv'
<1> SUFFICES ASSUME TypeOK, TerminalInv, AppendEvent,
                    NEW i \in Seqs', journal'[i].kind \in TerminalKinds
             PROVE  Ending' /\ \A k \in i .. Len(journal') : journal'[k] = TerminalEvent'
  BY DEF TerminalInv
<1>1. UNCHANGED <<pc, round, outcome>> /\ pc \in AppendCalls
  BY DEF AppendEvent, body
<1>2. TerminalEvent' = TerminalEvent
  BY <1>1 DEF TerminalEvent, VerdictOfTask
<1>3. CASE pc = "terminal"
  <2>1. PendingEvent = TerminalEvent
    BY <1>3 DEF PendingEvent, PendingKind, TextTells, TerminalEvent
  <2>2. ASSUME NEW k \in i .. Len(journal') PROVE journal'[k] = TerminalEvent
    <3>1. journal \in Seq(Event) /\ Len(journal') = Len(journal) + 1 /\ k \in Seqs'
      BY AppendGrows DEF TypeOK, Seqs
    <3>2. CASE k = Len(journal')
      BY <2>1, <3>2, AppendGrows
    <3>3. CASE k # Len(journal')
      <4>1. k \in Seqs /\ i \in Seqs /\ k \in i .. Len(journal)
        BY <3>1, <3>3 DEF Seqs
      <4>2. journal'[k] = journal[k] /\ journal'[i] = journal[i]
        BY <4>1, AppendGrows
      <4> QED BY <4>1, <4>2 DEF TerminalInv
    <3> QED BY <3>2, <3>3
  <2> QED BY <1>1, <1>2, <1>3, <2>2 DEF Ending
<1>4. CASE pc # "terminal"
  <2>1. PendingEvent.kind \notin TerminalKinds
    BY <1>1, <1>4 DEF PendingEvent, PendingKind, OutcomeKind, TerminalKinds, AppendCalls
  <2>2. ~Ending
    BY <1>1, <1>4 DEF Ending, AppendCalls
  <2> QED BY <2>1, <2>2, AppendGrows DEF TerminalInv
<1> QED BY <1>3, <1>4

(* Once the body has come to its last append, it goes only to its return.  *)
LEMMA EndingStep ==
  ASSUME Ending, [Next]_vars
  PROVE  Ending' /\ UNCHANGED <<round, outcome>>
BY DEF Ending, Next, Body, Handover, Backend, Replay, vars, body, host, AppendEvent, ReadWindow,
  CallLlm, HandoverWritten, TaskSubmitted, DelegationStarted, InvokeBackend, BackendReturns,
  BackendErrors, DelegationReported, DelegationErrorReported, SteeringHit, SteeringMiss,
  SteeringJournaled, ComposeRound, TaskEnded, Return, CallRaises, Crash, CrashTo, Resume,
  InvokeAgain, ErrorAgain, ReturnsInstead, SendSteering, Commit, GoTo

LEMMA TerminalStep == TypeOK /\ TerminalInv /\ [Next]_vars => TerminalInv'
<1> SUFFICES ASSUME TypeOK, TerminalInv, [Next]_vars PROVE TerminalInv'
  OBVIOUS
<1>1. CASE AppendEvent
  BY <1>1, TerminalAppend
<1>2. CASE UNCHANGED journal
  <2>1. Ending => Ending' /\ TerminalEvent' = TerminalEvent
    BY EndingStep DEF TerminalEvent, VerdictOfTask
  <2> QED BY <1>2, <2>1 DEF TerminalInv, Seqs
<1> QED BY <1>1, <1>2, JournalStep

(* Whatever crashes, replays and fails: nothing but a copy of it follows a *)
(* terminal event in the journal (workflow.py 141-144, 185-197).           *)
THEOREM TerminalEventIsFinal == Spec => []TerminalIsFinal
<1>1. Init => TerminalInv
  BY DEF Init, TerminalInv, Seqs
<1>2. TypeOK /\ TerminalInv => TerminalIsFinal
  <2> SUFFICES ASSUME TypeOK, TerminalInv, NEW i \in Seqs, journal[i].kind \in TerminalKinds
               PROVE  \A k \in i .. Len(journal) : journal[k] = journal[i]
    BY DEF TerminalIsFinal
  <2>1. i \in i .. Len(journal)
    BY DEF TypeOK, Seqs
  <2> QED BY <2>1 DEF TerminalInv
<1> QED BY <1>1, <1>2, TerminalStep, TypeCorrect, PTL DEF Spec

(***************************************************************************)
(* ReportedDelegationStands.  A round's delegation is invoked before any   *)
(* of its outcomes is journaled, and replay invokes one that raised.       *)
(***************************************************************************)
Unreported ==
  \/ pc \in {"submit", "started", "delegate"}
  \/ site = "start" /\ pc \in {"read", "llm", "write"}

ReportInv ==
  /\ redo => outcome = "error"
  /\ \A i \in Seqs : journal[i].kind \in OutcomeKinds =>
       journal[i].round <= round /\ (Unreported => journal[i].round < round)

LEMMA ReportAppend == TypeOK /\ ReportInv /\ AppendEvent => ReportInv'
<1> SUFFICES ASSUME TypeOK, ReportInv, AppendEvent PROVE ReportInv'
  OBVIOUS
<1>1. UNCHANGED <<pc, site, round, outcome, redo>> /\ pc \in AppendCalls /\ round \in Nat
  BY DEF AppendEvent, body, TypeOK
<1>2. PendingEvent.kind \in OutcomeKinds => pc \in {"outcome", "dfail"}
  BY <1>1 DEF PendingEvent, PendingKind, VerdictOfTask, OutcomeKinds, AppendCalls
<1>3. PendingEvent.kind \in OutcomeKinds => ~Unreported /\ PendingEvent.round = round
  BY <1>2 DEF Unreported, PendingEvent
<1>4. Unreported' = Unreported
  BY <1>1 DEF Unreported
<1>5. ASSUME NEW i \in Seqs', journal'[i].kind \in OutcomeKinds
      PROVE  journal'[i].round <= round /\ (Unreported => journal'[i].round < round)
  BY <1>1, <1>3, <1>5, AppendGrows DEF ReportInv
<1> QED BY <1>1, <1>4, <1>5 DEF ReportInv

(* A round that is reported becomes unreported only by the next beginning. *)
LEMMA RoundStep ==
  ASSUME TypeOK, [Next]_vars
  PROVE  \/ round' = round /\ (Unreported' => Unreported)
         \/ round' = round + 1
BY DEF TypeOK, Unreported, LeaveHandover, Next, Body, Handover, Backend, Replay, vars, body, host, AppendEvent, ReadWindow,
  CallLlm, HandoverWritten, TaskSubmitted, DelegationStarted, InvokeBackend, BackendReturns,
  BackendErrors, DelegationReported, DelegationErrorReported, SteeringHit, SteeringMiss,
  SteeringJournaled, ComposeRound, TaskEnded, Return, CallRaises, Crash, CrashTo, Resume,
  InvokeAgain, ErrorAgain, ReturnsInstead, SendSteering, Commit, GoTo

LEMMA RedoStep ==
  ASSUME redo => outcome = "error", [Next]_vars
  PROVE  (redo => outcome = "error")'
<1>1. CASE BackendReturns \/ BackendErrors
  BY <1>1 DEF BackendReturns, BackendErrors, Commit, Driving
<1>2. CASE Crash
  BY <1>2, Zenon DEF Crash, CrashTo
<1>3. CASE ErrorAgain \/ ReturnsInstead
  BY <1>3, Zenon DEF ErrorAgain, ReturnsInstead
<1>4. CASE ~(BackendReturns \/ BackendErrors \/ Crash \/ ErrorAgain \/ ReturnsInstead)
  <2>1. UNCHANGED <<redo, outcome>>
    BY <1>4, Zenon DEF Next, Body, Handover, Backend, Replay, vars, body, host, AppendEvent, ReadWindow,
    CallLlm, HandoverWritten, TaskSubmitted, DelegationStarted, InvokeBackend,
    DelegationReported, DelegationErrorReported, SteeringHit, SteeringMiss, SteeringJournaled,
    ComposeRound, TaskEnded, Return, CallRaises, Resume, InvokeAgain, SendSteering, Commit, GoTo
  <2> QED BY <2>1
<1> QED BY <1>1, <1>2, <1>3, <1>4

LEMMA ReportStep == TypeOK /\ ReportInv /\ [Next]_vars => ReportInv'
<1> SUFFICES ASSUME TypeOK, ReportInv, [Next]_vars PROVE ReportInv'
  OBVIOUS
<1>1. CASE AppendEvent
  BY <1>1, ReportAppend
<1>2. CASE UNCHANGED journal
  <2>1. (redo => outcome = "error")'
    BY RedoStep DEF ReportInv
  <2>2. \A i \in Seqs : journal[i].round \in Nat
    <3>1. \A i \in Seqs : journal[i] \in Event
      BY DEF TypeOK, Seqs
    <3> QED BY <3>1 DEF Event
  <2>3. round \in Nat
    BY DEF TypeOK
  <2> QED BY <1>2, <2>1, <2>2, <2>3, RoundStep DEF ReportInv, Seqs
<1> QED BY <1>1, <1>2, JournalStep

(* Only a delegation that raised DelegationError is invoked again once its *)
(* outcome is journaled, however often the process dies                    *)
(* (tests/integration/test_crash_recovery.py; workflow.py 119-154).        *)
THEOREM ReportedStands == Spec => ReportedDelegationStands
<1>1. Init => ReportInv
  BY DEF Init, ReportInv, Seqs
<1>2. TypeOK /\ ReportInv /\ [Next]_vars =>
        [invoked' > invoked => Reported(round) = {} \/ outcome = "error"]_vars
  <2> SUFFICES ASSUME TypeOK, ReportInv, Next, invoked' > invoked
               PROVE  Reported(round) = {} \/ outcome = "error"
    OBVIOUS
  <2>0. round \in Nat /\ invoked \in Nat
    BY DEF TypeOK
  <2>1. InvokeBackend \/ InvokeAgain
    <3>1. ~ComposeRound
      BY <2>0 DEF ComposeRound
    <3>2. ASSUME ~InvokeBackend, ~InvokeAgain PROVE UNCHANGED invoked
      BY <3>1, <3>2, Zenon DEF Next, Body, Handover, Backend, Replay, body, host, AppendEvent,
        ReadWindow, CallLlm, HandoverWritten, TaskSubmitted, DelegationStarted, BackendReturns,
        BackendErrors, DelegationReported, DelegationErrorReported, SteeringHit, SteeringMiss,
        SteeringJournaled, TaskEnded, Return, CallRaises, Crash, CrashTo, Resume, ErrorAgain,
        ReturnsInstead, SendSteering, GoTo
    <3> QED BY <2>0, <3>2
  <2>2. CASE InvokeBackend
    <3>1. \A i \in Seqs : journal[i].kind \in OutcomeKinds => journal[i].round < round
      BY <2>2 DEF InvokeBackend, Unreported, ReportInv
    <3> QED BY <2>0, <3>1 DEF Reported
  <2>3. CASE InvokeAgain
    BY <2>3 DEF InvokeAgain, Replaying, ReportInv
  <2> QED BY <2>1, <2>2, <2>3
<1> QED BY <1>1, <1>2, ReportStep, TypeCorrect, PTL DEF Spec, ReportedDelegationStands

(***************************************************************************)
(* NoMessageLost.  Message m is the one that ends round m: the inbox holds *)
(* the messages after the last one consumed, in order.                     *)
(***************************************************************************)
Consumed == IF pc \in {"steer", "summary"} THEN round ELSE round - 1

Journaled(m) == \E i \in Seqs : journal[i].kind = "SteeringMessage" /\ journal[i].msg = m

(* Only a call with an effect is under way with its effect done.           *)
LandedInv == landed /\ ~redo => pc \in AppendCalls \cup {"delegate"}

MessageInv ==
  /\ LandedInv
  /\ sent = Consumed + Len(inbox)
  /\ \A i \in 1 .. Len(inbox) : inbox[i] = Consumed + i
  /\ pc = "steer" => msg = round
  /\ \A m \in 1 .. round - 1 : Journaled(m)
  /\ pc = "summary" \/ (pc = "steer" /\ landed /\ ~redo) => Journaled(round)
  /\ \A i \in Seqs : journal[i].kind = "SteeringMessage" => journal[i].msg = journal[i].round

Steered == pc \in {"steer", "summary"}

LEMMA OtherSteps ==
  ASSUME [Next]_vars,
         ~AppendEvent, ~SteeringHit, ~SteeringJournaled, ~ComposeRound, ~SendSteering
  PROVE  /\ UNCHANGED <<sent, inbox, round, msg, journal>>
         /\ pc' = pc \/ (~Steered /\ ~Steered')
         /\ pc = "steer" /\ landed' /\ ~redo' => landed /\ ~redo
<1>1. UNCHANGED <<sent, inbox, round, msg, journal>>
  BY Zenon DEF Next, Body, Handover, Backend, Replay, vars, body, host, ReadWindow, CallLlm,
    HandoverWritten, TaskSubmitted, DelegationStarted, InvokeBackend, BackendReturns,
    BackendErrors, DelegationReported, DelegationErrorReported, SteeringMiss, TaskEnded,
    Return, CallRaises, Crash, CrashTo, Resume, InvokeAgain, ErrorAgain, ReturnsInstead, GoTo
<1>2. pc' = pc \/ (~Steered /\ ~Steered')
  BY DEF Steered, Next, Body, Handover, Backend, Replay, vars, body, host, ReadWindow, CallLlm,
    HandoverWritten, LeaveHandover, TaskSubmitted, DelegationStarted, InvokeBackend,
    BackendReturns, BackendErrors, DelegationReported, DelegationErrorReported, SteeringMiss,
    TaskEnded, Return, CallRaises, Crash, CrashTo, Resume, InvokeAgain, ErrorAgain,
    ReturnsInstead, Commit, GoTo
<1>3. ASSUME pc = "steer", landed', ~redo' PROVE landed /\ ~redo
  <2>1. CASE UNCHANGED <<landed, redo>>
    BY <1>3, <2>1
  <2>2. CASE InvokeAgain
    BY <1>3, <2>2, Zenon DEF InvokeAgain, Replaying
  <2>3. CASE ErrorAgain \/ ReturnsInstead \/ CallRaises \/ Crash
    BY <1>3, <2>3 DEF ErrorAgain, ReturnsInstead, CallRaises, Crash, CrashTo
  <2>4. CASE InvokeBackend \/ BackendReturns \/ BackendErrors \/ HandoverWritten
             \/ TaskSubmitted \/ DelegationStarted \/ DelegationReported
             \/ DelegationErrorReported \/ TaskEnded
    BY <1>3, <2>4, Zenon DEF InvokeBackend, BackendReturns, BackendErrors, HandoverWritten,
      TaskSubmitted, DelegationStarted, DelegationReported, DelegationErrorReported, TaskEnded,
      Commit
  <2> QED
    BY <2>1, <2>2, <2>3, <2>4, Zenon DEF Next, Body, Handover, Backend, Replay, vars, host, ReadWindow,
      CallLlm, SteeringMiss, Return, Resume, GoTo
<1> QED BY <1>1, <1>2, <1>3

LEMMA LandedStep == LandedInv /\ [Next]_vars => LandedInv'
<1> SUFFICES ASSUME LandedInv, [Next]_vars, landed', ~redo'
             PROVE  pc' \in AppendCalls \cup {"delegate"}
  BY DEF LandedInv
<1>1. CASE AppendEvent \/ InvokeBackend
  BY <1>1 DEF AppendEvent, InvokeBackend, body
<1>2. CASE CallLlm
  BY <1>2 DEF CallLlm, GoTo, AppendCalls
<1>3. CASE UNCHANGED <<pc, landed, redo>>
  BY <1>3 DEF LandedInv
<1>4. CASE ReadWindow \/ SteeringHit \/ SteeringMiss \/ ComposeRound
  <2>1. pc \notin AppendCalls \cup {"delegate"} /\ UNCHANGED <<landed, redo>>
    BY <1>4 DEF ReadWindow, SteeringHit, SteeringMiss, ComposeRound, GoTo, host, AppendCalls
  <2> QED BY <2>1 DEF LandedInv
<1>5. CASE InvokeAgain
  BY <1>5, Zenon DEF InvokeAgain, Replaying
<1>6. CASE ErrorAgain \/ ReturnsInstead \/ CallRaises \/ Crash
  BY <1>6 DEF ErrorAgain, ReturnsInstead, CallRaises, Crash, CrashTo
<1>7. CASE Backend \/ HandoverWritten \/ TaskSubmitted \/ DelegationStarted
           \/ DelegationReported \/ DelegationErrorReported \/ SteeringJournaled \/ TaskEnded
  <2>1. landed' = FALSE
    BY <1>7, Zenon DEF Backend, BackendReturns, BackendErrors, HandoverWritten, TaskSubmitted,
      DelegationStarted, DelegationReported, DelegationErrorReported, SteeringJournaled,
      TaskEnded, Commit
  <2> QED BY <2>1
<1> QED
  BY <1>1, <1>2, <1>3, <1>4, <1>5, <1>6, <1>7, Zenon DEF Next, Body, Handover, Replay, vars,
    body, host, Return, Resume, SendSteering

LEMMA MessageStep == TypeOK /\ MessageInv /\ [Next]_vars => MessageInv'
<1> SUFFICES ASSUME TypeOK, MessageInv, [Next]_vars PROVE MessageInv'
  OBVIOUS
<1>. LandedInv'
  BY LandedStep DEF MessageInv
<1>0. round \in Nat \ {0} /\ sent \in Nat /\ msg \in Nat /\ inbox \in Seq(Nat) /\ Consumed \in Nat
  BY RunTaskAssumption DEF TypeOK, Consumed
<1>1. CASE AppendEvent
  <2>1. UNCHANGED <<pc, round, msg, inbox, sent, redo>> /\ ~redo /\ pc \in AppendCalls
    BY <1>1 DEF AppendEvent, body, Driving
  <2>2. \A m : Journaled(m) => Journaled(m)'
    BY <1>1, AppendGrows DEF Journaled
  <2>3. pc = "steer" => Journaled(round)'
    <3>1. pc = "steer" => PendingEvent.kind = "SteeringMessage" /\ PendingEvent.msg = round
      BY DEF PendingEvent, PendingKind, MessageInv
    <3> QED BY <1>1, <2>1, <3>1, AppendGrows DEF Journaled
  <2>4. PendingEvent.kind = "SteeringMessage" => PendingEvent.msg = PendingEvent.round
    BY <2>1 DEF PendingEvent, PendingKind, OutcomeKind, VerdictOfTask, MessageInv
  <2>5. \A i \in Seqs' : journal'[i].kind = "SteeringMessage" => journal'[i].msg = journal'[i].round
    BY <1>1, <2>4, AppendGrows DEF MessageInv
  <2>6. Consumed' = Consumed
    BY <2>1 DEF Consumed
  <2> QED BY <2>1, <2>2, <2>3, <2>5, <2>6 DEF MessageInv, AppendCalls
<1>2. CASE SendSteering
  <2>1. UNCHANGED <<pc, round, msg, journal, landed, redo>> /\ Consumed' = Consumed
    BY <1>2 DEF SendSteering, body, host, Consumed
  <2>2. sent' = sent + 1 /\ inbox' = Append(inbox, sent + 1)
    BY <1>2 DEF SendSteering
  <2>3. Len(inbox') = Len(inbox) + 1 /\ inbox'[Len(inbox) + 1] = sent + 1
        /\ \A i \in 1 .. Len(inbox) : inbox'[i] = inbox[i]
    BY <1>0, <2>2, AppendLast
  <2>4. sent' = Consumed + Len(inbox') /\ \A i \in 1 .. Len(inbox') : inbox'[i] = Consumed + i
    BY <1>0, <2>2, <2>3 DEF MessageInv
  <2> QED BY <2>1, <2>4 DEF MessageInv, Journaled, Seqs
<1>3. CASE SteeringHit
  <2>1. /\ pc = "poll" /\ pc' = "steer" /\ inbox # <<>>
        /\ msg' = Head(inbox) /\ inbox' = Tail(inbox)
        /\ UNCHANGED <<round, journal, sent, landed, redo>>
    BY <1>3 DEF SteeringHit, host
  <2>2. Consumed = round - 1 /\ Consumed' = round
    BY <2>1 DEF Consumed
  <2>3. /\ Len(inbox') = Len(inbox) - 1 /\ msg' = inbox[1] /\ Len(inbox) # 0
        /\ \A i \in 1 .. Len(inbox') : inbox'[i] = inbox[i + 1]
    BY <1>0, <2>1
  <2>4. /\ Len(inbox) \in Nat \ {0} /\ Len(inbox') = Len(inbox) - 1
        /\ \A i \in 1 .. Len(inbox') : i + 1 \in 1 .. Len(inbox)
    BY <1>0, <2>3
  <2>5. sent = (round - 1) + Len(inbox) /\ \A i \in 1 .. Len(inbox) : inbox[i] = (round - 1) + i
    BY <2>2 DEF MessageInv
  <2>6. sent' = round + Len(inbox') /\ msg' = round
    BY <1>0, <2>1, <2>3, <2>4, <2>5
  <2>7. \A i \in 1 .. Len(inbox') : inbox'[i] = round + i
    BY <1>0, <2>3, <2>4, <2>5
  <2>8. ~(landed /\ ~redo)
    BY <2>1 DEF MessageInv, LandedInv, AppendCalls
  <2> QED BY <2>1, <2>2, <2>6, <2>7, <2>8 DEF MessageInv, Journaled, Seqs
<1>4. CASE SteeringJournaled
  <2>1. /\ pc = "steer" /\ landed /\ ~redo /\ pc' = "summary"
        /\ UNCHANGED <<round, msg, inbox, journal, sent>>
    BY <1>4 DEF SteeringJournaled, Commit, Driving
  <2> QED BY <2>1 DEF MessageInv, Journaled, Seqs, Consumed
<1>5. CASE ComposeRound
  <2>1. /\ pc = "summary" /\ pc' = "started" /\ round' = round + 1
        /\ UNCHANGED <<msg, inbox, journal, sent>>
    BY <1>5 DEF ComposeRound
  <2>2. Consumed = round /\ Consumed' = round
    BY <1>0, <2>1 DEF Consumed
  <2>3. \A m \in 1 .. round' - 1 : Journaled(m)'
    BY <1>0, <2>1 DEF MessageInv, Journaled, Seqs
  <2> QED BY <2>1, <2>2, <2>3 DEF MessageInv, Seqs
<1>6. CASE ~(AppendEvent \/ SendSteering \/ SteeringHit \/ SteeringJournaled \/ ComposeRound)
  BY <1>6, OtherSteps DEF MessageInv, Consumed, Journaled, Seqs, Steered
<1> QED BY <1>1, <1>2, <1>3, <1>4, <1>5, <1>6

(* A message the operator was told is accepted is never lost, and message  *)
(* m is the one that starts round m + 1, however often the process dies    *)
(* between taking it from the inbox and journaling it (workflow.py         *)
(* 168-183).                                                               *)
THEOREM MessagesSurvive == Spec => []NoMessageLost
<1>1. Init => MessageInv
  BY DEF Init, MessageInv, LandedInv, Consumed, Journaled, Seqs
<1>2. TypeOK /\ MessageInv => NoMessageLost
  <2> SUFFICES ASSUME TypeOK, MessageInv, NEW m \in 1 .. sent
               PROVE  \/ \E i \in DOMAIN inbox : inbox[i] = m
                      \/ Journaled(m)
                      \/ pc = "steer" /\ msg = m
    BY DEF NoMessageLost, MessageInv, Journaled
  <2>0. round \in Nat \ {0} /\ inbox \in Seq(Nat) /\ m \in Nat
    BY RunTaskAssumption DEF TypeOK
  <2>1. CASE m > Consumed
    <3>1. m - Consumed \in 1 .. Len(inbox) /\ Consumed + (m - Consumed) = m
      BY <2>0, <2>1 DEF MessageInv, Consumed
    <3> QED BY <2>0, <3>1 DEF MessageInv
  <2>2. CASE m <= Consumed
    BY <2>0, <2>2 DEF MessageInv, Consumed
  <2> QED BY <2>0, <2>1, <2>2 DEF Consumed
<1> QED BY <1>1, <1>2, MessageStep, TypeCorrect, PTL DEF Spec

(* The pending append's row is there.                                      *)
InJournal == landed /\ ~redo

(* A step that only takes the body to its next call.                       *)
Moves ==
  \/ TaskSubmitted \/ DelegationStarted \/ BackendReturns \/ BackendErrors
  \/ DelegationReported \/ DelegationErrorReported
  \/ SteeringHit \/ SteeringMiss \/ TaskEnded \/ CallLlm
  \/ ReturnsInstead /\ pc = "dfail"

Move(from, fromSite, to, toSite) ==
  pc = from /\ site = fromSite /\ pc' = to /\ site' = toSite

LEMMA MoveKinds ==
  ASSUME LandedInv, Moves
  PROVE  /\ UNCHANGED <<round, told, raw, window, journal, run>> /\ ~InJournal'
         /\ pc' \in {"outcome", "dfail"} \/ outcome' = outcome
         /\ pc' = "dfail" => outcome' = "error"
         /\ \/ Move("submit", site, "read", "start")
            \/ Move("started", site, "delegate", site) /\ InJournal
            \/ Move("delegate", site, "outcome", site)
            \/ Move("delegate", site, "dfail", site)
            \/ Move("dfail", site, "outcome", site)
            \/ Move("outcome", site, "read", "round") /\ InJournal
            \/ Move("dfail", site, "read", "error") /\ InJournal
            \/ Move("poll", site, "steer", site)
            \/ Move("poll", site, "read", "end")
            \/ Move("terminal", site, "return", site) /\ InJournal
            \/ Move("llm", site, "write", site)
<1>1. CASE TaskSubmitted \/ DelegationStarted
  BY <1>1 DEF TaskSubmitted, DelegationStarted, Commit, GoTo, Move, InJournal, Driving
<1>2. CASE BackendReturns \/ BackendErrors
  BY <1>2 DEF BackendReturns, BackendErrors, Commit, Move, InJournal, Driving
<1>3. CASE DelegationReported \/ DelegationErrorReported \/ TaskEnded
  BY <1>3 DEF DelegationReported, DelegationErrorReported, TaskEnded, Commit, GoTo, Move,
    InJournal, Driving
<1>4. CASE SteeringHit \/ SteeringMiss \/ CallLlm
  BY <1>4 DEF SteeringHit, SteeringMiss, CallLlm, GoTo, Move, InJournal, Driving, LandedInv,
    AppendCalls, host
<1>5. CASE ReturnsInstead /\ pc = "dfail"
  BY <1>5 DEF ReturnsInstead, Move, InJournal
<1> QED BY <1>1, <1>2, <1>3, <1>4, <1>5 DEF Moves

-----------------------------------------------------------------------------
(***************************************************************************)
(* ReturnedRunIsExplained.  From its report on, a round's outcome is the   *)
(* last one journaled, until the next round's is.                          *)
(***************************************************************************)
Settled ==
  \/ pc \in {"outcome", "dfail"} /\ InJournal
  \/ pc \in {"read", "llm", "write"} /\ site # "start"
  \/ pc \in {"poll", "terminal", "return"}

OutcomeIsLast ==
  \E n \in DOMAIN journal :
    /\ IsLastOf(journal, OutcomeKinds, n)
    /\ journal[n].kind = "DelegationCompleted" <=> outcome = "completed"

ExplainInv ==
  /\ pc = "dfail" => outcome = "error"
  /\ Settled => OutcomeIsLast
  /\ pc = "return" \/ (pc = "terminal" /\ InJournal) =>
       Len(journal) # 0 /\ journal[Len(journal)].kind = VerdictOfTask
  /\ run = "returned" => pc = "return"

LEMMA ExplainAppend == TypeOK /\ ExplainInv /\ AppendEvent => ExplainInv'
<1> SUFFICES ASSUME TypeOK, ExplainInv, AppendEvent PROVE ExplainInv'
  OBVIOUS
<1>1. /\ Len(journal) \in Nat /\ Len(journal') = Len(journal) + 1
      /\ \A i \in DOMAIN journal : journal'[i] = journal[i]
      /\ journal'[Len(journal')] = PendingEvent /\ DOMAIN journal = 1 .. Len(journal)
      /\ DOMAIN journal' = 1 .. Len(journal')
  BY AppendGrows DEF TypeOK, Seqs
<1>2. UNCHANGED <<pc, site, outcome, run, redo>> /\ pc \in AppendCalls /\ ~redo /\ run = "running"
  BY DEF AppendEvent, body, Driving
<1>3. PendingEvent.kind = PendingKind /\ outcome \in Verdicts \cup {"none", "error"}
  BY DEF PendingEvent, TypeOK
<1>4. Settled' => OutcomeIsLast'
  <2>1. CASE pc \in {"outcome", "dfail"}
    <3>1. PendingKind \in OutcomeKinds
      BY <1>3, <2>1 DEF PendingKind, OutcomeKind, OutcomeKinds
    <3>2. PendingKind = "DelegationCompleted" <=> outcome = "completed"
      BY <1>3, <2>1 DEF PendingKind, OutcomeKind, ExplainInv
    <3>3. IsLastOf(journal', OutcomeKinds, Len(journal'))
      BY <1>1, <1>3, <3>1 DEF IsLastOf
    <3> QED BY <1>1, <1>2, <1>3, <3>2, <3>3 DEF OutcomeIsLast
  <2>2. CASE pc \in {"write", "terminal"} /\ Settled'
    <3>1. PendingKind \notin OutcomeKinds
      BY <2>2 DEF PendingKind, VerdictOfTask, OutcomeKinds
    <3>2. PICK n \in DOMAIN journal :
            /\ IsLastOf(journal, OutcomeKinds, n)
            /\ journal[n].kind = "DelegationCompleted" <=> outcome = "completed"
      BY <1>2, <2>2 DEF ExplainInv, Settled, OutcomeIsLast
    <3>3. IsLastOf(journal', OutcomeKinds, n)
      BY <1>1, <1>3, <3>1, <3>2 DEF IsLastOf
    <3> QED BY <1>1, <1>2, <3>2, <3>3 DEF OutcomeIsLast
  <2> QED BY <1>2, <2>1, <2>2 DEF Settled, AppendCalls
<1>5. pc = "terminal" => journal'[Len(journal')].kind = VerdictOfTask'
  BY <1>1, <1>2, <1>3 DEF PendingKind, VerdictOfTask
<1> QED BY <1>1, <1>2, <1>4, <1>5 DEF ExplainInv, AppendCalls

LEMMA ExplainMoves == TypeOK /\ LandedInv /\ ExplainInv /\ Moves => ExplainInv'
<1> SUFFICES ASSUME TypeOK, LandedInv, ExplainInv, Moves PROVE ExplainInv'
  OBVIOUS
<1>1. /\ UNCHANGED <<journal, run>> /\ ~InJournal'
      /\ pc' \in {"outcome", "dfail"} \/ outcome' = outcome
      /\ pc' = "dfail" => outcome' = "error"
  BY MoveKinds
<1>2. Settled' => Settled /\ outcome' = outcome
  BY <1>1, MoveKinds DEF Settled, Move
<1>3. Settled' => OutcomeIsLast'
  BY <1>1, <1>2 DEF ExplainInv, OutcomeIsLast
<1>4. pc' = "return" => pc = "terminal" /\ InJournal
  BY MoveKinds DEF Move
<1>5. pc' = "return" => Len(journal') # 0 /\ journal'[Len(journal')].kind = VerdictOfTask'
  BY <1>1, <1>4 DEF ExplainInv, VerdictOfTask
<1>6. pc # "return"
  BY MoveKinds DEF Move
<1> QED BY <1>1, <1>3, <1>5, <1>6 DEF ExplainInv

LEMMA ExplainStep == TypeOK /\ LandedInv /\ ExplainInv /\ [Next]_vars => ExplainInv'
<1> SUFFICES ASSUME TypeOK, LandedInv, ExplainInv, [Next]_vars PROVE ExplainInv'
  OBVIOUS
<1>1. CASE AppendEvent
  BY <1>1, ExplainAppend
<1>2. CASE Moves
  BY <1>2, ExplainMoves
<1>3. CASE ReadWindow \/ HandoverWritten
  <2>1. /\ UNCHANGED <<outcome, journal, run>> /\ ~InJournal' /\ run # "returned"
        /\ pc \in {"read", "write"} /\ pc' \in {"llm", "started", "poll", "read", "terminal"}
        /\ Settled' => Settled
    <3>1. CASE ReadWindow
      BY <3>1 DEF ReadWindow, LeaveHandover, Driving, host, InJournal, LandedInv, AppendCalls,
        Settled
    <3>2. CASE HandoverWritten
      BY <3>2 DEF HandoverWritten, LeaveHandover, Commit, Driving, InJournal, Settled
    <3> QED BY <1>3, <3>1, <3>2
  <2> QED BY <2>1 DEF ExplainInv, OutcomeIsLast
<1>4. CASE SteeringJournaled \/ ComposeRound
  <2>1. UNCHANGED <<outcome, journal, run>> /\ run # "returned" /\ pc' \in {"summary", "started"}
    BY <1>4 DEF SteeringJournaled, ComposeRound, Commit, Driving
  <2> QED BY <2>1 DEF ExplainInv, Settled
<1>5. CASE \/ InvokeBackend \/ Return \/ CallRaises \/ Crash \/ Resume \/ InvokeAgain \/ ErrorAgain
           \/ (ReturnsInstead /\ pc # "dfail") \/ SendSteering \/ UNCHANGED vars
  <2>1. UNCHANGED <<pc, site, outcome, journal>> /\ (run' = "returned" => run = "returned" \/ Return)
    BY <1>5 DEF InvokeBackend, Return, CallRaises, Crash, CrashTo, Resume, InvokeAgain, ErrorAgain,
      ReturnsInstead, SendSteering, vars, body
  <2>2. InJournal' => InJournal \/ pc = "delegate"
    BY <1>5 DEF InvokeBackend, Return, CallRaises, Crash, CrashTo, Resume, InvokeAgain, ErrorAgain,
      ReturnsInstead, SendSteering, vars, host, Replaying, InJournal
  <2>3. run' = "returned" => pc = "return"
    BY <2>1 DEF Return, ExplainInv
  <2> QED BY <2>1, <2>2, <2>3 DEF ExplainInv, Settled, OutcomeIsLast, VerdictOfTask
<1> QED BY <1>1, <1>2, <1>3, <1>4, <1>5 DEF Next, Body, Handover, Backend, Replay, Moves

(* LastOf finds the row that IsLastOf describes.                           *)
LEMMA LastIsUnique ==
  ASSUME NEW log \in Seq(Event), NEW kinds, NEW n \in 0 .. Len(log), IsLastOf(log, kinds, n)
  PROVE  LastOf(log, kinds) = n
<1>1. n \in 0 .. Len(log) /\ DOMAIN log = 1 .. Len(log)
  OBVIOUS
<1>2. ASSUME NEW m \in 0 .. Len(log), IsLastOf(log, kinds, m) PROVE m = n
  <2>1. ~(n > m) /\ ~(m > n)
    BY <1>1, <1>2 DEF IsLastOf
  <2> QED BY <1>1, <2>1
<1> QED BY <1>1, <1>2 DEF LastOf

(* A run that returned ends its journal with a terminal event, and that is *)
(* TaskCompleted exactly if the last delegation outcome journaled is       *)
(* DelegationCompleted, whatever calls failed and however often the run    *)
(* was crashed and replayed (workflow.py 131-144, 185-197).                *)
THEOREM ReturnedIsExplained == Spec => []ReturnedRunIsExplained
<1>1. Init => LandedInv /\ ExplainInv
  BY DEF Init, LandedInv, ExplainInv, Settled, InJournal
<1>2. TypeOK /\ ExplainInv => ReturnedRunIsExplained
  <2> SUFFICES ASSUME TypeOK, ExplainInv, run = "returned" PROVE ReturnedRunIsExplained
    BY DEF ReturnedRunIsExplained
  <2>1. /\ OutcomeIsLast /\ journal[Len(journal)].kind = VerdictOfTask
    BY DEF ExplainInv, Settled
  <2>2. PICK n \in DOMAIN journal :
          /\ IsLastOf(journal, OutcomeKinds, n)
          /\ journal[n].kind = "DelegationCompleted" <=> outcome = "completed"
    BY <2>1 DEF OutcomeIsLast
  <2>3. journal \in Seq(Event) /\ n \in 0 .. Len(journal)
    BY DEF TypeOK
  <2>4. LastOf(journal, OutcomeKinds) = n
    BY <2>2, <2>3, LastIsUnique
  <2> QED BY <2>1, <2>2, <2>4 DEF ReturnedRunIsExplained, VerdictOfTask, TypeOK
<1> QED BY <1>1, <1>2, LandedStep, ExplainStep, TypeCorrect, PTL DEF Spec

-----------------------------------------------------------------------------
(***************************************************************************)
(* JournalIsLifecycle.  The latest lifecycle event is the one the body has *)
(* last journaled or, after a crash, the one it is about to journal again. *)
(* A DelegationError may be followed, on replay, by another outcome of the *)
(* same round; without one, replay invents no events.                      *)
(***************************************************************************)
Latest(log, kind, r) ==
  \E n \in DOMAIN log :
    /\ IsLastOf(log, LifecycleKinds, n)
    /\ log[n].kind = kind /\ log[n].round = r

NoneYet(log) == IsLastOf(log, LifecycleKinds, 0)

Startable ==
  \/ Latest(journal, "TaskSubmitted", round)
  \/ \E kind \in OutcomeKinds : Latest(journal, kind, round - 1)

ReportIsLatest == outcome \in Verdicts /\ Latest(journal, OutcomeKind(outcome), round)

LifeInv ==
  /\ ~redo /\ outcome # "error" /\ pc # "dfail"
  /\ pc = "submit" =>
       /\ round = 1
       /\ Latest(journal, "TaskSubmitted", round) \/ (~landed /\ NoneYet(journal))
  /\ pc \in {"read", "llm", "write"} /\ site = "start" => Latest(journal, "TaskSubmitted", round)
  /\ pc = "started" => Latest(journal, "DelegationStarted", round) \/ (~landed /\ Startable)
  /\ pc = "delegate" => Latest(journal, "DelegationStarted", round)
  /\ pc = "outcome" =>
       /\ outcome \in Verdicts
       /\ ReportIsLatest \/ (~landed /\ Latest(journal, "DelegationStarted", round))
  /\ (pc \in {"read", "llm", "write"} /\ site # "start") \/ pc \in {"poll", "steer", "summary"} =>
       ReportIsLatest
  /\ pc = "terminal" =>
       outcome \in Verdicts /\ (ReportIsLatest \/ Latest(journal, VerdictOfTask, round))

(* What the append lemmas need of the journal.                             *)
LEMMA LatestAppend ==
  ASSUME TypeOK, LifeInv, AppendEvent
  PROVE  /\ PendingKind \in LifecycleKinds => Latest(journal', PendingKind, round)
         /\ PendingKind \notin LifecycleKinds =>
              /\ \A kind, r : Latest(journal, kind, r) => Latest(journal', kind, r)
              /\ LastLifecycle' = LastLifecycle
              /\ LastLifecycle # 0 => journal'[LastLifecycle] = journal[LastLifecycle]
<1>1. /\ Len(journal) \in Nat /\ Len(journal') = Len(journal) + 1
      /\ \A i \in DOMAIN journal : journal'[i] = journal[i]
      /\ journal'[Len(journal')] = PendingEvent /\ DOMAIN journal = 1 .. Len(journal)
      /\ DOMAIN journal' = 1 .. Len(journal')
      /\ PendingEvent.kind = PendingKind /\ PendingEvent.round = round
  BY AppendGrows DEF TypeOK, Seqs, PendingEvent
<1>2. ASSUME PendingKind \in LifecycleKinds PROVE Latest(journal', PendingKind, round)
  <2>1. IsLastOf(journal', LifecycleKinds, Len(journal'))
    BY <1>1, <1>2 DEF IsLastOf
  <2> QED BY <1>1, <2>1 DEF Latest
<1>3. ASSUME PendingKind \notin LifecycleKinds, NEW n \in 0 .. Len(journal)
      PROVE  IsLastOf(journal', LifecycleKinds, n) <=> IsLastOf(journal, LifecycleKinds, n)
  BY <1>1, <1>3 DEF IsLastOf
<1>4. ASSUME PendingKind \notin LifecycleKinds, NEW kind, NEW r, Latest(journal, kind, r)
      PROVE  Latest(journal', kind, r)
  <2>1. PICK n \in DOMAIN journal :
          IsLastOf(journal, LifecycleKinds, n) /\ journal[n].kind = kind /\ journal[n].round = r
    BY <1>4 DEF Latest
  <2>2. n \in 0 .. Len(journal) /\ n \in DOMAIN journal'
    BY <1>1
  <2> QED BY <1>1, <1>3, <1>4, <2>1, <2>2 DEF Latest
<1>5. ASSUME PendingKind \notin LifecycleKinds
      PROVE  /\ LastLifecycle' = LastLifecycle
             /\ LastLifecycle # 0 => journal'[LastLifecycle] = journal[LastLifecycle]
  <2>0. pc \in {"write", "steer"}
    BY <1>5 DEF AppendEvent, PendingKind, OutcomeKind, OutcomeKinds, VerdictOfTask, TerminalKinds,
      LifecycleKinds, AppendCalls
  <2>1. PICK n \in 0 .. Len(journal) : IsLastOf(journal, LifecycleKinds, n)
    BY <1>1, <2>0 DEF LifeInv, ReportIsLatest, Latest
  <2>2. journal \in Seq(Event) /\ journal' \in Seq(Event) /\ n \in 0 .. Len(journal')
    BY <1>1, PendingEventType, TypesSplit DEF TypeOK, AppendEvent
  <2>3. LastOf(journal, LifecycleKinds) = n /\ LastOf(journal', LifecycleKinds) = n
    BY <1>3, <1>5, <2>1, <2>2, LastIsUnique
  <2>4. n # 0 => n \in DOMAIN journal
    BY <1>1
  <2> QED BY <1>1, <2>3, <2>4 DEF LastLifecycle
<1> QED BY <1>2, <1>4, <1>5

LEMMA LifeAppend == TypeOK /\ LifeInv /\ AppendEvent => LifeInv'
<1> SUFFICES ASSUME TypeOK, LifeInv, AppendEvent PROVE LifeInv'
  OBVIOUS
<1>1. /\ UNCHANGED <<pc, site, outcome, round, redo>> /\ pc \in AppendCalls
      /\ pc # "dfail" /\ VerdictOfTask' = VerdictOfTask
  BY DEF AppendEvent, body, LifeInv, VerdictOfTask
<1>2. CASE pc \in {"write", "steer"}
  <2>1. PendingKind \notin LifecycleKinds
    BY <1>2 DEF PendingKind, LifecycleKinds, OutcomeKinds, TerminalKinds
  <2>2. \A kind, r : Latest(journal, kind, r) => Latest(journal', kind, r)
    BY <2>1, LatestAppend
  <2> QED BY <1>1, <1>2, <2>2 DEF LifeInv, ReportIsLatest
<1>3. CASE pc \in {"submit", "started"}
  <2>1. PendingKind = IF pc = "submit" THEN "TaskSubmitted" ELSE "DelegationStarted"
    BY <1>3 DEF PendingKind
  <2>2. Latest(journal', PendingKind, round)
    BY <2>1, LatestAppend DEF LifecycleKinds
  <2> QED BY <1>1, <1>3, <2>1, <2>2 DEF LifeInv
<1>4. CASE pc = "outcome"
  <2>1. PendingKind = OutcomeKind(outcome) /\ PendingKind \in LifecycleKinds
    BY <1>4 DEF PendingKind, OutcomeKind, LifecycleKinds, OutcomeKinds
  <2>2. Latest(journal', PendingKind, round)
    BY <2>1, LatestAppend
  <2> QED BY <1>1, <1>4, <2>1, <2>2 DEF LifeInv, ReportIsLatest
<1>5. CASE pc = "terminal"
  <2>1. PendingKind = VerdictOfTask /\ PendingKind \in LifecycleKinds
    BY <1>5 DEF PendingKind, VerdictOfTask, LifecycleKinds, TerminalKinds
  <2>2. Latest(journal', PendingKind, round)
    BY <2>1, LatestAppend
  <2> QED BY <1>1, <1>5, <2>1, <2>2 DEF LifeInv
<1> QED BY <1>1, <1>2, <1>3, <1>4, <1>5 DEF AppendCalls

LEMMA LifeMoves ==
  TypeOK /\ LandedInv /\ LifeInv /\ Moves /\ "delegation_error" \notin Faults => LifeInv'
<1> SUFFICES ASSUME TypeOK, LandedInv, LifeInv, Moves, "delegation_error" \notin Faults
             PROVE  LifeInv'
  OBVIOUS
<1>1. /\ UNCHANGED <<round, journal>> /\ ~InJournal'
      /\ pc' \in {"outcome", "dfail"} \/ outcome' = outcome
  BY MoveKinds
<1>2. CASE BackendReturns
  BY <1>1, <1>2 DEF BackendReturns, Commit, LifeInv, ReportIsLatest, Verdicts
<1>3. ~BackendErrors /\ pc # "dfail"
  BY DEF BackendErrors, LifeInv
<1>4. CASE ~BackendReturns
  <2>1. ~redo' /\ ~landed'
    BY <1>1, <1>3, <1>4 DEF Moves, TaskSubmitted, DelegationStarted, DelegationReported,
      DelegationErrorReported, SteeringHit, SteeringMiss, TaskEnded, CallLlm, Commit, GoTo, host,
      LifeInv, InJournal
  <2>2. /\ outcome' = outcome
        /\ \/ Move("submit", site, "read", "start")
           \/ Move("started", site, "delegate", site)
           \/ Move("outcome", site, "read", "round")
           \/ Move("poll", site, "steer", site)
           \/ Move("poll", site, "read", "end")
           \/ Move("terminal", site, "return", site)
           \/ Move("llm", site, "write", site)
    BY <1>1, <1>3, <1>4, MoveKinds DEF Moves, Move, BackendReturns, BackendErrors, Commit,
      TaskSubmitted, DelegationStarted, DelegationReported, SteeringHit, SteeringMiss, TaskEnded,
      CallLlm, GoTo, DelegationErrorReported
  <2>3. pc \in {"submit", "started", "outcome"} => landed
    BY <1>3, <1>4, <2>2 DEF Moves, Move, TaskSubmitted, DelegationStarted, DelegationReported,
      DelegationErrorReported, SteeringHit, SteeringMiss, TaskEnded, CallLlm, Commit, GoTo
  <2> QED BY <1>1, <2>1, <2>2, <2>3 DEF LifeInv, ReportIsLatest, Move
<1> QED BY <1>2, <1>4

LEMMA LifeStep ==
  TypeOK /\ LandedInv /\ LifeInv /\ [Next]_vars /\ "delegation_error" \notin Faults => LifeInv'
<1> SUFFICES ASSUME TypeOK, LandedInv, LifeInv, [Next]_vars, "delegation_error" \notin Faults
             PROVE  LifeInv'
  OBVIOUS
<1>1. CASE AppendEvent
  BY <1>1, LifeAppend
<1>2. CASE Moves
  BY <1>2, LifeMoves
<1>3. CASE ReadWindow \/ HandoverWritten
  <2>1. /\ UNCHANGED <<outcome, round, journal, redo>> /\ ~landed'
        /\ \/ site' = site /\ pc' = "llm" /\ pc = "read"
           \/ site = "start" /\ pc' = "started"
           \/ site = "round" /\ pc' = "poll"
           \/ site = "round" /\ pc' = "read" /\ site' = "end"
           \/ site \in {"end", "error"} /\ pc' = "terminal"
        /\ pc \in {"read", "write"}
    <3>1. CASE ReadWindow
      BY <3>1 DEF ReadWindow, LeaveHandover, host, LandedInv, AppendCalls, LifeInv, Driving
    <3>2. CASE HandoverWritten
      BY <3>2 DEF HandoverWritten, LeaveHandover, Commit
    <3> QED BY <1>3, <3>1, <3>2
  <2> QED BY <2>1 DEF LifeInv, ReportIsLatest, Startable
<1>4. CASE SteeringJournaled
  BY <1>4 DEF SteeringJournaled, Commit, LifeInv, ReportIsLatest
<1>5. CASE ComposeRound
  <2>1. /\ UNCHANGED <<outcome, journal, redo>> /\ pc = "summary" /\ pc' = "started" /\ ~landed'
        /\ round' = round + 1
    BY <1>5 DEF ComposeRound, host, LandedInv, AppendCalls, LifeInv
  <2>2. Latest(journal, OutcomeKind(outcome), round) /\ OutcomeKind(outcome) \in OutcomeKinds
    BY <2>1 DEF LifeInv, ReportIsLatest, OutcomeKind, OutcomeKinds
  <2>3. round' - 1 = round
    BY <2>1 DEF TypeOK
  <2> QED BY <2>1, <2>2, <2>3 DEF LifeInv, Startable
<1>6. CASE \/ InvokeBackend \/ Return \/ CallRaises \/ Crash \/ Resume \/ InvokeAgain \/ ErrorAgain
           \/ (ReturnsInstead /\ pc # "dfail") \/ SendSteering \/ UNCHANGED vars
  <2>1. UNCHANGED <<pc, site, outcome, round, journal>>
    BY <1>6 DEF InvokeBackend, Return, CallRaises, Crash, CrashTo, Resume, InvokeAgain, ErrorAgain,
      ReturnsInstead, SendSteering, vars, body, host, LifeInv, Replaying
  <2>3. ~redo'
    <3>1. CASE Crash
      BY <3>1, Zenon DEF Crash, CrashTo, LifeInv
    <3>2. CASE ~Crash
      BY <1>6, <3>2 DEF InvokeBackend, Return, CallRaises, Resume, InvokeAgain, ErrorAgain,
        ReturnsInstead, SendSteering, vars, host, LifeInv, Replaying
    <3> QED BY <3>1, <3>2
  <2>2. landed' => landed \/ pc = "delegate"
    BY <1>6 DEF InvokeBackend, Return, CallRaises, Crash, CrashTo, Resume, InvokeAgain, ErrorAgain,
      ReturnsInstead, SendSteering, vars, host, LifeInv, Replaying
  <2> QED BY <2>1, <2>2, <2>3 DEF LifeInv, ReportIsLatest, Startable, VerdictOfTask
<1> QED BY <1>1, <1>2, <1>3, <1>4, <1>5, <1>6 DEF Next, Body, Handover, Backend, Replay, Moves

(* What a reader sees of a journal whose latest lifecycle event is known.  *)
LEMMA LatestIsSeen ==
  ASSUME NEW log \in Seq(Event), NEW kind, NEW r, Latest(log, kind, r)
  PROVE  /\ LastOf(log, LifecycleKinds) # 0
         /\ log[LastOf(log, LifecycleKinds)].kind = kind
         /\ log[LastOf(log, LifecycleKinds)].round = r
<1>1. PICK n \in DOMAIN log :
        IsLastOf(log, LifecycleKinds, n) /\ log[n].kind = kind /\ log[n].round = r
  BY DEF Latest
<1>2. n \in 0 .. Len(log) /\ n # 0
  OBVIOUS
<1> QED BY <1>1, <1>2, LastIsUnique

LEMMA NoneIsSeen ==
  ASSUME NEW log \in Seq(Event), NoneYet(log)
  PROVE  LastOf(log, LifecycleKinds) = 0
<1>1. 0 \in 0 .. Len(log)
  OBVIOUS
<1> QED BY <1>1, LastIsUnique DEF NoneYet

LEMMA NewReportSimulates ==
  ASSUME TypeOK, TypeOK', LifeInv, AppendEvent, pc \in {"submit", "started", "outcome", "terminal"}
  PROVE  [Lifecycle!Next]_(Lifecycle!vars)
<1>1. /\ journal \in Seq(Event) /\ journal' \in Seq(Event) /\ round \in Nat \ {0}
  BY DEF TypeOK
<1>2. \A kind, r : Latest(journal, kind, r) =>
        /\ LastLifecycle # 0
        /\ journal[LastLifecycle].kind = kind /\ journal[LastLifecycle].round = r
  BY <1>1, LatestIsSeen DEF LastLifecycle
<1>3. NoneYet(journal) => LastLifecycle = 0
  BY <1>1, NoneIsSeen DEF LastLifecycle
<1>4. /\ PendingKind \in LifecycleKinds
      /\ LastLifecycle' # 0
      /\ journal'[LastLifecycle'].kind = PendingKind /\ journal'[LastLifecycle'].round = round
  <2>1. PendingKind \in LifecycleKinds
    BY DEF PendingKind, OutcomeKind, VerdictOfTask, LifecycleKinds, OutcomeKinds, TerminalKinds
  <2> QED BY <1>1, <2>1, LatestAppend, LatestIsSeen DEF LastLifecycle
<1>5. Latest(journal, PendingKind, round) => UNCHANGED Lifecycle!vars
  BY <1>2, <1>4 DEF Lifecycle!vars
<1>6. CASE pc = "submit" /\ NoneYet(journal)
  <2>1. PendingKind = "TaskSubmitted" /\ round = 1
    BY <1>6 DEF PendingKind, LifeInv
  <2> QED BY <1>3, <1>4, <1>6, <2>1 DEF Lifecycle!Next, Lifecycle!Submit, PhaseOf, VerdictOf,
            TerminalKinds
<1>7. CASE pc = "started" /\ Startable
  <2>1. PendingKind = "DelegationStarted"
    BY <1>7 DEF PendingKind
  <2>2. CASE Latest(journal, "TaskSubmitted", round)
    BY <1>2, <1>4, <2>1, <2>2 DEF Lifecycle!Next, Lifecycle!Start, PhaseOf, VerdictOf, TerminalKinds
  <2>3. ASSUME NEW kind \in OutcomeKinds, Latest(journal, kind, round - 1)
        PROVE  Lifecycle!Start
    <3>1. (round - 1) + 1 = round
      BY <1>1
    <3> QED BY <1>2, <1>4, <2>1, <2>3, <3>1 DEF Lifecycle!Start, PhaseOf, VerdictOf, TerminalKinds,
              OutcomeKinds
  <2> QED BY <1>7, <2>2, <2>3 DEF Startable, Lifecycle!Next
<1>8. CASE pc = "outcome" /\ Latest(journal, "DelegationStarted", round)
  <2>1. PendingKind \in OutcomeKinds
    BY <1>8 DEF PendingKind, OutcomeKind, OutcomeKinds
  <2> QED BY <1>2, <1>4, <1>8, <2>1 DEF Lifecycle!Next, Lifecycle!Report, PhaseOf, VerdictOf,
            TerminalKinds, OutcomeKinds
<1>9. CASE pc = "terminal" /\ ReportIsLatest
  <2>1. PendingKind = VerdictOfTask
    BY <1>9 DEF PendingKind
  <2> QED BY <1>2, <1>4, <1>9, <2>1 DEF Lifecycle!Next, Lifecycle!Finish, PhaseOf, VerdictOf,
            TerminalKinds, OutcomeKind, Verdicts, VerdictOfTask, ReportIsLatest
<1>10. PendingKind = CASE pc = "submit" -> "TaskSubmitted"
                       [] pc = "started" -> "DelegationStarted"
                       [] pc = "outcome" -> OutcomeKind(outcome)
                       [] OTHER -> VerdictOfTask
  BY DEF PendingKind
<1> QED BY <1>5, <1>6, <1>7, <1>8, <1>9, <1>10 DEF LifeInv, AppendEvent, ReportIsLatest

(* As long as no delegation raises DelegationError, the journal's latest   *)
(* lifecycle event goes through the life of a task, with every other fault *)
(* and however often the run is crashed, replayed or checkpointed          *)
(* (workflow.py 96-197, status.py 63-92).                                  *)
THEOREM JournalImplementsLifecycle ==
  ASSUME "delegation_error" \notin Faults
  PROVE  Spec => JournalIsLifecycle
<1>1. Init => LandedInv /\ LifeInv
  BY DEF Init, LandedInv, LifeInv, NoneYet, IsLastOf
<1>2. Init => Lifecycle!Init
  <2> SUFFICES ASSUME Init PROVE Lifecycle!Init
    OBVIOUS
  <2>1. journal \in Seq(Event) /\ NoneYet(journal)
    BY DEF Init, NoneYet, IsLastOf
  <2>2. LastLifecycle = 0
    BY <2>1, NoneIsSeen DEF LastLifecycle
  <2> QED BY <2>2 DEF Lifecycle!Init
<1>3. TypeOK /\ TypeOK' /\ LifeInv /\ [Next]_vars => [Lifecycle!Next]_(Lifecycle!vars)
  <2> SUFFICES ASSUME TypeOK, TypeOK', LifeInv, [Next]_vars
               PROVE  [Lifecycle!Next]_(Lifecycle!vars)
    OBVIOUS
  <2>1. CASE AppendEvent /\ pc \in {"write", "steer"}
    <3>1. PendingKind \notin LifecycleKinds
      BY <2>1 DEF PendingKind, LifecycleKinds, OutcomeKinds, TerminalKinds
    <3> QED BY <2>1, <3>1, LatestAppend DEF Lifecycle!vars
  <2>2. CASE AppendEvent /\ pc \notin {"write", "steer"}
    BY <2>2, NewReportSimulates DEF AppendEvent, AppendCalls, LifeInv
  <2>3. CASE UNCHANGED journal
    BY <2>3 DEF Lifecycle!vars, LastLifecycle
  <2> QED BY <2>1, <2>2, <2>3, JournalStep
<1>4. TypeOK /\ LandedInv /\ LifeInv /\ [Next]_vars => LifeInv'
  BY LifeStep
<1> QED BY <1>1, <1>2, <1>3, <1>4, LandedStep, TypeCorrect, PTL DEF Spec, JournalIsLifecycle,
          Lifecycle!Spec

-----------------------------------------------------------------------------
(***************************************************************************)
(* How often a round's delegation runs.  Before it is asked for nothing    *)
(* was invoked; afterwards, whenever the body is about to invoke it, every *)
(* invocation made so far was lost to a crash of its own.                  *)
(***************************************************************************)
Failing ==
  \/ pc = "dfail"
  \/ site = "error" /\ pc \in {"read", "llm", "write", "terminal", "return"}

BeforeCall == ~landed /\ (redo \/ pc = "delegate")

PaidInv ==
  /\ redo => outcome = "error"
  /\ outcome = "error" => Failing
  /\ run # "raised" /\ Unreported /\ pc # "delegate" => invoked = 0
  /\ run # "raised" /\ BeforeCall => invoked <= crashes
  /\ invoked <= crashes + 1

InvocationsArePaid == invoked <= crashes + 1

(* A DelegationError the body has handled takes it to its last calls.      *)
LEMMA FailingStep ==
  ASSUME outcome = "error" => Failing, [Next]_vars
  PROVE  (outcome = "error" => Failing)'
<1>1. CASE BackendReturns \/ BackendErrors
  BY <1>1 DEF BackendReturns, BackendErrors, Failing, Verdicts
<1>2. CASE ReturnsInstead
  BY <1>2 DEF ReturnsInstead, Failing, Verdicts
<1>3. CASE ~(BackendReturns \/ BackendErrors \/ ReturnsInstead)
  <2>1. outcome' = outcome
    BY <1>3, Zenon DEF Next, Body, Handover, Backend, Replay, vars, body, host, AppendEvent,
      ReadWindow, CallLlm, HandoverWritten, TaskSubmitted, DelegationStarted, InvokeBackend,
      DelegationReported, DelegationErrorReported, SteeringHit, SteeringMiss, SteeringJournaled,
      ComposeRound, TaskEnded, Return, CallRaises, Crash, CrashTo, Resume, InvokeAgain,
      ErrorAgain, SendSteering, Commit, GoTo
  <2>2. Failing => Failing'
    BY <1>3 DEF Failing, LeaveHandover, Next, Body, Handover, Backend, Replay, vars, body, host,
      AppendEvent, ReadWindow, CallLlm, HandoverWritten, TaskSubmitted, DelegationStarted,
      InvokeBackend, DelegationReported, DelegationErrorReported, SteeringHit, SteeringMiss,
      SteeringJournaled, ComposeRound, TaskEnded, Return, CallRaises, Crash, CrashTo, Resume,
      InvokeAgain, ErrorAgain, SendSteering, Commit, GoTo
  <2> QED BY <2>1, <2>2
<1> QED BY <1>1, <1>2, <1>3

LEMMA PaidStep == TypeOK /\ PaidInv /\ [Next]_vars => PaidInv'
<1> SUFFICES ASSUME TypeOK, PaidInv, [Next]_vars PROVE PaidInv'
  OBVIOUS
<1>1. (redo => outcome = "error")' /\ (outcome = "error" => Failing)'
  BY RedoStep, FailingStep DEF PaidInv
<1>2. invoked \in Nat /\ crashes \in Nat
  BY RunTaskAssumption DEF TypeOK
<1>3. ~(redo /\ (Unreported \/ pc = "delegate"))
  BY DEF PaidInv, Failing, Unreported
<1>4. CASE InvokeBackend
  <2>1. ~redo /\ BeforeCall /\ run # "raised"
    BY <1>4 DEF InvokeBackend, BeforeCall, Driving
  <2>2. invoked' = invoked + 1 /\ landed' /\ pc' = "delegate" /\ UNCHANGED crashes
    BY <1>4 DEF InvokeBackend, body
  <2> QED BY <1>1, <1>2, <2>1, <2>2 DEF PaidInv, BeforeCall
<1>5. CASE InvokeAgain
  <2>1. redo /\ BeforeCall /\ run # "raised"
    BY <1>5 DEF InvokeAgain, BeforeCall, Replaying
  <2>2. invoked' = invoked + 1 /\ landed' /\ UNCHANGED <<crashes, pc, site>>
    BY <1>5 DEF InvokeAgain, body
  <2>3. ~(Unreported /\ pc # "delegate")'
    BY <1>3, <2>1, <2>2 DEF Unreported
  <2> QED BY <1>1, <1>2, <2>1, <2>2, <2>3 DEF PaidInv, BeforeCall
<1>6. CASE ComposeRound
  <2>1. invoked' = 0 /\ pc' = "started" /\ UNCHANGED <<crashes, outcome>>
    BY <1>6 DEF ComposeRound
  <2>2. outcome # "error"
    BY <1>6 DEF ComposeRound, PaidInv, Failing
  <2> QED BY <1>1, <1>2, <2>1, <2>2 DEF PaidInv
<1>7. CASE Crash
  <2>1. crashes' = crashes + 1 /\ UNCHANGED <<invoked, run, pc, site>>
    BY <1>7 DEF Crash, CrashTo
  <2>2. Unreported' = Unreported
    BY <2>1 DEF Unreported
  <2> QED BY <1>1, <1>2, <2>1, <2>2 DEF PaidInv
<1>8. CASE ~(InvokeBackend \/ InvokeAgain \/ ComposeRound \/ Crash)
  <2>1. UNCHANGED <<invoked, crashes>>
    BY <1>8, Zenon DEF Next, Body, Handover, Backend, Replay, vars, body, host, AppendEvent,
      ReadWindow, CallLlm, HandoverWritten, TaskSubmitted, DelegationStarted, BackendReturns,
      BackendErrors, DelegationReported, DelegationErrorReported, SteeringHit, SteeringMiss,
      SteeringJournaled, TaskEnded, Return, CallRaises, Resume, ErrorAgain, ReturnsInstead,
      SendSteering, Commit, GoTo
  <2>2. ASSUME run' # "raised"
        PROVE  /\ run # "raised"
               /\ (Unreported /\ pc # "delegate")' => Unreported /\ pc # "delegate"
               /\ BeforeCall' => BeforeCall \/ (Unreported /\ pc # "delegate")
    <3>1. CASE AppendEvent \/ UNCHANGED vars \/ Resume \/ SendSteering \/ Return
      BY <2>2, <3>1 DEF AppendEvent, Resume, SendSteering, Return, vars, body, host, Driving,
        BeforeCall, Unreported
    <3>2. CASE Handover
      <4>1. Driving /\ UNCHANGED redo
        BY <3>2, Zenon DEF Handover, ReadWindow, CallLlm, HandoverWritten, GoTo, host, Commit
      <4>2. pc' # "delegate" /\ (Unreported' => Unreported /\ pc # "delegate")
        BY <3>2 DEF Handover, ReadWindow, CallLlm, HandoverWritten, LeaveHandover, GoTo, Commit,
          Unreported
      <4> QED BY <4>1, <4>2 DEF BeforeCall, Driving
    <3>3. CASE \/ TaskSubmitted \/ DelegationStarted \/ DelegationReported
               \/ DelegationErrorReported \/ TaskEnded
      BY <2>2, <3>3 DEF TaskSubmitted, DelegationStarted, DelegationReported, TaskEnded,
        DelegationErrorReported, Commit, GoTo, Driving, BeforeCall, Unreported
    <3>4. CASE SteeringHit \/ SteeringMiss \/ SteeringJournaled
      BY <2>2, <3>4 DEF SteeringHit, SteeringMiss, SteeringJournaled, Commit, GoTo, host, Driving,
        BeforeCall, Unreported
    <3>5. CASE Backend
      BY <2>2, <3>5 DEF Backend, BackendReturns, BackendErrors, Commit, Driving, BeforeCall,
        Unreported
    <3>6. CASE ErrorAgain \/ ReturnsInstead
      <4>1. run # "raised" /\ redo /\ ~redo'
        BY <3>6 DEF ErrorAgain, ReturnsInstead, Replaying
      <4>2. UNCHANGED <<pc, site>> \/ pc' = "outcome"
        BY <2>2, <3>6 DEF ErrorAgain, ReturnsInstead, body
      <4> QED BY <1>3, <4>1, <4>2 DEF BeforeCall, Unreported
    <3>7. CASE CallRaises
      BY <2>2, <3>7 DEF CallRaises
    <3> QED
      BY <1>8, <3>1, <3>2, <3>3, <3>4, <3>5, <3>6, <3>7, Zenon DEF Next, Body, Replay
  <2> QED BY <1>1, <1>2, <2>1, <2>2 DEF PaidInv
<1> QED BY <1>4, <1>5, <1>6, <1>7, <1>8

(* Each crash costs a round's delegation at most one further invocation,   *)
(* also when the round ended in a DelegationError that every replay runs   *)
(* again (workflow.py 114-154, tests/integration/test_crash_recovery.py    *)
(* 24-30).                                                                 *)
THEOREM InvocationsPaid == Spec => []InvocationsArePaid
<1>1. Init => PaidInv
  BY RunTaskAssumption DEF Init, PaidInv, BeforeCall
<1>2. PaidInv => InvocationsArePaid
  BY DEF PaidInv, InvocationsArePaid
<1> QED BY <1>1, <1>2, PaidStep, TypeCorrect, PTL DEF Spec
=============================================================================
