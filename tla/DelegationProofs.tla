-------------------------- MODULE DelegationProofs --------------------------
(***************************************************************************)
(* The theorems about one delegation.  What a stream is read as is the     *)
(* value of a recursive function; the first section shows that the reader  *)
(* goes on by one event when the stream does, and everything after it uses *)
(* that fact alone.                                                        *)
(***************************************************************************)
EXTENDS Delegation, WellFoundedInduction, TLAPS

-----------------------------------------------------------------------------
(***************************************************************************)
(* Reading a stream.  Induction over its length is by a least length at    *)
(* which a claim fails.                                                    *)
(***************************************************************************)
LEMMA LeastNumber ==
  ASSUME NEW T, T \subseteq Nat, T # {}
  PROVE  \E m \in T : \A k \in T : m <= k
<1> DEFINE R == OpToRel(<, Nat)
<1>1. \A x, y \in Nat : x < y => <<x, y>> \in R
  BY DEF OpToRel
<1>2. IsWellFoundedOn(R, Nat)
  BY NatLessThanWellFounded
<1> HIDE DEF R
<1>3. PICK m \in T : \A k \in T : ~(<<k, m>> \in R)
  BY <1>2, WFMin
<1>4. ASSUME NEW k \in T PROVE m <= k
  <2>1. k \in Nat /\ m \in Nat
    OBVIOUS
  <2>2. ~(k < m)
    BY <1>1, <1>3, <2>1
  <2>3. QED
    BY <2>1, <2>2
<1>5. QED
  BY <1>4

(* f is what the loop of classify_stream has read after each of the first  *)
(* n events.                                                               *)
IsReading(f, who, events, n) ==
  f = [k \in 0 .. n |-> IF k = 0 THEN NothingRead ELSE Reads(who, f[k - 1], events[k])]

(* The loop can be run over any number of events.                          *)
LEMMA ReadingExists ==
  ASSUME NEW who, NEW events, NEW n \in Nat
  PROVE  \E f : IsReading(f, who, events, n)
<1> DEFINE T == {m \in Nat : ~ \E f : IsReading(f, who, events, m)}
<1> SUFFICES ASSUME T # {} PROVE FALSE
  OBVIOUS
<1>1. PICK m \in T : \A k \in T : m <= k
  BY LeastNumber
<1>2. m # 0
  <2>1. IsReading([k \in 0 .. 0 |-> NothingRead], who, events, 0)
    BY DEF IsReading
  <2>2. QED
    BY <2>1
<1>3. m - 1 \in Nat /\ m - 1 \notin T
  BY <1>1, <1>2
<1>4. PICK f : IsReading(f, who, events, m - 1)
  BY <1>3
<1> DEFINE g == [k \in 0 .. m |-> IF k = m THEN Reads(who, f[m - 1], events[m]) ELSE f[k]]
<1>5. IsReading(g, who, events, m)
  <2> SUFFICES ASSUME NEW k \in 0 .. m
               PROVE  g[k] = IF k = 0 THEN NothingRead ELSE Reads(who, g[k - 1], events[k])
    BY DEF IsReading
  <2>1. CASE k = m
    BY <2>1, <1>2, <1>3
  <2>2. CASE k # m
    BY <2>2, <1>2, <1>3, <1>4 DEF IsReading
  <2>3. QED
    BY <2>1, <2>2
<1>6. QED
  BY <1>5

(* Two streams that begin with the same events are read alike that far.    *)
LEMMA ReadingsAgree ==
  ASSUME NEW who, NEW s, NEW t, NEW n \in Nat, NEW f, NEW g,
         IsReading(f, who, s, n), NEW m \in Nat, IsReading(g, who, t, m), n <= m,
         \A k \in 1 .. n : s[k] = t[k]
  PROVE  f[n] = g[n]
<1> DEFINE T == {k \in 0 .. n : f[k] # g[k]}
<1> SUFFICES ASSUME T # {} PROVE FALSE
  OBVIOUS
<1>1. PICK k \in T : \A j \in T : k <= j
  <2>1. T \subseteq Nat
    OBVIOUS
  <2> HIDE DEF T
  <2>2. QED
    BY <2>1, LeastNumber
<1>2. k # 0
  <2>1. f[0] = NothingRead /\ g[0] = NothingRead
    BY DEF IsReading
  <2>2. QED
    BY <2>1
<1>3. f[k - 1] = g[k - 1]
  BY <1>1, <1>2
<1>4. f[k] = Reads(who, f[k - 1], s[k]) /\ g[k] = Reads(who, g[k - 1], t[k])
  BY <1>2 DEF IsReading
<1>5. QED
  BY <1>2, <1>3, <1>4

(* The verdict is about what the loop has read after the last event.       *)
LEMMA ReadIsReading ==
  ASSUME NEW who, NEW events, Len(events) \in Nat
  PROVE  \E f : IsReading(f, who, events, Len(events)) /\ Read(who, events) = f[Len(events)]
<1> DEFINE f == CHOOSE g : IsReading(g, who, events, Len(events))
<1>1. IsReading(f, who, events, Len(events))
  BY ReadingExists
<1>2. Read(who, events) = f[Len(events)]
  BY DEF Read, IsReading
<1>3. QED
  BY <1>1, <1>2

(* Of an empty stream nothing is read.                                     *)
LEMMA ReadEmpty == ASSUME NEW who PROVE Read(who, <<>>) = NothingRead
<1>1. PICK f : IsReading(f, who, <<>>, 0) /\ Read(who, <<>>) = f[0]
  BY ReadIsReading
<1>2. QED
  BY <1>1 DEF IsReading

(* One more line is one more turn of the loop.                             *)
LEMMA ReadAppend ==
  ASSUME NEW who, NEW S, NEW s \in Seq(S), NEW e \in S
  PROVE  Read(who, Append(s, e)) = Reads(who, Read(who, s), e)
<1> DEFINE t == Append(s, e)
           n == Len(s)
<1>1. n \in Nat /\ Len(t) = n + 1 /\ t[n + 1] = e /\ \A k \in 1 .. n : s[k] = t[k]
  OBVIOUS
<1>2. PICK f : IsReading(f, who, s, n) /\ Read(who, s) = f[n]
  BY <1>1, ReadIsReading
<1>3. PICK g : IsReading(g, who, t, n + 1) /\ Read(who, t) = g[n + 1]
  <2>1. Len(t) \in Nat
    BY <1>1
  <2>2. QED
    BY <1>1, <2>1, ReadIsReading
<1> HIDE DEF t, n
<1>4. f[n] = g[n]
  BY <1>1, <1>2, <1>3, ReadingsAgree
<1>5. g[n + 1] = Reads(who, g[n], e)
  BY <1>1, <1>3 DEF IsReading
<1>6. QED
  BY <1>2, <1>3, <1>4, <1>5 DEF t

-----------------------------------------------------------------------------
(***************************************************************************)
(* NothingLeftBehind, whatever the agent printed.                          *)
(***************************************************************************)
(* Before the agent is started there is none, and no sandbox before Create. *)
EarlyInv ==
  /\ pc \in {"begin", "create", "spawn"} => agent = "idle"
  /\ pc \in {"begin", "create"} => box = "none"

(* Only a call that was given a container has a sandbox, or an agent       *)
(* elsewhere than on the host.                                             *)
BoxInv ==
  /\ box # "none" => sandbox = "container"
  /\ pc \in {"spawn", "await"} => sandbox \in {"none", "container"}
  /\ missing => sandbox # "none"
  /\ pc = "destroy" => sandbox = "container"

(* What still lives is on its way through the finally clauses, or destroy  *)
(* failed.                                                                 *)
LiveInv ==
  /\ box = "live" =>
       pc \in {"spawn", "await", "destroy"} \/ result.kind = "SandboxError"
  /\ agent = "working" =>
       pc \in {"await", "destroy"} \/ result.kind = "SandboxError"

PolicyInv == pc = "over" => ~policy

LeftInv == EarlyInv /\ BoxInv /\ LiveInv /\ PolicyInv

(* At the start nothing exists.                                            *)
LEMMA InitLeft == Init => LeftInv
BY DEF Init, LeftInv, EarlyInv, BoxInv, LiveInv, PolicyInv, NoResult, Result

(* The agent's own steps start nothing and do not move the coroutine.      *)
LEMMA AgentLeft == LeftInv /\ Agent => LeftInv'
<1> SUFFICES ASSUME LeftInv, Agent PROVE LeftInv'
  OBVIOUS
<1> USE DEF LeftInv, EarlyInv, BoxInv, LiveInv, PolicyInv, Outside, config, ExecEnds
<1>1. CASE \E p \in Paths : EditFile(p)
  BY <1>1 DEF EditFile
<1>2. CASE \E p \in Paths \cup {NoPath} : StartTool(p)
  BY <1>2 DEF StartTool
<1>3. ASSUME NEW b \in BOOLEAN, FinishTool(b) PROVE LeftInv'
  BY <1>3 DEF FinishTool
<1>4. ASSUME NEW b \in BOOLEAN, EndSession(b) PROVE LeftInv'
  BY <1>4 DEF EndSession
<1>5. CASE Deny
  BY <1>5 DEF Deny
<1>6. CASE Die
  BY <1>6 DEF Die
<1>7. CASE ContainerLost
  BY <1>7 DEF ContainerLost
<1>8. ASSUME NEW p \in Paths, UseOther(p) PROVE LeftInv'
  <2>1. UNCHANGED <<Outside, agent, missing>>
    BY <1>8 DEF UseOther
  <2>2. QED
    BY <2>1
<1>9. CASE Garble
  BY <1>9 DEF Garble
<1>10. QED
  BY <1>1, <1>2, <1>3, <1>4, <1>5, <1>6, <1>7, <1>8, <1>9 DEF Agent

(* Each step of delegate() hands on what lives to the next finally clause. *)
LEMMA CoroutineLeft == LeftInv /\ Coroutine => LeftInv'
<1> SUFFICES ASSUME LeftInv, Coroutine PROVE LeftInv'
  OBVIOUS
<1> USE DEF LeftInv, EarlyInv, BoxInv, LiveInv, PolicyInv, config
<1>1. CASE Begin
  BY <1>1 DEF Begin
<1>2. CASE BinaryMissing
  BY <1>2 DEF BinaryMissing, Result
<1>3. CASE Create
  BY <1>3 DEF Create
<1>4. CASE CreateRaises
  BY <1>4 DEF CreateRaises, Result
<1>5. CASE Spawn
  BY <1>5 DEF Spawn
<1>6. CASE AwaitReturns
  BY <1>6 DEF AwaitReturns, Unwind
<1>7. CASE AwaitCut
  BY <1>7 DEF AwaitCut, Unwind
<1>8. CASE ExecRaises
  BY <1>8 DEF ExecRaises, Unwind, Result
<1>9. CASE Destroy
  BY <1>9 DEF Destroy
<1>10. CASE DestroyRaises
  BY <1>10 DEF DestroyRaises, Result
<1>11. CASE Unlink
  BY <1>11 DEF Unlink
<1>12. QED
  BY <1>1, <1>2, <1>3, <1>4, <1>5, <1>6, <1>7, <1>8, <1>9, <1>10, <1>11 DEF Coroutine

LEMMA StepLeft == LeftInv /\ [Next]_vars => LeftInv'
<1> SUFFICES ASSUME LeftInv, [Next]_vars PROVE LeftInv'
  OBVIOUS
<1>1. CASE Next
  BY <1>1, AgentLeft, CoroutineLeft DEF Next
<1>2. CASE UNCHANGED vars
  BY <1>2 DEF vars, config, LeftInv, EarlyInv, BoxInv, LiveInv, PolicyInv
<1>3. QED
  BY <1>1, <1>2

(* Whichever way delegate() is left, no policy file, sandbox or working    *)
(* agent remains, unless destroy itself failed (agents/kopicode.py 73-94,  *)
(* 119-129).                                                               *)
THEOREM LeavesNothing == Spec => []NothingLeftBehind
<1>1. LeftInv => NothingLeftBehind
  BY DEF LeftInv, LiveInv, PolicyInv, NothingLeftBehind
<1>2. QED
  BY InitLeft, StepLeft, <1>1, PTL DEF Spec

-----------------------------------------------------------------------------
(***************************************************************************)
(* Type correctness.                                                       *)
(***************************************************************************)
Events == [kind : EventKinds, path : Paths \cup {NoPath}, ok : BOOLEAN, flag : BOOLEAN]

Readings == [edited : SUBSET Paths, pending : Seq(Paths \cup {NoPath}),
             deny : BOOLEAN, end : Seq(Events), broken : BOOLEAN]

(* What delegate() would read if the stream ended here.                    *)
Told == Read(backend, stream)

ToldInv == Told \in Readings

(* Only edit_applied needs a path.                                         *)
LEMMA ReadsTyped ==
  ASSUME NEW who, NEW acc \in Readings, NEW e \in Events,
         e.kind = "edit_applied" => e.path \in Paths
  PROVE  Reads(who, acc, e) \in Readings
<1> USE DEF Readings, Events
<1>1. ClaudeReads(acc, e) \in Readings
  <2>1. {e.path} \ {NoPath} \subseteq Paths
    OBVIOUS
  <2>2. CASE e.kind = "tool_use" /\ e.flag
    BY <2>1, <2>2 DEF ClaudeReads
  <2>3. CASE e.kind = "result"
    <3>1. <<e>> \in Seq(Events)
      OBVIOUS
    <3>2. ClaudeReads(acc, e) = [acc EXCEPT !.end = <<e>>, !.deny = e.flag]
      BY <2>3 DEF ClaudeReads
    <3>3. QED
      BY <3>1, <3>2
  <2>4. CASE e.kind \notin {"tool_use", "result"} \/ (e.kind = "tool_use" /\ ~e.flag)
    BY <2>4 DEF ClaudeReads
  <2>5. QED
    BY <2>2, <2>3, <2>4
<1>2. KopicodeReads(acc, e) \in Readings
  <2>1. CASE e.kind = "tool_result" /\ e.flag /\ acc.pending # <<>>
    <3>1. Head(acc.pending) \in Paths \cup {NoPath} /\ Tail(acc.pending) \in Seq(Paths \cup {NoPath})
      BY <2>1
    <3>2. (IF e.ok THEN {Head(acc.pending)} \ {NoPath} ELSE {}) \subseteq Paths
      BY <3>1
    <3>3. QED
      BY <2>1, <3>1, <3>2 DEF KopicodeReads
  <2>2. CASE e.kind = "tool_result" /\ (~e.flag \/ acc.pending = <<>>)
    BY <2>2 DEF KopicodeReads
  <2>3. CASE e.kind = "edit_applied"
    BY <2>3 DEF KopicodeReads
  <2>4. CASE e.kind = "tool_call_parsed" /\ e.flag
    <3>1. Append(acc.pending, e.path) \in Seq(Paths \cup {NoPath})
      OBVIOUS
    <3>2. KopicodeReads(acc, e) = [acc EXCEPT !.pending = Append(@, e.path)]
      BY <2>4 DEF KopicodeReads
    <3>3. QED
      BY <3>1, <3>2
  <2>5. CASE e.kind = "permission_denied"
    BY <2>5 DEF KopicodeReads
  <2>6. CASE e.kind = "session_ended"
    <3>1. <<e>> \in Seq(Events)
      OBVIOUS
    <3>2. KopicodeReads(acc, e) = [acc EXCEPT !.end = <<e>>]
      BY <2>6 DEF KopicodeReads
    <3>3. QED
      BY <3>1, <3>2
  <2>7. CASE e.kind \in {"tool_use", "result", "malformed"} \/ (e.kind = "tool_call_parsed" /\ ~e.flag)
    BY <2>7 DEF KopicodeReads
  <2>8. QED
    BY <2>1, <2>2, <2>3, <2>4, <2>5, <2>6, <2>7 DEF EventKinds
<1>3. QED
  BY <1>1, <1>2 DEF Reads

LEMMA VerdictTyped ==
  ASSUME NEW who, NEW events, Read(who, events) \in Readings
  PROVE  Classify(who, events) \in [kind : Verdicts \cup Errors \cup {"none"}, edited : SUBSET Paths]
<1> DEFINE read == Read(who, events)
<1> HIDE DEF read
<1>1. read.edited \in SUBSET Paths
  BY DEF Readings, read
<1>2. KopicodeVerdict(read) \in [kind : Verdicts, edited : SUBSET Paths]
  BY <1>1 DEF KopicodeVerdict, Result, Verdicts
<1>3. ClaudeVerdict(read) \in [kind : Verdicts, edited : SUBSET Paths]
  BY <1>1 DEF ClaudeVerdict, Result, Verdicts
<1>4. QED
  BY <1>2, <1>3 DEF Classify, read, Result, Errors

LEMMA InitTyped == Init => TypeOK /\ ToldInv
<1> SUFFICES ASSUME Init PROVE TypeOK /\ ToldInv
  OBVIOUS
<1>1. TypeOK
  <2>1. result \in [kind : Verdicts \cup Errors \cup {"none"}, edited : SUBSET Paths]
    BY DEF Init, NoResult, Result
  <2>2. stream \in Seq(Events)
    BY DEF Init
  <2>3. QED
    BY <2>1, <2>2 DEF Init, TypeOK, Events
<1>2. Told = NothingRead
  BY ReadEmpty DEF Init, Told
<1>3. QED
  BY <1>1, <1>2 DEF ToldInv, NothingRead, Readings

(* What an event that is printed adds to what is read.                     *)
LEMMA PrintsTold ==
  ASSUME TypeOK, NEW e \in Events, Prints(e), backend' = backend
  PROVE  /\ stream' \in Seq(Events)
         /\ pc = "await" => Told' = Reads(backend, Told, e)
         /\ pc # "await" => Told' = Told
<1>1. stream \in Seq(Events)
  BY DEF TypeOK, Events
<1>2. CASE pc = "await"
  <2>1. stream' = Append(stream, e)
    BY <1>2 DEF Prints
  <2>2. Read(backend, Append(stream, e)) = Reads(backend, Read(backend, stream), e)
    BY <1>1, ReadAppend
  <2>3. QED
    BY <1>1, <1>2, <2>1, <2>2 DEF Told
<1>3. CASE pc # "await"
  BY <1>1, <1>3 DEF Prints, Told
<1>4. QED
  BY <1>2, <1>3

LEMMA SilentTold == ASSUME UNCHANGED <<backend, stream>> PROVE Told' = Told
BY DEF Told

LEMMA PrintsTyped ==
  ASSUME TypeOK, ToldInv, NEW e \in Events, Prints(e), backend' = backend,
         e.kind = "edit_applied" => e.path \in Paths
  PROVE  stream' \in Seq(Events) /\ ToldInv'
BY PrintsTold, ReadsTyped DEF ToldInv

(* Every step of the agent prints an event of its own kind or nothing.     *)
LEMMA AgentTyped == TypeOK /\ ToldInv /\ Agent => (TypeOK /\ ToldInv)'
<1> SUFFICES ASSUME TypeOK, ToldInv, Agent PROVE (TypeOK /\ ToldInv)'
  OBVIOUS
<1>1. ASSUME NEW p \in Paths, EditFile(p) PROVE (TypeOK /\ ToldInv)'
  <2> DEFINE e == Event("edit_applied", p, TRUE, FALSE)
  <2>1. e \in Events /\ e.path \in Paths
    BY DEF Event, Events, EventKinds
  <2>2. Prints(e) /\ backend' = backend
    BY <1>1 DEF EditFile, Outside, config
  <2>3. stream' \in Seq(Events) /\ ToldInv'
    BY <2>1, <2>2, PrintsTyped
  <2>4. QED
    BY <1>1, <2>3 DEF EditFile, Outside, config, TypeOK, Events
<1>2. ASSUME NEW p \in Paths \cup {NoPath}, StartTool(p) PROVE (TypeOK /\ ToldInv)'
  <2> DEFINE e == Event(IF backend = "kopicode" THEN "tool_call_parsed" ELSE "tool_use",
                        p, TRUE, TRUE)
  <2>1. e \in Events /\ e.kind # "edit_applied"
    BY DEF Event, Events, EventKinds
  <2>2. Prints(e) /\ backend' = backend
    BY <1>2 DEF StartTool, Outside, config
  <2>3. stream' \in Seq(Events) /\ ToldInv'
    BY <2>1, <2>2, PrintsTyped
  <2>4. QED
    BY <1>2, <2>3 DEF StartTool, Outside, config, TypeOK, Events
<1>3. ASSUME NEW b \in BOOLEAN, FinishTool(b) PROVE (TypeOK /\ ToldInv)'
  <2> DEFINE e == Event("tool_result", NoPath, b, TRUE)
  <2>1. e \in Events /\ e.kind # "edit_applied"
    BY DEF Event, Events, EventKinds
  <2>2. stream' \in Seq(Events) /\ ToldInv'
    <3>1. CASE backend = "kopicode"
      BY <1>3, <2>1, <3>1, PrintsTyped DEF FinishTool, Outside, config
    <3>2. CASE backend # "kopicode"
      BY <1>3, <3>2 DEF FinishTool, Outside, config, ToldInv, Told, TypeOK, Events
    <3>3. QED
      BY <3>1, <3>2
  <2>3. landed' \subseteq Paths
    BY <1>3 DEF FinishTool, TypeOK
  <2>4. QED
    BY <1>3, <2>2, <2>3 DEF FinishTool, Outside, config, TypeOK, Events
<1>4. ASSUME NEW b \in BOOLEAN, EndSession(b) PROVE (TypeOK /\ ToldInv)'
  <2> DEFINE e == IF backend = "kopicode" THEN Event("session_ended", NoPath, b, FALSE)
                  ELSE Event("result", NoPath, b, denied)
  <2>1. e \in Events /\ e.kind # "edit_applied"
    BY DEF Event, Events, EventKinds, TypeOK
  <2>2. Prints(e) /\ backend' = backend
    BY <1>4 DEF EndSession, Outside, config
  <2>3. stream' \in Seq(Events) /\ ToldInv'
    BY <2>1, <2>2, PrintsTyped
  <2>4. QED
    BY <1>4, <2>3 DEF EndSession, ExecEnds, Outside, config, TypeOK, Events
<1>5. CASE Deny
  <2> DEFINE e == Event("permission_denied", NoPath, FALSE, FALSE)
  <2>1. e \in Events /\ e.kind # "edit_applied"
    BY DEF Event, Events, EventKinds
  <2>2. stream' \in Seq(Events) /\ ToldInv'
    <3>1. CASE backend = "kopicode"
      BY <1>5, <2>1, <3>1, PrintsTyped DEF Deny, Outside, config
    <3>2. CASE backend # "kopicode"
      BY <1>5, <3>2 DEF Deny, Outside, config, ToldInv, Told, TypeOK, Events
    <3>3. QED
      BY <3>1, <3>2
  <2>3. QED
    BY <1>5, <2>2 DEF Deny, Outside, config, TypeOK, Events
<1>6. CASE Die
  <2>1. landed' \subseteq Paths
    BY <1>6 DEF Die, TypeOK
  <2>2. QED
    BY <1>6, <2>1 DEF Die, ExecEnds, Outside, config, TypeOK, ToldInv, Told
<1>7. CASE ContainerLost
  BY <1>7 DEF ContainerLost, ExecEnds, TypeOK, ToldInv, Told, config, session
<1>8. ASSUME NEW p \in Paths, UseOther(p) PROVE (TypeOK /\ ToldInv)'
  <2>1. PICK kind \in EventKinds \ {"edit_applied"} : Prints(Event(kind, p, TRUE, FALSE))
    BY <1>8 DEF UseOther, EventKinds
  <2> DEFINE e == Event(kind, p, TRUE, FALSE)
  <2>2. e \in Events /\ e.kind # "edit_applied"
    BY DEF Event, Events, EventKinds
  <2>3. stream' \in Seq(Events) /\ ToldInv'
    BY <1>8, <2>1, <2>2, PrintsTyped DEF UseOther, Outside, config
  <2>4. unseen' \subseteq Paths
    BY <1>8 DEF UseOther, TypeOK
  <2>5. QED
    BY <1>8, <2>3, <2>4 DEF UseOther, Outside, config, TypeOK, Events
<1>9. CASE Garble
  <2> DEFINE e == Event("malformed", NoPath, FALSE, FALSE)
  <2>1. e \in Events /\ e.kind # "edit_applied"
    BY DEF Event, Events, EventKinds
  <2>2. stream' \in Seq(Events) /\ ToldInv'
    BY <1>9, <2>1, PrintsTyped DEF Garble, Outside, config
  <2>3. QED
    BY <1>9, <2>2 DEF Garble, Outside, config, TypeOK, Events
<1>10. QED
  BY <1>1, <1>2, <1>3, <1>4, <1>5, <1>6, <1>7, <1>8, <1>9 DEF Agent

(* delegate() itself prints nothing; what it returns is a verdict or an    *)
(* error.                                                                  *)
LEMMA CoroutineTyped == TypeOK /\ ToldInv /\ Coroutine => (TypeOK /\ ToldInv)'
<1> SUFFICES ASSUME TypeOK, ToldInv, Coroutine PROVE (TypeOK /\ ToldInv)'
  OBVIOUS
<1> DEFINE Outcomes == [kind : Verdicts \cup Errors \cup {"none"}, edited : SUBSET Paths]
<1> USE DEF TypeOK, ToldInv, Told, config, session, Unwind
<1>1. Classify(backend, stream) \in Outcomes
  BY VerdictTyped
<1>2. \A x \in Errors : Result(x, {}) \in Outcomes
  BY DEF Result
<1>3. CASE Begin
  BY <1>3 DEF Begin
<1>4. CASE BinaryMissing
  BY <1>2, <1>4 DEF BinaryMissing, Errors
<1>5. CASE Create
  BY <1>5 DEF Create
<1>6. CASE CreateRaises
  BY <1>2, <1>6 DEF CreateRaises, Errors
<1>7. CASE Spawn
  BY <1>7 DEF Spawn
<1>8. CASE AwaitReturns
  BY <1>1, <1>8 DEF AwaitReturns
<1>9. CASE AwaitCut
  BY <1>1, <1>9 DEF AwaitCut
<1>10. CASE ExecRaises
  BY <1>2, <1>10 DEF ExecRaises, Errors
<1>11. CASE Destroy
  BY <1>11 DEF Destroy
<1>12. CASE DestroyRaises
  BY <1>2, <1>12 DEF DestroyRaises, Errors
<1>13. CASE Unlink
  BY <1>13 DEF Unlink
<1>14. QED
  BY <1>3, <1>4, <1>5, <1>6, <1>7, <1>8, <1>9, <1>10, <1>11, <1>12, <1>13 DEF Coroutine

LEMMA StepTyped == TypeOK /\ ToldInv /\ [Next]_vars => (TypeOK /\ ToldInv)'
<1> SUFFICES ASSUME TypeOK, ToldInv, [Next]_vars PROVE (TypeOK /\ ToldInv)'
  OBVIOUS
<1>1. CASE Next
  BY <1>1, AgentTyped, CoroutineTyped DEF Next
<1>2. CASE UNCHANGED vars
  BY <1>2 DEF vars, config, session, TypeOK, ToldInv, Told
<1>3. QED
  BY <1>1, <1>2

(* Every step keeps the types of delegate()'s state, of what the agent     *)
(* printed and of the outcome classify_stream makes of it.                 *)
THEOREM TypeCorrect == Spec => []TypeOK
BY InitTyped, StepTyped, PTL DEF Spec

-----------------------------------------------------------------------------
(***************************************************************************)
(* What the outcome says.  While somebody listens, what is read of a       *)
(* session that was not broken off is what the agent did.                  *)
(***************************************************************************)
Recording == pc = "await" /\ (agent = "working" \/ Told.end # <<>>)

(* Before the agent is started it has printed and changed nothing.         *)
SilentInv ==
  pc \in {"begin", "create", "spawn"} =>
    stream = <<>> /\ call = NoCall /\ ~denied /\ landed = {}

(* The event that ends a session is its agent's last.                      *)
OpenInv == agent # "exited" => Told.end = <<>>

(* The one call held back is the one the agent is in; a call that was      *)
(* denied will not succeed.                                                *)
PendingInv ==
  IF call = NoCall THEN Told.pending = <<>>
  ELSE \E p \in Paths \cup {NoPath} : Told.pending = <<p>> /\ call \in {p, NoPath}

KopicodeInv ==
  backend = "kopicode" /\ Recording =>
    /\ Told.edited = landed /\ Told.deny = denied
    /\ agent = "working" => PendingInv

(* Claude Code announces more than it changes.                             *)
ClaudeInv ==
  backend # "kopicode" /\ Recording =>
    /\ landed \subseteq Told.edited
    /\ agent = "working" /\ call \in Paths => call \in Told.edited
    /\ agent = "exited" => Told.deny = denied

(* No backend's completed session hides an edit of an edit tool.           *)
CompletedHidesNoEdit == result.kind = "completed" => landed \subseteq result.edited

(* Both backends report a denial, kopicode only where no edit landed.      *)
RefusedIsDenied ==
  result.kind \in Verdicts =>
    (result.kind = "refused") = (denied /\ (backend = "kopicode" => landed = {}))

ResultInv ==
  /\ pc \in {"begin", "create", "spawn", "await"} => result = NoResult
  /\ result.kind \in Verdicts => agent = "exited"
  /\ result.kind \notin Verdicts => result.edited = {}
  /\ KopicodeReportsItsEdits /\ CompletedHidesNoEdit /\ RecordedSessionIsNoError
  /\ RefusedIsDenied

VerdictInv ==
  SilentInv /\ OpenInv /\ KopicodeInv /\ ClaudeInv /\ ResultInv

LEMMA InitVerdict == Init => VerdictInv
<1> SUFFICES ASSUME Init PROVE VerdictInv
  OBVIOUS
<1>1. Told = NothingRead
  BY ReadEmpty DEF Init, Told
<1>2. SilentInv /\ OpenInv /\ KopicodeInv /\ ClaudeInv
  BY <1>1 DEF Init, SilentInv, OpenInv, KopicodeInv, ClaudeInv, Recording, NothingRead
<1>3. ResultInv
  BY DEF Init, ResultInv, NoResult, Result, Verdicts, KopicodeReportsItsEdits,
         CompletedHidesNoEdit, RecordedSessionIsNoError, RefusedIsDenied
<1>4. QED
  BY <1>2, <1>3 DEF VerdictInv

(* No outcome exists while delegate() waits for the agent.                 *)
LEMMA NoOutcomeYet ==
  ASSUME result = NoResult, agent = "working", pc = "await", UNCHANGED <<pc, result>>
  PROVE  ResultInv'
BY DEF ResultInv, NoResult, Result, Verdicts, KopicodeReportsItsEdits,
       CompletedHidesNoEdit, RecordedSessionIsNoError, RefusedIsDenied

(* After docker exec was cut off the agent is not heard any more.          *)
LEMMA Unheard ==
  ASSUME EarlyInv, VerdictInv, agent = "working", pc # "await",
         UNCHANGED Outside, agent' \in {"working", "exited"}, UNCHANGED stream
  PROVE  VerdictInv'
<1> USE DEF VerdictInv, Outside, config
<1>1. Told' = Told
  BY SilentTold
<1>2. SilentInv'
  BY DEF SilentInv, EarlyInv
<1>3. OpenInv' /\ KopicodeInv' /\ ClaudeInv'
  BY <1>1 DEF OpenInv, KopicodeInv, ClaudeInv, Recording, EarlyInv
<1>4. ~(result.kind \in Verdicts) /\ Told.end = <<>>
  BY DEF ResultInv, OpenInv
<1>5. ResultInv'
  BY <1>1, <1>4 DEF ResultInv, KopicodeReportsItsEdits, CompletedHidesNoEdit,
                    RecordedSessionIsNoError, RefusedIsDenied, EarlyInv, Told, Verdicts
<1>6. QED
  BY <1>2, <1>3, <1>5

(* Whoever listens need only compare what is read with what was done.      *)
LEMMA Heard ==
  ASSUME EarlyInv, VerdictInv, agent = "working", pc = "await", UNCHANGED Outside,
         OpenInv', KopicodeInv', ClaudeInv'
  PROVE  VerdictInv'
<1> USE DEF VerdictInv, Outside, config
<1>1. SilentInv'
  BY DEF SilentInv
<1>2. ResultInv'
  BY NoOutcomeYet DEF ResultInv
<1>3. QED
  BY <1>1, <1>2

(* Of a session that is broken off the last event is missing.              *)
LEMMA BrokenOff ==
  ASSUME EarlyInv, VerdictInv, Die \/ ContainerLost
  PROVE  VerdictInv'
<1> USE DEF VerdictInv
<1>1. Told' = Told /\ Told.end = <<>> /\ agent = "working" /\ agent' = "exited"
      /\ UNCHANGED <<backend, pc, result, stream>>
  BY SilentTold DEF Die, ContainerLost, Outside, config, session, OpenInv
<1>2. SilentInv' /\ OpenInv' /\ KopicodeInv' /\ ClaudeInv'
  BY <1>1 DEF SilentInv, OpenInv, KopicodeInv, ClaudeInv, Recording, EarlyInv
<1>3. ~(result.kind \in Verdicts)
  BY <1>1 DEF ResultInv
<1>4. ResultInv'
  BY <1>1, <1>3 DEF ResultInv, KopicodeReportsItsEdits, CompletedHidesNoEdit,
                    RecordedSessionIsNoError, RefusedIsDenied, Told, Verdicts
<1>5. QED
  BY <1>2, <1>4

(* What classify_stream skips: another tool's lines, and lines that are no *)
(* events.                                                                 *)
Skips == Garble \/ \E p \in Paths : UseOther(p)

LEMMA SkipsTold ==
  ASSUME TypeOK, ToldInv, Skips, pc = "await"
  PROVE  /\ Told'.edited = Told.edited /\ Told'.pending = Told.pending
         /\ Told'.deny = Told.deny /\ Told'.end = Told.end
         /\ UNCHANGED <<Outside, agent, call, denied, landed>> /\ agent = "working"
<1>1. Told \in Readings
  BY DEF ToldInv
<1>2. CASE Garble
  <2> DEFINE e == Event("malformed", NoPath, FALSE, FALSE)
  <2>1. e \in Events
    BY DEF Event, Events, EventKinds
  <2>2. Told' = Reads(backend, Told, e)
    BY <1>2, <2>1, PrintsTold DEF Garble, Outside, config
  <2>3. Told' = [Told EXCEPT !.broken = TRUE]
    BY <2>2 DEF Reads, Event
  <2>4. QED
    BY <1>1, <1>2, <2>3 DEF Readings, Garble, Working
<1>3. ASSUME NEW p \in Paths, UseOther(p)
      PROVE  Told' = Told /\ UNCHANGED <<Outside, agent, call, denied, landed>> /\ agent = "working"
  <2>1. PICK kind \in {"tool_call_parsed", "tool_result", "tool_use"} :
          Prints(Event(kind, p, TRUE, FALSE))
    BY <1>3 DEF UseOther
  <2> DEFINE e == Event(kind, p, TRUE, FALSE)
  <2>2. e \in Events /\ e.kind = kind /\ ~e.flag
    BY DEF Event, Events, EventKinds
  <2>3. Told' = Reads(backend, Told, e)
    BY <1>3, <2>1, <2>2, PrintsTold DEF UseOther, Outside, config
  <2> HIDE DEF e
  <2>4. Told' = Told
    BY <2>2, <2>3 DEF Reads, KopicodeReads, ClaudeReads
  <2>5. QED
    BY <1>3, <2>4 DEF UseOther, Working
<1>4. QED
  BY <1>2, <1>3 DEF Skips

(* kopicode tells of each thing it does.                                   *)
LEMMA KopicodeTells ==
  ASSUME TypeOK, ToldInv, EarlyInv, VerdictInv, backend = "kopicode", Agent, pc = "await"
  PROVE  VerdictInv'
<1> USE DEF VerdictInv, Outside, config
<1>1. Told \in Readings /\ stream \in Seq(Events)
  BY DEF ToldInv, TypeOK, Events
<1>2. agent = "working" => /\ Told.end = <<>> /\ Told.edited = landed /\ Told.deny = denied
                           /\ PendingInv
  BY DEF OpenInv, KopicodeInv, Recording
<1>3. ASSUME NEW p \in Paths, EditFile(p) PROVE VerdictInv'
  <2> DEFINE e == Event("edit_applied", p, TRUE, FALSE)
  <2>1. e \in Events
    BY DEF Event, Events, EventKinds
  <2>2. Told' = Reads(backend, Told, e)
    BY <1>3, <2>1, PrintsTold DEF EditFile
  <2>3. Told' = [Told EXCEPT !.edited = @ \cup {p}]
    BY <2>2 DEF Reads, KopicodeReads, Event
  <2>4. Told'.edited = landed \cup {p} /\ Told'.pending = Told.pending
        /\ Told'.deny = denied /\ Told'.end = <<>>
    BY <1>1, <1>2, <1>3, <2>3 DEF Readings, EditFile, Working
  <2>5. OpenInv' /\ KopicodeInv' /\ ClaudeInv'
    BY <1>2, <1>3, <2>4 DEF EditFile, OpenInv, KopicodeInv, ClaudeInv, PendingInv
  <2>6. QED
    BY <1>3, <2>5, Heard DEF EditFile, Working
<1>4. ASSUME NEW p \in Paths \cup {NoPath}, StartTool(p) PROVE VerdictInv'
  <2> DEFINE e == Event("tool_call_parsed", p, TRUE, TRUE)
  <2>1. e \in Events
    BY DEF Event, Events, EventKinds
  <2>2. Told' = Reads(backend, Told, e)
    BY <1>4, <2>1, PrintsTold DEF StartTool
  <2>3. Told' = [Told EXCEPT !.pending = Append(@, p)]
    BY <2>2 DEF Reads, KopicodeReads, Event
  <2>4. Told.pending = <<>>
    BY <1>2, <1>4 DEF StartTool, Working, PendingInv
  <2>5. Told'.pending = <<p>>
    BY <1>1, <2>3, <2>4 DEF Readings
  <2>6. Told'.edited = landed /\ Told'.deny = denied /\ Told'.end = <<>>
    BY <1>1, <1>2, <1>4, <2>3 DEF Readings, StartTool, Working
  <2>7. p # NoCall
    BY DelegationAssumption
  <2>8. OpenInv' /\ KopicodeInv' /\ ClaudeInv'
    BY <1>4, <2>5, <2>6, <2>7 DEF StartTool, OpenInv, KopicodeInv, ClaudeInv, PendingInv
  <2>9. QED
    BY <1>4, <2>8, Heard DEF StartTool, Working
<1>5. ASSUME NEW b \in BOOLEAN, FinishTool(b) PROVE VerdictInv'
  <2> DEFINE e == Event("tool_result", NoPath, b, TRUE)
  <2>1. e \in Events
    BY DEF Event, Events, EventKinds
  <2>2. Told' = Reads(backend, Told, e)
    BY <1>5, <2>1, PrintsTold DEF FinishTool
  <2>3. PICK p \in Paths \cup {NoPath} : Told.pending = <<p>> /\ call \in {p, NoPath}
    BY <1>2, <1>5 DEF FinishTool, PendingInv
  <2>4. Told.pending # <<>> /\ Head(Told.pending) = p /\ Tail(Told.pending) = <<>>
    BY <2>3
  <2>5. Told' = [Told EXCEPT !.pending = <<>>,
                             !.edited = @ \cup IF b THEN {p} \ {NoPath} ELSE {}]
    BY <2>2, <2>4 DEF Reads, KopicodeReads, Event
  <2>6. b => call = p /\ p # NoPath
    BY <1>5, <2>3 DEF FinishTool
  <2>7. Told'.edited = landed' /\ Told'.pending = <<>>
        /\ Told'.deny = denied /\ Told'.end = <<>>
    BY <1>1, <1>2, <1>5, <2>5, <2>6 DEF Readings, FinishTool
  <2>8. OpenInv' /\ KopicodeInv' /\ ClaudeInv'
    BY <1>5, <2>7 DEF FinishTool, OpenInv, KopicodeInv, ClaudeInv, PendingInv
  <2>9. QED
    BY <1>5, <2>8, Heard DEF FinishTool
<1>6. ASSUME NEW b \in BOOLEAN, EndSession(b) PROVE VerdictInv'
  <2> DEFINE e == Event("session_ended", NoPath, b, FALSE)
  <2>1. e \in Events
    BY DEF Event, Events, EventKinds
  <2>2. Told' = Reads(backend, Told, e)
    BY <1>6, <2>1, PrintsTold DEF EndSession
  <2>3. Told' = [Told EXCEPT !.end = <<e>>]
    BY <2>2 DEF Reads, KopicodeReads, Event
  <2>4. Told'.edited = landed /\ Told'.deny = denied
    BY <1>1, <1>2, <1>6, <2>3 DEF Readings, EndSession
  <2>5. OpenInv' /\ KopicodeInv' /\ ClaudeInv'
    BY <1>6, <2>4 DEF EndSession, OpenInv, KopicodeInv, ClaudeInv
  <2>6. QED
    BY <1>6, <2>5, Heard DEF EndSession
<1>7. CASE Deny
  <2> DEFINE e == Event("permission_denied", NoPath, FALSE, FALSE)
  <2>1. e \in Events
    BY DEF Event, Events, EventKinds
  <2>2. Told' = Reads(backend, Told, e)
    BY <1>7, <2>1, PrintsTold DEF Deny
  <2>3. Told' = [Told EXCEPT !.deny = TRUE]
    BY <2>2 DEF Reads, KopicodeReads, Event
  <2>4. Told'.edited = landed /\ Told'.pending = Told.pending
        /\ Told'.deny = TRUE /\ Told'.end = <<>>
    BY <1>1, <1>2, <1>7, <2>3 DEF Readings, Deny, Working
  <2>5. PendingInv'
    BY <1>2, <1>7, <2>4, DelegationAssumption DEF Deny, Working, PendingInv
  <2>6. OpenInv' /\ KopicodeInv' /\ ClaudeInv'
    BY <1>7, <2>4, <2>5 DEF Deny, OpenInv, KopicodeInv, ClaudeInv
  <2>7. QED
    BY <1>7, <2>6, Heard DEF Deny, Working
<1>8. CASE Die \/ ContainerLost
  BY <1>8, BrokenOff
<1>9. ASSUME Skips PROVE VerdictInv'
  <2>1. Told'.edited = landed /\ Told'.pending = Told.pending
        /\ Told'.deny = denied /\ Told'.end = <<>> /\ agent = "working"
        /\ UNCHANGED <<Outside, agent, call, denied, landed>>
    BY <1>2, <1>9, SkipsTold
  <2>2. OpenInv' /\ KopicodeInv' /\ ClaudeInv'
    BY <1>2, <2>1 DEF OpenInv, KopicodeInv, ClaudeInv, PendingInv
  <2>3. QED
    BY <2>1, <2>2, Heard
<1>10. QED
  BY <1>3, <1>4, <1>5, <1>6, <1>7, <1>8, <1>9 DEF Agent, Skips

(* Claude Code tells of an edit before it makes it and of denials at the   *)
(* end.                                                                    *)
LEMMA ClaudeTells ==
  ASSUME TypeOK, ToldInv, EarlyInv, VerdictInv, backend # "kopicode", Agent, pc = "await"
  PROVE  VerdictInv'
<1> USE DEF VerdictInv, Outside, config
<1>1. Told \in Readings /\ stream \in Seq(Events)
  BY DEF ToldInv, TypeOK, Events
<1>2. agent = "working" => /\ Told.end = <<>> /\ landed \subseteq Told.edited
                           /\ call \in Paths => call \in Told.edited
  BY DEF OpenInv, ClaudeInv, Recording
<1>3. ASSUME NEW p \in Paths \cup {NoPath}, StartTool(p) PROVE VerdictInv'
  <2> DEFINE e == Event("tool_use", p, TRUE, TRUE)
  <2>1. e \in Events
    BY DEF Event, Events, EventKinds
  <2>2. Told' = Reads(backend, Told, e)
    BY <1>3, <2>1, PrintsTold DEF StartTool
  <2>3. Told' = [Told EXCEPT !.edited = @ \cup ({p} \ {NoPath})]
    BY <2>2 DEF Reads, ClaudeReads, Event
  <2>4. Told'.edited = Told.edited \cup ({p} \ {NoPath}) /\ Told'.end = <<>>
    BY <1>1, <1>2, <1>3, <2>3 DEF Readings, StartTool, Working
  <2>5. OpenInv' /\ KopicodeInv' /\ ClaudeInv'
    BY <1>2, <1>3, <2>4, DelegationAssumption
       DEF StartTool, Working, OpenInv, KopicodeInv, ClaudeInv
  <2>6. QED
    BY <1>3, <2>5, Heard DEF StartTool, Working
<1>4. ASSUME NEW b \in BOOLEAN, FinishTool(b) PROVE VerdictInv'
  <2>1. Told' = Told
    BY <1>4, SilentTold DEF FinishTool
  <2>2. landed' \subseteq Told.edited
    BY <1>2, <1>4 DEF FinishTool, TypeOK
  <2>3. OpenInv' /\ KopicodeInv' /\ ClaudeInv'
    BY <1>2, <1>4, <2>1, <2>2, DelegationAssumption
       DEF FinishTool, OpenInv, KopicodeInv, ClaudeInv
  <2>4. QED
    BY <1>4, <2>3, Heard DEF FinishTool
<1>5. ASSUME NEW b \in BOOLEAN, EndSession(b) PROVE VerdictInv'
  <2> DEFINE e == Event("result", NoPath, b, denied)
  <2>1. e \in Events
    BY DEF Event, Events, EventKinds, TypeOK
  <2>2. Told' = Reads(backend, Told, e)
    BY <1>5, <2>1, PrintsTold DEF EndSession
  <2>3. Told' = [Told EXCEPT !.end = <<e>>, !.deny = denied]
    BY <2>2 DEF Reads, ClaudeReads, Event
  <2>4. Told'.edited = Told.edited /\ Told'.deny = denied
    BY <1>1, <2>3 DEF Readings
  <2>5. OpenInv' /\ KopicodeInv' /\ ClaudeInv'
    BY <1>2, <1>5, <2>4 DEF EndSession, OpenInv, KopicodeInv, ClaudeInv
  <2>6. QED
    BY <1>5, <2>5, Heard DEF EndSession
<1>6. CASE Deny
  <2>1. Told' = Told
    BY <1>6, SilentTold DEF Deny
  <2>2. OpenInv' /\ KopicodeInv' /\ ClaudeInv'
    BY <1>2, <1>6, <2>1, DelegationAssumption
       DEF Deny, Working, OpenInv, KopicodeInv, ClaudeInv
  <2>3. QED
    BY <1>6, <2>2, Heard DEF Deny, Working
<1>7. CASE Die \/ ContainerLost
  BY <1>7, BrokenOff
<1>8. ~ \E p \in Paths : EditFile(p)
  BY DEF EditFile
<1>9. ASSUME Skips PROVE VerdictInv'
  <2>1. Told'.edited = Told.edited /\ Told'.end = <<>> /\ agent = "working"
        /\ UNCHANGED <<Outside, agent, call, denied, landed>>
    BY <1>2, <1>9, SkipsTold
  <2>2. OpenInv' /\ KopicodeInv' /\ ClaudeInv'
    BY <1>2, <2>1 DEF OpenInv, KopicodeInv, ClaudeInv
  <2>3. QED
    BY <2>1, <2>2, Heard
<1>10. QED
  BY <1>3, <1>4, <1>5, <1>6, <1>7, <1>8, <1>9 DEF Agent, Skips

LEMMA AgentVerdict ==
  ASSUME TypeOK, ToldInv, EarlyInv, VerdictInv, Agent PROVE VerdictInv'
<1>1. CASE pc = "await"
  BY <1>1, KopicodeTells, ClaudeTells
<1>2. CASE pc # "await"
  <2>1. CASE Die \/ ContainerLost
    BY <2>1, BrokenOff
  <2>2. CASE ~(Die \/ ContainerLost)
    <3> DEFINE Ignored == /\ agent = "working" /\ agent' \in {"working", "exited"}
                          /\ UNCHANGED Outside /\ UNCHANGED stream
    <3>1. Ignored
      <4>1. ASSUME NEW p \in Paths, EditFile(p) PROVE Ignored
        BY <1>2, <4>1 DEF EditFile, Working, Prints, Outside
      <4>2. ASSUME NEW p \in Paths \cup {NoPath}, StartTool(p) PROVE Ignored
        BY <1>2, <4>2 DEF StartTool, Working, Prints, Outside
      <4>3. ASSUME NEW b \in BOOLEAN, FinishTool(b) PROVE Ignored
        BY <1>2, <4>3 DEF FinishTool, Prints, Outside
      <4>4. ASSUME NEW b \in BOOLEAN, EndSession(b) PROVE Ignored
        BY <1>2, <4>4 DEF EndSession, Prints, Outside
      <4>5. CASE Deny
        BY <1>2, <4>5 DEF Deny, Working, Prints, Outside
      <4>6. CASE Skips
        BY <1>2, <4>6 DEF Skips, Garble, UseOther, Working, Prints, Outside
      <4>7. QED
        BY <2>2, <4>1, <4>2, <4>3, <4>4, <4>5, <4>6 DEF Agent, Skips
    <3>2. QED
      BY <1>2, <3>1, Unheard
  <2>3. QED
    BY <2>1, <2>2
<1>3. QED
  BY <1>1, <1>2

(* The verdict is taken of a session recorded to its end, whose agent is   *)
(* gone, or is an error.                                                   *)
LEMMA VerdictIsTold ==
  ASSUME TypeOK, ToldInv, VerdictInv, pc = "await", agent \in {"working", "exited"},
         result' = Classify(backend, stream),
         UNCHANGED <<backend, agent, session>>, pc' \in {"destroy", "unlink"}
  PROVE  ResultInv'
<1> USE DEF VerdictInv
<1>1. Told' = Told /\ landed' = landed /\ denied' = denied
  BY SilentTold DEF session
<1>2. CASE Told.broken \/ Told.end = <<>>
  <2>1. result' = Result("DelegationError", {})
    BY <1>2 DEF Classify, Told
  <2>2. QED
    BY <1>1, <1>2, <2>1
       DEF Result, ResultInv, KopicodeReportsItsEdits, CompletedHidesNoEdit, Verdicts,
           RecordedSessionIsNoError, RefusedIsDenied, Told
<1>3. CASE ~Told.broken /\ Told.end # <<>> /\ backend = "kopicode"
  <2>1. agent = "exited" /\ Told.edited = landed /\ Told.deny = denied
    BY <1>3 DEF OpenInv, KopicodeInv, Recording
  <2>2. result' = KopicodeVerdict(Told)
    BY <1>3 DEF Classify, Told
  <2>3. /\ result'.kind \in Verdicts
        /\ result'.edited = landed
        /\ result'.kind = "refused" <=> denied /\ landed = {}
    BY <2>1, <2>2 DEF KopicodeVerdict, Result, Verdicts
  <2>4. QED
    BY <1>1, <1>3, <2>1, <2>3
       DEF ResultInv, KopicodeReportsItsEdits, CompletedHidesNoEdit, Verdicts,
           RecordedSessionIsNoError, RefusedIsDenied, TypeOK
<1>4. CASE ~Told.broken /\ Told.end # <<>> /\ backend # "kopicode"
  <2>1. agent = "exited" /\ landed \subseteq Told.edited /\ Told.deny = denied
    BY <1>4 DEF OpenInv, ClaudeInv, Recording
  <2>2. result' = ClaudeVerdict(Told)
    BY <1>4 DEF Classify, Told
  <2>3. /\ result'.kind \in Verdicts
        /\ result'.kind = "completed" => result'.edited = Told.edited
        /\ result'.kind = "refused" <=> denied
    BY <2>1, <2>2 DEF ClaudeVerdict, Result, Verdicts
  <2>4. QED
    BY <1>1, <1>4, <2>1, <2>3
       DEF ResultInv, KopicodeReportsItsEdits, CompletedHidesNoEdit, Verdicts,
           RecordedSessionIsNoError, RefusedIsDenied, TypeOK
<1>5. QED
  BY <1>2, <1>3, <1>4

(* delegate() adds no line of its own to the stream.                       *)
LEMMA CoroutineVerdict ==
  ASSUME TypeOK, ToldInv, EarlyInv, BoxInv, VerdictInv, Coroutine
  PROVE  VerdictInv'
<1> USE DEF VerdictInv, Unwind
<1>1. Told' = Told /\ UNCHANGED <<config, session>>
  BY SilentTold DEF Coroutine, Begin, BinaryMissing, Create, CreateRaises, Spawn, AwaitReturns,
     AwaitCut, ExecRaises, Destroy, DestroyRaises, Unlink, config, session
<1>3. CASE Begin \/ Create
  <2>1. SilentInv' /\ OpenInv' /\ KopicodeInv' /\ ClaudeInv'
    BY <1>1, <1>3 DEF Begin, Create, config, session, SilentInv, OpenInv, KopicodeInv,
                      ClaudeInv, Recording
  <2>2. ResultInv'
    BY <1>1, <1>3 DEF Begin, Create, config, session, ResultInv, NoResult, Result, Verdicts,
       KopicodeReportsItsEdits, CompletedHidesNoEdit, RecordedSessionIsNoError, RefusedIsDenied
  <2>3. QED
    BY <2>1, <2>2
<1>4. CASE BinaryMissing \/ CreateRaises
  <2>1. SilentInv' /\ OpenInv' /\ KopicodeInv' /\ ClaudeInv'
    BY <1>1, <1>4 DEF BinaryMissing, CreateRaises, config, session, SilentInv, OpenInv,
                      KopicodeInv, ClaudeInv, Recording
  <2>2. Told.end = <<>>
    BY <1>4 DEF BinaryMissing, CreateRaises, EarlyInv, OpenInv
  <2>3. ResultInv'
    BY <1>1, <1>4, <2>2 DEF BinaryMissing, CreateRaises, config, session, ResultInv, Result,
       Verdicts, Told, KopicodeReportsItsEdits, CompletedHidesNoEdit,
       RecordedSessionIsNoError, RefusedIsDenied
  <2>4. QED
    BY <2>1, <2>3
<1>5. CASE Spawn
  <2>1. stream = <<>> /\ call = NoCall /\ ~denied /\ landed = {}
    BY <1>5 DEF Spawn, SilentInv
  <2>2. /\ Told'.edited = {} /\ Told'.pending = <<>>
        /\ Told'.deny = FALSE /\ Told'.end = <<>>
    BY <1>1, <2>1, ReadEmpty DEF Told, NothingRead
  <2>3. call' = NoCall /\ denied' = FALSE /\ landed' = {}
    BY <1>1, <2>1, <1>5 DEF session, TypeOK
  <2>4. PendingInv'
    BY <2>2, <2>3 DEF PendingInv
  <2>5. KopicodeInv' /\ ClaudeInv'
    BY <2>2, <2>3, <2>4, DelegationAssumption DEF KopicodeInv, ClaudeInv
  <2>6. SilentInv' /\ OpenInv'
    BY <1>1, <1>5, <2>2 DEF Spawn, SilentInv, OpenInv
  <2>7. ResultInv'
    BY <1>1, <1>5 DEF Spawn, config, session, ResultInv, NoResult, Result, Verdicts,
       KopicodeReportsItsEdits, CompletedHidesNoEdit, RecordedSessionIsNoError, RefusedIsDenied
  <2>8. QED
    BY <2>5, <2>6, <2>7
<1>6. CASE AwaitReturns \/ AwaitCut
  <2>1. SilentInv' /\ OpenInv' /\ KopicodeInv' /\ ClaudeInv'
    BY <1>1, <1>6 DEF AwaitReturns, AwaitCut, config, session, SilentInv, OpenInv,
                      KopicodeInv, ClaudeInv, Recording
  <2>2. ResultInv'
    BY <1>1, <1>6, VerdictIsTold DEF AwaitReturns, AwaitCut, config
  <2>3. QED
    BY <2>1, <2>2
<1>7. CASE ExecRaises
  <2>1. SilentInv' /\ OpenInv' /\ KopicodeInv' /\ ClaudeInv'
    BY <1>1, <1>7 DEF ExecRaises, config, session, SilentInv, OpenInv, KopicodeInv,
                      ClaudeInv, Recording
  <2>2. missing' /\ sandbox' # "none"
    BY <1>1, <1>7 DEF ExecRaises, config
  <2>3. ResultInv'
    BY <1>1, <1>7, <2>2 DEF ExecRaises, config, session, ResultInv, Result, Verdicts, Told,
       KopicodeReportsItsEdits, CompletedHidesNoEdit, RecordedSessionIsNoError, RefusedIsDenied
  <2>4. QED
    BY <2>1, <2>3
<1>8. CASE Destroy \/ DestroyRaises \/ Unlink
  <2>1. SilentInv' /\ OpenInv' /\ KopicodeInv' /\ ClaudeInv'
    BY <1>1, <1>8 DEF Destroy, DestroyRaises, Unlink, config, session, SilentInv, OpenInv,
                      KopicodeInv, ClaudeInv, Recording
  <2>2. ResultInv'
    BY <1>1, <1>8 DEF Destroy, DestroyRaises, Unlink, config, session, ResultInv, Result,
       Verdicts, Told, KopicodeReportsItsEdits, CompletedHidesNoEdit,
       RecordedSessionIsNoError, RefusedIsDenied
  <2>3. QED
    BY <2>1, <2>2
<1>9. QED
  BY <1>3, <1>4, <1>5, <1>6, <1>7, <1>8 DEF Coroutine

DelegationInv == TypeOK /\ ToldInv /\ LeftInv /\ VerdictInv

LEMMA DelegationInvariant == Spec => []DelegationInv
<1>1. Init => DelegationInv
  BY InitTyped, InitLeft, InitVerdict DEF DelegationInv
<1>2. DelegationInv /\ [Next]_vars => DelegationInv'
  <2> SUFFICES ASSUME DelegationInv, [Next]_vars PROVE DelegationInv'
    OBVIOUS
  <2> USE DEF DelegationInv
  <2>1. (TypeOK /\ ToldInv)' /\ LeftInv'
    BY StepTyped, StepLeft
  <2>2. VerdictInv'
    <3>1. CASE Next
      BY <3>1, AgentVerdict, CoroutineVerdict DEF Next, LeftInv
    <3>2. CASE UNCHANGED vars
      BY <3>2 DEF vars, config, session, VerdictInv, SilentInv, OpenInv, KopicodeInv, ClaudeInv,
         ResultInv, Recording, PendingInv, Told, KopicodeReportsItsEdits,
         CompletedHidesNoEdit, RecordedSessionIsNoError, RefusedIsDenied
    <3>3. QED
      BY <3>1, <3>2
  <2>3. QED
    BY <2>1, <2>2
<1>3. QED
  BY <1>1, <1>2, PTL DEF Spec

(* A verdict on a kopicode session names exactly the files that changed    *)
(* (delegate/kopicode.py 41-47, 70-133).                                   *)
THEOREM KopicodeEdits == Spec => []KopicodeReportsItsEdits
<1>1. DelegationInv => KopicodeReportsItsEdits
  BY DEF DelegationInv, VerdictInv, ResultInv
<1>2. QED
  BY <1>1, DelegationInvariant, PTL

(* A session recorded to its end is never taken for none (agents/          *)
(* outcome.py 17-24).                                                      *)
THEOREM RecordedIsOutcome == Spec => []RecordedSessionIsNoError
<1>1. DelegationInv => RecordedSessionIsNoError
  BY DEF DelegationInv, VerdictInv, ResultInv
<1>2. QED
  BY <1>1, DelegationInvariant, PTL

(* A verdict is refused exactly if the gate denied something and, under    *)
(* kopicode, no edit landed (delegate/kopicode.py 109-121, claude_code.py  *)
(* 144-159): what agents/outcome.py 35-36 says of a refusal holds of       *)
(* kopicode's.                                                             *)
THEOREM RefusalsAreDenials == Spec => []RefusedIsDenied
<1>1. DelegationInv => RefusedIsDenied
  BY DEF DelegationInv, VerdictInv, ResultInv
<1>2. QED
  BY <1>1, DelegationInvariant, PTL

-----------------------------------------------------------------------------
(***************************************************************************)
(* The refinement of AgentCall.  The workflow is answered when Unlink is   *)
(* through; whatever the agent does is work before the answer, or after    *)
(* that of a sandbox that could not be removed.                            *)
(***************************************************************************)
LEMMA AgentWorks ==
  ASSUME DelegationInv, TypeOK', Agent
  PROVE  Call!Work
<1> USE DEF DelegationInv
<1>1. agent = "working" /\ UNCHANGED <<pc, result>> /\ landed \subseteq landed'
      /\ unseen \subseteq unseen' /\ (denied => denied')
  <2> DEFINE Works == agent = "working" /\ UNCHANGED <<pc, result>> /\ landed \subseteq landed'
                      /\ unseen \subseteq unseen' /\ (denied => denied')
  <2> USE DEF Outside, Working, session
  <2>1. ASSUME NEW p \in Paths, EditFile(p) PROVE Works
    BY <2>1 DEF EditFile
  <2>2. ASSUME NEW p \in Paths \cup {NoPath}, StartTool(p) PROVE Works
    BY <2>2 DEF StartTool
  <2>3. ASSUME NEW b \in BOOLEAN, FinishTool(b) PROVE Works
    BY <2>3 DEF FinishTool
  <2>4. ASSUME NEW b \in BOOLEAN, EndSession(b) PROVE Works
    BY <2>4 DEF EndSession
  <2>5. CASE Deny
    BY <2>5 DEF Deny
  <2>6. CASE Die
    <3>1. landed \subseteq landed'
      BY <2>6 DEF Die
    <3>2. QED
      BY <2>6, <3>1 DEF Die
  <2>7. CASE ContainerLost
    BY <2>7 DEF ContainerLost
  <2>8. ASSUME NEW p \in Paths, UseOther(p) PROVE Works
    <3>1. unseen \subseteq unseen'
      BY <2>8 DEF UseOther
    <3>2. QED
      BY <2>8, <3>1 DEF UseOther
  <2>9. CASE Garble
    BY <2>9 DEF Garble
  <2>10. QED
    BY <2>1, <2>2, <2>3, <2>4, <2>5, <2>6, <2>7, <2>8, <2>9 DEF Agent
<1>2. answered.kind \in {"none", "SandboxError"} /\ UNCHANGED answered
  BY <1>1 DEF answered, LeftInv, LiveInv, NoResult, Result
<1>3. landed' \in SUBSET Paths /\ unseen' \in SUBSET Paths /\ denied' \in BOOLEAN
  BY DEF TypeOK
<1>4. QED
  BY <1>1, <1>2, <1>3 DEF Call!Work

LEMMA UnlinkAnswers ==
  ASSUME DelegationInv, Unlink
  PROVE  Call!Returns \/ Call!Raises \/ UNCHANGED Call!vars
<1> USE DEF DelegationInv
<1>1. /\ answered = Call!NoAnswer /\ answered' = result
      /\ UNCHANGED <<landed, unseen, denied>>
  BY DEF Unlink, answered, NoResult, Result, Call!NoAnswer, session
<1>2. /\ result \in [kind : Verdicts \cup Errors \cup {"none"}, edited : SUBSET Paths]
      /\ result.kind \notin Verdicts => result.edited = {}
      /\ CompletedHidesNoEdit /\ RefusedIsDenied
  BY DEF TypeOK, VerdictInv, ResultInv
<1>3. CASE result.kind \in Verdicts
  <2>1. result \in [kind : {"completed", "refused", "failed"}, edited : SUBSET Paths]
    BY <1>2, <1>3 DEF Verdicts
  <2>2. result.kind = "refused" => denied
    BY <1>2, <1>3 DEF RefusedIsDenied, TypeOK
  <2>3. QED
    BY <1>1, <1>2, <2>1, <2>2 DEF Call!Returns, CompletedHidesNoEdit
<1>4. CASE result.kind \in Errors
  <2>1. result \in [kind : {"DelegationError", "SandboxError"}, edited : {{}}]
    BY <1>2, <1>4 DEF Verdicts, Errors
  <2>2. QED
    BY <1>1, <2>1 DEF Call!Raises
<1>5. CASE result.kind = "none"
  <2>1. result = Call!NoAnswer
    BY <1>2, <1>5 DEF Verdicts, Call!NoAnswer
  <2>2. QED
    BY <1>1, <2>1 DEF Call!vars
<1>6. QED
  BY <1>2, <1>3, <1>4, <1>5

LEMMA StepAnswers ==
  ASSUME DelegationInv, DelegationInv', [Next]_vars
  PROVE  [Call!Work \/ Call!Returns \/ Call!Raises]_(Call!vars)
<1>1. CASE Agent
  BY <1>1, AgentWorks DEF DelegationInv
<1>2. CASE Unlink
  BY <1>2, UnlinkAnswers
<1>3. CASE Coroutine /\ ~Unlink
  <2>1. pc # "over" /\ pc' # "over" /\ UNCHANGED <<landed, unseen, denied>>
    BY <1>3 DEF Coroutine, Begin, BinaryMissing, Create, CreateRaises, Spawn, AwaitReturns,
       AwaitCut, ExecRaises, Destroy, DestroyRaises, Unwind, session
  <2>2. UNCHANGED Call!vars
    BY <2>1 DEF Call!vars, answered, NoResult
  <2>3. QED
    BY <2>2
<1>4. CASE UNCHANGED vars
  BY <1>4 DEF vars, session, Call!vars, answered, NoResult
<1>5. QED
  BY <1>1, <1>2, <1>3, <1>4 DEF Next

(* However the agent, its container or docker exec end, a delegation       *)
(* answers once, its completed verdict hides no edit (agents/outcome.py    *)
(* 33-34, delegate/claude_code.py 122-177), and no edit follows an answer  *)
(* other than SandboxError (agents/kopicode.py 109-129).                   *)
THEOREM Implementation == Spec => ImplementsAgentCall
<1>1. Init => Call!Init
  BY DEF Init, Call!Init, Call!NoAnswer, answered, NoResult, Result
<1>2. DelegationInv /\ DelegationInv' /\ [Next]_vars
        => [Call!Work \/ Call!Returns \/ Call!Raises]_(Call!vars)
  BY StepAnswers
<1>3. QED
  BY <1>1, <1>2, DelegationInvariant, PTL DEF Spec, ImplementsAgentCall, Call!Spec
=============================================================================
