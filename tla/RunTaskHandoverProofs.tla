------------------------ MODULE RunTaskHandoverProofs ------------------------
(***************************************************************************)
(* Proofs about the working memory of RunTask: what its handovers cover    *)
(* and what its prompts tell, for every token budget, set of faults,       *)
(* number of messages and number of crashes.                               *)
(***************************************************************************)
EXTENDS RunTaskProofs

(***************************************************************************)
(* NoRoundForgotten.  What a prompt must tell travels from the prompt      *)
(* before it through the journal: its DelegationStarted and the outcome    *)
(* lie after the last handover until the round's own handover reads them.  *)
(***************************************************************************)
LastTells(log, n) == IF n = 0 THEN {} ELSE log[n].tells

(* What the next prompt would tell, if it were composed now.               *)
Covered(log, kept, upto) ==
  \A n \in 0 .. Len(log) :
    IsLastHandover(log, NoRole, n) => 1 .. upto \subseteq kept \cup LastTells(log, n)

AfterHandovers(log, i) ==
  /\ i \in DOMAIN log
  /\ \A k \in DOMAIN log : k >= i => log[k].kind # "HandoverWritten"

StartUnread ==
  \/ pc \in {"delegate", "outcome", "dfail"}
  \/ pc = "started" /\ InJournal
  \/ pc = "read" /\ site = "round"

OutcomeUnread ==
  \/ pc = "outcome" /\ InJournal
  \/ pc = "read" /\ site = "round"

SiteInv ==
  /\ pc \in {"poll", "steer", "summary"} => site = "round"
  /\ pc \in {"submit", "started", "delegate", "outcome", "dfail"} => site \in {"start", "round"}
  /\ pc = "submit" => site = "start"
  /\ site = "start" => round = 1

StartInv ==
  StartUnread => \E i \in Nat : AfterHandovers(journal, i) /\ told \subseteq journal[i].tells

OutcomeInv ==
  OutcomeUnread => \E i \in Nat : AfterHandovers(journal, i) /\ round \in journal[i].tells

WindowInv ==
  site = "round" /\ pc \in {"llm", "write"} =>
    1 .. round \subseteq UNION {journal[i].tells : i \in window}

WrittenInv ==
  site = "round" /\ pc = "write" /\ InJournal => Covered(journal, {}, round)

CoverInv ==
  /\ 1 .. (round - 1) \subseteq told
  /\ site \in {"start", "round"} => Covered(journal, raw, round - 1)
  /\ pc = "summary" => Covered(journal, raw, round)

MemoryInv == SiteInv /\ StartInv /\ OutcomeInv /\ WindowInv /\ WrittenInv /\ CoverInv

LEMMA OwnIsAll ==
  ASSUME NEW log \in Seq(Event), NEW n \in 0 .. Len(log)
  PROVE  /\ \A m : WindowAfter(log, NoRole, m) = {i \in DOMAIN log : i > m}
         /\ IsLastHandover(log, NoRole, n) <=>
              /\ n = 0 \/ log[n].kind = "HandoverWritten"
              /\ \A i \in DOMAIN log : i > n => log[i].kind # "HandoverWritten"
<1>1. OwnSeqs(log, NoRole) = DOMAIN log
  <2>1. \A i \in DOMAIN log : log[i] \in Event
    OBVIOUS
  <2> QED BY <2>1 DEF OwnSeqs, Event
<1>2. n # 0 => n \in DOMAIN log
  OBVIOUS
<1> QED BY <1>1, <1>2 DEF IsLastHandover, WindowAfter

(* What one append does to the journal that maybe_handover reads.          *)
LEMMA AppendHandovers ==
  ASSUME TypeOK, AppendEvent, TypeOK'
  PROVE  /\ pc = "write" => \A n \in 0 .. Len(journal') :
              IsLastHandover(journal', NoRole, n) => n = Len(journal')
         /\ pc # "write" => \A n \in 0 .. Len(journal') :
              IsLastHandover(journal', NoRole, n) =>
                /\ n \in 0 .. Len(journal) /\ IsLastHandover(journal, NoRole, n)
                /\ LastTells(journal', n) = LastTells(journal, n)
         /\ pc # "write" => \A i \in Nat : AfterHandovers(journal, i) =>
                AfterHandovers(journal', i) /\ journal'[i] = journal[i]
         /\ pc # "write" => AfterHandovers(journal', Len(journal'))
<1>1. /\ Len(journal) \in Nat /\ Len(journal') = Len(journal) + 1
      /\ \A i \in DOMAIN journal : journal'[i] = journal[i]
      /\ journal'[Len(journal')] = PendingEvent /\ DOMAIN journal = 1 .. Len(journal)
      /\ DOMAIN journal' = 1 .. Len(journal')
  BY AppendGrows DEF TypeOK, Seqs
<1>2. journal \in Seq(Event) /\ journal' \in Seq(Event)
  BY DEF TypeOK
<1>3. CASE pc = "write"
  <2>1. PendingEvent.kind = "HandoverWritten"
    BY <1>3 DEF PendingEvent, PendingKind
  <2> QED BY <1>1, <1>2, <1>3, <2>1, OwnIsAll
<1>4. CASE pc # "write"
  <2>1. PendingEvent.kind # "HandoverWritten"
    BY <1>4 DEF AppendEvent, PendingEvent, PendingKind, OutcomeKind, VerdictOfTask, AppendCalls
  <2>2. ASSUME NEW n \in 0 .. Len(journal'), IsLastHandover(journal', NoRole, n)
        PROVE  /\ n \in 0 .. Len(journal) /\ IsLastHandover(journal, NoRole, n)
               /\ LastTells(journal', n) = LastTells(journal, n)
    <3>1. /\ n = 0 \/ journal'[n].kind = "HandoverWritten"
          /\ \A i \in DOMAIN journal' : i > n => journal'[i].kind # "HandoverWritten"
      BY <1>2, <2>2, OwnIsAll
    <3>2. n \in 0 .. Len(journal)
      BY <1>1, <2>1, <3>1
    <3>3. IsLastHandover(journal, NoRole, n)
      BY <1>1, <1>2, <3>1, <3>2, OwnIsAll
    <3> QED BY <1>1, <3>2, <3>3 DEF LastTells
  <2>3. ASSUME NEW i \in Nat, AfterHandovers(journal, i)
        PROVE  AfterHandovers(journal', i) /\ journal'[i] = journal[i]
    <3>1. /\ i \in 1 .. Len(journal)
          /\ \A k \in 1 .. Len(journal) : k >= i => journal[k].kind # "HandoverWritten"
      BY <1>1, <2>3 DEF AfterHandovers
    <3>2. \A k \in 1 .. Len(journal') : k >= i => journal'[k].kind # "HandoverWritten"
      BY <1>1, <2>1, <3>1
    <3> QED BY <1>1, <3>1, <3>2 DEF AfterHandovers
  <2>4. AfterHandovers(journal', Len(journal'))
    BY <1>1, <2>1 DEF AfterHandovers
  <2> QED BY <1>4, <2>2, <2>3, <2>4
<1> QED BY <1>3, <1>4

LEMMA MemoryAppend == TypeOK /\ MemoryInv /\ AppendEvent /\ TypeOK' => MemoryInv'
<1> SUFFICES ASSUME TypeOK, MemoryInv, AppendEvent, TypeOK' PROVE MemoryInv'
  OBVIOUS
<1>1. /\ Len(journal) \in Nat /\ Len(journal') = Len(journal) + 1
      /\ \A i \in Seqs : journal'[i] = journal[i]
      /\ journal'[Len(journal')] = PendingEvent /\ Seqs = 1 .. Len(journal)
      /\ Len(journal') \in Nat
  BY AppendGrows DEF TypeOK, Seqs
<1>2. /\ UNCHANGED <<pc, site, round, told, raw, window, outcome, redo>>
      /\ pc \in AppendCalls /\ ~redo /\ window \subseteq Seqs
  BY DEF AppendEvent, body, Driving, TypeOK, Seqs
<1>3. SiteInv'
  BY <1>2 DEF MemoryInv, SiteInv
<1>4. StartInv'
  <2>1. CASE pc = "started"
    <3>1. PendingEvent.tells = told
      BY <2>1 DEF PendingEvent, TextTells
    <3>2. AfterHandovers(journal', Len(journal')) /\ told \subseteq journal'[Len(journal')].tells
      BY <1>1, <2>1, <3>1, AppendHandovers
    <3> QED BY <1>1, <1>2, <3>2 DEF StartInv
  <2>2. CASE pc \in {"outcome", "dfail"}
    <3>1. PICK i \in Nat : AfterHandovers(journal, i) /\ told \subseteq journal[i].tells
      BY <2>2 DEF MemoryInv, StartInv, StartUnread
    <3>2. AfterHandovers(journal', i) /\ told \subseteq journal'[i].tells
      BY <2>2, <3>1, AppendHandovers
    <3> QED BY <1>2, <3>2 DEF StartInv
  <2>3. CASE pc \notin {"started", "outcome", "dfail"}
    BY <1>2, <2>3 DEF StartInv, StartUnread, AppendCalls
  <2> QED BY <2>1, <2>2, <2>3
<1>5. OutcomeInv'
  <2>1. CASE pc = "outcome"
    <3>1. PendingEvent.tells = {round}
      BY <2>1 DEF PendingEvent, TextTells
    <3>2. AfterHandovers(journal', Len(journal')) /\ round \in journal'[Len(journal')].tells
      BY <1>1, <2>1, <3>1, AppendHandovers
    <3> QED BY <1>1, <1>2, <3>2 DEF OutcomeInv
  <2>2. CASE pc # "outcome"
    BY <1>2, <2>2 DEF OutcomeInv, OutcomeUnread, AppendCalls
  <2> QED BY <2>1, <2>2
<1>6. WindowInv'
  <2>1. UNION {journal'[i].tells : i \in window} = UNION {journal[i].tells : i \in window}
    BY <1>1, <1>2
  <2> QED BY <1>2, <2>1 DEF MemoryInv, WindowInv
<1>7. WrittenInv' /\ CoverInv'
  <2>1. CASE pc = "write"
    <3>1. PendingEvent.tells = UNION {journal[i].tells : i \in window}
      BY <2>1 DEF PendingEvent, TextTells
    <3>2. \A n \in 0 .. Len(journal') : IsLastHandover(journal', NoRole, n) =>
            LastTells(journal', n) = UNION {journal[i].tells : i \in window}
      BY <1>1, <2>1, <3>1, AppendHandovers DEF LastTells
    <3>3. site = "round" => 1 .. round \subseteq UNION {journal[i].tells : i \in window}
      BY <2>1 DEF MemoryInv, WindowInv
    <3>4. 1 .. (round - 1) \subseteq 1 .. round /\ (site = "start" => 1 .. (round - 1) = {})
      BY DEF TypeOK, MemoryInv, SiteInv
    <3>5. WrittenInv'
      BY <1>2, <3>2, <3>3 DEF WrittenInv, Covered
    <3>6. site \in {"start", "round"} => Covered(journal', raw, round - 1)
      BY <3>2, <3>3, <3>4 DEF Covered
    <3> QED BY <1>2, <2>1, <3>5, <3>6 DEF CoverInv, MemoryInv
  <2>2. CASE pc # "write"
    <3>1. \A kept, m : Covered(journal, kept, m) => Covered(journal', kept, m)
      BY <2>2, AppendHandovers DEF Covered
    <3> QED BY <1>2, <2>2, <3>1 DEF WrittenInv, CoverInv, MemoryInv
  <2> QED BY <2>1, <2>2
<1> QED BY <1>3, <1>4, <1>5, <1>6, <1>7 DEF MemoryInv

(* A step that leaves the body where it is.                                *)
LEMMA MemoryStays ==
  ASSUME MemoryInv, UNCHANGED <<pc, site, round, told, raw, window, journal>>,
         InJournal' => InJournal \/ pc = "delegate"
  PROVE  MemoryInv'
BY DEF MemoryInv, SiteInv, StartInv, StartUnread, OutcomeInv, OutcomeUnread, WindowInv,
  WrittenInv, CoverInv

LEMMA MemoryMoves == TypeOK /\ LandedInv /\ MemoryInv /\ Moves => MemoryInv'
<1> SUFFICES ASSUME TypeOK, LandedInv, MemoryInv, Moves PROVE MemoryInv'
  OBVIOUS
<1>1. UNCHANGED <<round, told, raw, window, journal>> /\ ~InJournal'
  BY MoveKinds
<1>2. SiteInv'
  BY MoveKinds DEF MemoryInv, SiteInv, Move
<1>3. (StartUnread' => StartUnread) /\ (OutcomeUnread' => OutcomeUnread)
  BY <1>1, MoveKinds DEF StartUnread, OutcomeUnread, Move
<1>4. StartInv' /\ OutcomeInv'
  BY <1>1, <1>3 DEF MemoryInv, StartInv, OutcomeInv
<1>5. WindowInv' /\ WrittenInv'
  BY <1>1, MoveKinds DEF MemoryInv, WindowInv, WrittenInv, Move
<1>6. CoverInv'
  <2>1. pc' # "summary" /\ (site' \in {"start", "round"} => site \in {"start", "round"})
    BY MoveKinds DEF MemoryInv, SiteInv, Move
  <2> QED BY <1>1, <2>1 DEF MemoryInv, CoverInv
<1> QED BY <1>2, <1>4, <1>5, <1>6 DEF MemoryInv

(* A round's own handover reads the round and what its prompt told.        *)
LEMMA RoundIsRead ==
  ASSUME TypeOK, MemoryInv, pc = "read", site = "round",
         NEW n \in 0 .. Len(journal), IsLastHandover(journal, NoRole, n)
  PROVE  1 .. round \subseteq UNION {journal[i].tells : i \in WindowAfter(journal, NoRole, n)}
<1>1. PICK i \in Nat : AfterHandovers(journal, i) /\ told \subseteq journal[i].tells
  BY DEF MemoryInv, StartInv, StartUnread
<1>2. PICK j \in Nat : AfterHandovers(journal, j) /\ round \in journal[j].tells
  BY DEF MemoryInv, OutcomeInv, OutcomeUnread
<1>3. journal \in Seq(Event)
  BY DEF TypeOK
<1>4. \A k \in Nat : AfterHandovers(journal, k) => k \in WindowAfter(journal, NoRole, n)
  <2> SUFFICES ASSUME NEW k \in Nat, AfterHandovers(journal, k)
               PROVE  k \in DOMAIN journal /\ k > n
    BY <1>3, OwnIsAll
  <2>1. n = 0 \/ (n \in DOMAIN journal /\ journal[n].kind = "HandoverWritten")
    BY <1>3, OwnIsAll
  <2>2. k \in 1 .. Len(journal) /\ (n \in DOMAIN journal => ~(n >= k))
    BY <1>3, <2>1 DEF AfterHandovers
  <2> QED BY <1>3, <2>1, <2>2
<1>5. 1 .. round \subseteq told \cup {round}
  BY DEF TypeOK, MemoryInv, CoverInv
<1> QED BY <1>1, <1>2, <1>4, <1>5

LEMMA MemoryReadWindow == TypeOK /\ LandedInv /\ MemoryInv /\ ReadWindow => MemoryInv'
<1> SUFFICES ASSUME TypeOK, LandedInv, MemoryInv, ReadWindow PROVE MemoryInv'
  OBVIOUS
<1>1. /\ UNCHANGED <<round, told, journal, raw>> /\ ~InJournal' /\ pc = "read"
      /\ \/ pc' = "llm" /\ site' = site
         \/ site = "start" /\ pc' = "started" /\ site' = site
         \/ site = "round" /\ pc' = "poll" /\ site' = site
         \/ site = "round" /\ pc' = "read" /\ site' = "end"
         \/ site \in {"end", "error"} /\ pc' = "terminal" /\ site' = site
  BY DEF ReadWindow, LeaveHandover, RawAfter, host, LandedInv, Driving, AppendCalls, InJournal
<1>2. SiteInv' /\ StartInv' /\ OutcomeInv' /\ WrittenInv' /\ CoverInv'
  BY <1>1 DEF MemoryInv, SiteInv, StartInv, StartUnread, OutcomeInv, OutcomeUnread, WrittenInv,
    CoverInv
<1>3. WindowInv'
  <2> SUFFICES ASSUME site' = "round", pc' \in {"llm", "write"}
               PROVE  1 .. round \subseteq UNION {journal[i].tells : i \in window'}
    BY <1>1 DEF WindowInv
  <2>1. PICK n \in 0 .. Len(journal) :
          IsLastHandover(journal, NoRole, n) /\ window' = WindowAfter(journal, NoRole, n)
    BY DEF ReadWindow
  <2> QED BY <1>1, <2>1, RoundIsRead
<1> QED BY <1>2, <1>3 DEF MemoryInv

LEMMA MemoryWritten == TypeOK /\ MemoryInv /\ HandoverWritten => MemoryInv'
<1> SUFFICES ASSUME TypeOK, MemoryInv, HandoverWritten PROVE MemoryInv'
  OBVIOUS
<1>1. /\ UNCHANGED <<round, told, window, journal>> /\ ~InJournal' /\ pc = "write" /\ InJournal
      /\ \/ site = "start" /\ pc' = "started" /\ site' = site /\ raw' = raw
         \/ site = "round" /\ pc' = "poll" /\ site' = site /\ raw' = {}
         \/ site = "round" /\ pc' = "read" /\ site' = "end"
         \/ site \in {"end", "error"} /\ pc' = "terminal" /\ site' = site
  BY DEF HandoverWritten, LeaveHandover, RawAfter, Commit, Driving, InJournal
<1>2. SiteInv' /\ StartInv' /\ OutcomeInv' /\ WindowInv' /\ WrittenInv'
  BY <1>1 DEF MemoryInv, SiteInv, StartInv, StartUnread, OutcomeInv, OutcomeUnread, WrittenInv,
    WindowInv
<1>3. CoverInv'
  <2>1. 1 .. (round - 1) \subseteq 1 .. round
    BY DEF TypeOK
  <2>2. site = "round" => Covered(journal, {}, round - 1)
    BY <1>1, <2>1 DEF MemoryInv, WrittenInv, Covered
  <2> QED BY <1>1, <2>2 DEF MemoryInv, CoverInv
<1> QED BY <1>2, <1>3 DEF MemoryInv

LEMMA MemorySteered ==
  TypeOK /\ LandedInv /\ MemoryInv /\ (SteeringJournaled \/ ComposeRound) => MemoryInv'
<1> SUFFICES ASSUME TypeOK, LandedInv, MemoryInv, SteeringJournaled \/ ComposeRound
             PROVE  MemoryInv'
  OBVIOUS
<1>0. round \in Nat \ {0}
  BY DEF TypeOK
<1>1. CASE SteeringJournaled
  <2>1. /\ UNCHANGED <<site, round, told, window, journal>> /\ ~InJournal'
        /\ pc = "steer" /\ pc' = "summary" /\ raw' = raw \cup {round} /\ site = "round"
    BY <1>1 DEF SteeringJournaled, Commit, InJournal, MemoryInv, SiteInv
  <2>2. Covered(journal, raw, round - 1)
    BY <2>1 DEF MemoryInv, CoverInv
  <2>3. 1 .. round \subseteq 1 .. (round - 1) \cup {round}
    BY <1>0
  <2>4. Covered(journal, raw', round - 1) /\ Covered(journal, raw', round)
    BY <2>1, <2>2, <2>3 DEF Covered
  <2>5. CoverInv'
    BY <2>1, <2>4 DEF MemoryInv, CoverInv
  <2>6. SiteInv' /\ StartInv' /\ OutcomeInv' /\ WindowInv' /\ WrittenInv'
    BY <2>1 DEF MemoryInv, SiteInv, StartInv, StartUnread, OutcomeInv, OutcomeUnread, WrittenInv,
      WindowInv
  <2> QED BY <2>5, <2>6 DEF MemoryInv
<1>2. CASE ComposeRound
  <2>1. /\ UNCHANGED <<site, raw, window, journal>> /\ ~InJournal' /\ site = "round"
        /\ pc = "summary" /\ pc' = "started" /\ round' = round + 1
    BY <1>2 DEF ComposeRound, Driving, InJournal, LandedInv, AppendCalls, host, MemoryInv, SiteInv
  <2>2. PICK n \in 0 .. Len(journal) :
          IsLastHandover(journal, NoRole, n) /\ told' = raw \cup LastTells(journal, n)
    BY <1>2 DEF ComposeRound, LastTells
  <2>3. Covered(journal, raw, round)
    BY <2>1 DEF MemoryInv, CoverInv
  <2>4. round' - 1 = round /\ 1 .. round \subseteq told'
    BY <1>0, <2>1, <2>2, <2>3 DEF Covered
  <2>5. CoverInv'
    BY <2>1, <2>3, <2>4 DEF CoverInv
  <2>6. SiteInv' /\ StartInv' /\ OutcomeInv' /\ WindowInv' /\ WrittenInv'
    BY <2>1 DEF SiteInv, StartInv, StartUnread, OutcomeInv, OutcomeUnread, WrittenInv, WindowInv
  <2> QED BY <2>5, <2>6 DEF MemoryInv
<1> QED BY <1>1, <1>2

LEMMA MemoryStep == TypeOK /\ LandedInv /\ MemoryInv /\ [Next]_vars /\ TypeOK' => MemoryInv'
<1> SUFFICES ASSUME TypeOK, LandedInv, MemoryInv, [Next]_vars, TypeOK' PROVE MemoryInv'
  OBVIOUS
<1>1. CASE AppendEvent
  BY <1>1, MemoryAppend
<1>2. CASE Moves
  BY <1>2, MemoryMoves
<1>3. CASE ReadWindow \/ HandoverWritten
  BY <1>3, MemoryReadWindow, MemoryWritten
<1>4. CASE SteeringJournaled \/ ComposeRound
  BY <1>4, MemorySteered
<1>5. CASE InvokeBackend \/ Return \/ CallRaises \/ Crash \/ Resume \/ InvokeAgain \/ ErrorAgain
           \/ (ReturnsInstead /\ pc # "dfail") \/ SendSteering \/ UNCHANGED vars
  <2>1. UNCHANGED <<pc, site, round, told, raw, window, journal>>
    BY <1>5 DEF InvokeBackend, Return, CallRaises, Crash, CrashTo, Resume, InvokeAgain, ErrorAgain,
      ReturnsInstead, SendSteering, vars, body
  <2>2. InJournal' => InJournal \/ pc = "delegate"
    BY <1>5 DEF InvokeBackend, Return, CallRaises, Crash, CrashTo, Resume, InvokeAgain, ErrorAgain,
      ReturnsInstead, SendSteering, vars, host, Replaying, InJournal
  <2> QED BY <2>1, <2>2, MemoryStays
<1> QED BY <1>1, <1>2, <1>3, <1>4, <1>5 DEF Next, Body, Handover, Backend, Replay, Moves

(* No round is dropped from the working memory: the prompt of round n      *)
(* tells of every round before it, through a raw summary or through the    *)
(* last handover, whatever the budget and however many handovers lie       *)
(* between (handover.py 119-129, 143-160, workflow.py 156-181).            *)
THEOREM NoRoundIsForgotten == Spec => []NoRoundForgotten
<1>1. Init => LandedInv
  BY DEF Init, LandedInv
<1>2. Init => MemoryInv
  BY DEF Init, MemoryInv, SiteInv, StartInv, StartUnread, OutcomeInv, OutcomeUnread, WindowInv,
    WrittenInv, CoverInv, Covered
<1>3. MemoryInv => NoRoundForgotten
  BY DEF MemoryInv, CoverInv, NoRoundForgotten
<1> QED BY <1>1, <1>2, <1>3, LandedStep, MemoryStep, TypeCorrect, PTL DEF Spec

(***************************************************************************)
(* HandoverWindowsTile.  From the read to the committed write, the window  *)
(* reaches from the handover before it up to the journal's end, but for    *)
(* the copies of its own handover that crashes have left.                  *)
(***************************************************************************)
HandoversOf(log) == {i \in DOMAIN log : log[i].kind = "HandoverWritten"}

Tile(log, covers, h) ==
  \E first, last \in 1 .. h - 1 :
    /\ covers = first .. last
    /\ first <= last /\ (first .. last) \cap HandoversOf(log) = {}
    /\ first = 1 \/ first - 1 \in HandoversOf(log)
    /\ (last + 1) .. (h - 1) \subseteq HandoversOf(log)

TileInv ==
  /\ \A h \in HandoversOf(journal) : Tile(journal, journal[h].covers, h)
  /\ pc \in {"llm", "write"} => Tile(journal, window, Len(journal) + 1)

(* What lies before a tile's end is not disturbed by a row after it.       *)
LEMMA TileKept ==
  ASSUME NEW log \in Seq(Event), NEW longer \in Seq(Event), Len(longer) = Len(log) + 1,
         \A i \in DOMAIN log : longer[i] = log[i],
         NEW covers, NEW h \in 1 .. Len(log) + 1, Tile(log, covers, h)
  PROVE  /\ Tile(longer, covers, h)
         /\ h = Len(longer) /\ longer[h].kind = "HandoverWritten" =>
              Tile(longer, covers, h + 1)
<1>1. /\ Len(log) \in Nat /\ DOMAIN log = 1 .. Len(log)
      /\ DOMAIN longer = 1 .. Len(log) + 1 /\ h \in Nat /\ (h + 1) - 1 = h
  OBVIOUS
<1>2. \A i \in 1 .. h - 1 : i \in HandoversOf(longer) <=> i \in HandoversOf(log)
  BY <1>1 DEF HandoversOf
<1>3. PICK first, last \in 1 .. h - 1 :
        /\ covers = first .. last
        /\ first <= last /\ (first .. last) \cap HandoversOf(log) = {}
        /\ first = 1 \/ first - 1 \in HandoversOf(log)
        /\ (last + 1) .. (h - 1) \subseteq HandoversOf(log)
  BY DEF Tile
<1>4. first .. last \subseteq 1 .. h - 1 /\ (last + 1) .. (h - 1) \subseteq 1 .. h - 1
  BY <1>1, <1>3
<1>5. (first .. last) \cap HandoversOf(longer) = {}
  BY <1>2, <1>3, <1>4
<1>6. first = 1 \/ first - 1 \in HandoversOf(longer)
  <2>1. first # 1 => first - 1 \in 1 .. h - 1
    BY <1>1, <1>3
  <2> QED BY <1>2, <1>3, <2>1
<1>7. (last + 1) .. (h - 1) \subseteq HandoversOf(longer)
  BY <1>2, <1>3, <1>4
<1>8. Tile(longer, covers, h)
  BY <1>3, <1>5, <1>6, <1>7 DEF Tile
<1>9. ASSUME h = Len(longer), longer[h].kind = "HandoverWritten" PROVE Tile(longer, covers, h + 1)
  <2>1. h \in HandoversOf(longer)
    BY <1>1, <1>9 DEF HandoversOf
  <2>2. (last + 1) .. h \subseteq (last + 1) .. (h - 1) \cup {h}
    BY <1>1, <1>3
  <2>3. (last + 1) .. h \subseteq HandoversOf(longer)
    BY <1>7, <2>1, <2>2
  <2>4. first \in 1 .. h /\ last \in 1 .. h
    BY <1>1, <1>3
  <2> QED BY <1>1, <1>3, <1>5, <1>6, <2>3, <2>4 DEF Tile
<1> QED BY <1>8, <1>9

LEMMA TileAppend == TypeOK /\ TileInv /\ AppendEvent /\ TypeOK' => TileInv'
<1> SUFFICES ASSUME TypeOK, TileInv, AppendEvent, TypeOK' PROVE TileInv'
  OBVIOUS
<1>1. /\ Len(journal) \in Nat /\ Len(journal') = Len(journal) + 1
      /\ \A i \in DOMAIN journal : journal'[i] = journal[i]
      /\ journal'[Len(journal')] = PendingEvent /\ DOMAIN journal = 1 .. Len(journal)
      /\ DOMAIN journal' = 1 .. Len(journal')
  BY AppendGrows DEF TypeOK, Seqs
<1>2. journal \in Seq(Event) /\ journal' \in Seq(Event)
  BY DEF TypeOK
<1>3. UNCHANGED <<pc, window>> /\ pc \in AppendCalls
  BY DEF AppendEvent, body
<1>4. pc # "write" => PendingEvent.kind # "HandoverWritten"
  BY <1>3 DEF PendingEvent, PendingKind, OutcomeKind, VerdictOfTask, AppendCalls
<1>5. pc = "write" => PendingEvent.kind = "HandoverWritten" /\ PendingEvent.covers = window
  BY DEF PendingEvent, PendingKind
<1>6. pc = "write" => /\ Tile(journal', window, Len(journal'))
                      /\ Tile(journal', window, Len(journal') + 1)
  BY <1>1, <1>2, <1>5, TileKept DEF TileInv
<1>7. ASSUME NEW h \in HandoversOf(journal') PROVE Tile(journal', journal'[h].covers, h)
  <2>1. h \in 1 .. Len(journal') /\ journal'[h].kind = "HandoverWritten"
    BY <1>1 DEF HandoversOf
  <2>2. CASE h = Len(journal')
    BY <1>1, <1>4, <1>5, <1>6, <2>1, <2>2
  <2>3. CASE h # Len(journal')
    <3>1. h \in DOMAIN journal /\ h \in 1 .. Len(journal) + 1 /\ journal'[h] = journal[h]
      BY <1>1, <2>1, <2>3
    <3>2. Tile(journal, journal[h].covers, h)
      BY <2>1, <3>1 DEF TileInv, HandoversOf
    <3> QED BY <1>1, <1>2, <3>1, <3>2, TileKept
  <2> QED BY <2>2, <2>3
<1>8. pc' \in {"llm", "write"} => Tile(journal', window', Len(journal') + 1)
  BY <1>3, <1>6 DEF AppendCalls
<1> QED BY <1>7, <1>8 DEF TileInv

LEMMA TileRead == TypeOK /\ TileInv /\ ReadWindow => TileInv'
<1> SUFFICES ASSUME TypeOK, TileInv, ReadWindow PROVE TileInv'
  OBVIOUS
<1>1. UNCHANGED journal /\ journal \in Seq(Event)
  BY DEF ReadWindow, TypeOK
<1>2. CASE pc' = "llm"
  <2>1. PICK n \in 0 .. Len(journal) :
          IsLastHandover(journal, NoRole, n) /\ window' = WindowAfter(journal, NoRole, n)
    BY DEF ReadWindow
  <2>2. /\ window' = {i \in DOMAIN journal : i > n}
        /\ n = 0 \/ journal[n].kind = "HandoverWritten"
        /\ \A i \in DOMAIN journal : i > n => journal[i].kind # "HandoverWritten"
    BY <1>1, <2>1, OwnIsAll
  <2>3. window' # {}
    BY <1>2 DEF ReadWindow, LeaveHandover, OverBudget
  <2>4. /\ Len(journal) \in Nat /\ DOMAIN journal = 1 .. Len(journal)
        /\ (Len(journal) + 1) - 1 = Len(journal) /\ n + 1 \in 1 .. Len(journal)
        /\ Len(journal) \in 1 .. Len(journal) /\ (n + 1) - 1 = n
    BY <1>1, <2>2, <2>3
  <2>5. window' = (n + 1) .. Len(journal) /\ n + 1 <= Len(journal)
    BY <2>2, <2>4
  <2>6. ((n + 1) .. Len(journal)) \cap HandoversOf(journal) = {}
    BY <2>2, <2>4, <2>5 DEF HandoversOf
  <2>7. n + 1 = 1 \/ (n + 1) - 1 \in HandoversOf(journal)
    BY <2>2, <2>4 DEF HandoversOf
  <2>8. (Len(journal) + 1) .. Len(journal) \subseteq HandoversOf(journal)
    BY <2>4
  <2>9. Tile(journal, window', Len(journal) + 1)
    BY <2>4, <2>5, <2>6, <2>7, <2>8 DEF Tile
  <2> QED BY <1>1, <2>9 DEF TileInv
<1>3. CASE pc' # "llm"
  <2>1. pc' # "write"
    BY <1>3 DEF ReadWindow, LeaveHandover
  <2> QED BY <1>1, <1>3, <2>1 DEF TileInv
<1> QED BY <1>2, <1>3

LEMMA TileStep == TypeOK /\ LandedInv /\ TileInv /\ [Next]_vars /\ TypeOK' => TileInv'
<1> SUFFICES ASSUME TypeOK, LandedInv, TileInv, [Next]_vars, TypeOK' PROVE TileInv'
  OBVIOUS
<1>1. CASE AppendEvent
  BY <1>1, TileAppend
<1>2. CASE ReadWindow
  BY <1>2, TileRead
<1>3. CASE Moves
  <2>1. UNCHANGED <<window, journal>> /\ (pc' \in {"llm", "write"} => pc = "llm")
    BY <1>3, MoveKinds DEF Move
  <2> QED BY <2>1 DEF TileInv
<1>4. CASE HandoverWritten \/ SteeringJournaled \/ ComposeRound
  <2>1. UNCHANGED journal /\ pc' \notin {"llm", "write"}
    BY <1>4 DEF HandoverWritten, LeaveHandover, SteeringJournaled, ComposeRound
  <2> QED BY <2>1 DEF TileInv
<1>5. CASE \/ InvokeBackend \/ Return \/ CallRaises \/ Crash \/ Resume \/ InvokeAgain \/ ErrorAgain
           \/ (ReturnsInstead /\ pc # "dfail") \/ SendSteering \/ UNCHANGED vars
  <2>1. UNCHANGED <<pc, window, journal>>
    BY <1>5 DEF InvokeBackend, Return, CallRaises, Crash, CrashTo, Resume, InvokeAgain, ErrorAgain,
      ReturnsInstead, SendSteering, vars, body
  <2> QED BY <2>1 DEF TileInv
<1> QED BY <1>1, <1>2, <1>3, <1>4, <1>5 DEF Next, Body, Handover, Backend, Replay, Moves

(* Each handover summarises the whole stretch between the handover before  *)
(* it and itself, for every budget and whatever crashes repeat it, so that *)
(* no event is left out of every summary or put into two                   *)
(* (handover.py 106-137).                                                  *)
THEOREM WindowsTile == Spec => []HandoverWindowsTile
<1>1. Init => LandedInv /\ TileInv
  BY DEF Init, LandedInv, TileInv, HandoversOf
<1>2. TypeOK /\ TileInv => HandoverWindowsTile
  <2> SUFFICES ASSUME TypeOK, TileInv PROVE HandoverWindowsTile
    OBVIOUS
  <2>1. HandoversOf(journal) = {i \in Seqs : journal[i].kind = "HandoverWritten"}
    BY DEF HandoversOf, Seqs
  <2>2. ASSUME NEW h \in HandoversOf(journal)
        PROVE  \E first, last \in 1 .. h - 1 :
                 /\ journal[h].covers = first .. last
                 /\ first <= last /\ (first .. last) \cap HandoversOf(journal) = {}
                 /\ first = 1 \/ first - 1 \in HandoversOf(journal)
                 /\ (last + 1) .. h \subseteq HandoversOf(journal)
    <3>1. PICK first, last \in 1 .. h - 1 :
            /\ journal[h].covers = first .. last
            /\ first <= last /\ (first .. last) \cap HandoversOf(journal) = {}
            /\ first = 1 \/ first - 1 \in HandoversOf(journal)
            /\ (last + 1) .. (h - 1) \subseteq HandoversOf(journal)
      BY DEF TileInv, Tile
    <3>2. h \in Nat
      BY DEF HandoversOf, TypeOK
    <3>3. (last + 1) .. h \subseteq (last + 1) .. (h - 1) \cup {h}
      BY <3>1, <3>2
    <3> QED BY <3>1, <3>3
  <2> QED BY <2>1, <2>2 DEF HandoverWindowsTile
<1> QED BY <1>1, <1>2, LandedStep, TileStep, TypeCorrect, PTL DEF Spec
=============================================================================
