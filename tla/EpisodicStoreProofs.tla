------------------------- MODULE EpisodicStoreProofs -------------------------
(***************************************************************************)
(* Proofs about EpisodicStore, for every set of connections and of tasks.  *)
(*                                                                         *)
(* SeqsContiguous is not inductive: the number an append inserts was       *)
(* selected two statements earlier.  Inv adds what makes it still right    *)
(* when the row is committed: only the holder of the write transaction is  *)
(* between BEGIN and COMMIT, so the rows it selected from are the rows it  *)
(* commits to, and the rows that transaction inserted are its own.         *)
(***************************************************************************)
EXTENDS EpisodicStore, TLAPS

InTx(c) == step[c] \in {"select", "insert", "commit"}

(* The append of c has not been answered and has no committed row.         *)
Pending(c) == step[c] = "begin" \/ InTx(c)

LockInv == \A c \in Connections : InTx(c) => writer = c

DirtyInv ==
  \A c \in Connections :
    /\ step[c] \in {"select", "insert"} => dirty = {}
    /\ step[c] = "commit" => dirty = {call[c]}

FreeInv == writer = NoWriter => dirty = {}

NumberInv ==
  \A c \in Connections :
    step[c] \in {"insert", "commit"} =>
      /\ call[c].seq # 0
      /\ SeqsOf(rows, call[c].task) = 1 .. (call[c].seq - 1)

(* In WAL mode a transaction ends with its append.                         *)
TxInv == wal => \A c \in Connections : writer = c => InTx(c)

ReturnInv == \A c \in Connections : step[c] = "return" => call[c] \in rows

EventInv ==
  /\ \A r \in rows : r.event \in 1 .. calls
  /\ \A e \in raised : e \in 1 .. calls /\ \A r \in rows : r.event # e
  /\ \A c \in Connections : Pending(c) =>
       /\ call[c].event \in 1 .. calls /\ call[c].event \notin raised
       /\ \A r \in rows : r.event # call[c].event
       /\ \A d \in Connections \ {c} : Pending(d) => call[d].event # call[c].event

Inv ==
  /\ TypeOK /\ SeqsContiguous /\ LockInv /\ DirtyInv /\ FreeInv
  /\ NumberInv /\ TxInv /\ ReturnInv /\ EventInv

-----------------------------------------------------------------------------
(* What one more row does to the numbers of a task.                        *)
LEMMA SeqsOfAdd ==
  ASSUME NEW table, NEW row, NEW t
  PROVE  SeqsOf(table \cup {row}, t) =
           SeqsOf(table, t) \cup (IF row.task = t THEN {row.seq} ELSE {})
BY DEF SeqsOf

LEMMA IntervalGrows ==
  ASSUME NEW n \in Nat \ {0}
  PROVE  (1 .. (n - 1)) \cup {n} = 1 .. n
OBVIOUS

(* The greatest number of a task without gaps is how many rows it has.     *)
LEMMA MaxOfContiguous ==
  ASSUME NEW table, NEW t, NEW m \in Nat, NEW n \in Nat,
         SeqsOf(table, t) = 1 .. m, IsMaxSeq(table, t, n)
  PROVE  n = m
<1>1. CASE m = 0
  BY <1>1 DEF IsMaxSeq
<1>2. CASE m # 0
  <2>1. m \in 1 .. m
    BY <1>2
  <2> QED BY <2>1 DEF IsMaxSeq
<1> QED BY <1>1, <1>2

LEMMA Initially == Init => Inv
<1> SUFFICES ASSUME Init PROVE Inv
  OBVIOUS
<1>1. TypeOK
  BY EpisodicStoreAssumption DEF Init, TypeOK, Row, Steps
<1>2. SeqsContiguous
  BY DEF Init, SeqsContiguous, SeqsOf
<1>3. LockInv /\ DirtyInv /\ FreeInv /\ NumberInv /\ TxInv /\ ReturnInv /\ EventInv
  BY EpisodicStoreAssumption DEF Init, LockInv, DirtyInv, FreeInv, NumberInv, TxInv, ReturnInv, EventInv, InTx, Pending
<1> QED BY <1>1, <1>2, <1>3 DEF Inv

(***************************************************************************)
(* Every step preserves Inv.  Only Commit changes the rows, and only       *)
(* SelectMax chooses a number.                                             *)
(***************************************************************************)
LEMMA SelectMaxPreserves ==
  ASSUME Inv, NEW c \in Connections, SelectMax(c)
  PROVE  Inv'
<1> USE DEF Inv, TypeOK, Row, Steps, SelectMax, GoTo
<1>1. TypeOK'
  OBVIOUS
<1>2. SeqsContiguous' /\ FreeInv'
  BY DEF SeqsContiguous, FreeInv
<1>3. LockInv' /\ DirtyInv' /\ TxInv'
  BY DEF LockInv, DirtyInv, TxInv, InTx
<1>4. NumberInv'
  <2>1. PICK n \in 0 .. calls :
          /\ IsMaxSeq(rows \cup dirty, call[c].task, n)
          /\ call' = [call EXCEPT ![c].seq = n + 1]
    OBVIOUS
  <2>2. dirty = {}
    BY DEF DirtyInv
  <2>3. PICK m \in {0} \cup SeqsOf(rows, call[c].task) : SeqsOf(rows, call[c].task) = 1 .. m
    BY DEF SeqsContiguous
  <2>4. m \in Nat /\ n \in Nat
    BY <2>3
  <2>5. n = m
    BY <2>1, <2>2, <2>3, <2>4, MaxOfContiguous
  <2>6. ASSUME NEW d \in Connections, d # c, step'[d] \in {"insert", "commit"}
        PROVE  call'[d] = call[d] /\ step[d] = step'[d]
    BY <2>1, <2>6
  <2>7. call'[c].seq = n + 1 /\ call'[c].task = call[c].task
    BY <2>1
  <2>8. SeqsOf(rows, call'[c].task) = 1 .. (call'[c].seq - 1) /\ call'[c].seq # 0
    BY <2>3, <2>4, <2>5, <2>7
  <2> QED BY <2>6, <2>8 DEF NumberInv
<1>5. ReturnInv' /\ EventInv'
  BY DEF ReturnInv, EventInv, Pending, InTx
<1> QED BY <1>1, <1>2, <1>3, <1>4, <1>5

LEMMA InsertRowPreserves ==
  ASSUME Inv, NEW c \in Connections, InsertRow(c)
  PROVE  Inv'
<1> USE DEF Inv, TypeOK, Row, Steps, InsertRow, GoTo
<1>1. TypeOK'
  OBVIOUS
<1>2. LockInv' /\ DirtyInv' /\ FreeInv' /\ TxInv'
  BY EpisodicStoreAssumption DEF LockInv, DirtyInv, FreeInv, TxInv, InTx
<1>3. SeqsContiguous' /\ NumberInv'
  BY DEF SeqsContiguous, NumberInv
<1>4. ReturnInv' /\ EventInv'
  BY DEF ReturnInv, EventInv, Pending, InTx
<1> QED BY <1>1, <1>2, <1>3, <1>4

LEMMA CommitPreserves ==
  ASSUME Inv, NEW c \in Connections, Commit(c)
  PROVE  Inv'
<1> USE DEF Inv, TypeOK, Row, Steps, Commit, GoTo, EndTx
<1> DEFINE row == call[c]
<1>1. rows' = rows \cup {row}
  BY DEF DirtyInv
<1>2. row \in Row
  OBVIOUS
<1>3. \A d \in Connections \ {c} : ~InTx(d) /\ step'[d] = step[d]
  BY DEF LockInv, InTx
<1>4. TypeOK'
  BY <1>1, <1>2
<1>5. SeqsContiguous'
  <2> SUFFICES ASSUME NEW t \in Tasks
               PROVE  \E n \in {0} \cup SeqsOf(rows', t) : SeqsOf(rows', t) = 1 .. n
    BY DEF SeqsContiguous
  <2>1. SeqsOf(rows', t) = SeqsOf(rows, t) \cup (IF row.task = t THEN {row.seq} ELSE {})
    BY <1>1, SeqsOfAdd
  <2>2. CASE row.task # t
    BY <2>1, <2>2 DEF SeqsContiguous
  <2>3. CASE row.task = t
    <3>1. row.seq \in Nat \ {0} /\ SeqsOf(rows, t) = 1 .. (row.seq - 1)
      BY <1>2, <2>3 DEF NumberInv
    <3>2. SeqsOf(rows', t) = 1 .. row.seq
      BY <2>1, <2>3, <3>1, IntervalGrows
    <3>3. row.seq \in 1 .. row.seq
      BY <3>1
    <3> QED BY <3>2, <3>3
  <2> QED BY <2>2, <2>3
<1>6. LockInv' /\ DirtyInv' /\ FreeInv' /\ NumberInv' /\ TxInv'
  BY <1>3, EpisodicStoreAssumption DEF LockInv, DirtyInv, FreeInv, NumberInv, TxInv, InTx
<1>7. ReturnInv'
  BY <1>1 DEF ReturnInv
<1>8. EventInv'
  BY <1>1, <1>2, <1>3 DEF EventInv, Pending, InTx
<1> QED BY <1>4, <1>5, <1>6, <1>7, <1>8

LEMMA NextPreserves == Inv /\ [Next]_vars => Inv'
<1> SUFFICES ASSUME Inv, [Next]_vars PROVE Inv'
  OBVIOUS
<1> USE EpisodicStoreAssumption DEF Inv, TypeOK, Row, Steps, GoTo, Raise, EndTx
<1>0. CASE UNCHANGED vars
  BY <1>0 DEF vars, SeqsContiguous, LockInv, DirtyInv, FreeInv, NumberInv, TxInv,
              ReturnInv, EventInv, InTx, Pending
<1>1. ASSUME NEW c \in Connections, NEW t \in Tasks, Append(c, t) PROVE Inv'
  <2>1. TypeOK' /\ SeqsContiguous'
    BY <1>1 DEF Append, SeqsContiguous
  <2>2. LockInv' /\ DirtyInv' /\ FreeInv' /\ TxInv'
    BY <1>1 DEF Append, LockInv, DirtyInv, FreeInv, TxInv, InTx
  <2>3. NumberInv' /\ ReturnInv'
    BY <1>1 DEF Append, NumberInv, ReturnInv
  <2>4. EventInv'
    BY <1>1 DEF Append, EventInv, Pending, InTx
  <2> QED BY <2>1, <2>2, <2>3, <2>4
<1>2. ASSUME NEW c \in Connections, BeginImmediate(c) PROVE Inv'
  <2>1. TypeOK' /\ SeqsContiguous'
    BY <1>2 DEF BeginImmediate, SeqsContiguous
  <2>2. LockInv' /\ DirtyInv' /\ FreeInv' /\ TxInv'
    BY <1>2 DEF BeginImmediate, LockInv, DirtyInv, FreeInv, TxInv, InTx
  <2>3. NumberInv' /\ ReturnInv'
    BY <1>2 DEF BeginImmediate, NumberInv, ReturnInv
  <2>4. EventInv'
    BY <1>2 DEF BeginImmediate, EventInv, Pending, InTx
  <2> QED BY <2>1, <2>2, <2>3, <2>4
<1>3. ASSUME NEW c \in Connections, BeginRaises(c) PROVE Inv'
  <2>1. TypeOK' /\ SeqsContiguous'
    BY <1>3 DEF BeginRaises, SeqsContiguous
  <2>2. LockInv' /\ DirtyInv' /\ FreeInv' /\ TxInv'
    BY <1>3 DEF BeginRaises, LockInv, DirtyInv, FreeInv, TxInv, InTx
  <2>3. NumberInv' /\ ReturnInv'
    BY <1>3 DEF BeginRaises, NumberInv, ReturnInv
  <2>4. EventInv'
    BY <1>3 DEF BeginRaises, EventInv, Pending, InTx
  <2> QED BY <2>1, <2>2, <2>3, <2>4
<1>4. ASSUME NEW c \in Connections, StatementRaises(c) PROVE Inv'
  <2>1. TypeOK' /\ SeqsContiguous'
    BY <1>4 DEF StatementRaises, SeqsContiguous
  <2>2. LockInv' /\ DirtyInv' /\ FreeInv' /\ TxInv'
    BY <1>4 DEF StatementRaises, LockInv, DirtyInv, FreeInv, TxInv, InTx
  <2>3. NumberInv' /\ ReturnInv'
    BY <1>4 DEF StatementRaises, NumberInv, ReturnInv
  <2>4. EventInv'
    BY <1>4 DEF StatementRaises, EventInv, Pending, InTx
  <2> QED BY <2>1, <2>2, <2>3, <2>4
<1>5. ASSUME NEW c \in Connections, CommitRaises(c) PROVE Inv'
  <2>1. TypeOK' /\ SeqsContiguous'
    BY <1>5 DEF CommitRaises, SeqsContiguous
  <2>2. LockInv' /\ DirtyInv' /\ FreeInv' /\ TxInv'
    BY <1>5 DEF CommitRaises, LockInv, DirtyInv, FreeInv, TxInv, InTx
  <2>3. NumberInv' /\ ReturnInv'
    BY <1>5 DEF CommitRaises, NumberInv, ReturnInv
  <2>4. EventInv'
    BY <1>5 DEF CommitRaises, EventInv, Pending, InTx
  <2> QED BY <2>1, <2>2, <2>3, <2>4
<1>6. ASSUME NEW c \in Connections, ReturnEvent(c) PROVE Inv'
  <2>1. TypeOK' /\ SeqsContiguous'
    BY <1>6 DEF ReturnEvent, SeqsContiguous
  <2>2. LockInv' /\ DirtyInv' /\ FreeInv' /\ TxInv'
    BY <1>6 DEF ReturnEvent, LockInv, DirtyInv, FreeInv, TxInv, InTx
  <2>3. NumberInv' /\ ReturnInv'
    BY <1>6 DEF ReturnEvent, NumberInv, ReturnInv
  <2>4. EventInv'
    BY <1>6 DEF ReturnEvent, EventInv, Pending, InTx
  <2> QED BY <2>1, <2>2, <2>3, <2>4
<1>7. ASSUME NEW c \in Connections, Close(c) PROVE Inv'
  <2>1. TypeOK' /\ SeqsContiguous'
    BY <1>7 DEF Close, SeqsContiguous
  <2>2. LockInv' /\ DirtyInv' /\ FreeInv' /\ TxInv'
    BY <1>7 DEF Close, LockInv, DirtyInv, FreeInv, TxInv, InTx
  <2>3. NumberInv' /\ ReturnInv'
    BY <1>7 DEF Close, NumberInv, ReturnInv
  <2>4. EventInv'
    BY <1>7 DEF Close, EventInv, Pending, InTx
  <2> QED BY <2>1, <2>2, <2>3, <2>4
<1>8. QED
  BY <1>0, <1>1, <1>2, <1>3, <1>4, <1>5, <1>6, <1>7,
     SelectMaxPreserves, InsertRowPreserves, CommitPreserves
     DEF Next, Progress

(* Inv is an invariant of the store.                                       *)
THEOREM Invariance == Spec => []Inv
<1> QED BY Initially, NextPreserves, PTL DEF Spec

(* Every variable of the store keeps its type.                             *)
THEOREM TypeCorrect == Spec => []TypeOK
<1>1. Inv => TypeOK
  BY DEF Inv
<1> QED BY <1>1, Invariance, PTL

(* However many processes append, fail and die, the rows of each task are  *)
(* numbered from 1 without a gap (store.py 8-10, 88-104).                  *)
THEOREM Contiguous == Spec => []SeqsContiguous
<1>1. Inv => SeqsContiguous
  BY DEF Inv
<1> QED BY <1>1, Invariance, PTL

(* On a file in WAL mode every append ends its transaction, however it     *)
(* ends: no connection is left unable to begin another (store.py 88-104).  *)
THEOREM TxEnds == Spec => []NoTxOutlivesItsAppend
<1>1. Inv => NoTxOutlivesItsAppend
  BY DEF Inv, TxInv, InTx, NoTxOutlivesItsAppend
<1> QED BY <1>1, Invariance, PTL

(***************************************************************************)
(* The store implements the log: COMMIT is the instant an append takes     *)
(* effect, every other statement changes nothing a caller can see.         *)
(***************************************************************************)
LEMMA CommitAppends ==
  ASSUME Inv, Inv', NEW c \in Connections, Commit(c)
  PROVE  Log!Append(call[c].task, call[c].event)
<1> USE DEF Inv, Commit
<1> DEFINE row == call[c]
<1>1. row \in Row
  BY DEF TypeOK
<1>2. rows' = rows \cup {row}
  BY DEF DirtyInv
<1>3. row.event \notin raised \cup Log!EventsOf(rows)
  BY DEF EventInv, Pending, InTx, Log!EventsOf
<1>4. row.seq \in Nat \ {0} /\ SeqsOf(rows, row.task) = 1 .. (row.seq - 1)
  BY <1>1 DEF NumberInv, Row
<1>5. row = [task |-> row.task, seq |-> (row.seq - 1) + 1, event |-> row.event]
  BY <1>1, <1>4 DEF Row
<1>6. row.seq - 1 \in {0} \cup SeqsOf(rows, row.task)
  BY <1>4
<1>7. \A table, t : Log!SeqsOf(table, t) = SeqsOf(table, t)
  BY DEF SeqsOf, Log!SeqsOf
<1> QED BY <1>2, <1>3, <1>4, <1>5, <1>6, <1>7 DEF Log!Append

LEMMA RaiseRaises ==
  ASSUME Inv, NEW c \in Connections, Pending(c), Raise(c), UNCHANGED <<rows, returned>>
  PROVE  Log!Raise(call[c].event)
BY DEF Inv, EventInv, Raise, Log!Raise, Log!EventsOf

LEMMA StepSimulates == Inv /\ Inv' /\ [Next]_vars => [Log!Next]_Log!vars
<1> SUFFICES ASSUME Inv, Inv', Next PROVE Log!Next \/ UNCHANGED Log!vars
  BY DEF vars, Log!vars
<1>0. \A c \in Connections : call[c].task \in Tasks /\ (Pending(c) => call[c].event \in 1 .. MaxCalls)
  BY EpisodicStoreAssumption DEF Inv, TypeOK, Row, EventInv
<1>1. ASSUME NEW c \in Connections, Commit(c) PROVE Log!Next
  BY <1>0, <1>1, CommitAppends DEF Log!Next, Commit, Pending, InTx
<1>2. ASSUME NEW c \in Connections, BeginRaises(c) \/ StatementRaises(c) \/ CommitRaises(c)
      PROVE  Log!Next
  <2>1. Pending(c) /\ Raise(c) /\ UNCHANGED <<rows, returned>>
    BY <1>2 DEF BeginRaises, StatementRaises, CommitRaises, Pending, InTx
  <2> QED BY <1>0, <2>1, RaiseRaises DEF Log!Next
<1>3. ASSUME NEW c \in Connections, ReturnEvent(c) PROVE Log!Next \/ UNCHANGED Log!vars
  <2>1. CASE call[c] \in returned
    BY <1>3, <2>1 DEF ReturnEvent, Log!vars
  <2>2. CASE call[c] \notin returned
    BY <1>3, <2>2 DEF Inv, ReturnInv, ReturnEvent, Log!Return, Log!Next
  <2> QED BY <2>1, <2>2
<1>4. ASSUME NEW c \in Connections,
             \/ \E t \in Tasks : Append(c, t)
             \/ BeginImmediate(c) \/ SelectMax(c) \/ InsertRow(c) \/ Close(c)
      PROVE  UNCHANGED Log!vars
  BY <1>4 DEF Append, BeginImmediate, SelectMax, InsertRow, Close, Log!vars
<1> QED BY <1>1, <1>2, <1>3, <1>4 DEF Next, Progress

(* Concurrent appends are atomic to their callers: every behaviour of the  *)
(* store is one of the log (store.py 77-111).                              *)
THEOREM StoreImplementsLog == Spec => ImplementsLog
<1>1. Init => Log!Init
  BY DEF Init, Log!Init
<1> QED BY <1>1, Invariance, StepSimulates, PTL DEF Spec, ImplementsLog, Log!Spec
=============================================================================
