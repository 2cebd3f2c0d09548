---------------------------- MODULE EpisodicStore ----------------------------
(***************************************************************************)
(* EpisodicStore (episodic/store.py): several connections append to one    *)
(* SQLite file.  Each project's journal is shared by the processes that    *)
(* run tasks in its directory, every one with a connection of its own; a   *)
(* connection is used by one thread, so that append is atomic to its own   *)
(* process and interleaves with the appends of the others statement by     *)
(* statement.                                                              *)
(*                                                                         *)
(* SQLite is external: one connection at a time has a write transaction    *)
(* open, BEGIN IMMEDIATE raises when that does not end within the busy     *)
(* timeout, a statement sees the committed rows and those of its own       *)
(* transaction, and a transaction left open dies with its connection.      *)
(***************************************************************************)
EXTENDS Naturals

CONSTANTS
  Connections,
  NoWriter,
  Tasks,
  MaxCalls  (* bound: appends called                                       *)

ASSUME EpisodicStoreAssumption ==
  NoWriter \notin Connections /\ MaxCalls \in Nat

VARIABLES
  wal,       (* whether the file is in WAL mode: the pragma is not checked *)
  rows,      (* the committed rows of episodic_events                      *)
  writer,    (* the connection with an open write transaction              *)
  dirty,     (* the rows that transaction inserted                         *)
  step,      (* each connection's next statement of append                 *)
  call,      (* each connection's append: its row, seq once it is selected *)
  calls,     (* how many appends were called; the last one's event         *)
  returned,  (* the rows append returned                                   *)
  raised     (* the events of the appends that raised                      *)

vars == <<wal, rows, writer, dirty, step, call, calls, returned, raised>>

Row == [task : Tasks, seq : Nat, event : Nat]

Steps == {"idle", "begin", "select", "insert", "commit", "return"}

TypeOK ==
  /\ wal \in BOOLEAN
  /\ rows \in SUBSET Row
  /\ writer \in Connections \cup {NoWriter}
  /\ dirty \in SUBSET Row
  /\ step \in [Connections -> Steps]
  /\ call \in [Connections -> Row]
  /\ calls \in 0 .. MaxCalls
  /\ returned \in SUBSET Row
  /\ raised \in SUBSET Nat

Init ==
  /\ wal \in BOOLEAN
  /\ rows = {} /\ writer = NoWriter /\ dirty = {}
  /\ step = [c \in Connections |-> "idle"]
  /\ \E t \in Tasks : call = [c \in Connections |-> [task |-> t, seq |-> 0, event |-> 0]]
  /\ calls = 0 /\ returned = {} /\ raised = {}

-----------------------------------------------------------------------------
SeqsOf(table, t) == {r.seq : r \in {r \in table : r.task = t}}

(* The greatest seq of another task is taken for this one's.               *)
IsMaxSeqOfAll(table, t, n) ==
  /\ n = 0 \/ \E r \in table : r.seq = n
  /\ \A r \in table : r.seq <= n

(* COALESCE(MAX(seq), 0) ... WHERE task_id = t.                            *)
IsMaxSeq(table, t, n) ==
  /\ n \in {0} \cup SeqsOf(table, t)
  /\ \A s \in SeqsOf(table, t) : s <= n

GoTo(c, next) == step' = [step EXCEPT ![c] = next]

Raise(c) == GoTo(c, "idle") /\ raised' = raised \cup {call[c].event}

EndTx == writer' = NoWriter /\ dirty' = {}

Append(c, t) ==
  /\ step[c] = "idle" /\ calls < MaxCalls
  /\ calls' = calls + 1
  /\ call' = [call EXCEPT ![c] = [task |-> t, seq |-> 0, event |-> calls + 1]]
  /\ GoTo(c, "begin")
  /\ UNCHANGED <<wal, rows, writer, dirty, returned, raised>>

BeginImmediate(c) ==
  /\ step[c] = "begin" /\ writer = NoWriter
  /\ writer' = c
  /\ GoTo(c, "select")
  /\ UNCHANGED <<wal, rows, dirty, call, calls, returned, raised>>

(* Waiting for the lock without a limit.                                   *)
WaitsForever(c) ==
  /\ step[c] = "begin" /\ writer = c
  /\ Raise(c)
  /\ UNCHANGED <<wal, rows, writer, dirty, call, calls, returned>>

(* "database is locked", or a transaction this connection never ended.     *)
BeginRaises(c) ==
  /\ step[c] = "begin" /\ writer # NoWriter
  /\ Raise(c)
  /\ UNCHANGED <<wal, rows, writer, dirty, call, calls, returned>>

(* MAX(seq) without COALESCE: NULL for the first row of a task.            *)
SelectNull(c) ==
  /\ step[c] = "select"
  /\ \E n \in 0 .. calls :
       /\ IsMaxSeq(rows \cup dirty, call[c].task, n)
       /\ call' = [call EXCEPT ![c].seq = IF n = 0 THEN NoWriter ELSE n + 1]
  /\ GoTo(c, "insert")
  /\ UNCHANGED <<wal, rows, writer, dirty, calls, returned, raised>>

SelectMax(c) ==
  /\ step[c] = "select"
  /\ \E n \in 0 .. calls :
       /\ IsMaxSeq(rows \cup dirty, call[c].task, n)
       /\ call' = [call EXCEPT ![c].seq = n + 1]
  /\ GoTo(c, "insert")
  /\ UNCHANGED <<wal, rows, writer, dirty, calls, returned, raised>>

(* An append that never says COMMIT.                                       *)
InsertReturns(c) ==
  /\ step[c] = "insert"
  /\ call[c].seq \notin SeqsOf(rows \cup dirty, call[c].task)
  /\ dirty' = dirty \cup {call[c]}
  /\ GoTo(c, "return")
  /\ UNCHANGED <<wal, rows, writer, call, calls, returned, raised>>

(* PRIMARY KEY (task_id, seq): a second row of the same key raises.        *)
InsertRow(c) ==
  /\ step[c] = "insert"
  /\ call[c].seq \notin SeqsOf(rows \cup dirty, call[c].task)
  /\ dirty' = dirty \cup {call[c]}
  /\ GoTo(c, "commit")
  /\ UNCHANGED <<wal, rows, writer, call, calls, returned, raised>>

(* The except branch without its ROLLBACK.                                 *)
NoRollback(c) ==
  /\ step[c] \in {"select", "insert"}
  /\ Raise(c)
  /\ UNCHANGED <<wal, rows, writer, dirty, call, calls, returned>>

(* SELECT or INSERT raised: ROLLBACK.                                      *)
StatementRaises(c) ==
  /\ step[c] \in {"select", "insert"}
  /\ EndTx /\ Raise(c)
  /\ UNCHANGED <<wal, rows, call, calls, returned>>

Commit(c) ==
  /\ step[c] = "commit"
  /\ rows' = rows \cup dirty
  /\ EndTx /\ GoTo(c, "return")
  /\ UNCHANGED <<wal, call, calls, returned, raised>>

(* COMMIT is outside the try: nothing rolls back.  In WAL mode SQLite does *)
(* so itself when a commit fails; otherwise a reader may make it fail with *)
(* SQLITE_BUSY, and the transaction stays open.                            *)
CommitRaises(c) ==
  /\ step[c] = "commit"
  /\ EndTx \/ (~wal /\ UNCHANGED <<writer, dirty>>)
  /\ Raise(c)
  /\ UNCHANGED <<wal, rows, call, calls, returned>>

ReturnEvent(c) ==
  /\ step[c] = "return"
  /\ returned' = returned \cup {call[c]}
  /\ GoTo(c, "idle")
  /\ UNCHANGED <<wal, rows, writer, dirty, call, calls, raised>>

(* The process dies, or closes the store after a failed run: SQLite rolls  *)
(* back what was open, and another process opens the file.                 *)
Close(c) ==
  /\ step[c] # "idle" \/ writer = c
  /\ GoTo(c, "idle")
  /\ IF writer = c THEN EndTx ELSE UNCHANGED <<writer, dirty>>
  /\ UNCHANGED <<wal, rows, call, calls, returned, raised>>

Progress(c) ==
  \/ BeginImmediate(c) \/ BeginRaises(c) \/ SelectMax(c) \/ InsertRow(c)
  \/ StatementRaises(c) \/ Commit(c) \/ CommitRaises(c) \/ ReturnEvent(c)

Next == \E c \in Connections : (\E t \in Tasks : Append(c, t)) \/ Progress(c) \/ Close(c)

Spec == Init /\ [][Next]_vars

(* append is synchronous code: a process that is in it goes on with it.    *)
FairSpec == Spec /\ \A c \in Connections : WF_vars(Progress(c))

-----------------------------------------------------------------------------
(* The rows of a task are numbered from 1 without a gap, whatever          *)
(* processes append at the same time, fail or die (store.py 8-10).         *)
SeqsContiguous ==
  \A t \in Tasks : \E n \in {0} \cup SeqsOf(rows, t) : SeqsOf(rows, t) = 1 .. n

(* In WAL mode no transaction outlives the append that opened it, however  *)
(* the append ended: the next append of the connection, and everyone       *)
(* else's, can begin (store.py 88-104).                                    *)
NoTxOutlivesItsAppend == wal => \A c \in Connections : step[c] = "idle" => writer # c

(* Every append ends: it returns, raises or dies with its process; none    *)
(* waits for ever for a transaction nobody will end.                       *)
AppendsEnd == \A c \in Connections : step[c] # "idle" ~> step[c] = "idle"

Log == INSTANCE EpisodicLog WITH Events <- 1 .. MaxCalls

(* The store implements the log its callers rely on: each append takes     *)
(* effect at its COMMIT or never.                                          *)
ImplementsLog == Log!Spec
=============================================================================
