----------------------------- MODULE EpisodicLog -----------------------------
(***************************************************************************)
(* What the episodic journal promises its callers: an append takes effect  *)
(* at one instant or never, the rows of a task are numbered 1, 2, 3, ...   *)
(* without a gap, no row is ever changed or removed, a caller is handed    *)
(* only rows that are there, and an append that raised has left no row and *)
(* never will.  An event names the append call that writes it.              *)
(***************************************************************************)
EXTENDS Naturals

CONSTANTS Tasks, Events

VARIABLES
  rows,      (* the journal: a set of [task, seq, event]                   *)
  returned,  (* the rows handed back to their callers                      *)
  raised     (* the appends that raised                                    *)

vars == <<rows, returned, raised>>

SeqsOf(table, t)  == {r.seq : r \in {r \in table : r.task = t}}
EventsOf(table)   == {r.event : r \in table}

Init == rows = {} /\ returned = {} /\ raised = {}

Append(t, event) ==
  /\ event \notin raised \cup EventsOf(rows)
  /\ \E n \in {0} \cup SeqsOf(rows, t) :
       /\ SeqsOf(rows, t) = 1 .. n
       /\ rows' = rows \cup {[task |-> t, seq |-> n + 1, event |-> event]}
  /\ UNCHANGED <<returned, raised>>

Return(row) ==
  /\ row \in rows \ returned
  /\ returned' = returned \cup {row}
  /\ UNCHANGED <<rows, raised>>

Raise(event) ==
  /\ event \notin EventsOf(rows)
  /\ raised' = raised \cup {event}
  /\ UNCHANGED <<rows, returned>>

Next ==
  \/ \E t \in Tasks, event \in Events : Append(t, event)
  \/ \E row \in rows : Return(row)
  \/ \E event \in Events : Raise(event)

Spec == Init /\ [][Next]_vars
=============================================================================
