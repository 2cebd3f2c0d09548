------------------------------ MODULE TeamRuns ------------------------------
(***************************************************************************)
(* What the fleet promises of the teams' runs: a run begins once, on one   *)
(* checkout, may be interrupted and taken up again any number of times,    *)
(* ends at most once and for good, and at no time do two runs work on one  *)
(* checkout.                                                               *)
(***************************************************************************)
CONSTANTS Teams, Roots, NoRoot

VARIABLES
  checkout,   (* where each run works, NoRoot before it begins             *)
  live,       (* the runs a process is driving                             *)
  ended       (* the runs that are terminal                                *)

vars == <<checkout, live, ended>>

Init ==
  /\ checkout = [t \in Teams |-> NoRoot]
  /\ live = {} /\ ended = {}

Free(r) == \A u \in live : checkout[u] # r

Begin(t) ==
  /\ checkout[t] = NoRoot
  /\ \E r \in Roots : Free(r) /\ checkout' = [checkout EXCEPT ![t] = r]
  /\ live' = live \cup {t}
  /\ UNCHANGED ended

Resume(t) ==
  /\ checkout[t] # NoRoot /\ t \notin live \cup ended
  /\ Free(checkout[t])
  /\ live' = live \cup {t}
  /\ UNCHANGED <<checkout, ended>>

End(t) ==
  /\ t \in live
  /\ live' = live \ {t} /\ ended' = ended \cup {t}
  /\ UNCHANGED checkout

(* A driver dies, or the process with all of them.                         *)
Interrupt ==
  /\ live # {}
  /\ \E alive \in SUBSET live : live' = alive
  /\ UNCHANGED <<checkout, ended>>

Next == Interrupt \/ \E t \in Teams : Begin(t) \/ Resume(t) \/ End(t)

Spec == Init /\ [][Next]_vars
=============================================================================
