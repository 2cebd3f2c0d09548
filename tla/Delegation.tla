----------------------------- MODULE Delegation -----------------------------
(***************************************************************************)
(* One delegation (agents/kopicode.py, agents/claude_code.py, delegate/,   *)
(* sandbox/): the coroutine delegate() of either backend, on the host or   *)
(* in a sandbox, and how it reads a verdict out of the agent's stream.     *)
(* RunTask and RunTeam take the whole of it as InvokeBackend followed by   *)
(* BackendReturns, BackendErrors or an exception.                          *)
(*                                                                         *)
(* The agents and docker are external.  kopicode runs one tool call at a   *)
(* time and journals its result before the next (delegate/kopicode.py      *)
(* 73-77); Claude Code announces a tool call before it runs and sums up    *)
(* what was denied in its result.  A command the operator allowed may      *)
(* change files too; its lines say nothing of that.  The backends pass no  *)
(* timeout.                                                                *)
(***************************************************************************)
EXTENDS Naturals, Sequences

CONSTANTS
  Paths,
  NoPath,     (* the path of a call without a usable one, and of no call   *)
  NoCall,
  MaxEvents   (* bound: after as many events the agent begins no new call  *)

ASSUME DelegationAssumption ==
  /\ NoPath \notin Paths /\ NoCall \notin Paths \cup {NoPath}
  /\ MaxEvents \in Nat

Backends == {"kopicode", "claude-code"}
Sandboxes == {"none", "container", "e2b"}

VARIABLES
  backend,   (* which AgentBackend is asked                                *)
  sandbox,   (* the SandboxProvider it is given                            *)
  pc,        (* where delegate() stands                                    *)
  policy,    (* whether the temporary policy file exists                   *)
  box,       (* the sandbox created for this call                          *)
  result,    (* what delegate() returns or raises                          *)
  agent,     (* the agent's process                                        *)
  call,      (* the path of the tool call the agent is in                  *)
  stream,    (* what it printed to delegate()                              *)
  denied,    (* whether its permission gate denied anything                *)
  landed,    (* the paths its edit tools changed                           *)
  unseen,    (* the paths a command or any other tool changed              *)
  missing    (* docker exec failed and names a container that is missing   *)

config == <<backend, sandbox>>
session == <<call, stream, denied, landed, unseen>>
vars == <<config, pc, policy, box, result, agent, session, missing>>

(* ok: of a tool_result, no error kind; of the last event, a clean end.    *)
(* flag: of a tool's event, that the tool is one of                        *)
(* _WHOLE_FILE_WRITE_TOOLS or _EDIT_TOOL_NAMES; of Claude Code's result,   *)
(* that permission_denials is not empty.                                   *)
Event(kind, path, ok, flag) ==
  [kind |-> kind, path |-> path, ok |-> ok, flag |-> flag]

(* malformed: a line that is no JSON, or JSON but no object.               *)
EventKinds == {"edit_applied", "tool_call_parsed", "tool_result",
               "permission_denied", "session_ended", "tool_use", "result", "malformed"}

Verdicts == {"completed", "refused", "failed"}
Errors == {"DelegationError", "SandboxError"}
Result(kind, edited) == [kind |-> kind, edited |-> edited]
NoResult == Result("none", {})

TypeOK ==
  /\ backend \in Backends /\ sandbox \in Sandboxes
  /\ pc \in {"begin", "create", "spawn", "await", "destroy", "unlink", "over"}
  /\ policy \in BOOLEAN
  /\ box \in {"none", "live", "gone"}
  /\ result \in [kind : Verdicts \cup Errors \cup {"none"}, edited : SUBSET Paths]
  /\ agent \in {"idle", "working", "exited"}
  /\ call \in Paths \cup {NoPath, NoCall}
  /\ stream \in Seq([kind : EventKinds, path : Paths \cup {NoPath},
                     ok : BOOLEAN, flag : BOOLEAN])
  /\ denied \in BOOLEAN /\ missing \in BOOLEAN
  /\ landed \subseteq Paths /\ unseen \subseteq Paths

Init ==
  /\ backend \in Backends /\ sandbox \in Sandboxes
  /\ pc = "begin" /\ policy = FALSE /\ box = "none" /\ result = NoResult
  /\ agent = "idle" /\ call = NoCall /\ stream = <<>>
  /\ denied = FALSE /\ landed = {} /\ unseen = {} /\ missing = FALSE

-----------------------------------------------------------------------------
(***************************************************************************)
(* The parser and classify_stream, of either backend, as one fold over the *)
(* lines.  A malformed line raises wherever it stands.                     *)
(***************************************************************************)
NothingRead ==
  [edited |-> {}, pending |-> <<>>, deny |-> FALSE, end |-> <<>>, broken |-> FALSE]

(* The error kind of a tool_result is not looked at.                       *)
KopicodeReadsAnyResult(acc, e) ==
  CASE e.kind = "edit_applied" -> [acc EXCEPT !.edited = @ \cup {e.path}]
    [] e.kind = "tool_call_parsed" /\ e.flag -> [acc EXCEPT !.pending = Append(@, e.path)]
    [] e.kind = "tool_result" /\ e.flag /\ acc.pending # <<>> ->
         [acc EXCEPT !.pending = Tail(@), !.edited = @ \cup ({Head(acc.pending)} \ {NoPath})]
    [] e.kind = "permission_denied" -> [acc EXCEPT !.deny = TRUE]
    [] e.kind = "session_ended" -> [acc EXCEPT !.end = <<e>>]
    [] OTHER -> acc

KopicodeReads(acc, e) ==
  CASE e.kind = "edit_applied" -> [acc EXCEPT !.edited = @ \cup {e.path}]
    [] e.kind = "tool_call_parsed" /\ e.flag -> [acc EXCEPT !.pending = Append(@, e.path)]
    [] e.kind = "tool_result" /\ e.flag /\ acc.pending # <<>> ->
         [acc EXCEPT !.pending = Tail(@),
                     !.edited = @ \cup IF e.ok THEN {Head(acc.pending)} \ {NoPath} ELSE {}]
    [] e.kind = "permission_denied" -> [acc EXCEPT !.deny = TRUE]
    [] e.kind = "session_ended" -> [acc EXCEPT !.end = <<e>>]
    [] OTHER -> acc

ClaudeReads(acc, e) ==
  CASE e.kind = "tool_use" /\ e.flag ->
         [acc EXCEPT !.edited = @ \cup ({e.path} \ {NoPath})]
    [] e.kind = "result" -> [acc EXCEPT !.end = <<e>>, !.deny = e.flag]
    [] OTHER -> acc

Reads(who, acc, e) ==
  IF e.kind = "malformed" THEN [acc EXCEPT !.broken = TRUE]
  ELSE IF who = "kopicode" THEN KopicodeReads(acc, e)
  ELSE ClaudeReads(acc, e)

Read(who, events) ==
  LET reads[n \in 0 .. Len(events)] ==
        IF n = 0 THEN NothingRead ELSE Reads(who, reads[n - 1], events[n])
  IN reads[Len(events)]

(* A session that ended badly is taken for no session.                     *)
KopicodeVerdictRaises(read) ==
  CASE read.edited # {} -> Result("completed", read.edited)
    [] read.edited = {} /\ read.deny -> Result("refused", {})
    [] read.edited = {} /\ ~read.deny /\ read.end[1].ok -> Result("completed", {})
    [] OTHER -> Result("DelegationError", {})

(* Edits come first: a denial beside them, or an unclean end, is ignored.  *)
KopicodeVerdict(read) ==
  CASE read.edited # {} -> Result("completed", read.edited)
    [] read.edited = {} /\ read.deny -> Result("refused", {})
    [] read.edited = {} /\ ~read.deny /\ read.end[1].ok -> Result("completed", {})
    [] OTHER -> Result("failed", {})

(* The edits are left out of the outcome.                                  *)
ClaudeVerdictBare(read) ==
  CASE read.deny -> Result("refused", {})
    [] ~read.deny /\ ~read.end[1].ok -> Result("failed", {})
    [] OTHER -> Result("completed", {})

(* Denials come first.                                                     *)
ClaudeVerdict(read) ==
  CASE read.deny -> Result("refused", {})
    [] ~read.deny /\ ~read.end[1].ok -> Result("failed", {})
    [] OTHER -> Result("completed", read.edited)

(* classify_..._output: a stream with a malformed line, or without its     *)
(* last event, has no verdict.                                             *)
Classify(who, events) ==
  LET read == Read(who, events) IN
    IF read.broken \/ read.end = <<>> THEN Result("DelegationError", {})
    ELSE IF who = "kopicode" THEN KopicodeVerdict(read)
    ELSE ClaudeVerdict(read)

-----------------------------------------------------------------------------
(***************************************************************************)
(* delegate().                                                             *)
(***************************************************************************)
(* kopicode's policy file is written.                                      *)
Begin ==
  /\ pc = "begin"
  /\ policy' = (backend = "kopicode")
  /\ pc' = IF sandbox = "none" THEN "spawn" ELSE "create"
  /\ UNCHANGED <<config, box, result, agent, session, missing>>

(* FileNotFoundError on the host, shutil.which before a sandbox is made.   *)
BinaryMissing ==
  /\ \/ pc = "create"
     \/ pc = "spawn" /\ sandbox = "none"
  /\ result' = Result("DelegationError", {})
  /\ pc' = "unlink"
  /\ UNCHANGED <<config, policy, box, agent, session, missing>>

(* The root is always mounted, and E2B refuses mounts.                     *)
Create ==
  /\ pc = "create" /\ sandbox = "container"
  /\ box' = "live" /\ pc' = "spawn"
  /\ UNCHANGED <<config, policy, result, agent, session, missing>>

CreateRaises ==
  /\ pc = "create"
  /\ result' = Result("SandboxError", {})
  /\ pc' = "unlink"
  /\ UNCHANGED <<config, policy, box, agent, session, missing>>

Spawn ==
  /\ pc = "spawn"
  /\ agent' = "working" /\ pc' = "await"
  /\ UNCHANGED <<config, policy, box, result, session, missing>>

(* The finally clauses: destroy, then unlink.                              *)
Unwind == pc' = IF sandbox = "none" THEN "unlink" ELSE "destroy"

(* It waits for the event that ends the session, not for the stream's end. *)
AwaitsEndEvent ==
  /\ pc = "await" /\ agent = "exited" /\ ~missing
  /\ Read(backend, stream).end # <<>>
  /\ result' = Classify(backend, stream) /\ Unwind
  /\ UNCHANGED <<config, policy, box, agent, session, missing>>

AwaitReturns ==
  /\ pc = "await" /\ agent = "exited" /\ ~missing
  /\ result' = Classify(backend, stream) /\ Unwind
  /\ UNCHANGED <<config, policy, box, agent, session, missing>>

(* A failed exec is taken for the end of its container.                    *)
CutSkipsDestroy ==
  /\ pc = "await" /\ sandbox # "none" /\ agent = "working"
  /\ result' = Classify(backend, stream) /\ pc' = "unlink"
  /\ UNCHANGED <<config, policy, box, agent, session, missing>>

(* docker exec ends without its agent: what was printed so far is read.    *)
AwaitCut ==
  /\ pc = "await" /\ sandbox # "none" /\ agent = "working"
  /\ result' = Classify(backend, stream) /\ Unwind
  /\ UNCHANGED <<config, policy, box, agent, session, missing>>

(* A failed docker exec with "No such container" in its stderr, whatever   *)
(* became of the container, is a SandboxError, turned into a               *)
(* DelegationError; what was printed is not read.                          *)
ExecRaises ==
  /\ pc = "await" /\ sandbox # "none"
  /\ missing \/ agent = "working"
  /\ missing' = TRUE
  /\ result' = Result("DelegationError", {}) /\ Unwind
  /\ UNCHANGED <<config, policy, box, agent, session>>

(* rm -f, which also passes when the container is gone.                    *)
Destroy ==
  /\ pc = "destroy"
  /\ box' = "gone" /\ agent' = "exited" /\ pc' = "unlink"
  /\ UNCHANGED <<config, policy, result, session, missing>>

(* The error of a finally clause replaces the outcome.                     *)
DestroyRaises ==
  /\ pc = "destroy" /\ box = "live"
  /\ result' = Result("SandboxError", {}) /\ pc' = "unlink"
  /\ UNCHANGED <<config, policy, box, agent, session, missing>>

Unlink ==
  /\ pc = "unlink"
  /\ policy' = FALSE /\ pc' = "over"
  /\ UNCHANGED <<config, box, result, agent, session, missing>>

-----------------------------------------------------------------------------
(***************************************************************************)
(* The agent at work, and what happens to it.                              *)
(***************************************************************************)
Working == agent = "working" /\ Len(stream) < MaxEvents

(* Nobody listens any more once docker exec was cut off.                   *)
Prints(e) == stream' = IF pc = "await" THEN Append(stream, e) ELSE stream

(* With its agent docker exec ends, in whatever way it says so.            *)
ExecEnds == missing' \in IF pc = "await" /\ sandbox # "none" THEN BOOLEAN ELSE {missing}

Outside == <<config, pc, policy, box, result>>

(* edit_file: kopicode journals the edit itself.                           *)
EditFile(p) ==
  /\ backend = "kopicode" /\ Working /\ call = NoCall
  /\ landed' = landed \cup {p}
  /\ Prints(Event("edit_applied", p, TRUE, FALSE))
  /\ UNCHANGED <<Outside, agent, call, denied, unseen, missing>>

(* kopicode's write_file and delete_file; Claude Code's Write, Edit and    *)
(* MultiEdit.                                                              *)
StartTool(p) ==
  /\ Working /\ call = NoCall
  /\ call' = p
  /\ Prints(Event(IF backend = "kopicode" THEN "tool_call_parsed" ELSE "tool_use",
                  p, TRUE, TRUE))
  /\ UNCHANGED <<Outside, agent, denied, landed, unseen, missing>>

FinishTool(ok) ==
  /\ agent = "working" /\ call # NoCall
  /\ ok => call # NoPath
  /\ landed' = IF ok THEN landed \cup {call} ELSE landed
  /\ call' = NoCall
  /\ IF backend = "kopicode" THEN Prints(Event("tool_result", NoPath, ok, TRUE))
     ELSE UNCHANGED stream
  /\ UNCHANGED <<Outside, agent, denied, unseen, missing>>

(* Any other tool, a command that was allowed among them: each of its      *)
(* lines, which may name a path, and a change it may make.                 *)
UseOther(p) ==
  /\ Working /\ call = NoCall
  /\ unseen' \in {unseen, unseen \cup {p}}
  /\ \E kind \in IF backend = "kopicode" THEN {"tool_call_parsed", "tool_result"}
                ELSE {"tool_use"} :
       Prints(Event(kind, p, TRUE, FALSE))
  /\ UNCHANGED <<Outside, agent, call, denied, landed, missing>>

(* Something that is no event gets into its output.                        *)
Garble ==
  /\ Working
  /\ Prints(Event("malformed", NoPath, FALSE, FALSE))
  /\ UNCHANGED <<Outside, agent, call, denied, landed, unseen, missing>>

(* The gate denies the tool call, which then fails, or a command.          *)
Deny ==
  /\ Working
  /\ denied' = TRUE
  /\ call' = IF call = NoCall THEN NoCall ELSE NoPath
  /\ IF backend = "kopicode" THEN Prints(Event("permission_denied", NoPath, FALSE, FALSE))
     ELSE UNCHANGED stream
  /\ UNCHANGED <<Outside, agent, landed, unseen, missing>>

EndSession(clean) ==
  /\ agent = "working" /\ call = NoCall
  /\ agent' = "exited"
  /\ Prints(IF backend = "kopicode" THEN Event("session_ended", NoPath, clean, FALSE)
            ELSE Event("result", NoPath, clean, denied))
  /\ ExecEnds
  /\ UNCHANGED <<Outside, call, denied, landed, unseen>>

(* It dies, perhaps after the change and before the line that tells of it. *)
Die ==
  /\ agent = "working"
  /\ agent' = "exited" /\ call' = NoCall
  /\ landed' \in {landed, landed \cup ({call} \ {NoCall, NoPath})}
  /\ ExecEnds
  /\ UNCHANGED <<Outside, stream, denied, unseen>>

ContainerLost ==
  /\ box = "live" /\ agent = "working"
  /\ box' = "gone" /\ agent' = "exited" /\ ExecEnds
  /\ UNCHANGED <<config, pc, policy, result, session>>

-----------------------------------------------------------------------------
Coroutine ==
  \/ Begin \/ BinaryMissing \/ Create \/ CreateRaises \/ Spawn
  \/ AwaitReturns \/ AwaitCut \/ ExecRaises
  \/ Destroy \/ DestroyRaises \/ Unlink

Agent ==
  \/ \E p \in Paths : EditFile(p) \/ UseOther(p)
  \/ \E p \in Paths \cup {NoPath} : StartTool(p)
  \/ \E b \in BOOLEAN : FinishTool(b) \/ EndSession(b)
  \/ Garble \/ Deny \/ Die \/ ContainerLost

Next == Coroutine \/ Agent

Spec == Init /\ [][Next]_vars

(* The coroutine goes on whenever it can; an agent may never answer.  That *)
(* docker exec is cut off is not something to rely on.                     *)
Progress == Coroutine /\ ~(pc = "await" /\ agent = "working")

FairSpec == Spec /\ WF_vars(Progress)

-----------------------------------------------------------------------------
(* Whatever kopicode's verdict, its outcome names exactly the files its    *)
(* edit tools changed: failed, denied and whole-file calls, calls without  *)
(* a path and the calls of other tools are told apart                      *)
(* (delegate/kopicode.py 41-47, 70-133).  What a command changed is in no  *)
(* outcome.                                                                *)
KopicodeReportsItsEdits ==
  backend = "kopicode" /\ result.kind \in Verdicts => result.edited = landed

(* A session that was recorded to its end, cleanly or not, is an outcome.  *)
(* A DelegationError is a stream with no end in it, a line that is no      *)
(* event (delegate/kopicode.py 160-165, claude_code.py 208-209), or, in a  *)
(* sandbox, a docker exec that failed and speaks of a missing container.   *)
RecordedSessionIsNoError ==
  result.kind = "DelegationError" =>
    LET read == Read(backend, stream) IN
      read.end = <<>> \/ read.broken \/ (missing /\ sandbox # "none")

(* Whichever way delegate() is left, no policy file, no sandbox and no     *)
(* agent at work is left behind, unless destroy itself failed              *)
(* (agents/kopicode.py 73-94, 119-129).                                    *)
NothingLeftBehind ==
  pc = "over" =>
    /\ ~policy
    /\ box = "live" \/ agent = "working" => result.kind = "SandboxError"

(* Once the agent is gone, however it went, delegate() comes to its end.   *)
CallEnds == agent = "exited" ~> pc = "over"

(* What the workflow sees of result, once the finally clauses are through. *)
answered == IF pc = "over" THEN result ELSE NoResult

Call == INSTANCE AgentCall WITH answer <- answered

(* However the agent, its container or docker exec end, a delegation keeps *)
(* what AgentCall promises: one answer, no completed verdict that hides an *)
(* edit of an edit tool (agents/outcome.py 33-34, delegate/claude_code.py  *)
(* 73, 122-185), and no change of any kind behind the workflow's back      *)
(* (agents/kopicode.py 109-129).                                           *)
ImplementsAgentCall == Call!Spec

-----------------------------------------------------------------------------
(* "the backend's own permission gate declined the action it needed, and   *)
(* no edit landed as a result" (agents/outcome.py 35-36).                  *)
RefusedLandsNothing == result.kind = "refused" => landed = {}
=============================================================================
