----------------------------- MODULE PreparedRuns -----------------------------
(***************************************************************************)
(* How a run gets its configuration and its secrets: prepare_run           *)
(* (config.py), the runtime its tasks see (runtime.py), the delegation     *)
(* task that resolves the secrets once more (tasks/delegate.py), the       *)
(* encrypted store of a project's root (secrets/store.py) and the          *)
(* "cuttlefish secrets" commands of another terminal (cli.py).             *)
(*                                                                         *)
(* A project has one run at a time, of the CLI or of the fleet daemon,     *)
(* which drives several in one process.  Reading the store is not          *)
(* transactional: every get is a statement of its own, and another process *)
(* may write between two of them.                                          *)
(***************************************************************************)
EXTENDS Naturals

CONSTANTS
  Projects,   (* each with its root, its secrets.db and its scope in it    *)
  NoProject,
  Names,      (* the names of secrets                                      *)
  Ambient,    (* CREDENTIAL_ENV_VARS of the backend, tried undeclared      *)
  Values,
  Keys,       (* valid Fernet keys                                         *)
  Absent,     (* no row under a scope and name                             *)
  MaxWrites   (* bound: secrets set or deleted                             *)

ASSUME PreparedRunsAssumption ==
  /\ NoProject \notin Projects /\ Ambient \subseteq Names
  /\ Absent \notin [value : Values, key : Keys] /\ Absent \notin Values
  /\ Keys \cap {"unset", "empty", "malformed"} = {}
  /\ MaxWrites \in Nat

VARIABLES
  rows,      (* each project's secrets.db                                  *)
  key,       (* CUTTLEFISH_SECRETS_KEY in the environment of its run       *)
  declared,  (* the run's secret_names                                     *)
  phase,     (* how far the run has come                                   *)
  secrets,   (* the connection of its SecretsStore                         *)
  episodic,  (* the connection of its EpisodicStore                        *)
  context,   (* whose Runtime the run's tasks find in the ContextVar       *)
  lookups,   (* the gets that the resolve in progress has yet to make      *)
  resolved,  (* the dict it builds, or built last                          *)
  been,      (* history: what each row has been since it began             *)
  deleted,   (* history: the names deleted since prepare_run began         *)
  writes

stores == <<secrets, episodic>>
resolve == <<lookups, resolved, been>>
files == <<rows, deleted, writes>>
vars == <<files, key, declared, phase, stores, context, resolve>>

Scopes == {"own", "shared"}
Row == [value : Values, key : Keys]
Environment == Keys \cup {"unset", "empty", "malformed"}
Connection == {"none", "open", "closed",
               "dropped"}  (* left open by whoever opened it               *)

TypeOK ==
  /\ rows \in [Projects -> [Scopes -> [Names -> Row \cup {Absent}]]]
  /\ key \in [Projects -> Environment]
  /\ declared \in [Projects -> SUBSET Names]
  /\ phase \in [Projects -> {"new", "opening", "resolving", "resolved", "prepared",
                             "running", "delegating", "delegated", "over", "ended",
                             "refused", "raised"}]
  /\ secrets \in [Projects -> Connection] /\ episodic \in [Projects -> Connection]
  /\ context \in [Projects -> Projects \cup {NoProject}]
  /\ lookups \in [Projects -> SUBSET (Scopes \X Names)]
  /\ resolved \in [Projects -> [Names -> Values \cup {Absent}]]
  /\ been \in [Projects -> SUBSET (Scopes \X Names \X (Values \cup {Absent}))]
  /\ deleted \in [Projects -> SUBSET Names]
  /\ writes \in 0 .. MaxWrites

Nothing == [n \in Names |-> Absent]

Init ==
  /\ rows = [p \in Projects |-> [s \in Scopes |-> Nothing]]
  /\ key \in [Projects -> Environment] /\ declared \in [Projects -> SUBSET Names]
  /\ phase = [p \in Projects |-> "new"]
  /\ secrets = [p \in Projects |-> "none"] /\ episodic = [p \in Projects |-> "none"]
  /\ context = [p \in Projects |-> NoProject]
  /\ lookups = [p \in Projects |-> {}] /\ resolved = [p \in Projects |-> Nothing]
  /\ been = [p \in Projects |-> {}] /\ deleted = [p \in Projects |-> {}]
  /\ writes = 0

-----------------------------------------------------------------------------
Step(p, from, next) == phase[p] = from /\ phase' = [phase EXCEPT ![p] = next]

(***************************************************************************)
(* SecretsStore.resolve: every name in the project's own scope, then in    *)
(* the shared one.                                                         *)
(***************************************************************************)
ValueOf(row) == IF row = Absent THEN Absent ELSE row.value

(* The shared scope wins.                                                  *)
SharedFirst == "shared"

FirstScope == "own"

BeginResolve(p, names) ==
  /\ lookups' = [lookups EXCEPT ![p] = {FirstScope} \X names]
  /\ resolved' = [resolved EXCEPT ![p] = Nothing]
  /\ been' = [been EXCEPT ![p] =
                {<<s, n, ValueOf(rows[p][s][n])>> : s \in Scopes, n \in Names}]

(* The dict is a local of the call that resolves.                          *)
EndResolve(p) ==
  /\ lookups' = [lookups EXCEPT ![p] = {}]
  /\ resolved' = [resolved EXCEPT ![p] = Nothing]
  /\ been' = [been EXCEPT ![p] = {}]

(* A name's second get follows its first.                                  *)
NextLookup(p, s, n) ==
  /\ <<s, n>> \in lookups[p]
  /\ s = FirstScope => lookups[p] \subseteq {FirstScope} \X Names

(* The root whose store is read: prepare_run has just opened the run's     *)
(* own, a delegation uses the one of the runtime it finds.                 *)
RootOf(p) == IF phase[p] = "delegating" THEN context[p] ELSE p

Resolving(p) == phase[p] \in {"resolving", "delegating"}

GetFinds(p, s, n) ==
  LET row == rows[RootOf(p)][s][n] IN
    /\ Resolving(p) /\ NextLookup(p, s, n)
    /\ row # Absent /\ row.key = key[RootOf(p)]
    /\ resolved' = [resolved EXCEPT ![p][n] = row.value]
    /\ lookups' = [lookups EXCEPT ![p] = @ \ {<<s, n>>}]
    /\ UNCHANGED <<files, key, declared, phase, stores, context, been>>

GetFindsNone(p, s, n) ==
  /\ Resolving(p) /\ NextLookup(p, s, n)
  /\ rows[RootOf(p)][s][n] = Absent
  /\ lookups' = [lookups EXCEPT ![p] =
                   (@ \ {<<s, n>>}) \cup
                     IF s = FirstScope THEN (Scopes \ {s}) \X {n} ELSE {}]
  /\ UNCHANGED <<files, key, declared, phase, stores, context, resolved, been>>

(* SQLite may raise on any get, as when another process holds the file     *)
(* longer than the connection waits; a row written under another key is an *)
(* InvalidToken.  prepare_run is left with its store open; a delegation    *)
(* fails, which ends a task and leaves a team to its other roles.          *)
GetRaises(p, s, n) ==
  /\ Resolving(p) /\ NextLookup(p, s, n)
  /\ \/ /\ Step(p, "resolving", "raised")
        /\ secrets' = [secrets EXCEPT ![p] = "dropped"]
     \/ /\ Step(p, "delegating", "over") \/ Step(p, "delegating", "running")
        /\ UNCHANGED secrets
  /\ EndResolve(p)
  /\ UNCHANGED <<files, key, declared, episodic, context>>

-----------------------------------------------------------------------------
(***************************************************************************)
(* prepare_run.                                                            *)
(***************************************************************************)
(* The backend, its binary, the LLM provider and the sandbox provider, or  *)
(* a ConfigError before any store is opened.                               *)
ResolveSeams(p) ==
  /\ \/ Step(p, "new", "opening")
     \/ Step(p, "new", "refused")
  /\ deleted' = [deleted EXCEPT ![p] = {}]
  /\ UNCHANGED <<rows, writes, key, declared, stores, context, resolve>>

(* resolve_secrets_store, and what resolve_project_secrets does without a  *)
(* store.                                                                  *)
NoSecretsStore(p) ==
  /\ key[p] = "unset"
  /\ Step(p, "opening", IF declared[p] = {} THEN "resolved" ELSE "refused")
  /\ UNCHANGED <<files, key, declared, stores, context, resolve>>

OpenSecretsStore(p) ==
  /\ key[p] \in Keys /\ Step(p, "opening", "resolving")
  /\ secrets' = [secrets EXCEPT ![p] = "open"]
  /\ BeginResolve(p, declared[p] \cup Ambient)
  /\ UNCHANGED <<files, key, declared, episodic, context>>

(* The directory that cannot be made, before there is a connection, or the *)
(* table's CREATE or its commit, after.                                    *)
SecretsStoreRaises(p) ==
  /\ key[p] # "unset" /\ Step(p, "opening", "raised")
  /\ \/ UNCHANGED secrets
     \/ secrets' = [secrets EXCEPT ![p] = "dropped"]
  /\ UNCHANGED <<files, key, declared, episodic, context, resolve>>

(* The connection is there before the key is looked at; a malformed key is *)
(* a ConfigError, an empty one is not.                                     *)
SecretsKeyRaises(p) ==
  /\ \/ key[p] = "malformed" /\ Step(p, "opening", "refused")
     \/ key[p] = "empty" /\ Step(p, "opening", "raised")
  /\ secrets' = [secrets EXCEPT ![p] = "dropped"]
  /\ UNCHANGED <<files, key, declared, episodic, context, resolve>>

Missing(p) == {n \in declared[p] : resolved[p][n] = Absent}

(* except ConfigError: the store is closed.                                *)
SecretMissing(p) ==
  /\ lookups[p] = {} /\ Missing(p) # {}
  /\ Step(p, "resolving", "refused")
  /\ secrets' = [secrets EXCEPT ![p] = "closed"]
  /\ EndResolve(p)
  /\ UNCHANGED <<files, key, declared, episodic, context>>

(* The names that were not found are not looked at.                        *)
SecretsFoundAlways(p) ==
  /\ lookups[p] = {}
  /\ Step(p, "resolving", "resolved")
  /\ EndResolve(p)
  /\ UNCHANGED <<files, key, declared, stores, context>>

SecretsFound(p) ==
  /\ lookups[p] = {} /\ Missing(p) = {}
  /\ Step(p, "resolving", "resolved")
  /\ EndResolve(p)
  /\ UNCHANGED <<files, key, declared, stores, context>>

OpenEpisodicStore(p) ==
  /\ Step(p, "resolved", "prepared")
  /\ episodic' = [episodic EXCEPT ![p] = "open"]
  /\ UNCHANGED <<files, key, declared, secrets, context, resolve>>

(* An open store that no one is left to close.                             *)
Drop(connection) == IF connection = "open" THEN "dropped" ELSE connection

(* Nothing catches an error of the second store, whose connection may be   *)
(* there already.                                                          *)
EpisodicStoreRaises(p) ==
  /\ Step(p, "resolved", "raised")
  /\ secrets' = [secrets EXCEPT ![p] = Drop(@)]
  /\ \/ UNCHANGED episodic
     \/ episodic' = [episodic EXCEPT ![p] = "dropped"]
  /\ UNCHANGED <<files, key, declared, context, resolve>>

-----------------------------------------------------------------------------
(***************************************************************************)
(* The run.                                                                *)
(***************************************************************************)
(* A module global: the run configured last is everyone's.                 *)
ConfigureAll(p) ==
  /\ Step(p, "prepared", "running")
  /\ context' = [q \in Projects |-> p]
  /\ UNCHANGED <<files, key, declared, stores, resolve>>

(* runtime.configure, in the context of the process, or of the task that   *)
(* drives the team.                                                        *)
Configure(p) ==
  /\ Step(p, "prepared", "running")
  /\ context' = [context EXCEPT ![p] = p]
  /\ UNCHANGED <<files, key, declared, stores, resolve>>

(* shlex.split raises a ValueError on an --allow with an open quotation:   *)
(* the CLI has configured the run by then and is not yet in the try whose  *)
(* finally closes the stores.                                              *)
AllowRaises(p) ==
  /\ Step(p, "prepared", "raised")
  /\ context' = [context EXCEPT ![p] = p]
  /\ secrets' = [secrets EXCEPT ![p] = Drop(@)]
  /\ episodic' = [episodic EXCEPT ![p] = Drop(@)]
  /\ UNCHANGED <<files, key, declared, resolve>>

(* delegate_to_agent_backend.                                              *)
Delegate(p) ==
  /\ Step(p, "running", "delegating")
  /\ BeginResolve(p, IF secrets[context[p]] = "none" THEN {} ELSE declared[p] \cup Ambient)
  /\ UNCHANGED <<files, key, declared, stores, context>>

(* Whatever was found goes to the backend.                                 *)
InvokeBackend(p) ==
  /\ lookups[p] = {} /\ Step(p, "delegating", "delegated")
  /\ UNCHANGED <<files, key, declared, stores, context, resolve>>

BackendReturns(p) ==
  /\ Step(p, "delegated", "running")
  /\ EndResolve(p)
  /\ UNCHANGED <<files, key, declared, stores, context>>

(* Returned, failed or stopped.                                            *)
RunEnds(p) ==
  /\ phase[p] \in {"running", "delegated"}
  /\ phase' = [phase EXCEPT ![p] = "over"]
  /\ EndResolve(p)
  /\ UNCHANGED <<files, key, declared, stores, context>>

(* prepared.close in the finally.                                          *)
Close(p) ==
  /\ Step(p, "over", "ended")
  /\ episodic' = [episodic EXCEPT ![p] = "closed"]
  /\ secrets' = [secrets EXCEPT ![p] = IF @ = "open" THEN "closed" ELSE @]
  /\ UNCHANGED <<files, key, declared, context, resolve>>

-----------------------------------------------------------------------------
(***************************************************************************)
(* "cuttlefish secrets set" and "delete", run in the root of p until its   *)
(* run, the only reader, has ended.                                        *)
(***************************************************************************)
Ended(p) == phase[p] \in {"ended", "refused", "raised"}

Write(p, s, n, row) ==
  /\ ~Ended(p) /\ writes < MaxWrites /\ writes' = writes + 1
  /\ rows' = [rows EXCEPT ![p][s][n] = row]
  /\ been' = [been EXCEPT ![p] = IF Resolving(p) THEN @ \cup {<<s, n, ValueOf(row)>>} ELSE @]
  /\ UNCHANGED <<key, declared, phase, stores, context, lookups, resolved>>

SetSecret(p, s, n) ==
  /\ \E row \in Row : Write(p, s, n, row)
  /\ UNCHANGED deleted

DeleteSecret(p, s, n) ==
  /\ rows[p][s][n] # Absent /\ Write(p, s, n, Absent)
  /\ deleted' = [deleted EXCEPT ![p] = @ \cup {n}]

-----------------------------------------------------------------------------
Lookup(p, s, n) == GetFinds(p, s, n) \/ GetFindsNone(p, s, n) \/ GetRaises(p, s, n)

Prepare(p) ==
  \/ ResolveSeams(p) \/ NoSecretsStore(p) \/ OpenSecretsStore(p)
  \/ SecretsStoreRaises(p) \/ SecretsKeyRaises(p) \/ SecretMissing(p) \/ SecretsFound(p)
  \/ OpenEpisodicStore(p) \/ EpisodicStoreRaises(p)

Drive(p) ==
  \/ Configure(p) \/ AllowRaises(p) \/ Delegate(p) \/ InvokeBackend(p) \/ BackendReturns(p)
  \/ RunEnds(p) \/ Close(p)

Next ==
  \E p \in Projects :
    \/ Prepare(p) \/ Drive(p)
    \/ \E s \in Scopes, n \in Names :
         Lookup(p, s, n) \/ SetSecret(p, s, n) \/ DeleteSecret(p, s, n)

Spec == Init /\ [][Next]_vars

-----------------------------------------------------------------------------
(***************************************************************************)
(* Safety.                                                                 *)
(***************************************************************************)
(* What a row has been since the resolve of p began.                       *)
Was(p, s, n, v) == <<s, n, v>> \in been[p]

(* Although the rows are read one by one while other processes write them, *)
(* a backend is given a value its project had under that name in the       *)
(* meantime: its own wins over the shared one unless it was not there for  *)
(* a moment, and a name is left out only if each scope lacked it for a     *)
(* moment (secrets/store.py 128-142, tasks/delegate.py 51-55).             *)
SecretsAreTheProjects ==
  \A p \in Projects : phase[p] = "delegated" /\ secrets[p] # "none" =>
    \A n \in declared[p] \cup Ambient :
      LET v == resolved[p][n] IN
        \/ v # Absent /\ Was(p, "own", n, v)
        \/ Was(p, "own", n, Absent) /\ Was(p, "shared", n, v)

(* A run that was accepted has the secrets it declares, in every one of    *)
(* its delegations, except for a name that was deleted since               *)
(* (config.py 153-179).                                                    *)
AcceptedRunHasItsSecrets ==
  \A p \in Projects : phase[p] = "delegated" =>
    \A n \in declared[p] : resolved[p][n] # Absent \/ n \in deleted[p]

(* A run in progress sees its own runtime, whatever other run the process  *)
(* prepares, drives or closes meanwhile, and that runtime's stores stay    *)
(* open until the run is over (runtime.py 71-84, daemon.py 184-221).       *)
RunHasItsOwnRuntime ==
  \A p \in Projects : phase[p] \in {"running", "delegating", "delegated", "over"} =>
    /\ context[p] = p
    /\ episodic[context[p]] = "open"
    /\ secrets[context[p]] = (IF key[p] = "unset" THEN "none" ELSE "open")
=============================================================================
