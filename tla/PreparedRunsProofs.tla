-------------------------- MODULE PreparedRunsProofs --------------------------
(***************************************************************************)
(* Proofs about PreparedRuns, for every set of projects, names, values and *)
(* keys, and any number of writes by other processes.                      *)
(***************************************************************************)
EXTENDS PreparedRuns, TLAPS

(* The value of a row is one of the values, or the row is not there.       *)
LEMMA RowValue ==
  ASSUME NEW row \in Row \cup {Absent}
  PROVE  /\ ValueOf(row) \in Values \cup {Absent}
         /\ ValueOf(row) = Absent <=> row = Absent
         /\ row # Absent => ValueOf(row) = row.value /\ row.value # Absent
BY PreparedRunsAssumption DEF ValueOf, Row

-----------------------------------------------------------------------------
(***************************************************************************)
(* Types.                                                                  *)
(***************************************************************************)
LEMMA InitialTypes == Init => TypeOK
BY PreparedRunsAssumption DEF Init, TypeOK, Nothing, Environment, Connection

LEMMA BeginTypes ==
  ASSUME TypeOK, NEW p \in Projects, NEW names \in SUBSET Names, BeginResolve(p, names)
  PROVE  /\ lookups' \in [Projects -> SUBSET (Scopes \X Names)]
         /\ resolved' \in [Projects -> [Names -> Values \cup {Absent}]]
         /\ been' \in [Projects -> SUBSET (Scopes \X Names \X (Values \cup {Absent}))]
<1> USE DEF TypeOK, BeginResolve
<1>1. {FirstScope} \X names \in SUBSET (Scopes \X Names)
  BY DEF FirstScope, Scopes
<1>2. Nothing \in [Names -> Values \cup {Absent}]
  BY DEF Nothing
<1>3. \A s \in Scopes, n \in Names : ValueOf(rows[p][s][n]) \in Values \cup {Absent}
  BY RowValue
<1>4. {<<s, n, ValueOf(rows[p][s][n])>> : s \in Scopes, n \in Names}
        \in SUBSET (Scopes \X Names \X (Values \cup {Absent}))
  BY <1>3
<1> QED BY <1>1, <1>2, <1>4

LEMMA EndTypes ==
  ASSUME TypeOK, NEW p \in Projects, EndResolve(p)
  PROVE  /\ lookups' \in [Projects -> SUBSET (Scopes \X Names)]
         /\ resolved' \in [Projects -> [Names -> Values \cup {Absent}]]
         /\ been' \in [Projects -> SUBSET (Scopes \X Names \X (Values \cup {Absent}))]
BY DEF TypeOK, EndResolve, Nothing

LEMMA LookupTypes ==
  ASSUME TypeOK, NEW p \in Projects, NEW s \in Scopes, NEW n \in Names,
         RootOf(p) \in Projects, Lookup(p, s, n)
  PROVE  TypeOK'
<1> USE DEF TypeOK, files, stores, Connection
<1>1. rows[RootOf(p)][s][n] \in Row \cup {Absent}
  OBVIOUS
<1>2. CASE GetFinds(p, s, n)
  <2>1. rows[RootOf(p)][s][n].value \in Values
    BY <1>1, <1>2 DEF GetFinds, Row
  <2> QED BY <1>2, <2>1 DEF GetFinds
<1>3. CASE GetFindsNone(p, s, n)
  <2>1. (lookups[p] \ {<<s, n>>}) \cup (IF s = FirstScope THEN (Scopes \ {s}) \X {n} ELSE {})
          \in SUBSET (Scopes \X Names)
    OBVIOUS
  <2> QED BY <1>3, <2>1 DEF GetFindsNone
<1>4. CASE GetRaises(p, s, n)
  <2>1. /\ UNCHANGED <<rows, key, declared, episodic, context, deleted, writes>>
        /\ EndResolve(p)
    BY <1>4 DEF GetRaises
  <2>2. CASE Step(p, "resolving", "raised") /\ secrets' = [secrets EXCEPT ![p] = "dropped"]
    BY <2>1, <2>2, EndTypes DEF Step
  <2>3. CASE Step(p, "delegating", "over") /\ secrets' = secrets
    BY <2>1, <2>3, EndTypes DEF Step
  <2>4. CASE Step(p, "delegating", "running") /\ secrets' = secrets
    BY <2>1, <2>4, EndTypes DEF Step
  <2> QED BY <1>4, <2>2, <2>3, <2>4 DEF GetRaises
<1> QED BY <1>2, <1>3, <1>4 DEF Lookup

LEMMA PrepareTypes == ASSUME TypeOK, NEW p \in Projects, Prepare(p) PROVE TypeOK'
<1> USE DEF TypeOK, files, stores, resolve, Connection, Step
<1>1. CASE ResolveSeams(p) \/ NoSecretsStore(p) \/ SecretsStoreRaises(p) \/ SecretsKeyRaises(p)
  BY <1>1 DEF ResolveSeams, NoSecretsStore, SecretsStoreRaises, SecretsKeyRaises
<1>2. CASE OpenSecretsStore(p)
  <2>1. declared[p] \cup Ambient \in SUBSET Names
    BY PreparedRunsAssumption
  <2>2. BeginResolve(p, declared[p] \cup Ambient)
    BY <1>2 DEF OpenSecretsStore
  <2> QED BY <1>2, <2>1, <2>2, BeginTypes DEF OpenSecretsStore
<1>3. CASE SecretMissing(p) \/ SecretsFound(p)
  BY <1>3, EndTypes DEF SecretMissing, SecretsFound
<1>4. CASE OpenEpisodicStore(p) \/ EpisodicStoreRaises(p)
  BY <1>4 DEF OpenEpisodicStore, EpisodicStoreRaises, Drop
<1> QED BY <1>1, <1>2, <1>3, <1>4 DEF Prepare

LEMMA DriveTypes == ASSUME TypeOK, NEW p \in Projects, Drive(p) PROVE TypeOK'
<1> USE DEF TypeOK, files, stores, resolve, Connection, Step
<1>1. CASE Configure(p) \/ AllowRaises(p)
  <2>1. CASE Configure(p)
    BY <2>1 DEF Configure
  <2>2. CASE AllowRaises(p)
    <3>1. Drop(secrets[p]) \in Connection /\ Drop(episodic[p]) \in Connection
      BY DEF Drop
    <3> QED BY <2>2, <3>1 DEF AllowRaises
  <2> QED BY <1>1, <2>1, <2>2
<1>2. CASE Delegate(p)
  <2> DEFINE names == IF secrets[context[p]] = "none" THEN {} ELSE declared[p] \cup Ambient
  <2>1. names \in SUBSET Names
    BY PreparedRunsAssumption
  <2>2. BeginResolve(p, names)
    BY <1>2 DEF Delegate
  <2> HIDE DEF names
  <2> QED BY <1>2, <2>1, <2>2, BeginTypes DEF Delegate
<1>3. CASE InvokeBackend(p)
  BY <1>3 DEF InvokeBackend
<1>4. CASE BackendReturns(p)
  BY <1>4, EndTypes DEF BackendReturns
<1>5. CASE RunEnds(p)
  BY <1>5, EndTypes DEF RunEnds
<1>6. CASE Close(p)
  BY <1>6 DEF Close
<1> QED BY <1>1, <1>2, <1>3, <1>4, <1>5, <1>6 DEF Drive

LEMMA WriteTypes ==
  ASSUME TypeOK, NEW p \in Projects, NEW s \in Scopes, NEW n \in Names,
         SetSecret(p, s, n) \/ DeleteSecret(p, s, n)
  PROVE  TypeOK'
<1> USE DEF TypeOK, stores, Write
<1>1. ASSUME NEW row \in Row \cup {Absent}, Write(p, s, n, row),
             deleted' \in [Projects -> SUBSET Names]
      PROVE  TypeOK'
  <2>1. <<s, n, ValueOf(row)>> \in Scopes \X Names \X (Values \cup {Absent})
    BY RowValue
  <2>2. been' \in [Projects -> SUBSET (Scopes \X Names \X (Values \cup {Absent}))]
    BY <1>1, <2>1
  <2>3. rows' \in [Projects -> [Scopes -> [Names -> Row \cup {Absent}]]]
    BY <1>1
  <2>4. writes' \in 0 .. MaxWrites
    BY <1>1, PreparedRunsAssumption
  <2> QED BY <1>1, <2>2, <2>3, <2>4
<1>2. CASE SetSecret(p, s, n)
  BY <1>1, <1>2 DEF SetSecret
<1>3. CASE DeleteSecret(p, s, n)
  BY <1>1, <1>3 DEF DeleteSecret
<1> QED BY <1>2, <1>3

-----------------------------------------------------------------------------
(***************************************************************************)
(* The inductive invariant.                                                *)
(***************************************************************************)
Driven == {"running", "delegating", "delegated", "over"}
Configured == {"resolved", "prepared"} \cup Driven

(* A run's stores are open from prepare_run to its end, and its context    *)
(* has its own runtime; without a key it has no store and declares         *)
(* nothing.                                                                *)
RuntimeInv ==
  \A p \in Projects :
    /\ phase[p] \in {"new", "opening"} => secrets[p] = "none"
    /\ phase[p] = "resolving" => secrets[p] = "open" /\ key[p] # "unset"
    /\ phase[p] \in Configured =>
         /\ secrets[p] = (IF key[p] = "unset" THEN "none" ELSE "open")
         /\ key[p] = "unset" => declared[p] = {}
    /\ phase[p] \in {"prepared"} \cup Driven => episodic[p] = "open"
    /\ phase[p] \in Driven => context[p] = p

(* A declared secret that was once there is there, or was deleted since;   *)
(* a resolve that has yet to look for it finds it in one of its scopes.    *)
Present(p, n) == \E s \in Scopes : rows[p][s][n] # Absent

PresenceOf(p, n) ==
  \/ n \in deleted[p]
  \/ /\ phase[p] = "resolving" /\ resolved[p][n] # Absent => Present(p, n)
     /\ phase[p] \in Configured => Present(p, n)
     /\ phase[p] = "delegating" =>
          \/ resolved[p][n] # Absent
          \/ <<"own", n>> \in lookups[p]
          \/ <<"shared", n>> \in lookups[p] /\ rows[p]["shared"][n] # Absent
     /\ phase[p] = "delegated" => resolved[p][n] # Absent

PresenceInv == \A p \in Projects : \A n \in declared[p] : PresenceOf(p, n)

(* What a resolve has found so far, and what it has yet to read.           *)
Answered(p, n) ==
  LET v == resolved[p][n] IN
    \/ v # Absent /\ Was(p, "own", n, v)
    \/ Was(p, "own", n, Absent) /\ Was(p, "shared", n, v)

ReadOf(p) ==
  /\ Resolving(p) =>
       /\ \A s \in Scopes, n \in Names : Was(p, s, n, ValueOf(rows[p][s][n]))
       /\ \A s \in Scopes, n \in Names : <<s, n>> \in lookups[p] => resolved[p][n] = Absent
       /\ \A n \in Names : <<"shared", n>> \in lookups[p] =>
            <<"own", n>> \notin lookups[p] /\ Was(p, "own", n, Absent)
  /\ Resolving(p) /\ secrets[p] # "none" => \A n \in declared[p] \cup Ambient :
       <<"own", n>> \in lookups[p] \/ <<"shared", n>> \in lookups[p] \/ Answered(p, n)
  /\ phase[p] = "delegated" /\ secrets[p] # "none" =>
       \A n \in declared[p] \cup Ambient : Answered(p, n)

ReadInv == \A p \in Projects : ReadOf(p)

LEMMA InitialInvariants == Init => RuntimeInv /\ PresenceInv /\ ReadInv
BY DEF Init, RuntimeInv, PresenceInv, PresenceOf, ReadInv, ReadOf, Driven, Configured, Ended, Resolving

LEMMA RuntimeStep == TypeOK /\ RuntimeInv /\ [Next]_vars => RuntimeInv'
<1> SUFFICES ASSUME TypeOK, RuntimeInv, [Next]_vars PROVE RuntimeInv'
  OBVIOUS
<1> USE DEF TypeOK, RuntimeInv, Driven, Configured, Ended, Step, files, stores, resolve
<1>1. ASSUME NEW p \in Projects, Prepare(p) PROVE RuntimeInv'
  <2>1. CASE ResolveSeams(p)
    BY <2>1 DEF ResolveSeams
  <2>2. CASE NoSecretsStore(p)
    BY <2>2 DEF NoSecretsStore
  <2>3. CASE OpenSecretsStore(p)
    BY <2>3, PreparedRunsAssumption DEF OpenSecretsStore
  <2>4. CASE SecretsStoreRaises(p)
    BY <2>4 DEF SecretsStoreRaises
  <2>5. CASE SecretsKeyRaises(p)
    BY <2>5 DEF SecretsKeyRaises
  <2>6. CASE SecretMissing(p)
    BY <2>6 DEF SecretMissing
  <2>7. CASE SecretsFound(p)
    BY <2>7 DEF SecretsFound
  <2>8. CASE OpenEpisodicStore(p)
    BY <2>8 DEF OpenEpisodicStore
  <2>9. CASE EpisodicStoreRaises(p)
    BY <2>9 DEF EpisodicStoreRaises
  <2> QED BY <1>1, <2>1, <2>2, <2>3, <2>4, <2>5, <2>6, <2>7, <2>8, <2>9 DEF Prepare
<1>2. ASSUME NEW p \in Projects, Drive(p) PROVE RuntimeInv'
  <2>1. CASE Configure(p)
    BY <2>1 DEF Configure
  <2>2. CASE AllowRaises(p)
    BY <2>2 DEF AllowRaises
  <2>3. CASE Delegate(p)
    BY <2>3 DEF Delegate
  <2>4. CASE InvokeBackend(p)
    BY <2>4 DEF InvokeBackend
  <2>5. CASE BackendReturns(p)
    BY <2>5 DEF BackendReturns
  <2>6. CASE RunEnds(p)
    BY <2>6 DEF RunEnds
  <2>7. CASE Close(p)
    BY <2>7 DEF Close
  <2> QED BY <1>2, <2>1, <2>2, <2>3, <2>4, <2>5, <2>6, <2>7 DEF Drive
<1>3. ASSUME NEW p \in Projects, NEW s \in Scopes, NEW n \in Names, Lookup(p, s, n)
      PROVE  RuntimeInv'
  BY <1>3 DEF Lookup, GetFinds, GetFindsNone, GetRaises, Resolving
<1>4. ASSUME NEW p \in Projects, NEW s \in Scopes, NEW n \in Names,
             SetSecret(p, s, n) \/ DeleteSecret(p, s, n)
      PROVE  RuntimeInv'
  BY <1>4 DEF SetSecret, DeleteSecret, Write
<1>5. CASE UNCHANGED vars
  BY <1>5 DEF vars
<1> QED BY <1>1, <1>2, <1>3, <1>4, <1>5 DEF Next

LEMMA StepTypes == TypeOK /\ RuntimeInv /\ [Next]_vars => TypeOK'
<1> SUFFICES ASSUME TypeOK, RuntimeInv, [Next]_vars PROVE TypeOK'
  OBVIOUS
<1>1. ASSUME NEW p \in Projects, NEW s \in Scopes, NEW n \in Names, Lookup(p, s, n)
      PROVE  TypeOK'
  <2>1. RootOf(p) \in Projects
    BY DEF RootOf, RuntimeInv, Driven
  <2> QED BY <1>1, <2>1, LookupTypes
<1>2. CASE UNCHANGED vars
  BY <1>2 DEF vars, files, stores, resolve, TypeOK
<1> QED BY <1>1, <1>2, PrepareTypes, DriveTypes, WriteTypes DEF Next

(* A write by another process replaces one row of one project.             *)
LEMMA Writes ==
  ASSUME TypeOK, NEW p \in Projects, NEW s \in Scopes, NEW n \in Names,
         SetSecret(p, s, n) \/ DeleteSecret(p, s, n)
  PROVE  \E row \in Row \cup {Absent} :
           /\ Write(p, s, n, row)
           /\ \/ row # Absent /\ deleted' = deleted
              \/ row = Absent /\ deleted' = [deleted EXCEPT ![p] = @ \cup {n}]
<1>1. CASE SetSecret(p, s, n)
  <2>1. PICK row \in Row : Write(p, s, n, row)
    BY <1>1 DEF SetSecret
  <2>2. row \in Row \cup {Absent} /\ row # Absent
    BY PreparedRunsAssumption DEF Row
  <2>3. deleted' = deleted
    BY <1>1 DEF SetSecret
  <2> QED BY <2>1, <2>2, <2>3
<1>2. CASE DeleteSecret(p, s, n)
  BY <1>2 DEF DeleteSecret
<1> QED BY <1>1, <1>2

LEMMA DeclaredStays == [Next]_vars => declared' = declared
<1> SUFFICES ASSUME [Next]_vars PROVE declared' = declared
  OBVIOUS
<1>1. ASSUME NEW p \in Projects, Prepare(p) PROVE declared' = declared
  BY <1>1 DEF Prepare, ResolveSeams, NoSecretsStore, OpenSecretsStore, SecretsStoreRaises,
    SecretsKeyRaises, SecretMissing, SecretsFound, OpenEpisodicStore, EpisodicStoreRaises
<1>2. ASSUME NEW p \in Projects, Drive(p) PROVE declared' = declared
  BY <1>2 DEF Drive, Configure, AllowRaises, Delegate, InvokeBackend, BackendReturns, RunEnds, Close
<1>3. ASSUME NEW p \in Projects, NEW s \in Scopes, NEW n \in Names, Lookup(p, s, n)
      PROVE  declared' = declared
  BY <1>3 DEF Lookup, GetFinds, GetFindsNone, GetRaises
<1>4. ASSUME NEW p \in Projects, NEW s \in Scopes, NEW n \in Names,
             SetSecret(p, s, n) \/ DeleteSecret(p, s, n)
      PROVE  declared' = declared
  BY <1>4 DEF SetSecret, DeleteSecret, Write
<1> QED BY <1>1, <1>2, <1>3, <1>4 DEF Next, vars

LEMMA PresenceFrame ==
  ASSUME NEW p \in Projects, NEW n \in declared[p], PresenceOf(p, n),
         /\ rows'[p] = rows[p] /\ deleted'[p] = deleted[p]
         /\ \/ /\ phase'[p] = phase[p] /\ resolved'[p] = resolved[p]
               /\ lookups'[p] = lookups[p]
            \/ phase'[p] \notin {"resolving"} \cup Configured
            \/ /\ phase'[p] \in Configured \ {"delegating", "delegated"}
               /\ phase[p] \in Configured
  PROVE  PresenceOf(p, n)'
BY DEF PresenceOf, Present, Configured, Driven

(* Every step but those of a resolve and the writes is one of the frame's. *)
LEMMA PresenceStep ==
  TypeOK /\ RuntimeInv /\ PresenceInv /\ [Next]_vars => PresenceInv'
<1> SUFFICES ASSUME TypeOK, RuntimeInv, PresenceInv, [Next]_vars,
                    NEW q \in Projects, NEW m \in declared[q]
             PROVE  PresenceOf(q, m)'
  BY DeclaredStays DEF PresenceInv
<1>q. PresenceOf(q, m) /\ m \in Names
  BY DEF PresenceInv, TypeOK
<1> USE DEF TypeOK, Configured, Driven, Step, files, stores, resolve
<1>1. ASSUME NEW p \in Projects, Prepare(p) PROVE PresenceOf(q, m)'
  <2>1. CASE ResolveSeams(p)
    <3>1. CASE q = p
      BY <2>1, <3>1 DEF ResolveSeams, PresenceOf
    <3>2. CASE q # p
      BY <1>q, <2>1, <3>2, PresenceFrame DEF ResolveSeams
    <3> QED BY <3>1, <3>2
  <2>2. CASE NoSecretsStore(p)
    BY <1>q, <2>2, PresenceFrame DEF NoSecretsStore
  <2>3. CASE OpenSecretsStore(p)
    <3>1. CASE q = p
      <4>1. resolved'[p][m] = Absent /\ phase'[p] = "resolving"
        BY <1>q, <2>3 DEF OpenSecretsStore, BeginResolve, Nothing
      <4> QED BY <3>1, <4>1 DEF PresenceOf
    <3>2. CASE q # p
      BY <1>q, <2>3, <3>2, PresenceFrame DEF OpenSecretsStore, BeginResolve
    <3> QED BY <3>1, <3>2
  <2>4. CASE SecretsStoreRaises(p) \/ SecretsKeyRaises(p)
    BY <1>q, <2>4, PresenceFrame DEF SecretsStoreRaises, SecretsKeyRaises
  <2>5. CASE SecretMissing(p)
    BY <1>q, <2>5, PresenceFrame DEF SecretMissing, EndResolve
  <2>6. CASE SecretsFound(p)
    <3>1. CASE q = p
      <4>1. resolved[p][m] # Absent
        BY <2>6, <3>1 DEF SecretsFound, Missing
      <4>2. phase[p] = "resolving" /\ phase'[p] = "resolved" /\ UNCHANGED <<rows, deleted>>
        BY <2>6 DEF SecretsFound
      <4> QED BY <1>q, <3>1, <4>1, <4>2 DEF PresenceOf, Present
    <3>2. CASE q # p
      BY <1>q, <2>6, <3>2, PresenceFrame DEF SecretsFound, EndResolve
    <3> QED BY <3>1, <3>2
  <2>7. CASE OpenEpisodicStore(p) \/ EpisodicStoreRaises(p)
    BY <1>q, <2>7, PresenceFrame DEF OpenEpisodicStore, EpisodicStoreRaises
  <2> QED BY <1>1, <2>1, <2>2, <2>3, <2>4, <2>5, <2>6, <2>7 DEF Prepare
<1>2. ASSUME NEW p \in Projects, Drive(p) PROVE PresenceOf(q, m)'
  <2>1. CASE Configure(p) \/ AllowRaises(p) \/ Close(p)
    BY <1>q, <2>1, PresenceFrame DEF Configure, AllowRaises, Close
  <2>2. CASE Delegate(p)
    <3>1. CASE q = p
      <4>1. <<"own", m>> \in lookups'[p]
        BY <2>2, <3>1 DEF Delegate, BeginResolve, FirstScope, RuntimeInv
      <4>2. phase[p] = "running" /\ phase'[p] = "delegating" /\ UNCHANGED <<rows, deleted>>
        BY <2>2 DEF Delegate
      <4> QED BY <1>q, <3>1, <4>1, <4>2 DEF PresenceOf, Present
    <3>2. CASE q # p
      BY <1>q, <2>2, <3>2, PresenceFrame DEF Delegate, BeginResolve
    <3> QED BY <3>1, <3>2
  <2>3. CASE InvokeBackend(p)
    <3>1. CASE q = p
      <4>1. /\ phase[p] = "delegating" /\ phase'[p] = "delegated" /\ lookups[p] = {}
            /\ UNCHANGED <<rows, deleted, resolved>>
        BY <2>3 DEF InvokeBackend
      <4> QED BY <1>q, <3>1, <4>1 DEF PresenceOf, Present
    <3>2. CASE q # p
      BY <1>q, <2>3, <3>2, PresenceFrame DEF InvokeBackend
    <3> QED BY <3>1, <3>2
  <2>4. CASE BackendReturns(p)
    BY <1>q, <2>4, PresenceFrame DEF BackendReturns, EndResolve
  <2>5. CASE RunEnds(p)
    BY <1>q, <2>5, PresenceFrame DEF RunEnds, EndResolve
  <2> QED BY <1>2, <2>1, <2>2, <2>3, <2>4, <2>5 DEF Drive
<1>3. ASSUME NEW p \in Projects, NEW s \in Scopes, NEW n \in Names, Lookup(p, s, n)
      PROVE  PresenceOf(q, m)'
  <2>1. Resolving(p) /\ RootOf(p) = p
    BY <1>3 DEF Lookup, GetFinds, GetFindsNone, GetRaises, Resolving, RootOf, RuntimeInv
  <2>2. CASE q # p
    BY <1>q, <1>3, <2>2, PresenceFrame DEF Lookup, GetFinds, GetFindsNone, GetRaises, EndResolve
  <2>3. CASE q = p /\ GetFinds(p, s, n)
    <3>1. rows[p][s][n] # Absent /\ rows[p][s][n].value # Absent
      BY <2>1, <2>3, RowValue DEF GetFinds
    <3>2. /\ resolved'[p] = [resolved[p] EXCEPT ![n] = rows[p][s][n].value]
          /\ lookups'[p] = lookups[p] \ {<<s, n>>}
          /\ UNCHANGED <<rows, deleted, phase>>
      BY <2>1, <2>3 DEF GetFinds
    <3>3. CASE m = n
      BY <1>q, <2>3, <3>1, <3>2, <3>3 DEF PresenceOf, Present
    <3>4. CASE m # n
      BY <1>q, <2>3, <3>2, <3>4 DEF PresenceOf, Present
    <3> QED BY <3>3, <3>4
  <2>4. CASE q = p /\ GetFindsNone(p, s, n)
    <3>1. /\ rows[p][s][n] = Absent /\ <<s, n>> \in lookups[p]
          /\ UNCHANGED <<rows, deleted, phase, resolved>>
      BY <2>1, <2>4 DEF GetFindsNone, NextLookup
    <3>2. \A x \in lookups[p] : x # <<s, n>> => x \in lookups'[p]
      BY <2>4 DEF GetFindsNone
    <3>3. s = "own" => <<"shared", n>> \in lookups'[p]
      BY <2>4 DEF GetFindsNone, FirstScope, Scopes
    <3> QED BY <1>q, <2>4, <3>1, <3>2, <3>3 DEF PresenceOf, Present, Scopes
  <2>5. CASE q = p /\ GetRaises(p, s, n)
    BY <1>q, <2>1, <2>5, PresenceFrame DEF GetRaises, Resolving
  <2> QED BY <1>3, <2>2, <2>3, <2>4, <2>5 DEF Lookup
<1>4. ASSUME NEW p \in Projects, NEW s \in Scopes, NEW n \in Names,
             SetSecret(p, s, n) \/ DeleteSecret(p, s, n)
      PROVE  PresenceOf(q, m)'
  <2>1. PICK row \in Row \cup {Absent} :
          /\ Write(p, s, n, row)
          /\ \/ row # Absent /\ deleted' = deleted
             \/ row = Absent /\ deleted' = [deleted EXCEPT ![p] = @ \cup {n}]
    BY <1>4, Writes
  <2>2. \A r \in Scopes :
          rows[q][r][m] # Absent => rows'[q][r][m] # Absent \/ m \in deleted'[q]
    BY <1>q, <2>1 DEF Write
  <2>3. deleted[q] \subseteq deleted'[q]
    BY <2>1
  <2>4. UNCHANGED <<phase, lookups, resolved>>
    BY <2>1 DEF Write
  <2> QED BY <1>q, <2>2, <2>3, <2>4 DEF PresenceOf, Present, Scopes
<1>5. CASE UNCHANGED vars
  BY <1>q, <1>5, PresenceFrame DEF vars
<1> QED BY <1>1, <1>2, <1>3, <1>4, <1>5 DEF Next

(* What a step leaves alone of a project keeps ReadOf, and so does one     *)
(* after which nothing of the resolve is left.                             *)
LEMMA ReadFrame ==
  ASSUME NEW p \in Projects, ReadOf(p),
         \/ /\ phase'[p] = phase[p] /\ secrets'[p] = secrets[p] /\ declared'[p] = declared[p]
            /\ rows'[p] = rows[p] /\ lookups'[p] = lookups[p]
            /\ resolved'[p] = resolved[p] /\ been'[p] = been[p]
         \/ phase'[p] \notin {"resolving", "delegating", "delegated"}
  PROVE  ReadOf(p)'
<1>1. CASE phase'[p] \notin {"resolving", "delegating", "delegated"}
  BY <1>1 DEF ReadOf, Resolving
<1>2. CASE /\ phase'[p] = phase[p] /\ secrets'[p] = secrets[p] /\ declared'[p] = declared[p]
           /\ rows'[p] = rows[p] /\ lookups'[p] = lookups[p]
           /\ resolved'[p] = resolved[p] /\ been'[p] = been[p]
  BY <1>2 DEF ReadOf, Resolving, Answered, Was
<1> QED BY <1>1, <1>2

LEMMA BeginReads ==
  ASSUME TypeOK, NEW p \in Projects, NEW names \in SUBSET Names, BeginResolve(p, names),
         rows' = rows, phase'[p] \in {"resolving", "delegating"},
         secrets'[p] # "none" => names = declared'[p] \cup Ambient
  PROVE  /\ ReadOf(p)'
         /\ \A q \in Projects : q # p =>
              /\ lookups'[q] = lookups[q] /\ resolved'[q] = resolved[q] /\ been'[q] = been[q]
<1> USE DEF TypeOK
<1>1. \A s \in Scopes, n \in Names : Was(p, s, n, ValueOf(rows[p][s][n]))'
  <2>1. been'[p] = {<<s, n, ValueOf(rows[p][s][n])>> : s \in Scopes, n \in Names}
    BY DEF BeginResolve
  <2> QED BY <2>1 DEF Was, ValueOf
<1>2. \A n \in Names : resolved'[p][n] = Absent
  BY DEF BeginResolve, Nothing
<1>3. \A n \in Names : <<"shared", n>> \notin lookups'[p] /\ (n \in names => <<"own", n>> \in lookups'[p])
  BY DEF BeginResolve, FirstScope
<1>4. ReadOf(p)'
  BY <1>1, <1>2, <1>3 DEF ReadOf, Resolving, ValueOf
<1> QED BY <1>4 DEF BeginResolve

LEMMA FindsReads ==
  ASSUME TypeOK, RuntimeInv, NEW p \in Projects, ReadOf(p),
         NEW s \in Scopes, NEW n \in Names, GetFinds(p, s, n)
  PROVE  ReadOf(p)'
<1> USE DEF TypeOK
<1>1. Resolving(p) /\ RootOf(p) = p /\ <<s, n>> \in lookups[p]
  BY DEF GetFinds, NextLookup, Resolving, RootOf, RuntimeInv, Driven
<1> DEFINE v == rows[p][s][n].value
<1>2. ValueOf(rows[p][s][n]) = v /\ v # Absent
  BY <1>1, RowValue DEF GetFinds
<1>3. /\ resolved'[p] = [resolved[p] EXCEPT ![n] = v]
      /\ lookups'[p] = lookups[p] \ {<<s, n>>}
      /\ UNCHANGED <<rows, phase, secrets, declared, been>>
  BY <1>1 DEF GetFinds, files, stores
<1>4. Was(p, s, n, v) /\ (s = "shared" => Was(p, "own", n, Absent))
  <2>1. Was(p, s, n, ValueOf(rows[p][s][n]))
    BY <1>1 DEF ReadOf
  <2> QED BY <1>1, <1>2, <2>1 DEF ReadOf
<1>5. <<"own", n>> \notin lookups'[p] /\ <<"shared", n>> \notin lookups'[p]
  BY <1>1, <1>3 DEF ReadOf, Scopes
<1> HIDE DEF v
<1>6. Answered(p, n)'
  BY <1>2, <1>3, <1>4 DEF Answered, Was, Scopes
<1>7. \A m \in Names : m # n => resolved'[p][m] = resolved[p][m] /\ (Answered(p, m)' <=> Answered(p, m))
  BY <1>3 DEF Answered, Was
<1>8. declared[p] \cup Ambient \subseteq Names
  BY PreparedRunsAssumption
<1> QED BY <1>1, <1>3, <1>5, <1>6, <1>7, <1>8 DEF ReadOf, Resolving, Was, Scopes, ValueOf

LEMMA FindsNoneReads ==
  ASSUME TypeOK, RuntimeInv, NEW p \in Projects, ReadOf(p),
         NEW s \in Scopes, NEW n \in Names, GetFindsNone(p, s, n)
  PROVE  ReadOf(p)'
<1> USE DEF TypeOK
<1>1. Resolving(p) /\ RootOf(p) = p /\ <<s, n>> \in lookups[p]
  BY DEF GetFindsNone, NextLookup, Resolving, RootOf, RuntimeInv, Driven
<1>2. UNCHANGED <<rows, phase, secrets, declared, been, resolved>>
  BY DEF GetFindsNone, files, stores
<1>3. Was(p, s, n, Absent) /\ resolved[p][n] = Absent
  BY <1>1 DEF GetFindsNone, ReadOf, ValueOf
<1>4. \A m \in Names : Answered(p, m)' <=> Answered(p, m)
  BY <1>2 DEF Answered, Was
<1>5. declared[p] \cup Ambient \subseteq Names
  BY PreparedRunsAssumption
<1>6. CASE s = "own"
  <2>1. lookups'[p] = (lookups[p] \ {<<"own", n>>}) \cup {<<"shared", n>>}
    BY <1>6 DEF GetFindsNone, FirstScope, Scopes
  <2> QED BY <1>1, <1>2, <1>3, <1>4, <1>5, <2>1 DEF ReadOf, Resolving, Was, Scopes, ValueOf
<1>7. CASE s = "shared"
  <2>1. lookups'[p] = lookups[p] \ {<<"shared", n>>}
    BY <1>7 DEF GetFindsNone, FirstScope
  <2>2. Answered(p, n)
    BY <1>1, <1>3, <1>7 DEF ReadOf, Answered
  <2> QED BY <1>1, <1>2, <1>3, <1>4, <1>5, <2>1, <2>2 DEF ReadOf, Resolving, Was, Scopes, ValueOf
<1> QED BY <1>6, <1>7 DEF Scopes

LEMMA WriteReads ==
  ASSUME TypeOK, NEW p \in Projects, ReadOf(p), NEW s \in Scopes, NEW n \in Names,
         NEW row \in Row \cup {Absent}, Write(p, s, n, row)
  PROVE  ReadOf(p)'
<1> USE DEF TypeOK
<1>1. UNCHANGED <<declared, phase, secrets, lookups, resolved>>
  BY DEF Write, stores
<1>2. \A r \in Scopes, m \in Names : \A v : Was(p, r, m, v) => Was(p, r, m, v)'
  BY DEF Write, Was
<1>3. Resolving(p) => Was(p, s, n, ValueOf(row))'
  BY DEF Write, Was
<1>4. \A r \in Scopes, m \in Names :
        rows'[p][r][m] = IF r = s /\ m = n THEN row ELSE rows[p][r][m]
  BY DEF Write
<1>5. \A r \in Scopes, m \in Names : Resolving(p) => Was(p, r, m, ValueOf(rows[p][r][m]))'
  <2> SUFFICES ASSUME NEW r \in Scopes, NEW m \in Names, Resolving(p)
               PROVE  Was(p, r, m, ValueOf(rows[p][r][m]))'
    OBVIOUS
  <2>1. CASE r = s /\ m = n
    BY <1>3, <1>4, <2>1 DEF Was, ValueOf
  <2>2. CASE ~(r = s /\ m = n)
    <3>1. rows'[p][r][m] = rows[p][r][m] /\ Was(p, r, m, ValueOf(rows[p][r][m]))
      BY <1>4, <2>2 DEF ReadOf
    <3> QED BY <3>1, <1>2 DEF Was, ValueOf
  <2> QED BY <2>1, <2>2
<1>6. \A m \in Names : Answered(p, m) => Answered(p, m)'
  BY <1>1, <1>2 DEF Answered, Scopes
<1>7. declared[p] \cup Ambient \subseteq Names
  BY PreparedRunsAssumption
<1> QED BY <1>1, <1>2, <1>5, <1>6, <1>7 DEF ReadOf, Resolving, Scopes

LEMMA ReadStep == TypeOK /\ RuntimeInv /\ ReadInv /\ [Next]_vars => ReadInv'
<1> SUFFICES ASSUME TypeOK, RuntimeInv, ReadInv, [Next]_vars,
                    NEW q \in Projects, ReadOf(q)
             PROVE  ReadOf(q)'
  BY DEF ReadInv
<1> USE DEF TypeOK, Step, files, stores, resolve
<1>1. ASSUME NEW p \in Projects, Prepare(p) PROVE ReadOf(q)'
  <2>1. CASE ResolveSeams(p) \/ NoSecretsStore(p) \/ SecretsStoreRaises(p) \/ SecretsKeyRaises(p)
    BY <2>1, ReadFrame DEF ResolveSeams, NoSecretsStore, SecretsStoreRaises, SecretsKeyRaises
  <2>2. CASE OpenSecretsStore(p)
    <3>1. /\ phase' = [phase EXCEPT ![p] = "resolving"] /\ UNCHANGED <<rows, declared>>
          /\ secrets' = [secrets EXCEPT ![p] = "open"]
          /\ BeginResolve(p, declared[p] \cup Ambient)
          /\ declared[p] \cup Ambient \in SUBSET Names
      BY <2>2, PreparedRunsAssumption DEF OpenSecretsStore
    <3>2. CASE q = p
      BY <3>1, <3>2, BeginReads
    <3>3. CASE q # p
      BY <3>1, <3>3, BeginReads, ReadFrame
    <3> QED BY <3>2, <3>3
  <2>3. CASE SecretMissing(p)
    BY <2>3, ReadFrame DEF SecretMissing, EndResolve
  <2>4. CASE SecretsFound(p)
    BY <2>4, ReadFrame DEF SecretsFound, EndResolve
  <2>5. CASE OpenEpisodicStore(p) \/ EpisodicStoreRaises(p)
    BY <2>5, ReadFrame DEF OpenEpisodicStore, EpisodicStoreRaises
  <2> QED BY <1>1, <2>1, <2>2, <2>3, <2>4, <2>5 DEF Prepare
<1>2. ASSUME NEW p \in Projects, Drive(p) PROVE ReadOf(q)'
  <2>1. CASE Configure(p) \/ AllowRaises(p) \/ Close(p)
    BY <2>1, ReadFrame DEF Configure, AllowRaises, Close
  <2>2. CASE Delegate(p)
    <3> DEFINE names == IF secrets[context[p]] = "none" THEN {} ELSE declared[p] \cup Ambient
    <3>1. /\ phase' = [phase EXCEPT ![p] = "delegating"] /\ UNCHANGED <<rows, declared, secrets>>
          /\ BeginResolve(p, names) /\ names \in SUBSET Names
      BY <2>2, PreparedRunsAssumption DEF Delegate
    <3>2. secrets[p] # "none" => names = declared[p] \cup Ambient
      BY <2>2 DEF Delegate, RuntimeInv, Driven
    <3> HIDE DEF names
    <3>3. CASE q = p
      BY <3>1, <3>2, <3>3, BeginReads
    <3>4. CASE q # p
      BY <3>1, <3>2, <3>4, BeginReads, ReadFrame
    <3> QED BY <3>3, <3>4
  <2>3. CASE InvokeBackend(p)
    <3>1. /\ lookups[p] = {} /\ phase[p] = "delegating" /\ phase' = [phase EXCEPT ![p] = "delegated"]
          /\ UNCHANGED <<rows, secrets, declared, lookups, resolved, been>>
      BY <2>3 DEF InvokeBackend
    <3>2. CASE q = p
      BY <3>1, <3>2 DEF ReadOf, Resolving, Answered, Was
    <3>3. CASE q # p
      BY <3>1, <3>3, ReadFrame
    <3> QED BY <3>2, <3>3
  <2>4. CASE BackendReturns(p)
    BY <2>4, ReadFrame DEF BackendReturns, EndResolve
  <2>5. CASE RunEnds(p)
    BY <2>5, ReadFrame DEF RunEnds, EndResolve
  <2> QED BY <1>2, <2>1, <2>2, <2>3, <2>4, <2>5 DEF Drive
<1>3. ASSUME NEW p \in Projects, NEW s \in Scopes, NEW n \in Names, Lookup(p, s, n)
      PROVE  ReadOf(q)'
  <2>1. CASE q = p
    <3>1. CASE GetRaises(p, s, n)
      BY <2>1, <3>1, ReadFrame DEF GetRaises
    <3> QED BY <1>3, <2>1, <3>1, FindsReads, FindsNoneReads DEF Lookup
  <2>2. CASE q # p
    <3>1. CASE GetFinds(p, s, n) \/ GetFindsNone(p, s, n)
      BY <2>2, <3>1, ReadFrame DEF GetFinds, GetFindsNone
    <3>2. CASE GetRaises(p, s, n)
      BY <2>2, <3>2, ReadFrame DEF GetRaises, EndResolve
    <3> QED BY <1>3, <3>1, <3>2 DEF Lookup
  <2> QED BY <2>1, <2>2
<1>4. ASSUME NEW p \in Projects, NEW s \in Scopes, NEW n \in Names,
             SetSecret(p, s, n) \/ DeleteSecret(p, s, n)
      PROVE  ReadOf(q)'
  <2>1. PICK row \in Row \cup {Absent} : Write(p, s, n, row)
    BY <1>4, Writes
  <2>2. CASE q = p
    BY <2>1, <2>2, WriteReads
  <2>3. CASE q # p
    BY <2>1, <2>3, ReadFrame DEF Write
  <2> QED BY <2>2, <2>3
<1>5. CASE UNCHANGED vars
  BY <1>5, ReadFrame DEF vars
<1> QED BY <1>1, <1>2, <1>3, <1>4, <1>5 DEF Next

IInv == TypeOK /\ RuntimeInv /\ PresenceInv /\ ReadInv

LEMMA Invariance == Spec => []IInv
<1>1. Init => IInv
  BY InitialTypes, InitialInvariants DEF IInv
<1>2. IInv /\ [Next]_vars => IInv'
  BY StepTypes, RuntimeStep, PresenceStep, ReadStep DEF IInv
<1> QED BY <1>1, <1>2, PTL DEF Spec

-----------------------------------------------------------------------------
(* Every variable of the model keeps its type.                             *)
THEOREM TypeCorrect == Spec => []TypeOK
<1>1. IInv => TypeOK
  BY DEF IInv
<1> QED BY <1>1, Invariance, PTL

(* A run in progress sees its own runtime with open stores, however many   *)
(* the process drives.                                                     *)
THEOREM OwnRuntime == Spec => []RunHasItsOwnRuntime
<1>1. IInv => RunHasItsOwnRuntime
  BY DEF IInv, RuntimeInv, RunHasItsOwnRuntime, Configured, Driven
<1> QED BY <1>1, Invariance, PTL

(* An accepted run finds every secret it declares in each delegation,      *)
(* unless the name was deleted since.                                      *)
THEOREM DeclaredSecrets == Spec => []AcceptedRunHasItsSecrets
<1>1. IInv => AcceptedRunHasItsSecrets
  BY DEF IInv, PresenceInv, PresenceOf, AcceptedRunHasItsSecrets
<1> QED BY <1>1, Invariance, PTL

(* What a backend is given is what its project had while it was read,      *)
(* whatever was written meanwhile.                                         *)
THEOREM ProjectSecrets == Spec => []SecretsAreTheProjects
<1>1. IInv => SecretsAreTheProjects
  BY DEF IInv, ReadInv, ReadOf, Answered, SecretsAreTheProjects
<1> QED BY <1>1, Invariance, PTL
=============================================================================
