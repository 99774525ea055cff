----------------------- MODULE SchemaMigrationsProofs -----------------------
(***************************************************************************)
(* Proofs about the migrations, for every list of agents, every number of  *)
(* Jobs, operators and readers, and whatever bounds on what fails.         *)
(*                                                                         *)
(* 1. The schemas. SchemaInv says that a run that migrates has built what  *)
(*    its version says, so that what it commits matches its version. It    *)
(*    rests on what the revisions create and drop: an upgrade finds what   *)
(*    it drops and a downgrade undoes it.                                  *)
(* 2. Isolation. A run that has written saw what is still committed, no    *)
(*    two have written to the same schema, and each goes one way from the  *)
(*    version it saw to its target.                                        *)
(* 3. Privileges. What a run gives to a role that it leaves alone is what  *)
(*    the defaults of the schema say of the tables it makes, and so the    *)
(*    role has at the commit what it had before, on other tables. For an   *)
(*    agent this holds from revision 3 on; for readers, of every revision. *)
(* 4. Jobs. When nobody runs Alembic by hand a schema is untouched or at   *)
(*    the latest revision, and so are those a Job's loop has passed.       *)
(***************************************************************************)
EXTENDS SchemaMigrations, TLAPS

USE DEF Latest  \* A number that the revisions fix.

-----------------------------------------------------------------------------
(* What the revisions build.                                               *)

LEMMA UpgradeBuilds ==
  ASSUME NEW v \in 0..(Latest - 1)
  PROVE  Built(v + 1) = (Built(v) \ Drops(v + 1)) \cup Creates(v + 1)
<1>. DEFINE Made(n) == UNION {Creates(k) : k \in 1..n}
            Gone(n) == UNION {Drops(k) : k \in 1..n}
<1>1. 1..(v + 1) = (1..v) \cup {v + 1}
  OBVIOUS
<1>2. Made(v + 1) = Made(v) \cup Creates(v + 1) /\ Gone(v + 1) = Gone(v) \cup Drops(v + 1)
  BY <1>1
<1>3. Creates(v + 1) \cap Gone(v + 1) = {}
  <2>1. \A k \in 1..(v + 1) : Creates(v + 1) \cap Drops(k) = {}
    BY DEF Creates, Drops, AdkTables, AdkIndexes, SeededRow, TaskParts, HitlIndexes,
       CaseIndexes
  <2>. QED  BY <2>1
<1>. QED  BY <1>2, <1>3 DEF Built

LEMMA BuiltSchema ==
  ASSUME NEW v \in 0..Latest
  PROVE  NewSchema \subseteq Built(v) /\ Built(v) # {} /\ Built(0) = NewSchema
<1>1. \A k \in 1..v : NewSchema \cap Drops(k) = {}
  BY DEF NewSchema, Drops, HitlIndexes
<1>2. 1..0 = {}
  OBVIOUS
<1>. QED  BY <1>1, <1>2 DEF Built, NewSchema

(* A schema at v - 1 has nothing of what v creates, and all of what it drops. *)
LEMMA RevisionsApply ==
  ASSUME NEW v \in 0..(Latest - 1)
  PROVE  /\ Creates(v + 1) \cap Built(v) = {}
         /\ Drops(v + 1) \subseteq Built(v)
<1>1. \A k \in 1..v : Creates(v + 1) \cap Creates(k) = {}
  BY DEF Creates, AdkTables, AdkIndexes, SeededRow, TaskParts, HitlIndexes, CaseIndexes
<1>2. Creates(v + 1) \cap NewSchema = {}
  BY DEF Creates, AdkTables, AdkIndexes, SeededRow, TaskParts, HitlIndexes, CaseIndexes, NewSchema
<1>3. Drops(v + 1) \subseteq UNION {Creates(k) : k \in 1..v}
  <2>1. CASE v + 1 = 5
    <3>1. Drops(v + 1) \subseteq Creates(4) /\ 4 \in 1..v
      BY <2>1 DEF Drops, Creates
    <3>. QED  BY <3>1
  <2>2. CASE v + 1 # 5
    BY <2>2 DEF Drops
  <2>. QED  BY <2>1, <2>2
<1>4. \A k \in 1..v : Drops(k) = {}
  BY DEF Drops
<1>. QED  BY <1>1, <1>2, <1>3, <1>4 DEF Built

LEMMA DowngradeUndoes ==
  ASSUME NEW v \in 1..Latest
  PROVE  Built(v - 1) = (Built(v) \ Removes(v)) \cup Restores(v)
<1>1. /\ Built(v) = (Built(v - 1) \ Drops(v)) \cup Creates(v)
      /\ Creates(v) \cap Built(v - 1) = {}
      /\ Drops(v) \subseteq Built(v - 1)
  BY UpgradeBuilds, RevisionsApply, v - 1 \in 0..(Latest - 1), (v - 1) + 1 = v
<1>2. Removes(v) = Creates(v) /\ Restores(v) = Drops(v)
  BY DEF Removes, Creates, Restores, Drops
<1>. QED  BY <1>1, <1>2

-----------------------------------------------------------------------------
(* What a schema holds, and what a transaction is.                         *)

Objects == NewSchema \cup UNION {Creates(k) : k \in 1..Latest}

Entries == (Agents \cup Readers) \X (Dml \cup {"USAGE"}) \X (Tables \cup {"schema", "default"})

Transactions ==
  [on : Agents \cup {"none"}, objects : SUBSET Objects, version : 0..Latest,
   target : 0..Latest, signed : BOOLEAN, saw : (SUBSET Objects) \X (0..Latest),
   give : SUBSET Entries, take : SUBSET Entries, grants : BOOLEAN]

(* A transaction that has looked at nothing yet. *)
Blank(t) ==
  /\ t.objects = {} /\ t.version = 0 /\ t.saw = <<{}, 0>>
  /\ t.give = {} /\ t.take = {} /\ ~t.grants

(* A run that migrates is at a version, and has what that version says. *)
RunsBuild ==
  \A r \in Runners :
    /\ pc[r] \in {"connect", "creating"} => Blank(txn[r])
    /\ pc[r] = "migrating" => txn[r].objects = Built(txn[r].version)
    /\ pc[r] \notin {"connect", "creating", "migrating"} => txn[r] = NoTxn

FailuresCounted ==
  \A r \in Runners : failures[r] <= BackoffLimit \/ pc[r] = "failed"

(* A Job's run is on the agent its loop is at, and goes all the way. *)
JobsInOrder ==
  \A j \in Jobs : pc[j] \in {"connect", "creating", "migrating"} =>
    /\ position[j] <= Len(MigrateAgents)
    /\ txn[j].on = MigrateAgents[position[j]]
    /\ txn[j].target = Latest
    /\ txn[j].signed

SchemaInv ==
  /\ TypeOK
  /\ objects \in [Agents -> SUBSET Objects]
  /\ acl \in [Agents -> SUBSET Entries]
  /\ txn \in [Runners -> Transactions]
  /\ FailuresCounted
  /\ RunsBuild
  /\ JobsInOrder
  /\ SchemaMatchesVersion

LEMMA AgentsListed == \A i \in 1..Len(MigrateAgents) : MigrateAgents[i] \in Agents
  BY DEF Agents

LEMMA BuiltObjects == \A v \in 0..Latest : Built(v) \subseteq Objects
  BY DEF Built, Objects

LEMMA NoTxnTyped == NoTxn \in Transactions /\ NoTxn.on = "none"
  BY DEF NoTxn, Transactions

LEMMA OpenedTyped ==
  ASSUME NEW a \in Agents, NEW target \in 0..Latest, NEW signed \in BOOLEAN
  PROVE  /\ Opened(a, target, signed) \in Transactions
         /\ Opened(a, target, signed).on = a
         /\ Opened(a, target, signed).target = target
         /\ Opened(a, target, signed).signed = signed
         /\ Blank(Opened(a, target, signed))
<1>1. Blank(NoTxn)
  BY DEF NoTxn, Blank
<1>2. Blank(Opened(a, target, signed))
  BY <1>1 DEF Opened, Blank
<1>. QED  BY <1>2, NoTxnTyped DEF Opened, Transactions

LEMMA JobsOpen ==
  ASSUME NEW a \in Agents
  PROVE  /\ Opened(a, Latest, TRUE) \in Transactions
         /\ Opened(a, Latest, TRUE).on = a
         /\ Opened(a, Latest, TRUE).target = Latest
         /\ Opened(a, Latest, TRUE).signed = TRUE
         /\ Blank(Opened(a, Latest, TRUE))
<1>1. Blank(NoTxn)
  BY DEF NoTxn, Blank
<1>2. Blank(Opened(a, Latest, TRUE))
  BY <1>1 DEF Opened, Blank
<1>3. Opened(a, Latest, TRUE) \in Transactions
  <2>1. \A target \in 0..Latest, signed \in BOOLEAN : Opened(a, target, signed) \in Transactions
    BY OpenedTyped
  <2>. QED  BY <2>1, Latest \in 0..Latest, TRUE \in BOOLEAN, Zenon
<1>4. Opened(a, Latest, TRUE).on = a /\ Opened(a, Latest, TRUE).target = Latest
  BY NoTxnTyped DEF Opened, Transactions
<1>5. Opened(a, Latest, TRUE).signed = TRUE
  BY NoTxnTyped DEF Opened, Transactions
<1>. QED  BY <1>2, <1>3, <1>4, <1>5

LEMMA GrantsTyped ==
  ASSUME NEW role \in Agents \cup Readers, NEW tables \in SUBSET Tables
  PROVE  Grants(role, tables) \subseteq Entries /\ Reads(role, tables) \subseteq Entries
  BY DEF Grants, Reads, Entries, Dml

LEMMA InheritedTyped ==
  ASSUME NEW privileges \in SUBSET Entries, NEW tables \in SUBSET Tables
  PROVE  Inherited(privileges, tables) \subseteq Entries
  BY DEF Inherited, Entries

(* What DDL does to a transaction. *)
LEMMA ChangedFields ==
  ASSUME acl \in [Agents -> SUBSET Entries],
         NEW t \in Transactions, t.on \in Agents,
         NEW created \in SUBSET Objects, NEW dropped \in SUBSET Objects
  PROVE  LET u == Changed(t, created, dropped) IN
         /\ u \in Transactions
         /\ u.on = t.on /\ u.target = t.target /\ u.signed = t.signed /\ u.saw = t.saw
         /\ u.version = t.version /\ u.take = t.take /\ u.grants = t.grants
         /\ u.objects = (t.objects \ dropped) \cup created
<1>1. Visible(t) \in SUBSET Entries
  BY DEF Visible, Transactions
<1>2. Inherited(Visible(t), created \cap Tables) \subseteq Entries
  BY <1>1, InheritedTyped
<1>. QED  BY <1>2 DEF Changed, Transactions

LEMMA ChangedGive ==
  ASSUME NEW t \in Transactions, NEW created, NEW dropped, NEW e
  PROVE  e \in Changed(t, created, dropped).give <=>
           \/ e \in t.give /\ e[3] \notin dropped
           \/ e \in Inherited(Visible(t), created \cap Tables)
  BY DEF Changed, Transactions

LEMMA GrantedFields ==
  ASSUME NEW t \in Transactions, t.on \in Agents
  PROVE  LET u == Granted(t) entries == Grants(t.on, t.objects \cap Tables) IN
         /\ u \in Transactions
         /\ u.on = t.on /\ u.target = t.target /\ u.signed = t.signed /\ u.saw = t.saw
         /\ u.version = t.version /\ u.objects = t.objects
         /\ u.give = IF t.signed THEN t.give \cup entries ELSE t.give
         /\ u.take = IF t.signed THEN t.take \ entries ELSE t.take
         /\ u.grants = (t.signed \/ t.grants)
<1>1. Grants(t.on, t.objects \cap Tables) \subseteq Entries
  BY GrantsTyped
<1>. QED  BY <1>1 DEF Granted, Transactions

LEMMA RevokedFields ==
  ASSUME NEW t \in Transactions, t.on \in Agents
  PROVE  LET u == Revoked(t) entries == Grants(t.on, t.objects \cap Tables) IN
         /\ u \in Transactions
         /\ u.on = t.on /\ u.target = t.target /\ u.signed = t.signed /\ u.saw = t.saw
         /\ u.version = t.version /\ u.objects = t.objects
         /\ u.give = IF t.signed THEN t.give \ entries ELSE t.give
         /\ u.take = IF t.signed THEN t.take \cup entries ELSE t.take
         /\ u.grants = (t.signed \/ t.grants)
<1>1. Grants(t.on, t.objects \cap Tables) \subseteq Entries
  BY GrantsTyped
<1>. QED  BY <1>1 DEF Revoked, Transactions

LEMMA RevisionObjects ==
  ASSUME NEW v \in 1..Latest
  PROVE  /\ Creates(v) \subseteq Objects
         /\ Restores(v) \subseteq Objects
         /\ Drops(v) \subseteq Objects
         /\ Removes(v) \subseteq Objects
<1>1. Creates(v) \subseteq Objects
  BY DEF Objects
<1>2. Creates(4) \subseteq Objects /\ Restores(v) \subseteq Creates(4)
  BY 4 \in 1..Latest DEF Objects, Restores, Creates
<1>3. Drops(v) = Restores(v) /\ Removes(v) = Creates(v)
  BY DEF Drops, Restores, Creates, Removes
<1>. QED  BY <1>1, <1>2, <1>3

(* One revision takes a transaction to what the next version says. *)
LEMMA UpgradedFields ==
  ASSUME acl \in [Agents -> SUBSET Entries],
         NEW t \in Transactions, t.on \in Agents,
         t.version < Latest, t.objects = Built(t.version)
  PROVE  LET u == Upgraded(t) IN
         /\ u \in Transactions
         /\ u.on = t.on /\ u.target = t.target /\ u.signed = t.signed /\ u.saw = t.saw
         /\ u.version = t.version + 1
         /\ u.objects = Built(t.version + 1)
<1>1. PICK rev \in 1..Latest : rev = t.version + 1 /\ t.version \in 0..(Latest - 1)
  BY DEF Transactions
<1>. DEFINE ddl == IF rev = 3 THEN Granted(t) ELSE Changed(t, Creates(rev), Drops(rev))
<1>2. Built(rev) = (Built(t.version) \ Drops(rev)) \cup Creates(rev)
  BY <1>1, UpgradeBuilds
<1>3. /\ ddl \in Transactions
      /\ ddl.on = t.on /\ ddl.target = t.target /\ ddl.signed = t.signed /\ ddl.saw = t.saw
      /\ ddl.objects = Built(rev)
  <2>1. CASE rev = 3
    <3>1. Creates(rev) = {} /\ Drops(rev) = {}
      BY <2>1 DEF Creates, Drops
    <3>. QED  BY <1>1, <1>2, <2>1, <3>1, GrantedFields
  <2>2. CASE rev # 3
    <3>1. Creates(rev) \in SUBSET Objects /\ Drops(rev) \in SUBSET Objects
      BY <1>1, RevisionObjects
    <3>2. ddl = Changed(t, Creates(rev), Drops(rev))
      BY <2>2
    <3>. HIDE DEF ddl
    <3>3. LET u == Changed(t, Creates(rev), Drops(rev)) IN
            /\ u \in Transactions
            /\ u.on = t.on /\ u.target = t.target /\ u.signed = t.signed /\ u.saw = t.saw
            /\ u.objects = (t.objects \ Drops(rev)) \cup Creates(rev)
      BY SMTT(30), <3>1, ChangedFields
    <3>. QED  BY <1>1, <1>2, <3>2, <3>3
  <2>. QED  BY <2>1, <2>2
<1>4. Upgraded(t) = [ddl EXCEPT !.version = rev]
  BY <1>1 DEF Upgraded
<1>. HIDE DEF ddl
<1>. QED  BY <1>1, <1>3, <1>4 DEF Transactions

LEMMA DowngradedFields ==
  ASSUME acl \in [Agents -> SUBSET Entries],
         NEW t \in Transactions, t.on \in Agents,
         t.version > 0, t.objects = Built(t.version)
  PROVE  LET u == Downgraded(t) IN
         /\ u \in Transactions
         /\ u.on = t.on /\ u.target = t.target /\ u.signed = t.signed /\ u.saw = t.saw
         /\ u.version = t.version - 1
         /\ u.objects = Built(t.version - 1)
<1>1. PICK rev \in 1..Latest : rev = t.version /\ rev - 1 \in 0..Latest
  BY DEF Transactions
<1>. DEFINE ddl == IF rev = 3 THEN Revoked(t) ELSE Changed(t, Restores(rev), Removes(rev))
<1>2. Built(rev - 1) = (Built(rev) \ Removes(rev)) \cup Restores(rev)
  BY <1>1, DowngradeUndoes
<1>3. /\ ddl \in Transactions
      /\ ddl.on = t.on /\ ddl.target = t.target /\ ddl.signed = t.signed /\ ddl.saw = t.saw
      /\ ddl.objects = Built(rev - 1)
  <2>1. CASE rev = 3
    <3>1. Removes(rev) = {} /\ Restores(rev) = {}
      BY <2>1 DEF Removes, Restores
    <3>. QED  BY <1>1, <1>2, <2>1, <3>1, RevokedFields
  <2>2. CASE rev # 3
    <3>1. Restores(rev) \in SUBSET Objects /\ Removes(rev) \in SUBSET Objects
      BY <1>1, RevisionObjects
    <3>2. ddl = Changed(t, Restores(rev), Removes(rev))
      BY <2>2
    <3>. HIDE DEF ddl
    <3>3. LET u == Changed(t, Restores(rev), Removes(rev)) IN
            /\ u \in Transactions
            /\ u.on = t.on /\ u.target = t.target /\ u.signed = t.signed /\ u.saw = t.saw
            /\ u.objects = (t.objects \ Removes(rev)) \cup Restores(rev)
      BY <3>1, ChangedFields
    <3>. QED  BY <1>1, <1>2, <3>2, <3>3
  <2>. QED  BY <2>1, <2>2
<1>4. Downgraded(t) = [ddl EXCEPT !.version = rev - 1]
  BY <1>1 DEF Downgraded
<1>. HIDE DEF ddl
<1>. QED  BY <1>1, <1>3, <1>4 DEF Transactions

-----------------------------------------------------------------------------
(* A schema holds what its version says.                                   *)

LEMMA SchemaInitInv == Init => SchemaInv
<1>. SUFFICES ASSUME Init PROVE SchemaInv
  OBVIOUS
<1>1. TypeOK
  <2>1. 1 \in 1..(Len(MigrateAgents) + 1)
    OBVIOUS
  <2>2. position \in [Runners -> 1..(Len(MigrateAgents) + 1)]
    BY <2>1 DEF Init
  <2>3. /\ failures \in [Runners -> 0..(BackoffLimit + 1)]
        /\ crashes \in 0..MaxCrashes /\ manual \in 0..MaxManual
    BY MigrationsAssumption DEF Init
  <2>4. \A r \in Runners : txn[r].on = "none" /\ pc[r] = "idle"
    BY NoTxnTyped DEF Init
  <2>5. /\ version \in [Agents -> 0..Latest]
        /\ pc \in [Runners -> {"idle", "check", "create", "loop", "connect", "creating",
                               "migrating", "done", "failed"}]
        /\ atRest \in [Agents -> SUBSET Readers]
    BY MigrationsAssumption DEF Init
  <2>6. /\ \A a \in Agents : objects[a] = {} /\ acl[a] = {}
        /\ database \in BOOLEAN
    BY MigrationsAssumption DEF Init
  <2>. QED  BY <2>2, <2>3, <2>4, <2>5, <2>6 DEF TypeOK
<1>2. txn \in [Runners -> Transactions]
  BY NoTxnTyped DEF Init
<1>3. RunsBuild /\ JobsInOrder
  BY DEF Init, RunsBuild, JobsInOrder, Runners
<1>4. SchemaMatchesVersion
  BY DEF Init, SchemaMatchesVersion
<1>. QED  BY <1>1, <1>2, <1>3, <1>4, MigrationsAssumption DEF Init, SchemaInv, FailuresCounted

(* A failure rolls back. *)
LEMMA FailsKeepsSchemaInv ==
  ASSUME SchemaInv, NEW r \in Runners, pc[r] \notin {"idle", "done", "failed"}, Fails(r),
         UNCHANGED <<atRest, objects, version, acl, manual>>,
         database' \in BOOLEAN, crashes' \in 0..MaxCrashes
  PROVE  SchemaInv'
<1>. USE DEF Fails, Goes
<1>1. /\ pc \in [Runners -> {"idle", "check", "create", "loop", "connect", "creating",
                             "migrating", "done", "failed"}]
      /\ position \in [Runners -> 1..(Len(MigrateAgents) + 1)]
      /\ failures \in [Runners -> 0..(BackoffLimit + 1)]
      /\ txn \in [Runners -> Transactions]
      /\ failures[r] <= BackoffLimit
  BY DEF SchemaInv, TypeOK, FailuresCounted
<1>2. /\ pc'[r] \in {"idle", "check", "failed"}
      /\ r \in Jobs /\ ~(failures[r] < BackoffLimit) => pc'[r] = "failed"
      /\ \A q \in Runners \ {r} : pc'[q] = pc[q] /\ txn'[q] = txn[q] /\ failures'[q] = failures[q]
      /\ txn'[r] = NoTxn
      /\ failures'[r] = IF r \in Jobs THEN failures[r] + 1 ELSE failures[r]
  BY <1>1, MigrationsAssumption DEF Runners
<1>3. /\ pc' \in [Runners -> {"idle", "check", "create", "loop", "connect", "creating",
                              "migrating", "done", "failed"}]
      /\ txn' \in [Runners -> Transactions]
      /\ position' \in [Runners -> 1..(Len(MigrateAgents) + 1)]
      /\ failures' \in [Runners -> 0..(BackoffLimit + 1)]
  <2>1. 1 \in 1..(Len(MigrateAgents) + 1)
    OBVIOUS
  <2>. QED  BY <1>1, <2>1, NoTxnTyped, MigrationsAssumption
<1>4. TypeOK' /\ FailuresCounted'
  <2>1. FailuresCounted'
    BY <1>1, <1>2, MigrationsAssumption DEF SchemaInv, FailuresCounted
  <2>2. \A q \in Runners : /\ txn'[q].on \in Agents \cup {"none"}
                           /\ pc'[q] \in {"connect", "creating", "migrating"} <=> txn'[q].on # "none"
    BY <1>2, NoTxnTyped DEF SchemaInv, TypeOK
  <2>. QED  BY <1>3, <2>1, <2>2 DEF SchemaInv, TypeOK
<1>5. RunsBuild' /\ JobsInOrder'
  <2>1. RunsBuild'
    BY SMTT(60), <1>2 DEF SchemaInv, RunsBuild, Blank
  <2>2. \A q \in Runners \ {r} : position'[q] = position[q]
    BY <1>1
  <2>3. JobsInOrder'
    BY <1>2, <2>2 DEF SchemaInv, JobsInOrder, Runners
  <2>. QED  BY <2>1, <2>3
<1>6. SchemaMatchesVersion'
  BY DEF SchemaInv, SchemaMatchesVersion
<1>. QED  BY <1>3, <1>4, <1>5, <1>6 DEF SchemaInv

(* Every other step of one runner, short of its commit. *)
LEMMA RunnerKeepsSchemaInv ==
  ASSUME SchemaInv, NEW r \in Runners, pc[r] # "failed",
         pc' = [pc EXCEPT ![r] = pc'[r]],
         txn' = [txn EXCEPT ![r] = txn'[r]],
         pc'[r] \in {"check", "create", "loop", "connect", "creating", "migrating", "done"},
         txn'[r] \in Transactions,
         pc'[r] \in {"connect", "creating", "migrating"} <=> txn'[r].on # "none",
         pc'[r] \in {"connect", "creating"} => Blank(txn'[r]),
         pc'[r] = "migrating" => txn'[r].objects = Built(txn'[r].version),
         txn'[r].on = "none" => txn'[r] = NoTxn,
         r \in Jobs /\ txn'[r].on # "none" =>
           /\ position[r] <= Len(MigrateAgents)
           /\ txn'[r].on = MigrateAgents[position[r]]
           /\ txn'[r].target = Latest /\ txn'[r].signed,
         UNCHANGED <<atRest, objects, version, acl, position, failures, crashes>>,
         database' \in BOOLEAN, manual' \in 0..MaxManual
  PROVE  SchemaInv'
<1>1. /\ pc \in [Runners -> {"idle", "check", "create", "loop", "connect", "creating",
                             "migrating", "done", "failed"}]
      /\ txn \in [Runners -> Transactions]
      /\ failures[r] <= BackoffLimit
  BY DEF SchemaInv, TypeOK, FailuresCounted
<1>2. /\ \A q \in Runners \ {r} : pc'[q] = pc[q] /\ txn'[q] = txn[q]
      /\ pc' \in [Runners -> {"idle", "check", "create", "loop", "connect", "creating",
                              "migrating", "done", "failed"}]
      /\ txn' \in [Runners -> Transactions]
  BY <1>1
<1>3. TypeOK'
  <2>1. \A q \in Runners : /\ txn'[q].on \in Agents \cup {"none"}
                           /\ pc'[q] \in {"connect", "creating", "migrating"} <=> txn'[q].on # "none"
    <3>1. txn'[r].on \in Agents \cup {"none"}
      BY DEF Transactions
    <3>. QED  BY <1>2, <3>1 DEF SchemaInv, TypeOK
  <2>. QED  BY <1>2, <2>1 DEF SchemaInv, TypeOK
<1>4. RunsBuild' /\ JobsInOrder' /\ FailuresCounted'
  <2>1. RunsBuild'
    BY SMTT(30), <1>2 DEF SchemaInv, RunsBuild, Blank
  <2>2. FailuresCounted'
    BY <1>1, <1>2 DEF SchemaInv, FailuresCounted
  <2>3. JobsInOrder'
    BY <1>2 DEF SchemaInv, JobsInOrder, Runners
  <2>. QED  BY <2>1, <2>2, <2>3
<1>5. SchemaMatchesVersion'
  BY DEF SchemaInv, SchemaMatchesVersion
<1>. QED  BY <1>2, <1>3, <1>4, <1>5 DEF SchemaInv

LEMMA RunnerOpen ==
  ASSUME SchemaInv, NEW r \in Runners, pc[r] \in {"connect", "creating", "migrating"}
  PROVE  /\ txn[r] \in Transactions
         /\ txn[r].on \in Agents
         /\ txn[r].version \in 0..Latest
         /\ objects[txn[r].on] \in SUBSET Objects
         /\ version[txn[r].on] \in 0..Latest
         /\ objects[txn[r].on] # {} => objects[txn[r].on] = Built(version[txn[r].on])
         /\ pc[r] \in {"connect", "creating"} => Blank(txn[r])
  BY MigrationsAssumption DEF SchemaInv, TypeOK, Transactions, RunsBuild, SchemaMatchesVersion

(* The revision that a run applies, whichever way it goes. *)
LEMMA RevisionFields ==
  ASSUME SchemaInv, NEW r \in Runners, pc[r] = "migrating", txn[r].version # txn[r].target,
         NEW t \in Transactions, t = txn[r],
         NEW u, u = IF t.version < t.target THEN Upgraded(t) ELSE Downgraded(t)
  PROVE  /\ u \in Transactions
         /\ u.on = t.on /\ u.target = t.target /\ u.signed = t.signed /\ u.saw = t.saw
         /\ u.version = IF t.version < t.target THEN t.version + 1 ELSE t.version - 1
         /\ u.objects = Built(u.version)
<1>1. /\ t.on \in Agents /\ t.version \in 0..Latest /\ t.target \in 0..Latest
      /\ t.objects = Built(t.version)
      /\ acl \in [Agents -> SUBSET Entries]
  BY RunnerOpen DEF SchemaInv, RunsBuild, Transactions
<1>2. CASE t.version < t.target
  <2>1. t.version < Latest
    BY <1>1, <1>2
  <2>. QED  BY <1>1, <1>2, <2>1, UpgradedFields
<1>3. CASE ~(t.version < t.target)
  <2>1. t.version > 0
    BY <1>1, <1>3
  <2>. QED  BY <1>1, <1>3, <2>1, DowngradedFields
<1>. QED  BY <1>2, <1>3

(* A run commits what it built. *)
LEMMA CommitKeepsSchemaInv ==
  ASSUME SchemaInv, NEW r \in Runners, Commit(r)
  PROVE  SchemaInv'
<1>. DEFINE a == txn[r].on
<1>1. /\ pc \in [Runners -> {"idle", "check", "create", "loop", "connect", "creating",
                             "migrating", "done", "failed"}]
      /\ txn \in [Runners -> Transactions]
      /\ position \in [Runners -> 1..(Len(MigrateAgents) + 1)]
      /\ objects \in [Agents -> SUBSET Objects]
      /\ version \in [Agents -> 0..Latest]
      /\ acl \in [Agents -> SUBSET Entries]
      /\ txn[r] \in Transactions /\ a \in Agents
      /\ txn[r].version \in 0..Latest
      /\ txn[r].objects = Built(txn[r].version)
  BY RunnerOpen DEF SchemaInv, TypeOK, RunsBuild, Commit
<1>2. /\ pc'[r] \in {"idle", "loop"} /\ txn'[r] = NoTxn
      /\ \A q \in Runners \ {r} : pc'[q] = pc[q] /\ txn'[q] = txn[q]
      /\ pc' \in [Runners -> {"idle", "check", "create", "loop", "connect", "creating",
                              "migrating", "done", "failed"}]
      /\ txn' \in [Runners -> Transactions]
  BY <1>1, NoTxnTyped DEF Commit, Goes
<1>3. RunsBuild' /\ JobsInOrder' /\ FailuresCounted'
  <2>1. \A q \in Runners \ {r} : position'[q] = position[q]
    BY <1>1 DEF Commit
  <2>2. JobsInOrder'
    BY <1>2, <2>1 DEF SchemaInv, JobsInOrder, Runners
  <2>. QED
    BY ZenonT(120), <1>1, <1>2, <2>2 DEF SchemaInv, RunsBuild, FailuresCounted, Blank, Commit
<1>4. /\ \/ UNCHANGED <<objects, version, acl>>
         \/ /\ objects' = [objects EXCEPT ![a] = txn[r].objects]
            /\ version' = [version EXCEPT ![a] = txn[r].version]
            /\ acl' \in [Agents -> SUBSET Entries]
      /\ objects' \in [Agents -> SUBSET Objects]
      /\ version' \in [Agents -> 0..Latest]
      /\ acl' \in [Agents -> SUBSET Entries]
  <2>1. Visible(txn[r]) \in SUBSET Entries
    BY <1>1 DEF Visible, Transactions
  <2>2. txn[r].objects \in SUBSET Objects
    BY <1>1 DEF Transactions
  <2>3. {e \in Visible(txn[r]) : e[3] \in txn[r].objects \cup {"default"}} \in SUBSET Entries
    BY <2>1
  <2>. QED  BY <1>1, <2>2, <2>3 DEF Commit
<1>5. SchemaMatchesVersion'
  <2>1. txn[r].objects # {}
    BY <1>1, BuiltSchema
  <2>. QED  BY <1>1, <1>4, <2>1 DEF SchemaInv, SchemaMatchesVersion
<1>6. TypeOK'
  <2>1. position' \in [Runners -> 1..(Len(MigrateAgents) + 1)]
    <3>1. r \in Jobs => position[r] <= Len(MigrateAgents)
      BY DEF SchemaInv, JobsInOrder, Commit
    <3>2. Len(MigrateAgents) \in Nat
      BY MigrationsAssumption
    <3>. QED  BY <1>1, <3>1, <3>2 DEF Commit
  <2>2. \A b \in Agents : objects'[b] = {} \/ NewSchema \subseteq objects'[b]
    <3>1. NewSchema \subseteq txn[r].objects
      BY <1>1, BuiltSchema
    <3>. QED  BY <1>1, <1>4, <3>1 DEF SchemaInv, TypeOK
  <2>3. \A b \in Agents : acl'[b] \subseteq Entries
    BY <1>4
  <2>4. \A q \in Runners : /\ txn'[q].on \in Agents \cup {"none"}
                           /\ pc'[q] \in {"connect", "creating", "migrating"} <=> txn'[q].on # "none"
    BY <1>2, NoTxnTyped DEF SchemaInv, TypeOK
  <2>5. /\ UNCHANGED <<database, atRest, failures, crashes, manual>>
        /\ database \in BOOLEAN /\ atRest \in [Agents -> SUBSET Readers]
        /\ failures \in [Runners -> 0..(BackoffLimit + 1)]
        /\ crashes \in 0..MaxCrashes /\ manual \in 0..MaxManual
    BY DEF SchemaInv, TypeOK, Commit
  <2>. QED  BY <1>2, <1>4, <2>1, <2>2, <2>3, <2>4, <2>5 DEF TypeOK, Entries
<1>. QED  BY <1>2, <1>3, <1>4, <1>5, <1>6 DEF SchemaInv

LEMMA GrantReadersKeepsSchemaInv ==
  ASSUME SchemaInv, GrantReaders
  PROVE  SchemaInv'
<1>1. acl' \in [Agents -> SUBSET Entries]
  <2>1. \A a \in Agents : UNION {Reads(reader, objects[a] \cap Tables) : reader \in Readers}
                            \in SUBSET Entries
    <3>1. \A reader \in Readers, a \in Agents : Reads(reader, objects[a] \cap Tables) \subseteq Entries
      BY GrantsTyped
    <3>. QED  BY <3>1
  <2>2. \A a \in Agents : acl[a] \in SUBSET Entries
    BY DEF SchemaInv
  <2>. QED  BY <2>1, <2>2 DEF GrantReaders
<1>2. atRest' \in [Agents -> SUBSET Readers]
  BY DEF SchemaInv, TypeOK, GrantReaders
<1>3. \A a \in Agents : acl'[a] \subseteq Entries
  BY <1>1
<1>4. TypeOK'
  BY <1>2, <1>3 DEF SchemaInv, TypeOK, GrantReaders, Entries
<1>. QED
  BY <1>1, <1>4 DEF SchemaInv, GrantReaders, FailuresCounted, RunsBuild, JobsInOrder,
     SchemaMatchesVersion, Blank

LEMMA BootstrapKeepsSchemaInv ==
  ASSUME SchemaInv, NEW j \in Jobs, Bootstrap(j) \/ Loop(j)
  PROVE  SchemaInv'
<1>1. /\ j \in Runners /\ pc \in [Runners -> {"idle", "check", "create", "loop", "connect",
                                             "creating", "migrating", "done", "failed"}]
      /\ txn \in [Runners -> Transactions]
      /\ position \in [Runners -> 1..(Len(MigrateAgents) + 1)]
      /\ database \in BOOLEAN /\ manual \in 0..MaxManual /\ crashes \in 0..MaxCrashes
  BY DEF SchemaInv, TypeOK, Runners
<1>2. pc[j] \notin {"connect", "creating", "migrating"} => txn[j] = NoTxn
  BY <1>1 DEF SchemaInv, RunsBuild
<1>3. ASSUME ApplyJob(j) \/ CheckDatabase(j) \/ AllAtHead(j)
      PROVE  SchemaInv'
  <2>1. /\ pc[j] \in {"idle", "check", "loop"} /\ pc' = [pc EXCEPT ![j] = pc'[j]]
        /\ pc'[j] \in {"check", "create", "loop", "done"}
        /\ UNCHANGED <<catalog, atRest, position, txn, failures, crashes, manual>>
    BY <1>1, <1>3 DEF ApplyJob, CheckDatabase, AllAtHead, Goes
  <2>2. txn'[j] = NoTxn /\ txn' = [txn EXCEPT ![j] = txn'[j]]
    BY <1>1, <1>2, <2>1
  <2>. HIDE <1>3
  <2>. QED  BY <1>1, <2>1, <2>2, NoTxnTyped, RunnerKeepsSchemaInv DEF catalog
<1>4. ASSUME CreateDatabase(j)
      PROVE  SchemaInv'
  <2>1. CASE database
    BY <1>1, <1>4, <2>1, FailsKeepsSchemaInv DEF CreateDatabase, Raises
  <2>2. CASE ~database
    <3>1. /\ pc[j] = "create" /\ pc' = [pc EXCEPT ![j] = pc'[j]] /\ pc'[j] = "loop"
          /\ UNCHANGED <<objects, version, acl, atRest, position, txn, failures, crashes, manual>>
          /\ database' \in BOOLEAN
      BY <1>1, <1>4, <2>2 DEF CreateDatabase, Goes
    <3>2. txn'[j] = NoTxn /\ txn' = [txn EXCEPT ![j] = txn'[j]]
      BY <1>1, <1>2, <3>1
    <3>. QED  BY <1>1, <3>1, <3>2, NoTxnTyped, RunnerKeepsSchemaInv
  <2>. QED  BY <2>1, <2>2
<1>5. ASSUME NextAgent(j)
      PROVE  SchemaInv'
  <2>1. MigrateAgents[position[j]] \in Agents
    BY <1>1, <1>5, AgentsListed, MigrationsAssumption DEF NextAgent
  <2>2. PICK a \in Agents : a = MigrateAgents[position[j]] /\ a # "none"
    BY <2>1, MigrationsAssumption
  <2>3. /\ pc[j] = "loop" /\ pc' = [pc EXCEPT ![j] = pc'[j]] /\ pc'[j] = "connect"
        /\ txn'[j] = Opened(a, Latest, TRUE) /\ txn' = [txn EXCEPT ![j] = txn'[j]]
        /\ position[j] <= Len(MigrateAgents)
        /\ UNCHANGED <<database, objects, version, acl, atRest, position, failures, crashes, manual>>
    BY <1>1, <1>5, <2>2 DEF NextAgent, Goes, catalog
  <2>4. /\ txn'[j] \in Transactions /\ txn'[j].on = a /\ txn'[j].target = Latest
        /\ txn'[j].signed /\ Blank(txn'[j])
    BY ZenonT(120), <2>3, JobsOpen
  <2>. QED  BY <1>1, <2>2, <2>3, <2>4, RunnerKeepsSchemaInv
<1>. QED  BY <1>3, <1>4, <1>5 DEF Bootstrap, Loop

LEMMA ByHandKeepsSchemaInv ==
  ASSUME SchemaInv, NEW o \in Operators, NEW a \in Agents, NEW target \in ManualTargets,
         NEW signed \in BOOLEAN, RunByHand(o, a, target, signed)
  PROVE  SchemaInv'
<1>1. /\ o \in Runners /\ pc \in [Runners -> {"idle", "check", "create", "loop", "connect",
                                             "creating", "migrating", "done", "failed"}]
      /\ txn \in [Runners -> Transactions]
      /\ database \in BOOLEAN /\ manual' \in 0..MaxManual
      /\ target \in 0..Latest /\ a # "none" /\ o \notin Jobs
  BY MigrationsAssumption DEF SchemaInv, TypeOK, Runners, RunByHand
<1>2. /\ pc[o] = "idle" /\ pc' = [pc EXCEPT ![o] = pc'[o]] /\ pc'[o] = "connect"
      /\ txn'[o] = Opened(a, target, signed) /\ txn' = [txn EXCEPT ![o] = txn'[o]]
      /\ UNCHANGED <<database, objects, version, acl, atRest, position, failures, crashes>>
  BY <1>1 DEF RunByHand, Goes, catalog
<1>3. /\ txn'[o] \in Transactions /\ txn'[o].on = a /\ txn'[o].target = target
      /\ txn'[o].signed = signed /\ Blank(txn'[o])
  BY <1>1, <1>2, OpenedTyped
<1>. QED  BY <1>1, <1>2, <1>3, RunnerKeepsSchemaInv

LEMMA AlembicKeepsSchemaInv ==
  ASSUME SchemaInv, NEW r \in Runners, Alembic(r)
  PROVE  SchemaInv'
<1>1. /\ pc \in [Runners -> {"idle", "check", "create", "loop", "connect",
                             "creating", "migrating", "done", "failed"}]
      /\ txn \in [Runners -> Transactions]
      /\ database \in BOOLEAN /\ manual \in 0..MaxManual /\ crashes \in 0..MaxCrashes
  BY DEF SchemaInv, TypeOK
<1>2. /\ pc[r] \in {"connect", "creating", "migrating"}
      /\ txn[r] \in Transactions /\ txn[r].on \in Agents /\ txn[r].on # "none"
      /\ r \in Jobs => /\ position[r] <= Len(MigrateAgents)
                       /\ txn[r].on = MigrateAgents[position[r]]
                       /\ txn[r].target = Latest /\ txn[r].signed
  <2>1. pc[r] \in {"connect", "creating", "migrating"}
    BY DEF Alembic, FindSchema, SchemaMissing, CreateSchema, RunRevision, Commit
  <2>. QED  BY <2>1, RunnerOpen DEF SchemaInv, JobsInOrder, TypeOK
<1>3. ASSUME FindSchema(r)
      PROVE  SchemaInv'
  <2>. DEFINE a == txn[r].on
  <2>1. /\ pc[r] = "connect" /\ objects[a] \in SUBSET Objects /\ version[a] \in 0..Latest
        /\ objects[a] = Built(version[a])
    BY <1>3, RunnerOpen DEF FindSchema
  <2>2. /\ pc' = [pc EXCEPT ![r] = pc'[r]] /\ pc'[r] = "migrating"
        /\ txn'[r] = [txn[r] EXCEPT !.objects = objects[a], !.version = version[a],
                                    !.saw = <<objects[a], version[a]>>]
        /\ txn' = [txn EXCEPT ![r] = txn'[r]]
        /\ UNCHANGED <<database, objects, version, acl, atRest, position, failures, crashes, manual>>
    BY <1>1, <1>3 DEF FindSchema, Goes, catalog
  <2>3. /\ txn'[r] \in Transactions /\ txn'[r].on = a /\ txn'[r].target = txn[r].target
        /\ txn'[r].signed = txn[r].signed
        /\ txn'[r].objects = objects[a] /\ txn'[r].version = version[a]
    <3>1. PICK built \in SUBSET Objects, v \in 0..Latest : built = objects[a] /\ v = version[a]
      BY <2>1
    <3>2. <<built, v>> \in (SUBSET Objects) \X (0..Latest)
      OBVIOUS
    <3>3. txn'[r] = [txn[r] EXCEPT !.objects = built, !.version = v, !.saw = <<built, v>>]
      BY <2>2, <3>1
    <3>. QED  BY <1>2, <3>1, <3>2, <3>3 DEF Transactions
  <2>. HIDE DEF a
  <2>. QED  BY <1>1, <1>2, <2>1, <2>2, <2>3, RunnerKeepsSchemaInv DEF a
<1>4. ASSUME SchemaMissing(r)
      PROVE  SchemaInv'
  <2>1. /\ pc[r] = "connect" /\ pc' = [pc EXCEPT ![r] = pc'[r]] /\ pc'[r] = "creating"
        /\ UNCHANGED <<database, objects, version, acl, atRest, position, txn, failures, crashes, manual>>
    BY <1>1, <1>4 DEF SchemaMissing, Goes, catalog
  <2>2. txn'[r] = txn[r] /\ txn' = [txn EXCEPT ![r] = txn'[r]]
    BY <1>1, <2>1
  <2>3. Blank(txn[r])
    BY <2>1, RunnerOpen
  <2>4. Blank(txn'[r])
    BY <2>2, <2>3 DEF Blank
  <2>. QED  BY <1>1, <1>2, <2>1, <2>2, <2>4, RunnerKeepsSchemaInv
<1>5. ASSUME CreateSchema(r)
      PROVE  SchemaInv'
  <2>1. CASE Stale(r)
    BY <1>1, <1>5, <2>1, FailsKeepsSchemaInv DEF CreateSchema, Raises, catalog
  <2>2. CASE ~Stale(r)
    <3>1. /\ pc[r] = "creating" /\ pc' = [pc EXCEPT ![r] = pc'[r]] /\ pc'[r] = "migrating"
          /\ txn'[r] = [txn[r] EXCEPT !.objects = NewSchema]
          /\ txn' = [txn EXCEPT ![r] = txn'[r]]
          /\ UNCHANGED <<database, objects, version, acl, atRest, position, failures, crashes, manual>>
      BY <1>1, <1>5, <2>2 DEF CreateSchema, Goes, catalog
    <3>2. NewSchema \in SUBSET Objects /\ NewSchema = Built(0)
      BY BuiltSchema, 0 \in 0..Latest, BuiltObjects
    <3>3. txn[r].version = 0
      BY <3>1, RunnerOpen DEF Blank
    <3>4. /\ txn'[r] \in Transactions /\ txn'[r].on = txn[r].on
          /\ txn'[r].target = txn[r].target /\ txn'[r].signed = txn[r].signed
          /\ txn'[r].objects = Built(txn'[r].version)
      BY <1>2, <3>1, <3>2, <3>3 DEF Transactions
    <3>. QED  BY <1>1, <1>2, <3>1, <3>4, RunnerKeepsSchemaInv
  <2>. QED  BY <2>1, <2>2
<1>6. ASSUME RunRevision(r)
      PROVE  SchemaInv'
  <2>1. CASE Stale(r) \/ ~Applies(txn[r])
    BY <1>1, <1>6, <2>1, FailsKeepsSchemaInv DEF RunRevision, Raises, catalog
  <2>2. CASE ~(Stale(r) \/ ~Applies(txn[r]))
    <3>1. /\ pc[r] = "migrating" /\ txn[r].version # txn[r].target
          /\ pc' = [pc EXCEPT ![r] = pc'[r]] /\ pc'[r] = "migrating"
          /\ txn'[r] = IF txn[r].version < txn[r].target
                       THEN Upgraded(txn[r]) ELSE Downgraded(txn[r])
          /\ txn' = [txn EXCEPT ![r] = txn'[r]]
          /\ UNCHANGED <<database, objects, version, acl, atRest, position, failures, crashes, manual>>
      BY <1>1, <1>6, <2>2 DEF RunRevision, catalog
    <3>2. /\ txn'[r] \in Transactions /\ txn'[r].on = txn[r].on
          /\ txn'[r].target = txn[r].target /\ txn'[r].signed = txn[r].signed
          /\ txn'[r].objects = Built(txn'[r].version)
      BY <1>2, <3>1, RevisionFields
    <3>. QED  BY <1>1, <1>2, <3>1, <3>2, RunnerKeepsSchemaInv
  <2>. QED  BY <2>1, <2>2
<1>. QED  BY <1>3, <1>4, <1>5, <1>6, CommitKeepsSchemaInv DEF Alembic

LEMMA SchemaNextInv == SchemaInv /\ [Next]_vars => SchemaInv'
<1>. SUFFICES ASSUME SchemaInv, [Next]_vars PROVE SchemaInv'
  OBVIOUS
<1>1. CASE UNCHANGED vars
  BY <1>1 DEF SchemaInv, vars, catalog, TypeOK, FailuresCounted, RunsBuild, JobsInOrder,
     SchemaMatchesVersion, Blank
<1>2. ASSUME NEW j \in Jobs, Bootstrap(j) \/ Loop(j) PROVE SchemaInv'
  BY <1>2, BootstrapKeepsSchemaInv
<1>3. ASSUME NEW o \in Operators, ByHand(o) PROVE SchemaInv'
  BY <1>3, ByHandKeepsSchemaInv DEF ByHand
<1>4. ASSUME NEW r \in Runners, Alembic(r) PROVE SchemaInv'
  BY <1>4, AlembicKeepsSchemaInv
<1>5. ASSUME NEW r \in Runners, Crash(r) PROVE SchemaInv'
  <2>1. database' \in BOOLEAN /\ crashes' \in 0..MaxCrashes
    BY <1>5, MigrationsAssumption DEF SchemaInv, TypeOK, Crash, catalog
  <2>. QED  BY <1>5, <2>1, FailsKeepsSchemaInv DEF Crash, catalog
<1>6. CASE GrantReaders
  BY <1>6, GrantReadersKeepsSchemaInv
<1>. QED  BY <1>1, <1>2, <1>3, <1>4, <1>5, <1>6 DEF Next

(* Every variable of the migrations keeps its type; a transaction is open     *)
(* exactly where the runner's place says so.                                 *)
THEOREM MigrationTypes == Spec => []TypeOK
<1>. QED  BY SchemaInitInv, SchemaNextInv, PTL DEF Spec, SchemaInv

(* Whoever is killed, fails or races, a schema that others can see holds what *)
(* its alembic_version says (env.py, versions/).                             *)
THEOREM SchemasMatchVersions == Spec => []SchemaMatchesVersion
<1>. QED  BY SchemaInitInv, SchemaNextInv, PTL DEF Spec, SchemaInv

-----------------------------------------------------------------------------
(* Transactions on one schema do not overlap.                              *)

Fresh(r) == txn[r].saw = <<objects[txn[r].on], version[txn[r].on]>>

(* Nobody commits under a run that has written, and no two have written. *)
Isolated ==
  /\ \A r \in Runners : pc[r] = "migrating" /\ Wrote(txn[r]) => Fresh(r)
  /\ \A r, q \in Runners :
       /\ pc[r] = "migrating" /\ Wrote(txn[r])
       /\ pc[q] = "migrating" /\ Wrote(txn[q])
       /\ txn[r].on = txn[q].on
       => r = q

(* A run goes one way, from the version it saw, and grants once it writes. *)
OneWay ==
  \A r \in Runners : pc[r] = "migrating" =>
    LET t == txn[r] IN
    /\ \/ t.saw[2] <= t.version /\ t.version <= t.target
       \/ t.saw[2] >= t.version /\ t.version >= t.target
    /\ \/ t.saw[1] = {} /\ t.saw[2] = 0
       \/ t.saw[1] = Built(t.saw[2])
    /\ ~Wrote(t) => t.give = {} /\ t.take = {} /\ ~t.grants

IsolationInv == SchemaInv /\ Isolated /\ OneWay

(* The steps of a runner: what it may do to its transaction. *)
Looks(r) ==
  /\ pc'[r] = "migrating"
  /\ txn'[r].on = txn[r].on
  /\ Blank(txn[r])
  /\ txn'[r].saw = <<objects[txn[r].on], version[txn[r].on]>>
  /\ txn'[r].objects = objects[txn[r].on] /\ txn'[r].version = version[txn[r].on]
  /\ objects[txn[r].on] # {}
  /\ txn'[r].give = {} /\ txn'[r].take = {} /\ ~txn'[r].grants

Creating(r) ==
  /\ pc'[r] = "migrating"
  /\ ~Waits(r) /\ Fresh(r)
  /\ Blank(txn[r])
  /\ txn'[r].on = txn[r].on /\ txn'[r].saw = txn[r].saw
  /\ txn'[r].objects = NewSchema /\ txn'[r].version = 0
  /\ txn'[r].give = {} /\ txn'[r].take = {} /\ ~txn'[r].grants

Revises(r) ==
  /\ pc[r] = "migrating" /\ pc'[r] = "migrating"
  /\ ~Waits(r) /\ ~Stale(r)
  /\ txn[r].version # txn[r].target
  /\ txn'[r] = IF txn[r].version < txn[r].target THEN Upgraded(txn[r]) ELSE Downgraded(txn[r])

(* Seen from a schema, a step is one of these. *)
Bystands(r) == pc'[r] # "migrating"

LEMMA StepShapes ==
  ASSUME SchemaInv, Next
  PROVE  \/ \E r \in Runners : /\ Looks(r) \/ Creating(r) \/ Revises(r) \/ Bystands(r)
                               /\ \A q \in Runners \ {r} : pc'[q] = pc[q] /\ txn'[q] = txn[q]
                               /\ UNCHANGED <<objects, version, acl, atRest>>
         \/ \E r \in Runners : Commit(r)
         \/ GrantReaders
<1>1. /\ pc \in [Runners -> {"idle", "check", "create", "loop", "connect",
                             "creating", "migrating", "done", "failed"}]
      /\ txn \in [Runners -> Transactions]
  BY DEF SchemaInv, TypeOK
<1>. DEFINE Alone(r) == /\ \A q \in Runners \ {r} : pc'[q] = pc[q] /\ txn'[q] = txn[q]
                        /\ UNCHANGED <<objects, version, acl, atRest>>
<1>2. ASSUME NEW j \in Jobs, Bootstrap(j) \/ Loop(j)
      PROVE  j \in Runners /\ Bystands(j) /\ Alone(j)
  BY <1>1, <1>2 DEF Runners, Bootstrap, Loop, ApplyJob, CheckDatabase, CreateDatabase, NextAgent,
     AllAtHead, Raises, Fails, Goes, Bystands, catalog
<1>3. ASSUME NEW o \in Operators, ByHand(o)
      PROVE  o \in Runners /\ Bystands(o) /\ Alone(o)
  BY <1>1, <1>3 DEF Runners, ByHand, RunByHand, Goes, Bystands, catalog
<1>4. ASSUME NEW r \in Runners, Crash(r)
      PROVE  Bystands(r) /\ Alone(r)
  BY <1>1, <1>4 DEF Crash, Fails, Goes, Bystands, catalog
<1>5. ASSUME NEW r \in Runners, Alembic(r), ~Commit(r)
      PROVE  (Looks(r) \/ Creating(r) \/ Revises(r) \/ Bystands(r)) /\ Alone(r)
  <2>1. pc[r] \in {"connect", "creating", "migrating"} /\ txn[r] \in Transactions
        /\ (pc[r] \in {"connect", "creating"} => Blank(txn[r]))
    BY <1>5, RunnerOpen DEF Alembic, FindSchema, SchemaMissing, CreateSchema, RunRevision
  <2>2. CASE FindSchema(r)
    <3>1. /\ pc[r] = "connect" /\ objects[txn[r].on] # {} /\ pc'[r] = "migrating"
          /\ txn'[r] = [txn[r] EXCEPT !.objects = objects[txn[r].on],
                                      !.version = version[txn[r].on],
                                      !.saw = <<objects[txn[r].on], version[txn[r].on]>>]
          /\ Alone(r)
      BY <1>1, <2>2 DEF FindSchema, Goes, catalog
    <3>. QED  BY <2>1, <3>1 DEF Looks, Transactions, Blank
  <2>3. CASE SchemaMissing(r)
    BY <1>1, <2>3 DEF SchemaMissing, Goes, Bystands, catalog
  <2>4. CASE CreateSchema(r)
    <3>1. CASE Stale(r)
      BY <1>1, <2>4, <3>1 DEF CreateSchema, Raises, Fails, Goes, Bystands, catalog
    <3>2. CASE ~Stale(r)
      <4>1. /\ pc[r] = "creating" /\ ~Waits(r) /\ pc'[r] = "migrating"
            /\ txn'[r] = [txn[r] EXCEPT !.objects = NewSchema]
            /\ Alone(r)
        BY <1>1, <2>4, <3>2 DEF CreateSchema, Goes, catalog
      <4>2. Blank(txn[r]) /\ ~Wrote(txn[r]) /\ Fresh(r)
        BY <2>1, <3>2, <4>1 DEF Blank, Wrote, Stale, Fresh
      <4>. QED  BY <2>1, <4>1, <4>2 DEF Creating, Transactions, Blank
    <3>. QED  BY <3>1, <3>2
  <2>5. CASE RunRevision(r)
    <3>1. CASE Stale(r) \/ ~Applies(txn[r])
      BY <1>1, <2>5, <3>1 DEF RunRevision, Raises, Fails, Goes, Bystands, catalog
    <3>2. CASE ~(Stale(r) \/ ~Applies(txn[r]))
      BY <1>1, <2>5, <3>2 DEF RunRevision, Revises, catalog
    <3>. QED  BY <3>1, <3>2
  <2>. QED  BY <1>5, <2>2, <2>3, <2>4, <2>5 DEF Alembic
<1>. QED  BY <1>2, <1>3, <1>4, <1>5 DEF Next

(* Revision by revision, a run leaves what it saw behind. *)
LEMMA RevisesFields ==
  ASSUME IsolationInv, NEW r \in Runners, Revises(r)
  PROVE  /\ txn[r] \in Transactions /\ txn'[r] \in Transactions
         /\ txn[r].on \in Agents /\ txn'[r].on = txn[r].on /\ txn'[r].saw = txn[r].saw
         /\ txn'[r].target = txn[r].target /\ txn'[r].signed = txn[r].signed
         /\ txn'[r].version = IF txn[r].version < txn[r].target
                              THEN txn[r].version + 1 ELSE txn[r].version - 1
         /\ txn'[r].objects = Built(txn'[r].version)
         /\ txn[r].objects = Built(txn[r].version)
         /\ txn[r].version \in 0..Latest /\ txn'[r].version \in 0..Latest
         /\ txn[r].saw[2] \in 0..Latest /\ txn[r].target \in 0..Latest
         /\ Fresh(r)
         /\ Wrote(txn'[r])
         /\ \/ /\ txn[r].version < txn[r].target /\ txn[r].saw[2] <= txn[r].version
               /\ txn'[r].version = txn[r].version + 1
            \/ /\ txn[r].version > txn[r].target /\ txn[r].saw[2] >= txn[r].version
               /\ txn'[r].version = txn[r].version - 1
<1>1. /\ pc[r] = "migrating" /\ txn[r].version # txn[r].target
      /\ txn[r] \in Transactions /\ txn[r].on \in Agents
      /\ txn[r].version \in 0..Latest /\ txn[r].target \in 0..Latest
      /\ txn[r].saw[2] \in 0..Latest /\ txn[r].on # "none"
      /\ txn[r].objects = Built(txn[r].version)
  BY RunnerOpen, MigrationsAssumption DEF IsolationInv, Revises, Transactions, SchemaInv, RunsBuild
<1>2. /\ txn'[r] \in Transactions /\ txn'[r].on = txn[r].on /\ txn'[r].saw = txn[r].saw
      /\ txn'[r].target = txn[r].target /\ txn'[r].signed = txn[r].signed
      /\ txn'[r].version = IF txn[r].version < txn[r].target
                           THEN txn[r].version + 1 ELSE txn[r].version - 1
      /\ txn'[r].objects = Built(txn'[r].version)
  BY <1>1, RevisionFields DEF IsolationInv, Revises
<1>3. txn'[r].version \in 0..Latest
  BY <1>1, <1>2
<1>4. \/ /\ txn[r].version < txn[r].target /\ txn[r].saw[2] <= txn[r].version
         /\ txn'[r].version = txn[r].version + 1
      \/ /\ txn[r].version > txn[r].target /\ txn[r].saw[2] >= txn[r].version
         /\ txn'[r].version = txn[r].version - 1
  BY <1>1, <1>2 DEF IsolationInv, OneWay
<1>5. Fresh(r)
  BY <1>1 DEF IsolationInv, Isolated, Revises, Stale, Fresh
<1>6. Wrote(txn'[r])
  BY <1>1, <1>2, <1>4 DEF Wrote
<1>. QED  BY <1>1, <1>2, <1>3, <1>4, <1>5, <1>6

LEMMA IsolationInit == Init => IsolationInv
  BY SchemaInitInv DEF Init, IsolationInv, Isolated, OneWay

LEMMA IsolatedNext ==
  ASSUME IsolationInv, Next
  PROVE  Isolated'
<1>1. ASSUME NEW r \in Runners, Bystands(r) \/ Looks(r),
             \A q \in Runners \ {r} : pc'[q] = pc[q] /\ txn'[q] = txn[q],
             UNCHANGED <<objects, version, acl, atRest>>
      PROVE  Isolated'
  <2>1. pc'[r] = "migrating" => ~Wrote(txn'[r])
    BY <1>1 DEF Bystands, Looks, Wrote
  <2>. QED  BY <1>1, <2>1 DEF IsolationInv, Isolated, Fresh, Wrote
<1>2. ASSUME NEW r \in Runners, Creating(r) \/ Revises(r),
             \A q \in Runners \ {r} : pc'[q] = pc[q] /\ txn'[q] = txn[q],
             UNCHANGED <<objects, version, acl, atRest>>
      PROVE  Isolated'
  <2>1. txn'[r].on = txn[r].on /\ txn'[r].saw = txn[r].saw /\ ~Waits(r) /\ Fresh(r)
    <3>1. CASE Creating(r)
      BY <3>1 DEF Creating
    <3>2. CASE Revises(r)
      BY <3>2, RevisesFields DEF Revises
    <3>. QED  BY <1>2, <3>1, <3>2
  <2>2. Fresh(r)'
    BY <1>2, <2>1 DEF Fresh
  <2>3. \A q \in Runners \ {r} : txn[q].on = txn[r].on => ~Wrote(txn[q])
    BY <2>1 DEF Waits
  <2>. QED  BY <1>2, <2>1, <2>2, <2>3 DEF IsolationInv, Isolated, Fresh, Wrote
<1>3. ASSUME NEW r \in Runners, Commit(r)
      PROVE  Isolated'
  <2>1. /\ pc \in [Runners -> {"idle", "check", "create", "loop", "connect",
                               "creating", "migrating", "done", "failed"}]
        /\ txn \in [Runners -> Transactions]
        /\ objects \in [Agents -> SUBSET Objects] /\ version \in [Agents -> 0..Latest]
    BY DEF IsolationInv, SchemaInv, TypeOK
  <2>2. /\ pc[r] = "migrating" /\ pc'[r] # "migrating"
        /\ \A q \in Runners \ {r} : pc'[q] = pc[q] /\ txn'[q] = txn[q]
    BY <1>3, <2>1 DEF Commit, Goes
  <2>3. \A q \in Runners \ {r} : pc[q] = "migrating" /\ Wrote(txn[q]) =>
          /\ objects'[txn[q].on] = objects[txn[q].on]
          /\ version'[txn[q].on] = version[txn[q].on]
    <3>1. CASE Wrote(txn[r])
      <4>1. /\ objects' = [objects EXCEPT ![txn[r].on] = txn[r].objects]
            /\ version' = [version EXCEPT ![txn[r].on] = txn[r].version]
        BY <1>3, <3>1 DEF Commit
      <4>2. \A q \in Runners \ {r} : pc[q] = "migrating" /\ Wrote(txn[q]) => txn[q].on # txn[r].on
        BY <2>2, <3>1 DEF IsolationInv, Isolated
      <4>3. \A q \in Runners : pc[q] = "migrating" => txn[q].on \in Agents
        BY RunnerOpen DEF IsolationInv
      <4>. QED  BY <2>1, <4>1, <4>2, <4>3
    <3>2. CASE ~Wrote(txn[r])
      BY <1>3, <3>2 DEF Commit
    <3>. QED  BY <3>1, <3>2
  <2>. QED  BY <2>2, <2>3 DEF IsolationInv, Isolated, Fresh, Wrote
<1>4. CASE GrantReaders
  BY <1>4 DEF GrantReaders, IsolationInv, Isolated, Fresh, Wrote
<1>. QED  BY <1>1, <1>2, <1>3, <1>4, StepShapes DEF IsolationInv

LEMMA OneWayNext ==
  ASSUME IsolationInv, Next
  PROVE  OneWay'
<1>. DEFINE Way(t) ==
       /\ \/ t.saw[2] <= t.version /\ t.version <= t.target
          \/ t.saw[2] >= t.version /\ t.version >= t.target
       /\ \/ t.saw[1] = {} /\ t.saw[2] = 0
          \/ t.saw[1] = Built(t.saw[2])
       /\ ~Wrote(t) => t.give = {} /\ t.take = {} /\ ~t.grants
<1>1. /\ SchemaInv' /\ \A q \in Runners : pc[q] = "migrating" => Way(txn[q])
      /\ \A q \in Runners : txn'[q] \in Transactions
  BY SchemaNextInv DEF IsolationInv, OneWay, SchemaInv
<1>2. ASSUME NEW r \in Runners, Looks(r)
      PROVE  Way(txn'[r])
  <2>1. /\ txn[r] \in Transactions /\ txn'[r] \in Transactions
        /\ version[txn[r].on] \in 0..Latest
        /\ objects[txn[r].on] = Built(version[txn[r].on])
    <3>1. SchemaInv' /\ pc'[r] = "migrating" /\ txn'[r].on = txn[r].on
      BY <1>1, <1>2 DEF Looks
    <3>2. txn'[r].on \in Agents /\ txn[r] \in Transactions /\ txn'[r] \in Transactions
      BY <3>1, MigrationsAssumption DEF IsolationInv, SchemaInv, TypeOK
    <3>. QED  BY <1>2, <3>1, <3>2 DEF IsolationInv, SchemaInv, TypeOK, SchemaMatchesVersion, Looks
  <2>2. txn'[r].version \in 0..Latest /\ txn'[r].target \in 0..Latest
    BY <2>1 DEF Transactions
  <2>. QED  BY <1>2, <2>1, <2>2 DEF Looks
<1>3. ASSUME NEW r \in Runners, Creating(r)
      PROVE  Way(txn'[r])
  <2>1. txn'[r].version = 0 /\ txn'[r].target \in 0..Latest
        /\ txn'[r].saw = <<{}, 0>>
    BY <1>1, <1>3 DEF Creating, Blank, Transactions
  <2>. QED  BY <1>3, <2>1 DEF Creating
<1>4. ASSUME NEW r \in Runners, Revises(r)
      PROVE  Way(txn'[r])
  <2>1. pc[r] = "migrating"
    BY <1>4 DEF Revises
  <2>. QED  BY <1>1, <1>4, <2>1, RevisesFields
<1>5. ASSUME NEW r \in Runners, Looks(r) \/ Creating(r) \/ Revises(r) \/ Bystands(r),
             \A q \in Runners \ {r} : pc'[q] = pc[q] /\ txn'[q] = txn[q]
      PROVE  \A q \in Runners : pc'[q] = "migrating" => Way(txn'[q])
  <2>1. pc'[r] = "migrating" => Way(txn'[r])
    BY <1>2, <1>3, <1>4, <1>5 DEF Bystands
  <2>. HIDE DEF Way
  <2>. QED  BY <1>1, <1>5, <2>1
<1>6. ASSUME NEW r \in Runners, Commit(r)
      PROVE  \A q \in Runners : pc'[q] = "migrating" => Way(txn'[q])
  <2>1. pc'[r] # "migrating" /\ \A q \in Runners \ {r} : pc'[q] = pc[q] /\ txn'[q] = txn[q]
    BY <1>6 DEF Commit, Goes, IsolationInv, SchemaInv, TypeOK
  <2>. HIDE DEF Way
  <2>. QED  BY <1>1, <2>1
<1>7. CASE GrantReaders
  BY <1>7 DEF GrantReaders, IsolationInv, OneWay, Wrote
<1>. HIDE DEF Way
<1>8. GrantReaders \/ \A q \in Runners : pc'[q] = "migrating" => Way(txn'[q])
  BY <1>5, <1>6, StepShapes DEF IsolationInv
<1>9. ASSUME \A q \in Runners : pc'[q] = "migrating" => Way(txn'[q])
      PROVE  OneWay'
  BY <1>9 DEF OneWay, Way, Wrote
<1>. QED  BY <1>7, <1>8, <1>9

LEMMA IsolationNext == IsolationInv /\ [Next]_vars => IsolationInv'
<1>1. ASSUME IsolationInv, Next
      PROVE  IsolationInv'
  BY <1>1, SchemaNextInv, IsolatedNext, OneWayNext DEF IsolationInv
<1>2. ASSUME IsolationInv, UNCHANGED vars
      PROVE  IsolationInv'
  BY <1>2, SchemaNextInv DEF IsolationInv, Isolated, OneWay, Fresh, Wrote, vars, catalog
<1>. QED  BY <1>1, <1>2

-----------------------------------------------------------------------------
(* Privileges, one entry at a time.                                        *)

Roles  == Agents \cup Readers
Privs  == Dml \cup {"USAGE"}
Places == Tables \cup {"schema", "default"}

(* What one who may read, and what one who may write, holds. *)
ReadAt(p, o, held) ==
  \/ p = "USAGE" /\ o = "schema"
  \/ p = "SELECT" /\ (o = "default" \/ o \in held \cap Tables)

WorkAt(p, o, held) ==
  \/ p = "USAGE" /\ o = "schema"
  \/ p \in Dml /\ (o = "default" \/ o \in held \cap Tables)

LEMMA NoTable == {"schema", "default"} \cap Tables = {} /\ "USAGE" \notin Dml
  BY DEF Tables, AdkTables, Dml

LEMMA InheritedAt ==
  ASSUME NEW held \in SUBSET Entries, NEW tables \in SUBSET Tables,
         NEW x \in Roles, NEW p \in Privs, NEW o \in Places
  PROVE  <<x, p, o>> \in Inherited(held, tables)
           <=> o \in tables /\ <<x, p, "default">> \in held
<1>1. ASSUME <<x, p, o>> \in Inherited(held, tables)
      PROVE  o \in tables /\ <<x, p, "default">> \in held
  <2>1. PICK e \in {d \in held : d[3] = "default"}, t \in tables : <<x, p, o>> = <<e[1], e[2], t>>
    BY <1>1 DEF Inherited
  <2>2. e = <<e[1], e[2], e[3]>>
    BY <2>1 DEF Entries
  <2>. QED  BY <2>1, <2>2
<1>2. ASSUME o \in tables, <<x, p, "default">> \in held
      PROVE  <<x, p, o>> \in Inherited(held, tables)
  <2>1. PICK e \in {d \in held : d[3] = "default"} : e = <<x, p, "default">>
    BY <1>2
  <2>. QED  BY <1>2, <2>1 DEF Inherited
<1>. QED  BY <1>1, <1>2

LEMMA GrantsAt ==
  ASSUME NEW x \in Roles, NEW y \in Roles, NEW p \in Privs, NEW o \in Places, NEW held
  PROVE  <<x, p, o>> \in Grants(y, held \cap Tables) <=> x = y /\ WorkAt(p, o, held)
<1>1. <<x, p, o>> \in {<<y, q, t>> : q \in Dml, t \in held \cap Tables}
        <=> x = y /\ p \in Dml /\ o \in held \cap Tables
  OBVIOUS
<1>2. <<x, p, o>> \in {<<y, q, "default">> : q \in Dml}
        <=> x = y /\ p \in Dml /\ o = "default"
  OBVIOUS
<1>. QED  BY <1>1, <1>2 DEF Grants, WorkAt

LEMMA ReadsAt ==
  ASSUME NEW x \in Roles, NEW y \in Roles, NEW p \in Privs, NEW o \in Places, NEW held
  PROVE  <<x, p, o>> \in Reads(y, held \cap Tables) <=> x = y /\ ReadAt(p, o, held)
<1>1. <<x, p, o>> \in {<<y, "SELECT", t>> : t \in held \cap Tables}
        <=> x = y /\ p = "SELECT" /\ o \in held \cap Tables
  OBVIOUS
<1>. QED  BY <1>1 DEF Reads, ReadAt

(* What one role holds, and that it can be compared place by place. *)
HeldBy(x, held) == {e \in held : e[1] = x}

LEMMA SameEntries ==
  ASSUME NEW x \in Roles, NEW S \in SUBSET Entries,
         NEW T \in SUBSET Entries, \A e \in T : e[1] = x
  PROVE  HeldBy(x, S) = T
           <=> \A p \in Privs, o \in Places : <<x, p, o>> \in S <=> <<x, p, o>> \in T
<1>1. ASSUME \A p \in Privs, o \in Places : <<x, p, o>> \in S <=> <<x, p, o>> \in T,
             NEW e \in Entries
      PROVE  e \in S /\ e[1] = x <=> e \in T
  <2>1. e = <<e[1], e[2], e[3]>> /\ e[2] \in Privs /\ e[3] \in Places
    BY DEF Entries, Privs, Places
  <2>. QED  BY <1>1, <2>1
<1>2. ASSUME HeldBy(x, S) = T, NEW p \in Privs, NEW o \in Places
      PROVE  <<x, p, o>> \in S <=> <<x, p, o>> \in T
  BY <1>2 DEF HeldBy
<1>3. ASSUME \A p \in Privs, o \in Places : <<x, p, o>> \in S <=> <<x, p, o>> \in T
      PROVE  HeldBy(x, S) = T
  BY <1>1, <1>3 DEF HeldBy
<1>. QED  BY <1>2, <1>3

LEMMA ReadersAt ==
  ASSUME NEW S \in SUBSET Entries, NEW x \in Roles, NEW held
  PROVE  HeldBy(x, S) = Reads(x, held \cap Tables)
           <=> \A p \in Privs, o \in Places : <<x, p, o>> \in S <=> ReadAt(p, o, held)
<1>1. Reads(x, held \cap Tables) \in SUBSET Entries
  BY GrantsTyped DEF Roles
<1>2. \A e \in Reads(x, held \cap Tables) : e[1] = x
  BY DEF Reads
<1>3. HeldBy(x, S) = Reads(x, held \cap Tables)
        <=> \A p \in Privs, o \in Places :
              <<x, p, o>> \in S <=> <<x, p, o>> \in Reads(x, held \cap Tables)
  <2>1. PICK T \in SUBSET Entries : T = Reads(x, held \cap Tables)
    BY <1>1
  <2>2. \A e \in T : e[1] = x
    BY <1>2, <2>1
  <2>3. HeldBy(x, S) = T <=> \A p \in Privs, o \in Places : <<x, p, o>> \in S <=> <<x, p, o>> \in T
    BY <2>2, SameEntries
  <2>. QED  BY <2>1, <2>3
<1>4. \A p \in Privs, o \in Places :
        <<x, p, o>> \in Reads(x, held \cap Tables) <=> ReadAt(p, o, held)
  BY ReadsAt
<1>. QED  BY <1>3, <1>4

LEMMA WritersAt ==
  ASSUME NEW S \in SUBSET Entries, NEW x \in Roles, NEW held
  PROVE  HeldBy(x, S) = Grants(x, held \cap Tables)
           <=> \A p \in Privs, o \in Places : <<x, p, o>> \in S <=> WorkAt(p, o, held)
<1>1. Grants(x, held \cap Tables) \in SUBSET Entries
  BY GrantsTyped DEF Roles
<1>2. \A e \in Grants(x, held \cap Tables) : e[1] = x
  BY DEF Grants
<1>3. HeldBy(x, S) = Grants(x, held \cap Tables)
        <=> \A p \in Privs, o \in Places :
              <<x, p, o>> \in S <=> <<x, p, o>> \in Grants(x, held \cap Tables)
  <2>1. PICK T \in SUBSET Entries : T = Grants(x, held \cap Tables)
    BY <1>1
  <2>2. \A e \in T : e[1] = x
    BY <1>2, <2>1
  <2>3. HeldBy(x, S) = T <=> \A p \in Privs, o \in Places : <<x, p, o>> \in S <=> <<x, p, o>> \in T
    BY <2>2, SameEntries
  <2>. QED  BY <2>1, <2>3
<1>4. \A p \in Privs, o \in Places :
        <<x, p, o>> \in Grants(x, held \cap Tables) <=> WorkAt(p, o, held)
  BY GrantsAt
<1>. QED  BY <1>3, <1>4

-----------------------------------------------------------------------------
(* Who may read and write goes with the tables.                            *)

(* What a run makes was not there when it began. *)
LEMMA MadeAnew ==
  ASSUME NEW v \in 1..Latest, NEW k \in 0..Latest
  PROVE  /\ k < v => Creates(v) \cap Built(k) = {}
         /\ k >= v => Restores(v) \cap Built(k) = {}
<1>1. ASSUME k < v
      PROVE  Creates(v) \cap Built(k) = {}
  <2>1. \A i \in 1..k : Creates(v) \cap Creates(i) = {}
    BY <1>1 DEF Creates, AdkTables, AdkIndexes, SeededRow, TaskParts, HitlIndexes, CaseIndexes
  <2>2. Creates(v) \cap NewSchema = {}
    BY DEF Creates, AdkTables, AdkIndexes, SeededRow, TaskParts, HitlIndexes, CaseIndexes, NewSchema
  <2>. QED  BY <2>1, <2>2 DEF Built
<1>2. ASSUME k >= v
      PROVE  Restores(v) \cap Built(k) = {}
  <2>1. Restores(v) \subseteq Drops(k)
    BY <1>2 DEF Restores, Drops
  <2>2. k \in 1..k
    BY <1>2
  <2>. QED  BY <2>1, <2>2 DEF Built
<1>. QED  BY <1>1, <1>2

(* Revision 3 touches the entries of its agent only. *)
LEMMA GrantsTouchOwn ==
  ASSUME NEW t \in Transactions, NEW e, e \notin Grants(t.on, t.objects \cap Tables)
  PROVE  /\ e \in Granted(t).give <=> e \in t.give
         /\ e \in Granted(t).take <=> e \in t.take
         /\ e \in Revoked(t).give <=> e \in t.give
         /\ e \in Revoked(t).take <=> e \in t.take
  BY DEF Granted, Revoked, Transactions

(* The step to or from revision 3, which is all GRANT or all REVOKE. *)
Third(v, w) == (v = 2 /\ w = 3) \/ (v = 3 /\ w = 2)

(* The privileges that a revision gives, but for the agent's own by revision 3. *)
LEMMA RevisionGives ==
  ASSUME IsolationInv, NEW r \in Runners, Revises(r)
  PROVE  \E created \in SUBSET Objects, dropped \in SUBSET Objects :
           /\ created \cap (objects[txn[r].on] \cup txn[r].objects) = {}
           /\ txn'[r].objects = (txn[r].objects \ dropped) \cup created
           /\ \A x \in Roles, p \in Privs, o \in Places :
                (x # txn[r].on \/ ~Third(txn[r].version, txn'[r].version)) =>
                  /\ <<x, p, o>> \in txn'[r].take <=> <<x, p, o>> \in txn[r].take
                  /\ <<x, p, o>> \in txn'[r].give
                       <=> \/ <<x, p, o>> \in txn[r].give /\ o \notin dropped
                           \/ o \in created \cap Tables /\ <<x, p, "default">> \in Visible(txn[r])
<1>1. PICK t \in Transactions : t = txn[r]
  BY RevisesFields
<1>2. PICK u \in Transactions : u = txn'[r]
  BY RevisesFields
<1>3. /\ t.on \in Agents /\ acl \in [Agents -> SUBSET Entries] /\ t.version \in 0..Latest
      /\ t.saw = <<objects[t.on], version[t.on]>>
      /\ t.saw[2] \in 0..Latest
      /\ objects[t.on] = {} \/ objects[t.on] = Built(t.saw[2])
      /\ \/ t.version < t.target /\ t.saw[2] <= t.version /\ u.version = t.version + 1
         \/ t.version > t.target /\ t.saw[2] >= t.version /\ u.version = t.version - 1
      /\ t.target \in 0..Latest /\ t.objects = Built(t.version)
      /\ Visible(t) \in SUBSET Entries
  <2>1. Fresh(r)
    BY RevisesFields
  <2>2. pc[r] = "migrating"
    BY DEF Revises
  <2>3. t.saw[1] = {} \/ t.saw[1] = Built(t.saw[2])
    BY <1>1, <2>2 DEF IsolationInv, OneWay
  <2>4. t.on \in Agents /\ acl \in [Agents -> SUBSET Entries]
    BY <1>1, RevisesFields DEF IsolationInv, SchemaInv
  <2>5. Visible(t) \in SUBSET Entries
    BY <2>4 DEF Visible, Transactions
  <2>. QED  BY <1>1, <1>2, <2>1, <2>3, <2>4, <2>5, RevisesFields DEF Fresh
<1>. DEFINE Given(created, dropped) ==
       \A x \in Roles, p \in Privs, o \in Places :
         (x # t.on \/ ~Third(t.version, u.version)) =>
           /\ <<x, p, o>> \in u.take <=> <<x, p, o>> \in t.take
           /\ <<x, p, o>> \in u.give
                <=> \/ <<x, p, o>> \in t.give /\ o \notin dropped
                    \/ o \in created \cap Tables /\ <<x, p, "default">> \in Visible(t)
<1>. DEFINE Ddl(created, dropped) ==
       /\ created \cap (objects[t.on] \cup t.objects) = {}
       /\ u.objects = (t.objects \ dropped) \cup created
       /\ Given(created, dropped)
<1>. SUFFICES \E c \in SUBSET Objects, d \in SUBSET Objects : Ddl(c, d)
  BY <1>1, <1>2
<1>4. ASSUME NEW created \in SUBSET Objects, NEW dropped \in SUBSET Objects,
             Ddl(created, dropped)
      PROVE  \E c \in SUBSET Objects, d \in SUBSET Objects : Ddl(c, d)
  <2>. HIDE DEF Ddl
  <2>. QED  BY <1>4
<1>5. ASSUME NEW created \in SUBSET Objects, NEW dropped \in SUBSET Objects,
             created \cap (objects[t.on] \cup t.objects) = {},
             u.give = Changed(t, created, dropped).give,
             u.take = Changed(t, created, dropped).take,
             u.objects = Changed(t, created, dropped).objects
      PROVE  \E c \in SUBSET Objects, d \in SUBSET Objects : Ddl(c, d)
  <2>1. /\ Changed(t, created, dropped).take = t.take
        /\ Changed(t, created, dropped).objects = (t.objects \ dropped) \cup created
    <3>1. t.on \in Agents /\ acl \in [Agents -> SUBSET Entries]
      BY <1>3
    <3>. QED  BY <3>1, ChangedFields
  <2>2. \A e : e \in u.give <=> \/ e \in t.give /\ e[3] \notin dropped
                                \/ e \in Inherited(Visible(t), created \cap Tables)
    BY <1>5, ChangedGive
  <2>3. \A x \in Roles, p \in Privs, o \in Places :
          <<x, p, o>> \in Inherited(Visible(t), created \cap Tables)
            <=> o \in created \cap Tables /\ <<x, p, "default">> \in Visible(t)
    BY <1>3, InheritedAt
  <2>4. Given(created, dropped)
    BY <1>5, <2>1, <2>2, <2>3
  <2>5. Ddl(created, dropped)
    BY <1>5, <2>1, <2>4
  <2>. QED  BY <1>4, <2>5
<1>6. ASSUME u.objects = t.objects, Third(t.version, u.version),
             \A e : e \notin Grants(t.on, t.objects \cap Tables) =>
               (e \in u.give <=> e \in t.give) /\ (e \in u.take <=> e \in t.take)
      PROVE  \E c \in SUBSET Objects, d \in SUBSET Objects : Ddl(c, d)
  <2>1. \A x \in Roles, p \in Privs, o \in Places :
          x # t.on => <<x, p, o>> \notin Grants(t.on, t.objects \cap Tables)
    BY <1>3, GrantsAt DEF Roles
  <2>3. \A x \in Roles, p \in Privs, o \in Places : x # t.on =>
          /\ <<x, p, o>> \in u.take <=> <<x, p, o>> \in t.take
          /\ <<x, p, o>> \in u.give <=> <<x, p, o>> \in t.give
    BY <1>6, <2>1
  <2>4. Given({}, {})
    BY <1>6, <2>3
  <2>5. Ddl({}, {})
    BY <1>6, <2>4
  <2>. QED  BY <1>4, <2>5
<1>. HIDE DEF Ddl
<1>7. CASE t.version < t.target
  <2>1. PICK rev \in 1..Latest : rev = t.version + 1 /\ t.saw[2] < rev
    BY <1>3, <1>7
  <2>2. u = Upgraded(t)
    BY <1>1, <1>2, <1>7 DEF Revises
  <2>3. CASE rev = 3
    <3>1. u = [Granted(t) EXCEPT !.version = rev]
      BY <2>1, <2>2, <2>3 DEF Upgraded
    <3>2. u.give = Granted(t).give /\ u.take = Granted(t).take /\ u.objects = t.objects
      BY <1>3, <3>1, GrantedFields DEF Transactions
    <3>3. \A e : e \notin Grants(t.on, t.objects \cap Tables) =>
            (e \in u.give <=> e \in t.give) /\ (e \in u.take <=> e \in t.take)
      BY <1>3, <3>2, GrantsTouchOwn
    <3>4. Third(t.version, u.version)
      BY <1>3, <1>7, <2>1, <2>3 DEF Third
    <3>. QED  BY <1>6, <3>2, <3>3, <3>4
  <2>4. CASE rev # 3
    <3>1. Creates(rev) \in SUBSET Objects /\ Drops(rev) \in SUBSET Objects
      BY RevisionObjects
    <3>2. Changed(t, Creates(rev), Drops(rev)) \in Transactions
      BY <1>3, <3>1, ChangedFields
    <3>3. u = [Changed(t, Creates(rev), Drops(rev)) EXCEPT !.version = rev]
      BY <2>1, <2>2, <2>4 DEF Upgraded
    <3>4. /\ u.give = Changed(t, Creates(rev), Drops(rev)).give
          /\ u.take = Changed(t, Creates(rev), Drops(rev)).take
          /\ u.objects = Changed(t, Creates(rev), Drops(rev)).objects
      BY <3>2, <3>3 DEF Transactions
    <3>5. Creates(rev) \cap (objects[t.on] \cup t.objects) = {}
      BY <1>3, <2>1, MadeAnew
    <3>. QED  BY <1>5, <3>1, <3>4, <3>5
  <2>. QED  BY <2>3, <2>4
<1>8. CASE t.version > t.target
  <2>1. PICK rev \in 1..Latest : rev = t.version /\ t.saw[2] >= rev
    BY <1>3, <1>8
  <2>2. u = Downgraded(t)
    BY <1>1, <1>2, <1>3, <1>8 DEF Revises
  <2>3. CASE rev = 3
    <3>1. u = [Revoked(t) EXCEPT !.version = rev - 1]
      BY <2>1, <2>2, <2>3 DEF Downgraded
    <3>2. u.give = Revoked(t).give /\ u.take = Revoked(t).take /\ u.objects = t.objects
      BY <1>3, <3>1, RevokedFields DEF Transactions
    <3>3. \A e : e \notin Grants(t.on, t.objects \cap Tables) =>
            (e \in u.give <=> e \in t.give) /\ (e \in u.take <=> e \in t.take)
      BY <1>3, <3>2, GrantsTouchOwn
    <3>4. Third(t.version, u.version)
      BY <1>3, <1>8, <2>1, <2>3 DEF Third
    <3>. QED  BY <1>6, <3>2, <3>3, <3>4
  <2>4. CASE rev # 3
    <3>1. Restores(rev) \in SUBSET Objects /\ Removes(rev) \in SUBSET Objects
      BY RevisionObjects
    <3>2. Changed(t, Restores(rev), Removes(rev)) \in Transactions
      BY <1>3, <3>1, ChangedFields
    <3>3. u = [Changed(t, Restores(rev), Removes(rev)) EXCEPT !.version = rev - 1]
      BY <2>1, <2>2, <2>4 DEF Downgraded
    <3>4. /\ u.give = Changed(t, Restores(rev), Removes(rev)).give
          /\ u.take = Changed(t, Restores(rev), Removes(rev)).take
          /\ u.objects = Changed(t, Restores(rev), Removes(rev)).objects
      BY <3>2, <3>3 DEF Transactions
    <3>5. Restores(rev) \cap (objects[t.on] \cup t.objects) = {}
      BY <1>3, <2>1, MadeAnew
    <3>. QED  BY <1>5, <3>1, <3>4, <3>5
  <2>. QED  BY <2>3, <2>4
<1>. QED  BY <1>3, <1>7, <1>8

(* How far the privileges a run gives follow from those that it found. *)
Follows(r, x) ==
  \A p \in Privs, o \in Places :
    /\ <<x, p, o>> \notin txn[r].take
    /\ <<x, p, o>> \in txn[r].give
         <=> /\ o \in (txn[r].objects \ objects[txn[r].on]) \cap Tables
             /\ <<x, p, "default">> \in acl[txn[r].on]

(* Whose privileges a run leaves to the defaults of the schema. *)
LeftAlone(r, x) ==
  \/ x \in atRest[txn[r].on]
  \/ x = txn[r].on /\ txn[r].saw[2] >= 3 /\ txn[r].version >= 3

DefaultsFollowed ==
  \A r \in Runners, x \in Roles :
    pc[r] = "migrating" /\ Fresh(r) /\ LeftAlone(r, x) => Follows(r, x)

ReadersOnlyRead ==
  \A x \in Readers, p \in Privs, o \in Places :
    /\ \A a \in Agents : <<x, p, o>> \in acl[a] => ReadAt(p, o, objects[a])
    /\ \A r \in Runners : pc[r] = "migrating" =>
         /\ <<x, p, o>> \in txn[r].give => ReadAt(p, o, txn[r].objects)
         /\ <<x, p, o>> \notin txn[r].take

(* Readers are at rest only where there is something to read. *)
RestOnSchemas == \A a \in Agents : atRest[a] # {} => objects[a] # {}

CoverageInv ==
  /\ IsolationInv
  /\ DefaultsFollowed
  /\ ReadersOnlyRead
  /\ RestOnSchemas
  /\ ReadersCovered

LEMMA CoverageInit == Init => CoverageInv
<1>. SUFFICES ASSUME Init PROVE CoverageInv
  OBVIOUS
<1>1. ReadersCovered /\ RestOnSchemas
  BY DEF Init, ReadersCovered, RestOnSchemas
<1>2. DefaultsFollowed /\ ReadersOnlyRead
  BY DEF Init, DefaultsFollowed, ReadersOnlyRead
<1>. QED  BY <1>1, <1>2, IsolationInit DEF CoverageInv

(* A revision goes on following. *)
LEMMA RevisionFollows ==
  ASSUME IsolationInv, NEW r \in Runners, Revises(r), UNCHANGED <<objects, acl>>,
         NEW x \in Roles, Follows(r, x),
         x # txn[r].on \/ ~Third(txn[r].version, txn'[r].version)
  PROVE  Follows(r, x)'
<1>1. PICK created \in SUBSET Objects, dropped \in SUBSET Objects :
        /\ created \cap (objects[txn[r].on] \cup txn[r].objects) = {}
        /\ txn'[r].objects = (txn[r].objects \ dropped) \cup created
        /\ \A p \in Privs, o \in Places :
             /\ <<x, p, o>> \in txn'[r].take <=> <<x, p, o>> \in txn[r].take
             /\ <<x, p, o>> \in txn'[r].give
                  <=> \/ <<x, p, o>> \in txn[r].give /\ o \notin dropped
                      \/ o \in created \cap Tables /\ <<x, p, "default">> \in Visible(txn[r])
  BY RevisionGives
<1>2. txn'[r].on = txn[r].on
  BY RevisesFields
<1>3. ASSUME NEW p \in Privs
      PROVE  <<x, p, "default">> \in Visible(txn[r]) <=> <<x, p, "default">> \in acl[txn[r].on]
  <2>1. "default" \in Places /\ "default" \notin Tables
    BY NoTable DEF Places
  <2>. QED  BY <2>1 DEF Follows, Visible
<1>. QED  BY <1>1, <1>2, <1>3 DEF Follows

(* What a run that has written leaves behind. *)
LEMMA CommitOn ==
  ASSUME SchemaInv, NEW r \in Runners, Commit(r), Wrote(txn[r])
  PROVE  /\ txn[r].on \in Agents
         /\ objects'[txn[r].on] = txn[r].objects
         /\ version'[txn[r].on] = txn[r].version
         /\ "schema" \in txn[r].objects
         /\ acl'[txn[r].on] = {e \in Visible(txn[r]) : e[3] \in txn[r].objects \cup {"default"}}
         /\ \A b \in Agents \ {txn[r].on} : /\ acl'[b] = acl[b] /\ objects'[b] = objects[b]
                                            /\ version'[b] = version[b]
<1>1. /\ acl' = [acl EXCEPT ![txn[r].on] =
                   {e \in Visible(txn[r]) : e[3] \in txn[r].objects \cup {"default"}}]
      /\ objects' = [objects EXCEPT ![txn[r].on] = txn[r].objects]
      /\ version' = [version EXCEPT ![txn[r].on] = txn[r].version]
  BY DEF Commit
<1>2. /\ txn[r].on \in Agents /\ acl \in [Agents -> SUBSET Entries]
      /\ objects \in [Agents -> SUBSET Objects] /\ version \in [Agents -> 0..Latest]
      /\ txn[r].objects = Built(txn[r].version) /\ txn[r].version \in 0..Latest
  BY RunnerOpen DEF SchemaInv, TypeOK, Commit, RunsBuild
<1>3. "schema" \in txn[r].objects
  BY <1>2, BuiltSchema DEF NewSchema
<1>. QED  BY <1>1, <1>2, <1>3

LEMMA CommitAt ==
  ASSUME SchemaInv, NEW r \in Runners, Commit(r), Wrote(txn[r]), NEW x, NEW p, NEW o
  PROVE  <<x, p, o>> \in acl'[txn[r].on]
           <=> /\ <<x, p, o>> \in acl[txn[r].on] \/ <<x, p, o>> \in txn[r].give
               /\ <<x, p, o>> \notin txn[r].take
               /\ o \in txn[r].objects \cup {"default"}
<1>1. acl'[txn[r].on] = {e \in Visible(txn[r]) : e[3] \in txn[r].objects \cup {"default"}}
  BY CommitOn
<1>. QED  BY <1>1 DEF Visible

LEMMA CommitReads ==
  ASSUME SchemaInv, NEW r \in Runners, Commit(r), Wrote(txn[r]), NEW x \in Roles, Follows(r, x),
         \A p \in Privs, o \in Places :
           <<x, p, o>> \in acl[txn[r].on] <=> ReadAt(p, o, objects[txn[r].on])
  PROVE  \A p \in Privs, o \in Places :
           <<x, p, o>> \in acl'[txn[r].on] <=> ReadAt(p, o, objects'[txn[r].on])
<1>. SUFFICES ASSUME NEW p \in Privs, NEW o \in Places
              PROVE  <<x, p, o>> \in acl'[txn[r].on] <=> ReadAt(p, o, objects'[txn[r].on])
  OBVIOUS
<1>1. "default" \in Places /\ "default" \notin Tables /\ "schema" \notin Tables
  BY NoTable DEF Places
<1>2. /\ objects'[txn[r].on] = txn[r].objects /\ "schema" \in txn[r].objects
      /\ <<x, p, o>> \in acl'[txn[r].on]
           <=> /\ <<x, p, o>> \in acl[txn[r].on] \/ <<x, p, o>> \in txn[r].give
               /\ <<x, p, o>> \notin txn[r].take
               /\ o \in txn[r].objects \cup {"default"}
  BY CommitAt, CommitOn
<1>3. <<x, p, "default">> \in acl[txn[r].on] <=> p = "SELECT"
  BY <1>1 DEF ReadAt
<1>. QED  BY <1>1, <1>2, <1>3 DEF Follows, ReadAt, Places

LEMMA CommitWorks ==
  ASSUME SchemaInv, NEW r \in Runners, Commit(r), Wrote(txn[r]), NEW x \in Roles, Follows(r, x),
         \A p \in Privs, o \in Places :
           <<x, p, o>> \in acl[txn[r].on] <=> WorkAt(p, o, objects[txn[r].on])
  PROVE  \A p \in Privs, o \in Places :
           <<x, p, o>> \in acl'[txn[r].on] <=> WorkAt(p, o, objects'[txn[r].on])
<1>. SUFFICES ASSUME NEW p \in Privs, NEW o \in Places
              PROVE  <<x, p, o>> \in acl'[txn[r].on] <=> WorkAt(p, o, objects'[txn[r].on])
  OBVIOUS
<1>1. "default" \in Places /\ "default" \notin Tables /\ "schema" \notin Tables
  BY NoTable DEF Places
<1>. QED  BY <1>1, CommitAt, CommitOn DEF Follows, WorkAt, Places

LEMMA GrantReadersAt ==
  ASSUME acl \in [Agents -> SUBSET Entries], GrantReaders,
         NEW a \in Agents, NEW x \in Roles, NEW p \in Privs, NEW o \in Places
  PROVE  <<x, p, o>> \in acl'[a]
           <=> <<x, p, o>> \in acl[a] \/ (x \in Readers /\ ReadAt(p, o, objects[a]))
<1>1. acl'[a] = acl[a] \cup UNION {Reads(reader, objects[a] \cap Tables) : reader \in Readers}
  BY DEF GrantReaders
<1>2. \A reader \in Readers :
        <<x, p, o>> \in Reads(reader, objects[a] \cap Tables) <=> x = reader /\ ReadAt(p, o, objects[a])
  BY ReadsAt DEF Roles
<1>. QED  BY <1>1, <1>2

LEMMA DefaultsFollowedNext ==
  ASSUME CoverageInv, Next
  PROVE  DefaultsFollowed'
<1>. DEFINE Fine(q) == \A x \in Roles :
                         pc[q] = "migrating" /\ Fresh(q) /\ LeftAlone(q, x) => Follows(q, x)
<1>1. /\ \A q \in Runners : Fine(q)
      /\ SchemaInv /\ IsolationInv
      /\ \A a \in Agents : atRest[a] \subseteq Readers
      /\ acl \in [Agents -> SUBSET Entries]
      /\ Agents \cap Readers = {}
  BY MigrationsAssumption DEF CoverageInv, DefaultsFollowed, IsolationInv, SchemaInv, TypeOK
<1>2. ASSUME NEW q \in Runners, pc'[q] = pc[q], txn'[q] = txn[q],
             UNCHANGED <<objects, version, acl, atRest>>
      PROVE  Fine(q)'
  BY <1>1, <1>2 DEF Fresh, LeftAlone, Follows
<1>3. ASSUME NEW r \in Runners, Looks(r), UNCHANGED <<objects, version, acl, atRest>>
      PROVE  Fine(r)'
  BY <1>3 DEF Looks, Follows
<1>4. ASSUME NEW r \in Runners, Creating(r), UNCHANGED <<objects, version, acl, atRest>>
      PROVE  Fine(r)'
  <2>1. txn[r].saw = <<{}, 0>> /\ txn'[r].saw = <<{}, 0>> /\ txn'[r].on = txn[r].on
        /\ objects[txn[r].on] = {}
    BY <1>4 DEF Creating, Blank, Fresh
  <2>2. txn'[r].on \in Agents
    <3>1. SchemaInv' /\ pc'[r] = "migrating"
      BY <1>1, <1>4, SchemaNextInv DEF Creating
    <3>. QED  BY <3>1, MigrationsAssumption DEF SchemaInv, TypeOK
  <2>3. atRest'[txn'[r].on] = {}
    BY <1>4, <2>1, <2>2 DEF CoverageInv, RestOnSchemas
  <2>. QED  BY <2>1, <2>3 DEF LeftAlone
<1>5. ASSUME NEW r \in Runners, Revises(r), UNCHANGED <<objects, version, acl, atRest>>
      PROVE  Fine(r)'
  <2>. SUFFICES ASSUME NEW x \in Roles, LeftAlone(r, x)'
                PROVE  Follows(r, x)'
    OBVIOUS
  <2>1. /\ txn'[r].on = txn[r].on /\ txn'[r].saw = txn[r].saw /\ txn[r].on \in Agents
        /\ Fresh(r) /\ pc[r] = "migrating"
        /\ txn[r].saw[2] >= 3 /\ txn'[r].version >= 3 => txn[r].version >= 3
    BY <1>1, <1>5, RevisesFields DEF Revises
  <2>2. LeftAlone(r, x)
    BY <1>5, <2>1 DEF LeftAlone
  <2>3. x # txn[r].on \/ ~Third(txn[r].version, txn'[r].version)
    BY <1>1, <1>5, <2>1 DEF LeftAlone, Third
  <2>. QED  BY <1>1, <1>5, <2>1, <2>2, <2>3, RevisionFollows
<1>6. ASSUME NEW r \in Runners, Commit(r)
      PROVE  \A q \in Runners : Fine(q)'
  <2>1. /\ pc'[r] # "migrating" /\ \A q \in Runners \ {r} : pc'[q] = pc[q] /\ txn'[q] = txn[q]
        /\ pc[r] = "migrating" /\ atRest' = atRest /\ txn[r].on \in Agents
    BY <1>1, <1>6, RunnerOpen DEF Commit, Goes, SchemaInv, TypeOK
  <2>2. CASE ~Wrote(txn[r])
    <3>1. UNCHANGED <<objects, version, acl>>
      BY <1>6, <2>2 DEF Commit
    <3>. QED  BY <1>2, <2>1, <3>1
  <2>3. CASE Wrote(txn[r])
    <3>1. \A b \in Agents \ {txn[r].on} : /\ acl'[b] = acl[b] /\ objects'[b] = objects[b]
                                          /\ version'[b] = version[b]
      BY <1>1, <1>6, <2>3, CommitOn
    <3>2. ASSUME NEW q \in Runners \ {r}, pc[q] = "migrating", txn[q].on # txn[r].on
          PROVE  Fine(q)'
      <4>1. txn[q].on \in Agents
        BY <1>1, <3>2, RunnerOpen
      <4>. QED  BY <1>1, <2>1, <3>1, <3>2, <4>1 DEF Fresh, LeftAlone, Follows
    <3>3. ASSUME NEW q \in Runners \ {r}, pc[q] = "migrating", txn[q].on = txn[r].on
          PROVE  Fine(q)'
      <4>1. ~Wrote(txn[q]) /\ txn[q].on # "none"
        BY <1>1, <2>1, <2>3, <3>3, MigrationsAssumption DEF IsolationInv, Isolated
      <4>2. txn[q].give = {} /\ txn[q].take = {} /\ txn[q].saw = <<txn[q].objects, txn[q].version>>
        BY <1>1, <3>3, <4>1 DEF IsolationInv, OneWay, Wrote
      <4>. QED  BY <2>1, <3>3, <4>2 DEF Fresh, Follows
    <3>. QED  BY <2>1, <3>2, <3>3
  <2>. QED  BY <2>2, <2>3
<1>7. CASE GrantReaders
  <2>1. UNCHANGED <<objects, version, pc, txn>>
    BY <1>7 DEF GrantReaders
  <2>2. ASSUME NEW q \in Runners, NEW x \in Roles, pc[q] = "migrating", Fresh(q)', LeftAlone(q, x)'
        PROVE  Follows(q, x)'
    <3>1. txn[q].on \in Agents
      BY <1>1, <2>2, RunnerOpen
    <3>2. atRest'[txn[q].on] = atRest[txn[q].on]
      BY <1>7, <3>1 DEF GrantReaders
    <3>3. Fresh(q) /\ LeftAlone(q, x)
      BY <2>1, <2>2, <3>2 DEF Fresh, LeftAlone
    <3>4. Follows(q, x)
      BY <1>1, <2>2, <3>3
    <3>5. ASSUME NEW p \in Privs
          PROVE  <<x, p, "default">> \in acl'[txn[q].on] <=> <<x, p, "default">> \in acl[txn[q].on]
      <4>1. "default" \in Places
        BY DEF Places
      <4>2. CASE x \notin Readers
        BY <1>1, <1>7, <3>1, <4>1, <4>2, GrantReadersAt
      <4>3. CASE x \in Readers
        <5>1. x \in atRest[txn[q].on]
          BY <1>1, <3>1, <3>3, <4>3 DEF LeftAlone
        <5>2. HeldBy(x, acl[txn[q].on]) = Reads(x, objects[txn[q].on] \cap Tables)
          BY <3>1, <5>1 DEF CoverageInv, ReadersCovered, Privileges, HeldBy
        <5>3. acl[txn[q].on] \in SUBSET Entries
          BY <1>1, <3>1
        <5>4. <<x, p, "default">> \in acl[txn[q].on] <=> ReadAt(p, "default", objects[txn[q].on])
          BY <4>1, <5>2, <5>3, ReadersAt
        <5>. QED  BY <1>1, <1>7, <3>1, <4>1, <5>4, GrantReadersAt
      <4>. QED  BY <4>2, <4>3
    <3>. QED  BY <2>1, <3>4, <3>5 DEF Follows
  <2>. QED  BY <2>1, <2>2 DEF DefaultsFollowed
<1>8. ASSUME \A q \in Runners : Fine(q)'
      PROVE  DefaultsFollowed'
  BY <1>8 DEF DefaultsFollowed
<1>9. ASSUME NEW r \in Runners, Bystands(r)
      PROVE  Fine(r)'
  BY <1>9 DEF Bystands
<1>. HIDE DEF Fine
<1>. QED  BY <1>1, <1>2, <1>3, <1>4, <1>5, <1>6, <1>7, <1>8, <1>9, StepShapes

LEMMA ReadersOnlyReadNext ==
  ASSUME CoverageInv, Next
  PROVE  ReadersOnlyRead'
<1>. SUFFICES ASSUME NEW x \in Readers, NEW p \in Privs, NEW o \in Places
              PROVE  /\ \A a \in Agents : <<x, p, o>> \in acl'[a] => ReadAt(p, o, objects'[a])
                     /\ \A r \in Runners : pc'[r] = "migrating" =>
                          /\ <<x, p, o>> \in txn'[r].give => ReadAt(p, o, txn'[r].objects)
                          /\ <<x, p, o>> \notin txn'[r].take
  BY DEF ReadersOnlyRead
<1>1. /\ IsolationInv /\ SchemaInv /\ acl \in [Agents -> SUBSET Entries]
      /\ x \in Roles /\ x \notin Agents /\ "default" \in Places
      /\ "default" \notin Tables /\ "schema" \notin Tables
  BY MigrationsAssumption, NoTable DEF CoverageInv, IsolationInv, SchemaInv, Roles, Places
<1>2. /\ \A a \in Agents : <<x, p, o>> \in acl[a] => ReadAt(p, o, objects[a])
      /\ \A a \in Agents : <<x, p, "default">> \in acl[a] => ReadAt(p, "default", objects[a])
      /\ \A r \in Runners : pc[r] = "migrating" =>
           /\ <<x, p, o>> \in txn[r].give => ReadAt(p, o, txn[r].objects)
           /\ <<x, p, "default">> \in txn[r].give => ReadAt(p, "default", txn[r].objects)
           /\ <<x, p, o>> \notin txn[r].take
  BY <1>1 DEF CoverageInv, ReadersOnlyRead
<1>. DEFINE OnlyReads(r) == /\ <<x, p, o>> \in txn[r].give => ReadAt(p, o, txn[r].objects)
                            /\ <<x, p, o>> \notin txn[r].take
<1>3. ASSUME NEW r \in Runners, Looks(r) \/ Creating(r) \/ Revises(r) \/ Bystands(r),
             \A q \in Runners \ {r} : pc'[q] = pc[q] /\ txn'[q] = txn[q],
             UNCHANGED <<objects, version, acl, atRest>>
      PROVE  /\ \A a \in Agents : <<x, p, o>> \in acl'[a] => ReadAt(p, o, objects'[a])
             /\ \A q \in Runners : pc'[q] = "migrating" => OnlyReads(q)'
  <2>1. ASSUME Looks(r) \/ Creating(r)
        PROVE  OnlyReads(r)'
    BY <2>1 DEF Looks, Creating
  <2>2. ASSUME Revises(r)
        PROVE  OnlyReads(r)'
    <3>1. pc[r] = "migrating" /\ txn[r].on \in Agents /\ txn'[r].on = txn[r].on
      BY <1>1, <2>2, RevisesFields DEF Revises
    <3>2. PICK created \in SUBSET Objects, dropped \in SUBSET Objects :
            /\ txn'[r].objects = (txn[r].objects \ dropped) \cup created
            /\ <<x, p, o>> \in txn'[r].take <=> <<x, p, o>> \in txn[r].take
            /\ <<x, p, o>> \in txn'[r].give
                 <=> \/ <<x, p, o>> \in txn[r].give /\ o \notin dropped
                     \/ o \in created \cap Tables /\ <<x, p, "default">> \in Visible(txn[r])
      BY <1>1, <2>2, <3>1, RevisionGives
    <3>3. <<x, p, "default">> \in Visible(txn[r]) => p = "SELECT"
      BY <1>1, <1>2, <3>1 DEF Visible, ReadAt
    <3>. QED  BY <1>2, <3>1, <3>2, <3>3 DEF ReadAt
  <2>3. pc'[r] = "migrating" => OnlyReads(r)'
    BY <1>3, <2>1, <2>2 DEF Bystands
  <2>. QED  BY <1>2, <1>3, <2>3
<1>4. ASSUME NEW r \in Runners, Commit(r)
      PROVE  /\ \A a \in Agents : <<x, p, o>> \in acl'[a] => ReadAt(p, o, objects'[a])
             /\ \A q \in Runners : pc'[q] = "migrating" => OnlyReads(q)'
  <2>1. /\ pc'[r] # "migrating" /\ \A q \in Runners \ {r} : pc'[q] = pc[q] /\ txn'[q] = txn[q]
        /\ pc[r] = "migrating" /\ txn[r].on \in Agents
    BY <1>1, <1>4, RunnerOpen DEF Commit, Goes, SchemaInv, TypeOK
  <2>2. \A a \in Agents : <<x, p, o>> \in acl'[a] => ReadAt(p, o, objects'[a])
    <3>1. CASE Wrote(txn[r])
      BY <1>1, <1>2, <1>4, <2>1, <3>1, CommitAt, CommitOn DEF ReadAt, Places
    <3>2. CASE ~Wrote(txn[r])
      BY <1>2, <1>4, <3>2 DEF Commit
    <3>. QED  BY <3>1, <3>2
  <2>. QED  BY <1>2, <2>1, <2>2
<1>5. CASE GrantReaders
  BY <1>1, <1>2, <1>5, GrantReadersAt DEF GrantReaders
<1>. QED  BY <1>1, <1>3, <1>4, <1>5, StepShapes

LEMMA RestOnSchemasNext ==
  ASSUME CoverageInv, Next
  PROVE  RestOnSchemas'
<1>1. SchemaInv
  BY DEF CoverageInv, IsolationInv
<1>2. ASSUME NEW r \in Runners, Commit(r)
      PROVE  RestOnSchemas'
  <2>1. CASE Wrote(txn[r])
    BY <1>1, <1>2, <2>1, CommitOn DEF CoverageInv, RestOnSchemas, Commit
  <2>2. CASE ~Wrote(txn[r])
    BY <1>2, <2>2 DEF Commit, CoverageInv, RestOnSchemas
  <2>. QED  BY <2>1, <2>2
<1>3. CASE GrantReaders
  BY <1>3 DEF GrantReaders, RestOnSchemas
<1>. QED  BY <1>1, <1>2, <1>3, StepShapes DEF CoverageInv, RestOnSchemas

LEMMA ReadersCoveredNext ==
  ASSUME CoverageInv, Next
  PROVE  ReadersCovered'
<1>1. /\ IsolationInv /\ SchemaInv /\ SchemaInv'
      /\ acl \in [Agents -> SUBSET Entries] /\ acl' \in [Agents -> SUBSET Entries]
      /\ atRest \in [Agents -> SUBSET Readers] /\ atRest' \in [Agents -> SUBSET Readers]
  BY SchemaNextInv DEF CoverageInv, IsolationInv, SchemaInv, TypeOK
<1>2. ASSUME NEW a \in Agents, NEW x \in atRest[a]
      PROVE  x \in Roles /\ \A p \in Privs, o \in Places : <<x, p, o>> \in acl[a] <=> ReadAt(p, o, objects[a])
  <2>1. HeldBy(x, acl[a]) = Reads(x, objects[a] \cap Tables)
    BY <1>2 DEF CoverageInv, ReadersCovered, Privileges, HeldBy
  <2>2. x \in Roles /\ acl[a] \in SUBSET Entries
    BY <1>1, <1>2 DEF Roles
  <2>. QED  BY <2>1, <2>2, ReadersAt
<1>3. ASSUME NEW a \in Agents, NEW x \in atRest'[a],
             \A p \in Privs, o \in Places : <<x, p, o>> \in acl'[a] <=> ReadAt(p, o, objects'[a])
      PROVE  Privileges(x, a)' = Reads(x, objects'[a] \cap Tables)
  <2>1. x \in Roles /\ acl'[a] \in SUBSET Entries
    BY <1>1, <1>3 DEF Roles
  <2>2. HeldBy(x, acl'[a]) = Reads(x, objects'[a] \cap Tables)
    BY <1>3, <2>1, ReadersAt
  <2>. QED  BY <2>2 DEF Privileges, HeldBy
<1>4. ASSUME UNCHANGED <<objects, acl, atRest>>
      PROVE  ReadersCovered'
  BY <1>4 DEF CoverageInv, ReadersCovered, Privileges
<1>5. ASSUME NEW r \in Runners, Commit(r)
      PROVE  ReadersCovered'
  <2>1. /\ pc[r] = "migrating" /\ txn[r].on \in Agents /\ atRest' = atRest /\ txn[r].on # "none"
    BY <1>1, <1>5, RunnerOpen, MigrationsAssumption DEF Commit
  <2>2. CASE ~Wrote(txn[r])
    BY <1>4, <1>5, <2>1, <2>2 DEF Commit
  <2>3. CASE Wrote(txn[r])
    <3>1. Fresh(r)
      BY <1>1, <2>1, <2>3 DEF IsolationInv, Isolated
    <3>2. ASSUME NEW x \in atRest[txn[r].on], NEW p \in Privs, NEW o \in Places
          PROVE  <<x, p, o>> \in acl'[txn[r].on] <=> ReadAt(p, o, objects'[txn[r].on])
      <4>1. x \in Roles /\ Follows(r, x)
        BY <1>2, <2>1, <3>1, <3>2 DEF CoverageInv, DefaultsFollowed, LeftAlone
      <4>. QED  BY <1>1, <1>2, <1>5, <2>1, <2>3, <3>2, <4>1, CommitReads
    <3>3. ASSUME NEW a \in Agents \ {txn[r].on}, NEW x \in atRest[a], NEW p \in Privs, NEW o \in Places
          PROVE  <<x, p, o>> \in acl'[a] <=> ReadAt(p, o, objects'[a])
      BY <1>1, <1>2, <1>5, <2>3, <3>3, CommitOn
    <3>. QED  BY <1>3, <2>1, <3>2, <3>3 DEF ReadersCovered
  <2>. QED  BY <2>2, <2>3
<1>6. ASSUME GrantReaders
      PROVE  ReadersCovered'
  <2>1. ASSUME NEW a \in Agents, NEW x \in atRest'[a], NEW p \in Privs, NEW o \in Places
        PROVE  <<x, p, o>> \in acl'[a] <=> ReadAt(p, o, objects'[a])
    <3>1. x \in Readers /\ x \in Roles
      BY <1>1, <2>1 DEF Roles
    <3>2. <<x, p, o>> \in acl[a] => ReadAt(p, o, objects[a])
      BY <2>1, <3>1 DEF CoverageInv, ReadersOnlyRead
    <3>. QED  BY <1>1, <1>6, <2>1, <3>1, <3>2, GrantReadersAt DEF GrantReaders
  <2>. QED  BY <1>3, <2>1 DEF ReadersCovered
<1>. QED  BY <1>1, <1>4, <1>5, <1>6, StepShapes

LEMMA CoverageNext == CoverageInv /\ [Next]_vars => CoverageInv'
<1>1. ASSUME CoverageInv, Next
      PROVE  CoverageInv'
  BY <1>1, IsolationNext, DefaultsFollowedNext, ReadersOnlyReadNext, RestOnSchemasNext,
     ReadersCoveredNext DEF CoverageInv
<1>2. ASSUME CoverageInv, UNCHANGED vars
      PROVE  CoverageInv'
  BY <1>2, IsolationNext DEF CoverageInv, DefaultsFollowed, ReadersOnlyRead, RestOnSchemas,
     ReadersCovered, Privileges, Fresh, LeftAlone, Follows, vars, catalog
<1>. QED  BY <1>1, <1>2

(* Readers granted while no run was under way read every table that there is,  *)
(* and can do no more (scripts/grant_readers.py).                            *)
THEOREM ReadersStayCovered == Spec => []ReadersCovered
<1>. QED  BY CoverageInit, CoverageNext, PTL DEF Spec, CoverageInv

LEMMA CoverageStep ==
  ASSUME CoverageInv, [Next]_vars, NEW a \in Agents, Covered(a), version[a] >= 3, version'[a] >= 3
  PROVE  Covered(a)'
<1>1. /\ IsolationInv /\ SchemaInv /\ SchemaInv'
      /\ acl \in [Agents -> SUBSET Entries] /\ acl' \in [Agents -> SUBSET Entries]
      /\ a \in Roles /\ a \notin Readers
      /\ acl[a] \in SUBSET Entries /\ acl'[a] \in SUBSET Entries
  BY SchemaNextInv, MigrationsAssumption DEF CoverageInv, IsolationInv, SchemaInv, TypeOK, Roles
<1>2. \A p \in Privs, o \in Places : <<a, p, o>> \in acl[a] <=> WorkAt(p, o, objects[a])
  <2>1. HeldBy(a, acl[a]) = Grants(a, objects[a] \cap Tables)
    BY DEF Covered, Privileges, HeldBy
  <2>. QED  BY <1>1, <2>1, WritersAt
<1>3. ASSUME \A p \in Privs, o \in Places : <<a, p, o>> \in acl'[a] <=> WorkAt(p, o, objects'[a])
      PROVE  Covered(a)'
  <2>1. HeldBy(a, acl'[a]) = Grants(a, objects'[a] \cap Tables)
    BY <1>1, <1>3, WritersAt
  <2>. QED  BY <2>1 DEF Covered, Privileges, HeldBy
<1>4. CASE UNCHANGED <<objects, acl>>
  BY <1>2, <1>3, <1>4
<1>5. ASSUME NEW r \in Runners, Commit(r)
      PROVE  Covered(a)'
  <2>1. pc[r] = "migrating" /\ txn[r].on \in Agents /\ txn[r].on # "none"
    BY <1>1, <1>5, RunnerOpen, MigrationsAssumption DEF Commit
  <2>2. CASE ~Wrote(txn[r])
    BY <1>4, <1>5, <2>2 DEF Commit
  <2>3. CASE Wrote(txn[r]) /\ txn[r].on # a
    <3>1. acl'[a] = acl[a] /\ objects'[a] = objects[a]
      BY <1>1, <1>5, <2>3, CommitOn
    <3>. QED  BY <1>2, <1>3, <3>1
  <2>4. CASE Wrote(txn[r]) /\ txn[r].on = a
    <3>1. Fresh(r)
      BY <1>1, <2>1, <2>4 DEF IsolationInv, Isolated
    <3>2. txn[r].version >= 3
      BY <1>1, <1>5, <2>4, CommitOn
    <3>3. Follows(r, a)
      BY <1>1, <2>1, <2>4, <3>1, <3>2 DEF CoverageInv, DefaultsFollowed, LeftAlone, Fresh
    <3>. QED  BY <1>1, <1>2, <1>3, <1>5, <2>4, <3>3, CommitWorks
  <2>. QED  BY <2>2, <2>3, <2>4
<1>6. CASE GrantReaders
  <2>1. \A p \in Privs, o \in Places : <<a, p, o>> \in acl'[a] <=> <<a, p, o>> \in acl[a]
    BY <1>1, <1>6, GrantReadersAt
  <2>2. objects' = objects
    BY <1>6 DEF GrantReaders
  <2>. QED  BY <1>2, <1>3, <2>1, <2>2
<1>7. CASE UNCHANGED vars
  BY <1>4, <1>7 DEF vars, catalog
<1>. QED  BY <1>1, <1>4, <1>5, <1>6, <1>7, StepShapes

(* An agent that can use every table of its schema still can after whatever   *)
(* runs leave revision 3 in place (versions/20260803_0003_grant_agent_role.py).*)
THEOREM CoverageStaysKept == Spec => CoverageIsKept
<1>1. CoverageInv /\ [Next]_vars =>
        [\A a \in Agents :
           \/ UNCHANGED <<objects[a], acl[a]>>
           \/ version[a] >= 3 /\ version'[a] >= 3 /\ Covered(a) => Covered(a)']_vars
  BY CoverageStep
<1>. QED  BY <1>1, CoverageInit, CoverageNext, PTL DEF Spec, CoverageIsKept

-----------------------------------------------------------------------------
(* What the Jobs do when nobody runs Alembic by hand.                      *)

LEMMA StepPositions ==
  ASSUME SchemaInv, Next
  PROVE  /\ \A j \in Jobs :
              \/ /\ position'[j] = position[j]
                 /\ pc'[j] = "done" => pc[j] = "done" \/ position[j] > Len(MigrateAgents)
              \/ position'[j] = 1 /\ pc'[j] # "done"
              \/ Commit(j) /\ position'[j] = position[j] + 1 /\ pc'[j] = "loop"
         /\ manual' = 0 =>
              /\ manual = 0
              /\ \A r \in Operators : pc'[r] \in {"connect", "creating", "migrating"} =>
                   pc[r] \in {"connect", "creating", "migrating"}
<1>1. /\ pc \in [Runners -> {"idle", "check", "create", "loop", "connect",
                             "creating", "migrating", "done", "failed"}]
      /\ position \in [Runners -> 1..(Len(MigrateAgents) + 1)]
      /\ manual \in Nat /\ Jobs \cap Operators = {}
      /\ Jobs \subseteq Runners /\ Operators \subseteq Runners
  BY MigrationsAssumption DEF SchemaInv, TypeOK, Runners
<1>. DEFINE Place(j) ==
              \/ /\ position'[j] = position[j]
                 /\ pc'[j] = "done" => pc[j] = "done" \/ position[j] > Len(MigrateAgents)
              \/ position'[j] = 1 /\ pc'[j] # "done"
              \/ Commit(j) /\ position'[j] = position[j] + 1 /\ pc'[j] = "loop"
            Hand == manual' = 0 =>
              /\ manual = 0
              /\ \A r \in Operators : pc'[r] \in {"connect", "creating", "migrating"} =>
                   pc[r] \in {"connect", "creating", "migrating"}
<1>2. ASSUME NEW r \in Runners, Fails(r), manual' = manual
      PROVE  (\A j \in Jobs : Place(j)) /\ Hand
  <2>1. \A q \in Runners \ {r} : pc'[q] = pc[q] /\ position'[q] = position[q]
    BY <1>1, <1>2 DEF Fails, Goes
  <2>2. position'[r] = 1 /\ pc'[r] \in {"idle", "check", "failed"}
    BY <1>1, <1>2 DEF Fails, Goes
  <2>. QED  BY <1>1, <1>2, <2>1, <2>2
<1>3. ASSUME NEW r \in Runners, NEW next, Goes(r, next), position' = position, manual' = manual,
             next = "done" => position[r] > Len(MigrateAgents),
             r \in Operators => pc[r] \in {"connect", "creating", "migrating"}
      PROVE  (\A j \in Jobs : Place(j)) /\ Hand
  <2>1. pc'[r] = next /\ \A q \in Runners \ {r} : pc'[q] = pc[q]
    BY <1>1, <1>3 DEF Goes
  <2>. QED  BY <1>1, <1>3, <2>1
<1>4. ASSUME NEW j \in Jobs, Bootstrap(j) \/ Loop(j)
      PROVE  (\A k \in Jobs : Place(k)) /\ Hand
  <2>1. j \in Runners /\ j \notin Operators
    BY <1>1
  <2>. HIDE DEF Place, Hand
  <2>2. CASE ApplyJob(j)
    BY <1>3, <2>1, <2>2 DEF ApplyJob
  <2>3. CASE CheckDatabase(j)
    <3>1. PICK next : next \in {"loop", "create"} /\ Goes(j, next)
      BY <2>3 DEF CheckDatabase
    <3>. QED  BY <1>3, <2>1, <2>3, <3>1 DEF CheckDatabase
  <2>4. CASE CreateDatabase(j) /\ database
    BY <1>2, <2>1, <2>4 DEF CreateDatabase, Raises
  <2>5. CASE CreateDatabase(j) /\ ~database
    BY <1>3, <2>1, <2>5 DEF CreateDatabase
  <2>6. CASE NextAgent(j)
    BY <1>3, <2>1, <2>6 DEF NextAgent
  <2>7. CASE AllAtHead(j)
    BY <1>3, <2>1, <2>7 DEF AllAtHead
  <2>. QED  BY <1>4, <2>2, <2>3, <2>4, <2>5, <2>6, <2>7 DEF Bootstrap, Loop
<1>5. ASSUME NEW o \in Operators, ByHand(o)
      PROVE  (\A j \in Jobs : Place(j)) /\ Hand
  <2>1. manual' = manual + 1 /\ position' = position /\ \A j \in Jobs : pc'[j] = pc[j]
    BY <1>1, <1>5 DEF ByHand, RunByHand, Goes
  <2>. QED  BY <1>1, <2>1
<1>6. ASSUME NEW r \in Runners, Alembic(r)
      PROVE  (\A j \in Jobs : Place(j)) /\ Hand
  <2>. HIDE DEF Place, Hand
  <2>1. CASE FindSchema(r)
    BY <1>3, <2>1 DEF FindSchema
  <2>2. CASE SchemaMissing(r)
    BY <1>3, <2>2 DEF SchemaMissing
  <2>3. CASE CreateSchema(r)
    <3>1. CASE Stale(r)
      BY <1>2, <2>3, <3>1 DEF CreateSchema, Raises
    <3>2. CASE ~Stale(r)
      BY <1>3, <2>3, <3>2 DEF CreateSchema
    <3>. QED  BY <3>1, <3>2
  <2>4. CASE RunRevision(r)
    <3>1. CASE Stale(r) \/ ~Applies(txn[r])
      BY <1>2, <2>4, <3>1 DEF RunRevision, Raises
    <3>2. CASE ~(Stale(r) \/ ~Applies(txn[r]))
      BY <2>4, <3>2 DEF RunRevision, Place, Hand
    <3>. QED  BY <3>1, <3>2
  <2>5. CASE Commit(r)
    <3>1. \A q \in Runners \ {r} : pc'[q] = pc[q] /\ position'[q] = position[q]
      BY <1>1, <2>5 DEF Commit, Goes
    <3>2. /\ r \in Jobs => position'[r] = position[r] + 1 /\ pc'[r] = "loop"
          /\ r \notin Jobs => pc'[r] = "idle"
          /\ manual' = manual
      BY <1>1, <2>5 DEF Commit, Goes
    <3>. QED  BY <1>1, <2>5, <3>1, <3>2 DEF Place, Hand
  <2>. QED  BY <1>6, <2>1, <2>2, <2>3, <2>4, <2>5 DEF Alembic
<1>7. ASSUME NEW r \in Runners, Crash(r)
      PROVE  (\A j \in Jobs : Place(j)) /\ Hand
  <2>. HIDE DEF Place, Hand
  <2>. QED  BY <1>2, <1>7 DEF Crash
<1>8. ASSUME GrantReaders
      PROVE  (\A j \in Jobs : Place(j)) /\ Hand
  BY <1>8 DEF GrantReaders
<1>. HIDE DEF Place, Hand
<1>9. (\A j \in Jobs : Place(j)) /\ Hand
  BY <1>4, <1>5, <1>6, <1>7, <1>8 DEF Next
<1>. QED  BY <1>9 DEF Place, Hand

(* A run from nothing gives its agent nothing before revision 3, and all since. *)
GivesFromNothing(r) ==
  \A p \in Privs, o \in Places :
    /\ <<txn[r].on, p, o>> \notin txn[r].take
    /\ txn[r].version < 3 => <<txn[r].on, p, o>> \notin txn[r].give
    /\ txn[r].version >= 3 =>
         (<<txn[r].on, p, o>> \in txn[r].give <=> WorkAt(p, o, txn[r].objects))

(* A schema is untouched, or done with. *)
AtRestOrReady(a) ==
  \/ version[a] = 0 /\ \A p \in Privs, o \in Places : <<a, p, o>> \notin acl[a]
  \/ /\ version[a] = Latest
     /\ \A p \in Privs, o \in Places : <<a, p, o>> \in acl[a] <=> WorkAt(p, o, objects[a])

JobsAlone ==
  manual = 0 =>
    /\ \A r \in Runners : pc[r] \in {"connect", "creating", "migrating"} => r \in Jobs
    /\ \A a \in Agents : AtRestOrReady(a)
    /\ \A r \in Runners : pc[r] = "migrating" =>
         /\ txn[r].saw[2] = Latest => version[txn[r].on] = Latest
         /\ Fresh(r) /\ txn[r].saw[2] = 0 => GivesFromNothing(r)
    /\ \A j \in Jobs : \A i \in 1..(position[j] - 1) : version[MigrateAgents[i]] = Latest
    /\ \A j \in Jobs : pc[j] = "done" => position[j] > Len(MigrateAgents)

JobsInv == IsolationInv /\ JobsAlone

LEMMA JobsInit == Init => JobsInv
<1>. SUFFICES ASSUME Init PROVE JobsInv
  OBVIOUS
<1>1. /\ \A r \in Runners : pc[r] = "idle"
      /\ \A a \in Agents : AtRestOrReady(a)
      /\ \A j \in Jobs : position[j] = 1
  BY DEF Init, AtRestOrReady, Runners
<1>. QED  BY <1>1, IsolationInit DEF JobsInv, JobsAlone, Runners

LEMMA RevisionFromNothing ==
  ASSUME IsolationInv, NEW r \in Runners, Revises(r), r \in Jobs,
         \A p \in Privs, o \in Places : <<txn[r].on, p, o>> \notin acl[txn[r].on],
         GivesFromNothing(r)
  PROVE  GivesFromNothing(r)'
<1>1. PICK t \in Transactions : t = txn[r]
  BY RevisesFields
<1>2. PICK u \in Transactions : u = txn'[r]
  BY RevisesFields
<1>3. /\ t.on \in Agents /\ u.on = t.on /\ t.signed /\ t.target = Latest
      /\ t.version \in 0..Latest /\ u.version = t.version + 1 /\ t.version < t.target
      /\ t.objects = Built(t.version) /\ u.objects = Built(u.version) /\ u.version \in 0..Latest
      /\ t.on \in Roles
  <2>1. t.signed /\ t.target = Latest
    BY <1>1 DEF IsolationInv, SchemaInv, JobsInOrder, Revises
  <2>. QED  BY <1>1, <1>2, <2>1, RevisesFields DEF Roles
<1>4. /\ "default" \in Places /\ "default" \notin Tables /\ "schema" \notin Tables
      /\ "default" \notin Objects /\ "USAGE" \notin Dml
      /\ "schema" \in t.objects /\ "schema" \in u.objects
  <2>1. "default" \notin Objects
    BY DEF Objects, NewSchema, Creates, AdkTables, AdkIndexes, SeededRow, TaskParts, HitlIndexes,
       CaseIndexes
  <2>2. "schema" \in t.objects /\ "schema" \in u.objects
    BY <1>3, BuiltSchema DEF NewSchema
  <2>. QED  BY <2>1, <2>2, NoTable DEF Places
<1>5. CASE t.version = 2
  <2>1. u = [Granted(t) EXCEPT !.version = 3]
    BY <1>1, <1>2, <1>3, <1>5 DEF Revises, Upgraded
  <2>2. Granted(t) \in Transactions /\ Granted(t).objects = t.objects
    BY <1>3, GrantedFields
  <2>3. u.give = Granted(t).give /\ u.take = Granted(t).take /\ u.objects = t.objects
        /\ u.version = 3
    BY <2>1, <2>2 DEF Transactions
  <2>4. /\ u.give = t.give \cup Grants(t.on, t.objects \cap Tables)
        /\ u.take = t.take \ Grants(t.on, t.objects \cap Tables)
    BY <1>3, <2>3 DEF Granted, Transactions
  <2>5. \A p \in Privs, o \in Places :
          <<t.on, p, o>> \in Grants(t.on, t.objects \cap Tables) <=> WorkAt(p, o, t.objects)
    BY <1>3, GrantsAt
  <2>6. \A p \in Privs, o \in Places : <<t.on, p, o>> \notin t.take /\ <<t.on, p, o>> \notin t.give
    BY <1>1, <1>5 DEF GivesFromNothing
  <2>7. \A p \in Privs, o \in Places :
          /\ <<t.on, p, o>> \notin u.take
          /\ <<t.on, p, o>> \in u.give <=> WorkAt(p, o, u.objects)
    BY <2>3, <2>4, <2>5, <2>6
  <2>8. u.on = t.on /\ u.version = 3
    BY <1>3, <2>3
  <2>. QED  BY <1>2, <2>7, <2>8 DEF GivesFromNothing
<1>6. CASE t.version # 2
  <2>1. ~Third(t.version, u.version)
    BY <1>3, <1>6 DEF Third
  <2>2. PICK created \in SUBSET Objects, dropped \in SUBSET Objects :
          /\ created \cap t.objects = {}
          /\ u.objects = (t.objects \ dropped) \cup created
          /\ \A p \in Privs, o \in Places :
               /\ <<t.on, p, o>> \in u.take <=> <<t.on, p, o>> \in t.take
               /\ <<t.on, p, o>> \in u.give
                    <=> \/ <<t.on, p, o>> \in t.give /\ o \notin dropped
                        \/ o \in created \cap Tables /\ <<t.on, p, "default">> \in Visible(t)
    BY SMTT(30), <1>1, <1>2, <1>3, <2>1, RevisionGives
  <2>3. ASSUME NEW p \in Privs
        PROVE  <<t.on, p, "default">> \in Visible(t) <=> t.version >= 3 /\ p \in Dml
    BY <1>1, <1>3, <1>4, <2>3 DEF Visible, GivesFromNothing, WorkAt
  <2>4. u.on = t.on /\ t.version \in Nat /\ u.version \in Nat
    BY <1>3
  <2>5. ASSUME NEW p \in Privs, NEW o \in Places
        PROVE  /\ <<u.on, p, o>> \notin u.take
               /\ u.version < 3 => <<u.on, p, o>> \notin u.give
               /\ u.version >= 3 => (<<u.on, p, o>> \in u.give <=> WorkAt(p, o, u.objects))
    <3>1. /\ <<t.on, p, o>> \notin t.take
          /\ t.version < 3 => <<t.on, p, o>> \notin t.give
          /\ t.version >= 3 => (<<t.on, p, o>> \in t.give <=> WorkAt(p, o, t.objects))
      BY <1>1 DEF GivesFromNothing
    <3>2. u.version >= 3 <=> t.version >= 3
      BY <1>3, <1>6
    <3>3. <<t.on, p, o>> \notin u.take
      BY <2>2, <3>1
    <3>4. CASE t.version < 3
      <4>1. <<t.on, p, o>> \notin u.give
        <5>1. <<t.on, p, "default">> \notin Visible(t)
          BY <2>3, <2>4, <3>4
        <5>. QED  BY <2>2, <3>1, <3>4, <5>1
      <4>. QED  BY <2>4, <3>2, <3>3, <3>4, <4>1
    <3>5. CASE t.version >= 3
      <4>1. <<t.on, p, o>> \in u.give
              <=> \/ WorkAt(p, o, t.objects) /\ o \notin dropped
                  \/ o \in created \cap Tables /\ p \in Dml
        BY <2>2, <2>3, <3>1, <3>5
      <4>2. "schema" \notin dropped /\ "default" \notin dropped
        BY <1>4, <2>2
      <4>3. <<t.on, p, o>> \in u.give <=> WorkAt(p, o, u.objects)
        BY <1>4, <2>2, <4>1, <4>2 DEF WorkAt
      <4>. QED  BY <2>4, <3>2, <3>3, <3>5, <4>3
    <3>. QED  BY <2>4, <3>4, <3>5
  <2>. QED  BY <1>2, <2>5 DEF GivesFromNothing
<1>. QED  BY <1>5, <1>6

LEMMA JobsAloneNext ==
  ASSUME JobsInv, Next, manual' = 0
  PROVE  JobsAlone'
<1>1. /\ IsolationInv /\ SchemaInv /\ SchemaInv' /\ JobsAlone /\ manual = 0
      /\ acl \in [Agents -> SUBSET Entries]
      /\ version \in [Agents -> 0..Latest]
      /\ pc \in [Runners -> {"idle", "check", "create", "loop", "connect",
                             "creating", "migrating", "done", "failed"}]
      /\ position \in [Runners -> 1..(Len(MigrateAgents) + 1)]
      /\ Jobs \subseteq Runners
  BY SchemaNextInv, StepPositions DEF JobsInv, IsolationInv, SchemaInv, TypeOK, Runners
<1>2. /\ \A r \in Runners : pc[r] \in {"connect", "creating", "migrating"} => r \in Jobs
      /\ \A a \in Agents : AtRestOrReady(a)
      /\ \A r \in Runners : pc[r] = "migrating" =>
           /\ txn[r].saw[2] = Latest => version[txn[r].on] = Latest
           /\ Fresh(r) /\ txn[r].saw[2] = 0 => GivesFromNothing(r)
      /\ \A j \in Jobs : \A i \in 1..(position[j] - 1) : version[MigrateAgents[i]] = Latest
      /\ \A j \in Jobs : pc[j] = "done" => position[j] > Len(MigrateAgents)
  BY <1>1 DEF JobsAlone
<1>. DEFINE Given(r) == pc[r] = "migrating" =>
                          /\ txn[r].saw[2] = Latest => version[txn[r].on] = Latest
                          /\ Fresh(r) /\ txn[r].saw[2] = 0 => GivesFromNothing(r)
            Whole == /\ \A a \in Agents : AtRestOrReady(a)'
                     /\ \A r \in Runners : Given(r)'
                     /\ \A a \in Agents : version[a] = Latest => version'[a] = Latest
(* Whoever has a transaction is a Job. *)
<1>3. \A r \in Runners : pc'[r] \in {"connect", "creating", "migrating"} => r \in Jobs
  BY <1>1, <1>2, StepPositions DEF Runners
(* A run that commits takes an untouched schema to the latest version. *)
<1>4. ASSUME NEW r \in Runners, Commit(r)
      PROVE  /\ r \in Jobs /\ txn[r].on \in Agents /\ txn[r].on # "none"
             /\ pc[r] = "migrating" /\ pc'[r] # "migrating"
             /\ \A q \in Runners \ {r} : pc'[q] = pc[q] /\ txn'[q] = txn[q]
             /\ txn[r].on = MigrateAgents[position[r]] /\ position[r] <= Len(MigrateAgents)
             /\ txn[r].version = Latest
             /\ ~Wrote(txn[r]) => version[txn[r].on] = Latest
             /\ Wrote(txn[r]) => Fresh(r) /\ txn[r].saw[2] = 0 /\ version[txn[r].on] = 0
  <2>1. /\ r \in Jobs /\ pc[r] = "migrating" /\ txn[r].on \in Agents /\ txn[r].on # "none"
        /\ txn[r] \in Transactions
    BY <1>1, <1>2, <1>4, RunnerOpen, MigrationsAssumption DEF Commit
  <2>2. /\ txn[r].on = MigrateAgents[position[r]] /\ position[r] <= Len(MigrateAgents)
        /\ txn[r].version = Latest /\ txn[r].objects = Built(Latest)
    BY <1>1, <1>4, <2>1 DEF SchemaInv, JobsInOrder, RunsBuild, Commit
  <2>3. pc'[r] # "migrating" /\ \A q \in Runners \ {r} : pc'[q] = pc[q] /\ txn'[q] = txn[q]
    BY <1>1, <1>4 DEF Commit, Goes, SchemaInv
  <2>4. txn[r].saw \in (SUBSET Objects) \X (0..Latest) /\ txn[r].saw = <<txn[r].saw[1], txn[r].saw[2]>>
    BY <2>1 DEF Transactions
  <2>5. \/ txn[r].saw[1] = {} /\ txn[r].saw[2] = 0
        \/ txn[r].saw[1] = Built(txn[r].saw[2])
    BY <1>1, <2>1 DEF IsolationInv, OneWay
  <2>6. ASSUME ~Wrote(txn[r])
        PROVE  version[txn[r].on] = Latest
    <3>1. txn[r].saw[2] = Latest
      BY <2>1, <2>2, <2>4, <2>6 DEF Wrote
    <3>. QED  BY <1>2, <2>1, <3>1
  <2>7. ASSUME Wrote(txn[r])
        PROVE  Fresh(r) /\ txn[r].saw[2] = 0 /\ version[txn[r].on] = 0
    <3>1. Fresh(r)
      BY <1>1, <2>1, <2>7 DEF IsolationInv, Isolated
    <3>2. txn[r].saw[2] # Latest
      BY <2>2, <2>4, <2>5, <2>7 DEF Wrote
    <3>3. version[txn[r].on] = txn[r].saw[2]
      BY <3>1 DEF Fresh
    <3>4. version[txn[r].on] = 0 \/ version[txn[r].on] = Latest
      BY <1>2, <2>1 DEF AtRestOrReady
    <3>. QED  BY <3>1, <3>2, <3>3, <3>4
  <2>. QED  BY <2>1, <2>2, <2>3, <2>6, <2>7
<1>5. ASSUME NEW r \in Runners, Looks(r) \/ Creating(r) \/ Revises(r) \/ Bystands(r),
             \A q \in Runners \ {r} : pc'[q] = pc[q] /\ txn'[q] = txn[q],
             UNCHANGED <<objects, version, acl, atRest>>
      PROVE  Whole
  <2>1. \A a \in Agents : AtRestOrReady(a)'
    BY <1>2, <1>5 DEF AtRestOrReady
  <2>2. \A q \in Runners \ {r} : Given(q)'
    BY <1>2, <1>5 DEF Fresh, GivesFromNothing
  <2>3. ASSUME Looks(r)
        PROVE  Given(r)'
    BY <1>5, <2>3 DEF Looks, GivesFromNothing
  <2>4. ASSUME Creating(r)
        PROVE  Given(r)'
    BY <1>5, <2>4 DEF Creating, Blank, GivesFromNothing
  <2>5. ASSUME Revises(r)
        PROVE  Given(r)'
    <3>1. /\ pc[r] = "migrating" /\ txn'[r].on = txn[r].on /\ txn'[r].saw = txn[r].saw
          /\ Fresh(r) /\ txn[r].on \in Agents /\ r \in Jobs
      BY <1>1, <1>2, <2>5, RevisesFields DEF Revises
    <3>2. ASSUME txn[r].saw[2] = 0
          PROVE  GivesFromNothing(r)'
      <4>1. version[txn[r].on] = 0
        BY <3>1, <3>2 DEF Fresh
      <4>2. \A p \in Privs, o \in Places : <<txn[r].on, p, o>> \notin acl[txn[r].on]
        BY <1>2, <3>1, <4>1 DEF AtRestOrReady
      <4>. QED  BY <1>1, <1>2, <2>5, <3>1, <3>2, <4>2, RevisionFromNothing
    <3>. QED  BY <1>2, <1>5, <3>1, <3>2
  <2>6. Given(r)'
    BY <1>5, <2>3, <2>4, <2>5 DEF Bystands
  <2>. QED  BY <1>5, <2>1, <2>2, <2>6
<1>6. ASSUME NEW r \in Runners, Commit(r)
      PROVE  Whole
  <2>1. CASE ~Wrote(txn[r])
    <3>1. UNCHANGED <<objects, version, acl>>
      BY <1>6, <2>1 DEF Commit
    <3>. QED  BY <1>2, <1>4, <1>6, <3>1 DEF AtRestOrReady, Fresh, GivesFromNothing
  <2>2. CASE Wrote(txn[r])
    <3>1. /\ version'[txn[r].on] = Latest
          /\ \A b \in Agents \ {txn[r].on} : /\ acl'[b] = acl[b] /\ objects'[b] = objects[b]
                                             /\ version'[b] = version[b]
      <4>1. txn[r].version = Latest
        BY <1>4, <1>6
      <4>. QED  BY <1>1, <1>6, <2>2, <4>1, CommitOn
    <3>2. ASSUME NEW p \in Privs, NEW o \in Places
          PROVE  <<txn[r].on, p, o>> \in acl'[txn[r].on] <=> WorkAt(p, o, objects'[txn[r].on])
      <4>1. /\ <<txn[r].on, p, o>> \notin acl[txn[r].on]
            /\ <<txn[r].on, p, o>> \notin txn[r].take
            /\ <<txn[r].on, p, o>> \in txn[r].give <=> WorkAt(p, o, txn[r].objects)
        BY <1>2, <1>4, <1>6, <2>2 DEF AtRestOrReady, GivesFromNothing
      <4>. QED  BY <1>1, <1>6, <2>2, <4>1, CommitAt, CommitOn DEF WorkAt
    <3>3. \A a \in Agents : AtRestOrReady(a)'
      BY <1>2, <3>1, <3>2 DEF AtRestOrReady
    <3>4. ASSUME NEW q \in Runners \ {r}, pc[q] = "migrating"
          PROVE  Given(q)'
      <4>1. txn[q].on \in Agents /\ txn'[q] = txn[q] /\ pc'[q] = pc[q]
        BY <1>1, <1>4, <1>6, <3>4, RunnerOpen
      <4>2. CASE txn[q].on # txn[r].on
        BY <1>2, <3>1, <3>4, <4>1, <4>2 DEF Fresh, GivesFromNothing
      <4>3. CASE txn[q].on = txn[r].on
        BY <3>1, <4>1, <4>3 DEF Fresh
      <4>. QED  BY <4>2, <4>3
    <3>. QED  BY <1>4, <1>6, <3>1, <3>3, <3>4
  <2>. QED  BY <2>1, <2>2
<1>7. ASSUME GrantReaders
      PROVE  Whole
  <2>1. UNCHANGED <<objects, version, pc, txn>>
    BY <1>7 DEF GrantReaders
  <2>2. \A a \in Agents, p \in Privs, o \in Places : <<a, p, o>> \in acl'[a] <=> <<a, p, o>> \in acl[a]
    BY <1>1, <1>7, GrantReadersAt, MigrationsAssumption DEF Roles
  <2>3. \A a \in Agents : AtRestOrReady(a)'
    BY <1>2, <2>1, <2>2 DEF AtRestOrReady
  <2>. QED  BY <1>2, <2>1, <2>3 DEF Fresh, GivesFromNothing
<1>. HIDE DEF Whole
<1>8. Whole
  BY <1>1, <1>5, <1>6, <1>7, StepShapes
<1>. USE DEF Whole
<1>9. \A j \in Jobs : /\ \A i \in 1..(position'[j] - 1) : version'[MigrateAgents[i]] = Latest
                      /\ pc'[j] = "done" => position'[j] > Len(MigrateAgents)
  <2>. SUFFICES ASSUME NEW j \in Jobs
                PROVE  /\ \A i \in 1..(position'[j] - 1) : version'[MigrateAgents[i]] = Latest
                       /\ pc'[j] = "done" => position'[j] > Len(MigrateAgents)
    OBVIOUS
  <2>1. \A i \in 1..(position[j] - 1) : version'[MigrateAgents[i]] = Latest
    <3>1. position[j] \in 1..(Len(MigrateAgents) + 1) /\ Len(MigrateAgents) \in Nat
      BY <1>1, MigrationsAssumption
    <3>2. \A i \in 1..(position[j] - 1) : MigrateAgents[i] \in Agents
      BY <3>1, AgentsListed
    <3>. QED  BY <1>2, <1>8, <3>2
  <2>2. CASE Commit(j) /\ position'[j] = position[j] + 1 /\ pc'[j] = "loop"
    <3>1. version'[MigrateAgents[position[j]]] = Latest
      <4>1. CASE Wrote(txn[j])
        <5>1. txn[j].version = Latest /\ txn[j].on = MigrateAgents[position[j]]
          BY <1>1, <1>4, <2>2
        <5>. QED  BY <1>1, <2>2, <4>1, <5>1, CommitOn
      <4>2. CASE ~Wrote(txn[j])
        BY <1>1, <1>4, <1>8, <2>2, <4>2
      <4>. QED  BY <4>1, <4>2
    <3>2. position[j] \in Nat
      BY <1>1, MigrationsAssumption
    <3>. QED  BY <2>1, <2>2, <3>1, <3>2
  <2>. QED  BY <1>1, <1>2, <2>1, <2>2, StepPositions
<1>. QED  BY <1>3, <1>8, <1>9 DEF JobsAlone

LEMMA JobsNext == JobsInv /\ [Next]_vars => JobsInv'
<1>1. ASSUME JobsInv, Next
      PROVE  JobsInv'
  <2>1. JobsAlone'
    BY <1>1, JobsAloneNext DEF JobsAlone
  <2>. QED  BY <1>1, <2>1, IsolationNext DEF JobsInv
<1>2. ASSUME JobsInv, UNCHANGED vars
      PROVE  JobsInv'
  BY <1>2, IsolationNext DEF JobsInv, JobsAlone, AtRestOrReady, Fresh, GivesFromNothing, vars, catalog
<1>. QED  BY <1>1, <1>2

LEMMA JobsTruthful == JobsInv => DoneMeansLatest
<1>. SUFFICES ASSUME JobsInv, NEW j \in Jobs, pc[j] = "done", manual = 0, NEW a \in Agents
              PROVE  version[a] = Latest /\ Covered(a)
  BY DEF DoneMeansLatest
<1>1. PICK i \in DOMAIN MigrateAgents : MigrateAgents[i] = a
  BY DEF Agents
<1>2. /\ position[j] > Len(MigrateAgents) /\ AtRestOrReady(a)
      /\ \A k \in 1..(position[j] - 1) : version[MigrateAgents[k]] = Latest
  BY DEF JobsInv, JobsAlone
<1>3. position[j] \in 1..(Len(MigrateAgents) + 1) /\ Len(MigrateAgents) \in Nat
  BY MigrationsAssumption DEF JobsInv, IsolationInv, SchemaInv, TypeOK, Runners
<1>4. version[a] = Latest
  <2>1. i \in 1..(position[j] - 1)
    BY <1>2, <1>3, MigrationsAssumption
  <2>. QED  BY <1>1, <1>2, <2>1
<1>5. \A p \in Privs, o \in Places : <<a, p, o>> \in acl[a] <=> WorkAt(p, o, objects[a])
  BY <1>2, <1>4 DEF AtRestOrReady
<1>6. acl[a] \in SUBSET Entries /\ a \in Roles
  BY DEF JobsInv, IsolationInv, SchemaInv, Roles
<1>7. HeldBy(a, acl[a]) = Grants(a, objects[a] \cap Tables)
  BY <1>5, <1>6, WritersAt
<1>. QED  BY <1>4, <1>7 DEF Covered, Privileges, HeldBy

(* A Job that ends well leaves every schema at the latest revision, with its   *)
(* agent let in, if nobody runs Alembic by hand (migrate-job.yaml).           *)
THEOREM JobsTellTheTruth == Spec => []DoneMeansLatest
<1>. QED  BY JobsInit, JobsNext, JobsTruthful, PTL DEF Spec
=============================================================================
