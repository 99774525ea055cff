-------------------------- MODULE SchemaMigrations --------------------------
(***************************************************************************)
(* How the database gets its schemas: the migration Job                    *)
(* (infra/kustomize/base/migrate-job.yaml) runs app/cluster/bootstrap.py   *)
(* and then, one agent after another, the revisions of app/migrations in   *)
(* that agent's PostgreSQL schema; operators run Alembic by hand, and      *)
(* scripts/grant_readers.py lets people read.                              *)
(*                                                                         *)
(* A runner is a pod of a Job, or an operator's shell. A run of Alembic is *)
(* one transaction (env.py opens it around everything), so what it does is *)
(* seen by nobody until it commits, and it waits for another transaction   *)
(* that has written to the same schema. One step is one revision, one      *)
(* other statement of the bootstrap, or the end of a transaction.          *)
(*                                                                         *)
(* Columns, types and constraints are left out: an object is a table, an   *)
(* index, a trigger, a function, or the row that ADK looks for.            *)
(***************************************************************************)
EXTENDS Naturals, Sequences, FiniteSets

CONSTANTS
  MigrateAgents,  \* MIGRATE_AGENTS: the agents, in the order of the Job's loop
  Jobs,           \* Jobs whose pods may be alive at the same time
  Operators,      \* shells in which Alembic is run by hand
  Readers,        \* DB_READERS
  ManualTargets,  \* the revisions operators go to; 0 is "base"
  BackoffLimit,   \* backoffLimit: how often a Job replaces a pod that failed
  MaxCrashes,     \* bounds the pods that are killed
  MaxManual       \* bounds the runs by hand

Agents  == {MigrateAgents[i] : i \in DOMAIN MigrateAgents}
Runners == Jobs \cup Operators
Latest  == 5

ASSUME MigrationsAssumption ==
  /\ MigrateAgents \in Seq(Agents) /\ MigrateAgents # << >>
  /\ \A i, j \in DOMAIN MigrateAgents : MigrateAgents[i] = MigrateAgents[j] => i = j
  /\ Jobs \cap Operators = {}
  /\ Agents \cap Readers = {}
  /\ "none" \notin Agents
  /\ ManualTargets \subseteq 0..Latest
  /\ {BackoffLimit, MaxCrashes, MaxManual} \subseteq Nat

VARIABLES
  database,   \* does the database exist?
  objects,    \* what each agent's schema holds, as committed; {} is no schema
  version,    \* the row of its alembic_version; 0 is no row
  acl,        \* its privileges: <<role, privilege, table>>
  atRest,     \* history: readers granted while no run was under way there
  pc,         \* where each runner is
  position,   \* which agent a Job's loop is at
  txn,        \* the transaction a runner has open
  failures,   \* pods of a Job that failed
  crashes,    \* pods that were killed
  manual      \* runs by hand that were started

catalog == <<database, objects, version, acl>>
vars == <<catalog, atRest, pc, position, txn, failures, crashes, manual>>

-----------------------------------------------------------------------------
(* The revisions.                                                          *)

AdkTables   == {"adk_internal_metadata", "sessions", "events", "app_states", "user_states"}
AdkIndexes  == {"idx_events_app_user_session_ts", "idx_sessions_update_time"}
SeededRow   == "adk_internal_metadata.schema_version"
TaskParts   == {"idx_tasks_context_id", "idx_tasks_updated_at",
                "tasks_touch_updated_at", "tasks_set_updated_at"}
HitlIndexes == {"idx_hitl_approvals_status_created", "idx_hitl_approvals_user_pending",
                "idx_hitl_approvals_deciding"}
CaseIndexes == {"idx_approval_cases_status_created", "idx_approval_cases_case",
                "idx_approval_cases_unexecuted"}
Tables      == AdkTables \cup {"tasks", "hitl_approvals", "approval_cases", "alembic_version"}
NewSchema   == {"schema", "alembic_version"}

(* upgrade(): what a revision creates and drops. Revision 3 only grants.   *)
Creates(rev) ==
  CASE rev = 1 -> AdkTables \cup AdkIndexes \cup {SeededRow}
    [] rev = 2 -> {"tasks"} \cup TaskParts
    [] rev = 3 -> {}
    [] rev = 4 -> {"hitl_approvals"} \cup HitlIndexes
    [] rev = 5 -> {"approval_cases"} \cup CaseIndexes

Drops(rev) == IF rev = 5 THEN {"hitl_approvals"} \cup HitlIndexes ELSE {}

(* downgrade(): what it creates again, and what it drops. *)
Restores(rev) == IF rev = 5 THEN {"hitl_approvals"} \cup HitlIndexes ELSE {}

Removes(rev) ==
  CASE rev = 1 -> AdkTables \cup AdkIndexes \cup {SeededRow}
    [] rev = 2 -> {"tasks"} \cup TaskParts
    [] rev = 3 -> {}
    [] rev = 4 -> {"hitl_approvals"} \cup HitlIndexes
    [] rev = 5 -> {"approval_cases"} \cup CaseIndexes

(* Revision 3: USAGE and DML, on the tables there are and on those to come.
   "WRITE" is INSERT, UPDATE and DELETE, which are granted together. *)
Dml == {"SELECT", "WRITE"}

Grants(role, tables) ==
  {<<role, "USAGE", "schema">>}
    \cup {<<role, p, t>> : p \in Dml, t \in tables}
    \cup {<<role, p, "default">> : p \in Dml}

(* MUTANT: readers are granted the tables there are. *)
ReadsNow(role, tables) ==
  {<<role, "USAGE", "schema">>} \cup {<<role, "SELECT", t>> : t \in tables}

(* grant_readers(), of one reader on one schema. *)
Reads(role, tables) ==
  {<<role, "USAGE", "schema">>, <<role, "SELECT", "default">>}
    \cup {<<role, "SELECT", t>> : t \in tables}

(* MUTANT: a table that is created gets none. *)
InheritedNot(privileges, tables) == {}

(* A table that is created gets the default privileges of its schema. *)
Inherited(privileges, tables) ==
  {<<e[1], e[2], t>> : e \in {d \in privileges : d[3] = "default"}, t \in tables}

-----------------------------------------------------------------------------
NoTxn == [on |-> "none", objects |-> {}, version |-> 0, target |-> 0, signed |-> FALSE,
          saw |-> <<{}, 0>>, give |-> {}, take |-> {}, grants |-> FALSE]

(* A transaction on the schema of an agent, towards a target; signed says
   whether DB_AGENT_ROLE is set. *)
Opened(a, target, signed) ==
  [NoTxn EXCEPT !.on = a, !.target = target, !.signed = signed]

(* What a transaction sees of the privileges of its schema. *)
Visible(t) == (acl[t.on] \cup t.give) \ t.take

(* It has written something that others wait for. *)
Wrote(t) == t.on # "none" /\ t.saw # <<t.objects, t.version>>

Waits(r) == \E q \in Runners \ {r} : txn[q].on = txn[r].on /\ Wrote(txn[q])

(* Somebody else's run has been committed since this one looked. *)
Stale(r) == ~Wrote(txn[r]) /\ txn[r].saw # <<objects[txn[r].on], version[txn[r].on]>>

TypeOK ==
  /\ database \in BOOLEAN
  /\ \A a \in Agents : objects[a] = {} \/ NewSchema \subseteq objects[a]
  /\ version \in [Agents -> 0..Latest]
  /\ \A a \in Agents : acl[a] \subseteq
       (Agents \cup Readers) \X (Dml \cup {"USAGE"}) \X (Tables \cup {"schema", "default"})
  /\ atRest \in [Agents -> SUBSET Readers]
  /\ pc \in [Runners -> {"idle", "check", "create", "loop", "connect", "creating",
                         "migrating", "done", "failed"}]
  /\ position \in [Runners -> 1..(Len(MigrateAgents) + 1)]
  /\ \A r \in Runners : /\ txn[r].on \in Agents \cup {"none"}
                        /\ pc[r] \in {"connect", "creating", "migrating"} <=> txn[r].on # "none"
  /\ failures \in [Runners -> 0..(BackoffLimit + 1)]
  /\ crashes \in 0..MaxCrashes
  /\ manual \in 0..MaxManual

Init ==
  /\ database = FALSE
  /\ objects = [a \in Agents |-> {}]
  /\ version = [a \in Agents |-> 0]
  /\ acl = [a \in Agents |-> {}]
  /\ atRest = [a \in Agents |-> {}]
  /\ pc = [r \in Runners |-> "idle"]
  /\ position = [r \in Runners |-> 1]
  /\ txn = [r \in Runners |-> NoTxn]
  /\ failures = [r \in Runners |-> 0]
  /\ crashes = 0
  /\ manual = 0

-----------------------------------------------------------------------------
Goes(r, next) == pc' = [pc EXCEPT ![r] = next]

(* MUTANT: what it had not committed stays open. *)
FailsOpen(r) ==
  /\ UNCHANGED txn
  /\ position' = [position EXCEPT ![r] = 1]
  /\ failures' = [failures EXCEPT ![r] = IF r \in Jobs THEN @ + 1 ELSE @]
  /\ Goes(r, IF r \in Operators THEN "idle"
             ELSE IF failures[r] < BackoffLimit THEN "check" ELSE "failed")

(* A pod fails, and what it had not committed is rolled back. The Job starts
   another pod, from the top, until backoffLimit; an operator looks on. *)
Fails(r) ==
  /\ txn' = [txn EXCEPT ![r] = NoTxn]
  /\ position' = [position EXCEPT ![r] = 1]
  /\ failures' = [failures EXCEPT ![r] = IF r \in Jobs THEN @ + 1 ELSE @]
  /\ Goes(r, IF r \in Operators THEN "idle"
             ELSE IF failures[r] < BackoffLimit THEN "check" ELSE "failed")

(* MUTANT: a shell without -e goes on with the next agent. *)
FailsAndGoesOn(r) ==
  /\ txn' = [txn EXCEPT ![r] = NoTxn]
  /\ position' = [position EXCEPT ![r] = IF @ <= Len(MigrateAgents) THEN @ + 1 ELSE @]
  /\ UNCHANGED failures
  /\ Goes(r, IF r \in Operators THEN "idle" ELSE "loop")

(* A statement of the run raises: alembic exits with an error (set -eu). *)
Raises(r) == Fails(r)

-----------------------------------------------------------------------------
(* bootstrap.py                                                            *)

ApplyJob(j) ==
  /\ pc[j] = "idle"
  /\ Goes(j, "check")
  /\ UNCHANGED <<catalog, atRest, position, txn, failures, crashes, manual>>

(* MUTANT: the database is created without a look whether it is there. *)
CheckNothing(j) ==
  /\ pc[j] = "check"
  /\ Goes(j, "create")
  /\ UNCHANGED <<catalog, atRest, position, txn, failures, crashes, manual>>

(* SELECT 1 FROM pg_database *)
CheckDatabase(j) ==
  /\ pc[j] = "check"
  /\ Goes(j, IF database THEN "loop" ELSE "create")
  /\ UNCHANGED <<catalog, atRest, position, txn, failures, crashes, manual>>

(* CREATE DATABASE, in no transaction; raises if it is there by now. *)
CreateDatabase(j) ==
  /\ pc[j] = "create"
  /\ database' = TRUE
  /\ IF database THEN Raises(j)
     ELSE Goes(j, "loop") /\ UNCHANGED <<position, txn, failures>>
  /\ UNCHANGED <<objects, version, acl, atRest, crashes, manual>>

-----------------------------------------------------------------------------
(* The Job's loop, and a run of Alembic.                                   *)

NextAgent(j) ==
  /\ pc[j] = "loop"
  /\ position[j] <= Len(MigrateAgents)
  /\ txn' = [txn EXCEPT ![j] = Opened(MigrateAgents[position[j]], Latest, TRUE)]
  /\ Goes(j, "connect")
  /\ UNCHANGED <<catalog, atRest, position, failures, crashes, manual>>

AllAtHead(j) ==
  /\ pc[j] = "loop"
  /\ position[j] > Len(MigrateAgents)
  /\ Goes(j, "done")
  /\ UNCHANGED <<catalog, atRest, position, txn, failures, crashes, manual>>

(* An operator goes to a revision, with DB_AGENT_ROLE or without. *)
RunByHand(o, a, target, signed) ==
  /\ pc[o] = "idle"
  /\ database
  /\ manual < MaxManual
  /\ manual' = manual + 1
  /\ txn' = [txn EXCEPT ![o] = Opened(a, target, signed)]
  /\ Goes(o, "connect")
  /\ UNCHANGED <<catalog, atRest, position, failures, crashes>>

(* CREATE SCHEMA IF NOT EXISTS finds one, and Alembic reads its version. *)
FindSchema(r) ==
  LET a == txn[r].on IN
  /\ pc[r] = "connect"
  /\ objects[a] # {}
  /\ txn' = [txn EXCEPT ![r].objects = objects[a], ![r].version = version[a],
                        ![r].saw = <<objects[a], version[a]>>]
  /\ Goes(r, "migrating")
  /\ UNCHANGED <<catalog, atRest, position, failures, crashes, manual>>

SchemaMissing(r) ==
  /\ pc[r] = "connect"
  /\ objects[txn[r].on] = {}
  /\ Goes(r, "creating")
  /\ UNCHANGED <<catalog, atRest, position, txn, failures, crashes, manual>>

(* The schema and its alembic_version. Whoever created it first has won: the
   statement waits for that transaction, and raises if it commits. *)
CreateSchema(r) ==
  /\ pc[r] = "creating"
  /\ ~Waits(r)
  /\ IF Stale(r) THEN Raises(r)
     ELSE /\ txn' = [txn EXCEPT ![r].objects = NewSchema]
          /\ Goes(r, "migrating")
          /\ UNCHANGED <<position, failures>>
  /\ UNCHANGED <<catalog, atRest, crashes, manual>>

(* The transaction after the DDL that creates and drops these objects. *)
Changed(t, created, dropped) ==
  [t EXCEPT !.objects = (@ \ dropped) \cup created,
            !.give = {e \in @ : e[3] \notin dropped}
                       \cup Inherited(Visible(t), created \cap Tables)]

Granted(t) ==
  IF ~t.signed THEN t
  ELSE LET entries == Grants(t.on, t.objects \cap Tables) IN
       [t EXCEPT !.give = @ \cup entries, !.take = @ \ entries, !.grants = TRUE]

Revoked(t) ==
  IF ~t.signed THEN t
  ELSE LET entries == Grants(t.on, t.objects \cap Tables) IN
       [t EXCEPT !.give = @ \ entries, !.take = @ \cup entries, !.grants = TRUE]

Upgraded(t) ==
  LET rev == t.version + 1
      ddl == IF rev = 3 THEN Granted(t) ELSE Changed(t, Creates(rev), Drops(rev))
  IN [ddl EXCEPT !.version = rev]

(* MUTANT: what the revision created is left behind. *)
LeavesBehind(t) ==
  [Changed(t, Restores(t.version), {}) EXCEPT !.version = @ - 1]

Downgraded(t) ==
  LET rev == t.version
      ddl == IF rev = 3 THEN Revoked(t) ELSE Changed(t, Restores(rev), Removes(rev))
  IN [ddl EXCEPT !.version = rev - 1]

(* Objects that are to be created are absent, and to be dropped present. *)
Applies(t) ==
  IF t.version < t.target
  THEN /\ Creates(t.version + 1) \cap t.objects = {}
       /\ Drops(t.version + 1) \subseteq t.objects
  ELSE /\ Restores(t.version) \cap t.objects = {}
       /\ Removes(t.version) \subseteq t.objects

(* One revision, and the UPDATE of alembic_version that goes with it. Behind
   another run that has committed, one of the two raises. *)
RunRevision(r) ==
  /\ pc[r] = "migrating"
  /\ txn[r].version # txn[r].target
  /\ ~Waits(r)
  /\ IF Stale(r) \/ ~Applies(txn[r]) THEN Raises(r)
     ELSE /\ txn' = [txn EXCEPT ![r] =
                       IF @.version < @.target THEN Upgraded(@) ELSE Downgraded(@)]
          /\ UNCHANGED <<pc, position, failures>>
  /\ UNCHANGED <<catalog, atRest, crashes, manual>>

(* The run is at its target; one that had nothing to do has written nothing. *)
Commit(r) ==
  LET t == txn[r] IN
  /\ pc[r] = "migrating"
  /\ t.version = t.target
  /\ IF Wrote(t)
     THEN /\ objects' = [objects EXCEPT ![t.on] = t.objects]
          /\ version' = [version EXCEPT ![t.on] = t.version]
          /\ acl' = [acl EXCEPT ![t.on] =
                       {e \in Visible(t) : e[3] \in t.objects \cup {"default"}}]
     ELSE UNCHANGED <<objects, version, acl>>
  /\ txn' = [txn EXCEPT ![r] = NoTxn]
  /\ IF r \in Jobs
     THEN position' = [position EXCEPT ![r] = @ + 1] /\ Goes(r, "loop")
     ELSE UNCHANGED position /\ Goes(r, "idle")
  /\ UNCHANGED <<database, atRest, failures, crashes, manual>>

(* The pod, or the shell, is killed. *)
Crash(r) ==
  /\ pc[r] \notin {"idle", "done", "failed"}
  /\ crashes < MaxCrashes
  /\ crashes' = crashes + 1
  /\ Fails(r)
  /\ UNCHANGED <<catalog, atRest, manual>>

-----------------------------------------------------------------------------
(* grant_readers(): one transaction over all schemas; it waits for a run that
   has changed the privileges of one or dropped its tables, and raises if a
   schema is missing. It cannot see the tables of a run that has not committed. *)
GrantReaders ==
  /\ \A a \in Agents : objects[a] # {}
  /\ \A r \in Runners : Wrote(txn[r]) =>
       /\ ~txn[r].grants
       /\ objects[txn[r].on] \cap Tables \subseteq txn[r].objects
  /\ acl' = [a \in Agents |-> acl[a] \cup
               UNION {Reads(reader, objects[a] \cap Tables) : reader \in Readers}]
  /\ atRest' = [a \in Agents |->
                  IF \A r \in Runners : txn[r].on # a THEN Readers ELSE atRest[a]]
  /\ UNCHANGED <<database, objects, version, pc, position, txn, failures, crashes, manual>>

Bootstrap(j) == ApplyJob(j) \/ CheckDatabase(j) \/ CreateDatabase(j)

Loop(j) == NextAgent(j) \/ AllAtHead(j)

Alembic(r) ==
  \/ FindSchema(r)
  \/ SchemaMissing(r)
  \/ CreateSchema(r)
  \/ RunRevision(r)
  \/ Commit(r)

ByHand(o) ==
  \E a \in Agents, target \in ManualTargets, signed \in BOOLEAN :
    RunByHand(o, a, target, signed)

Next ==
  \/ \E j \in Jobs : Bootstrap(j) \/ Loop(j)
  \/ \E o \in Operators : ByHand(o)
  \/ \E r \in Runners : Alembic(r) \/ Crash(r)
  \/ GrantReaders

Spec == Init /\ [][Next]_vars

(* Pods that can run do, and statements that can go on do: each waits only for
   a transaction of another runner, which ends. *)
Fairness ==
  /\ \A j \in Jobs : WF_vars(Bootstrap(j) \/ Loop(j))
  /\ \A r \in Runners : WF_vars(Alembic(r))

FairSpec == Spec /\ Fairness
-----------------------------------------------------------------------------
(* Where a schema should be, by the upgrades alone. *)
Built(rev) ==
  (NewSchema \cup UNION {Creates(k) : k \in 1..rev}) \ UNION {Drops(k) : k \in 1..rev}

(***************************************************************************)
(* A schema that others can see holds exactly what its alembic_version     *)
(* says: no run leaves half of its revisions behind, whoever is killed or  *)
(* races, and every downgrade undoes its upgrade, so that the next upgrade *)
(* finds what it expects (env.py, versions/).                              *)
(***************************************************************************)
SchemaMatchesVersion ==
  \A a \in Agents :
    IF objects[a] = {} THEN version[a] = 0 ELSE objects[a] = Built(version[a])

(* Covered: an agent's role has all it needs on every table of its schema. *)
Privileges(role, a) == {e \in acl[a] : e[1] = role}

Covered(a) == Privileges(a, a) = Grants(a, objects[a] \cap Tables)

(***************************************************************************)
(* "Applies to tables created by later revisions, so this never needs      *)
(* redoing" (revision 3): a role that is covered stays so through every    *)
(* later run, up or down, that does not undo revision 3 itself, although   *)
(* revision 5 issues no GRANT for its table.                               *)
(***************************************************************************)
CoverageIsKept ==
  [][\A a \in Agents :
       \/ UNCHANGED <<objects[a], acl[a]>>
       \/ version[a] >= 3 /\ version'[a] >= 3 /\ Covered(a) => Covered(a)']_vars

(***************************************************************************)
(* Readers who were granted access while no migration was under way can    *)
(* read, and only read, every table, later ones included                   *)
(* (grant_readers.py: "covered without re-running this"). Next to a        *)
(* migration that has not committed, its tables would be missed.           *)
(***************************************************************************)
ReadersCovered ==
  \A a \in Agents : \A reader \in atRest[a] :
    Privileges(reader, a) = Reads(reader, objects[a] \cap Tables)

(***************************************************************************)
(* A Job that says "all schemas at head" speaks the truth, if nobody runs  *)
(* Alembic by hand: no agent was passed over on the way.                   *)
(***************************************************************************)
DoneMeansLatest ==
  \A j \in Jobs : pc[j] = "done" /\ manual = 0 =>
    \A a \in Agents : version[a] = Latest /\ Covered(a)

(***************************************************************************)
(* Every schema gets to the latest revision, with its agent let in, over   *)
(* killed pods and lost races of two Jobs, within their backoff limits.    *)
(***************************************************************************)
AllMigrated ==
  <>(manual > 0 \/ \A a \in Agents : version[a] = Latest /\ Covered(a))
=============================================================================
