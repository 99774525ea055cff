# Verification of the multi-agent system

TLA+ models of what this repository's pods do to each other and to the state
they share: the approval flow (a specialist proposes, a human decides, the action
is carried out once it is approved), with a database and without; the texts that
results travel in; the versioned artifact store; the start, the shared database
engine, the secrets and the end of a pod; and the migrations that prepare the
database. Small instances are model-checked with TLC. Every invariant and action
property of the runs that pass, and both refinements, are also proved with TLAPS,
for any number of requests, cases, payloads, pods, numbers, saves, threads,
environments, model catalogs and runners; liveness is model-checked only.

```
tlc -workers 2 -config GatedFlow.cfg MCApprovalCases     # check one run
tlapm ApprovalCasesProofs.tla                            # check its proofs
tlc -workers 2 -config LocalFlow.cfg MCLocalFlow
tlapm LocalFlowProofs.tla                                # with ReplyTextsProofs.tla
tlc -workers 2 -config AgentPods.cfg MCAgentPod
tlapm AgentPodProofs.tla                                 # with PodConfigProofs.tla
tlc -workers 2 -config ArtifactVersions.cfg MCArtifactStore
tlapm ArtifactStoreProofs.tla
tlc -workers 2 -config Migrations.cfg MCSchemaMigrations
tlapm SchemaMigrationsProofs.tla
tlapm SequenceLemmas.tla                                 # what several of them use
```

Paths below are relative to the repository's `app/`.

## 1. The system

An orchestrator agent and three specialists (math, research, planner) run as
separate deployments of one image. The orchestrator calls a specialist over A2A
through a typed tool (`PeerTool`); the specialist is stateless between calls.
State that outlives a call is in a database schema per agent (sessions, A2A
tasks, approval cases) and in an object store (artifacts).

| Component | State | Operations | Used by |
| --- | --- | --- | --- |
| Approval handlers, `fast_api_app.py` | none between requests | `POST /cases/run`, `POST /cases/{id}`, two GETs | callers over HTTP |
| Case store, `cluster/cases.py` | table `approval_cases`; or a dict per pod | `open`, `get`, `list_by_status`, `decide`, `record_execution` | the handlers |
| Math specialist, `agents/math/tools.py` | `PUBLICATIONS` (stands for a system of record) | `calculate`, `publish_result` | orchestrator, over A2A |
| Reading replies, `cluster/cases.py`, `agents/reporting.py` | none | `find_proposals`, `find_execution`, `reply_texts`, `restate_structured_results` | the handlers; every agent |
| Contracts, `agents/contracts.py` | none | validation | `PeerTool` |
| Peer delegation, `cluster/peer_tool.py`, `resolver.py`, `config.py` | configuration, fixed at start | `run_async`, `resolve_all` | every agent |
| Artifact service, `shared/artifacts.py` | files of an object store or directory | save, load, list, delete, metadata | ADK runner, agents |
| Database engine, `cluster/db.py` | engine, connector, pool | `engine`, `aclose` | session, task and case stores |
| Secrets, `shared/secrets.py` | cache of values | `get`, `get_as` | nobody yet: `agent.py` does not install `SecretModule` |
| Model selection, `shared/model_selection.py` and neighbours | none | choose the newest model id | start-up code |
| Sessions, memory, tasks, `cluster/session.py`, `tasks.py`, `di.py` | those of ADK and the A2A SDK | choose a backend | serving |
| Start-up, `agent.py`, `fast_api_app.py` | the services it has built | resolve each service, register the web surfaces, close the database | the container |
| Migrations, `cluster/bootstrap.py`, `migrations/`, `scripts/grant_readers.py` | a schema per agent, its version and its privileges | create the database, upgrade, downgrade, grant | the migration Job, operators |

How they interact: `cases_run` drives a turn of the orchestrator, whose model
calls the specialist, whose model calls `publish_result` without an approver and
gets a proposal; the text of the reply is scanned and each proposal becomes a
pending row. `case_decide` writes the decision with one conditional `UPDATE`,
then drives another turn that asks for the same request with `approved_by` set,
scans its texts for a confirmation that matches the approved proposal, and only
then closes the row. No lock, lease or sweeper exists; replicas share nothing
but the table.

What is hard here: two language models between a decision and its effect; calls
and replies that get lost with the effect done or not; requests for the same case
on two replicas at the same time; pods that die between two statements; stale
copies of a row that is used for minutes, or, without a database, one object that
two requests hold; results that have to survive prose, wrapping and a float; an
engine that is built under a lock, read without it and disposed of with neither;
an environment that is read twice; transactions of two Jobs in the same schema;
and, in the artifact store, operations that are several storage calls with
nothing held in between. `PROJECT.json` lists these hazards at the lines where
they bite, with the properties that are about them, or the reason why there is
none yet.

What makes each component correct:

- approval flow: one decision per case; nothing is carried out that was not
  approved; a case is closed only if what was approved was done; a caller is told
  the truth; an approved case is not stuck; (as documented) it is done once;
- artifacts: a version that was acknowledged stays until it is deleted; the
  latest version is the latest; a deleted artifact is gone;
- replies: every proposal is found once, whatever it is wrapped in; only a
  confirmation of the approved values counts; numbers have one spelling;
- engine and secrets: one engine per process, shared by all its stores; nothing
  leaked by an orderly shutdown; a refresh returns what is current;
- start-up: a pod that serves has a configuration without a documented mistake in
  it, and its surfaces use the same services; the order on model ids is the documented
  one; each peer once, where it is;
- migrations: a schema holds what its version says, at any moment and after any
  crash; an agent's role has all of its tables and keeps them.

## 2. Modules

| Module | What it is |
| --- | --- |
| `ApprovalLifecycle` | what the approval flow promises, as a specification of its own |
| `ApprovalCases` | the handlers, the database store and the gate, step by step |
| `ApprovalCasesProofs` | theorems on `ApprovalCases`, and that it implements `ApprovalLifecycle` |
| `MCApprovalCases` | symmetry for TLC |
| `ArtifactStore` | the versions of one artifact, storage call by storage call |
| `ArtifactStoreProofs` | theorems on `ArtifactStore` |
| `MCArtifactStore` | symmetry for TLC |
| `ReplyTexts` | tools, texts and the functions that find results in them, as operators |
| `ReplyTextsProofs` | what those functions find in a text, for every text |
| `LocalFlow` | the handlers over the in-memory store of each pod, with those texts |
| `LocalFlowProofs` | theorems on `LocalFlow`, and that its cases follow `ApprovalLifecycle` |
| `MCLocalFlow` | symmetry for TLC |
| `ModelSelection` | the order on model ids, and the choice of one |
| `PodConfig` | what a pod makes of its environment: peers, database, backends |
| `PodConfigProofs` | what the loops of `ModelSelection` and `PodConfig` return, for every input |
| `SequenceLemmas` | induction over a sequence, and facts on sequences that the proofs share |
| `DatabaseEngine` | `engine()` and `aclose()` under threads |
| `SecretsCache` | `Secrets.get` under threads and rotations |
| `AgentPod` | a pod from its import to its end: composes the four above |
| `AgentPodProofs` | theorems on the pod; it implements the holder and the secrets |
| `MCAgentPod` | the environments that TLC starts pods with |
| `SchemaMigrations` | bootstrap, migrations and grants, as concurrent transactions |
| `SchemaMigrationsProofs` | theorems on `SchemaMigrations` |
| `MCSchemaMigrations` | the order of the Job's loop |

### ApprovalCases

A handler (`Handlers`) is an HTTP request being served, on whichever replica.

| Variable | In the code |
| --- | --- |
| `status`, `proposal`, `decided_by`, `result` | columns of `approval_cases` (the others are never read to decide anything) |
| `publications` | `PUBLICATIONS`, as a set |
| `pc` | where the coroutine is: `running`/`executing` inside `_run_turn`, `opening` in the loop of `cases_run`, `reading` between the `UPDATE` and the `SELECT` of `decide` |
| `target`, `case` | `proposal_id` and the local `case` of `case_decide`, the copy that the store returned |
| `texts` | the results that `turn.texts` holds so far |
| `call` | the A2A request in flight; it survives the handler |
| `opened`, `answer` | the cases this request opened; the status it returned |
| `performed` | history: how often a drive of the case published its payload |

| Action | In the code |
| --- | --- |
| `RunTurn`, `EndRunTurn`, `OpenCase`, `FinishRun` | `cases_run`: the turn, one iteration of the loop (`case_from_proposal`, `open`), the answer |
| `DecideRecorded` | the `UPDATE` of `decide` finds the row pending; the handler goes on by its status (`Dispatch`) |
| `DecideMisses`, `DecideUnknown`, `ReadDecided`, `ReadNotFound` | the `UPDATE` finds nothing; the `SELECT` in the same transaction, which under READ COMMITTED sees what was committed in between |
| `AskSpecialist`, `SpecialistRuns`, `LoseCall`, `Narrate` | a turn calls the peer; `publish_result` runs and its reply arrives or not; the request is lost; a model repeats a result |
| `LeaveUnconfirmed`, `RecordExecution` | after the turn: `find_execution` is empty, or `record_execution` closes the row, whatever its status is by then |
| `Abort` | the pod dies or something raises; the request that was under way stays under way. A pod that dies with several requests is several `Abort`s |

The models are nondeterminism: `Requests` is what a turn may send, `Quotable`
what it may write. Where `LooseRequests` and `Fabricates` are FALSE (`Obedient`),
models do what their prompts say: they propose in a conversation; in an execution
turn they send the approved request with the approver they were told, or forget
the approver; one request at a time, as the orchestrator's instruction has it; and
they quote only results that exist. Where they are TRUE a model may send and
write anything, invented confirmations included. Properties that need obedience
say so; the others are checked and proved without it.

Abstractions. A payload is the whole proposal (action, value, label), as the set of
its fields with their values: the value the specialist recomputes is the one
proposed unless `LooseRequests`. `publish_result` makes payloads of plain values
only (`Publishable`: strings, numbers, booleans, which are `Scalars`), always with
the same fields, so that one is never a part of another. A model that makes up a
proposal or a report may nest values in it, and `find_execution` passes over nested
values (`Wanted`): what it then confirms is what it looks at, and `ClosedAsApproved`
claims no more. A proposal without any field is to it as one of nested values only,
which stands for both. `texts` is
a set, so "the first match" of `find_execution` is any match. The notes, summaries
and timestamps of a row decide nothing. Ids that `new_proposal_id` mints are fresh:
48 random bits are taken not to repeat. Callers decide ids they were told, whose
rows are therefore in, or ids that never exist. A session is not modelled: a turn
that ADK refuses because its session is stale is an `Abort`. The status `failed`
is handled (`Closed`) and never reached, because the only caller of
`record_execution` passes `succeeded=True`; the invariant proves it (`RowsAreWhole`).

`ApprovalLifecycle` has four actions, on the columns and the publications only:
`Propose`, `Decide` (once, while pending), `Perform` (only when approved, in the
name of the decider) and `Close` (only when performed). It promises an effect at
least once: exactly once does not hold of the code (`RacePublishesTwice`).

### ArtifactStore

A client is a thread of `asyncio.to_thread` of any pod. A step is one storage
call: list, write an object, open a local file (which empties it), fill it, check,
read, unlink.

| Variable | In the code |
| --- | --- |
| `backend` | whether the base path is in the cloud or local (`_is_cloud`) |
| `files` | the version directory of one artifact: from version numbers to saves |
| `refers` | the version that an `artifact://` payload names |
| `pc`, `op`, `payload`, `version`, `file`, `listed`, `visited`, `answer` | the operation of each client: the save it performs, the version it chose or found, the file it is at, what it has listed and read |
| `holding`, `started`, `acked` | open local files; saves begun; saves whose caller knows the version |
| `before`, `disturbed`, `unlinked` | histories for the properties: what was acknowledged and stored when an operation began, whether a version was unlinked while it ran, whether one ever was |

| Action | In the code |
| --- | --- |
| `BeginSave`, `ListForSave`, `RejectPart`, `WriteObject`, `OpenFile`, `FillFile`, `ReturnVersion` | `_save_artifact`; a part is rejected after the listing and before anything is written |
| `ListForLoad`, `NothingListed`, `FileExists`, `FileMissing`, `ReadFails`, `ReadEnvelope` | `_load_artifact` and `_get_artifact_version`, which take the same steps |
| `FollowReference`, `RecursionError` | `_part_from_envelope` loads what a reference names, as deep as the interpreter allows |
| `ListAll`, `PassOver`, `Take`, `Unlink`, `UnlinkTooLate`, `ReadMetadata`, `FindKey`, `Finish` | the loops of `_delete_artifact`, `_list_artifact_versions` and `_list_artifact_keys` |
| `Crash` | the pod dies, anywhere, with half a local file left behind |

A reference is to a version that its caller was told of, in the same artifact:
artifacts meet only through references, and a chain through several is not
modelled. A load that comes to a version it has read already may go round until
the stack ends, or find the version changed. That it gives up on a very long chain
even where there is no loop is left out. A listing of the directory is one step
(it is all of `_list_versions`): `exists()` and `iterdir()` see the same directory
unless it is created in between, when the artifact was empty; that a local
`iterdir()` may miss an entry that is being added or removed while it runs is left
out. So are the bytes and custom metadata.

### ReplyTexts and LocalFlow

Without a database each pod keeps its cases in a dictionary (`InMemoryCaseStore`),
whose methods never suspend. `LocalFlow` is the approval flow over it, in larger
steps than `ApprovalCases` and with the texts spelled out. The properties of
`ApprovalCases` take for granted that what a specialist's tool returned can be
found in the texts; here it has to be.

| Variable | In the code |
| --- | --- |
| `store` | `_cases` of each pod; a restart empties it |
| `publications` | the entries of `PUBLICATIONS` that carried out a case |
| `pc`, `pod`, `target`, `asks`, `texts`, `answer` | a handler, the pod it is on, its case, its turn |
| `work` | the specialist's turn: the request, what `calculate` returned, the events of its session |
| `life`, `origin`, `raised`, `performed` | histories for the properties |

| Action | In the code |
| --- | --- |
| `AskSpecialist`, `Publish`, `SpecialistAnswers` | `PeerTool.run_async`; the model calls `calculate` first, as it is instructed, then `publish_result` any number of times (`MaxTools`); `restate_structured_results` ends the turn |
| `ReplyLost`, `TurnRaises`, `Restart` | the ways a request ends without an answer |
| `RunTurn`, `FinishRun` | `cases_run`, before and after its one `await` |
| `Decide`, `NotFound`, `FinishExecution` | `case_decide`, before and after its one `await` |

A JSON value is a node (an object of a tool, a wrapper, a list, a string), and a
string is the sequence of its pieces: prose, a brace that no JSON follows, and the
objects written in it. A result of a tool call is at most a wrapper of a list of
texts, so that the recursion of `_unpack` is two levels of `Unpack`. `Unpack`,
`JsonObjectsIn`, `FindProposals`, `FindExecutions`, `AuditedResults` and
`RestateStructuredResults` are the functions of the same names on these. A number
is a count of halves, written as an integer, a decimal or with an exponent;
`Float` rounds to `Precision` significant bits, ties to even, so that four bits
stand for the 53 of a double and small numbers reach their limit. An expression is
its outcome, or the exception it raises; `OverflowError` is not among those that
`calculate` catches, and ends the specialist's turn.

A case is found again by the object, not by a copy: `Held(h)` is whatever the
store of the handler's pod holds by then. `life` is the last that a pod knew of
each case, which is what the refinement is about: `FollowsLifecycle` says that
every single case follows `ApprovalLifecycle`.

`FlowAssumption`: the unknown id is none of the minted ones, a name that the gate
takes for blank is not among the deciders (what happens otherwise is
`BlankApprover`), an exception is not called "number", and the ways to narrate and
to deliver are those that the model has.

### AgentPod and what it composes

`PodConfig` and `ModelSelection` are operators. An environment is a record with a
field for each variable, whose values are `Unset`, empty, blank, odd (`Loud`: other
letters, spaces around it) or valid. `SelectLatestModel`, `ParsePeers`,
`ServiceDnsUrl`, `NormalizeRpcPath`, `DatabaseMisconfigured`, `SessionService`,
`TaskStore` and their neighbours are the functions of the same names, and the result
of a conversion is what the code makes of it: a port that is not a number falls back,
`A2A_RPC_PATH=/` is the path `/`, a storage URI with a scheme nobody knows is a
directory. A model id is what `_classify_model` parses it into, and whether a later
token makes it a specialised variant, which it does not parse. What these functions
should return is said without them: `Latest` by the order and the general-purpose
models that the docstrings describe (`Beats`, `TextModel`), `PeersAsConfigured` by
where a name is first and last mentioned in `A2A_PEERS` (`FirstMention`,
`LastMention`) and by the mount point (`NamesMountPoint`).

| Variable | In the code |
| --- | --- |
| `env`, `phase`, `models`, `tools`, `session`, `task`, `cases`, `web` | the environment; how far `agent.py` and `fast_api_app.py` are; what they have built |
| `engine`, `connector`, `lock` | `_engine`, `_connector`, `_lock` of `Database` |
| `at`, `got` | where each caller is in `engine()`, and what it was returned |
| `builds`, `pools`, `links` | the builds begun, numbered; the pools and connectors that are alive |
| `closer`, `condemned` | where `aclose()` is, and what it awaits |
| `cache`, `newest`, `reading` | `Secrets._cache`, Secret Manager's versions, the calls of `get` |
| `orphans`, `straggled`, `asked`, `disturbed`, `fetches` | histories for the properties |

`DatabaseEngine` has one action for each stretch between two accesses to a field
that other threads see: `Call` and `FastReturn` (the two reads of the fast path),
`Acquire`, `LookAgain` (the double check), `MakeConnector`, `CreateEngine`,
`BuildRaises` (the `with` block releases), `Leave`; and `BeginClose`,
`PoolDisposed`, `BeginCloseConnector`, `ConnectorClosed`, which take no lock.
`SecretsCache` has `Ask` (the look at the cache), `Respond`, `FetchFails`, `Store`
and `Return` (the second look). `AgentPod` runs `ConfigureLogging` to `BuildAgent` in
the order of `agent.py`; the main thread goes through `engine()` itself when a
service needs it. `RegisterSurfaces` reads the environment again, after
`load_dotenv` has added to it (`Late`). Any of them may end the process (`Fail`).

Some services are built by code that is not in this repository, which may refuse
what it is given: the `vertex_ai` services without `AGENT_ENGINE_ID`, ADK's database
service with a DSN it cannot use, a bucket whose client cannot be made
(`MayRaise`). For these, starting and ending are both possible; `az://` always ends
the process, since no Azure SDK is installed. `env.google` says whether Google's
endpoints can be reached with credentials: the catalog is listed when a tier is not
pinned, and `fast_api_app.py` always asks for credentials and a logging client; a
model client may fail as well without them.

No agent reads a secret today: the pods whose environment says `secrets` are
processes whose injector installs `SecretModule`, which that of `agent.py` does not.

Once the pod serves, requests (`UseDatabase`, `UseSecrets`) run on any thread until
`Stop`, and may go on while it closes its database. A request that asks for an engine nobody configured (`UseNoDatabase`) is left out
of the pods whose secrets are read, to keep the two apart in the state graph.

### SchemaMigrations

A runner is the pod of a migration Job or an operator's shell. A run of Alembic is
one transaction on one agent's schema: it reads what is committed (`FindSchema`),
or creates the schema (`CreateSchema`), applies one revision at a time up or down
(`RunRevision`), and commits at its target. It waits for another transaction that
has written to the same schema, and raises when that one commits under it
(`Stale`) or when an object it creates is there (`Applies`). A pod that raises or
is killed loses its transaction, and the Job starts another one from the top, up
to `backoffLimit`. `GrantReaders` is `grant_readers.py`.

| Variable | In the code |
| --- | --- |
| `database`, `objects`, `version`, `acl` | `pg_database`; each schema's tables, indexes, triggers and functions; its `alembic_version`; its privileges, default privileges included |
| `pc`, `position`, `txn`, `failures` | `bootstrap.py`, the loop of `migrate-job.yaml`, the open transaction, the pods that failed |
| `atRest`, `crashes`, `manual` | a history for a property; bounds |

`Creates`, `Drops`, `Restores` and `Removes` are the statements of `upgrade()` and
`downgrade()` of the five revisions; `Grants` is revision 3. Columns, types and
constraints are left out, and so is the offline mode, which prints SQL. The loop is
over any agents, each once.

## 3. Runs

| Run | Instance | Shows |
| --- | --- | --- |
| `GatedFlow` | 2 handlers, 2 cases, 2 payloads, a name and a name of spaces, obedient models, everything may fail | `IInv` (`TypeOK` is its first part), `AnswersStayTrue`, `OnlyApprovedIsPublished`, `ExecutedWasPublished`, `DecisionIsFinal`, `TurnsAreRecorded`, `ClosedStaysQuiet`, and `ApprovalLifecycle` is implemented |
| `UnrulyModels` | 2 handlers, 1 case, models that send and write anything: a payload of plain values, one with something nested besides, one of nested values only | `DriveIsApproved`, `ClosedAsApproved`, `TerminalIsFinal` |
| `Redrive` | 2 handlers, 1 case, fairness, an anonymous decider among them | `ApprovedIsExecuted` |
| `ArtifactVersions` | 2 clients, 3 saves, one of which may store a reference, both backends, all operations | `IInv` (`TypeOK` is its first part), `LoadsAreFresh`, `FailuresHaveCause`, `DeletedIsGone`, `SavedIsKept` |
| `LocalFlow` | 2 pods, 2 requests, 2 cases, a restart, numbers of 4 bits one of which is rounded | `TypeOK`, `FollowsLifecycle`, `ProposalsBecomeCases`, `SameNumberConfirms`, `ApprovedIsPublished` |
| `AgentPods` | some 470 environments; 2 threads, 1 failed build; 2 readers, 2 rotations | `ServesIffConfigured`, `LatestModels`, `PeersAsConfigured`, `SchemaPerAgent`, `StoresShareEngine`, `SurfacesShare`, `OnePool`, `ReturnsAnEngine`, `ConnectorsAccounted`, `RefreshIsFresh`, `FetchedOnce`, `EveryCallReturns` |
| `Migrations` | 2 agents, 2 Jobs and an operator, 1 killed pod, 1 run by hand, all revisions | `TypeOK`, `SchemaMatchesVersion`, `ReadersCovered`, `DoneMeansLatest`, `CoverageIsKept`, `AllMigrated` |
| `RacePublishesTwice` | 2 handlers, nothing fails | violates `PublishedAtMostOnce` |
| `ReReport` | 1 handler, 2 cases, nothing fails | violates `ReportedOnceOpenedOnce` |
| `BlankApprover` | 1 handler, 1 case, fairness, nothing fails, a decider named by spaces | violates `ApprovedIsExecuted` |
| `LostSave` | 2 clients, 2 saves, cloud, no deletes | violates `AcknowledgedIsStored` |
| `TornRead` | 2 clients, 2 saves, local, no deletes | violates `WritesAreAtomic` |

Bounds, and why they are enough. Every hazard of the approval flow is between two
requests (they meet only in the table), about one case or between two, and about
telling one payload from another: two of each. `MaxTexts` bounds the different
results in one turn's texts; two are enough for a wrong one next to a right one.
`MaxPerformed` is where the counter `performed` stops; a second publication is all
that is asked about. `ProposalIds` bounds the rows; a turn that finds no id left
aborts (`IdsExhausted`), which the proofs do not need. The artifact races are of two
operations; three saves make a version that is overwritten, deleted and written
again; one save that may store a reference (`MayRefer`), the second to begin, is
enough to lead back to itself; and one client reads at a time (`MaxReads`), since
operations that only read do not disturb each other. In `LocalFlow` a case is known
to one pod and unknown to the other, and two requests share one; three numbers are an
integer, a fraction, and one that a double cannot tell from a fourth; two requests of
a turn to the specialist and two publications per request make repeated and different
results. Its texts are the hard ones: replies are wrapped in a list ("listed"), a
model writes a stray brace or quotes what it was shown; the other ways are left to
the proof. `AgentPods` varies together the settings that are read together
(`MCAgentPod`) instead of all with all; a second thread is enough to wait behind a
build or to pass `aclose`, one failed build to leave a connector behind, and two
rotations to tell "newer" from "newest". Its environments have each documented
mistake, each service that may refuse, and catalogs with a variant of each kind.
`Migrations` has every pair that can meet: Job with Job, Job with operator, and a pod
that dies with either. Its operator goes to revision 3 (`ManualTargets`), the one
that grants: up from below it or down from the latest. The proof is for all targets.

In the approval and artifact runs with a database, requests end and others
begin, so that deadlock is checked; so it is in `Migrations`, where readers can
always be granted again. Two runs may really stop: a pod of `AgentPods` that
failed or has stopped does nothing more, and `LocalFlow` runs out of the ids its
bound allows. Symmetry is used in safety runs only.

Disagreements between code and documentation (the `violation` runs):

- `RacePublishesTwice`: "a retry cannot publish twice" (docs/human-in-the-loop.md,
  `case_decide`). Until the first drive of a case has recorded its confirmation,
  a second call drives it too. What does hold is `ClosedStaysQuiet`: after the
  case is closed and no drive is left over, nothing publishes it again.
- `ReReport`: "re-reporting a proposal is harmless" (`CaseStore.open`). Each
  report gets an id of its own, so a second case is opened.
- `BlankApprover`: "re-drivable". `Credit` replaces only the empty name; a name of
  spaces reaches the gate, which strips it, and the decision is final.
- `LostSave`: a save returns the number of a version it has persisted. Two saves
  may return the same number, and one of them is gone.
- `TornRead`: "every write is atomic". Not on a local path.

Others that came up, and that no run is about:

- `engine()` overlapping `aclose` may return `None` although its signature says
  otherwise, or leave a connector that nobody closes (`cluster/db.py`);
  `ConnectorsAccounted` and `ReturnsAnEngine` exclude exactly that.
- The loser of two bootstrap Jobs raises `DuplicateDatabaseError`, which nothing
  catches (`cluster/bootstrap.py`); its Job repairs it by starting again.
- "The agents to migrate. Must match [...] the registry in app/agents/__init__.py"
  (`infra/kustomize/base/migrate-job.yaml`): `MIGRATE_AGENTS` leaves out the planner,
  whose schema the Job therefore never makes.
- Revision 3, run without `DB_AGENT_ROLE`, is passed over without its grants and
  never redone; `CoverageIsKept` is about roles that are covered.
- A reader granted next to a migration that has not committed misses its tables
  (`scripts/grant_readers.py`): `ReadersCovered` asks that none was under way.
- `A2A_RPC_PATH` moves only the callers; the app is mounted at `/a2a/app`
  (docs/environment-variables.md says "where the serving layer mounts").
- "A result counts as confirmation only if the values it reports are the ones that
  were approved" (`find_execution`): it compares strings, numbers and booleans.
  Values nested in a proposal are passed over, and a proposal that has only such
  values, or none, is confirmed by any object that says `published`. The specialist
  makes no such proposal; a model that writes one can. `ClosedAsApproved` is what
  holds.
- "Specialized variants (`-tts`, `-image`, `-embedding`, `-live-...`, etc.) [...]
  return None" (`_classify_model`): only the first token after the family is looked
  at, so that `gemini-2.5-flash-preview-tts` is kept as a preview of `flash`, and is
  the latest one if its version is. `LatestModels` leaves these (`Disguised`) open:
  no general-purpose model beats what was chosen, and only they may be chosen
  instead of one.
- docs/environment-variables.md, which marks a bad value R (raises at startup) or L
  (fails on first use): an unknown `AGENT_NAME` is marked L and raises at startup
  (`agent.py`); so does `ARTIFACT_STORAGE_URI`, also L, if it is `az://`, as the same
  document says further down, or if no client can be made. `AGENT_ENGINE_ID` is
  marked "R / L", and which of the two is up to ADK: the code here passes `None` on.
- An empty `SESSION_BACKEND`, `MEMORY_BACKEND` or `TASK_STORE_BACKEND` raises, and
  an empty `DB_BACKEND` is none; a blank `A2A_PEERS` means no peers, an empty one
  the default; a blank `LOG_LEVEL` raises, an empty one does not, and the levels
  that only loguru has (`TRACE`, `SUCCESS`) raise as well.
- `load_dotenv` runs after the services are built: a database that only the
  `.env` file names decides which service the web routes get, and none of the
  services uses it.
- The memory service is built and never given to the Runner, and the in-memory
  session service of the web routes is another instance than the Runner's.
- "A genuinely different number still fails it" (`canonical_value`): not beyond
  what a double can tell apart; `ApprovedIsPublished` is about exact numbers.
- `calculate` lets `OverflowError` out, and such a turn is not restated.
- Proposals of an execution turn are opened by nobody.
- A save that refers to a stored version may, when the artifact is deleted while it
  runs, be given the number it refers to; loading it raises `RecursionError`
  (`shared/artifacts.py`). Without deletes this cannot happen (`FailuresHaveCause`).
- Secrets under threads are fetched more than once, and an older value may be
  stored after a newer one; `FetchedOnce` and `RefreshIsFresh` are about calls
  that do not overlap.
- The numbers of a preview's date are compared as they are written, month first.

Every property of the passing runs is also run against a mistake in the code's
logic: operators commented `MUTANT` replace the one that follows them, and the
property must then fail. `PROJECT.json` has the list.

## 4. Fairness

`FairSpec` of `ApprovalCases` is used by `Redrive` and `BlankApprover` only. A
handler that can go on does (weak fairness): the event loop runs coroutines that
are ready, turns end, and a call in flight is answered or lost. For an approved
case, strong fairness says what the documentation asks of the world,
"re-drivable: call the endpoint again": callers keep calling, and among the tries
there are, again and again, some where the model sends the request it was told
to, the reply arrives, and the handler lives to record it. Nothing is assumed
about any one try. No fairness is given to conversations, rejections, or requests
for other cases.

`AgentPods`: a thread inside `engine()` keeps running, and the event loop goes on
with `aclose` (`EngineFairness`, weak). Under it `EveryCallReturns`: nobody waits
for the lock forever, whichever builds raise. Nobody has to call, and the pod
need not stop.

`Migrations`: the pods of a Job run, and a run of Alembic goes on unless it waits
(weak). Nobody has to be killed, to run anything by hand, or to grant anything.
`AllMigrated` follows because every wait is for a transaction that ends, and the
losers of a race are fewer than `backoffLimit` allows; after a run by hand it
promises nothing, as an operator may have gone back to a lower revision.

## 5. Proofs

`ApprovalCasesProofs` assumes `ConstantsAssumption` (ids, names and payloads are
distinct where the code can tell them apart; of what `publish_result` makes, no
payload is part of another; payloads with nested values are there only where models
make things up; bounds are positive) and nothing of the size of any set. No
model-checking result is used.

The properties are not inductive by themselves. `DriveIsApproved`, for one, needs
that a handler which missed the `UPDATE` will read a decided row (`ReadsDecided`),
which needs that decided rows stay decided. The invariant is:

- `SafetyInv`, whatever the models do. Rows: whole, never `failed`, closed only with
  a result that matches in what is compared. Handlers: a request has no answer while
  it is served, names an existing case where it speaks of one, drives an approved
  one, and has opened its cases apart.
- `ObedientInv`, for obedient models: a request in flight that opens the gate was
  told by an approved case; a confirmation in a turn's texts is of a publication;
  publications are of approved cases; results of closed cases are publications.
- `IInv`: the first, and the second where models are obedient. `GatedFlow` checks it.

The argument is by non-interference. `RowSteps`: whatever happens, a row is left
alone, opened, decided while pending, or closed as approved. What the invariant
says of a handler is about its own variables and the row of its case (`Sound`), so
`OthersStaySound` deals with all steps of the other handlers at once, and
`HandlersPreserved` goes through the actions only for the handler that acts.
`DecisionsAreFinal` and `TerminalsAreFinal` follow from `RowSteps` directly: what
keeps `record_execution`, which has no condition on the status, from closing a
rejected case is that every handler that gets there is `Sound`. The refinement
needs `ObedientInv`: `Close` requires that the effect happened, which is what the
confirmation in the texts stands for. What was published and what was approved are
the same there because both are plain values (`ScalarsTellApart`).

| Theorem | States |
| --- | --- |
| `SafetyHolds`, `Inductive` | `[]SafetyInv`, `[]IInv` |
| `TypeCorrect`, `DrivesAreApproved`, `AnswersHold`, `ClosingMatches` | the invariants, whatever the models do |
| `DecisionsAreFinal`, `TerminalsAreFinal`, `RunsRecordTheirTurns`, `ClosedCasesStayQuiet` | the action properties, whatever the models do |
| `NothingElseIsPublished`, `ExecutionsHappened` | the invariants that need obedient models |
| `Refinement` | `ApprovalLifecycle` is implemented, with obedient models |

`AgentPodProofs` assumes `PodAssumption` (the main thread is a caller; an environment
has a value for each setting and says whether there is Google; its catalog, its list
of peers and its card path are sequences, of any length), `EngineAssumption` and
`SecretsAssumption`. Its argument is compositional: what is proved of the holder and
of the secrets is proved for arbitrary callers, and `PodImplements` shows that a pod
is one of them.

- `EngineInv`. `OnePool` needs that whoever builds found no engine, which needs
  that it holds the lock (`LockHeld`, `BuildsAlone`), and that the pools are the
  field (`PoolIsEngine`), also while `aclose` is between its two awaits
  (`CondemnsEngine`). `ReturnsAnEngine` needs that the second read of the fast
  path follows a first one that saw an engine (`SeesEngine`).
- `LinkInv`, about the connectors while no call overlaps `aclose`: nobody is
  inside `engine()` from then on, a stored connector is replaced only when it is
  an orphan, and `aclose` closes the one that is stored.
- `SecretsInv`: what an undisturbed reader asked for is fetched by nobody else,
  so that what it stored is what it answers; a fetched name is cached or on its
  way there.
- `WiringInv`: what the main thread was returned is the holder's engine until
  `aclose` begins, and so is what the stores keep.
- `ConfigInv`: how far the pod got says which checks its configuration passed.

| Theorem | States |
| --- | --- |
| `HolderHolds`, `SecretsHold` | the invariants above, for arbitrary callers |
| `PodImplements` | a pod implements `EngineSpec` and `SecretsSpec` |
| `PodOpensOnePool`, `PodReturnsAnEngine`, `PodConnectorsAccounted` | the engine's properties, for any number of threads and failures |
| `PodRefreshIsFresh`, `PodFetchedOnce` | those of the secrets |
| `PodStoresShareEngine` | session and task store hold the holder's engine |
| `PodServesConfigured`, `PodSurfacesShare`, `PodSchemaPerAgent` | what holds of the configuration of a pod that serves, for every environment |
| `PodServesIffConfigured` | a pod that serves has none of the documented mistakes and a model for each tier; one that failed to start had a mistake in its environment or its `.env` file, a service that may refuse, no model, nobody to ask at Google, or a build that raised |
| `PodLatestModels` | it uses models that no general-purpose one of its catalog beats |
| `PodPeersAsConfigured` | each of its peers is there once, where it is |

What a pod computes at its start is a loop over a sequence: the catalog of models,
the items of `A2A_PEERS`. `PodConfigProofs` has the invariant of each loop. The best
model so far is a candidate that none before it beats (`SelectsLatest`; a candidate
is a general-purpose model or one in disguise, `CandidateKinds`); the order
is transitive and irreflexive, which the keys of the code are shown to be
(`HigherIsLater`, `BeatsIsLater`). The peers so far are the names so far, each once,
in the order they are first mentioned and with the address last given
(`ParsesPeers`). A loop is a recursive function on the length of what was read, and
`Recursion` of `SequenceLemmas` gives its equations. Induction is over numbers: the
set of the lengths at which the loop's invariant holds is all of them, by
well-founded induction, so that no theorem with an operator for a parameter is
needed.

`LocalFlowProofs` assumes `ReplyAssumption` and `FlowAssumption`, and nothing of how
many pods, requests, cases, numbers or restarts there are, or of how long texts get.

- Texts (`ReplyTextsProofs`). `RestatedReply`: whatever the specialist's model says
  before or after, short of writing a result itself (its narrations do not), the
  reply that leaves carries exactly the audited results that its tools returned.
  `ReplyIsRead`, `WordsAreRead`: what is found in a reply, however it is delivered,
  and in a model's own words is what was written there. `ProposalsFound`,
  `ExecutionsFound`: the proposals are found once each, and exactly the confirmations
  that match are. These too are loop invariants: `PickedItems` and `DistinctItems`
  say which items of a sequence are picked, and that none is twice.
- Numbers (`PublishedAlike`, `SameOutcome`): whichever spelling of its result the
  specialist publishes, `canonical_value` makes one value of it. Hence a request
  has one `Outcome`, requests for the same number the same one, and other numbers
  another one, if a double can tell them apart.
- `OnePodKnows`: a case is known to one pod, and to it as it last was (`life`). This
  is what makes a dictionary per pod safe: a decision is never taken on an old copy.
- `InPlace`, `Serves`, `Reports`: a handler that carries a case out holds an approved
  one; the request it made names its decider, or nobody, and what came of it is on
  record; and the results in a turn's texts are exactly those of `raised` and
  `performed`. `Origins`: a case is what the requests that raised it come to.

`IInv` is these and the types. TLC checked it on the instance of the run before it
was proved. One lemma per action shows that it is preserved; `StillServes` and
`OtherTurns` deal with the other handlers. A restart takes a case away from the pod
that knew it and leaves `life`, the publications and the specialist's turn, so that
`Serves` goes on to hold of a request whose caller has died. The action properties
follow by looking at the two actions that end a request. For the refinement, a
step is seen through one case at a time: it opens the case, decides it, performs it
or closes it, or the case looks the same (`Looks`, `SameEffects`).

| Theorem | States |
| --- | --- |
| `Inductive`, `Typed` | `[]IInv`, and the type invariant |
| `EveryProposalIsACase` | the proposals of a turn are the cases it opens (`ProposalsBecomeCases`) |
| `SpelledAnyWay`, `OnlyTheSameConfirms` | the same request confirms a case, and nothing else does (`SameNumberConfirms`, `ApprovedIsPublished`) |
| `FlowFollowsLifecycle` | every single case follows `ApprovalLifecycle` |

`ArtifactStoreProofs` assumes `StoreAssumption` (saves are not marks of half
written files, versions are numbers), and nothing of how many clients, saves or
references there are.

- What a step does to the others (`Locality`, `StepsHaveEffects`): it writes only
  a payload that nobody has acknowledged, and removes a version only by disturbing
  everybody. Hence what was acknowledged before an operation can only get less
  while it runs (`OldOnlyShrinks`), and the other clients are dealt with at once.
- `Ahead`: a save that has chosen its number has it above all that was
  acknowledged before; a load has a latest version that is at least as late; a
  delete or a listing has the rest still in front of it. `SavedIsKept`,
  `LoadsAreFresh` and `DeletedIsGone` are what this says at the end.
- `Undisturbed`, `CloudIsWhole`: what was seen is there, and whole.
- `ReferencesLeadDown`: until something is deleted, a reference is to a stored
  version with a lower number than its own, so that a load that follows them goes
  down and ends.
- `Bounded`: the directory has a last version, for `Max`. From it `MaxIsLast` finds
  the maximum as the least bound (well-founded induction).

| Theorem | States |
| --- | --- |
| `StoreInvariant` | `[]IInv` |
| `SavesAreKept`, `LoadsStayFresh`, `DeletesAreFinal`, `CausesHold` | the properties of `ArtifactVersions` |

`SchemaMigrationsProofs` assumes `MigrationsAssumption` (the loop names each agent
once, Jobs are not operators, agents not readers), and nothing of how many runners
or failures there are. The five revisions are those of the code.

- Revisions (`UpgradeBuilds`, `DowngradeUndoes`, `MadeAnew`): a revision creates
  nothing that was there, drops only what is, and its downgrade undoes it. With
  `RunsBuild`, that an open transaction has built what its version says, they give
  `SchemaMatchesVersion`, at each commit.
- `Isolated`, `OneWay`: the committed schema is still the one that a run which has
  written saw; no two have written to the same one; and a run moves from the
  version it saw towards its target, so that it never makes again what it dropped.
  Without them, a run could commit privileges over somebody else's.
- `DefaultsFollowed`: on a schema that has not changed under it, a run has given a
  role it leaves alone exactly what the defaults say of the tables it has made. It
  leaves alone the readers at rest, and its agent from revision 3 on. With
  `ReadersOnlyRead`, a covered role is covered after the commit.
- `JobsAlone`: with no run by hand, a schema is untouched and its agent holds
  nothing, or it is at the latest revision and its agent is covered; and so are
  those that a Job's loop has passed.

| Theorem | States |
| --- | --- |
| `MigrationTypes`, `SchemasMatchVersions` | `TypeOK` and `SchemaMatchesVersion` of `Migrations` |
| `ReadersStayCovered`, `CoverageStaysKept` | `ReadersCovered`, `CoverageIsKept` |
| `JobsTellTheTruth` | `DoneMeansLatest` |

Only model-checked: the liveness properties `ApprovedIsExecuted`,
`EveryCallReturns` and `AllMigrated` (liveness and ENABLED are out of reach of the
prover), and the runs that show a violation.

## 6. Not modelled

- Proposals that a turn of `case_decide` raises: the code does not look for them.
- What is left of a `cases_run` that fails between two `open`s: rows that were
  opened stay, in the model as well, and no promise is made about the rest.
- The bytes and custom metadata of artifacts, and how paths are made of names.
- The connection pool: connections are held and released by ADK, the A2A SDK and
  SQLAlchemy, at moments the code here does not show.
- The choice of an embedding model, which no agent uses; building model clients,
  other than that it may fail.
- GET routes, feedback, telemetry, log sinks, documents, infrastructure, evaluation:
  no effect on the state above.
- ADK, the A2A SDK, SQLAlchemy, Alembic, PostgreSQL and cloudpathlib: as their
  callers see them.
- Agents and prompts, other than what they ask of the models.

## 7. Plan

What is left, in this order:

1. Cases of `ApprovalCases` whose texts are those of `ReplyTexts`: now that what is
   found in a text is proved, `call` and `texts` could be refined by them.
2. The connection pool, if what ADK and the SDK hold across a turn can be read off
   their sources.
