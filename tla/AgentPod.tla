------------------------------ MODULE AgentPod ------------------------------
(***************************************************************************)
(* The life of one agent's process: app/agent.py resolves the services one *)
(* after the other from the injector (app/cluster/di.py), app/fast_api_app *)
(* registers the web surfaces and serves, and the lifespan ends by closing *)
(* the database. It composes the configuration (PodConfig) and the engine  *)
(* holder (DatabaseEngine).                                                *)
(*                                                                         *)
(* The secrets (SecretsCache) are a service of app/shared that stands      *)
(* beside: the injector of app/agent.py does not install SecretModule, and *)
(* where env.secrets holds the process is one whose injector does.         *)
(*                                                                         *)
(* The services are built by the main thread, which is one of the Callers  *)
(* of engine(); once the pod serves, all of them make calls. A service is  *)
(* known by the kind of store behind it, and by its engine if it has one.  *)
(***************************************************************************)
EXTENDS PodConfig, DatabaseEngine, SecretsCache

CONSTANTS
  Main,            \* the thread that imports app.agent and runs the event loop
  Environments     \* the environments a pod may be started with

(* An environment has a value for each setting, if only Unset; what is listed
   in it is a sequence. It also says what the process finds outside: a .env
   file, and Google's endpoints with the credentials to use them, or not. *)
ASSUME PodAssumption ==
  /\ Main \in Callers
  /\ \A e \in Environments :
       /\ {"agent_name", "db_backend", "db_url", "db_schema", "artifact_uri"} \subseteq DOMAIN e
       /\ e.google \in BOOLEAN
       /\ e.catalog \in Seq(ModelIds)
       /\ e.peers.given => e.peers.items \in Seq([name : STRING, url : STRING])
       /\ e.rpc_path \in Seq(STRING)

VARIABLES
  env,             \* the environment of the process
  phase,           \* what is being built, or what the pod does
  models,          \* the model id of each tier
  tools,           \* the peers, as tools
  session,         \* what the session service stores in, and the engine it holds
  task,            \* the same of the A2A task store
  cases,           \* what the case store stores in
  web              \* do the web routes have the injector's services?

podVars == <<env, phase, models, tools, session, task, cases, web>>
vars == <<podVars, engineVars, secretsVars>>

Wiring == {"logging", "models", "resolver", "session", "memory", "artifacts", "tasks",
           "cases", "agent", "web"}

NoService == [kind |-> "none", engine |-> None]

Init ==
  /\ env \in Environments
  /\ EngineInit
  /\ backend = IF DatabaseMisconfigured(env) THEN "none" ELSE DatabaseBackend(env)
  /\ SecretsInit
  /\ project = env.project
  /\ phase = "logging"
  /\ models = [t \in Tiers |-> NoModel]
  /\ tools = <<>>
  /\ session = NoService /\ task = NoService
  /\ cases = "none"
  /\ web = [session |-> FALSE, artifact |-> FALSE]

-----------------------------------------------------------------------------
(* app/agent.py, from top to bottom                                        *)

Building(this, next) == phase = this /\ phase' = next

(* An exception at import time: the process ends. *)
Fail(this) ==
  /\ Building(this, "failed")
  /\ UNCHANGED <<env, models, tools, session, task, cases, web, engineVars, secretsVars>>

(* configure_observability() *)
ConfigureLogging ==
  \/ /\ LogLevel(env) \in LogLevels
     /\ Building("logging", "models")
     /\ UNCHANGED <<env, models, tools, session, task, cases, web, engineVars, secretsVars>>
  \/ /\ LogLevel(env) \notin LogLevels
     /\ Fail("logging")

(* injector.get(Models): every tier is pinned, or found in the catalog, which
   has to be listed then. The client is made in any case, and may raise. *)
ResolveModels ==
  LET found == [t \in Tiers |-> ResolveModelId(env, t)] IN
  \/ /\ env.google \/ \A t \in Tiers : env.pins[t] # NoModel
     /\ \A t \in Tiers : found[t] # NoModel
     /\ Building("models", "resolver")
     /\ models' = found
     /\ UNCHANGED <<env, tools, session, task, cases, web, engineVars, secretsVars>>
  \/ /\ ~env.google \/ \E t \in Tiers : found[t] = NoModel
     /\ Fail("models")

ResolvePeers ==
  /\ Building("resolver", "session")
  /\ tools' = ResolveAll(ClusterConfig(env))
  /\ UNCHANGED <<env, models, session, task, cases, web, engineVars, secretsVars>>

(* A store on the shared engine asks the holder for it: the main thread goes
   into engine(), comes back with an engine or an exception, and goes on. *)
AskEngine(this, kind) ==
  /\ phase = this
  /\ kind = "engine"
  /\ at[Main] = "idle"
  /\ Call(Main)
  /\ UNCHANGED <<podVars, secretsVars>>

HasEngine == at[Main] = "returned"

EngineDenied == at[Main] = "raised"

(* The first service to need the database also reads its configuration. *)
BuildSession ==
  LET kind == SessionService(env) IN
  \/ /\ DatabaseMisconfigured(env) \/ kind = Misfit \/ MayRaise(kind, env)
     /\ Fail("session")
  \/ /\ ~DatabaseMisconfigured(env)
     /\ AskEngine("session", kind)
  \/ /\ ~DatabaseMisconfigured(env)
     /\ kind \notin {Misfit, "engine"} \/ (kind = "engine" /\ HasEngine)
     /\ Building("session", "memory")
     /\ session' = [kind |-> kind, engine |-> IF HasEngine THEN got[Main] ELSE None]
     /\ Rest(Main)
     /\ UNCHANGED <<env, models, tools, task, cases, web, secretsVars>>
  \/ /\ EngineDenied
     /\ Fail("session")

(* Nothing ever asks for the memory service again. *)
BuildMemory ==
  \/ /\ MemoryService(env) # Misfit
     /\ Building("memory", "artifacts")
     /\ UNCHANGED <<env, models, tools, session, task, cases, web, engineVars, secretsVars>>
  \/ /\ MemoryService(env) = Misfit \/ MayRaise(MemoryService(env), env)
     /\ Fail("memory")

(* The constructor makes a path of the URI, and with it a client. *)
BuildArtifacts ==
  \/ /\ ArtifactService(env) # Misfit
     /\ Building("artifacts", "tasks")
     /\ UNCHANGED <<env, models, tools, session, task, cases, web, engineVars, secretsVars>>
  \/ /\ ArtifactService(env) = Misfit \/ MayRaise(ArtifactService(env), env)
     /\ Fail("artifacts")

(* MUTANT: provide_database is not a singleton, so the task store's holder is
   a new one and makes an engine of its own. *)
BuildTasksApart ==
  LET kind == TaskStore(env) IN
  \/ /\ kind = Misfit
     /\ Fail("tasks")
  \/ /\ kind # Misfit
     /\ Building("tasks", "cases")
     /\ task' = [kind |-> kind, engine |-> IF kind = "engine" THEN builds + 1 ELSE None]
     /\ builds' = IF kind = "engine" THEN builds + 1 ELSE builds
     /\ UNCHANGED <<env, models, tools, session, cases, web, secretsVars, config, fields,
                    lock, at, got, failures, pools, links, closing, history>>

BuildTasks ==
  LET kind == TaskStore(env) IN
  \/ /\ kind = Misfit
     /\ Fail("tasks")
  \/ AskEngine("tasks", kind)
  \/ /\ kind \notin {Misfit, "engine"} \/ (kind = "engine" /\ HasEngine)
     /\ Building("tasks", "cases")
     /\ task' = [kind |-> kind, engine |-> IF HasEngine THEN got[Main] ELSE None]
     /\ Rest(Main)
     /\ UNCHANGED <<env, models, tools, session, cases, web, secretsVars>>
  \/ /\ EngineDenied
     /\ Fail("tasks")

(* The case store keeps the holder and asks for the engine at every call. *)
BuildCases ==
  /\ Building("cases", "agent")
  /\ cases' = CaseStore(env)
  /\ UNCHANGED <<env, models, tools, session, task, web, engineVars, secretsVars>>

BuildAgent ==
  \/ /\ AgentName(env) \in AGENTS
     /\ Building("agent", "web")
     /\ UNCHANGED <<env, models, tools, session, task, cases, web, engineVars, secretsVars>>
  \/ /\ AgentName(env) \notin AGENTS
     /\ Fail("agent")

-----------------------------------------------------------------------------
(* app/fast_api_app.py                                                     *)

(* load_dotenv() runs now: what the .env file adds was not there when the
   services were built, and cannot change a variable that was. *)
Late == [env EXCEPT !.db_backend = IF @ = Unset THEN env.dotenv.db_backend ELSE @,
                    !.db_url = IF @ = Unset THEN env.dotenv.db_url ELSE @,
                    !.artifact_uri = IF @ = Unset THEN env.dotenv.artifact_uri ELSE @]

(* MUTANT: only a session service on the engine is registered. *)
RegistersWhenOnEngine == SessionService(Late) = "engine"

RegistersSession == DatabaseEnabled(Late)

RegistersArtifact == IsGiven(Late.artifact_uri)

(* google.auth.default() and a logging client come first. Then shared://session
   and shared://artifact are re-registered, or keep the services of
   app_utils/services.py, which are other instances. *)
RegisterSurfaces ==
  \/ /\ env.google
     /\ ~DatabaseMisconfigured(Late)
     /\ Building("web", "serving")
     /\ web' = [session |-> RegistersSession, artifact |-> RegistersArtifact]
     /\ UNCHANGED <<env, models, tools, session, task, cases, engineVars, secretsVars>>
  \/ /\ ~env.google \/ DatabaseMisconfigured(Late)
     /\ Fail("web")

(* A request uses the case store, on whichever thread it runs; work that the
   server did not wait for does so while the pod is stopping. *)
UseDatabase(c) ==
  /\ phase \in {"serving", "stopping"}
  /\ cases = "engine"
  /\ Call(c)
  /\ UNCHANGED <<podVars, secretsVars>>

(* Somebody asks the holder for an engine that is not configured. Not in the
   pods whose secrets are watched: a bound, the two have nothing in common. *)
UseNoDatabase(c) ==
  /\ phase = "serving"
  /\ ~env.secrets
  /\ CallDisabled(c)
  /\ UNCHANGED <<podVars, secretsVars>>

InEngine(c) == CallStep(c) /\ UNCHANGED <<podVars, secretsVars>>

UseSecrets ==
  /\ env.secrets
  /\ phase = "serving"
  /\ SecretsNext
  /\ UNCHANGED <<podVars, engineVars>>

(* The lifespan resumes after its yield: await database.aclose(). *)
Stop ==
  /\ Building("serving", "stopping")
  /\ BeginClose
  /\ UNCHANGED <<env, models, tools, session, task, cases, web, secretsVars>>

Closing == CloseStep /\ UNCHANGED <<podVars, secretsVars>>

Stopped ==
  /\ closer = "closed"
  /\ Building("stopping", "stopped")
  /\ UNCHANGED <<env, models, tools, session, task, cases, web, engineVars, secretsVars>>

-----------------------------------------------------------------------------
Startup ==
  \/ ConfigureLogging \/ ResolveModels \/ ResolvePeers \/ BuildSession \/ BuildMemory
  \/ BuildArtifacts \/ BuildTasks \/ BuildCases \/ BuildAgent
  \/ RegisterSurfaces

Next ==
  \/ Startup
  \/ \E c \in Callers : UseDatabase(c) \/ UseNoDatabase(c) \/ InEngine(c)
  \/ UseSecrets
  \/ Stop \/ Closing \/ Stopped

Spec == Init /\ [][Next]_vars

(* Threads inside engine() keep running, and the event loop goes on with aclose.
   Nothing makes requests come, or the pod stop. *)
FairSpec == Spec /\ EngineFairness

-----------------------------------------------------------------------------
Serving == phase \in {"serving", "stopping", "stopped"}

(* docs/environment-variables.md: the settings that raise at startup. An empty
   selector raises, except for DB_BACKEND's, and of the storage URIs that of
   the SDK that is not installed; TRACE and SUCCESS are no levels of logging. *)
Selector(raw, valid) == raw = Unset \/ Lowered(raw, "") \in valid

Misconfigured(e) ==
  \/ ~Selector(e.db_backend, {"", "none", "alloydb", "url"})
  \/ Lowered(e.db_backend, "none") = "alloydb" /\ {e.instance_uri, e.iam_user} \cap {Unset, Blank, ""} # {}
  \/ Lowered(e.db_backend, "none") = "url" /\ e.db_url \in {Unset, Blank, ""}
  \/ ~Selector(e.session_backend, {"in_memory", "alloydb", "database", "vertex_ai"})
  \/ Lowered(e.session_backend, "") = "alloydb" /\ Lowered(e.db_backend, "none") \in {"none", ""}
  \/ Lowered(e.session_backend, "") = "database" /\ e.session_db_url \in {Unset, Blank, ""}
  \/ ~Selector(e.memory_backend, {"in_memory", "vertex_ai"})
  \/ ~Selector(e.task_store_backend, {"in_memory", "database"})
  \/ Lowered(e.task_store_backend, "") = "database" /\ Lowered(e.db_backend, "none") \in {"none", ""}
  \/ e.agent_name \notin AGENTS \cup {Unset, Blank, ""}
  \/ Stripped(e.artifact_uri, "") = "az"
  \/ e.log_level \notin LogLevels \cup {Unset, ""}

(* The settings that raise at startup or on first use, as the service behind
   them has it: "Required by the vertex_ai backends", marked R / L; a session
   DSN; the URI of a bucket. *)
Doubtful(e) ==
  \/ /\ "vertex_ai" \in {Lowered(e.session_backend, ""), Lowered(e.memory_backend, "")}
     /\ e.agent_engine_id \in {Unset, ""}
  \/ Lowered(e.session_backend, "") = "database"
  \/ Stripped(e.artifact_uri, "") \in {"gs", "s3"}

(* A tier that nobody pinned and whose family the catalog does not have. *)
NoModelFor(e, tier) ==
  /\ e.pins[tier] = NoModel
  /\ \A i \in DOMAIN e.catalog :
       ~TextModel(e.catalog[i], FamilyOf(tier)) /\ ~Disguised(e.catalog[i], FamilyOf(tier))

(* "Misconfiguration fails fast": a pod that serves has none of the mistakes
   that raise at startup, and one that does not come up has one, or has a
   setting that may raise, an engine that could not be built, a mistake that
   only the .env file made, or nobody to ask at Google. *)
ServesIffConfigured ==
  /\ Serving => ~Misconfigured(env) /\ env.google /\ \A t \in Tiers : ~NoModelFor(env, t)
  /\ phase = "failed" =>
       \/ Misconfigured(env) \/ Misconfigured(Late) \/ Doubtful(env)
       \/ ~env.google
       \/ \E t \in Tiers : NoModelFor(env, t)
       \/ failures > 0

(* "Latest": an unpinned tier gets a model that no general-purpose model of its
   family beats by the documented order, in whatever order the catalog lists
   them; and such a model itself, save for the variants that the classifier
   does not recognise, contrary to its docstring. *)
LatestModels ==
  Serving => \A t \in Tiers :
    env.pins[t] = NoModel => Latest(models[t], env.catalog, FamilyOf(t))

(* "A tuple of unique PeerSpec entries, order preserved": the tools are the
   names mentioned, each once, in the order they are first mentioned, at the
   address they are last given; and caller and callee agree on the path of the
   card: the app is mounted under /a2a/app, and every way of writing that path,
   with or without slashes around it, leads the callers there. *)
NamesMountPoint(path) ==
  \E k \in DOMAIN path :
    /\ k + 2 \in DOMAIN path
    /\ path[k] = "a2a" /\ path[k + 2] = "app"
    /\ \A i \in DOMAIN path \ {k, k + 2} : path[i] = Slash

PeersAsConfigured ==
  LET items == PeerItems(env)
      Given(name) == items[LastMention(items, name)].url
  IN Serving =>
       /\ {tools[i].name : i \in DOMAIN tools} = {items[i].name : i \in DOMAIN items} \ {""}
       /\ \A i, j \in DOMAIN tools :
            i < j => FirstMention(items, tools[i].name) < FirstMention(items, tools[j].name)
       /\ \A i \in DOMAIN tools :
            LET card == tools[i].card IN
            /\ card.base.host[1] = IF Given(tools[i].name) = "" THEN tools[i].name
                                   ELSE Given(tools[i].name)
            /\ env.rpc_path = <<>> \/ NamesMountPoint(env.rpc_path)
                 => card.path = DEFAULT_RPC_PATH

(* "Each agent lands in its own schema": pods of different agents that leave
   DB_SCHEMA alone never use the same tables of a PostgreSQL database. *)
OnPostgres(e) ==
  /\ DatabaseEnabled(e)
  /\ DatabaseBackend(e) = "alloydb" \/ Stripped(e.db_url, "") = "postgresql"

SchemaPerAgent ==
  Serving /\ OnPostgres(env) /\ env.db_schema = Unset =>
    \A name \in AGENTS \ {AgentName(env)} :
      TablesIn([env EXCEPT !.agent_name = name]) # TablesIn(env)

(* The stores on the shared engine hold the same engine, the holder's own, for
   as long as the pod is not shutting down. *)
StoresShareEngine ==
  Serving /\ closer = "open" =>
    \A s \in {session, task} : s.kind = "engine" => s.engine = engine /\ engine # None

(* With a database, or a storage location, the web routes use the services of
   the Runner: a session or a file made on one surface is there on the other. *)
SurfacesShare ==
  Serving => /\ cases = "engine" => web.session
             /\ session.kind = "engine" => web.session
             /\ IsGiven(env.artifact_uri) => web.artifact
=============================================================================
