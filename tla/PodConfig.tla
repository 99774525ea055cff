----------------------------- MODULE PodConfig -----------------------------
(***************************************************************************)
(* What an agent's process makes of its environment: the cluster and peer  *)
(* configuration (app/cluster/config.py, app/cluster/resolver.py), the     *)
(* database configuration (app/cluster/db.py) and the choice of session,   *)
(* memory, task, artifact and case backends (app/cluster/session.py,       *)
(* tasks.py, artifacts.py, cases.py).                                      *)
(*                                                                         *)
(* An environment is a record with one field per variable. A variable is   *)
(* Unset, "" or Blank (spaces), or holds one of the values below; Loud is  *)
(* a valid backend name with other letters and spaces around it. Paths are *)
(* sequences of names and slashes, since slashes are what is normalised.   *)
(***************************************************************************)
EXTENDS Naturals, Sequences, FiniteSets, SequencesExt, ModelSelection

Unset == "unset"
Blank == "   "
Loud  == " AlloyDB "

(* source.get(name, default).strip(), and the same with .lower(). *)
Stripped(raw, default) ==
  IF raw = Unset THEN default ELSE IF raw = Blank THEN "" ELSE raw

Lowered(raw, default) ==
  IF raw = Loud THEN "alloydb" ELSE Stripped(raw, default)

IsGiven(raw) == Stripped(raw, "") # ""

OrElse(value, default) == IF value = "" THEN default ELSE value

-----------------------------------------------------------------------------
(* The agents, and the peers each delegates to by default.                 *)

AGENTS == {"orchestrator", "research", "math", "planner"}
DEFAULT_AGENT == "orchestrator"

DefaultPeers(name) ==
  IF name = "orchestrator" THEN <<"research", "math", "planner">> ELSE <<>>

Contracts == AGENTS \ {"orchestrator"}

AgentName(env) == OrElse(Stripped(env.agent_name, DEFAULT_AGENT), DEFAULT_AGENT)

-----------------------------------------------------------------------------
(* app/cluster/config.py                                                   *)

(* int(raw) where that works: numbers are given as numbers, and anything else
   falls back. *)
IntEnv(raw, default) == IF raw.kind = "number" THEN raw.number ELSE default

DefaultPort(scheme) == IF scheme = "https" THEN 443 ELSE 80

(* Port 0 is a URL that names none. *)
ServiceDnsUrl(name, env) ==
  LET scheme == Stripped(env.scheme, "http")
      port   == IntEnv(env.port, 80)
  IN [scheme |-> scheme,
      host   |-> <<name, Stripped(env.namespace, "agents")>>,
      port   |-> IF port = DefaultPort(scheme) THEN 0 ELSE port]

ExplicitUrl(url) == [scheme |-> "given", host |-> <<url>>, port |-> 0]

Peer(name, url) == [name |-> name, url |-> url]

(* MUTANT: a name that is already there is passed over. *)
FirstWins(peers, name, url) ==
  IF \E i \in DOMAIN peers : peers[i].name = name THEN peers
  ELSE Append(peers, Peer(name, url))

(* peers[name] = PeerSpec(...) on a dict: a new name goes to the end, a known
   one keeps its place and takes the new URL. *)
Assign(peers, name, url) ==
  IF \E i \in DOMAIN peers : peers[i].name = name
  THEN [i \in DOMAIN peers |->
          IF peers[i].name = name THEN Peer(name, url) ELSE peers[i]]
  ELSE Append(peers, Peer(name, url))

Items(names) == [i \in DOMAIN names |-> [name |-> names[i], url |-> ""]]

(* A2A_PEERS split at its commas; "" and unset fall back to the agent's own
   peers, and a string of spaces does not. An item is a name and a URL, either
   of which may be empty. *)
PeerItems(env) ==
  IF env.peers.given THEN env.peers.items ELSE Items(DefaultPeers(AgentName(env)))

(* Where a name is first, and last, mentioned: what the properties of the peers
   speak of. *)
FirstMention(items, name) ==
  CHOOSE i \in DOMAIN items :
    items[i].name = name /\ \A j \in 1..(i - 1) : items[j].name # name

LastMention(items, name) ==
  CHOOSE i \in DOMAIN items :
    items[i].name = name /\ \A j \in (i + 1)..Len(items) : items[j].name # name

ParsePeers(env) ==
  LET items == PeerItems(env)
      Add(peers, item) ==
        IF item.name = "" THEN peers
        ELSE Assign(peers, item.name,
                    IF item.url # "" THEN ExplicitUrl(item.url)
                    ELSE ServiceDnsUrl(item.name, env))
      peers[n \in 0..Len(items)] ==
        IF n = 0 THEN <<>> ELSE Add(peers[n - 1], items[n])
  IN peers[Len(items)]

Slash == "/"
DEFAULT_RPC_PATH == <<Slash, "a2a", Slash, "app">>

(* str.strip("/") *)
StripSlashes(path) ==
  LET names == {i \in DOMAIN path : path[i] # Slash}
  IN IF names = {} THEN <<>>
     ELSE SubSeq(path, CHOOSE i \in names : \A j \in names : i <= j,
                       CHOOSE i \in names : \A j \in names : j <= i)

NormalizeRpcPath(path) ==
  IF path = <<>> THEN DEFAULT_RPC_PATH ELSE <<Slash>> \o StripSlashes(path)

ClusterConfig(env) ==
  [name     |-> AgentName(env),
   peers    |-> ParsePeers(env),
   rpc_path |-> NormalizeRpcPath(env.rpc_path)]

-----------------------------------------------------------------------------
(* app/cluster/resolver.py: every peer becomes a tool.                     *)

CardUrl(peer, cluster) == [base |-> peer.url, path |-> cluster.rpc_path]

PayloadSchema(name) == IF name \in Contracts THEN name ELSE "unknown"

ResolvePeer(peer, cluster) ==
  [name |-> peer.name, card |-> CardUrl(peer, cluster), schema |-> PayloadSchema(peer.name)]

ResolveAll(cluster) ==
  [i \in DOMAIN cluster.peers |-> ResolvePeer(cluster.peers[i], cluster)]

-----------------------------------------------------------------------------
(* configure_logging: LOG_LEVEL, in capitals or not, has to be a level of
   logging and of loguru. *)

LogLevels == {"DEBUG", "INFO", "WARNING", "ERROR", "CRITICAL"}

LogLevel(env) == IF env.log_level \in {Unset, ""} THEN "INFO" ELSE env.log_level

-----------------------------------------------------------------------------
(* DatabaseConfig.from_env: an unknown backend, or one whose settings are
   missing, is an error; the schema defaults to the agent's name. *)

DatabaseBackend(env) == OrElse(Lowered(env.db_backend, "none"), "none")

(* MUTANT: either of the two AlloyDB settings will do. *)
DatabaseMisconfiguredIfNeither(env) ==
  \/ DatabaseBackend(env) \notin {"none", "alloydb", "url"}
  \/ DatabaseBackend(env) = "alloydb" /\ ~(IsGiven(env.instance_uri) \/ IsGiven(env.iam_user))
  \/ DatabaseBackend(env) = "url" /\ ~IsGiven(env.db_url)

DatabaseMisconfigured(env) ==
  \/ DatabaseBackend(env) \notin {"none", "alloydb", "url"}
  \/ DatabaseBackend(env) = "alloydb" /\ ~(IsGiven(env.instance_uri) /\ IsGiven(env.iam_user))
  \/ DatabaseBackend(env) = "url" /\ ~IsGiven(env.db_url)

DatabaseEnabled(env) == DatabaseBackend(env) # "none"

DbSchema(env) == Stripped(env.db_schema, AgentName(env))

(* MUTANT: the schema is pinned for AlloyDB alone. *)
PinsAlloyDbOnly(env) == DbSchema(env) # "" /\ DatabaseBackend(env) = "alloydb"

(* _wants_search_path: SQLite has no schemas. *)
PinsSchema(env) ==
  /\ DbSchema(env) # ""
  /\ DatabaseBackend(env) = "alloydb" \/ Stripped(env.db_url, "") = "postgresql"

(* The schema whose tables the unqualified names of a pod's statements mean. *)
TablesIn(env) == IF PinsSchema(env) THEN DbSchema(env) ELSE "public"

-----------------------------------------------------------------------------
(* The services. A service is the kind of store behind it; Misfit is the
   exception of a name nobody knows, of a setting that is missing, or of a
   storage whose client is not installed. *)

Misfit == "error"

SessionService(env) ==
  LET backend == Lowered(env.session_backend, "in_memory") IN
  CASE backend = "in_memory" -> "memory"
    [] backend = "alloydb" /\ DatabaseEnabled(env) -> "engine"
    [] backend = "database" /\ IsGiven(env.session_db_url) -> "own database"
    [] backend = "vertex_ai" -> "vertex"
    [] OTHER -> Misfit

MemoryService(env) ==
  LET backend == Lowered(env.memory_backend, "in_memory") IN
  CASE backend = "in_memory" -> "memory"
    [] backend = "vertex_ai" -> "vertex"
    [] OTHER -> Misfit

TaskStore(env) ==
  LET backend == Lowered(env.task_store_backend, "in_memory") IN
  CASE backend = "in_memory" -> "memory"
    [] backend = "database" /\ DatabaseEnabled(env) -> "engine"
    [] OTHER -> Misfit

(* AnyPath: a URI is its scheme here, and what is no cloud scheme is the name
   of a directory. *)
ArtifactService(env) ==
  LET uri == Stripped(env.artifact_uri, "") IN
  CASE uri = "" -> "memory"
    [] uri = "az" -> Misfit
    [] uri \in {"gs", "s3"} -> "bucket"
    [] OTHER -> "directory"

(* The constructors that other people wrote and that may refuse what they are
   given: a managed service without its AGENT_ENGINE_ID (which is not stripped),
   a DSN nothing can be made of, a cloud client that cannot be made. *)
MayRaise(kind, env) ==
  \/ kind = "vertex" /\ env.agent_engine_id \in {Unset, ""}
  \/ kind \in {"own database", "bucket"}

CaseStore(env) == IF DatabaseEnabled(env) THEN "engine" ELSE "memory"

-----------------------------------------------------------------------------
(* app/shared/config.py: a pin by environment variable, then the catalog.  *)

Tiers == {"fast", "balanced", "capable"}

FamilyOf(tier) ==
  CASE tier = "fast" -> "flash-lite"
    [] tier = "balanced" -> "flash"
    [] tier = "capable" -> "pro"

ResolveModelId(env, tier) ==
  IF env.pins[tier] # NoModel THEN env.pins[tier]
  ELSE SelectLatestModel(env.catalog, FamilyOf(tier))
=============================================================================
