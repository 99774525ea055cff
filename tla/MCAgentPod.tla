----------------------------- MODULE MCAgentPod -----------------------------
(* The environments of the pods that TLC starts: a default, and families that
   vary the settings that are read together. *)
EXTENDS AgentPod

(* Catalogs: previews against stable releases, an alias against numbered
   releases, a variant the classifier refuses and one it takes for a preview,
   and a family that is missing. *)
Lite  == ModelId("flash-lite", <<2, 5>>, "plain", <<>>)
Flash == ModelId("flash", <<2, 5>>, "plain", <<>>)
Pro   == ModelId("pro", <<2, 5>>, "plain", <<>>)

Candidates ==
  {Flash,
   ModelId("flash", <<2, 5>>, "numbered", <<1>>),
   ModelId("flash", <<2, 5>>, "numbered", <<2>>),
   ModelId("flash", <<2, 5>>, "preview", <<9>>),
   ModelId("flash", <<3>>, "preview", <<>>),
   VariantOf(ModelId("flash", <<3>>, "preview", <<>>)),
   ModelId("flash", <<3>>, "special", <<>>),
   ModelId("flash", <<10, 0>>, "preview", <<1>>)}

Catalogs ==
  {<<Lite, a, Pro, b, c>> : a \in Candidates, b \in Candidates, c \in {Flash, NoModel}}
    \cup {<<>>, <<Lite, Pro>>}

Unpinned == [t \in Tiers |-> NoModel]
Pinned   == [Unpinned EXCEPT !["balanced"] = Flash]
AllPinned == [t \in Tiers |-> Flash]

NotANumber == [kind |-> "malformed", number |-> 0]
Number(n)  == [kind |-> "number", number |-> n]
NoPeers    == [given |-> FALSE, items |-> <<>>]
PeerList(items) == [given |-> TRUE, items |-> items]
Item(name, url) == [name |-> name, url |-> url]

Nothing == [db_backend |-> Unset, db_url |-> Unset, artifact_uri |-> Unset]

Default ==
  [agent_name |-> Unset, peers |-> NoPeers, scheme |-> Unset, namespace |-> Unset,
   port |-> NotANumber, rpc_path |-> <<>>,
   db_backend |-> Unset, instance_uri |-> Unset, iam_user |-> Unset,
   db_url |-> Unset, db_schema |-> Unset,
   session_backend |-> Unset, session_db_url |-> Unset, memory_backend |-> Unset,
   agent_engine_id |-> Unset, task_store_backend |-> Unset, artifact_uri |-> Unset,
   log_level |-> Unset, google |-> TRUE,
   catalog |-> <<Lite, Flash, Pro>>, pins |-> Unpinned,
   dotenv |-> Nothing, project |-> TRUE, secrets |-> FALSE]

AlloyDb == [Default EXCEPT !.db_backend = "alloydb", !.instance_uri = "instance",
                           !.iam_user = "user"]
Postgres == [Default EXCEPT !.db_backend = "url", !.db_url = "postgresql"]
Sqlite   == [Postgres EXCEPT !.db_url = "sqlite"]

Selection ==
  {[Default EXCEPT !.catalog = c, !.pins = p] : c \in Catalogs, p \in {Unpinned, Pinned}}

Peering ==
  {[Default EXCEPT !.agent_name = a, !.peers = p, !.scheme = s, !.port = n, !.rpc_path = r] :
     a \in {Unset, "math"},
     p \in {NoPeers,
            PeerList(<<Item("math", ""), Item("research", "u1"), Item("math", "u2")>>),
            PeerList(<<Item("math", "u2"), Item("", "u1"), Item("math", "")>>)},
     s \in {Unset, "https"},
     n \in {NotANumber, Number(443)},
     r \in {<<>>, <<Slash>>, <<"a2a", Slash, "app">>, <<Slash, "a2a", Slash, "app", Slash>>}}

(* Every mistake a database configuration can have, and what a .env file adds
   too late. *)
Databases ==
  {[AlloyDb EXCEPT !.db_backend = Loud], [AlloyDb EXCEPT !.iam_user = Blank],
   [Default EXCEPT !.db_backend = Blank], [Default EXCEPT !.db_backend = "postgres"],
   [Postgres EXCEPT !.db_url = ""],
   [Default EXCEPT !.dotenv = [Nothing EXCEPT !.db_backend = "url", !.db_url = "sqlite"]],
   [Default EXCEPT !.dotenv = [Nothing EXCEPT !.db_backend = "alloydb"]]}

Stores ==
  {[Default EXCEPT !.session_backend = s, !.session_db_url = u, !.task_store_backend = t,
                   !.memory_backend = m] :
     s \in {Unset, "", Loud, "database", "vertex_ai", "redis"},
     u \in {Unset, "url"}, t \in {Unset, "database", Blank}, m \in {Unset, Blank}}

(* The managed services, with and without the id they require. *)
Managed ==
  {[Default EXCEPT !.session_backend = s, !.memory_backend = m, !.agent_engine_id = id] :
     s \in {Unset, "vertex_ai"}, m \in {Unset, "vertex_ai"}, id \in {Unset, "", Blank, "42"}}

(* Storage locations, also in a .env file that comes too late; levels; and no
   credentials, with models to be found and with models that are pinned. *)
Surroundings ==
  {[Default EXCEPT !.artifact_uri = u] : u \in {"", Blank, "gs", "s3", "az", "gcs"}}
    \cup {[Default EXCEPT !.dotenv.artifact_uri = u] : u \in {"gs", "az"}}
    \cup {[Default EXCEPT !.log_level = l] : l \in {"", Blank, "WARNING", "TRACE"}}
    \cup {[Default EXCEPT !.google = FALSE, !.pins = p] : p \in {Unpinned, AllPinned}}

(* Which stores are on the engine. *)
Shared ==
  {[AlloyDb EXCEPT !.session_backend = s, !.task_store_backend = t] :
     s \in {Unset, Loud}, t \in {Unset, "database"}}

Schemas ==
  {Postgres, [Postgres EXCEPT !.agent_name = "math", !.artifact_uri = "gs"],
   [AlloyDb EXCEPT !.agent_name = Blank, !.db_schema = "shared"],
   [Sqlite EXCEPT !.agent_name = "nobody"],
   [Sqlite EXCEPT !.session_backend = "alloydb", !.db_schema = ""]}

Secretive == {[Default EXCEPT !.secrets = TRUE, !.project = p] : p \in BOOLEAN}

AllEnvironments ==
  UNION {Selection, Peering, Databases, Stores, Managed, Surroundings, Shared, Schemas,
         Secretive}
=============================================================================
