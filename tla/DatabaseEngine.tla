--------------------------- MODULE DatabaseEngine ---------------------------
(***************************************************************************)
(* The engine holder of app/cluster/db.py: Database.engine(), which builds *)
(* the process-wide engine on first use under a lock that the fast path    *)
(* does not take, and Database.aclose(), which takes no lock at all and    *)
(* awaits twice on its way.                                                *)
(*                                                                         *)
(* A caller is a thread (or a task) inside engine(). A build is numbered;  *)
(* the engine it makes and the connector behind that engine carry its      *)
(* number, and 0 is Python's None. One step is what a thread does between  *)
(* two reads or writes of a field another thread can see.                  *)
(*                                                                         *)
(* A module that composes the holder with the rest of the pod says when    *)
(* calls are made and when aclose runs. Definitions marked MUTANT are      *)
(* plausible mistakes in the operator that follows them; the specification *)
(* does not use them.                                                      *)
(***************************************************************************)
EXTENDS Naturals, FiniteSets

CONSTANTS
  Callers,      \* threads that may be in engine() at the same time
  Nobody,       \* who holds the lock when nobody does
  MaxFailures   \* bounds the builds that raise

ASSUME EngineAssumption ==
  /\ Nobody \notin Callers
  /\ MaxFailures \in Nat

VARIABLES
  backend,      \* config.backend, fixed at start: "none", "alloydb" or "url"
  engine,       \* self._engine
  connector,    \* self._connector
  lock,         \* who holds self._lock
  at,           \* where each caller is in engine()
  got,          \* what the last call to engine() returned to each caller
  builds,       \* builds begun: the number of the last one
  failures,     \* builds that raised
  pools,        \* engines made and not yet disposed of
  links,        \* connectors made and not yet closed
  closer,       \* where aclose() is
  condemned,    \* what aclose() is disposing of, or closing
  orphans,      \* history: connectors whose engine was never made
  straggled     \* history: some call overlapped aclose, or came after it

config  == <<backend>>
fields  == <<engine, connector>>
closing == <<closer, condemned>>
history == <<orphans, straggled>>
engineVars == <<config, fields, lock, at, got, builds, failures, pools, links,
                closing, history>>

None == 0
Backends == {"none", "alloydb", "url"}

(* A caller is between calls in the first three of these. *)
Outside == {"idle", "returned", "raised"}
Inside  == {"fast", "waiting", "holding", "connecting", "creating", "leaving"}

InsideLock == {"holding", "connecting", "creating", "leaving"}

EngineTypeOK ==
  /\ backend \in Backends
  /\ builds \in Nat /\ failures \in 0..MaxFailures
  /\ engine \in 0..builds /\ connector \in 0..builds
  /\ lock \in Callers \cup {Nobody}
  /\ at \in [Callers -> Outside \cup Inside]
  /\ got \in [Callers -> 0..builds]
  /\ pools \subseteq 1..builds /\ links \subseteq 1..builds
  /\ orphans \subseteq 1..builds
  /\ closer \in {"open", "disposing", "disposed", "closing", "closed"}
  /\ condemned \in 0..builds
  /\ straggled \in BOOLEAN

EngineInit ==
  /\ backend \in Backends
  /\ engine = None /\ connector = None
  /\ lock = Nobody
  /\ at = [c \in Callers |-> "idle"]
  /\ got = [c \in Callers |-> None]
  /\ builds = 0 /\ failures = 0
  /\ pools = {} /\ links = {}
  /\ closer = "open" /\ condemned = None
  /\ orphans = {} /\ straggled = FALSE

-----------------------------------------------------------------------------
(* engine()                                                                *)

Goes(c, place) == at' = [at EXCEPT ![c] = place]

(* Nothing is configured: the call raises ValueError. *)
CallDisabled(c) ==
  /\ at[c] \in Outside
  /\ backend = "none"
  /\ Goes(c, "raised")
  /\ straggled' = (straggled \/ closer # "open")
  /\ UNCHANGED <<config, fields, lock, got, builds, failures, pools, links,
                 closing, orphans>>

(* The first look at the field, without the lock. *)
Call(c) ==
  /\ at[c] \in Outside
  /\ backend # "none"
  /\ Goes(c, IF engine # None THEN "fast" ELSE "waiting")
  /\ got' = [got EXCEPT ![c] = None]
  /\ straggled' = (straggled \/ closer # "open")
  /\ UNCHANGED <<config, fields, lock, builds, failures, pools, links,
                 closing, orphans>>

(* The second look: the field is read again to return it. *)
FastReturn(c) ==
  /\ at[c] = "fast"
  /\ got' = [got EXCEPT ![c] = engine]
  /\ Goes(c, "returned")
  /\ UNCHANGED <<config, fields, lock, builds, failures, pools, links, closing, history>>

Acquire(c) ==
  /\ at[c] = "waiting"
  /\ lock = Nobody
  /\ lock' = c
  /\ Goes(c, "holding")
  /\ UNCHANGED <<config, fields, got, builds, failures, pools, links, closing, history>>

Builder == IF backend = "alloydb" THEN "connecting" ELSE "creating"

(* MUTANT: no second check once the lock is held. *)
LookNotAgain(c) ==
  /\ at[c] = "holding"
  /\ builds' = builds + 1
  /\ Goes(c, Builder)
  /\ UNCHANGED <<config, fields, lock, got, failures, pools, links, closing, history>>

(* The double check: somebody may have built it while this caller waited. *)
LookAgain(c) ==
  /\ at[c] = "holding"
  /\ IF engine = None
     THEN builds' = builds + 1 /\ Goes(c, Builder)
     ELSE builds' = builds /\ Goes(c, "leaving")
  /\ UNCHANGED <<config, fields, lock, got, failures, pools, links, closing, history>>

(* _build_alloydb_engine: the connector is stored before there is an engine. *)
MakeConnector(c) ==
  /\ at[c] = "connecting"
  /\ connector' = builds
  /\ links' = links \cup {builds}
  /\ Goes(c, "creating")
  /\ UNCHANGED <<config, engine, lock, got, builds, failures, pools, closing, history>>

CreateEngine(c) ==
  /\ at[c] = "creating"
  /\ engine' = builds
  /\ pools' = pools \cup {builds}
  /\ Goes(c, "leaving")
  /\ UNCHANGED <<config, connector, lock, got, builds, failures, links, closing, history>>

(* MUTANT: the lock is acquired and released by hand, and the exception skips
   the release. *)
BuildRaisesHolding(c) ==
  /\ at[c] \in {"connecting", "creating"}
  /\ failures < MaxFailures
  /\ failures' = failures + 1
  /\ orphans' = IF builds \in links THEN orphans \cup {builds} ELSE orphans
  /\ Goes(c, "raised")
  /\ UNCHANGED <<config, fields, lock, got, builds, pools, links, closing, straggled>>

(* MUTANT: the failure is logged and swallowed. *)
BuildFailsQuietly(c) ==
  /\ at[c] \in {"connecting", "creating"}
  /\ failures < MaxFailures
  /\ failures' = failures + 1
  /\ orphans' = IF builds \in links THEN orphans \cup {builds} ELSE orphans
  /\ Goes(c, "leaving")
  /\ UNCHANGED <<config, fields, lock, got, builds, pools, links, closing, straggled>>

(* The connector or the engine cannot be made: the exception leaves the with
   block, which releases the lock. A connector that was made stays stored. *)
BuildRaises(c) ==
  /\ at[c] \in {"connecting", "creating"}
  /\ failures < MaxFailures
  /\ failures' = failures + 1
  /\ orphans' = IF builds \in links THEN orphans \cup {builds} ELSE orphans
  /\ lock' = Nobody
  /\ Goes(c, "raised")
  /\ UNCHANGED <<config, fields, got, builds, pools, links, closing, straggled>>

(* return self._engine, out of the with block. *)
Leave(c) ==
  /\ at[c] = "leaving"
  /\ got' = [got EXCEPT ![c] = engine]
  /\ lock' = Nobody
  /\ Goes(c, "returned")
  /\ UNCHANGED <<config, fields, builds, failures, pools, links, closing, history>>

(* The caller makes something of what it got. *)
Rest(c) ==
  /\ at[c] \in Outside
  /\ Goes(c, "idle")
  /\ UNCHANGED <<config, fields, lock, got, builds, failures, pools, links,
                 closing, history>>

-----------------------------------------------------------------------------
(* aclose(), run once, by the event loop                                   *)

CallInFlight == \E c \in Callers : at[c] \in Inside

(* MUTANT: the connector goes first, under a pool that still uses it. *)
CloseConnectorFirst ==
  /\ closer = "open"
  /\ closer' = "disposing"
  /\ condemned' = engine
  /\ links' = links \ {connector}
  /\ straggled' = (straggled \/ CallInFlight)
  /\ UNCHANGED <<config, fields, lock, at, got, builds, failures, pools, orphans>>

(* With an engine there is a pool to wait for. *)
BeginClose ==
  /\ closer = "open"
  /\ closer' = IF engine # None THEN "disposing" ELSE "disposed"
  /\ condemned' = engine
  /\ straggled' = (straggled \/ CallInFlight)
  /\ UNCHANGED <<config, fields, lock, at, got, builds, failures, pools, links, orphans>>

PoolDisposed ==
  /\ closer = "disposing"
  /\ pools' = pools \ {condemned}
  /\ engine' = None
  /\ closer' = "disposed"
  /\ condemned' = None
  /\ UNCHANGED <<config, connector, lock, at, got, builds, failures, links, history>>

BeginCloseConnector ==
  /\ closer = "disposed"
  /\ closer' = IF connector # None THEN "closing" ELSE "closed"
  /\ condemned' = connector
  /\ UNCHANGED <<config, fields, lock, at, got, builds, failures, pools, links, history>>

ConnectorClosed ==
  /\ closer = "closing"
  /\ links' = links \ {condemned}
  /\ connector' = None
  /\ closer' = "closed"
  /\ condemned' = None
  /\ UNCHANGED <<config, engine, lock, at, got, builds, failures, pools, history>>

-----------------------------------------------------------------------------
CallStep(c) ==
  \/ FastReturn(c) \/ Acquire(c) \/ LookAgain(c) \/ MakeConnector(c)
  \/ CreateEngine(c) \/ BuildRaises(c) \/ Leave(c)

CloseStep ==
  \/ PoolDisposed \/ BeginCloseConnector \/ ConnectorClosed

EngineNext ==
  \/ \E c \in Callers : Call(c) \/ CallDisabled(c) \/ CallStep(c) \/ Rest(c)
  \/ BeginClose
  \/ CloseStep

EngineSpec == EngineInit /\ [][EngineNext]_engineVars

(* A thread inside engine() keeps running, and the lock is handed to somebody
   who waits for it; nobody has to call, and aclose has to be begun by others. *)
EngineFairness ==
  /\ \A c \in Callers : WF_engineVars(CallStep(c))
  /\ WF_engineVars(CloseStep)

-----------------------------------------------------------------------------
(* "A pod opens one pool rather than three": the process never has two
   engines alive, however calls to engine() and aclose() interleave. *)
OnePool == Cardinality(pools) <= 1

(* engine() returns an engine, as its signature says, unless aclose has begun:
   a builder that raises never makes a waiting caller return None. *)
ReturnsAnEngine ==
  \A c \in Callers : at[c] = "returned" /\ got[c] = None => closer # "open"

(* As long as no call overlapped aclose: a pool that can still be used has the
   connector its connections come from, also while the pod shuts down; a
   connector is the one aclose will close, or one whose engine could not be
   made; and once aclose is through, only the latter are left open. *)
ConnectorsAccounted ==
  ~straggled =>
    /\ backend = "alloydb" => pools \subseteq links
    /\ links \subseteq {connector} \cup orphans
    /\ closer = "closed" => pools = {} /\ links \subseteq orphans

(* Nobody waits for the lock forever: every call to engine() comes back. *)
EveryCallReturns ==
  \A c \in Callers : at[c] = "waiting" ~> at[c] \in Outside
=============================================================================
