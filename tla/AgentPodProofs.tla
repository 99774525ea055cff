--------------------------- MODULE AgentPodProofs ---------------------------
(***************************************************************************)
(* Proofs about the pod's shared engine and its secrets, for every number  *)
(* of threads, builds, failures, names, rotations and environments.        *)
(*                                                                         *)
(* 1. The engine holder. EngineInv says that whoever builds holds the lock *)
(*    and found no engine (so that there is never a second pool), and that *)
(*    whoever is about to return an engine has seen one. LinkInv adds what *)
(*    becomes of the connectors of an aclose that no call overlapped. Both *)
(*    are inductive over the actions of DatabaseEngine.                    *)
(* 2. The secrets. SecretsInv relates what a reader received to what was   *)
(*    current when it asked, as long as no other fetch disturbed it.       *)
(* 3. The pod. Every step of AgentPod is a step of the holder or leaves it *)
(*    alone, and the same of the secrets: AgentPod implements EngineSpec   *)
(*    and SecretsSpec, and inherits their invariants. With what the main   *)
(*    thread holds while it builds the services (WiringInv), the stores    *)
(*    share the holder's engine.                                           *)
(***************************************************************************)
EXTENDS AgentPod, PodConfigProofs, FiniteSetTheorems

-----------------------------------------------------------------------------
(* The engine holder                                                       *)

LockHeld == \A c \in Callers : at[c] \in InsideLock <=> lock = c

(* The builder found no engine, and its number is not None's. *)
BuildsAlone ==
  \A c \in Callers :
    at[c] \in {"connecting", "creating"} =>
      /\ engine = None
      /\ builds > 0
      /\ at[c] = "connecting" => backend = "alloydb"

PoolIsEngine == pools = IF engine = None THEN {} ELSE {engine}

SeesEngine ==
  \A c \in Callers : at[c] \in {"fast", "leaving"} => engine # None \/ closer # "open"

CondemnsEngine == closer = "disposing" => condemned = engine /\ engine # None

EngineInv ==
  /\ EngineTypeOK
  /\ LockHeld
  /\ BuildsAlone
  /\ PoolIsEngine
  /\ SeesEngine
  /\ ReturnsAnEngine
  /\ CondemnsEngine

(* A holder that nobody has called satisfies the invariant. *)
LEMMA EngineInitInv == EngineInit => EngineInv
<1> SUFFICES ASSUME EngineInit
             PROVE  EngineInv
  OBVIOUS
<1> USE DEF EngineInit, None, Outside, Inside, InsideLock
<1>1. EngineTypeOK
  <2>1. /\ at \in [Callers -> Outside \cup Inside]
        /\ got \in [Callers -> 0..builds]
    OBVIOUS
  <2>2. /\ failures \in 0..MaxFailures
        /\ pools \subseteq 1..builds /\ links \subseteq 1..builds
        /\ orphans \subseteq 1..builds
    BY EngineAssumption
  <2>3. /\ builds \in Nat /\ engine \in 0..builds /\ connector \in 0..builds
        /\ condemned \in 0..builds
    OBVIOUS
  <2>4. /\ backend \in Backends
        /\ lock \in Callers \cup {Nobody}
        /\ closer \in {"open", "disposing", "disposed", "closing", "closed"}
        /\ straggled \in BOOLEAN
    OBVIOUS
  <2> QED
    BY <2>1, <2>2, <2>3, <2>4, Zenon DEF EngineTypeOK
<1>2. \A c \in Callers : at[c] = "idle" /\ lock # c
  BY EngineAssumption
<1>3. LockHeld /\ BuildsAlone
  BY <1>2 DEF LockHeld, BuildsAlone
<1>4. PoolIsEngine /\ SeesEngine /\ ReturnsAnEngine /\ CondemnsEngine
  BY <1>2 DEF PoolIsEngine, SeesEngine, ReturnsAnEngine, CondemnsEngine
<1> QED
  BY <1>1, <1>3, <1>4 DEF EngineInv

(* Calls, builds, failures and the steps of aclose keep EngineInv. *)
LEMMA EngineStep == EngineInv /\ [EngineNext]_engineVars => EngineInv'
<1> SUFFICES ASSUME EngineInv, [EngineNext]_engineVars
             PROVE  EngineInv'
  OBVIOUS
<1> USE EngineAssumption
    DEF EngineInv, EngineTypeOK, LockHeld, BuildsAlone, PoolIsEngine, SeesEngine,
        ReturnsAnEngine, CondemnsEngine, None, Outside, Inside, InsideLock, Goes,
        Backends, config, fields, closing, history
<1>1. ASSUME NEW c \in Callers, Call(c)         PROVE EngineInv'
  BY <1>1 DEF Call
<1>2. ASSUME NEW c \in Callers, CallDisabled(c) PROVE EngineInv'
  BY <1>2 DEF CallDisabled
<1>3. ASSUME NEW c \in Callers, FastReturn(c)   PROVE EngineInv'
  BY <1>3 DEF FastReturn
<1>4. ASSUME NEW c \in Callers, Acquire(c)      PROVE EngineInv'
  BY <1>4 DEF Acquire
<1>5. ASSUME NEW c \in Callers, LookAgain(c)    PROVE EngineInv'
  BY <1>5 DEF LookAgain, Builder
<1>6. ASSUME NEW c \in Callers, MakeConnector(c) PROVE EngineInv'
  BY <1>6 DEF MakeConnector
<1>7. ASSUME NEW c \in Callers, CreateEngine(c) PROVE EngineInv'
  BY <1>7 DEF CreateEngine
<1>8. ASSUME NEW c \in Callers, BuildRaises(c)  PROVE EngineInv'
  BY <1>8 DEF BuildRaises
<1>9. ASSUME NEW c \in Callers, Leave(c)        PROVE EngineInv'
  BY <1>9 DEF Leave
<1>10. ASSUME NEW c \in Callers, Rest(c)        PROVE EngineInv'
  BY <1>10 DEF Rest
<1>11. ASSUME BeginClose          PROVE EngineInv'
  BY <1>11 DEF BeginClose, CallInFlight
<1>12. ASSUME PoolDisposed        PROVE EngineInv'
  BY <1>12 DEF PoolDisposed
<1>13. ASSUME BeginCloseConnector PROVE EngineInv'
  BY <1>13 DEF BeginCloseConnector
<1>14. ASSUME ConnectorClosed     PROVE EngineInv'
  BY <1>14 DEF ConnectorClosed
<1>15. ASSUME UNCHANGED engineVars PROVE EngineInv'
  BY <1>15 DEF engineVars
<1> QED
  BY <1>1, <1>2, <1>3, <1>4, <1>5, <1>6, <1>7, <1>8, <1>9, <1>10, <1>11, <1>12, <1>13,
     <1>14, <1>15 DEF EngineNext, CallStep, CloseStep

(* There is at most one pool, because the pools are the holder's engine. *)
LEMMA InvOnePool == EngineInv => OnePool
BY FS_EmptySet, FS_Singleton DEF EngineInv, PoolIsEngine, OnePool

(* What can be said of the connectors as long as no call overlapped aclose.
   Nobody is inside engine() from then on, and a connector is stored, is being
   closed, or belongs to a build that raised. *)
NobodyInside == closer # "open" => \A c \in Callers : at[c] \in Outside

EngineGone == closer \in {"disposed", "closing", "closed"} => engine = None

LinkMade ==
  \A c \in Callers :
    at[c] = "creating" /\ backend = "alloydb" => builds \in links /\ connector = builds

LinksKnown ==
  /\ links \subseteq {connector} \cup orphans
  /\ (/\ closer = "open" /\ engine = None
      /\ \A c \in Callers : at[c] # "creating") => links \subseteq orphans
  /\ closer = "closed" => links \subseteq orphans

CondemnsConnector == closer = "closing" => condemned = connector /\ connector # None

PoolsLinked == backend = "alloydb" => pools \subseteq links

Undisturbed ==
  /\ PoolsLinked
  /\ NobodyInside
  /\ EngineGone
  /\ LinkMade
  /\ LinksKnown
  /\ CondemnsConnector

LinkInv ==
  /\ backend # "alloydb" => links = {} /\ connector = None
  /\ ~straggled => Undisturbed

(* A holder that nobody has called has no connectors. *)
LEMMA LinkInitInv == EngineInit => LinkInv
<1> SUFFICES ASSUME EngineInit
             PROVE  LinkInv
  OBVIOUS
<1>1. links = {} /\ pools = {} /\ connector = None /\ closer = "open"
  BY DEF EngineInit
<1>2. \A c \in Callers : at[c] = "idle"
  BY DEF EngineInit
<1> QED
  BY <1>1, <1>2
     DEF LinkInv, Undisturbed, NobodyInside, EngineGone, LinkMade, LinksKnown,
         CondemnsConnector, PoolsLinked

(* A connector is replaced only when nothing is left of it but an orphan, and
   closed only when its pool is gone. *)
LEMMA LinkStep == EngineInv /\ LinkInv /\ [EngineNext]_engineVars => LinkInv'
<1> SUFFICES ASSUME EngineInv, LinkInv, [EngineNext]_engineVars
             PROVE  LinkInv'
  OBVIOUS
<1> USE EngineAssumption
    DEF EngineInv, EngineTypeOK, LockHeld, BuildsAlone, PoolIsEngine, CondemnsEngine,
        LinkInv, Undisturbed, NobodyInside, EngineGone, LinkMade, LinksKnown,
        CondemnsConnector, PoolsLinked,
        None, Outside, Inside, InsideLock, Goes, Backends, config, fields, closing, history
<1>1. ASSUME NEW c \in Callers, Call(c)         PROVE LinkInv'
  BY <1>1 DEF Call
<1>2. ASSUME NEW c \in Callers, CallDisabled(c) PROVE LinkInv'
  BY <1>2 DEF CallDisabled
<1>3. ASSUME NEW c \in Callers, FastReturn(c)   PROVE LinkInv'
  BY <1>3 DEF FastReturn
<1>4. ASSUME NEW c \in Callers, Acquire(c)      PROVE LinkInv'
  BY <1>4 DEF Acquire
<1>5. ASSUME NEW c \in Callers, LookAgain(c)    PROVE LinkInv'
  BY <1>5 DEF LookAgain, Builder
<1>6. ASSUME NEW c \in Callers, MakeConnector(c) PROVE LinkInv'
  BY <1>6 DEF MakeConnector
<1>7. ASSUME NEW c \in Callers, CreateEngine(c) PROVE LinkInv'
  BY <1>7 DEF CreateEngine
<1>8. ASSUME NEW c \in Callers, BuildRaises(c)  PROVE LinkInv'
  BY <1>8 DEF BuildRaises
<1>9. ASSUME NEW c \in Callers, Leave(c)        PROVE LinkInv'
  BY <1>9 DEF Leave
<1>10. ASSUME NEW c \in Callers, Rest(c)        PROVE LinkInv'
  BY <1>10 DEF Rest
<1>11. ASSUME BeginClose          PROVE LinkInv'
  BY <1>11 DEF BeginClose, CallInFlight
<1>12. ASSUME PoolDisposed        PROVE LinkInv'
  BY <1>12 DEF PoolDisposed
<1>13. ASSUME BeginCloseConnector PROVE LinkInv'
  BY <1>13 DEF BeginCloseConnector
<1>14. ASSUME ConnectorClosed     PROVE LinkInv'
  BY <1>14 DEF ConnectorClosed
<1>15. ASSUME UNCHANGED engineVars PROVE LinkInv'
  BY <1>15 DEF engineVars
<1> QED
  BY <1>1, <1>2, <1>3, <1>4, <1>5, <1>6, <1>7, <1>8, <1>9, <1>10, <1>11, <1>12, <1>13,
     <1>14, <1>15 DEF EngineNext, CallStep, CloseStep

(* Connectors are accounted for: the pools of a closed holder are gone. *)
LEMMA InvConnectors == EngineInv /\ LinkInv => ConnectorsAccounted
BY DEF EngineInv, PoolIsEngine, LinkInv, Undisturbed, PoolsLinked, EngineGone, LinksKnown,
       ConnectorsAccounted

(* Both invariants hold of the holder, whoever uses it. *)
THEOREM HolderHolds == EngineSpec => [](EngineInv /\ LinkInv)
<1>1. EngineInit => EngineInv /\ LinkInv
  BY EngineInitInv, LinkInitInv
<1>2. EngineInv /\ LinkInv /\ [EngineNext]_engineVars => (EngineInv /\ LinkInv)'
  BY EngineStep, LinkStep
<1> QED
  BY <1>1, <1>2, PTL DEF EngineSpec

-----------------------------------------------------------------------------
(* The secrets                                                             *)

Underway == {"calling", "received", "answering"}

(* Nobody else is fetching what an undisturbed reader asked for. *)
FetchesApart ==
  \A r \in Readers :
    ~disturbed[r] /\ reading[r].at \in Underway
      => \A o \in Others(r) : ~Fetching(o, reading[r].name)

(* Versions only grow, so that a response is as new as the question. *)
AskedIsKnown ==
  \A r \in Readers :
    reading[r].at \in Underway \cup {"returned"} => asked[r] <= newest[reading[r].name]

ReceivedIsFresh ==
  \A r \in Readers : reading[r].at = "received" => reading[r].value >= asked[r]

StoredIsFresh ==
  \A r \in Readers :
    reading[r].at = "answering" /\ reading[r].refresh /\ ~disturbed[r]
      => cache[reading[r].name] >= asked[r]

(* A name that was fetched is in the cache, or on its way there. *)
FetchedIsKept ==
  \A n \in Names :
    \/ fetches[n] = 0
    \/ cache[n] # Absent
    \/ \E r \in Readers : Fetching(r, n) /\ ~reading[r].refresh

SecretsInv ==
  /\ SecretsTypeOK
  /\ FetchesApart
  /\ AskedIsKnown
  /\ ReceivedIsFresh
  /\ StoredIsFresh
  /\ RefreshIsFresh
  /\ FetchedIsKept
  /\ FetchedOnce

(* What a reader is in is a call of get. *)
Reading == [at : {"idle", "calling", "received", "answering", "returned", "raised"},
            name : Names, refresh : BOOLEAN, value : Absent..MaxVersion]

(* A reader that has not asked is one of them. *)
LEMMA NotReadingTyped == NotReading \in Reading
<1>1. Names # {}
  BY SecretsAssumption DEF Names
<1>2. NotReading.name \in Names
  BY <1>1 DEF NotReading
<1> QED
  BY <1>2, SecretsAssumption DEF NotReading, Reading, Absent

(* A call goes on where it is, or with another value. *)
LEMMA CallGoesOn ==
  ASSUME NEW x \in Reading,
         NEW place \in {"idle", "calling", "received", "answering", "returned", "raised"},
         NEW v \in Absent..MaxVersion
  PROVE  /\ [x EXCEPT !.at = place] \in Reading
         /\ [x EXCEPT !.at = place, !.value = v] \in Reading
BY DEF Reading

(* An empty cache, and nobody reading. *)
LEMMA SecretsInitInv == SecretsInit => SecretsInv
<1> SUFFICES ASSUME SecretsInit
             PROVE  SecretsInv
  OBVIOUS
<1> USE SecretsAssumption DEF SecretsInit, Absent
<1>1. \A r \in Readers : reading[r] = NotReading /\ reading[r].at = "idle"
  BY DEF NotReading
<1>2. SecretsTypeOK
  <2>1. /\ newest \in [Names -> 1..MaxVersion]
        /\ cache \in [Names -> Absent..MaxVersion]
        /\ asked \in [Readers -> 1..MaxVersion]
        /\ fetches \in [Names -> 0..2]
    OBVIOUS
  <2>2. /\ project \in BOOLEAN
        /\ disturbed \in [Readers -> BOOLEAN]
    OBVIOUS
  <2>3. reading \in [Readers -> Reading]
    BY NotReadingTyped
  <2> QED
    BY <2>1, <2>2, <2>3 DEF SecretsTypeOK, Reading
<1>3. /\ FetchesApart /\ AskedIsKnown /\ ReceivedIsFresh /\ StoredIsFresh /\ RefreshIsFresh
  BY <1>1 DEF FetchesApart, AskedIsKnown, ReceivedIsFresh, StoredIsFresh, RefreshIsFresh,
              Underway
<1>4. FetchedIsKept /\ FetchedOnce
  BY DEF FetchedIsKept, FetchedOnce
<1> QED
  BY <1>2, <1>3, <1>4 DEF SecretsInv

(* Questions, responses, failures, stores, answers and rotations keep the
   types. *)
LEMMA SecretsTyped == SecretsTypeOK /\ [SecretsNext]_secretsVars => SecretsTypeOK'
<1> SUFFICES ASSUME SecretsTypeOK, [SecretsNext]_secretsVars
             PROVE  SecretsTypeOK'
  OBVIOUS
<1> USE SecretsAssumption DEF SecretsTypeOK, Absent
<1>1. ASSUME NEW r \in Readers, NEW n \in Names, NEW refresh \in BOOLEAN,
             Ask(r, n, refresh)
      PROVE  SecretsTypeOK'
  <2> DEFINE call == [at |-> IF ~Cached(n, refresh) THEN "calling" ELSE "answering",
                      name |-> n, refresh |-> refresh, value |-> Absent]
  <2>1. call \in Reading
    BY DEF Reading
  <2>2. reading' = [reading EXCEPT ![r] = call]
    BY <1>1, Zenon DEF Ask
  <2>3. reading' \in [Readers -> Reading]
    <3> HIDE DEF call
    <3> QED
      BY <2>1, <2>2 DEF Reading
  <2>4. /\ asked' \in [Readers -> 1..MaxVersion]
        /\ fetches' \in [Names -> 0..2]
        /\ UNCHANGED <<project, newest, cache>>
    BY <1>1 DEF Ask
  <2>5. disturbed' \in [Readers -> BOOLEAN]
    BY <1>1, Zenon DEF Ask
  <2> QED
    BY <2>3, <2>4, <2>5 DEF Reading
<1>2. ASSUME NEW r \in Readers, NEW n \in Names, NEW refresh \in BOOLEAN,
             AskInVain(r, n, refresh)
      PROVE  SecretsTypeOK'
  <2>1. [NotReading EXCEPT !.at = "raised"] \in Reading
    BY NotReadingTyped, CallGoesOn
  <2>2. reading' \in [Readers -> Reading]
    BY <1>2, <2>1 DEF AskInVain, Reading
  <2> QED
    BY <1>2, <2>2 DEF AskInVain, Reading
<1>3. ASSUME NEW r \in Readers, Respond(r)    PROVE SecretsTypeOK'
  <2>1. [reading[r] EXCEPT !.at = "received", !.value = newest[reading[r].name]] \in Reading
    <3>1. reading[r] \in Reading
      BY DEF Reading
    <3>2. newest[reading[r].name] \in Absent..MaxVersion
      BY <3>1 DEF Reading
    <3> QED
      BY <3>1, <3>2, CallGoesOn
  <2>2. reading' = [reading EXCEPT ![r] =
                      [reading[r] EXCEPT !.at = "received",
                                         !.value = newest[reading[r].name]]]
    BY <1>3 DEF Respond
  <2>3. reading' \in [Readers -> Reading]
    BY <2>1, <2>2 DEF Reading
  <2> QED
    BY <1>3, <2>3 DEF Respond, Reading
<1>4. ASSUME NEW r \in Readers, FetchFails(r) PROVE SecretsTypeOK'
  BY <1>4 DEF FetchFails
<1>5. ASSUME NEW r \in Readers, Store(r)      PROVE SecretsTypeOK'
  BY <1>5 DEF Store
<1>6. ASSUME NEW r \in Readers, Return(r)     PROVE SecretsTypeOK'
  BY ZenonT(40), <1>6 DEF Return
<1>7. ASSUME NEW n \in Names, Rotate(n)       PROVE SecretsTypeOK'
  BY <1>7 DEF Rotate
<1>8. ASSUME UNCHANGED secretsVars            PROVE SecretsTypeOK'
  BY <1>8 DEF secretsVars
<1> QED
  BY <1>1, <1>2, <1>3, <1>4, <1>5, <1>6, <1>7, <1>8 DEF SecretsNext

(* The rest of the invariant, step by step. *)
LEMMA SecretsStep == SecretsInv /\ [SecretsNext]_secretsVars => SecretsInv'
<1> SUFFICES ASSUME SecretsInv, [SecretsNext]_secretsVars
             PROVE  SecretsInv'
  OBVIOUS
<1>0. SecretsTypeOK'
  BY SecretsTyped DEF SecretsInv
<1> USE <1>0, SecretsAssumption
    DEF SecretsInv, SecretsTypeOK, FetchesApart, AskedIsKnown, ReceivedIsFresh,
        StoredIsFresh, RefreshIsFresh, FetchedIsKept, FetchedOnce, Underway, Fetching,
        Others, Absent
<1>1. ASSUME NEW r \in Readers, NEW n \in Names, NEW refresh \in BOOLEAN,
             Ask(r, n, refresh)
      PROVE  SecretsInv'
  <2>1. /\ reading'[r].name = n /\ reading'[r].refresh = refresh
        /\ reading'[r].at = IF ~Cached(n, refresh) THEN "calling" ELSE "answering"
        /\ \A q \in Others(r) : reading'[q] = reading[q]
    BY <1>1 DEF Ask
  <2>2. /\ asked'[r] = newest[n]
        /\ \A q \in Others(r) : asked'[q] = asked[q]
    BY <1>1 DEF Ask
  <2>3. /\ ~disturbed'[r] => \A o \in Others(r) : ~Fetching(o, n)
        /\ \A q \in Others(r) : ~disturbed'[q] =>
             ~disturbed[q] /\ (Cached(n, refresh) \/ reading[q].name # n)
    <3> HIDE DEF Others, Fetching, FetchesApart, AskedIsKnown, ReceivedIsFresh, FetchedIsKept
    <3>1. disturbed' = [q \in Readers |->
                          IF q = r THEN \E o \in Others(r) : Fetching(o, n)
                          ELSE disturbed[q] \/ (~Cached(n, refresh) /\ reading[q].name = n)]
      BY <1>1, Zenon DEF Ask
    <3>2. disturbed'[r] <=> \E o \in Others(r) : Fetching(o, n)
      BY <3>1, Zenon
    <3>3. \A q \in Others(r) :
            disturbed'[q] <=> (disturbed[q] \/ (~Cached(n, refresh) /\ reading[q].name = n))
      BY <3>1, Zenon DEF Others
    <3> QED
      BY <3>2, <3>3, Zenon
  <2>4. UNCHANGED <<newest, cache>> /\ Between(r)
    BY <1>1 DEF Ask
  <2>5. FetchesApart'
    <3> SUFFICES ASSUME NEW q \in Readers, NEW o \in Others(q),
                        ~disturbed'[q], reading[q].at' \in Underway,
                        Fetching(o, reading[q].name)'
                 PROVE  FALSE
      BY DEF FetchesApart
    <3>1. CASE q = r
      BY <3>1, <2>1, <2>3
    <3>2. CASE o = r
      BY <3>2, <2>1, <2>3
    <3>3. CASE q # r /\ o # r
      BY <3>3, <2>1, <2>3
    <3> QED
      BY <3>1, <3>2, <3>3
  <2>6. AskedIsKnown' /\ ReceivedIsFresh' /\ RefreshIsFresh'
    <3>1. AskedIsKnown'
      BY <2>1, <2>2, <2>4
    <3>2. ReceivedIsFresh'
      BY <2>1, <2>2
    <3>3. RefreshIsFresh'
      BY <2>1, <2>2, <2>3
    <3> QED
      BY <3>1, <3>2, <3>3
  <2>7. StoredIsFresh'
    BY <2>1, <2>2, <2>3, <2>4 DEF Cached
  <2>8. FetchedIsKept' /\ FetchedOnce'
    <3>1. CASE UNCHANGED fetches
      BY <3>1, <2>1, <2>4 DEF Between
    <3>2. CASE /\ ~Cached(n, refresh) /\ ~refresh
               /\ \A o \in Others(r) : ~Fetching(o, n)
               /\ fetches' = [fetches EXCEPT ![n] = @ + 1]
      <4>1. fetches[n] = 0
        BY <3>2, <2>4 DEF Cached, Between
      <4>2. fetches'[n] = 1 /\ \A m \in Names \ {n} : fetches'[m] = fetches[m]
        BY <3>2, <4>1
      <4>3. Fetching(r, n)' /\ ~reading'[r].refresh
        BY <3>2, <2>1
      <4>4. \A q \in Readers, m \in Names \ {n} :
              Fetching(q, m) /\ ~reading[q].refresh => Fetching(q, m)' /\ ~reading'[q].refresh
        BY <2>1, <2>4 DEF Between
      <4>5. FetchedOnce'
        BY <4>2
      <4>6. FetchedIsKept'
        <5> HIDE DEF Fetching
        <5> QED
          BY SMTT(30), <4>2, <4>3, <4>4, <2>4
      <4> QED
        BY <4>5, <4>6
    <3> QED
      BY <1>1, <3>1, <3>2 DEF Ask
  <2> QED
    BY <1>0, <2>5, <2>6, <2>7, <2>8 DEF SecretsInv
<1>2. ASSUME NEW r \in Readers, NEW n \in Names, NEW refresh \in BOOLEAN,
             AskInVain(r, n, refresh)
      PROVE  SecretsInv'
  <2>1. /\ Between(r) /\ reading'[r].at = "raised"
        /\ \A q \in Others(r) : reading'[q] = reading[q]
        /\ UNCHANGED <<newest, cache, asked, disturbed, fetches>>
    BY <1>2 DEF AskInVain, NotReading
  <2>2. FetchesApart'
    BY <2>1
  <2>3. AskedIsKnown' /\ ReceivedIsFresh'
    BY <2>1
  <2>4. StoredIsFresh' /\ RefreshIsFresh'
    <3>1. StoredIsFresh'
      BY SMTT(30), <2>1
    <3>2. RefreshIsFresh'
      BY SMTT(30), <2>1
    <3> QED
      BY <3>1, <3>2
  <2>5. FetchedIsKept' /\ FetchedOnce'
    BY <2>1 DEF Between
  <2> QED
    BY <1>0, <2>2, <2>3, <2>4, <2>5 DEF SecretsInv
<1>3. ASSUME NEW r \in Readers, Respond(r)    PROVE SecretsInv'
  <2>1. /\ reading[r].at = "calling" /\ reading'[r].at = "received"
        /\ reading'[r].name = reading[r].name /\ reading'[r].refresh = reading[r].refresh
        /\ reading'[r].value = newest[reading[r].name]
        /\ \A q \in Others(r) : reading'[q] = reading[q]
        /\ UNCHANGED <<newest, cache, asked, disturbed, fetches>>
    BY <1>3 DEF Respond
  <2>2. FetchesApart'
    BY <2>1
  <2>3. AskedIsKnown'
    BY <2>1
  <2>4. ReceivedIsFresh'
    <3>1. asked[r] <= newest[reading[r].name]
      BY <2>1 DEF AskedIsKnown
    <3>2. /\ asked[r] \in Nat /\ newest[reading[r].name] \in Nat
      BY DEF SecretsTypeOK
    <3>3. reading'[r].value >= asked'[r]
      BY <3>1, <3>2, <2>1
    <3>4. \A q \in Others(r) : reading'[q].at = "received" => reading'[q].value >= asked'[q]
      BY <2>1
    <3> QED
      BY <3>3, <3>4 DEF ReceivedIsFresh
  <2>5. StoredIsFresh' /\ RefreshIsFresh'
    <3>1. StoredIsFresh'
      BY SMTT(30), <2>1
    <3>2. RefreshIsFresh'
      BY SMTT(30), <2>1
    <3> QED
      BY <3>1, <3>2
  <2>6. FetchedIsKept' /\ FetchedOnce'
    BY <2>1
  <2> QED
    BY <1>0, <2>2, <2>3, <2>4, <2>5, <2>6 DEF SecretsInv
<1>4. ASSUME NEW r \in Readers, FetchFails(r) PROVE SecretsInv'
  <2> DEFINE n == reading[r].name
  <2>1. /\ reading[r].at = "calling" /\ reading'[r].at = "raised"
        /\ reading'[r].name = n /\ reading'[r].refresh = reading[r].refresh
        /\ \A q \in Others(r) : reading'[q] = reading[q]
        /\ UNCHANGED <<newest, cache, asked, disturbed>>
    BY <1>4 DEF FetchFails
  <2>2. \/ reading[r].refresh /\ UNCHANGED fetches
        \/ fetches' = [fetches EXCEPT ![n] = 0]
    BY <1>4 DEF FetchFails
  <2>3. FetchesApart'
    BY <2>1
  <2>4. AskedIsKnown' /\ ReceivedIsFresh'
    <3>1. AskedIsKnown'
      BY SMTT(30), <2>1
    <3>2. ReceivedIsFresh'
      BY SMTT(30), <2>1
    <3> QED
      BY <3>1, <3>2
  <2>5. StoredIsFresh' /\ RefreshIsFresh'
    <3>1. StoredIsFresh'
      BY SMTT(30), <2>1
    <3>2. RefreshIsFresh'
      BY SMTT(30), <2>1
    <3> QED
      BY <3>1, <3>2
  <2>6. FetchedIsKept' /\ FetchedOnce'
    <3>1. CASE reading[r].refresh /\ UNCHANGED fetches
      BY <3>1, <2>1
    <3>2. CASE fetches' = [fetches EXCEPT ![n] = 0]
      <4>1. fetches'[n] = 0 /\ \A m \in Names \ {n} : fetches'[m] = fetches[m]
        BY <3>2
      <4>2. FetchedOnce'
        BY <4>1
      <4>3. \A q \in Readers, m \in Names \ {n} :
              Fetching(q, m) /\ ~reading[q].refresh => Fetching(q, m)' /\ ~reading'[q].refresh
        BY <2>1
      <4>4. FetchedIsKept'
        <5> HIDE DEF Fetching
        <5> QED
          BY <4>1, <4>3, <2>1
      <4> QED
        BY <4>2, <4>4
    <3> QED
      BY <2>2, <3>1, <3>2
  <2> QED
    BY <1>0, <2>3, <2>4, <2>5, <2>6 DEF SecretsInv
<1>5. ASSUME NEW r \in Readers, Store(r)      PROVE SecretsInv'
  <2> DEFINE n == reading[r].name
  <2>1. /\ reading[r].at = "received" /\ reading'[r].at = "answering"
        /\ reading'[r].name = n /\ reading'[r].refresh = reading[r].refresh
        /\ \A q \in Others(r) : reading'[q] = reading[q]
    BY <1>5 DEF Store
  <2>2. /\ cache'[n] = reading[r].value
        /\ \A m \in Names \ {n} : cache'[m] = cache[m]
        /\ UNCHANGED <<newest, asked, disturbed, fetches>>
    BY <1>5 DEF Store
  <2>3. cache'[n] >= asked[r] /\ cache'[n] # Absent
    BY <2>1, <2>2
  <2>4. FetchesApart' /\ AskedIsKnown' /\ ReceivedIsFresh' /\ RefreshIsFresh'
    <3>1. FetchesApart'
      BY <2>1, <2>2
    <3>2. AskedIsKnown'
      BY <2>1, <2>2
    <3>3. ReceivedIsFresh' /\ RefreshIsFresh'
      <4>1. ReceivedIsFresh'
        BY SMTT(30), <2>1, <2>2
      <4>2. RefreshIsFresh'
        BY SMTT(30), <2>1, <2>2
      <4> QED
        BY <4>1, <4>2
    <3> QED
      BY <3>1, <3>2, <3>3
  <2>5. StoredIsFresh'
    <3> SUFFICES ASSUME NEW q \in Readers, reading'[q].at = "answering",
                        reading'[q].refresh, ~disturbed[q]
                 PROVE  cache'[reading'[q].name] >= asked[q]
      BY <2>2 DEF StoredIsFresh
    <3>1. CASE q = r
      BY <3>1, <2>1, <2>3
    <3>2. CASE q # r
      <4>1. reading[q].name # n
        BY <3>2, <2>1
      <4> QED
        BY <3>2, <4>1, <2>1, <2>2
    <3> QED
      BY <3>1, <3>2
  <2>6. FetchedIsKept' /\ FetchedOnce'
    BY SMTT(60), <2>1, <2>2, <2>3
  <2> QED
    BY <1>0, <2>4, <2>5, <2>6 DEF SecretsInv
<1>6. ASSUME NEW r \in Readers, Return(r)     PROVE SecretsInv'
  <2>1. /\ reading[r].at = "answering" /\ reading'[r].at = "returned"
        /\ reading'[r].name = reading[r].name /\ reading'[r].refresh = reading[r].refresh
        /\ reading'[r].value = cache[reading[r].name]
        /\ \A q \in Others(r) : reading'[q] = reading[q]
        /\ UNCHANGED <<newest, cache, asked, disturbed, fetches>>
    BY <1>6 DEF Return
  <2>2. FetchesApart'
    BY <2>1
  <2>3. AskedIsKnown' /\ ReceivedIsFresh'
    BY <2>1
  <2>4. StoredIsFresh' /\ RefreshIsFresh'
    <3>1. StoredIsFresh'
      BY <2>1
    <3>2. ASSUME NEW q \in Readers, reading'[q].at = "returned", reading'[q].refresh,
                 ~disturbed[q]
          PROVE  reading'[q].value >= asked[q]
      <4>1. CASE q = r
        <5>1. reading[r].refresh /\ ~disturbed[r]
          BY <3>2, <4>1, <2>1
        <5>2. cache[reading[r].name] >= asked[r]
          BY <5>1, <2>1
        <5> QED
          BY <4>1, <5>2, <2>1
      <4>2. CASE q # r
        BY <3>2, <4>2, <2>1
      <4> QED
        BY <4>1, <4>2
    <3>3. RefreshIsFresh'
      BY <3>2, <2>1
    <3> QED
      BY <3>1, <3>3
  <2>5. FetchedIsKept' /\ FetchedOnce'
    BY <2>1
  <2> QED
    BY <1>0, <2>2, <2>3, <2>4, <2>5 DEF SecretsInv
<1>7. ASSUME NEW n \in Names, Rotate(n)       PROVE SecretsInv'
  BY <1>7 DEF Rotate
<1>8. ASSUME UNCHANGED secretsVars            PROVE SecretsInv'
  BY SMTT(60), <1>8 DEF secretsVars
<1> QED
  BY SMTT(60), <1>1, <1>2, <1>3, <1>4, <1>5, <1>6, <1>7, <1>8 DEF SecretsNext

(* The invariant holds of the secrets, whoever reads them. *)
THEOREM SecretsHold == SecretsSpec => []SecretsInv
<1>1. SecretsInit => SecretsInv
  BY SecretsInitInv
<1>2. SecretsInv /\ [SecretsNext]_secretsVars => SecretsInv'
  BY SecretsStep
<1> QED
  BY <1>1, <1>2, PTL DEF SecretsSpec

-----------------------------------------------------------------------------
(* The pod                                                                 *)

(* A pod begins with a holder and secrets nobody has used. *)
LEMMA PodInits == Init => EngineInit /\ SecretsInit
BY DEF Init

(* Whatever the pod does is a step of the holder or leaves it alone, and the
   same of the secrets. *)
LEMMA PodSteps == [Next]_vars => [EngineNext]_engineVars /\ [SecretsNext]_secretsVars
<1> SUFFICES ASSUME [Next]_vars
             PROVE  [EngineNext]_engineVars /\ [SecretsNext]_secretsVars
  OBVIOUS
<1> USE PodAssumption DEF Fail, AskEngine
<1>1. CASE ResolveModels
  BY <1>1 DEF ResolveModels
<1>2. CASE ResolvePeers
  BY <1>2 DEF ResolvePeers
<1>3. CASE BuildSession
  BY <1>3 DEF BuildSession, EngineNext
<1>4. CASE BuildMemory
  BY <1>4 DEF BuildMemory
<1>5. CASE BuildArtifacts
  BY <1>5 DEF BuildArtifacts
<1>6. CASE BuildTasks
  BY <1>6 DEF BuildTasks, EngineNext
<1>7. CASE BuildCases
  BY <1>7 DEF BuildCases
<1>8. CASE BuildAgent
  BY <1>8 DEF BuildAgent
<1>9. CASE RegisterSurfaces
  BY <1>9 DEF RegisterSurfaces
<1>10. CASE \E c \in Callers : UseDatabase(c) \/ UseNoDatabase(c) \/ InEngine(c)
  BY <1>10 DEF UseDatabase, UseNoDatabase, InEngine, EngineNext
<1>11. CASE UseSecrets
  BY <1>11 DEF UseSecrets
<1>12. CASE Stop
  BY <1>12 DEF Stop, EngineNext
<1>13. CASE Closing
  BY <1>13 DEF Closing, EngineNext
<1>14. CASE Stopped
  BY <1>14 DEF Stopped
<1>15. CASE UNCHANGED vars
  BY <1>15 DEF vars
<1>16. CASE ConfigureLogging
  BY <1>16 DEF ConfigureLogging
<1> QED
  BY <1>1, <1>2, <1>3, <1>4, <1>5, <1>6, <1>7, <1>8, <1>9, <1>10, <1>11, <1>12, <1>13,
     <1>14, <1>15, <1>16 DEF Next, Startup

(* The pod implements the engine holder and the secrets: what either promises
   to arbitrary callers, a pod gets. *)
THEOREM PodImplements == Spec => EngineSpec /\ SecretsSpec
BY PodInits, PodSteps, PTL DEF Spec, EngineSpec, SecretsSpec

(* Hence their invariants hold of every pod. *)
LEMMA PodHolds == Spec => [](EngineInv /\ LinkInv /\ SecretsInv)
BY PodImplements, HolderHolds, SecretsHold, PTL

(* "A pod opens one pool rather than three", in every pod, with any number of
   threads and of builds that fail. *)
THEOREM PodOpensOnePool == Spec => []OnePool
<1>1. EngineInv /\ LinkInv /\ SecretsInv => OnePool
  BY InvOnePool
<1> QED
  BY <1>1, PodHolds, PTL

(* engine() returns an engine until aclose begins. *)
THEOREM PodReturnsAnEngine == Spec => []ReturnsAnEngine
<1>1. EngineInv /\ LinkInv /\ SecretsInv => ReturnsAnEngine
  BY DEF EngineInv
<1> QED
  BY <1>1, PodHolds, PTL

(* Without a call that overlaps aclose, a usable pool has its connector, and
   only the connectors of builds that raised are left open in the end. *)
THEOREM PodConnectorsAccounted == Spec => []ConnectorsAccounted
<1>1. EngineInv /\ LinkInv /\ SecretsInv => ConnectorsAccounted
  BY InvConnectors
<1> QED
  BY <1>1, PodHolds, PTL

(* An undisturbed refresh returns a version as new as the question. *)
THEOREM PodRefreshIsFresh == Spec => []RefreshIsFresh
<1>1. EngineInv /\ LinkInv /\ SecretsInv => RefreshIsFresh
  BY DEF SecretsInv
<1> QED
  BY <1>1, PodHolds, PTL

(* Threads that do not overlap fetch a name once, however they fail. *)
THEOREM PodFetchedOnce == Spec => []FetchedOnce
<1>1. EngineInv /\ LinkInv /\ SecretsInv => FetchedOnce
  BY DEF SecretsInv
<1> QED
  BY <1>1, PodHolds, PTL

(* Until aclose begins, who got an engine got the one the holder has. *)
HoldsTheEngine ==
  \A c \in Callers : at[c] = "returned" /\ closer = "open" => got[c] = engine /\ engine # None

(* The holder's engine stays until aclose begins. *)
LEMMA EngineLasts ==
  EngineInv /\ [EngineNext]_engineVars /\ closer' = "open" =>
    closer = "open" /\ (engine # None => engine' = engine)
BY DEF EngineInv, EngineTypeOK, BuildsAlone, EngineNext, CallStep, CloseStep, engineVars,
       config, fields, closing, history,
       Call, CallDisabled, FastReturn, Acquire, LookAgain, MakeConnector, CreateEngine,
       BuildRaises, Leave, Rest, BeginClose, PoolDisposed, BeginCloseConnector,
       ConnectorClosed

(* What was returned is still the holder's engine after any step. *)
LEMMA HoldsTheEngineStep ==
  EngineInv /\ HoldsTheEngine /\ [EngineNext]_engineVars => HoldsTheEngine'
<1> SUFFICES ASSUME EngineInv, HoldsTheEngine, [EngineNext]_engineVars,
                    NEW c \in Callers, at'[c] = "returned", closer' = "open"
             PROVE  got'[c] = engine' /\ engine' # None
  BY DEF HoldsTheEngine
<1>1. closer = "open" /\ (engine # None => engine' = engine)
  BY EngineLasts
<1>2. CASE at[c] = "returned" /\ got'[c] = got[c]
  BY <1>1, <1>2 DEF HoldsTheEngine
<1>3. CASE FastReturn(c) \/ Leave(c)
  BY <1>1, <1>3 DEF EngineInv, EngineTypeOK, SeesEngine, FastReturn, Leave, fields
<1>4. (at[c] = "returned" /\ got'[c] = got[c]) \/ FastReturn(c) \/ Leave(c)
  BY DEF EngineInv, EngineTypeOK, EngineNext, CallStep, CloseStep, engineVars,
         config, fields, closing, history, Goes, Builder,
         Call, CallDisabled, FastReturn, Acquire, LookAgain, MakeConnector, CreateEngine,
         BuildRaises, Leave, Rest, BeginClose, PoolDisposed, BeginCloseConnector,
         ConnectorClosed
<1> QED
  BY <1>2, <1>3, <1>4

(* A store on the shared engine holds the holder's. *)
Holds(service) ==
  closer = "open" /\ service.kind = "engine" => service.engine = engine /\ engine # None

WiringInv == HoldsTheEngine /\ Holds(session) /\ Holds(task)

(* A store made from what the main thread got holds the holder's engine, and
   the others hold none. *)
LEMMA WiringStep == EngineInv /\ WiringInv /\ [Next]_vars => WiringInv'
<1> SUFFICES ASSUME EngineInv, WiringInv, [Next]_vars
             PROVE  WiringInv'
  OBVIOUS
<1>1. HoldsTheEngine'
  BY PodSteps, HoldsTheEngineStep DEF WiringInv
<1>2. closer' = "open" => closer = "open" /\ (engine # None => engine' = engine)
  BY PodSteps, EngineLasts
<1>3. ASSUME UNCHANGED session PROVE Holds(session)'
  BY <1>2, <1>3 DEF WiringInv, Holds
<1>4. ASSUME UNCHANGED task PROVE Holds(task)'
  BY <1>2, <1>4 DEF WiringInv, Holds
<1>5. CASE UNCHANGED <<session, task>>
  BY <1>1, <1>3, <1>4, <1>5 DEF WiringInv
<1>6. CASE BuildSession /\ ~UNCHANGED session
  <2>1. /\ session' = [kind |-> SessionService(env),
                       engine |-> IF HasEngine THEN got[Main] ELSE None]
        /\ SessionService(env) = "engine" => HasEngine
        /\ UNCHANGED task
    BY <1>6 DEF BuildSession, Fail, AskEngine, podVars
  <2>2. Holds(session)'
    BY <1>2, <2>1, PodAssumption DEF WiringInv, HoldsTheEngine, HasEngine, Holds
  <2> QED
    BY <1>1, <1>4, <2>1, <2>2 DEF WiringInv
<1>7. CASE BuildTasks /\ ~UNCHANGED task
  <2>1. /\ task' = [kind |-> TaskStore(env),
                    engine |-> IF HasEngine THEN got[Main] ELSE None]
        /\ TaskStore(env) = "engine" => HasEngine
        /\ UNCHANGED session
    BY <1>7 DEF BuildTasks, Fail, AskEngine, podVars
  <2>2. Holds(task)'
    BY <1>2, <2>1, PodAssumption DEF WiringInv, HoldsTheEngine, HasEngine, Holds
  <2> QED
    BY <1>1, <1>3, <2>1, <2>2 DEF WiringInv
<1>8. \/ UNCHANGED <<session, task>>
      \/ BuildSession /\ ~UNCHANGED session
      \/ BuildTasks /\ ~UNCHANGED task
  BY DEF Next, Startup, ConfigureLogging, ResolveModels, ResolvePeers, BuildSession, BuildMemory,
         BuildArtifacts, BuildTasks, BuildCases, BuildAgent, RegisterSurfaces, UseDatabase,
         UseNoDatabase, InEngine, UseSecrets, Stop, Closing, Stopped, Fail, AskEngine,
         vars, podVars
<1> QED
  BY <1>5, <1>6, <1>7, <1>8

(* The session store and the task store of a pod use the same engine, the one
   the case store gets, until the pod shuts down. *)
THEOREM PodStoresShareEngine == Spec => []StoresShareEngine
<1>1. Init => WiringInv
  BY DEF Init, EngineInit, WiringInv, HoldsTheEngine, Holds, NoService
<1>2. EngineInv /\ WiringInv /\ [Next]_vars => WiringInv'
  BY WiringStep
<1>3. WiringInv => StoresShareEngine
  BY DEF WiringInv, Holds, StoresShareEngine
<1>4. EngineInv /\ LinkInv /\ SecretsInv => EngineInv
  OBVIOUS
<1> QED
  BY <1>1, <1>2, <1>3, <1>4, PodHolds, PTL DEF Spec

(* What the phase of a pod says of the configuration it was built from. *)
AfterSession == {"memory", "artifacts", "tasks", "cases", "agent", "web",
                 "serving", "stopping", "stopped"}
AfterMemory == AfterSession \ {"memory"}
AfterArtifacts == AfterMemory \ {"artifacts"}
AfterTasks  == {"cases", "agent", "web", "serving", "stopping", "stopped"}
AfterAgent  == {"web", "serving", "stopping", "stopped"}

AfterLogging == AfterSession \cup {"models", "resolver", "session"}

ConfigInv ==
  /\ env \in Environments
  /\ phase \in AfterLogging => LogLevel(env) \in LogLevels
  /\ phase \in AfterSession => ~DatabaseMisconfigured(env) /\ SessionService(env) # Misfit
  /\ phase \in AfterMemory => MemoryService(env) # Misfit
  /\ phase \in AfterArtifacts => ArtifactService(env) # Misfit
  /\ phase \in AfterTasks => TaskStore(env) # Misfit
  /\ Serving => env.google
  /\ phase \in AfterAgent => AgentName(env) \in AGENTS
  /\ cases = "engine" => DatabaseEnabled(env)
  /\ session.kind = "engine" => DatabaseEnabled(env)
  /\ Serving => web = [session |-> RegistersSession, artifact |-> RegistersArtifact]

(* Only a configured database gives a store on the engine. *)
LEMMA EngineNeedsDatabase ==
  /\ SessionService(env) = "engine" => DatabaseEnabled(env)
  /\ CaseStore(env) = "engine" => DatabaseEnabled(env)
BY DEF SessionService, CaseStore, Misfit

(* Each stage of the import lets through what it accepts, and what was accepted
   stays, since the environment does. *)
LEMMA ConfigStep == ConfigInv /\ [Next]_vars => ConfigInv'
<1> SUFFICES ASSUME ConfigInv, [Next]_vars
             PROVE  ConfigInv'
  OBVIOUS
<1>1. env' = env
  BY DEF Next, Startup, ConfigureLogging, ResolveModels, ResolvePeers, BuildSession, BuildMemory,
         BuildArtifacts, BuildTasks, BuildCases, BuildAgent, RegisterSurfaces, UseDatabase,
         UseNoDatabase, InEngine, UseSecrets, Stop, Closing, Stopped, Fail, AskEngine,
         vars, podVars
<1> DEFINE Kept == /\ ~DatabaseMisconfigured(env)' <=> ~DatabaseMisconfigured(env)
                   /\ SessionService(env)' = SessionService(env)
                   /\ MemoryService(env)' = MemoryService(env)
                   /\ TaskStore(env)' = TaskStore(env)
                   /\ ArtifactService(env)' = ArtifactService(env)
                   /\ LogLevel(env)' = LogLevel(env)
                   /\ AgentName(env)' = AgentName(env)
                   /\ DatabaseEnabled(env)' <=> DatabaseEnabled(env)
                   /\ RegistersSession' = RegistersSession
                   /\ RegistersArtifact' = RegistersArtifact
<1>2. Kept
  BY <1>1 DEF Late, RegistersSession, RegistersArtifact
<1> HIDE DEF Kept
<1> USE DEF ConfigInv, AfterLogging, AfterSession, AfterMemory, AfterArtifacts, AfterTasks,
            AfterAgent, Serving, Fail, AskEngine, Building, podVars
<1>3. CASE ConfigureLogging \/ ResolveModels \/ ResolvePeers
  BY <1>1, <1>2, <1>3 DEF Kept, ConfigureLogging, ResolveModels, ResolvePeers
<1>4. CASE BuildSession
  BY <1>1, <1>2, <1>4, EngineNeedsDatabase DEF Kept, BuildSession, Misfit
<1>5. CASE BuildMemory \/ BuildArtifacts
  BY <1>1, <1>2, <1>5 DEF Kept, BuildMemory, BuildArtifacts
<1>6. CASE BuildTasks
  BY <1>1, <1>2, <1>6 DEF Kept, BuildTasks, Misfit
<1>7. CASE BuildCases
  BY <1>1, <1>2, <1>7, EngineNeedsDatabase DEF Kept, BuildCases
<1>8. CASE BuildAgent
  BY <1>1, <1>2, <1>8 DEF Kept, BuildAgent
<1>9. CASE RegisterSurfaces
  BY <1>1, <1>2, <1>9 DEF Kept, RegisterSurfaces
<1>10. CASE \E c \in Callers : UseDatabase(c) \/ UseNoDatabase(c) \/ InEngine(c)
  BY <1>1, <1>2, <1>10 DEF Kept, UseDatabase, UseNoDatabase, InEngine
<1>11. CASE UseSecrets \/ Closing \/ UNCHANGED vars
  BY <1>1, <1>2, <1>11 DEF Kept, UseSecrets, Closing, vars
<1>12. CASE Stop \/ Stopped
  BY <1>1, <1>2, <1>12 DEF Kept, Stop, Stopped
<1> QED
  BY <1>3, <1>4, <1>5, <1>6, <1>7, <1>8, <1>9, <1>10, <1>11, <1>12 DEF Next, Startup

(* The configuration a pod was built from, in every state of it. *)
LEMMA ConfigHolds == Spec => []ConfigInv
<1>1. Init => ConfigInv
  BY DEF Init, ConfigInv, AfterLogging, AfterSession, AfterMemory, AfterArtifacts, AfterTasks,
         AfterAgent, Serving, NoService
<1>2. ConfigInv /\ [Next]_vars => ConfigInv'
  BY ConfigStep
<1> QED
  BY <1>1, <1>2, PTL DEF Spec

(* Misconfiguration fails fast: a pod that serves has none of the mistakes that
   the documentation says raise at startup. *)
THEOREM PodServesConfigured == Spec => [](Serving => ~Misconfigured(env))
<1>1. ConfigInv => (Serving => ~Misconfigured(env))
  <2> SUFFICES ASSUME ConfigInv, Serving
               PROVE  ~Misconfigured(env)
    OBVIOUS
  <2> USE DEF Lowered, Stripped, OrElse, IsGiven, Unset, Blank, Loud
  <2>1. /\ ~DatabaseMisconfigured(env)
        /\ SessionService(env) # Misfit
        /\ MemoryService(env) # Misfit
        /\ TaskStore(env) # Misfit
        /\ AgentName(env) \in AGENTS
        /\ ArtifactService(env) # Misfit
        /\ LogLevel(env) \in LogLevels
    BY DEF ConfigInv, Serving, AfterLogging, AfterSession, AfterMemory, AfterArtifacts,
           AfterTasks, AfterAgent
  <2>2. /\ Selector(env.db_backend, {"", "none", "alloydb", "url"})
        /\ Lowered(env.db_backend, "none") = "alloydb" =>
             {env.instance_uri, env.iam_user} \cap {Unset, Blank, ""} = {}
        /\ Lowered(env.db_backend, "none") = "url" => env.db_url \notin {Unset, Blank, ""}
    BY <2>1 DEF DatabaseMisconfigured, DatabaseBackend, Selector
  <2>3. /\ Selector(env.session_backend, {"in_memory", "alloydb", "database", "vertex_ai"})
        /\ Lowered(env.session_backend, "") = "alloydb" =>
             Lowered(env.db_backend, "none") \notin {"none", ""}
        /\ Lowered(env.session_backend, "") = "database" =>
             env.session_db_url \notin {Unset, Blank, ""}
    BY <2>1 DEF SessionService, DatabaseEnabled, DatabaseBackend, Selector, Misfit
  <2>4. Selector(env.memory_backend, {"in_memory", "vertex_ai"})
    BY <2>1 DEF MemoryService, Selector, Misfit
  <2>5. /\ Selector(env.task_store_backend, {"in_memory", "database"})
        /\ Lowered(env.task_store_backend, "") = "database" =>
             Lowered(env.db_backend, "none") \notin {"none", ""}
    BY <2>1 DEF TaskStore, DatabaseEnabled, DatabaseBackend, Selector, Misfit
  <2>6. env.agent_name \in AGENTS \cup {Unset, Blank, ""}
    BY <2>1 DEF AgentName, AGENTS, DEFAULT_AGENT
  <2>7. Stripped(env.artifact_uri, "") # "az"
    BY <2>1 DEF ArtifactService, Misfit
  <2>8. env.log_level \in LogLevels \cup {Unset, ""}
    BY <2>1 DEF LogLevel
  <2> HIDE DEF Lowered, Stripped, OrElse, IsGiven, Unset, Blank, Loud
  <2> QED
    BY <2>2, <2>3, <2>4, <2>5, <2>6, <2>7, <2>8 DEF Misconfigured
<1> QED
  BY <1>1, ConfigHolds, PTL

(* The .env file, read after the services were built, can add a database but
   not take one away: a store on the engine is always registered with the web
   routes too. *)
THEOREM PodSurfacesShare == Spec => []SurfacesShare
<1>1. ConfigInv => SurfacesShare
  <2> SUFFICES ASSUME ConfigInv, Serving
               PROVE  /\ DatabaseEnabled(env) => RegistersSession
                      /\ IsGiven(env.artifact_uri) => RegistersArtifact
    BY DEF ConfigInv, SurfacesShare
  <2>1. /\ env.db_backend # Unset => Late.db_backend = env.db_backend
        /\ env.artifact_uri # Unset => Late.artifact_uri = env.artifact_uri
    BY PodAssumption DEF ConfigInv, Late
  <2>2. DatabaseEnabled(env) => env.db_backend # Unset
    BY DEF DatabaseEnabled, DatabaseBackend, Lowered, Stripped, OrElse, Unset, Loud
  <2>3. DatabaseEnabled(env) => DatabaseEnabled(Late)
    BY <2>1, <2>2 DEF DatabaseEnabled, DatabaseBackend
  <2>4. IsGiven(env.artifact_uri) => IsGiven(Late.artifact_uri)
    BY <2>1 DEF IsGiven, Stripped
  <2> QED
    BY <2>3, <2>4 DEF RegistersSession, RegistersArtifact
<1> QED
  BY <1>1, ConfigHolds, PTL

(* "Each agent lands in its own schema", whatever else is configured. *)
THEOREM PodSchemaPerAgent == Spec => []SchemaPerAgent
<1>1. ConfigInv => SchemaPerAgent
  <2> SUFFICES ASSUME ConfigInv, Serving, OnPostgres(env), env.db_schema = Unset,
                      NEW name \in AGENTS \ {AgentName(env)}
               PROVE  TablesIn([env EXCEPT !.agent_name = name]) # TablesIn(env)
    BY DEF SchemaPerAgent
  <2> DEFINE other == [env EXCEPT !.agent_name = name]
  <2>1. /\ other.agent_name = name
        /\ other.db_backend = env.db_backend
        /\ other.db_url = env.db_url
        /\ other.db_schema = env.db_schema
    BY PodAssumption DEF ConfigInv
  <2> HIDE DEF other
  <2>2. AgentName(env) \in AGENTS /\ AgentName(other) = name
    BY <2>1 DEF ConfigInv, Serving, AfterAgent, AgentName, AGENTS, DEFAULT_AGENT, OrElse,
                Stripped, Unset, Blank
  <2>3. DbSchema(env) = AgentName(env) /\ DbSchema(other) = name
    BY <2>1, <2>2 DEF DbSchema, Stripped
  <2>4. PinsSchema(env) /\ PinsSchema(other)
    BY <2>1, <2>2, <2>3 DEF OnPostgres, PinsSchema, DatabaseBackend, AGENTS
  <2>5. TablesIn(env) = AgentName(env) /\ TablesIn(other) = name
    BY <2>3, <2>4 DEF TablesIn
  <2> QED
    BY <2>5 DEF other
<1> QED
  BY <1>1, ConfigHolds, PTL

-----------------------------------------------------------------------------
(* What the import leaves behind                                           *)

AfterResolver == AfterSession \cup {"session"}
AfterModels   == AfterResolver \cup {"resolver"}

ModelsFound ==
  phase \in AfterModels =>
    /\ models = [t \in Tiers |-> ResolveModelId(env, t)]
    /\ \A t \in Tiers : models[t] # NoModel

PeersResolved == phase \in AfterResolver => tools = ResolveAll(ClusterConfig(env))

(* The models and the tools a pod has are those of its environment. *)
LEMMA ImportStep ==
  ModelsFound /\ PeersResolved /\ [Next]_vars => ModelsFound' /\ PeersResolved'
<1> SUFFICES ASSUME ModelsFound, PeersResolved, [Next]_vars
             PROVE  ModelsFound' /\ PeersResolved'
  OBVIOUS
<1>0. CASE ConfigureLogging
  BY <1>0 DEF ConfigureLogging, Building, Fail, ModelsFound, PeersResolved, AfterModels,
              AfterResolver, AfterSession
<1>1. CASE ResolveModels
  BY <1>1 DEF ResolveModels, Building, Fail, ModelsFound, PeersResolved, AfterModels,
              AfterResolver, AfterSession
<1>2. CASE ResolvePeers
  BY <1>2 DEF ResolvePeers, Building, ModelsFound, PeersResolved, AfterModels,
              AfterResolver, AfterSession
<1>3. ASSUME UNCHANGED <<env, models, tools>>,
             phase' \in AfterModels => phase \in AfterModels,
             phase' \in AfterResolver => phase \in AfterResolver
      PROVE  ModelsFound' /\ PeersResolved'
  BY <1>3, Zenon DEF ModelsFound, PeersResolved
<1> USE DEF Building, Fail, AskEngine, podVars, AfterModels, AfterResolver, AfterSession
<1>4. CASE BuildSession
  BY <1>3, <1>4 DEF BuildSession
<1>5. CASE BuildMemory \/ BuildArtifacts
  BY <1>3, <1>5 DEF BuildMemory, BuildArtifacts
<1>6. CASE BuildTasks
  BY <1>3, <1>6 DEF BuildTasks
<1>7. CASE BuildCases \/ BuildAgent
  BY <1>3, <1>7 DEF BuildCases, BuildAgent
<1>8. CASE RegisterSurfaces
  BY <1>3, <1>8 DEF RegisterSurfaces
<1>9. CASE \E c \in Callers : UseDatabase(c) \/ UseNoDatabase(c) \/ InEngine(c)
  BY <1>3, <1>9 DEF UseDatabase, UseNoDatabase, InEngine
<1>10. CASE UseSecrets \/ Closing \/ UNCHANGED vars
  BY <1>3, <1>10 DEF UseSecrets, Closing, vars
<1>11. CASE Stop \/ Stopped
  BY <1>3, <1>11 DEF Stop, Stopped
<1> QED
  BY <1>0, <1>1, <1>2, <1>4, <1>5, <1>6, <1>7, <1>8, <1>9, <1>10, <1>11 DEF Next, Startup

LEMMA ImportHolds == Spec => [](ModelsFound /\ PeersResolved)
<1>1. Init => ModelsFound /\ PeersResolved
  BY DEF Init, ModelsFound, PeersResolved, AfterModels, AfterResolver, AfterSession
<1>2. ModelsFound /\ PeersResolved /\ [Next]_vars => ModelsFound' /\ PeersResolved'
  BY ImportStep
<1> QED
  BY <1>1, <1>2, PTL DEF Spec

(* What an environment's catalog has to offer a tier that nobody pinned. *)
LEMMA ResolvesLatest ==
  ASSUME NEW e \in Environments, NEW t \in Tiers, e.pins[t] = NoModel
  PROVE  IF NoModelFor(e, t) THEN ResolveModelId(e, t) = NoModel
         ELSE /\ ResolveModelId(e, t) # NoModel
              /\ Latest(ResolveModelId(e, t), e.catalog, FamilyOf(t))
<1>1. e.catalog \in Seq(ModelIds) /\ FamilyOf(t) \in Families
  BY PodAssumption DEF FamilyOf, Tiers, Families
<1> DEFINE selected == SelectLatestModel(e.catalog, FamilyOf(t))
<1>2. IF \E i \in DOMAIN e.catalog : Candidate(e.catalog[i], FamilyOf(t))
      THEN Latest(selected, e.catalog, FamilyOf(t)) ELSE selected = NoModel
  BY <1>1, SelectsLatest, Zenon
<1>3. ResolveModelId(e, t) = selected
  BY DEF ResolveModelId
<1>4. \A i \in DOMAIN e.catalog :
        Candidate(e.catalog[i], FamilyOf(t)) <=>
          TextModel(e.catalog[i], FamilyOf(t)) \/ Disguised(e.catalog[i], FamilyOf(t))
  <2>1. \A i \in DOMAIN e.catalog : e.catalog[i] \in ModelIds
    BY <1>1, ElementOfSeq, LenProperties
  <2> QED
    BY <2>1, CandidateKinds
<1> HIDE DEF selected
<1>5. Latest(selected, e.catalog, FamilyOf(t)) => selected # NoModel
  <2>1. Latest(selected, e.catalog, FamilyOf(t)) => selected.family = FamilyOf(t)
    BY DEF Latest, TextModel, Disguised
  <2>2. NoModel.family \notin Families
    BY DEF NoModel, ModelId, Families
  <2> QED
    BY <1>1, <2>1, <2>2, Zenon
<1> QED
  BY <1>2, <1>3, <1>4, <1>5, Zenon DEF NoModelFor

(* "Latest": in every pod, whatever its catalog lists, an unpinned tier has a
   model that no general-purpose one of its family beats, and is one itself or
   a variant in disguise. *)
THEOREM PodLatestModels == Spec => []LatestModels
<1>1. ConfigInv /\ ModelsFound => LatestModels
  <2> SUFFICES ASSUME ConfigInv, ModelsFound, Serving, NEW t \in Tiers, env.pins[t] = NoModel
               PROVE  Latest(models[t], env.catalog, FamilyOf(t))
    BY DEF LatestModels
  <2>1. models[t] = ResolveModelId(env, t) /\ models[t] # NoModel
    BY DEF ModelsFound, Serving, AfterModels, AfterResolver, AfterSession
  <2>2. env \in Environments
    BY DEF ConfigInv
  <2> QED
    BY <2>1, <2>2, ResolvesLatest, Zenon
<1> QED
  BY <1>1, ConfigHolds, ImportHolds, PTL

-----------------------------------------------------------------------------
(* What a pod that does not come up has in common with the documentation   *)

(* While the services are built the main thread sees an exception only of a
   build that was counted. *)
RaisedCounts == phase \in Wiring /\ at[Main] = "raised" => failures > 0

Mistaken ==
  \/ Misconfigured(env) \/ Misconfigured(Late) \/ Doubtful(env)
  \/ ~env.google
  \/ \E t \in Tiers : NoModelFor(env, t)

FailsForAReason == phase = "failed" => Mistaken \/ failures > 0

(* The services refuse only what the documentation says raises. *)
LEMMA RefusedIsMisconfigured ==
  ASSUME NEW e
  PROVE  /\ DatabaseMisconfigured(e) => Misconfigured(e)
         /\ SessionService(e) = Misfit => Misconfigured(e)
         /\ MemoryService(e) = Misfit => Misconfigured(e)
         /\ TaskStore(e) = Misfit => Misconfigured(e)
         /\ AgentName(e) \notin AGENTS => Misconfigured(e)
         /\ ArtifactService(e) = Misfit => Misconfigured(e)
         /\ LogLevel(e) \notin LogLevels => Misconfigured(e)
<1> USE DEF Lowered, Stripped, OrElse, IsGiven, Unset, Blank, Loud, Selector
<1>1. DatabaseMisconfigured(e) =>
        \/ ~Selector(e.db_backend, {"", "none", "alloydb", "url"})
        \/ Lowered(e.db_backend, "none") = "alloydb" /\ {e.instance_uri, e.iam_user} \cap {Unset, Blank, ""} # {}
        \/ Lowered(e.db_backend, "none") = "url" /\ e.db_url \in {Unset, Blank, ""}
  BY DEF DatabaseMisconfigured, DatabaseBackend
<1>2. SessionService(e) = Misfit =>
        \/ ~Selector(e.session_backend, {"in_memory", "alloydb", "database", "vertex_ai"})
        \/ Lowered(e.session_backend, "") = "alloydb" /\ Lowered(e.db_backend, "none") \in {"none", ""}
        \/ Lowered(e.session_backend, "") = "database" /\ e.session_db_url \in {Unset, Blank, ""}
  BY DEF SessionService, DatabaseEnabled, DatabaseBackend, Misfit
<1>3. MemoryService(e) = Misfit => ~Selector(e.memory_backend, {"in_memory", "vertex_ai"})
  BY DEF MemoryService, Misfit
<1>4. TaskStore(e) = Misfit =>
        \/ ~Selector(e.task_store_backend, {"in_memory", "database"})
        \/ Lowered(e.task_store_backend, "") = "database" /\ Lowered(e.db_backend, "none") \in {"none", ""}
  BY DEF TaskStore, DatabaseEnabled, DatabaseBackend, Misfit
<1>5. AgentName(e) \notin AGENTS => e.agent_name \notin AGENTS \cup {Unset, Blank, ""}
  BY DEF AgentName, AGENTS, DEFAULT_AGENT
<1>6. ArtifactService(e) = Misfit => Stripped(e.artifact_uri, "") = "az"
  BY DEF ArtifactService, Misfit
<1>7. LogLevel(e) \notin LogLevels => e.log_level \notin LogLevels \cup {Unset, ""}
  BY DEF LogLevel, LogLevels
<1> HIDE DEF Lowered, Stripped, OrElse, IsGiven, Unset, Blank, Loud, Selector
<1> QED
  BY <1>1, <1>2, <1>3, <1>4, <1>5, <1>6, <1>7, Zenon DEF Misconfigured

(* The constructors that may raise belong to settings that are documented to. *)
LEMMA RaisingIsDoubtful ==
  ASSUME NEW e
  PROVE  /\ MayRaise(SessionService(e), e) => Doubtful(e)
         /\ MayRaise(MemoryService(e), e) => Doubtful(e)
         /\ MayRaise(ArtifactService(e), e) => Doubtful(e)
<1>1. MayRaise(SessionService(e), e) => Doubtful(e)
  BY DEF MayRaise, SessionService, Doubtful, Lowered, Stripped, Unset, Blank, Loud, Misfit
<1>2. MayRaise(MemoryService(e), e) => Doubtful(e)
  BY DEF MayRaise, MemoryService, Doubtful, Lowered, Stripped, Unset, Blank, Loud, Misfit
<1>3. MayRaise(ArtifactService(e), e) => Doubtful(e)
  BY DEF MayRaise, ArtifactService, Doubtful, Misfit
<1> QED
  BY <1>1, <1>2, <1>3

(* No step of the holder takes back a failure. *)
LEMMA FailuresStay ==
  EngineInv /\ [EngineNext]_engineVars =>
    failures \in Nat /\ failures' \in Nat /\ failures <= failures'
<1> SUFFICES ASSUME EngineInv, [EngineNext]_engineVars
             PROVE  failures \in Nat /\ failures' \in Nat /\ failures <= failures'
  OBVIOUS
<1>1. failures \in Nat
  BY EngineAssumption DEF EngineInv, EngineTypeOK
<1>2. failures' = failures \/ failures' = failures + 1
  BY DEF EngineNext, CallStep, CloseStep, engineVars, Call, CallDisabled, FastReturn,
         Acquire, LookAgain, MakeConnector, CreateEngine, BuildRaises, Leave, Rest,
         BeginClose, PoolDisposed, BeginCloseConnector, ConnectorClosed
<1> QED
  BY <1>1, <1>2

(* A call of a configured holder raises when a build does. *)
LEMMA RaisesWhenBuildDoes ==
  ASSUME EngineInv,
         \/ \E c \in Callers : Call(c) \/ CallStep(c) \/ Rest(c)
         \/ CloseStep \/ BeginClose \/ UNCHANGED engineVars
  PROVE  at'[Main] = "raised" => at[Main] = "raised" \/ failures' > 0
<1>1. failures \in Nat /\ at \in [Callers -> Outside \cup Inside] /\ Main \in Callers
  BY EngineAssumption, PodAssumption DEF EngineInv, EngineTypeOK
<1>2. ASSUME NEW c \in Callers, BuildRaises(c)
      PROVE  failures' > 0
  BY <1>1, <1>2 DEF BuildRaises
<1>3. ASSUME NEW c \in Callers, Call(c) \/ FastReturn(c) \/ Acquire(c) \/ LookAgain(c) \/
             MakeConnector(c) \/ CreateEngine(c) \/ Leave(c) \/ Rest(c)
      PROVE  at'[Main] = "raised" => at[Main] = "raised"
  BY <1>1, <1>3 DEF Call, FastReturn, Acquire, LookAgain, MakeConnector, CreateEngine,
                    Leave, Rest, Goes, Builder
<1>4. ASSUME CloseStep \/ BeginClose \/ UNCHANGED engineVars
      PROVE  at' = at
  BY <1>4 DEF CloseStep, BeginClose, PoolDisposed, BeginCloseConnector, ConnectorClosed,
              engineVars
<1> QED
  BY <1>2, <1>3, <1>4 DEF CallStep

(* A pod that does not come up was told to use what it could not have. *)
LEMMA FailureStep ==
  EngineInv /\ ConfigInv /\ RaisedCounts /\ FailsForAReason /\ [Next]_vars =>
    RaisedCounts' /\ FailsForAReason'
<1> SUFFICES ASSUME EngineInv, ConfigInv, RaisedCounts, FailsForAReason, [Next]_vars
             PROVE  RaisedCounts' /\ FailsForAReason'
  OBVIOUS
<1> DEFINE Sober == at'[Main] = "raised" => at[Main] = "raised" \/ failures' > 0
           Fails == phase' = "failed" => Mistaken \/ failures > 0
<1>1. failures \in Nat /\ failures' \in Nat /\ failures <= failures'
  BY PodSteps, FailuresStay
<1>2. ASSUME env' = env, Sober, phase \in Wiring, Fails
      PROVE  RaisedCounts' /\ FailsForAReason'
  <2>1. Mistaken' <=> Mistaken
    BY <1>2 DEF Mistaken, Late
  <2> QED
    BY <1>1, <1>2, <2>1 DEF RaisedCounts, FailsForAReason
<1>3. ASSUME env' = env, phase' = phase, Sober
      PROVE  RaisedCounts' /\ FailsForAReason'
  <2>1. Mistaken' <=> Mistaken
    BY <1>3 DEF Mistaken, Late
  <2> QED
    BY <1>1, <1>3, <2>1 DEF RaisedCounts, FailsForAReason
<1>4. ASSUME phase' \notin Wiring \cup {"failed"}
      PROVE  RaisedCounts' /\ FailsForAReason'
  BY <1>4 DEF RaisedCounts, FailsForAReason
<1>5. UNCHANGED engineVars => Sober
  BY RaisesWhenBuildDoes
<1> HIDE DEF Sober
<1>6. CASE ResolveModels
  <2>1. UNCHANGED <<env, engineVars>> /\ phase \in Wiring
    BY <1>6 DEF ResolveModels, Fail, Building, Wiring
  <2>2. Fails
    <3>1. SUFFICES ASSUME NEW t \in Tiers, ResolveModelId(env, t) = NoModel
                   PROVE  NoModelFor(env, t)
      BY <1>6 DEF ResolveModels, Fail, Building, Mistaken, Wiring
    <3>2. env.pins[t] = NoModel
      BY <3>1 DEF ResolveModelId
    <3> QED
      BY <3>1, <3>2, ResolvesLatest DEF ConfigInv
  <2> QED
    BY <1>2, <1>5, <2>1, <2>2
<1>7. CASE ResolvePeers \/ BuildCases
  <2>1. UNCHANGED <<env, engineVars>> /\ phase \in Wiring /\ phase' # "failed"
    BY <1>7 DEF ResolvePeers, BuildCases, Building, Wiring
  <2> QED
    BY <1>2, <1>5, <2>1
<1>8. CASE BuildSession \/ BuildTasks
  <2>1. \/ UNCHANGED engineVars
        \/ Call(Main)
        \/ Rest(Main)
    BY <1>8 DEF BuildSession, BuildTasks, Fail, AskEngine
  <2>2. Sober
    BY <2>1, PodAssumption, RaisesWhenBuildDoes DEF Sober
  <2>3. env' = env /\ phase \in Wiring
    BY <1>8 DEF BuildSession, BuildTasks, Fail, AskEngine, Building, Wiring, podVars
  <2>4. phase' = "failed" =>
          \/ DatabaseMisconfigured(env) \/ SessionService(env) = Misfit
          \/ MayRaise(SessionService(env), env)
          \/ TaskStore(env) = Misfit \/ at[Main] = "raised"
    BY <1>8 DEF BuildSession, BuildTasks, Fail, AskEngine, Building, EngineDenied, podVars
  <2>5. Fails
    BY <2>3, <2>4, RefusedIsMisconfigured, RaisingIsDoubtful DEF Mistaken, RaisedCounts
  <2> QED
    BY <1>2, <2>2, <2>3, <2>5
<1>9. CASE ConfigureLogging \/ BuildMemory \/ BuildArtifacts \/ BuildAgent \/ RegisterSurfaces
  <2>1. UNCHANGED <<env, engineVars>> /\ phase \in Wiring
    BY <1>9 DEF ConfigureLogging, BuildMemory, BuildArtifacts, BuildAgent, RegisterSurfaces,
                Fail, Building, Wiring
  <2>2. phase' = "failed" =>
          \/ LogLevel(env) \notin LogLevels
          \/ MemoryService(env) = Misfit \/ MayRaise(MemoryService(env), env)
          \/ ArtifactService(env) = Misfit \/ MayRaise(ArtifactService(env), env)
          \/ AgentName(env) \notin AGENTS
          \/ ~env.google \/ DatabaseMisconfigured(Late)
    BY <1>9 DEF ConfigureLogging, BuildMemory, BuildArtifacts, BuildAgent, RegisterSurfaces,
                Fail, Building
  <2>3. Fails
    BY <2>2, RefusedIsMisconfigured, RaisingIsDoubtful DEF Mistaken
  <2> QED
    BY <1>2, <1>5, <2>1, <2>3
<1>10. CASE \E c \in Callers : UseDatabase(c) \/ UseNoDatabase(c)
  <2>1. phase' \notin Wiring \cup {"failed"}
    BY <1>10 DEF UseDatabase, UseNoDatabase, podVars, Wiring
  <2> QED
    BY <1>4, <2>1
<1>11. CASE (\E c \in Callers : InEngine(c)) \/ Closing
  <2>1. env' = env /\ phase' = phase
    BY <1>11 DEF InEngine, Closing, podVars
  <2>2. Sober
    BY <1>11, RaisesWhenBuildDoes DEF Sober, InEngine, Closing
  <2> QED
    BY <1>3, <2>1, <2>2
<1>12. CASE UseSecrets \/ UNCHANGED vars
  <2>1. UNCHANGED <<env, phase, engineVars>>
    BY <1>12 DEF UseSecrets, vars, podVars
  <2> QED
    BY <1>3, <1>5, <2>1
<1>13. CASE Stop \/ Stopped
  <2>1. phase' \notin Wiring \cup {"failed"}
    BY <1>13 DEF Stop, Stopped, Building, Wiring
  <2> QED
    BY <1>4, <2>1
<1> QED
  BY <1>6, <1>7, <1>8, <1>9, <1>10, <1>11, <1>12, <1>13 DEF Next, Startup

(* A pod serves with a configuration the documentation has nothing against, and
   with a model for every tier; one that does not come up had a mistake in its
   configuration or its .env file, a setting that may raise, no model for a
   tier, nobody to ask at Google, or a build that raised. *)
THEOREM PodServesIffConfigured == Spec => []ServesIffConfigured
<1>1. Init => RaisedCounts /\ FailsForAReason
  BY PodAssumption DEF Init, EngineInit, RaisedCounts, FailsForAReason
<1>2. EngineInv /\ ConfigInv /\ RaisedCounts /\ FailsForAReason /\ [Next]_vars =>
        RaisedCounts' /\ FailsForAReason'
  BY FailureStep
<1>3. ConfigInv /\ ModelsFound => (Serving => \A t \in Tiers : ~NoModelFor(env, t))
  <2> SUFFICES ASSUME ConfigInv, ModelsFound, Serving, NEW t \in Tiers, NoModelFor(env, t)
               PROVE  FALSE
    OBVIOUS
  <2>1. models[t] = ResolveModelId(env, t) /\ models[t] # NoModel
    BY DEF ModelsFound, Serving, AfterModels, AfterResolver, AfterSession
  <2>2. env \in Environments /\ env.pins[t] = NoModel
    BY DEF ConfigInv, NoModelFor
  <2> QED
    BY <2>1, <2>2, ResolvesLatest, Zenon
<1>4. /\ Serving => ~Misconfigured(env)
      /\ ConfigInv
      /\ Serving => \A t \in Tiers : ~NoModelFor(env, t)
      /\ FailsForAReason
      => ServesIffConfigured
  BY Zenon DEF ConfigInv, ServesIffConfigured, FailsForAReason, Mistaken
<1>5. EngineInv /\ LinkInv /\ SecretsInv => EngineInv
  OBVIOUS
<1> QED
  BY <1>1, <1>2, <1>3, <1>4, <1>5, PodHolds, ConfigHolds, ImportHolds, PodServesConfigured,
     PTL DEF Spec

-----------------------------------------------------------------------------
(* The peers                                                               *)

(* The tools of every pod are the peers its environment names, in the order of
   their first mention, at the address of their last, and their cards are where
   the callee serves its own. *)
THEOREM PodPeersAsConfigured == Spec => []PeersAsConfigured
<1>1. ASSUME ConfigInv, PeersResolved, Serving
      PROVE  PeersAsConfigured
  <2>1. env \in Environments /\ tools = ResolveAll(ClusterConfig(env))
    BY <1>1 DEF ConfigInv, PeersResolved, Serving, AfterResolver, AfterSession
  <2>2. PICK S : PeerItems(env) \in Seq(S)
    BY <2>1, PodAssumption, ItemsAreSequence, Zenon
  <2> DEFINE peers == ParsePeers(env)
  <2>3. /\ DOMAIN tools = DOMAIN peers
        /\ \A i \in DOMAIN peers :
             /\ tools[i].name = peers[i].name
             /\ tools[i].card.base = peers[i].url
             /\ tools[i].card.path = NormalizeRpcPath(env.rpc_path)
    BY <2>1, Zenon DEF ResolveAll, ResolvePeer, ClusterConfig, CardUrl
  <2>4. env.rpc_path = <<>> \/ NamesMountPoint(env.rpc_path) =>
          NormalizeRpcPath(env.rpc_path) = DEFAULT_RPC_PATH
    <3>1. env.rpc_path \in Seq(STRING)
      BY <2>1, PodAssumption
    <3>2. CASE env.rpc_path = <<>>
      BY <3>2 DEF NormalizeRpcPath
    <3>3. CASE NamesMountPoint(env.rpc_path)
      BY <3>1, <3>3, NormalizesMountPoint, Zenon DEF NamesMountPoint
    <3> QED
      BY <3>2, <3>3
  <2> DEFINE items == PeerItems(env)
  <2> HIDE DEF peers, items
  <2>5. /\ {peers[i].name : i \in DOMAIN peers} = {items[i].name : i \in DOMAIN items} \ {""}
        /\ \A i, j \in DOMAIN peers : i < j =>
             FirstMention(items, peers[i].name) < FirstMention(items, peers[j].name)
        /\ \A i \in DOMAIN peers :
             peers[i].url.host[1] =
               IF items[LastMention(items, peers[i].name)].url = "" THEN peers[i].name
               ELSE items[LastMention(items, peers[i].name)].url
    BY <2>2, PeersMentioned, Zenon DEF peers, items
  <2>6. {tools[i].name : i \in DOMAIN tools} = {items[i].name : i \in DOMAIN items} \ {""}
    <3>1. {tools[i].name : i \in DOMAIN tools} = {peers[i].name : i \in DOMAIN peers}
      BY <2>3
    <3> QED
      BY <2>5, <3>1, Zenon
  <2>7. \A i, j \in DOMAIN tools : i < j =>
          FirstMention(items, tools[i].name) < FirstMention(items, tools[j].name)
    BY <2>3, <2>5
  <2>8. \A i \in DOMAIN tools :
          /\ tools[i].card.base.host[1] =
               IF items[LastMention(items, tools[i].name)].url = "" THEN tools[i].name
               ELSE items[LastMention(items, tools[i].name)].url
          /\ env.rpc_path = <<>> \/ NamesMountPoint(env.rpc_path)
               => tools[i].card.path = DEFAULT_RPC_PATH
    BY <2>3, <2>4, <2>5
  <2> QED
    BY <2>6, <2>7, <2>8, Zenon DEF PeersAsConfigured, items
<1>2. ConfigInv /\ PeersResolved => PeersAsConfigured
  <2>1. ~Serving => PeersAsConfigured
    BY Zenon DEF PeersAsConfigured
  <2> QED
    BY <1>1, <2>1
<1> QED
  BY <1>2, ConfigHolds, ImportHolds, PTL
=============================================================================
