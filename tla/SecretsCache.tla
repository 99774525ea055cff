---------------------------- MODULE SecretsCache ----------------------------
(***************************************************************************)
(* Secrets.get of app/shared/secrets.py: a dictionary from resource names  *)
(* to values, looked at, filled after a call to Secret Manager, and looked *)
(* at again to answer. No lock: two threads that miss both fetch, and the  *)
(* one whose response was read last need not be the one that stores last.  *)
(*                                                                         *)
(* Secret Manager holds the versions of each secret; "latest" names the    *)
(* newest, and rotating a secret adds one. Values are version numbers, and *)
(* 0 is a resource the cache does not hold.                                *)
(***************************************************************************)
EXTENDS Naturals

CONSTANTS
  Readers,       \* threads that read secrets
  ShortNames,    \* names expanded against the project
  FullNames,     \* names that hold a "/" and stand for themselves
  MaxVersion     \* bounds the rotations

ASSUME SecretsAssumption ==
  /\ ShortNames \cap FullNames = {}
  /\ ShortNames \cup FullNames # {}
  /\ MaxVersion \in Nat \ {0}

VARIABLES
  project,       \* is GOOGLE_CLOUD_PROJECT known?
  newest,        \* Secret Manager: the newest version of each secret
  cache,         \* self._cache
  reading,       \* the call of get each reader is in
  asked,         \* history: the newest version when that call began
  disturbed,     \* history: did another call's fetch overlap it?
  fetches        \* history: how often each name was fetched without refresh,
                 \* while nobody else was fetching it (counted up to 2)

secretsVars == <<project, newest, cache, reading, asked, disturbed, fetches>>

Names == ShortNames \cup FullNames

Absent == 0

(* at is where the call is; value what it received or returned. *)
NotReading == [at |-> "idle", name |-> CHOOSE n \in Names : TRUE,
               refresh |-> FALSE, value |-> Absent]

SecretsTypeOK ==
  /\ project \in BOOLEAN
  /\ newest \in [Names -> 1..MaxVersion]
  /\ cache \in [Names -> Absent..MaxVersion]
  /\ reading \in [Readers -> [at : {"idle", "calling", "received", "answering",
                                    "returned", "raised"},
                              name : Names, refresh : BOOLEAN,
                              value : Absent..MaxVersion]]
  /\ asked \in [Readers -> 1..MaxVersion]
  /\ disturbed \in [Readers -> BOOLEAN]
  /\ fetches \in [Names -> 0..2]

SecretsInit ==
  /\ project \in BOOLEAN
  /\ newest = [n \in Names |-> 1]
  /\ cache = [n \in Names |-> Absent]
  /\ reading = [r \in Readers |-> NotReading]
  /\ asked = [r \in Readers |-> 1]
  /\ disturbed = [r \in Readers |-> FALSE]
  /\ fetches = [n \in Names |-> 0]

Between(r) == reading[r].at \in {"idle", "returned", "raised"}

Fetching(r, n) == reading[r].name = n /\ reading[r].at \in {"calling", "received"}

Others(r) == Readers \ {r}

(* resource_name: a short name needs the project. *)
Resolvable(n) == n \in FullNames \/ project

(* MUTANT: a refresh is served from the cache. *)
CachedAnyway(n, refresh) == cache[n] # Absent

(* MUTANT: the value is not kept. *)
NeverCached(n, refresh) == FALSE

Cached(n, refresh) == ~refresh /\ cache[n] # Absent

(* get begins: the name is expanded, and the cache looked at. *)
Ask(r, n, refresh) ==
  LET fetch == ~Cached(n, refresh) IN
  /\ Between(r)
  /\ Resolvable(n)
  /\ reading' = [reading EXCEPT ![r] =
                   [at |-> IF fetch THEN "calling" ELSE "answering",
                    name |-> n, refresh |-> refresh, value |-> Absent]]
  /\ asked' = [asked EXCEPT ![r] = newest[n]]
  /\ disturbed' = [q \in Readers |->
                     IF q = r THEN \E o \in Others(r) : Fetching(o, n)
                     ELSE disturbed[q] \/ (fetch /\ reading[q].name = n)]
  /\ fetches' = IF fetch /\ ~refresh /\ fetches[n] < 2
                     /\ \A o \in Others(r) : ~Fetching(o, n)
                THEN [fetches EXCEPT ![n] = @ + 1] ELSE fetches
  /\ UNCHANGED <<project, newest, cache>>

(* A short name and no project: ValueError. *)
AskInVain(r, n, refresh) ==
  /\ Between(r)
  /\ ~Resolvable(n)
  /\ reading' = [reading EXCEPT ![r] = [NotReading EXCEPT !.at = "raised"]]
  /\ UNCHANGED <<project, newest, cache, asked, disturbed, fetches>>

(* Secret Manager reads the version it answers with. *)
Respond(r) ==
  /\ reading[r].at = "calling"
  /\ reading' = [reading EXCEPT ![r].at = "received",
                                ![r].value = newest[reading[r].name]]
  /\ UNCHANGED <<project, newest, cache, asked, disturbed, fetches>>

(* access_secret_version raises: nothing is stored. *)
FetchFails(r) ==
  /\ reading[r].at = "calling"
  /\ reading' = [reading EXCEPT ![r].at = "raised"]
  /\ fetches' = IF ~reading[r].refresh
                THEN [fetches EXCEPT ![reading[r].name] = 0] ELSE fetches
  /\ UNCHANGED <<project, newest, cache, asked, disturbed>>

Store(r) ==
  /\ reading[r].at = "received"
  /\ cache' = [cache EXCEPT ![reading[r].name] = reading[r].value]
  /\ reading' = [reading EXCEPT ![r].at = "answering"]
  /\ UNCHANGED <<project, newest, asked, disturbed, fetches>>

(* The answer is what the cache holds by now, not what was fetched. *)
Return(r) ==
  /\ reading[r].at = "answering"
  /\ reading' = [reading EXCEPT ![r].at = "returned",
                                ![r].value = cache[reading[r].name]]
  /\ UNCHANGED <<project, newest, cache, asked, disturbed, fetches>>

(* An operator adds a version. *)
Rotate(n) ==
  /\ newest[n] < MaxVersion
  /\ newest' = [newest EXCEPT ![n] = @ + 1]
  /\ UNCHANGED <<project, cache, reading, asked, disturbed, fetches>>

SecretsNext ==
  \/ \E r \in Readers, n \in Names, refresh \in BOOLEAN :
       Ask(r, n, refresh) \/ AskInVain(r, n, refresh)
  \/ \E r \in Readers : Respond(r) \/ FetchFails(r) \/ Store(r) \/ Return(r)
  \/ \E n \in Names : Rotate(n)

SecretsSpec == SecretsInit /\ [][SecretsNext]_secretsVars

-----------------------------------------------------------------------------
(* "Pass refresh=True to re-fetch after rotation": a refresh that no other
   fetch of the name overlapped returns a version at least as new as the one
   that was current when it was asked for, whatever is cached. *)
RefreshIsFresh ==
  \A r \in Readers :
    reading[r].at = "returned" /\ reading[r].refresh /\ ~disturbed[r]
      => reading[r].value >= asked[r]

(* "Fetched at most once per process", for as much as the code does about it:
   without refresh no name is fetched twice by threads that do not overlap. *)
FetchedOnce == \A n \in Names : fetches[n] <= 1
=============================================================================
