--------------------------- MODULE ArtifactStore ---------------------------
(***************************************************************************)
(* One artifact of CloudPathArtifactService (app/shared/artifacts.py): a   *)
(* directory that holds one file per version, named by its number, in an   *)
(* object store or on a local disk.                                        *)
(*                                                                         *)
(* The service keeps no state and takes no lock: an operation runs in a    *)
(* thread (asyncio.to_thread) of any pod, and is a sequence of separate    *)
(* calls to the storage. A client is one such thread; one step is one      *)
(* storage call. An object is written at once; a local file is opened,     *)
(* which empties it, and filled afterwards.                                *)
(*                                                                         *)
(* A payload is the save that stores it: plain (text, bytes, a URI), or an *)
(* artifact:// reference to a version, which a load follows. References    *)
(* are to versions of the artifact itself: chains through several are left *)
(* out, and so is custom metadata.                                         *)
(***************************************************************************)
EXTENDS Naturals, FiniteSets, FiniteSetsExt

CONSTANTS
  Clients,      \* operations served at the same time, over all pods
  SaveIds,      \* the saves there may be; bounds the versions
  NoSave,       \* no save
  NoVersion,    \* the reference of a plain payload
  Versions,     \* the version numbers callers ask for
  MayRefer,     \* bound: which saves, in the order they begin, store a reference
  MaxReads,     \* bound: operations that only read, in progress or last to end
  Operations,   \* the operations that callers use
  Backends      \* what base paths there are: "cloud", "local"

Partial == "partial"    \* a file that is being filled
Garbled == "garbled"    \* a file that two writers filled

ASSUME StoreAssumption ==
  /\ NoSave \notin SaveIds
  /\ SaveIds \cap {Partial, Garbled} = {}
  /\ Versions \subseteq Nat
  /\ MayRefer \subseteq Nat /\ MaxReads \in Nat
  /\ NoVersion \notin Nat
  /\ Operations \subseteq {"save", "load_latest", "load_version", "list_versions",
                          "list_keys", "delete"}
  /\ Backends \subseteq {"cloud", "local"}

VARIABLES
  backend,      \* what the base path is, for the life of the service
  files,        \* the directory: version -> the save it holds
  refers,       \* the version that a save's payload refers to
  holding,      \* clients whose open file is still in the directory
  started,      \* saves that were begun
  acked,        \* saves whose caller was told the version number
  pc,           \* where each operation is
  op,           \* what it is
  payload,      \* the save it performs
  version,      \* the version that it chose, or found to be the latest
  file,         \* the version whose file it reads or unlinks
  listed,       \* the versions it has listed and still to go through
  visited,      \* the versions it has read
  answer,       \* how it ended
  before,       \* history: acknowledged saves that were stored when it began
  disturbed,    \* history: clients during whose operation a version was unlinked
  unlinked      \* history: whether a version was ever unlinked

storage == <<files, refers, holding, started, acked>>
local   == <<pc, op, payload, version, file, listed, visited, answer>>
history == <<before, disturbed, unlinked>>
vars    == <<backend, storage, local, history>>

Stored == DOMAIN files

TypeOK ==
  /\ backend \in Backends
  /\ Stored \subseteq Nat
  /\ \A v \in Stored : files[v] \in SaveIds \cup {Partial, Garbled}
  /\ refers \in [SaveIds -> Nat \cup {NoVersion}]
  /\ holding \subseteq Clients
  /\ acked \subseteq started
  /\ started \subseteq SaveIds
  /\ pc \in [Clients -> {"idle", "list", "write", "fill", "written", "check", "read",
                         "each", "unlink"}]
  /\ op \in [Clients -> Operations \cup {"none"}]
  /\ payload \in [Clients -> SaveIds \cup {NoSave}]
  /\ version \in [Clients -> Nat]
  /\ file \in [Clients -> Nat]
  /\ listed \in [Clients -> SUBSET Nat]
  /\ visited \in [Clients -> SUBSET Nat]
  /\ answer \in [Clients -> {"none", "saved", "invalid", "loaded", "missing", "dangling",
                             "endless", "listed", "found", "deleted", "gone", "corrupt", "lost"}]
  /\ before \in [Clients -> SUBSET SaveIds]
  /\ disturbed \subseteq Clients
  /\ unlinked \in BOOLEAN

Init ==
  /\ backend \in Backends
  /\ files = [v \in {} |-> NoSave]
  /\ refers = [s \in SaveIds |-> NoVersion]
  /\ holding = {}
  /\ started = {}
  /\ acked = {}
  /\ pc = [c \in Clients |-> "idle"]
  /\ op = [c \in Clients |-> "none"]
  /\ payload = [c \in Clients |-> NoSave]
  /\ version = [c \in Clients |-> 0]
  /\ file = [c \in Clients |-> 0]
  /\ listed = [c \in Clients |-> {}]
  /\ visited = [c \in Clients |-> {}]
  /\ answer = [c \in Clients |-> "none"]
  /\ before = [c \in Clients |-> {}]
  /\ disturbed = {}
  /\ unlinked = FALSE

-----------------------------------------------------------------------------
(* The directory.                                                          *)

With(v, x) == [w \in Stored \cup {v} |-> IF w = v THEN x ELSE files[w]]

Without(v) == Restrict(files, Stored \ {v})

(* MUTANT: the number of versions serves as the next version. *)
NextByCount(versions) == Cardinality(versions)

(* MUTANT: the next version is the last one. *)
ReuseLast(versions) == IF versions = {} THEN 0 ELSE Max(versions)

NextVersion(versions) == IF versions = {} THEN 0 ELSE Max(versions) + 1

(* MUTANT: the versions are taken to be in a row. *)
LatestByCount(versions) == Cardinality(versions)

(* MUTANT: the first version that the listing yields. *)
AnyVersion(versions) == CHOOSE v \in versions : TRUE

Latest(versions) == Max(versions)

(* MUTANT: only the latest version is gone through. *)
LatestOnly(versions) == {v \in versions : v = Max(versions)}

(* The versions that a delete or a listing goes through. *)
Listing(versions) == versions

-----------------------------------------------------------------------------
(* Beginning, continuing and ending an operation.                          *)

Begin(c, o, about, next) ==
  /\ pc[c] = "idle"
  /\ o \in Operations
  /\ pc' = [pc EXCEPT ![c] = next]
  /\ op' = [op EXCEPT ![c] = o]
  /\ version' = [version EXCEPT ![c] = 0]
  /\ file' = [file EXCEPT ![c] = about]
  /\ visited' = [visited EXCEPT ![c] = {}]
  /\ answer' = [answer EXCEPT ![c] = "none"]
  /\ before' = [before EXCEPT ![c] = acked \cap {files[v] : v \in Stored}]
  /\ disturbed' = disturbed \ {c}
  /\ UNCHANGED <<files, holding, acked, listed, unlinked>>

GoOn(c, next) ==
  /\ pc' = [pc EXCEPT ![c] = next]
  /\ UNCHANGED <<refers, started, op, payload, answer, before>>

(* What an operation was about is of interest after it has ended well. *)
EndsWell == {"loaded", "listed", "missing", "deleted"}

End(c, a) ==
  /\ pc' = [pc EXCEPT ![c] = "idle"]
  /\ op' = [op EXCEPT ![c] = IF a \in EndsWell THEN @ ELSE "none"]
  /\ answer' = [answer EXCEPT ![c] = a]
  /\ payload' = [payload EXCEPT ![c] = NoSave]
  /\ version' = [version EXCEPT ![c] = IF a = "loaded" THEN @ ELSE 0]
  /\ file' = [file EXCEPT ![c] = 0]
  /\ listed' = [listed EXCEPT ![c] = {}]
  /\ visited' = [visited EXCEPT ![c] = IF a = "listed" THEN @ ELSE {}]
  /\ holding' = holding \ {c}
  /\ before' = [before EXCEPT ![c] = IF a \in EndsWell THEN @ ELSE {}]
  /\ UNCHANGED <<refers, started>>

(* A caller refers to a version that it was told of, and that is there. *)
Referable ==
  IF Cardinality(started) \in MayRefer
  THEN {NoVersion} \cup {v \in Versions \cap Stored : files[v] \in acked}
  ELSE {NoVersion}

BeginSave(c, s) ==
  /\ s \notin started
  /\ Begin(c, "save", 0, "list")
  /\ started' = started \cup {s}
  /\ payload' = [payload EXCEPT ![c] = s]
  /\ \E r \in Referable : refers' = [refers EXCEPT ![s] = r]

(* Operations that only read have no effect on each other. *)
Reading(c) == op[c] \in {"load_latest", "load_version", "list_versions", "list_keys"}

MayRead(c) == Cardinality({d \in Clients \ {c} : Reading(d)}) < MaxReads

(* Every other operation; load_artifact and get_artifact_version of a given *)
(* version do not list anything.                                           *)
BeginOther(c) ==
  /\ \/ Begin(c, "delete", 0, "list")
     \/ /\ MayRead(c)
        /\ \/ \E o \in {"load_latest", "list_versions", "list_keys"} :
                Begin(c, o, 0, "list")
           \/ \E v \in Versions : Begin(c, "load_version", v, "check")
  /\ UNCHANGED <<refers, started, payload>>

-----------------------------------------------------------------------------
(* save_artifact: list, choose a version, write.                           *)

ListForSave(c) ==
  /\ pc[c] = "list" /\ op[c] = "save"
  /\ version' = [version EXCEPT ![c] = NextVersion(Stored)]
  /\ GoOn(c, "write")
  /\ UNCHANGED <<files, holding, acked, file, listed, visited, disturbed, unlinked>>

(* The part has no payload, or a reference out of the caller's scope. *)
RejectPart(c) ==
  /\ pc[c] = "list" /\ op[c] = "save"
  /\ End(c, "invalid")
  /\ UNCHANGED <<files, acked, disturbed, unlinked>>

WriteObject(c) ==
  /\ pc[c] = "write" /\ backend = "cloud"
  /\ files' = With(version[c], payload[c])
  /\ GoOn(c, "written")
  /\ UNCHANGED <<holding, acked, version, file, listed, visited, disturbed, unlinked>>

OpenFile(c) ==
  /\ pc[c] = "write" /\ backend = "local"
  /\ files' = With(version[c], Partial)
  /\ holding' = holding \cup {c}
  /\ GoOn(c, "fill")
  /\ UNCHANGED <<acked, version, file, listed, visited, disturbed, unlinked>>

(* What is written to a file that was unlinked since it was opened is lost; in
   a file that another writer filled, the longer payload may show through. *)
FillFile(c) ==
  /\ pc[c] = "fill"
  /\ IF c \in holding
     THEN \E x \in {payload[c]} \cup
                     (IF files[version[c]] = Partial THEN {} ELSE {Garbled}) :
            files' = With(version[c], x)
     ELSE UNCHANGED files
  /\ holding' = holding \ {c}
  /\ GoOn(c, "written")
  /\ UNCHANGED <<acked, version, file, listed, visited, disturbed, unlinked>>

(* The caller is told the version number. *)
ReturnVersion(c) ==
  /\ pc[c] = "written"
  /\ acked' = acked \cup {payload[c]}
  /\ End(c, "saved")
  /\ UNCHANGED <<files, disturbed, unlinked>>

-----------------------------------------------------------------------------
(* load_artifact and get_artifact_version: of the latest version, or of one. *)

ListForLoad(c) ==
  /\ pc[c] = "list" /\ op[c] = "load_latest"
  /\ Stored # {}
  /\ version' = [version EXCEPT ![c] = Latest(Stored)]
  /\ file' = [file EXCEPT ![c] = Latest(Stored)]
  /\ GoOn(c, "check")
  /\ UNCHANGED <<files, holding, acked, listed, visited, disturbed, unlinked>>

NothingListed(c) ==
  /\ pc[c] = "list" /\ op[c] = "load_latest"
  /\ Stored = {}
  /\ End(c, "missing")
  /\ UNCHANGED <<files, acked, disturbed, unlinked>>

FileExists(c) ==
  /\ pc[c] = "check"
  /\ file[c] \in Stored
  /\ GoOn(c, "read")
  /\ UNCHANGED <<files, holding, acked, version, file, listed, visited, disturbed, unlinked>>

(* The caller gets None, be it for want of the version or of its target. *)
FileMissing(c) ==
  /\ pc[c] = "check"
  /\ file[c] \notin Stored
  /\ End(c, IF visited[c] = {} THEN "missing" ELSE "dangling")
  /\ UNCHANGED <<files, acked, disturbed, unlinked>>

Readable(c) == file[c] \in Stored /\ files[file[c]] \in SaveIds

(* read_text raises on a file that is gone, json.loads on half a file. *)
ReadFails(c) ==
  /\ pc[c] = "read"
  /\ \/ file[c] \notin Stored /\ End(c, "gone")
     \/ /\ file[c] \in Stored
        /\ files[file[c]] \in {Partial, Garbled}
        /\ End(c, "corrupt")
  /\ UNCHANGED <<files, acked, disturbed, unlinked>>

IsLoad(c) == op[c] \in {"load_latest", "load_version"}

(* The envelope of a plain payload; get_artifact_version, which takes the   *)
(* same steps as load_artifact, is content with that of a reference.       *)
ReadEnvelope(c) ==
  /\ pc[c] = "read" /\ IsLoad(c)
  /\ Readable(c)
  /\ End(c, "loaded")
  /\ UNCHANGED <<files, acked, disturbed, unlinked>>

(* A load goes on to load the version that it finds a reference to. *)
FollowReference(c) ==
  /\ pc[c] = "read" /\ IsLoad(c)
  /\ Readable(c)
  /\ refers[files[file[c]]] # NoVersion
  /\ file' = [file EXCEPT ![c] = refers[files[file[c]]]]
  /\ visited' = [visited EXCEPT ![c] = @ \cup {file[c]}]
  /\ GoOn(c, "check")
  /\ UNCHANGED <<files, holding, acked, version, listed, disturbed, unlinked>>

(* A load that comes to a version it has read before may go round until the *)
(* interpreter's stack ends; it may also find that version changed.        *)
RecursionError(c) ==
  /\ pc[c] = "check"
  /\ file[c] \in visited[c]
  /\ End(c, "endless")
  /\ UNCHANGED <<files, acked, disturbed, unlinked>>

-----------------------------------------------------------------------------
(* delete_artifact, list_artifact_versions, list_artifact_keys: list, then  *)
(* go through the versions, one after another.                             *)

ListAll(c) ==
  /\ pc[c] = "list" /\ op[c] \in {"delete", "list_versions", "list_keys"}
  /\ listed' = [listed EXCEPT ![c] = Listing(Stored)]
  /\ GoOn(c, "each")
  /\ UNCHANGED <<files, holding, acked, version, file, visited, disturbed, unlinked>>

PassOver(c, v) ==
  /\ pc[c] = "each"
  /\ v \in listed[c] \ Stored
  /\ listed' = [listed EXCEPT ![c] = @ \ {v}]
  /\ GoOn(c, "each")
  /\ UNCHANGED <<files, holding, acked, version, file, visited, disturbed, unlinked>>

Take(c, v) ==
  /\ pc[c] = "each" /\ op[c] # "list_keys"
  /\ v \in listed[c] \cap Stored
  /\ listed' = [listed EXCEPT ![c] = @ \ {v}]
  /\ file' = [file EXCEPT ![c] = v]
  /\ GoOn(c, IF op[c] = "delete" THEN "unlink" ELSE "read")
  /\ UNCHANGED <<files, holding, acked, version, visited, disturbed, unlinked>>

Unlink(c) ==
  /\ pc[c] = "unlink"
  /\ file[c] \in Stored
  /\ files' = Without(file[c])
  /\ holding' = {d \in holding : version[d] # file[c]}
  /\ disturbed' = disturbed \cup {d \in Clients : pc[d] # "idle"}
  /\ refers' = [refers EXCEPT ![files[file[c]]] = NoVersion]
  /\ unlinked' = TRUE
  /\ pc' = [pc EXCEPT ![c] = "each"]
  /\ UNCHANGED <<started, acked, op, payload, version, file, listed, visited, answer, before>>

(* Another delete was faster: a local unlink raises, a cloud one does not. *)
UnlinkTooLate(c) ==
  /\ pc[c] = "unlink"
  /\ file[c] \notin Stored
  /\ IF backend = "local"
     THEN End(c, "gone")
     ELSE GoOn(c, "each") /\ UNCHANGED <<holding, version, file, listed, visited>>
  /\ UNCHANGED <<files, acked, disturbed, unlinked>>

ReadMetadata(c) ==
  /\ pc[c] = "read" /\ op[c] = "list_versions"
  /\ Readable(c)
  /\ visited' = [visited EXCEPT ![c] = @ \cup {file[c]}]
  /\ GoOn(c, "each")
  /\ UNCHANGED <<files, holding, acked, version, file, listed, disturbed, unlinked>>

(* One file is enough for the artifact's name to be among the keys. *)
FindKey(c) ==
  /\ pc[c] = "each" /\ op[c] = "list_keys"
  /\ listed[c] \cap Stored # {}
  /\ End(c, "found")
  /\ UNCHANGED <<files, acked, disturbed, unlinked>>

Outcome(o) == [delete |-> "deleted", list_versions |-> "listed", list_keys |-> "missing"][o]

Finish(c) ==
  /\ pc[c] = "each"
  /\ listed[c] = {}
  /\ End(c, Outcome(op[c]))
  /\ UNCHANGED <<files, acked, disturbed, unlinked>>

-----------------------------------------------------------------------------
(* The pod of a thread dies: what it wrote stays, its caller hears nothing. *)
Crash(c) ==
  /\ pc[c] # "idle"
  /\ End(c, "lost")
  /\ UNCHANGED <<files, acked, disturbed, unlinked>>

Save(c) ==
  \/ \E s \in SaveIds : BeginSave(c, s)
  \/ ListForSave(c)
  \/ RejectPart(c)
  \/ WriteObject(c)
  \/ OpenFile(c)
  \/ FillFile(c)
  \/ ReturnVersion(c)

Load(c) ==
  \/ ListForLoad(c)
  \/ NothingListed(c)
  \/ FileExists(c)
  \/ FileMissing(c)
  \/ ReadFails(c)
  \/ ReadEnvelope(c)
  \/ FollowReference(c)
  \/ RecursionError(c)

GoThrough(c) ==
  \/ ListAll(c)
  \/ \E v \in listed[c] : PassOver(c, v) \/ Take(c, v)
  \/ Unlink(c)
  \/ UnlinkTooLate(c)
  \/ ReadMetadata(c)
  \/ FindKey(c)
  \/ Finish(c)

Next ==
  /\ \E c \in Clients : Save(c) \/ BeginOther(c) \/ Load(c) \/ GoThrough(c) \/ Crash(c)
  /\ UNCHANGED backend

Spec == Init /\ [][Next]_vars

-----------------------------------------------------------------------------
(***************************************************************************)
(* A version whose caller was told its number is replaced only by a save   *)
(* that was under way by then: a save begun later takes a higher number,   *)
(* whatever is deleted in the meantime (_save_artifact).                   *)
(***************************************************************************)
Writing(c) == pc[c] \in {"write", "fill"}

SavedIsKept ==
  [][\A v \in Stored :
       \/ files[v] \notin acked
       \/ v \notin Stored'
       \/ files'[v] = files[v]
       \/ \E c \in Clients : Writing(c) /\ version[c] = v /\ files[v] \notin before[c]]_vars

(***************************************************************************)
(* The latest version is no older than any version that had been           *)
(* acknowledged when the load began and is still stored, and a listing     *)
(* has every such version (_load_artifact, _get_artifact_version,          *)
(* _list_artifact_versions).                                               *)
(***************************************************************************)
LoadsAreFresh ==
  \A c \in Clients : \A v \in Stored : files[v] \in before[c] =>
    /\ op[c] = "load_latest" /\ answer[c] = "loaded" => v <= version[c]
    /\ op[c] = "list_versions" /\ answer[c] = "listed" => v \in visited[c]

(***************************************************************************)
(* An operation fails for a reason. An acknowledged artifact is missing, or *)
(* a file is gone under an operation, only when a delete was at work       *)
(* meanwhile. A reference misses its target, or leads back to itself, only *)
(* after some delete: numbers are used again, and a reference may come to  *)
(* lie below its target, or at it. A file is unreadable only on a local    *)
(* disk.                                                                   *)
(***************************************************************************)
FailuresHaveCause ==
  \A c \in Clients :
    /\ op[c] \in {"load_latest", "list_keys"} /\ answer[c] = "missing" =>
         before[c] = {} \/ c \in disturbed
    /\ answer[c] = "gone" => c \in disturbed
    /\ answer[c] \in {"dangling", "endless"} => unlinked
    /\ answer[c] = "corrupt" => backend = "local"

(***************************************************************************)
(* What was acknowledged and stored when a delete began is not stored once *)
(* it has returned, and never again (_delete_artifact).                    *)
(***************************************************************************)
DeletedIsGone ==
  \A c \in Clients : op[c] = "delete" /\ answer[c] = "deleted" =>
    \A v \in Stored : files[v] \notin before[c]

(***************************************************************************)
(* The inductive invariant. Control: which steps belong to which operation, *)
(* and that a save in progress is performed by one client and not yet      *)
(* acknowledged.                                                           *)
(***************************************************************************)
Performed(c) == pc[c] # "idle" /\ op[c] = "save"

InControl(c) ==
  /\ pc[c] # "idle" => answer[c] = "none"
  /\ pc[c] = "list" => visited[c] = {}
  /\ pc[c] \in {"write", "fill", "written"} => op[c] = "save"
  /\ pc[c] = "check" => IsLoad(c)
  /\ pc[c] = "read" => IsLoad(c) \/ op[c] = "list_versions"
  /\ pc[c] = "each" => op[c] \in {"delete", "list_versions", "list_keys"}
  /\ pc[c] = "unlink" => op[c] = "delete"
  /\ Performed(c) => payload[c] \in started \ acked
  /\ ~Performed(c) => payload[c] = NoSave
  /\ before[c] \subseteq acked

StoredWereBegun == \A v \in Stored : files[v] \in SaveIds => files[v] \in started

OnePerformer ==
  \A c, d \in Clients : c # d /\ payload[c] = payload[d] => payload[c] = NoSave

(* What is stored of the saves that were acknowledged when c began. *)
Old(c) == {v \in Stored : files[v] \in before[c]}

Ahead(c) ==
  /\ Writing(c) => \A v \in Old(c) : v < version[c]
  /\ op[c] = "load_latest" /\ (pc[c] \in {"check", "read"} \/ answer[c] = "loaded") =>
       \A v \in Old(c) : v <= version[c]
  /\ op[c] = "list_versions" /\ pc[c] = "each" => Old(c) \subseteq listed[c] \cup visited[c]
  /\ op[c] = "list_versions" /\ pc[c] = "read" =>
       Old(c) \subseteq listed[c] \cup visited[c] \cup {file[c]}
  /\ op[c] = "list_versions" /\ answer[c] = "listed" => Old(c) \subseteq visited[c]
  /\ op[c] = "delete" /\ pc[c] = "each" => Old(c) \subseteq listed[c]
  /\ op[c] = "delete" /\ pc[c] = "unlink" => Old(c) \subseteq listed[c] \cup {file[c]}
  /\ op[c] = "delete" /\ answer[c] = "deleted" => Old(c) = {}

(* What an operation has seen is still there unless a delete disturbs it. *)
Undisturbed(c) ==
  pc[c] # "idle" /\ c \notin disturbed =>
    /\ before[c] # {} => Stored # {}
    /\ pc[c] \in {"read", "unlink"} => file[c] \in Stored
    /\ pc[c] = "check" /\ op[c] = "load_latest" /\ visited[c] = {} => file[c] \in Stored
    /\ pc[c] = "each" /\ op[c] = "list_keys" => listed[c] \subseteq Stored
    /\ pc[c] = "each" /\ op[c] = "list_keys" /\ before[c] # {} => listed[c] # {}

(* In an object store no file is half written. *)
CloudIsWhole ==
  backend = "cloud" => /\ \A c \in Clients : pc[c] # "fill"
                       /\ \A v \in Stored : files[v] \in SaveIds

(* As long as nothing is deleted, references lead down, to what is there. *)
Descends(s, v) == refers[s] # NoVersion => refers[s] < v

ReferencesLeadDown ==
  ~unlinked =>
    /\ \A s \in SaveIds : refers[s] # NoVersion => refers[s] \in Stored
    /\ \A v \in Stored : files[v] \in SaveIds => Descends(files[v], v)
    /\ \A c \in Clients :
         /\ Writing(c) => Descends(payload[c], version[c])
         /\ pc[c] = "check" /\ visited[c] # {} => file[c] \in Stored
         /\ IsLoad(c) /\ pc[c] \in {"check", "read"} => \A v \in visited[c] : file[c] < v

IInv ==
  /\ TypeOK
  /\ \A c \in Clients : InControl(c) /\ Ahead(c) /\ Undisturbed(c)
  /\ StoredWereBegun
  /\ OnePerformer
  /\ CloudIsWhole
  /\ ReferencesLeadDown
  /\ FailuresHaveCause

(***************************************************************************)
(* _save_artifact: "Persist a new version of an artifact, returning its    *)
(* version number": where nothing is deleted, what was acknowledged is     *)
(* stored.                                                                 *)
(***************************************************************************)
AcknowledgedIsStored == \A s \in acked : \E v \in Stored : files[v] = s

(***************************************************************************)
(* The module's docstring: "every write is atomic". No reader ever meets   *)
(* half an envelope.                                                       *)
(***************************************************************************)
WritesAreAtomic == \A c \in Clients : answer[c] # "corrupt"
=============================================================================
