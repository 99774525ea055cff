------------------------- MODULE ArtifactStoreProofs -------------------------
(***************************************************************************)
(* Proofs about the artifact store, for every number of clients, saves,    *)
(* versions and references, in an object store and on a local disk.        *)
(*                                                                         *)
(* The argument is by non-interference. Locality and StepsHaveEffects say  *)
(* what a step of one client does to the others: nothing to what they      *)
(* keep; in the directory it writes only a payload that nobody has         *)
(* acknowledged; and it removes a version only by disturbing everybody. So *)
(* what was acknowledged when an operation began can only get less while   *)
(* it runs (OldOnlyShrinks), and each part of IInv is shown for the other  *)
(* clients at once, and then for the one that acts, action by action.      *)
(*                                                                         *)
(* IInv is inductive together with Bounded: versions are chosen with Max,  *)
(* which needs that the directory has a last one.                          *)
(***************************************************************************)
EXTENDS ArtifactStore, WellFoundedInduction, TLAPS

(* A bounded set of numbers has a last one: its least bound. *)
LEMMA MaxIsLast ==
  ASSUME NEW S, S \subseteq Nat, S # {}, NEW n \in Nat, \A v \in S : v <= n
  PROVE  Max(S) \in S /\ \A v \in S : v <= Max(S)
<1> DEFINE Bounds == {m \in Nat : \A v \in S : v <= m}
<1>1. PICK m \in Bounds : \A k \in Bounds : ~(k < m)
  <2>1. PICK m \in Bounds : \A k \in Bounds : <<k, m>> \notin OpToRel(<, Nat)
    BY NatLessThanWellFounded, WFMin, n \in Bounds, Bounds \subseteq Nat, Zenon
  <2>2. \A k \in Bounds : k < m => <<k, m>> \in OpToRel(<, Nat)
    BY Zenon DEF OpToRel
  <2>. QED  BY <2>1, <2>2
<1>2. m \in S
  <2>1. SUFFICES ASSUME m \notin S PROVE FALSE
    OBVIOUS
  <2>2. \A v \in S : v <= m - 1
    BY <2>1
  <2>3. m - 1 \in Nat
    <3>1. PICK v \in S : v <= m - 1
      BY <2>2
    <3>. QED  BY <3>1
  <2>4. m - 1 \in Bounds
    BY <2>2, <2>3
  <2>. QED  BY <1>1, <2>4
<1>3. \A v \in S : v <= m
  OBVIOUS
<1>. QED  BY <1>2, <1>3 DEF Max
-----------------------------------------------------------------------------
(* What the steps do to the storage, and to the other clients.             *)

Acts(c) == Save(c) \/ BeginOther(c) \/ Load(c) \/ GoThrough(c) \/ Crash(c)

Same(c) ==
  /\ pc'[c] = pc[c] /\ op'[c] = op[c] /\ payload'[c] = payload[c]
  /\ version'[c] = version[c] /\ file'[c] = file[c] /\ listed'[c] = listed[c]
  /\ visited'[c] = visited[c] /\ answer'[c] = answer[c] /\ before'[c] = before[c]

USE StoreAssumption

LEMMA Locality ==
  ASSUME TypeOK, NEW c \in Clients, Acts(c), NEW d \in Clients, d # c
  PROVE  Same(d)
<1>1. CASE Save(c)
  BY <1>1 DEF TypeOK, Same, Save, BeginSave, Begin, GoOn, End, ListForSave, RejectPart,
     WriteObject, OpenFile, FillFile, ReturnVersion
<1>2. CASE BeginOther(c)
  BY <1>2 DEF TypeOK, Same, BeginOther, Begin
<1>3. CASE Load(c)
  BY <1>3 DEF TypeOK, Same, Load, GoOn, End, ListForLoad, NothingListed, FileExists,
     FileMissing, ReadFails, ReadEnvelope, FollowReference, RecursionError
<1>4. CASE GoThrough(c)
  BY <1>4 DEF TypeOK, Same, GoThrough, GoOn, End, ListAll, PassOver, Take, Unlink,
     UnlinkTooLate, ReadMetadata, FindKey, Finish
<1>5. CASE Crash(c)
  BY <1>5 DEF TypeOK, Same, Crash, End
<1>. QED  BY <1>1, <1>2, <1>3, <1>4, <1>5 DEF Acts

NewFiles(c) ==
  \A v \in Stored' : files'[v] \in SaveIds =>
    \/ v \in Stored /\ files'[v] = files[v]
    \/ Writing(c) /\ v = version[c] /\ files'[v] = payload[c]

Kept ==
  \/ Stored \subseteq Stored'
  \/ unlinked' = TRUE /\ \A d \in Clients : pc[d] # "idle" => d \in disturbed'

Growth(c) ==
  /\ \/ acked' = acked
     \/ pc[c] = "written" /\ acked' = acked \cup {payload[c]}
  /\ started \subseteq started'
  /\ disturbed \subseteq disturbed' \cup {c}
  /\ unlinked = TRUE => unlinked' = TRUE
  /\ unlinked' = TRUE \/ \A s \in started : refers'[s] = refers[s]

Effects(c) == NewFiles(c) /\ Kept /\ Growth(c)

LEMMA StepsHaveEffects ==
  ASSUME TypeOK, NEW c \in Clients, Acts(c)
  PROVE  Effects(c)
<1>1. CASE Save(c)
  <2>. USE <1>1 DEF TypeOK, Save, BeginSave, Begin, GoOn, End,
     ListForSave, RejectPart, WriteObject, OpenFile, FillFile, ReturnVersion
  <2>1. NewFiles(c)
    BY DEF NewFiles, Stored, With, Writing, Partial, Garbled
  <2>2. Kept
    BY DEF Kept, Stored, With
  <2>3. Growth(c)
    BY DEF Growth
  <2>. QED  BY <2>1, <2>2, <2>3 DEF Effects
<1>2. CASE GoThrough(c)
  <2>. USE <1>2 DEF TypeOK, GoThrough, GoOn, End, ListAll,
     PassOver, Take, Unlink, UnlinkTooLate, ReadMetadata, FindKey, Finish
  <2>1. NewFiles(c)
    BY DEF NewFiles, Stored, Without, Restrict
  <2>2. Kept
    BY DEF Kept, Stored
  <2>3. Growth(c)
    BY DEF Growth
  <2>. QED  BY <2>1, <2>2, <2>3 DEF Effects
<1>3. CASE BeginOther(c) \/ Load(c) \/ Crash(c)
  <2>1. /\ files' = files /\ acked' = acked /\ disturbed' \in {disturbed, disturbed \ {c}}
        /\ started' = started /\ unlinked' = unlinked /\ refers' = refers
    BY <1>3 DEF BeginOther, Begin, Crash, Load, GoOn, End, ListForLoad, NothingListed,
       FileExists, FileMissing, ReadFails, ReadEnvelope, FollowReference, RecursionError
  <2>. QED  BY <2>1 DEF Effects, NewFiles, Kept, Growth, Stored
<1>. QED  BY <1>1, <1>2, <1>3 DEF Acts

-----------------------------------------------------------------------------
(* Types                                                                   *)

(* What Max needs: directories are finite. *)
Bounded == \E n \in Nat : \A v \in Stored : v <= n

LEMMA ListingHasLast ==
  ASSUME TypeOK, Bounded, Stored # {}
  PROVE  /\ Max(Stored) \in Stored
         /\ \A v \in Stored : v <= Max(Stored)
BY MaxIsLast DEF Bounded, TypeOK

LEMMA NextIsNew ==
  ASSUME TypeOK, Bounded
  PROVE  /\ NextVersion(Stored) \in Nat
         /\ \A v \in Stored : v < NextVersion(Stored)
<1>1. CASE Stored = {}
  BY <1>1 DEF NextVersion
<1>2. CASE Stored # {}
  <2>1. Max(Stored) \in Nat
    BY <1>2, ListingHasLast DEF TypeOK
  <2>2. \A v \in Stored : v \in Nat /\ v <= Max(Stored)
    BY <1>2, ListingHasLast DEF TypeOK
  <2>. QED  BY <1>2, <2>1, <2>2 DEF NextVersion
<1>. QED  BY <1>1, <1>2

LEMMA BoundedPreserved ==
  ASSUME TypeOK, Bounded, NEW c \in Clients, Acts(c)
  PROVE  Bounded'
<1>1. PICK n \in Nat : \A v \in Stored : v <= n
  BY DEF Bounded
<1>2. Stored' \subseteq Stored \cup {version[c]}
  <2>1. CASE Save(c)
    BY <2>1 DEF Save, BeginSave, Begin, GoOn, End, ListForSave, RejectPart, WriteObject,
       OpenFile, FillFile, ReturnVersion, Stored, With
  <2>2. CASE GoThrough(c)
    BY <2>2 DEF GoThrough, GoOn, End, ListAll, PassOver, Take, Unlink, UnlinkTooLate,
       ReadMetadata, FindKey, Finish, Stored, Without, Restrict
  <2>3. CASE BeginOther(c) \/ Load(c) \/ Crash(c)
    BY <2>3 DEF BeginOther, Begin, Crash, Load, GoOn, End, ListForLoad, NothingListed,
       FileExists, FileMissing, ReadFails, ReadEnvelope, FollowReference, RecursionError, Stored
  <2>. QED  BY <2>1, <2>2, <2>3 DEF Acts
<1>3. version[c] \in Nat
  BY DEF TypeOK
<1>4. CASE version[c] <= n
  BY <1>1, <1>2, <1>4 DEF Bounded
<1>5. CASE n < version[c]
  <2>1. \A v \in Stored' : v <= version[c]
    BY <1>1, <1>2, <1>3, <1>5 DEF TypeOK
  <2>. QED  BY <2>1, <1>3 DEF Bounded
<1>. QED  BY <1>3, <1>4, <1>5

LEMMA TypePreserved ==
  ASSUME TypeOK, Bounded, NEW c \in Clients, InControl(c), Acts(c), backend' = backend
  PROVE  TypeOK'
<1>1. CASE Save(c)
  <2>1. CASE ListForSave(c)
    BY <2>1, NextIsNew DEF TypeOK, ListForSave, GoOn, Stored
  <2>2. CASE \E s \in SaveIds : BeginSave(c, s)
    BY <2>2 DEF TypeOK, BeginSave, Begin, Referable, Stored
  <2>3. CASE RejectPart(c) \/ ReturnVersion(c)
    <3>1. CASE RejectPart(c)
      BY SMTT(30), <3>1 DEF TypeOK, InControl, RejectPart, End, Stored, Performed
    <3>2. CASE ReturnVersion(c)
      BY SMTT(30), <3>2 DEF TypeOK, InControl, ReturnVersion, End, Stored, Performed
    <3>. QED  BY <2>3, <3>1, <3>2
  <2>4. CASE WriteObject(c) \/ OpenFile(c) \/ FillFile(c)
    BY <2>4 DEF TypeOK, InControl, WriteObject, OpenFile, FillFile, GoOn, Stored, With,
       Performed
  <2>. QED  BY <1>1, <2>1, <2>2, <2>3, <2>4 DEF Save
<1>2. CASE BeginOther(c)
  BY <1>2 DEF TypeOK, BeginOther, Begin, Stored
<1>3. CASE Load(c)
  <2>1. CASE ListForLoad(c)
    BY <2>1, ListingHasLast DEF TypeOK, ListForLoad, GoOn, Latest, Stored
  <2>2. CASE FollowReference(c)
    BY <2>2 DEF TypeOK, FollowReference, GoOn, Readable, Stored
  <2>3. CASE FileExists(c)
    BY <2>3 DEF TypeOK, FileExists, GoOn, Stored
  <2>4. CASE FileMissing(c)
    BY <2>4 DEF TypeOK, FileMissing, End, Stored
  <2>5. CASE NothingListed(c) \/ ReadFails(c) \/ ReadEnvelope(c) \/ RecursionError(c)
    <3>1. /\ \E a \in {"missing", "gone", "corrupt", "loaded", "endless"} : End(c, a)
          /\ UNCHANGED <<files, acked, disturbed, unlinked>>
      BY <2>5 DEF NothingListed, ReadFails, ReadEnvelope, RecursionError
    <3>. QED  BY <3>1 DEF TypeOK, End, Stored
  <2>. QED  BY <1>3, <2>1, <2>2, <2>3, <2>4, <2>5 DEF Load
<1>4. CASE GoThrough(c)
  <2>1. CASE Finish(c)
    <3>1. Outcome(op[c]) \in {"deleted", "listed", "missing"}
      BY <2>1 DEF Finish, InControl, Outcome
    <3>. QED  BY <2>1, <3>1 DEF TypeOK, Finish, End, Stored
  <2>2. CASE Unlink(c)
    BY <2>2 DEF TypeOK, Unlink, GoOn, Stored, Without, Restrict
  <2>3. CASE UnlinkTooLate(c) \/ FindKey(c) \/ ReadMetadata(c)
    BY SMTT(30), <2>3 DEF TypeOK, UnlinkTooLate, FindKey, ReadMetadata, GoOn, End, Stored
  <2>4. CASE ListAll(c) \/ \E v \in listed[c] : PassOver(c, v) \/ Take(c, v)
    BY <2>4 DEF TypeOK, ListAll, PassOver, Take, GoOn, Listing, Stored
  <2>. QED  BY <1>4, <2>1, <2>2, <2>3, <2>4 DEF GoThrough
<1>5. CASE Crash(c)
  BY <1>5 DEF TypeOK, Crash, End, Stored
<1>. QED  BY <1>1, <1>2, <1>3, <1>4, <1>5 DEF Acts

-----------------------------------------------------------------------------
(* Control                                                                 *)

Controlled == (\A c \in Clients : InControl(c)) /\ OnePerformer /\ StoredWereBegun

LEMMA OthersStayInControl ==
  ASSUME TypeOK, Controlled, NEW c \in Clients, Acts(c), NEW d \in Clients, d # c
  PROVE  InControl(d)'
<1>1. Same(d) /\ Growth(c)
  BY Locality, StepsHaveEffects DEF Effects
<1>2. Performed(d) => payload[d] \notin acked'
  <2>1. SUFFICES ASSUME Performed(d), pc[c] = "written" PROVE payload[d] # payload[c]
    BY <1>1 DEF Growth, Controlled, InControl
  <2>2. Performed(c) /\ payload[c] # NoSave
    BY <2>1 DEF Controlled, InControl, Performed, TypeOK
  <2>. QED  BY <2>2 DEF Controlled, OnePerformer
<1>. QED  BY <1>1, <1>2 DEF Same, Growth, Controlled, InControl, Performed, IsLoad

LEMMA ActorStaysInControl ==
  ASSUME TypeOK, Controlled, NEW c \in Clients, Acts(c)
  PROVE  InControl(c)'
<1>. InControl(c)
  BY DEF Controlled
<1>1. CASE Save(c)
  <2>1. CASE \E s \in SaveIds : BeginSave(c, s)
    <3>1. acked \subseteq started /\ acked' = acked
      BY <2>1 DEF TypeOK, BeginSave, Begin
    <3>. QED  BY <2>1, <3>1 DEF TypeOK, InControl, Performed, IsLoad, BeginSave, Begin
  <2>2. CASE RejectPart(c) \/ ReturnVersion(c)
    BY <2>2 DEF TypeOK, InControl, Performed, IsLoad, RejectPart, ReturnVersion, End, EndsWell
  <2>3. CASE ListForSave(c) \/ WriteObject(c) \/ OpenFile(c) \/ FillFile(c)
    BY <2>3 DEF TypeOK, InControl, Performed, IsLoad, ListForSave, WriteObject, OpenFile, FillFile,
       GoOn
  <2>. QED  BY <1>1, <2>1, <2>2, <2>3 DEF Save
<1>2. CASE BeginOther(c)
  BY <1>2 DEF TypeOK, InControl, Performed, IsLoad, BeginOther, Begin
<1>3. CASE Load(c)
  BY <1>3 DEF TypeOK, InControl, Performed, IsLoad, EndsWell, Load, GoOn, End, ListForLoad,
     NothingListed, FileExists, FileMissing, ReadFails, ReadEnvelope, FollowReference, RecursionError
<1>4. CASE GoThrough(c)
  BY <1>4 DEF TypeOK, InControl, Performed, IsLoad, EndsWell, GoThrough, GoOn, End, ListAll,
     PassOver, Take, Unlink, UnlinkTooLate, ReadMetadata, FindKey, Finish
<1>5. CASE Crash(c)
  BY <1>5 DEF TypeOK, InControl, Performed, IsLoad, EndsWell, Crash, End
<1>. QED  BY <1>1, <1>2, <1>3, <1>4, <1>5 DEF Acts

LEMMA PayloadSteps ==
  ASSUME TypeOK, NEW c \in Clients, Acts(c)
  PROVE  \/ payload'[c] \in {payload[c], NoSave}
         \/ payload'[c] \in SaveIds \ started
<1>1. CASE Save(c)
  BY <1>1 DEF TypeOK, Save, BeginSave, Begin, GoOn, End, ListForSave, RejectPart, WriteObject,
     OpenFile, FillFile, ReturnVersion
<1>2. CASE BeginOther(c) \/ Load(c) \/ Crash(c)
  BY <1>2 DEF TypeOK, BeginOther, Begin, Crash, Load, GoOn, End, ListForLoad, NothingListed,
     FileExists, FileMissing, ReadFails, ReadEnvelope, FollowReference, RecursionError
<1>3. CASE GoThrough(c)
  BY <1>3 DEF TypeOK, GoThrough, GoOn, End, ListAll, PassOver, Take, Unlink, UnlinkTooLate,
     ReadMetadata, FindKey, Finish
<1>. QED  BY <1>1, <1>2, <1>3 DEF Acts

LEMMA ControlPreserved ==
  ASSUME TypeOK, Controlled, NEW c \in Clients, Acts(c)
  PROVE  Controlled'
<1>1. \A d \in Clients : InControl(d)'
  BY OthersStayInControl, ActorStaysInControl
<1>2. OnePerformer'
  <2>1. \A d \in Clients \ {c} : payload'[d] = payload[d]
    BY Locality DEF Same
  <2>2. \A d \in Clients : payload[d] = NoSave \/ payload[d] \in started
    BY DEF Controlled, InControl
  <2>3. \A d \in Clients \ {c} : payload'[c] = payload'[d] => payload'[c] = NoSave
    BY <2>1, <2>2, PayloadSteps DEF Controlled, OnePerformer
  <2>. QED  BY <2>1, <2>3 DEF Controlled, OnePerformer
<1>3. StoredWereBegun'
  <2>1. Writing(c) => payload[c] \in started
    BY DEF Writing, Controlled, InControl, Performed
  <2>2. NewFiles(c) /\ Growth(c)
    BY StepsHaveEffects DEF Effects
  <2>. QED  BY <2>1, <2>2 DEF Controlled, StoredWereBegun, NewFiles, Growth
<1>. QED  BY <1>1, <1>2, <1>3 DEF Controlled

-----------------------------------------------------------------------------
(* What was acknowledged before                                            *)

AllAhead == \A c \in Clients : Ahead(c)

(* Whatever is written is not acknowledged yet. *)
LEMMA OldOnlyShrinks ==
  ASSUME TypeOK, Controlled, NEW c \in Clients, Acts(c),
         NEW d \in Clients, before'[d] = before[d]
  PROVE  Old(d)' \subseteq Old(d)
<1>1. NewFiles(c)
  BY StepsHaveEffects DEF Effects
<1>2. before[d] \subseteq SaveIds /\ before[d] \subseteq acked
  BY DEF TypeOK, Controlled, InControl
<1>3. Writing(c) => payload[c] \notin acked
  BY DEF Writing, Controlled, InControl, Performed
<1>. QED  BY <1>1, <1>2, <1>3 DEF NewFiles, Old

LEMMA OthersStayAhead ==
  ASSUME TypeOK, Controlled, AllAhead, NEW c \in Clients, Acts(c), NEW d \in Clients, d # c
  PROVE  Ahead(d)'
<1>1. Same(d)
  BY Locality
<1>2. Old(d)' \subseteq Old(d)
  BY <1>1, OldOnlyShrinks DEF Same
<1>3. Ahead(d)
  BY DEF AllAhead
<1>. QED  BY <1>1, <1>2, <1>3 DEF Same, Ahead, Writing

LEMMA ActorStaysAhead ==
  ASSUME TypeOK, Bounded, Controlled, AllAhead, NEW c \in Clients, Acts(c)
  PROVE  Ahead(c)'
<1>. InControl(c) /\ Ahead(c)
  BY DEF Controlled, AllAhead
<1>1. CASE (\E s \in SaveIds : BeginSave(c, s)) \/ BeginOther(c)
  BY <1>1 DEF TypeOK, BeginSave, BeginOther, Begin, Ahead, Writing
<1>2. CASE ListForSave(c)
  <2>1. Old(c)' \subseteq Stored
    BY <1>2 DEF ListForSave, GoOn, Old, Stored
  <2>2. version'[c] = NextVersion(Stored) /\ op'[c] = "save"
    BY <1>2 DEF ListForSave, GoOn, TypeOK
  <2>. QED  BY <2>1, <2>2, NextIsNew DEF Ahead
<1>3. CASE WriteObject(c) \/ OpenFile(c) \/ FillFile(c)
  <2>1. op'[c] = "save" /\ version'[c] = version[c] /\ before'[c] = before[c] /\ Writing(c)
    BY <1>3 DEF WriteObject, OpenFile, FillFile, GoOn, InControl, Writing, TypeOK
  <2>2. Old(c)' \subseteq Old(c)
    BY <2>1, OldOnlyShrinks
  <2>. QED  BY <2>1, <2>2 DEF Ahead
<1>4. CASE ListForLoad(c)
  <2>1. Old(c)' \subseteq Stored
    BY <1>4 DEF ListForLoad, GoOn, Old, Stored
  <2>2. version'[c] = Max(Stored) /\ op'[c] = "load_latest" /\ pc'[c] = "check" /\ Stored # {}
    BY <1>4 DEF ListForLoad, GoOn, TypeOK, Latest
  <2>. QED  BY <2>1, <2>2, ListingHasLast DEF Ahead, Writing
<1>5. CASE FileExists(c) \/ FollowReference(c)
  <2>1. /\ op'[c] = op[c] /\ IsLoad(c) /\ pc'[c] \in {"check", "read"} /\ version'[c] = version[c]
        /\ pc[c] \in {"check", "read"} /\ before'[c] = before[c] /\ answer'[c] = "none"
    BY <1>5 DEF FileExists, FollowReference, GoOn, InControl, TypeOK
  <2>2. Old(c)' \subseteq Old(c)
    BY <2>1, OldOnlyShrinks
  <2>. QED  BY <2>1, <2>2 DEF Ahead, Writing, IsLoad
<1>6. CASE ReadEnvelope(c)
  <2>1. /\ pc[c] = "read" /\ op'[c] = op[c] /\ IsLoad(c) /\ pc'[c] = "idle"
        /\ version'[c] = version[c] /\ before'[c] = before[c] /\ answer'[c] = "loaded"
    BY <1>6 DEF ReadEnvelope, End, EndsWell, TypeOK
  <2>2. Old(c)' \subseteq Old(c)
    BY <2>1, OldOnlyShrinks
  <2>. QED  BY <2>1, <2>2 DEF Ahead, Writing, IsLoad
<1>7. CASE \/ RejectPart(c) \/ ReturnVersion(c) \/ NothingListed(c) \/ FileMissing(c)
           \/ ReadFails(c) \/ RecursionError(c) \/ FindKey(c) \/ Crash(c)
  <2>1. pc'[c] = "idle" /\ answer'[c] \notin {"loaded", "listed", "deleted"}
    BY <1>7 DEF RejectPart, ReturnVersion, NothingListed, FileMissing, ReadFails, RecursionError,
       FindKey, Crash, End, TypeOK
  <2>. QED  BY <2>1 DEF Ahead, Writing
<1>8. CASE GoThrough(c) /\ ~FindKey(c)
  <2>1. CASE ListAll(c)
    <3>1. Old(c)' \subseteq listed'[c]
      BY <2>1 DEF ListAll, GoOn, Old, Stored, Listing, TypeOK
    <3>2. pc'[c] = "each" /\ op'[c] \in {"delete", "list_versions", "list_keys"} /\ answer'[c] = "none"
      BY <2>1 DEF ListAll, GoOn, TypeOK, InControl
    <3>. QED  BY <3>1, <3>2 DEF Ahead, Writing
  <2>2. CASE \E v \in listed[c] : PassOver(c, v)
    <3>1. PICK v \in listed[c] : PassOver(c, v)
      BY <2>2
    <3>2. /\ pc[c] = "each" /\ pc'[c] = "each" /\ op'[c] = op[c] /\ answer'[c] = "none"
          /\ visited'[c] = visited[c] /\ listed'[c] = listed[c] \ {v} /\ v \notin Old(c)
          /\ before'[c] = before[c]
      BY <3>1 DEF PassOver, GoOn, TypeOK, InControl, Old
    <3>3. Old(c)' \subseteq Old(c)
      BY <3>2, OldOnlyShrinks
    <3>. QED  BY <3>2, <3>3 DEF Ahead, Writing, InControl
  <2>3. CASE \E v \in listed[c] : Take(c, v)
    <3>1. PICK v \in listed[c] : Take(c, v)
      BY <2>3
    <3>2. /\ pc[c] = "each" /\ op'[c] = op[c] /\ answer'[c] = "none" /\ file'[c] = v
          /\ visited'[c] = visited[c] /\ listed'[c] = listed[c] \ {v}
          /\ before'[c] = before[c]
          /\ pc'[c] = IF op[c] = "delete" THEN "unlink" ELSE "read"
      BY <3>1 DEF Take, GoOn, TypeOK, InControl
    <3>3. Old(c)' \subseteq Old(c)
      BY <3>2, OldOnlyShrinks
    <3>. QED  BY <3>2, <3>3 DEF Ahead, Writing, InControl
  <2>4. CASE Unlink(c)
    <3>1. Old(c)' \subseteq Old(c) \ {file[c]}
      BY <2>4 DEF Unlink, GoOn, Old, Stored, Without, Restrict, TypeOK
    <3>2. pc'[c] = "each" /\ op'[c] = "delete" /\ answer'[c] = "none" /\ listed'[c] = listed[c]
      BY <2>4 DEF Unlink, GoOn, TypeOK, InControl
    <3>. QED  BY <2>4, <3>1, <3>2 DEF Ahead, Writing, InControl, Unlink
  <2>5. CASE UnlinkTooLate(c)
    <3>1. CASE backend = "local"
      BY <2>5, <3>1 DEF UnlinkTooLate, End, Ahead, Writing, TypeOK
    <3>2. CASE backend # "local"
      <4>1. /\ pc'[c] = "each" /\ op'[c] = "delete" /\ answer'[c] = "none"
            /\ listed'[c] = listed[c] /\ before'[c] = before[c] /\ file[c] \notin Old(c)
        BY <2>5, <3>2 DEF UnlinkTooLate, GoOn, TypeOK, InControl, Old
      <4>2. Old(c)' \subseteq Old(c)
        BY <4>1, OldOnlyShrinks
      <4>. QED  BY <2>5, <4>1, <4>2 DEF Ahead, Writing, InControl, UnlinkTooLate
    <3>. QED  BY <3>1, <3>2
  <2>6. CASE ReadMetadata(c)
    <3>1. /\ pc[c] = "read" /\ pc'[c] = "each" /\ op[c] = "list_versions" /\ op'[c] = op[c]
          /\ answer'[c] = "none" /\ listed'[c] = listed[c] /\ before'[c] = before[c]
          /\ visited'[c] = visited[c] \cup {file[c]}
      BY <2>6 DEF ReadMetadata, GoOn, TypeOK, InControl
    <3>2. Old(c)' \subseteq Old(c)
      BY <3>1, OldOnlyShrinks
    <3>. QED  BY <3>1, <3>2 DEF Ahead, Writing
  <2>7. CASE Finish(c)
    <3>1. /\ pc[c] = "each" /\ pc'[c] = "idle" /\ op'[c] = op[c] /\ listed[c] = {}
          /\ answer'[c] = Outcome(op[c]) /\ before'[c] = before[c]
          /\ answer'[c] = "listed" => visited'[c] = visited[c]
      BY <2>7 DEF Finish, End, EndsWell, TypeOK, InControl, Outcome
    <3>2. Old(c)' \subseteq Old(c)
      BY <3>1, OldOnlyShrinks
    <3>3. op[c] \in {"delete", "list_versions", "list_keys"}
      BY <3>1 DEF InControl
    <3>. QED  BY <3>1, <3>2, <3>3 DEF Ahead, Writing, Outcome
  <2>. QED  BY <1>8, <2>1, <2>2, <2>3, <2>4, <2>5, <2>6, <2>7 DEF GoThrough
<1>. QED  BY <1>1, <1>2, <1>3, <1>4, <1>5, <1>6, <1>7, <1>8 DEF Acts, Save, Load

LEMMA AheadPreserved ==
  ASSUME TypeOK, Bounded, Controlled, AllAhead, NEW c \in Clients, Acts(c)
  PROVE  AllAhead'
BY OthersStayAhead, ActorStaysAhead DEF AllAhead

-----------------------------------------------------------------------------
(* Why operations fail                                                     *)

AllUndisturbed == \A c \in Clients : Undisturbed(c)

LEMMA OthersStayUndisturbed ==
  ASSUME TypeOK, AllUndisturbed, NEW c \in Clients, Acts(c), NEW d \in Clients, d # c
  PROVE  Undisturbed(d)'
<1>1. Same(d) /\ Kept /\ Growth(c)
  BY Locality, StepsHaveEffects DEF Effects
<1>2. SUFFICES ASSUME pc[d] # "idle", d \notin disturbed'
               PROVE  Undisturbed(d)'
  BY <1>1 DEF Undisturbed, Same
<1>3. Stored \subseteq Stored' /\ d \notin disturbed
  BY <1>1, <1>2 DEF Kept, Growth
<1>. QED  BY <1>1, <1>2, <1>3 DEF AllUndisturbed, Undisturbed, Same

LEMMA ActorStaysUndisturbed ==
  ASSUME TypeOK, Bounded, Controlled, AllUndisturbed, NEW c \in Clients, Acts(c)
  PROVE  Undisturbed(c)'
<1>. InControl(c) /\ Undisturbed(c)
  BY DEF Controlled, AllUndisturbed
<1>1. CASE (\E s \in SaveIds : BeginSave(c, s)) \/ BeginOther(c)
  BY <1>1 DEF TypeOK, BeginSave, BeginOther, Begin, Undisturbed, Stored
<1>2. CASE ListForSave(c)
  BY <1>2 DEF TypeOK, ListForSave, GoOn, Undisturbed, Stored
<1>3. CASE WriteObject(c) \/ OpenFile(c) \/ FillFile(c)
  <2>1. /\ pc[c] # "idle" /\ pc'[c] \in {"fill", "written"}
        /\ disturbed' = disturbed /\ before'[c] = before[c]
    BY <1>3 DEF WriteObject, OpenFile, FillFile, GoOn, TypeOK
  <2>2. Stored \subseteq Stored'
    BY <1>3 DEF WriteObject, OpenFile, FillFile, Stored, With
  <2>. QED  BY <2>1, <2>2 DEF Undisturbed
<1>4. CASE ListForLoad(c)
  BY <1>4, ListingHasLast DEF TypeOK, ListForLoad, GoOn, Undisturbed, Stored, Latest
<1>5. CASE FileExists(c) \/ FollowReference(c)
  <2>1. CASE FileExists(c)
    BY <2>1 DEF TypeOK, FileExists, GoOn, Undisturbed, Stored
  <2>2. CASE FollowReference(c)
    <3>1. /\ pc[c] # "idle" /\ pc'[c] = "check" /\ visited'[c] # {} /\ files' = files
          /\ disturbed' = disturbed /\ before'[c] = before[c]
      BY <2>2 DEF FollowReference, GoOn, TypeOK
    <3>. QED  BY <3>1 DEF Undisturbed, Stored
  <2>. QED  BY <1>5, <2>1, <2>2
<1>6. CASE \/ RejectPart(c) \/ ReturnVersion(c) \/ NothingListed(c) \/ FileMissing(c)
           \/ ReadFails(c) \/ ReadEnvelope(c) \/ RecursionError(c) \/ FindKey(c) \/ Finish(c)
           \/ Crash(c)
  <2>1. pc'[c] = "idle"
    BY <1>6 DEF RejectPart, ReturnVersion, NothingListed, FileMissing, ReadFails, ReadEnvelope,
       RecursionError, FindKey, Finish, Crash, End, TypeOK
  <2>. QED  BY <2>1 DEF Undisturbed
<1>7. CASE ListAll(c)
  BY <1>7 DEF TypeOK, ListAll, GoOn, Undisturbed, Stored, Listing
<1>8. CASE \E v \in listed[c] : PassOver(c, v) \/ Take(c, v)
  BY <1>8 DEF TypeOK, PassOver, Take, GoOn, Undisturbed, Stored
<1>9. CASE Unlink(c)
  <2>1. c \in disturbed'
    BY <1>9 DEF Unlink
  <2>. QED  BY <2>1 DEF Undisturbed
<1>10. CASE UnlinkTooLate(c) \/ ReadMetadata(c)
  <2>1. /\ \/ pc'[c] = "idle"
           \/ pc'[c] = "each" /\ op'[c] # "list_keys"
        /\ files' = files /\ disturbed' = disturbed
        /\ pc'[c] # "idle" => before'[c] = before[c]
        /\ pc[c] # "idle"
    BY <1>10 DEF UnlinkTooLate, ReadMetadata, GoOn, End, TypeOK, InControl
  <2>. QED  BY <2>1 DEF Undisturbed, Stored
<1>. QED  BY <1>1, <1>2, <1>3, <1>4, <1>5, <1>6, <1>7, <1>8, <1>9, <1>10
          DEF Acts, Save, Load, GoThrough

LEMMA UndisturbedPreserved ==
  ASSUME TypeOK, Bounded, Controlled, AllUndisturbed, NEW c \in Clients, Acts(c)
  PROVE  AllUndisturbed'
BY OthersStayUndisturbed, ActorStaysUndisturbed DEF AllUndisturbed

LEMMA WholenessPreserved ==
  ASSUME TypeOK, Controlled, CloudIsWhole, NEW c \in Clients, Acts(c), backend' = backend
  PROVE  CloudIsWhole'
<1>1. SUFFICES ASSUME backend = "cloud"
               PROVE  /\ \A d \in Clients : pc'[d] # "fill"
                      /\ \A v \in Stored' : files'[v] \in SaveIds
  BY DEF CloudIsWhole
<1>2. (\A d \in Clients : pc[d] # "fill") /\ \A v \in Stored : files[v] \in SaveIds
  BY <1>1 DEF CloudIsWhole
<1>3. \A d \in Clients \ {c} : pc'[d] # "fill"
  BY <1>2, Locality DEF Same
<1>4. pc'[c] # "fill" /\ \A v \in Stored' : files'[v] \in SaveIds
  <2>1. CASE Save(c)
    BY <1>1, <1>2, <2>1 DEF TypeOK, Controlled, InControl, Performed, Stored, With, Save, BeginSave,
       Begin, GoOn, End, ListForSave, RejectPart, WriteObject, OpenFile, FillFile, ReturnVersion
  <2>2. CASE BeginOther(c) \/ Load(c) \/ Crash(c)
    BY <1>2, <2>2 DEF TypeOK, Stored, BeginOther, Begin, Crash, Load, GoOn, End, ListForLoad,
       NothingListed, FileExists, FileMissing, ReadFails, ReadEnvelope, FollowReference, RecursionError
  <2>3. CASE GoThrough(c)
    BY <1>2, <2>3 DEF TypeOK, Stored, Without, Restrict, GoThrough, GoOn, End, ListAll, PassOver,
       Take, Unlink, UnlinkTooLate, ReadMetadata, FindKey, Finish
  <2>. QED  BY <2>1, <2>2, <2>3 DEF Acts
<1>. QED  BY <1>3, <1>4

-----------------------------------------------------------------------------
(* Where references lead                                                   *)

LeadsDown(c) ==
  /\ Writing(c) => Descends(payload[c], version[c])
  /\ pc[c] = "check" /\ visited[c] # {} => file[c] \in Stored
  /\ IsLoad(c) /\ pc[c] \in {"check", "read"} => \A v \in visited[c] : file[c] < v

LEMMA OthersStillLeadDown ==
  ASSUME TypeOK, Controlled, NEW c \in Clients, Acts(c), NEW d \in Clients, d # c,
         LeadsDown(d), Stored \subseteq Stored', ~unlinked'
  PROVE  LeadsDown(d)'
<1>1. Same(d) /\ Growth(c)
  BY Locality, StepsHaveEffects DEF Effects
<1>2. Writing(d) => payload[d] \in started
  BY DEF Writing, Controlled, InControl, Performed
<1>. QED  BY <1>1, <1>2 DEF LeadsDown, Same, Growth, Writing, Descends, IsLoad

LEMMA ReferencesPreserved ==
  ASSUME TypeOK, Bounded, Controlled, ReferencesLeadDown, NEW c \in Clients, Acts(c)
  PROVE  ReferencesLeadDown'
<1>1. NewFiles(c) /\ Kept /\ Growth(c) /\ unlinked \in BOOLEAN /\ unlinked' \in BOOLEAN
  <2>1. unlinked' \in BOOLEAN
    BY DEF TypeOK, Acts, Save, BeginSave, Begin, GoOn, End, ListForSave, RejectPart, WriteObject,
       OpenFile, FillFile, ReturnVersion, BeginOther, Load, ListForLoad, NothingListed, FileExists,
       FileMissing, ReadFails, ReadEnvelope, FollowReference, RecursionError, GoThrough, ListAll,
       PassOver, Take, Unlink, UnlinkTooLate, ReadMetadata, FindKey, Finish, Crash
  <2>. QED  BY <2>1, StepsHaveEffects DEF Effects, TypeOK
<1>2. CASE unlinked'
  BY <1>2 DEF ReferencesLeadDown
<1>3. CASE ~unlinked'
  <2>. DEFINE Down == \A v \in Stored : files[v] \in SaveIds => Descends(files[v], v)
  <2>1. ~unlinked
    BY <1>1, <1>3 DEF Growth
  <2>2. /\ \A s \in SaveIds : refers[s] # NoVersion => refers[s] \in Stored
        /\ Down
        /\ \A d \in Clients : LeadsDown(d)
    BY <2>1 DEF ReferencesLeadDown, LeadsDown
  <2>3. Stored \subseteq Stored'
    BY <1>1, <1>3 DEF Kept
  <2>4. \A s \in SaveIds : refers'[s] # NoVersion => refers'[s] \in Stored'
    <3>1. refers' = refers \/ \E s \in SaveIds, r \in Stored \cup {NoVersion} :
                                refers' = [refers EXCEPT ![s] = r]
      <4>1. CASE \E s \in SaveIds : BeginSave(c, s)
        BY <4>1 DEF BeginSave, Referable
      <4>2. CASE ~\E s \in SaveIds : BeginSave(c, s)
        BY <1>3, <4>2 DEF Acts, Save, GoOn, End, ListForSave, RejectPart, WriteObject,
           OpenFile, FillFile, ReturnVersion, BeginOther, Load, ListForLoad, NothingListed,
           FileExists, FileMissing, ReadFails, ReadEnvelope, FollowReference, RecursionError,
           GoThrough, ListAll, PassOver, Take, Unlink, UnlinkTooLate, ReadMetadata, FindKey,
           Finish, Crash
      <4>. QED  BY <4>1, <4>2
    <3>. QED  BY <2>2, <2>3, <3>1 DEF TypeOK
  <2>5. Down'
    <3>1. Writing(c) => payload[c] \in started
      BY DEF Writing, Controlled, InControl, Performed
    <3>. QED  BY <1>1, <1>3, <2>2, <3>1 DEF NewFiles, Growth, Descends, LeadsDown, Controlled,
                  StoredWereBegun
  <2>6. \A d \in Clients \ {c} : LeadsDown(d)'
    BY <1>3, <2>2, <2>3, OthersStillLeadDown
  <2>7. LeadsDown(c)'
    <3>. InControl(c) /\ LeadsDown(c)
      BY <2>2 DEF Controlled
    <3>1. CASE (\E s \in SaveIds : BeginSave(c, s)) \/ BeginOther(c)
      BY <3>1 DEF TypeOK, BeginSave, BeginOther, Begin, LeadsDown, Writing
    <3>2. CASE ListForSave(c)
      <4>1. /\ pc'[c] = "write" /\ op'[c] = "save" /\ payload'[c] = payload[c]
            /\ version'[c] = NextVersion(Stored) /\ refers' = refers /\ payload[c] \in SaveIds
        BY <3>2 DEF ListForSave, GoOn, TypeOK, InControl, Performed
      <4>2. Descends(payload[c], NextVersion(Stored))
        BY <2>2, <4>1, NextIsNew DEF Descends
      <4>. QED  BY <4>1, <4>2 DEF LeadsDown, Writing, Descends, IsLoad
    <3>3. CASE WriteObject(c) \/ OpenFile(c) \/ FillFile(c)
      BY <3>3 DEF TypeOK, WriteObject, OpenFile, FillFile, GoOn, LeadsDown, Writing, Descends, IsLoad,
         InControl
    <3>4. CASE ListForLoad(c)
      <4>1. visited[c] = {}
        BY <3>4 DEF ListForLoad, InControl
      <4>. QED  BY <3>4, <4>1 DEF TypeOK, ListForLoad, GoOn, LeadsDown, Writing
    <3>5. CASE FileExists(c)
      BY <3>5 DEF TypeOK, FileExists, GoOn, LeadsDown, Writing, IsLoad
    <3>6. CASE FollowReference(c)
      <4>1. /\ pc[c] = "read" /\ pc'[c] = "check" /\ op'[c] = op[c] /\ IsLoad(c)
            /\ visited'[c] = visited[c] \cup {file[c]} /\ file[c] \in Stored
            /\ file'[c] = refers[files[file[c]]] /\ files[file[c]] \in SaveIds
            /\ refers[files[file[c]]] # NoVersion
        BY <3>6 DEF TypeOK, FollowReference, GoOn, Readable
      <4>2. file'[c] < file[c] /\ file'[c] \in Stored
        BY <2>2, <4>1 DEF Descends
      <4>3. \A v \in visited[c] : file[c] < v
        BY <4>1 DEF LeadsDown
      <4>4. \A v \in visited[c] : v \in Nat /\ file[c] \in Nat /\ file'[c] \in Nat
        BY <4>2 DEF TypeOK
      <4>5. \A v \in visited'[c] : file'[c] < v
        BY <4>1, <4>2, <4>3, <4>4
      <4>. QED  BY <2>3, <4>1, <4>2, <4>5 DEF LeadsDown, Writing
    <3>7. CASE GoThrough(c)
      <4>1. \/ pc'[c] \in {"idle", "each", "unlink"}
            \/ pc'[c] = "read" /\ ~IsLoad(c)'
        BY <3>7 DEF TypeOK, InControl, IsLoad, GoThrough, GoOn, End, ListAll, PassOver, Take,
           Unlink, UnlinkTooLate, ReadMetadata, FindKey, Finish
      <4>. QED  BY <4>1 DEF LeadsDown, Writing
    <3>8. CASE \/ RejectPart(c) \/ ReturnVersion(c) \/ NothingListed(c) \/ FileMissing(c)
               \/ ReadFails(c) \/ ReadEnvelope(c) \/ RecursionError(c) \/ Crash(c)
      <4>1. pc'[c] = "idle"
        BY <3>8 DEF RejectPart, ReturnVersion, NothingListed, FileMissing, ReadFails, ReadEnvelope,
           RecursionError, Crash, End, TypeOK
      <4>. QED  BY <4>1 DEF LeadsDown, Writing
    <3>. QED  BY <3>1, <3>2, <3>3, <3>4, <3>5, <3>6, <3>7, <3>8 DEF Acts, Save, Load
  <2>. QED  BY <2>4, <2>5, <2>6, <2>7 DEF ReferencesLeadDown, LeadsDown
<1>. QED  BY <1>2, <1>3

-----------------------------------------------------------------------------
(* The invariant                                                           *)

HasCause(c) ==
  /\ op[c] \in {"load_latest", "list_keys"} /\ answer[c] = "missing" =>
       before[c] = {} \/ c \in disturbed
  /\ answer[c] = "gone" => c \in disturbed
  /\ answer[c] \in {"dangling", "endless"} => unlinked
  /\ answer[c] = "corrupt" => backend = "local"

LEMMA CausesPreserved ==
  ASSUME IInv, Bounded, NEW c \in Clients, Acts(c), backend' = backend
  PROVE  FailuresHaveCause'
<1>. /\ TypeOK /\ InControl(c) /\ Undisturbed(c) /\ CloudIsWhole /\ ReferencesLeadDown
     /\ \A d \in Clients : HasCause(d)
  BY DEF IInv, FailuresHaveCause, HasCause
<1>1. Growth(c)
  BY StepsHaveEffects DEF Effects
<1>2. \A d \in Clients \ {c} : HasCause(d)'
  <2>1. \A d \in Clients \ {c} : Same(d)
    BY Locality
  <2>2. unlinked => unlinked'
    BY <1>1 DEF Growth, TypeOK
  <2>. QED  BY <1>1, <2>1, <2>2 DEF Same, Growth, HasCause
<1>3. HasCause(c)'
  <2>1. CASE pc'[c] # "idle"
    <3>1. answer'[c] = "none"
      BY <2>1, ActorStaysInControl DEF IInv, Controlled, InControl
    <3>. QED  BY <3>1 DEF HasCause
  <2>2. CASE NothingListed(c)
    <3>1. before[c] = {} \/ c \in disturbed
      BY <2>2 DEF NothingListed, Undisturbed
    <3>. QED  BY <2>2, <3>1 DEF NothingListed, End, EndsWell, HasCause, TypeOK
  <2>3. CASE FileMissing(c)
    <3>1. CASE visited[c] = {}
      <4>1. op[c] = "load_latest" => c \in disturbed
        BY <2>3, <3>1 DEF FileMissing, Undisturbed
      <4>2. op[c] # "list_keys"
        BY <2>3 DEF FileMissing, InControl, IsLoad
      <4>. QED  BY <2>3, <3>1, <4>1, <4>2 DEF FileMissing, End, EndsWell, HasCause, TypeOK
    <3>2. CASE visited[c] # {}
      <4>1. unlinked
        BY <2>3, <3>2 DEF FileMissing, ReferencesLeadDown
      <4>. QED  BY <2>3, <3>2, <4>1 DEF FileMissing, End, EndsWell, HasCause, TypeOK
    <3>. QED  BY <3>1, <3>2
  <2>4. CASE ReadFails(c)
    <3>1. CASE file[c] \notin Stored
      <4>1. c \in disturbed
        BY <2>4, <3>1 DEF ReadFails, Undisturbed
      <4>. QED  BY <2>4, <3>1, <4>1 DEF ReadFails, End, EndsWell, HasCause, TypeOK
    <3>2. CASE file[c] \in Stored
      <4>1. backend = "local"
        BY <2>4, <3>2 DEF ReadFails, CloudIsWhole, TypeOK, Partial, Garbled
      <4>. QED  BY <2>4, <3>2, <4>1 DEF ReadFails, End, EndsWell, HasCause, TypeOK
    <3>. QED  BY <3>1, <3>2
  <2>5. CASE RecursionError(c)
    <3>1. unlinked
      <4>1. SUFFICES ASSUME ~unlinked PROVE FALSE
        OBVIOUS
      <4>2. file[c] < file[c] /\ file[c] \in Nat
        BY <2>5, <4>1 DEF RecursionError, ReferencesLeadDown, InControl, TypeOK
      <4>. QED  BY <4>2
    <3>. QED  BY <2>5, <3>1 DEF RecursionError, End, EndsWell, HasCause, TypeOK
  <2>6. CASE UnlinkTooLate(c)
    <3>1. c \in disturbed
      BY <2>6 DEF UnlinkTooLate, Undisturbed
    <3>. QED  BY <2>1, <2>6, <3>1 DEF UnlinkTooLate, GoOn, End, EndsWell, HasCause, TypeOK
  <2>7. CASE Finish(c)
    <3>1. op[c] = "list_keys" => before[c] = {} \/ c \in disturbed
      BY <2>7 DEF Finish, Undisturbed
    <3>2. op[c] \in {"delete", "list_versions", "list_keys"}
      BY <2>7 DEF Finish, InControl
    <3>. QED  BY <2>7, <3>1, <3>2 DEF Finish, End, EndsWell, Outcome, HasCause, TypeOK
  <2>8. CASE RejectPart(c) \/ ReturnVersion(c) \/ ReadEnvelope(c) \/ FindKey(c) \/ Crash(c)
    <3>1. answer'[c] \in {"invalid", "saved", "loaded", "found", "lost"}
      BY <2>8 DEF RejectPart, ReturnVersion, ReadEnvelope, FindKey, Crash, End, TypeOK
    <3>. QED  BY <3>1 DEF HasCause
  <2>9. CASE \/ (\E s \in SaveIds : BeginSave(c, s)) \/ BeginOther(c)
             \/ ListForSave(c) \/ WriteObject(c) \/ OpenFile(c) \/ FillFile(c)
             \/ ListForLoad(c) \/ FileExists(c) \/ FollowReference(c)
             \/ ListAll(c) \/ (\E v \in listed[c] : PassOver(c, v) \/ Take(c, v))
             \/ Unlink(c) \/ ReadMetadata(c)
    <3>1. pc'[c] # "idle"
      BY <2>9 DEF BeginSave, BeginOther, Begin, ListForSave, WriteObject, OpenFile, FillFile,
         ListForLoad, FileExists, FollowReference, ListAll, PassOver, Take, Unlink, ReadMetadata,
         GoOn, TypeOK
    <3>. QED  BY <2>1, <3>1
  <2>. QED  BY <2>2, <2>3, <2>4, <2>5, <2>6, <2>7, <2>8, <2>9 DEF Acts, Save, Load, GoThrough
<1>. QED  BY <1>2, <1>3 DEF FailuresHaveCause, HasCause

Strong == IInv /\ Bounded

LEMMA Parts ==
  IInv <=> /\ TypeOK /\ Controlled /\ AllAhead /\ AllUndisturbed
           /\ CloudIsWhole /\ ReferencesLeadDown /\ FailuresHaveCause
BY DEF IInv, Controlled, AllAhead, AllUndisturbed

LEMMA Starts == Init => Strong
<1>. SUFFICES ASSUME Init PROVE Strong
  OBVIOUS
<1>1. TypeOK
  BY DEF Init, TypeOK, Stored
<1>2. Bounded
  BY DEF Init, Bounded, Stored
<1>3. Controlled
  BY DEF Init, Controlled, InControl, OnePerformer, StoredWereBegun, Stored, Performed
<1>4. AllAhead /\ AllUndisturbed
  BY DEF Init, AllAhead, AllUndisturbed, Ahead, Undisturbed, Writing
<1>5. CloudIsWhole /\ ReferencesLeadDown /\ FailuresHaveCause
  BY DEF Init, CloudIsWhole, ReferencesLeadDown, FailuresHaveCause, Stored, Writing
<1>. QED  BY <1>1, <1>2, <1>3, <1>4, <1>5, Parts DEF Strong

LEMMA Stays == Strong /\ [Next]_vars => Strong'
<1>1. ASSUME Strong, NEW c \in Clients, Acts(c), backend' = backend
      PROVE  Strong'
  <2>. /\ TypeOK /\ Bounded /\ Controlled /\ AllAhead /\ AllUndisturbed
       /\ CloudIsWhole /\ ReferencesLeadDown /\ InControl(c)
    BY <1>1, Parts DEF Strong, Controlled
  <2>1. TypeOK' /\ Bounded' /\ Controlled'
    BY <1>1, TypePreserved, BoundedPreserved, ControlPreserved
  <2>2. AllAhead' /\ AllUndisturbed'
    BY <1>1, AheadPreserved, UndisturbedPreserved
  <2>3. CloudIsWhole' /\ ReferencesLeadDown'
    BY <1>1, WholenessPreserved, ReferencesPreserved
  <2>4. FailuresHaveCause'
    BY <1>1, CausesPreserved DEF Strong
  <2>. QED  BY <2>1, <2>2, <2>3, <2>4, Parts DEF Strong, IInv, Controlled, AllAhead, AllUndisturbed
<1>2. ASSUME Strong, UNCHANGED vars
      PROVE  Strong'
  BY <1>2 DEF Strong, IInv, Bounded, vars, storage, local, history, TypeOK, Stored, InControl,
     Performed, IsLoad, OnePerformer, StoredWereBegun, Ahead, Old, Writing, Undisturbed,
     CloudIsWhole, ReferencesLeadDown, Descends, FailuresHaveCause
<1>. QED  BY <1>1, <1>2 DEF Next, Acts

LEMMA AlwaysStrong == Spec => []Strong
BY Starts, Stays, PTL DEF Spec

(***************************************************************************)
(* The inductive invariant holds of the artifact service: the types, the   *)
(* order that saves, deletes and listings follow, what they have still     *)
(* ahead of them, and where references lead.                               *)
(***************************************************************************)
THEOREM StoreInvariant == Spec => []IInv
<1>1. Strong => IInv
  BY DEF Strong
<1>. QED  BY <1>1, AlwaysStrong, PTL

(***************************************************************************)
(* _load_artifact, _list_artifact_versions: what was acknowledged when a   *)
(* load of the latest version or a listing began, and is still stored, is  *)
(* not newer than what was loaded, and is in the listing.                  *)
(***************************************************************************)
THEOREM LoadsStayFresh == Spec => []LoadsAreFresh
<1>1. IInv => LoadsAreFresh
  BY DEF IInv, Ahead, Old, LoadsAreFresh
<1>. QED  BY <1>1, StoreInvariant, PTL

(***************************************************************************)
(* _delete_artifact: what was acknowledged when a delete began is gone     *)
(* once it has returned, and does not come back.                           *)
(***************************************************************************)
THEOREM DeletesAreFinal == Spec => []DeletedIsGone
<1>1. IInv => DeletedIsGone
  BY DEF IInv, Ahead, Old, DeletedIsGone
<1>. QED  BY <1>1, StoreInvariant, PTL

(***************************************************************************)
(* Operations fail for the reasons given, and chains of references end as  *)
(* long as nothing was ever deleted, however long they are.                *)
(***************************************************************************)
THEOREM CausesHold == Spec => []FailuresHaveCause
<1>1. IInv => FailuresHaveCause
  BY DEF IInv
<1>. QED  BY <1>1, StoreInvariant, PTL

(***************************************************************************)
(* _save_artifact: an acknowledged version is overwritten only by a save   *)
(* that was already under way when it was acknowledged.                    *)
(***************************************************************************)
THEOREM SavesAreKept == Spec => SavedIsKept
<1>. DEFINE Keeps == \A v \in Stored :
       \/ files[v] \notin acked
       \/ v \notin Stored'
       \/ files'[v] = files[v]
       \/ \E c \in Clients : Writing(c) /\ version[c] = v /\ files[v] \notin before[c]
<1>1. ASSUME Strong, [Next]_vars PROVE [Keeps]_vars
  <2>1. SUFFICES ASSUME Next PROVE Keeps
    BY <1>1
  <2>2. PICK c \in Clients : Acts(c)
    BY <2>1 DEF Next, Acts
  <2>3. SUFFICES ASSUME NEW v \in Stored, files[v] \in acked, v \in Stored', files'[v] # files[v]
                 PROVE  Writing(c) /\ version[c] = v /\ files[v] \notin before[c]
    OBVIOUS
  <2>. TypeOK /\ Ahead(c)
    BY <1>1 DEF Strong, IInv
  <2>4. Writing(c) /\ version[c] = v
    <3>1. CASE Save(c)
      BY <2>3, <3>1 DEF Writing, Stored, With, Save, BeginSave, Begin, GoOn, End, ListForSave,
         RejectPart, WriteObject, OpenFile, FillFile, ReturnVersion
    <3>2. CASE GoThrough(c)
      BY <2>3, <3>2 DEF Stored, Without, Restrict, GoThrough, GoOn, End, ListAll, PassOver, Take,
         Unlink, UnlinkTooLate, ReadMetadata, FindKey, Finish
    <3>3. CASE BeginOther(c) \/ Load(c) \/ Crash(c)
      BY <2>3, <3>3 DEF BeginOther, Begin, Crash, Load, GoOn, End, ListForLoad, NothingListed,
         FileExists, FileMissing, ReadFails, ReadEnvelope, FollowReference, RecursionError
    <3>. QED  BY <2>2, <3>1, <3>2, <3>3 DEF Acts
  <2>5. files[v] \notin before[c]
    BY <2>3, <2>4 DEF Ahead, Old, TypeOK
  <2>. QED  BY <2>4, <2>5
<1>. QED  BY <1>1, AlwaysStrong, PTL DEF Spec, SavedIsKept
==============================================================================
