--------------------------- MODULE ModelSelection ---------------------------
(***************************************************************************)
(* app/shared/model_selection.py and app/shared/model_catalog.py: which of *)
(* the ids of a model catalog a tier gets when nobody pinned it.           *)
(*                                                                         *)
(* A model id is what _classify_model parses it into: the numbers of its   *)
(* version, its family, the numbers after the family, and what kind of     *)
(* release the first token after the family makes it ("special" stands for *)
(* any token the classifier refuses, and family "other" for the rest).     *)
(* Whether a later token names a specialised variant (the tts of           *)
(* gemini-2.5-flash-preview-tts) is part of the id, and not of what the    *)
(* classifier makes of it.                                                 *)
(***************************************************************************)
EXTENDS Naturals, Sequences, SequencesExt

Families == {"flash-lite", "flash", "pro"}

ModelId(family, version, release, numbers) ==
  [family |-> family, version |-> version, release |-> release, numbers |-> numbers,
   variant |-> FALSE]

VariantOf(id) == [id EXCEPT !.variant = TRUE]

Releases == {"plain", "numbered", "preview", "special"}

(* An id that ends with its family has no token that could name a variant. *)
ModelIds ==
  {id \in [family : Families \cup {"other", "none"}, version : Seq(Nat),
           release : Releases, numbers : Seq(Nat), variant : BOOLEAN] :
     id.release = "plain" => ~id.variant}

NoModel == ModelId("none", <<>>, "special", <<>>)

(* Python's order on tuples of numbers: the first difference decides, and a
   tuple comes before the tuples it is a beginning of. *)
TupleLess(s, t) ==
  \E n \in 1..Len(t) :
    /\ \A i \in 1..(n - 1) : i <= Len(s) /\ s[i] = t[i]
    /\ n <= Len(s) => s[n] < t[n]

(* _classify_model keeps it, and it is of the family asked for: of what follows
   the family, it looks at the first token alone. *)
Candidate(id, family) == id.family = family /\ id.release # "special"

Stable(id) == IF id.release = "preview" THEN 0 ELSE 1
Alias(id)  == IF id.release = "plain" THEN 1 ELSE 0

(* MUTANT: a stable release beats any preview, whatever the versions. *)
StableFirst(a, b) ==
  \/ Stable(a) < Stable(b)
  \/ /\ Stable(a) = Stable(b)
     /\ \/ TupleLess(a.version, b.version)
        \/ /\ a.version = b.version
           /\ \/ Alias(a) < Alias(b)
              \/ Alias(a) = Alias(b) /\ TupleLess(a.numbers, b.numbers)

(* The order of the keys (version, stable, alias, numbers). *)
KeyLess(a, b) ==
  \/ TupleLess(a.version, b.version)
  \/ /\ a.version = b.version
     /\ \/ Stable(a) < Stable(b)
        \/ /\ Stable(a) = Stable(b)
           /\ \/ Alias(a) < Alias(b)
              \/ Alias(a) = Alias(b) /\ TupleLess(a.numbers, b.numbers)

(* The loop of select_latest_model: a later id has to be greater to win. *)
SelectLatestModel(catalog, family) ==
  LET Better(best, id) ==
        IF Candidate(id, family) /\ (best = NoModel \/ KeyLess(best, id))
        THEN id ELSE best
      best[n \in 0..Len(catalog)] ==
        IF n = 0 THEN NoModel ELSE Better(best[n - 1], catalog[n])
  IN best[Len(catalog)]

-----------------------------------------------------------------------------
(* What the docstring says: the version counts most, previews included; a tie
   goes to the stable release, then to the alias without a suffix, then to the
   higher suffix. Numbers are compared where they first differ, and a place
   left empty is below any number. *)
Place(numbers, i) == IF i \in DOMAIN numbers THEN numbers[i] + 1 ELSE 0

Higher(s, t) ==
  \E i \in DOMAIN s : /\ Place(s, i) > Place(t, i)
                      /\ \A j \in 1..(i - 1) : Place(s, j) = Place(t, j)

Standing(id) == IF id.release = "preview" THEN 0 ELSE IF id.release = "plain" THEN 2 ELSE 1

Beats(a, b) ==
  \/ Higher(a.version, b.version)
  \/ a.version = b.version /\ Standing(a) > Standing(b)
  \/ a.version = b.version /\ Standing(a) = Standing(b) /\ Higher(a.numbers, b.numbers)

(* _classify_model keeps "only general-purpose text models": the docstring has
   it skip every specialised variant. *)
TextModel(id, family) == id.family = family /\ id.release # "special" /\ ~id.variant

(* A variant that passes for one, because the token that tells stands behind a
   number or a preview marker. *)
Disguised(id, family) ==
  id.family = family /\ id.release \in {"numbered", "preview"} /\ id.variant

(* The latest: no general-purpose model of the family beats it, and it is one
   itself, unless it is a variant in disguise. *)
Latest(id, catalog, family) ==
  /\ id \in ToSet(catalog)
  /\ TextModel(id, family) \/ Disguised(id, family)
  /\ \A m \in ToSet(catalog) : TextModel(m, family) => ~Beats(m, id)
=============================================================================
