-------------------------- MODULE PodConfigProofs --------------------------
(***************************************************************************)
(* What the pure functions of PodConfig return, for every input: the       *)
(* latest model of a catalog (ModelSelection), the peers of an environment *)
(* and the path their cards are at. The functions are loops over           *)
(* sequences; each lemma has the invariant of its loop.                    *)
(***************************************************************************)
EXTENDS PodConfig, SequenceLemmas

-----------------------------------------------------------------------------
(* The order of the keys                                                   *)

(* No tuple of numbers comes before itself. *)
LEMMA TupleIrreflexive ==
  ASSUME NEW s \in Seq(Nat)
  PROVE  ~TupleLess(s, s)
<1> SUFFICES ASSUME NEW n \in 1..Len(s), s[n] < s[n]
             PROVE  FALSE
  BY DEF TupleLess
<1>1. s[n] \in Nat
  BY ElementOfSeq
<1> QED
  BY <1>1

(* The order of tuples of numbers is transitive. *)
LEMMA TupleTransitive ==
  ASSUME NEW s \in Seq(Nat), NEW t \in Seq(Nat), NEW u \in Seq(Nat),
         TupleLess(s, t), TupleLess(t, u)
  PROVE  TupleLess(s, u)
<1>1. PICK n \in 1..Len(t) :
        /\ \A i \in 1..(n - 1) : i <= Len(s) /\ s[i] = t[i]
        /\ n <= Len(s) => s[n] < t[n]
  BY DEF TupleLess
<1>2. PICK m \in 1..Len(u) :
        /\ \A i \in 1..(m - 1) : i <= Len(t) /\ t[i] = u[i]
        /\ m <= Len(t) => t[m] < u[m]
  BY DEF TupleLess
<1>3. /\ Len(s) \in Nat /\ Len(t) \in Nat /\ Len(u) \in Nat
      /\ \A i \in 1..Len(s) : s[i] \in Nat
      /\ \A i \in 1..Len(t) : t[i] \in Nat
      /\ \A i \in 1..Len(u) : u[i] \in Nat
  BY LenProperties, ElementOfSeq
<1>4. CASE n < m
  <2>1. n \in 1..Len(u) /\ t[n] = u[n]
    BY <1>2, <1>3, <1>4
  <2>2. \A i \in 1..(n - 1) : i <= Len(s) /\ s[i] = u[i]
    BY <1>1, <1>2, <1>4
  <2> QED
    BY <1>1, <2>1, <2>2 DEF TupleLess
<1>5. CASE n >= m
  <2>1. \A i \in 1..(m - 1) : i <= Len(s) /\ s[i] = u[i]
    BY <1>1, <1>2, <1>5
  <2>2. m <= Len(t) /\ t[m] < u[m]
    BY <1>2, <1>3, <1>5
  <2>3. ASSUME m <= Len(s)
        PROVE  s[m] < u[m]
    <3>1. s[m] \in Nat /\ t[m] \in Nat /\ u[m] \in Nat
      BY <1>3, <2>2, <2>3
    <3>2. s[m] <= t[m]
      BY SMTT(60), <1>1, <1>5, <2>3, <3>1
    <3> QED
      BY <2>2, <3>1, <3>2
  <2> QED
    BY <2>1, <2>3 DEF TupleLess
<1> QED
  BY <1>4, <1>5

(* What the docstring calls higher comes later in that order. *)
LEMMA HigherIsLater ==
  ASSUME NEW s \in Seq(Nat), NEW t \in Seq(Nat), Higher(s, t)
  PROVE  TupleLess(t, s)
<1>1. PICK n \in DOMAIN s : /\ Place(s, n) > Place(t, n)
                            /\ \A j \in 1..(n - 1) : Place(s, j) = Place(t, j)
  BY DEF Higher
<1>2. /\ Len(s) \in Nat /\ Len(t) \in Nat
      /\ DOMAIN s = 1..Len(s) /\ DOMAIN t = 1..Len(t)
      /\ \A i \in 1..Len(s) : s[i] \in Nat
      /\ \A i \in 1..Len(t) : t[i] \in Nat
  BY LenProperties, ElementOfSeq
<1>3. n \in 1..Len(s)
  BY <1>2
<1>4. ASSUME NEW i \in 1..(n - 1)
      PROVE  i <= Len(t) /\ t[i] = s[i]
  <2>1. i \in DOMAIN s /\ s[i] \in Nat
    BY <1>2, <1>3
  <2>2. Place(s, i) = s[i] + 1 /\ Place(t, i) = s[i] + 1
    BY <1>1, <2>1 DEF Place
  <2>3. i \in DOMAIN t
    BY <2>1, <2>2 DEF Place
  <2>4. t[i] \in Nat /\ t[i] + 1 = s[i] + 1
    BY <1>2, <2>2, <2>3 DEF Place
  <2> QED
    BY <1>2, <2>1, <2>3, <2>4
<1>5. ASSUME n <= Len(t)
      PROVE  t[n] < s[n]
  <2>1. n \in DOMAIN t /\ t[n] \in Nat /\ s[n] \in Nat
    BY <1>2, <1>3, <1>5
  <2>2. s[n] + 1 > t[n] + 1
    BY <1>1, <2>1 DEF Place
  <2> QED
    BY <2>1, <2>2
<1> QED
  BY <1>3, <1>4, <1>5 DEF TupleLess

(* What an id is made of. *)
LEMMA IdParts ==
  ASSUME NEW a \in ModelIds
  PROVE  /\ a.version \in Seq(Nat) /\ a.numbers \in Seq(Nat)
         /\ Stable(a) \in 0..1 /\ Alias(a) \in 0..1
BY DEF ModelIds, Stable, Alias

(* The order of the keys is irreflexive and transitive. *)
LEMMA KeyIrreflexive ==
  ASSUME NEW a \in ModelIds
  PROVE  ~KeyLess(a, a)
BY IdParts, TupleIrreflexive DEF KeyLess

LEMMA KeyTransitive ==
  ASSUME NEW a \in ModelIds, NEW b \in ModelIds, NEW c \in ModelIds,
         KeyLess(a, b), KeyLess(b, c)
  PROVE  KeyLess(a, c)
<1>1. TupleLess(a.version, b.version) /\ TupleLess(b.version, c.version) =>
        TupleLess(a.version, c.version)
  BY IdParts, TupleTransitive
<1>2. TupleLess(a.numbers, b.numbers) /\ TupleLess(b.numbers, c.numbers) =>
        TupleLess(a.numbers, c.numbers)
  BY IdParts, TupleTransitive
<1>3. /\ Stable(a) \in Nat /\ Stable(b) \in Nat /\ Stable(c) \in Nat
      /\ Alias(a) \in Nat /\ Alias(b) \in Nat /\ Alias(c) \in Nat
  BY IdParts
<1> QED
  BY <1>1, <1>2, <1>3 DEF KeyLess

(* Who beats a model by the docstring comes after it in the order of the keys. *)
LEMMA BeatsIsLater ==
  ASSUME NEW a \in ModelIds, NEW b \in ModelIds, Beats(a, b)
  PROVE  KeyLess(b, a)
<1>1. /\ Higher(a.version, b.version) => TupleLess(b.version, a.version)
      /\ Higher(a.numbers, b.numbers) => TupleLess(b.numbers, a.numbers)
  BY IdParts, HigherIsLater
<1>2. Standing(a) > Standing(b) =>
        Stable(b) < Stable(a) \/ (Stable(b) = Stable(a) /\ Alias(b) < Alias(a))
  BY DEF Standing, Stable, Alias
<1>3. Standing(a) = Standing(b) => Stable(b) = Stable(a) /\ Alias(b) = Alias(a)
  BY DEF Standing, Stable, Alias
<1> QED
  BY <1>1, <1>2, <1>3 DEF Beats, KeyLess

-----------------------------------------------------------------------------
(* The loop of select_latest_model                                         *)

(* A candidate is a model. *)
LEMMA CandidateIsModel ==
  ASSUME NEW id, NEW family \in Families, Candidate(id, family)
  PROVE  id # NoModel
BY DEF Candidate, NoModel, ModelId, Families

(* The classifier keeps the general-purpose models, and the variants that hide
   behind a number or a preview marker. *)
LEMMA CandidateKinds ==
  ASSUME NEW id \in ModelIds, NEW family
  PROVE  Candidate(id, family) <=> TextModel(id, family) \/ Disguised(id, family)
BY DEF Candidate, TextModel, Disguised, ModelIds, Releases

(* Nothing is selected if and only if the catalog has no model of the family;
   what is selected is one that no other beats, in whatever order they are. *)
LEMMA SelectsLatest ==
  ASSUME NEW catalog \in Seq(ModelIds), NEW family \in Families
  PROVE  LET selected == SelectLatestModel(catalog, family)
         IN IF \E i \in DOMAIN catalog : Candidate(catalog[i], family)
            THEN Latest(selected, catalog, family) ELSE selected = NoModel
<1> DEFINE N == Len(catalog)
           Better(best, id) ==
             IF Candidate(id, family) /\ (best = NoModel \/ KeyLess(best, id))
             THEN id ELSE best
           Loop(f) == [n \in 0..N |-> IF n = 0 THEN NoModel ELSE Better(f[n - 1], catalog[n])]
           best == CHOOSE f : f = Loop(f)
<1>1. /\ N \in Nat /\ DOMAIN catalog = 1..N
      /\ \A i \in 1..N : catalog[i] \in ModelIds
  BY LenProperties, ElementOfSeq
<1>2. NoModel \in ModelIds
  <2>1. <<>> \in Seq(Nat)
    BY EmptySeq
  <2> HIDE DEF best, Better, Loop, N
  <2> QED
    BY <2>1 DEF NoModel, ModelId, ModelIds, Releases
<1>3. SelectLatestModel(catalog, family) = best[N]
  BY DEF SelectLatestModel
<1>4. \A n \in 0..N : best[n] = IF n = 0 THEN NoModel ELSE Better(best[n - 1], catalog[n])
  <2> DEFINE step == [b \in ModelIds |-> [n \in 1..N |-> Better(b, catalog[n])]]
  <2>1. step \in Rules(ModelIds, N)
    BY <1>1 DEF Rules
  <2>2. PICK f : IsRecursion(f, ModelIds, NoModel, N, step)
    <3> HIDE DEF step, N
    <3> QED
      BY <1>1, <1>2, <2>1, Recursion
  <2>3. \A n \in 0..N : f[n] = IF n = 0 THEN NoModel ELSE Better(f[n - 1], catalog[n])
    <3>1. \A n \in 1..N : n - 1 \in 0..N
      BY <1>1
    <3>2. \A n \in 1..N : f[n] = Better(f[n - 1], catalog[n])
      BY <2>2, <3>1 DEF IsRecursion
    <3> HIDE DEF Better
    <3>3. \A n \in 0..N : n # 0 => n \in 1..N
      BY <1>1
    <3> QED
      BY <2>2, <3>2, <3>3 DEF IsRecursion
  <2>4. f = Loop(f)
    <3> HIDE DEF Better, N
    <3>1. DOMAIN f = 0..N /\ f = [n \in 0..N |-> f[n]]
      BY <2>2 DEF IsRecursion
    <3> QED
      BY <2>3, <3>1
  <2>5. best = Loop(best)
    <3> HIDE DEF Loop
    <3> QED
      BY <2>4
  <2> HIDE DEF best, Better
  <2> QED
    BY <2>5
<1> HIDE DEF best
<1> DEFINE Chosen(b, n) ==
             IF \E i \in 1..n : Candidate(catalog[i], family)
             THEN /\ \E i \in 1..n : b = catalog[i]
                  /\ Candidate(b, family)
                  /\ \A i \in 1..n : Candidate(catalog[i], family) => ~KeyLess(b, catalog[i])
             ELSE b = NoModel
           Good == {n \in 0..N : Chosen(best[n], n)}
<1>5. 0 \in Good
  BY <1>1, <1>4
<1>6. ASSUME NEW n \in 1..N, n - 1 \in Good
      PROVE  n \in Good
  <2>1. n \in 0..N /\ n # 0 /\ n - 1 \in 0..N /\ \A i : i \in 1..n <=> i \in 1..(n - 1) \/ i = n
    BY <1>1
  <2> DEFINE old == best[n - 1]
             id == catalog[n]
  <2>2. Chosen(old, n - 1) /\ best[n] = Better(old, id) /\ id \in ModelIds
    BY <1>1, <1>4, <1>6, <2>1
  <2> HIDE DEF old, id
  <2>3. CASE ~Candidate(id, family)
    <3>1. best[n] = old
      BY <2>2, <2>3
    <3>2. Chosen(old, n)
      BY <2>1, <2>2, <2>3, Zenon DEF id
    <3> QED
      BY <2>1, <3>1, <3>2
  <2>4. CASE Candidate(id, family) /\ old = NoModel
    <3>1. best[n] = id
      BY <2>2, <2>4
    <3>2. \A i \in 1..(n - 1) : ~Candidate(catalog[i], family)
      BY <2>2, <2>4, CandidateIsModel
    <3>3. ~KeyLess(id, id)
      BY <2>2, KeyIrreflexive
    <3>4. Chosen(id, n)
      BY <2>1, <2>4, <3>2, <3>3, Zenon DEF id
    <3> QED
      BY <2>1, <3>1, <3>4
  <2>5. CASE Candidate(id, family) /\ old # NoModel
    <3>1. /\ \E i \in 1..(n - 1) : old = catalog[i]
          /\ Candidate(old, family)
          /\ \A i \in 1..(n - 1) : Candidate(catalog[i], family) => ~KeyLess(old, catalog[i])
      BY <2>2, <2>5
    <3>2. old \in ModelIds
      BY <1>1, <3>1
    <3>3. CASE KeyLess(old, id)
      <4>1. best[n] = id
        BY <2>2, <2>5, <3>3
      <4>2. \A i \in 1..(n - 1) : Candidate(catalog[i], family) => ~KeyLess(id, catalog[i])
        <5>1. \A i \in 1..(n - 1) : catalog[i] \in ModelIds
          BY <1>1
        <5> QED
          BY <2>2, <3>1, <3>2, <3>3, <5>1, KeyTransitive
      <4>3. ~KeyLess(id, id)
        BY <2>2, KeyIrreflexive
      <4>4. Chosen(id, n)
        BY <2>1, <2>5, <4>2, <4>3, Zenon DEF id
      <4> QED
        BY <2>1, <4>1, <4>4
    <3>4. CASE ~KeyLess(old, id)
      <4>1. best[n] = old
        BY <2>2, <2>5, <3>4
      <4>2. Chosen(old, n)
        BY <2>1, <3>1, <3>4, Zenon DEF id
      <4> QED
        BY <2>1, <4>1, <4>2
    <3> QED
      BY <3>3, <3>4
  <2> QED
    BY <2>3, <2>4, <2>5
<1>7. Chosen(best[N], N)
  <2>1. \A n \in 0..N : n \in Good
    <3> HIDE DEF Good, N
    <3> QED
      BY <1>1, <1>5, <1>6, UpTo
  <2> QED
    BY <1>1, <2>1
<1>8. ASSUME \E i \in 1..N : Candidate(catalog[i], family)
      PROVE  Latest(best[N], catalog, family)
  <2>1. ASSUME NEW i \in 1..N, Candidate(catalog[i], family)
        PROVE  ~Beats(catalog[i], best[N])
    <3>1. best[N] \in ModelIds /\ catalog[i] \in ModelIds
      BY <1>1, <1>7, <1>8
    <3>2. ~KeyLess(best[N], catalog[i])
      BY <1>7, <2>1
    <3> QED
      BY <3>1, <3>2, BeatsIsLater
  <2>2. Candidate(best[N], family) /\ \E i \in 1..N : best[N] = catalog[i]
    BY <1>7, <1>8
  <2> HIDE DEF N
  <2>3. TextModel(best[N], family) \/ Disguised(best[N], family)
    BY <1>1, <2>2, CandidateKinds
  <2>4. ASSUME NEW i \in 1..N, TextModel(catalog[i], family)
        PROVE  ~Beats(catalog[i], best[N])
    BY <1>1, <2>1, <2>4, CandidateKinds
  <2> QED
    BY <1>1, <2>2, <2>3, <2>4, Zenon DEF Latest, ToSet
<1>9. (\E i \in DOMAIN catalog : Candidate(catalog[i], family)) <=>
        \E i \in 1..N : Candidate(catalog[i], family)
  BY <1>1
<1> QED
  BY <1>3, <1>7, <1>8, <1>9, Zenon

-----------------------------------------------------------------------------
(* The loop of _parse_peers                                                *)

(* The address an item of A2A_PEERS gives its peer. *)
UrlOf(item, env) ==
  IF item.url # "" THEN ExplicitUrl(item.url) ELSE ServiceDnsUrl(item.name, env)

(* What the loop has made of the first n items: each name they mention is a
   peer, whose place is that of its first mention among the others' and whose
   address that of its last. *)
PeersOf(peers, items, n, env) ==
  /\ \A k \in 1..n : items[k].name # "" => \E i \in DOMAIN peers : peers[i].name = items[k].name
  /\ \A i \in DOMAIN peers :
       /\ peers[i].name # ""
       /\ \E k \in 1..n :
            /\ items[k].name = peers[i].name
            /\ peers[i].url = UrlOf(items[k], env)
            /\ \A l \in (k + 1)..n : items[l].name # peers[i].name
  /\ \A i, j \in DOMAIN peers : i < j =>
       \E k \in 1..n :
         /\ items[k].name = peers[i].name
         /\ \A l \in 1..k : items[l].name # peers[j].name

(* The numbers up to n, without the last. *)
LEMMA UpToLast ==
  ASSUME NEW n \in Nat \ {0}
  PROVE  /\ n \in 1..n
         /\ 1..n = (1..(n - 1)) \cup {n}
         /\ (n + 1)..n = {}
         /\ \A k \in 1..(n - 1) : /\ (k + 1)..n = ((k + 1)..(n - 1)) \cup {n}
                                 /\ 1..k \subseteq 1..(n - 1)
         /\ n - 1 \in Nat
<1>1. n \in 1..n /\ n - 1 \in Nat
  OBVIOUS
<1>2. 1..n = (1..(n - 1)) \cup {n}
  OBVIOUS
<1>3. (n + 1)..n = {}
  OBVIOUS
<1>4. ASSUME NEW k \in 1..(n - 1)
      PROVE  (k + 1)..n = ((k + 1)..(n - 1)) \cup {n} /\ 1..k \subseteq 1..(n - 1)
  OBVIOUS
<1> QED
  BY <1>1, <1>2, <1>3, <1>4, Zenon

(* One more item: its peer is added last, or keeps its place and takes the new
   address. *)
LEMMA AssignKeepsPeers ==
  ASSUME NEW S, NEW peers \in Seq(S), NEW env, NEW items, NEW n \in Nat \ {0},
         NEW name, name = items[n].name, name # "",
         PeersOf(peers, items, n - 1, env)
  PROVE  PeersOf(Assign(peers, name, UrlOf(items[n], env)), items, n, env)
<1> DEFINE url == UrlOf(items[n], env)
           after == Assign(peers, name, url)
           Known == \E i \in DOMAIN peers : peers[i].name = name
           last == Len(peers) + 1
<1>1. /\ n \in 1..n
      /\ 1..n = (1..(n - 1)) \cup {n}
      /\ (n + 1)..n = {}
      /\ \A k \in 1..(n - 1) : /\ (k + 1)..n = ((k + 1)..(n - 1)) \cup {n}
                              /\ 1..k \subseteq 1..(n - 1)
  BY UpToLast, Zenon
<1>2. Peer(name, url).name = name /\ Peer(name, url).url = url
  BY DEF Peer
<1>3. \A k \in 1..(n - 1) : items[k].name # "" =>
        \E i \in DOMAIN peers : peers[i].name = items[k].name
  BY DEF PeersOf
<1>4. \A i \in DOMAIN peers :
        /\ peers[i].name # ""
        /\ \E k \in 1..(n - 1) :
             /\ items[k].name = peers[i].name
             /\ peers[i].url = UrlOf(items[k], env)
             /\ \A l \in (k + 1)..(n - 1) : items[l].name # peers[i].name
  BY DEF PeersOf
<1>5. \A i, j \in DOMAIN peers : i < j =>
        \E k \in 1..(n - 1) : /\ items[k].name = peers[i].name
                             /\ \A l \in 1..k : items[l].name # peers[j].name
  BY DEF PeersOf
<1>6. CASE Known
  <2>1. /\ DOMAIN after = DOMAIN peers
        /\ \A i \in DOMAIN peers :
             /\ after[i].name = peers[i].name
             /\ after[i].url = IF peers[i].name = name THEN url ELSE peers[i].url
    BY <1>2, <1>6 DEF Assign
  <2> HIDE DEF after
  <2>2. ASSUME NEW k \in 1..n, items[k].name # ""
        PROVE  \E i \in DOMAIN after : after[i].name = items[k].name
    BY <1>1, <1>3, <1>6, <2>1, <2>2, ZenonT(60)
  <2>3. ASSUME NEW i \in DOMAIN after
        PROVE  /\ after[i].name # ""
               /\ \E k \in 1..n :
                    /\ items[k].name = after[i].name
                    /\ after[i].url = UrlOf(items[k], env)
                    /\ \A l \in (k + 1)..n : items[l].name # after[i].name
    <3>1. CASE peers[i].name = name
      BY <1>1, <1>4, <2>1, <3>1
    <3>2. CASE peers[i].name # name
      <4> HIDE DEF url
      <4>1. after[i].name = peers[i].name /\ after[i].url = peers[i].url
        BY <2>1, <3>2
      <4>2. PICK k \in 1..(n - 1) :
              /\ items[k].name = peers[i].name
              /\ peers[i].url = UrlOf(items[k], env)
              /\ \A l \in (k + 1)..(n - 1) : items[l].name # peers[i].name
        BY <1>4, <2>1, Zenon
      <4>3. \A l \in (k + 1)..n : items[l].name # after[i].name
        BY <1>1, <3>2, <4>1, <4>2, Zenon
      <4> QED
        BY <1>1, <1>4, <2>1, <4>1, <4>2, <4>3, Zenon
    <3> QED
      BY <3>1, <3>2
  <2>4. ASSUME NEW i \in DOMAIN after, NEW j \in DOMAIN after, i < j
        PROVE  \E k \in 1..n : /\ items[k].name = after[i].name
                               /\ \A l \in 1..k : items[l].name # after[j].name
    <3>1. PICK k \in 1..(n - 1) : /\ items[k].name = peers[i].name
                                  /\ \A l \in 1..k : items[l].name # peers[j].name
      <4>1. i \in DOMAIN peers /\ j \in DOMAIN peers
        BY <2>1, <2>4
      <4> QED
        BY <1>5, <2>4, <4>1
    <3>2. k \in 1..n /\ after[i].name = peers[i].name /\ after[j].name = peers[j].name
      BY <1>1, <2>1
    <3> QED
      BY <3>1, <3>2, Zenon
  <2> QED
    BY <2>2, <2>3, <2>4 DEF PeersOf, after
<1>7. CASE ~Known
  <2>1. after = Append(peers, Peer(name, url))
    BY <1>7 DEF Assign
  <2>2. /\ DOMAIN after = DOMAIN peers \cup {last}
        /\ \A i \in DOMAIN peers : after[i] = peers[i] /\ i # last
        /\ after[last] = Peer(name, url)
        /\ \A i, j \in DOMAIN after : i < j => i \in DOMAIN peers
    <3> DEFINE p == Peer(name, url)
    <3> HIDE DEF p
    <3>1. /\ DOMAIN Append(peers, p) = DOMAIN peers \cup {Len(peers) + 1}
          /\ \A i \in DOMAIN peers : Append(peers, p)[i] = peers[i] /\ i # Len(peers) + 1
          /\ Append(peers, p)[Len(peers) + 1] = p
          /\ \A i, j \in DOMAIN Append(peers, p) : i < j => i \in DOMAIN peers
      BY Appended, ZenonT(60)
    <3>2. after = Append(peers, p)
      BY <2>1 DEF p
    <3> HIDE DEF after
    <3> QED
      BY <3>1, <3>2, Zenon DEF p
  <2> HIDE DEF after, last
  <2>3. ASSUME NEW k \in 1..n, items[k].name # ""
        PROVE  \E i \in DOMAIN after : after[i].name = items[k].name
    <3>1. CASE k = n
      BY <1>2, <2>2, <3>1
    <3>2. CASE k # n
      BY <1>1, <1>3, <2>2, <2>3, <3>2, ZenonT(60)
    <3> QED
      BY <3>1, <3>2
  <2>4. ASSUME NEW i \in DOMAIN after
        PROVE  /\ after[i].name # ""
               /\ \E k \in 1..n :
                    /\ items[k].name = after[i].name
                    /\ after[i].url = UrlOf(items[k], env)
                    /\ \A l \in (k + 1)..n : items[l].name # after[i].name
    <3>1. CASE i = last
      <4>1. after[i].name = name /\ after[i].url = url
        BY <1>2, <2>2, <3>1
      <4> QED
        BY <1>1, <4>1
    <3>2. CASE i # last
      <4>1. i \in DOMAIN peers /\ after[i] = peers[i] /\ peers[i].name # name
        BY <1>7, <2>2, <3>2
      <4>2. PICK k \in 1..(n - 1) :
              /\ items[k].name = peers[i].name
              /\ peers[i].url = UrlOf(items[k], env)
              /\ \A l \in (k + 1)..(n - 1) : items[l].name # peers[i].name
        BY <1>4, <4>1, Zenon
      <4>3. \A l \in (k + 1)..n : items[l].name # after[i].name
        BY <1>1, <4>1, <4>2, Zenon
      <4> QED
        BY <1>1, <1>4, <4>1, <4>2, <4>3, Zenon
    <3> QED
      BY <3>1, <3>2
  <2>5. ASSUME NEW i \in DOMAIN after, NEW j \in DOMAIN after, i < j
        PROVE  \E k \in 1..n : /\ items[k].name = after[i].name
                               /\ \A l \in 1..k : items[l].name # after[j].name
    <3>1. i \in DOMAIN peers /\ after[i] = peers[i]
      BY <2>2, <2>5
    <3>2. CASE j \in DOMAIN peers
      <4>1. PICK k \in 1..(n - 1) : /\ items[k].name = peers[i].name
                                    /\ \A l \in 1..k : items[l].name # peers[j].name
        BY <1>5, <2>5, <3>1, <3>2, Zenon
      <4>2. k \in 1..n /\ after[j] = peers[j]
        BY <1>1, <2>2, <3>2
      <4> QED
        BY <3>1, <4>1, <4>2, Zenon
    <3>3. CASE j = last
      <4>1. PICK k \in 1..(n - 1) : items[k].name = peers[i].name
        BY <1>4, <3>1, Zenon
      <4>2. ASSUME NEW l \in 1..k
            PROVE  items[l].name # name
        <5>1. l \in 1..(n - 1)
          BY <1>1, <4>1
        <5> QED
          BY <1>3, <1>7, <5>1
      <4> QED
        BY <1>1, <1>2, <2>2, <3>1, <3>3, <4>1, <4>2
    <3> QED
      BY <2>2, <3>2, <3>3
  <2> QED
    BY <2>3, <2>4, <2>5 DEF PeersOf, after
<1> QED
  BY <1>6, <1>7

(* An item without a name changes nothing. *)
LEMMA NamelessKeepsPeers ==
  ASSUME NEW peers, NEW env, NEW items, NEW n \in Nat \ {0}, items[n].name = "",
         PeersOf(peers, items, n - 1, env)
  PROVE  PeersOf(peers, items, n, env)
<1>1. /\ 1..n = (1..(n - 1)) \cup {n}
      /\ \A k \in 1..(n - 1) : (k + 1)..n = ((k + 1)..(n - 1)) \cup {n}
  BY UpToLast, Zenon
<1>2. \A i \in DOMAIN peers :
        /\ peers[i].name # ""
        /\ \E k \in 1..n : /\ items[k].name = peers[i].name
                           /\ peers[i].url = UrlOf(items[k], env)
                           /\ \A l \in (k + 1)..n : items[l].name # peers[i].name
  <2> SUFFICES ASSUME NEW i \in DOMAIN peers
               PROVE  /\ peers[i].name # ""
                      /\ \E k \in 1..n :
                           /\ items[k].name = peers[i].name
                           /\ peers[i].url = UrlOf(items[k], env)
                           /\ \A l \in (k + 1)..n : items[l].name # peers[i].name
    OBVIOUS
  <2>1. PICK k \in 1..(n - 1) : /\ items[k].name = peers[i].name
                                /\ peers[i].url = UrlOf(items[k], env)
                                /\ \A l \in (k + 1)..(n - 1) : items[l].name # peers[i].name
    BY Zenon DEF PeersOf
  <2>2. peers[i].name # ""
    BY Zenon DEF PeersOf
  <2>3. \A l \in (k + 1)..n : items[l].name # peers[i].name
    BY <1>1, <2>1, <2>2, Zenon
  <2> QED
    BY <1>1, <2>1, <2>2, <2>3, Zenon
<1>3. \A k \in 1..n : items[k].name # "" => \E i \in DOMAIN peers : peers[i].name = items[k].name
  BY <1>1, Zenon DEF PeersOf
<1>4. \A k \in 1..(n - 1) : k \in 1..n
  BY <1>1, Zenon
<1>5. \A i, j \in DOMAIN peers : i < j =>
        \E k \in 1..n : /\ items[k].name = peers[i].name
                       /\ \A l \in 1..k : items[l].name # peers[j].name
  <2> SUFFICES ASSUME NEW i \in DOMAIN peers, NEW j \in DOMAIN peers, i < j
               PROVE  \E k \in 1..n : /\ items[k].name = peers[i].name
                                      /\ \A l \in 1..k : items[l].name # peers[j].name
    BY Zenon
  <2>1. PICK k \in 1..(n - 1) : /\ items[k].name = peers[i].name
                                /\ \A l \in 1..k : items[l].name # peers[j].name
    BY Zenon DEF PeersOf
  <2> QED
    BY <1>4, <2>1, Zenon
<1> QED
  BY <1>2, <1>3, <1>5, Zenon DEF PeersOf

(* Assign makes a sequence of peers of one. *)
LEMMA AssignIsSequence ==
  ASSUME NEW T, NEW peers \in Seq(T), NEW name, NEW url, Peer(name, url) \in T
  PROVE  Assign(peers, name, url) \in Seq(T)
<1> DEFINE p == Peer(name, url)
           replaced == [i \in DOMAIN peers |-> IF peers[i].name = name THEN p ELSE peers[i]]
<1>1. Append(peers, p) \in Seq(T)
  <2> HIDE DEF p
  <2>1. p \in T
    BY DEF p
  <2> QED
    BY <2>1, AppendProperties
<1>2. replaced \in Seq(T)
  <2>1. Len(peers) \in Nat /\ DOMAIN peers = 1..Len(peers) /\ \A i \in DOMAIN peers : peers[i] \in T
    BY LenProperties, ElementOfSeq
  <2> HIDE DEF p
  <2>2. p \in T
    BY DEF p
  <2>3. replaced \in [1..Len(peers) -> T]
    BY <2>1, <2>2
  <2> HIDE DEF replaced
  <2> QED
    BY <2>1, <2>3, SeqDef
<1> QED
  BY <1>1, <1>2, Zenon DEF Assign

(* The peers are what the items of A2A_PEERS say. *)
LEMMA ParsesPeers ==
  ASSUME NEW env, NEW S, PeerItems(env) \in Seq(S)
  PROVE  PeersOf(ParsePeers(env), PeerItems(env), Len(PeerItems(env)), env)
<1> DEFINE items == PeerItems(env)
           N == Len(items)
           T == {Peer(items[k].name, UrlOf(items[k], env)) : k \in 1..N}
           Add(peers, item) ==
             IF item.name = "" THEN peers
             ELSE Assign(peers, item.name,
                         IF item.url # "" THEN ExplicitUrl(item.url)
                         ELSE ServiceDnsUrl(item.name, env))
           Loop(f) == [n \in 0..N |-> IF n = 0 THEN <<>> ELSE Add(f[n - 1], items[n])]
           peers == CHOOSE f : f = Loop(f)
<1>1. N \in Nat
  BY LenProperties
<1>2. ParsePeers(env) = peers[N]
  BY DEF ParsePeers
<1> HIDE DEF items
<1>3. \A s \in Seq(T), n \in 1..N : Add(s, items[n]) \in Seq(T)
  <2> SUFFICES ASSUME NEW s \in Seq(T), NEW n \in 1..N
               PROVE  Add(s, items[n]) \in Seq(T)
    OBVIOUS
  <2>1. Peer(items[n].name, UrlOf(items[n], env)) \in T
    OBVIOUS
  <2> HIDE DEF T, N
  <2>2. Assign(s, items[n].name, UrlOf(items[n], env)) \in Seq(T)
    BY <2>1, AssignIsSequence
  <2> QED
    BY <2>2, Zenon DEF UrlOf
<1> HIDE DEF T, Add
<1>4. /\ peers[0] = <<>>
      /\ \A n \in 0..N : peers[n] \in Seq(T)
      /\ \A n \in 1..N : peers[n] = Add(peers[n - 1], items[n])
  <2> DEFINE step == [s \in Seq(T) |-> [n \in 1..N |-> Add(s, items[n])]]
  <2>1. step \in Rules(Seq(T), N) /\ <<>> \in Seq(T)
    BY <1>3, EmptySeq DEF Rules
  <2>2. PICK f : IsRecursion(f, Seq(T), <<>>, N, step)
    <3> HIDE DEF step, N
    <3> QED
      BY <1>1, <2>1, Recursion
  <2>3. \A n \in 1..N : n - 1 \in 0..N /\ n \in 0..N
    BY <1>1
  <2>4. \A n \in 1..N : f[n] = Add(f[n - 1], items[n])
    BY <2>2, <2>3 DEF IsRecursion
  <2>5. \A n \in 0..N : n # 0 => n \in 1..N
    BY <1>1
  <2> HIDE DEF N
  <2>6. f = [n \in 0..N |-> f[n]] /\ f[0] = <<>> /\ f \in [0..N -> Seq(T)]
    BY <2>2 DEF IsRecursion
  <2>7. \A n \in 0..N : f[n] = IF n = 0 THEN <<>> ELSE Add(f[n - 1], items[n])
    BY <2>4, <2>5, <2>6
  <2>8. f = Loop(f)
    BY <2>6, <2>7
  <2>9. peers = Loop(peers)
    <3> HIDE DEF Loop
    <3> QED
      BY <2>8
  <2>10. \A g : g = Loop(g) => g[0] = <<>> /\ \A n \in 1..N : g[n] = Add(g[n - 1], items[n])
    BY <1>1, <2>3
  <2>11. \A n \in 1..N : peers[n] = Add(peers[n - 1], items[n])
    BY <2>9, <2>10
  <2> HIDE DEF peers
  <2> DEFINE Good == {n \in 0..N : peers[n] \in Seq(T)}
  <2>12. 0 \in Good
    BY <1>1, <2>1, <2>9, <2>10
  <2>13. ASSUME NEW n \in 1..N, n - 1 \in Good
         PROVE  n \in Good
    BY <1>3, <2>3, <2>11, <2>13
  <2>14. \A n \in 0..N : n \in Good
    <3> HIDE DEF Good
    <3> QED
      BY <1>1, <2>12, <2>13, UpTo
  <2> QED
    BY <2>9, <2>10, <2>11, <2>14
<1> HIDE DEF peers
<1> DEFINE Good == {n \in 0..N : PeersOf(peers[n], items, n, env)}
<1>5. 0 \in Good
  <2>1. PeersOf(<<>>, items, 0, env)
    <3>1. 1..0 = {} /\ DOMAIN <<>> = {}
      OBVIOUS
    <3> QED
      BY <3>1, Zenon DEF PeersOf
  <2> QED
    BY <1>1, <1>4, <2>1
<1>6. ASSUME NEW n \in 1..N, n - 1 \in Good
      PROVE  n \in Good
  <2>1. n \in 0..N /\ n - 1 \in 0..N /\ n \in Nat \ {0}
    BY <1>1
  <2>2. PeersOf(peers[n - 1], items, n - 1, env) /\ peers[n - 1] \in Seq(T)
    BY <1>4, <1>6, <2>1
  <2>3. peers[n] = Add(peers[n - 1], items[n])
    BY <1>4
  <2>4. CASE items[n].name = ""
    <3>1. peers[n] = peers[n - 1]
      BY <2>3, <2>4 DEF Add
    <3>2. PeersOf(peers[n - 1], items, n, env)
      BY <2>1, <2>2, <2>4, NamelessKeepsPeers
    <3> QED
      BY <2>1, <3>1, <3>2
  <2>5. CASE items[n].name # ""
    <3>1. peers[n] = Assign(peers[n - 1], items[n].name, UrlOf(items[n], env))
      BY <2>3, <2>5 DEF Add, UrlOf
    <3>2. PeersOf(Assign(peers[n - 1], items[n].name, UrlOf(items[n], env)), items, n, env)
      BY <2>1, <2>2, <2>5, AssignKeepsPeers
    <3> QED
      BY <2>1, <3>1, <3>2
  <2> QED
    BY <2>4, <2>5
<1>7. N \in Good
  <2> HIDE DEF Good, N
  <2>1. \A n \in 0..N : n \in Good
    BY <1>1, <1>5, <1>6, UpTo
  <2> QED
    BY <1>1, <2>1
<1> QED
  BY <1>2, <1>7 DEF items

(* The items are a sequence, whether they are given or the agent's own. *)
LEMMA ItemsAreSequence ==
  ASSUME NEW env, NEW T, env.peers.given => env.peers.items \in Seq(T)
  PROVE  \E S : PeerItems(env) \in Seq(S)
<1>1. CASE env.peers.given
  BY <1>1 DEF PeerItems
<1>2. CASE ~env.peers.given
  <2> DEFINE names == DefaultPeers(AgentName(env))
             S == [name : AGENTS, url : {""}]
  <2>1. names \in Seq(AGENTS)
    <3>1. <<"research", "math", "planner">> \in Seq(AGENTS)
      BY DEF AGENTS
    <3>2. <<>> \in Seq(AGENTS)
      BY EmptySeq
    <3> QED
      BY <3>1, <3>2, Zenon DEF DefaultPeers
  <2> HIDE DEF names
  <2>2. Len(names) \in Nat /\ DOMAIN names = 1..Len(names) /\ \A i \in 1..Len(names) : names[i] \in AGENTS
    BY <2>1, LenProperties, ElementOfSeq
  <2>3. Items(names) \in [1..Len(names) -> S]
    BY <2>2 DEF Items
  <2> HIDE DEF S
  <2>4. Items(names) \in Seq(S)
    BY <2>2, <2>3, SeqDef
  <2> QED
    BY <1>2, <2>4, Zenon DEF PeerItems, names
<1> QED
  BY <1>1, <1>2

(* Where a name that is mentioned is mentioned first, and last. *)
LEMMA FirstMentions ==
  ASSUME NEW items, NEW N \in Nat, DOMAIN items = 1..N, NEW name,
         NEW k \in 1..N, items[k].name = name
  PROVE  /\ FirstMention(items, name) \in 1..N
         /\ items[FirstMention(items, name)].name = name
         /\ \A j \in 1..(FirstMention(items, name) - 1) : items[j].name # name
<1> DEFINE Mentions == {i \in 1..N : items[i].name = name}
           Is(i) == items[i].name = name /\ \A j \in 1..(i - 1) : items[j].name # name
           first == CHOOSE i \in DOMAIN items : Is(i)
<1>1. PICK m \in Mentions : \A i \in Mentions : m <= i
  <2>1. Mentions \subseteq Nat /\ Mentions # {}
    OBVIOUS
  <2> HIDE DEF Mentions
  <2> QED
    BY <2>1, LeastNumber
<1>2. \A j \in 1..(m - 1) : j \notin Mentions /\ j \in 1..N
  BY <1>1
<1>3. m \in DOMAIN items /\ Is(m)
  BY <1>2
<1> HIDE DEF Is
<1>4. first \in DOMAIN items /\ Is(first)
  BY <1>3
<1>5. FirstMention(items, name) = first
  BY DEF FirstMention, Is
<1> HIDE DEF first
<1> QED
  BY <1>4, <1>5 DEF Is

LEMMA LastMentions ==
  ASSUME NEW items, DOMAIN items = 1..Len(items), Len(items) \in Nat, NEW name,
         NEW k \in 1..Len(items), items[k].name = name,
         \A l \in (k + 1)..Len(items) : items[l].name # name
  PROVE  LastMention(items, name) = k
<1> DEFINE Is(i) == items[i].name = name /\ \A j \in (i + 1)..Len(items) : items[j].name # name
<1>1. Is(k)
  OBVIOUS
<1>2. ASSUME NEW i \in DOMAIN items, Is(i)
      PROVE  i = k
  <2>1. ~(i < k)
    BY <1>2
  <2>2. ~(k < i)
    BY <1>1, <1>2
  <2> QED
    BY <2>1, <2>2
<1> HIDE DEF Is
<1>3. k = CHOOSE i \in DOMAIN items : Is(i)
  BY <1>1, <1>2
<1> QED
  BY <1>3 DEF Is, LastMention

(* What is mentioned before any mention of b is first mentioned before b. *)
LEMMA FirstMentionedBefore ==
  ASSUME NEW items, NEW N \in Nat, DOMAIN items = 1..N, NEW a, NEW b,
         NEW k \in 1..N, items[k].name = a, \A l \in 1..k : items[l].name # b,
         NEW m \in 1..N, items[m].name = b
  PROVE  FirstMention(items, a) < FirstMention(items, b)
<1> DEFINE f == FirstMention(items, a)
           g == FirstMention(items, b)
<1>1. f \in 1..N /\ \A l \in 1..(f - 1) : items[l].name # a
  BY FirstMentions
<1>2. g \in 1..N /\ items[g].name = b
  BY FirstMentions
<1> HIDE DEF f, g
<1>3. ~(k < f)
  BY <1>1
<1>4. ~(g <= k)
  BY <1>2
<1>5. f < g
  BY <1>1, <1>2, <1>3, <1>4
<1> QED
  BY <1>5 DEF f, g

(* The peers, as the documentation speaks of them. *)
LEMMA PeersMentioned ==
  ASSUME NEW env, NEW S, PeerItems(env) \in Seq(S)
  PROVE  LET items == PeerItems(env)
             peers == ParsePeers(env) IN
         /\ {peers[i].name : i \in DOMAIN peers} = {items[i].name : i \in DOMAIN items} \ {""}
         /\ \A i, j \in DOMAIN peers : i < j =>
              FirstMention(items, peers[i].name) < FirstMention(items, peers[j].name)
         /\ \A i \in DOMAIN peers :
              peers[i].url.host[1] =
                IF items[LastMention(items, peers[i].name)].url = "" THEN peers[i].name
                ELSE items[LastMention(items, peers[i].name)].url
<1> DEFINE items == PeerItems(env)
           peers == ParsePeers(env)
           N == Len(items)
<1>1. N \in Nat /\ DOMAIN items = 1..N
  BY LenProperties
<1>2. PeersOf(peers, items, N, env)
  BY ParsesPeers, Zenon
<1> HIDE DEF items, peers
<1>3. /\ \A k \in 1..N : items[k].name # "" => \E i \in DOMAIN peers : peers[i].name = items[k].name
      /\ \A i \in DOMAIN peers : peers[i].name # "" /\ \E k \in 1..N : items[k].name = peers[i].name
  <2>1. \A k \in 1..N : items[k].name # "" => \E i \in DOMAIN peers : peers[i].name = items[k].name
    BY <1>2, Zenon DEF PeersOf
  <2>2. ASSUME NEW i \in DOMAIN peers
        PROVE  peers[i].name # "" /\ \E k \in 1..N : items[k].name = peers[i].name
    BY <1>2, Zenon DEF PeersOf
  <2> QED
    BY <2>1, <2>2, Zenon
<1>4. {peers[i].name : i \in DOMAIN peers} = {items[i].name : i \in DOMAIN items} \ {""}
  <2> HIDE DEF N
  <2>1. \A i \in DOMAIN peers :
          peers[i].name # "" /\ \E k \in DOMAIN items : peers[i].name = items[k].name
    <3> SUFFICES ASSUME NEW i \in DOMAIN peers
                 PROVE  peers[i].name # "" /\ \E k \in DOMAIN items : peers[i].name = items[k].name
      BY Zenon
    <3>1. PICK k \in 1..N : items[k].name = peers[i].name
      BY <1>3, Zenon
    <3>2. k \in DOMAIN items /\ peers[i].name = items[k].name /\ peers[i].name # ""
      BY <1>1, <1>3, <3>1
    <3> QED
      BY <3>2, Zenon
  <2>2. \A k \in DOMAIN items :
          items[k].name # "" => \E i \in DOMAIN peers : items[k].name = peers[i].name
    BY <1>1, <1>3, Zenon
  <2> DEFINE Left == {peers[i].name : i \in DOMAIN peers}
             Right == {items[i].name : i \in DOMAIN items} \ {""}
  <2>3. ASSUME NEW x \in Left
        PROVE  x \in Right
    <3>1. PICK i \in DOMAIN peers : x = peers[i].name
      BY Zenon
    <3>2. PICK k \in DOMAIN items : peers[i].name = items[k].name
      BY <2>1, Zenon
    <3>3. x = items[k].name /\ x # ""
      BY <2>1, <3>1, <3>2
    <3> QED
      BY <3>3, Zenon
  <2>4. ASSUME NEW x \in Right
        PROVE  x \in Left
    <3>1. PICK k \in DOMAIN items : x = items[k].name
      BY Zenon
    <3>2. x # ""
      BY Zenon
    <3>3. PICK i \in DOMAIN peers : items[k].name = peers[i].name
      BY <2>2, <3>1, <3>2, Zenon
    <3>4. x = peers[i].name
      BY <3>1, <3>3
    <3> QED
      BY <3>4, Zenon
  <2> HIDE DEF Left, Right
  <2>5. Left = Right
    BY <2>3, <2>4
  <2> QED
    BY <2>5 DEF Left, Right
<1>5. ASSUME NEW i \in DOMAIN peers, NEW j \in DOMAIN peers, i < j
      PROVE  FirstMention(items, peers[i].name) < FirstMention(items, peers[j].name)
  <2>1. PICK k \in 1..N : /\ items[k].name = peers[i].name
                          /\ \A l \in 1..k : items[l].name # peers[j].name
    BY <1>2, <1>5, Zenon DEF PeersOf
  <2>2. PICK m \in 1..N : items[m].name = peers[j].name
    BY <1>3, Zenon
  <2> HIDE DEF N
  <2> QED
    BY <1>1, <2>1, <2>2, FirstMentionedBefore, Zenon
<1>6. ASSUME NEW i \in DOMAIN peers
      PROVE  peers[i].url.host[1] =
               IF items[LastMention(items, peers[i].name)].url = "" THEN peers[i].name
               ELSE items[LastMention(items, peers[i].name)].url
  <2>1. PICK k \in 1..N : /\ items[k].name = peers[i].name
                          /\ peers[i].url = UrlOf(items[k], env)
                          /\ \A l \in (k + 1)..N : items[l].name # peers[i].name
    BY <1>2, Zenon DEF PeersOf
  <2>2. LastMention(items, peers[i].name) = k
    BY <1>1, <2>1, LastMentions
  <2>3. UrlOf(items[k], env).host[1] = IF items[k].url = "" THEN items[k].name ELSE items[k].url
    BY DEF UrlOf, ExplicitUrl, ServiceDnsUrl
  <2> QED
    BY <2>1, <2>2, <2>3
<1> QED
  BY <1>4, <1>5, <1>6, Zenon DEF items, peers

(* The app's own path, however many slashes are around it, is /a2a/app. *)
LEMMA NormalizesMountPoint ==
  ASSUME NEW S, NEW path \in Seq(S), NEW k \in DOMAIN path, k + 2 \in DOMAIN path,
         path[k] = "a2a", path[k + 2] = "app",
         \A i \in DOMAIN path \ {k, k + 2} : path[i] = Slash
  PROVE  NormalizeRpcPath(path) = DEFAULT_RPC_PATH
<1> DEFINE names == {i \in DOMAIN path : path[i] # Slash}
<1>1. /\ Len(path) \in Nat /\ DOMAIN path = 1..Len(path)
      /\ k \in 1..Len(path) /\ k + 2 \in 1..Len(path)
  BY LenProperties
<1>2. names = {k, k + 2}
  BY <1>1 DEF Slash
<1>3. (CHOOSE i \in names : \A j \in names : i <= j) = k
  BY <1>1, <1>2
<1>4. (CHOOSE i \in names : \A j \in names : j <= i) = k + 2
  BY <1>1, <1>2
<1>5. path[k + 1] = Slash
  BY <1>1
<1>6. SubSeq(path, k, k + 2) = <<"a2a", Slash, "app">>
  <2>1. SubSeq(path, k, k + 2) = <<path[k], path[k + 1], path[k + 2]>>
    BY <1>1, ThreeOf
  <2> QED
    BY <1>5, <2>1
<1>7. StripSlashes(path) = <<"a2a", Slash, "app">>
  BY <1>2, <1>3, <1>4, <1>6 DEF StripSlashes
<1>8. path # <<>>
  BY <1>1
<1>9. <<Slash>> \o <<"a2a", Slash, "app">> = <<Slash, "a2a", Slash, "app">>
  BY FourOf, Zenon
<1> QED
  BY <1>7, <1>8, <1>9, Zenon DEF NormalizeRpcPath, DEFAULT_RPC_PATH
=============================================================================
