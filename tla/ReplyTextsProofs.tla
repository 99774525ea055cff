-------------------------- MODULE ReplyTextsProofs --------------------------
(***************************************************************************)
(* What the functions of ReplyTexts find in a text, for every text: what   *)
(* is picked out of a sequence, the results a text carries, and that       *)
(* restating, wrapping and unpacking neither lose a result nor add one.    *)
(***************************************************************************)
EXTENDS ReplyTexts, SequenceLemmas

-----------------------------------------------------------------------------
(* Picking items out of a sequence                                         *)

(* t is the items of s at these places up to n: item k of t is the one at g[k]. *)
IsPick(g, t, s, places, n) ==
  /\ g \in [DOMAIN t -> {i \in 1..n : i \in places}]
  /\ \A k \in DOMAIN t : t[k] = s[g[k]]
  /\ \A k, l \in DOMAIN t : g[k] = g[l] => k = l
  /\ \A i \in 1..n : i \in places => \E k \in DOMAIN t : g[k] = i

(* One item more, if its place is one of them. *)
LEMMA PickOne ==
  ASSUME NEW S, NEW s, NEW places, NEW n \in Nat, n # 0, s[n] \in S,
         NEW t \in Seq(S), NEW g, IsPick(g, t, s, places, n - 1)
  PROVE  IF n \in places
         THEN Append(t, s[n]) \in Seq(S) /\ \E h : IsPick(h, Append(t, s[n]), s, places, n)
         ELSE IsPick(g, t, s, places, n)
<1>1. \A i : i \in 1..n <=> i \in 1..(n - 1) \/ i = n
  OBVIOUS
<1>2. n \notin 1..(n - 1)
  OBVIOUS
<1>3. CASE n \notin places
  <2>1. {i \in 1..n : i \in places} = {i \in 1..(n - 1) : i \in places}
    BY <1>1, <1>3
  <2> QED
    BY <1>1, <1>3, <2>1 DEF IsPick
<1>4. CASE n \in places
  <2> DEFINE u == Append(t, s[n])
             h == [k \in DOMAIN u |-> IF k \in DOMAIN t THEN g[k] ELSE n]
             last == Len(t) + 1
  <2>1. /\ u \in Seq(S)
        /\ \A k : k \in DOMAIN u <=> k \in DOMAIN t \/ k = last
        /\ \A k \in DOMAIN t : u[k] = t[k] /\ k # last
        /\ u[last] = s[n] /\ last \notin DOMAIN t
    <3>1. /\ Append(t, s[n]) \in Seq(S)
          /\ DOMAIN Append(t, s[n]) = DOMAIN t \cup {last}
          /\ \A k \in DOMAIN t : Append(t, s[n])[k] = t[k] /\ k # last
          /\ Append(t, s[n])[last] = s[n]
      <4> HIDE DEF last
      <4> QED
        BY Appended, AppendProperties DEF last
    <3> QED
      BY <3>1
  <2> HIDE DEF u, last
  <2>2. h \in [DOMAIN u -> {i \in 1..n : i \in places}]
    BY <1>1, <1>4 DEF IsPick
  <2>3. \A k \in DOMAIN u : h[k] = IF k \in DOMAIN t THEN g[k] ELSE n
    OBVIOUS
  <2> HIDE DEF h
  <2>4. \A k \in DOMAIN u : u[k] = s[h[k]]
    BY <2>1, <2>3 DEF IsPick
  <2>5. \A k, l \in DOMAIN u : h[k] = h[l] => k = l
    <3>1. \A k \in DOMAIN t : g[k] # n
      BY <1>2 DEF IsPick
    <3> QED
      BY <2>1, <2>3, <3>1 DEF IsPick
  <2>6. ASSUME NEW i \in 1..n, i \in places
        PROVE  \E k \in DOMAIN u : h[k] = i
    <3>1. CASE i = n
      <4>1. last \in DOMAIN u /\ h[last] = n
        BY <2>1, <2>3, Zenon
      <4> QED
        BY <3>1, <4>1, Zenon
    <3>2. CASE i \in 1..(n - 1)
      <4>1. PICK k \in DOMAIN t : g[k] = i
        BY <2>6, <3>2 DEF IsPick
      <4>2. k \in DOMAIN u /\ h[k] = i
        BY <2>1, <2>3, <4>1, Zenon
      <4> QED
        BY <4>2, Zenon
    <3> QED
      BY <1>1, <3>1, <3>2, Zenon
  <2>7. IsPick(h, u, s, places, n)
    BY <2>2, <2>4, <2>5, <2>6 DEF IsPick
  <2>8. u \in Seq(S) /\ \E i : IsPick(i, u, s, places, n)
    <3> HIDE DEF h
    <3> QED
      BY <2>1, <2>7, Zenon
  <2>9. u = Append(t, s[n])
    BY DEF u
  <2> QED
    BY <1>4, <2>8, <2>9, Zenon
<1> QED
  BY <1>3, <1>4, Zenon

(* Picked returns the items at these places, each once. *)
LEMMA PickedItems ==
  ASSUME NEW S, NEW s \in Seq(S), NEW places
  PROVE  /\ Picked(s, places) \in Seq(S)
         /\ \E g : IsPick(g, Picked(s, places), s, places, Len(s))
<1> DEFINE N == Len(s)
           One(t, n) == IF n \in places THEN Append(t, s[n]) ELSE t
           Loop(f) == [n \in 0..N |-> IF n = 0 THEN <<>>
                                      ELSE IF n \in places THEN Append(f[n - 1], s[n]) ELSE f[n - 1]]
           picked == CHOOSE f : f = Loop(f)
<1>1. /\ N \in Nat /\ DOMAIN s = 1..N
      /\ \A i \in 1..N : s[i] \in S
  BY LenProperties, ElementOfSeq
<1>2. <<>> \in Seq(S)
  BY EmptySeq
<1>3. Picked(s, places) = picked[N]
  BY DEF Picked
<1>4. \A n \in 0..N : picked[n] = IF n = 0 THEN <<>> ELSE One(picked[n - 1], n)
  <2> DEFINE step == [t \in Seq(S) |-> [n \in 1..N |-> One(t, n)]]
  <2>1. step \in Rules(Seq(S), N)
    <3>1. \A t \in Seq(S), n \in 1..N : One(t, n) \in Seq(S)
      BY <1>1, AppendProperties
    <3> HIDE DEF One
    <3> QED
      BY <3>1 DEF Rules
  <2>2. PICK f : IsRecursion(f, Seq(S), <<>>, N, step)
    <3> HIDE DEF step, N
    <3> QED
      BY <1>1, <1>2, <2>1, Recursion
  <2>3. \A n \in 0..N : f[n] = IF n = 0 THEN <<>> ELSE One(f[n - 1], n)
    <3>1. \A n \in 1..N : n - 1 \in 0..N
      BY <1>1
    <3>2. \A n \in 1..N : f[n] = One(f[n - 1], n)
      <4> HIDE DEF One
      <4> QED
        BY <2>2, <3>1 DEF IsRecursion
    <3> HIDE DEF One
    <3>3. \A n \in 0..N : n # 0 => n \in 1..N
      BY <1>1
    <3> QED
      BY <2>2, <3>2, <3>3 DEF IsRecursion
  <2>4. f = Loop(f)
    <3> HIDE DEF N
    <3>1. DOMAIN f = 0..N /\ f = [n \in 0..N |-> f[n]]
      BY <2>2 DEF IsRecursion
    <3> QED
      BY <2>3, <3>1
  <2>5. picked = Loop(picked)
    <3> HIDE DEF Loop
    <3> QED
      BY <2>4
  <2> HIDE DEF picked
  <2> QED
    BY <2>5
<1> HIDE DEF picked
<1> DEFINE Whole(n) == picked[n] \in Seq(S) /\ \E g : IsPick(g, picked[n], s, places, n)
           Good == {n \in 0..N : Whole(n)}
<1>5. 0 \in Good
  <2>1. picked[0] = <<>>
    BY <1>1, <1>4
  <2> DEFINE t == picked[0]
             g == [k \in {} |-> 0]
  <2>2. DOMAIN t = {} /\ \A i \in 1..0 : FALSE
    BY <2>1
  <2> HIDE DEF t
  <2>3. IsPick(g, t, s, places, 0)
    BY <2>2 DEF IsPick
  <2> HIDE DEF g
  <2>4. Whole(0)
    BY <1>2, <2>1, <2>3 DEF t
  <2> QED
    BY <1>1, <2>4
<1>6. ASSUME NEW n \in 1..N, n - 1 \in Good
      PROVE  n \in Good
  <2>1. n \in Nat /\ n # 0 /\ n \in 0..N /\ s[n] \in S
    BY <1>1
  <2>2. picked[n] = One(picked[n - 1], n)
    BY <1>4, <2>1
  <2>3. PICK g : IsPick(g, picked[n - 1], s, places, n - 1)
    BY <1>6
  <2>4. picked[n - 1] \in Seq(S)
    BY <1>6
  <2>5. Whole(n)
    <3> HIDE DEF N
    <3>1. IF n \in places
          THEN /\ Append(picked[n - 1], s[n]) \in Seq(S)
               /\ \E h : IsPick(h, Append(picked[n - 1], s[n]), s, places, n)
          ELSE IsPick(g, picked[n - 1], s, places, n)
      BY <2>1, <2>3, <2>4, PickOne
    <3> QED
      BY <2>2, <2>4, <3>1
  <2> QED
    BY <2>1, <2>5
<1>7. Whole(N)
  <2>1. \A n \in 0..N : n \in Good
    <3> HIDE DEF Good, N
    <3> QED
      BY <1>1, <1>5, <1>6, UpTo
  <2> QED
    BY <1>1, <2>1
<1> QED
  BY <1>3, <1>7

(* What is picked is what is at these places. *)
LEMMA PickedRange ==
  ASSUME NEW S, NEW s \in Seq(S), NEW places
  PROVE  /\ Picked(s, places) \in Seq(S)
         /\ Range(Picked(s, places)) = {s[i] : i \in {j \in DOMAIN s : j \in places}}
<1>1. DOMAIN s = 1..Len(s)
  BY LenProperties
<1>2. PICK g : IsPick(g, Picked(s, places), s, places, Len(s))
  BY PickedItems
<1>3. ASSUME NEW x \in Range(Picked(s, places))
      PROVE  x \in {s[i] : i \in {j \in DOMAIN s : j \in places}}
  <2>1. PICK k \in DOMAIN Picked(s, places) : x = Picked(s, places)[k]
    BY DEF Range
  <2> QED
    BY <1>1, <1>2, <2>1 DEF IsPick
<1>4. ASSUME NEW i \in DOMAIN s, i \in places
      PROVE  s[i] \in Range(Picked(s, places))
  <2>1. PICK k \in DOMAIN Picked(s, places) : g[k] = i
    BY <1>1, <1>2, <1>4 DEF IsPick
  <2>2. Picked(s, places)[k] = s[i]
    BY <1>2, <2>1 DEF IsPick
  <2> QED
    BY <2>1, <2>2, Zenon DEF Range
<1> QED
  BY <1>3, <1>4, PickedItems

(* Distinct keeps every item, and each once. *)
LEMMA DistinctItems ==
  ASSUME NEW S, NEW s \in Seq(S)
  PROVE  /\ Distinct(s) \in Seq(S)
         /\ Range(Distinct(s)) = Range(s)
         /\ \A i, j \in DOMAIN Distinct(s) : Distinct(s)[i] = Distinct(s)[j] => i = j
<1> DEFINE places == {i \in DOMAIN s : \A j \in 1..(i - 1) : s[j] # s[i]}
           t == Picked(s, places)
<1>1. t = Distinct(s)
  BY DEF Distinct
<1>2. DOMAIN s = 1..Len(s) /\ Len(s) \in Nat
  BY LenProperties
<1>3. /\ t \in Seq(S)
      /\ Range(t) = {s[i] : i \in {j \in DOMAIN s : j \in places}}
  <2> HIDE DEF places
  <2> QED
    BY PickedRange
<1>4. ASSUME NEW i \in DOMAIN s
      PROVE  \E m \in places : s[m] = s[i]
  <2> DEFINE Equal == {j \in DOMAIN s : s[j] = s[i]}
  <2>1. PICK m \in Equal : \A j \in Equal : m <= j
    <3>1. Equal \subseteq Nat /\ Equal # {}
      BY <1>2
    <3> HIDE DEF Equal
    <3> QED
      BY <3>1, LeastNumber
  <2>2. \A j \in 1..(m - 1) : s[j] # s[m]
    BY <1>2, <2>1
  <2> QED
    BY <2>1, <2>2
<1>5. Range(t) = Range(s)
  <2>1. ASSUME NEW x \in Range(s)
        PROVE  x \in Range(t)
    <3>1. PICK i \in DOMAIN s : x = s[i]
      BY DEF Range
    <3>2. PICK m \in places : s[m] = s[i]
      BY <1>4
    <3> QED
      BY <1>3, <3>1, <3>2
  <2>2. ASSUME NEW x \in Range(t)
        PROVE  x \in Range(s)
    BY <1>3, <2>2 DEF Range
  <2> QED
    BY <2>1, <2>2
<1>6. ASSUME NEW k \in DOMAIN t, NEW l \in DOMAIN t, t[k] = t[l]
      PROVE  k = l
  <2>1. PICK g : IsPick(g, t, s, places, Len(s))
    <3> HIDE DEF places
    <3> QED
      BY PickedItems
  <2>2. g[k] \in places /\ g[l] \in places /\ s[g[k]] = s[g[l]]
    <3> HIDE DEF places, t
    <3> QED
      BY <1>6, <2>1 DEF IsPick
  <2>3. g[k] = g[l]
    BY <1>2, <2>2
  <2> QED
    BY <2>1, <2>3 DEF IsPick
<1> QED
  BY <1>1, <1>3, <1>5, <1>6

(* A function on the first numbers is a sequence. *)
LEMMA FunctionIsSeq ==
  ASSUME NEW T, NEW n \in Nat, NEW f \in [1..n -> T]
  PROVE  f \in Seq(T) /\ Len(f) = n
OBVIOUS

(* What one item is the sequence of. *)
LEMMA OneOf ==
  ASSUME NEW S, NEW x \in S
  PROVE  /\ <<x>> \in Seq(S) /\ <<x>> # <<>>
         /\ DOMAIN <<x>> = {1} /\ <<x>>[1] = x
         /\ Range(<<x>>) = {x}
BY DEF Range

-----------------------------------------------------------------------------
(* The JSON values that a turn's texts are made of, with results from R    *)

Objects(R) == {Object(r) : r \in R}

Pieces(R) == {Prose, Brace} \cup Objects(R)

Replies(R) == {Text(s) : s \in Seq(Pieces(R))}

Wrappings(R) == {Wrapped(t) : t \in Replies(R)} \cup {Wrapped(ListOf(<<t>>)) : t \in Replies(R)}

Dumps(R) == {Text(<<w>>) : w \in Wrappings(R)}

Texts(R) == Replies(R) \cup Dumps(R)

Events(R) == [responses : Seq(Objects(R)), said : Seq(Pieces(R))]

(* The results of the objects that are written out in a text. *)
Carried(text) == {node.result : node \in {n \in Range(text.inner) : IsDict(n)}}

(* Which nodes are dictionaries, and what they are the results of. *)
LEMMA Kinds ==
  ASSUME NEW R
  PROVE  /\ \A r \in R : /\ Object(r).result = r /\ IsDict(Object(r))
                        /\ Object(r).tag = "object" /\ Object(r).inner = <<>>
         /\ ~IsDict(Prose) /\ ~IsDict(Brace)
         /\ \A w \in Wrappings(R) : IsDict(w) /\ w.tag = "wrapper" /\ w.result = NoResult
         /\ \A s : Text(s).inner = s /\ Text(s).tag = "text" /\ ~IsDict(Text(s))
         /\ \A n : /\ Wrapped(n).inner = <<n>> /\ Wrapped(n).tag = "wrapper"
                  /\ IsDict(Wrapped(n))
         /\ \A s : ListOf(s).inner = s /\ ListOf(s).tag = "list" /\ ~IsDict(ListOf(s))
BY DEF Object, IsDict, Node, Prose, Brace, Wrappings, Wrapped, Text, ListOf

(* The dictionaries of a sequence of nodes. *)
LEMMA DictsFound ==
  ASSUME NEW N, NEW nodes \in Seq(N)
  PROVE  /\ DictsOf(nodes) \in Seq(N)
         /\ Range(DictsOf(nodes)) = {n \in Range(nodes) : IsDict(n)}
<1> DEFINE places == {i \in DOMAIN nodes : IsDict(nodes[i])}
<1>1. /\ Picked(nodes, places) \in Seq(N)
      /\ Range(Picked(nodes, places)) = {nodes[i] : i \in {j \in DOMAIN nodes : j \in places}}
  <2> HIDE DEF places
  <2> QED
    BY PickedRange
<1>2. {nodes[i] : i \in {j \in DOMAIN nodes : j \in places}} = {n \in Range(nodes) : IsDict(n)}
  BY DEF Range
<1>3. DictsOf(nodes) = Picked(nodes, places)
  BY DEF DictsOf
<1> QED
  BY <1>1, <1>2, <1>3

(* What is written in a text is a sequence of nodes. *)
LEMMA TextIsWritten ==
  ASSUME NEW R, NEW t \in Texts(R)
  PROVE  t.inner \in Seq(Pieces(R) \cup Wrappings(R)) /\ t.tag = "text"
<1> DEFINE N == Pieces(R) \cup Wrappings(R)
<1>1. CASE t \in Replies(R)
  <2>1. PICK s \in Seq(Pieces(R)) : t = Text(s)
    BY <1>1 DEF Replies
  <2>2. s \in Seq(N)
    BY <2>1
  <2> QED
    BY <2>1, <2>2, Kinds
<1>2. CASE t \in Dumps(R)
  <2>1. PICK w \in Wrappings(R) : t = Text(<<w>>)
    BY <1>2 DEF Dumps
  <2>2. <<w>> \in Seq(N)
    BY <2>1
  <2>3. t.inner = <<w>> /\ t.tag = "text"
    BY <2>1, Kinds, Zenon
  <2> QED
    BY <2>2, <2>3
<1> QED
  BY <1>1, <1>2 DEF Texts

(* A reply carries the results of the objects in it; the dump of a wrapper
   none, as what is inside is escaped. *)
LEMMA RepliesCarry ==
  ASSUME NEW R, NEW s \in Seq(Pieces(R))
  PROVE  Carried(Text(s)) = {r \in R : Object(r) \in Range(s)}
<1>1. Carried(Text(s)) = {node.result : node \in {n \in Range(s) : IsDict(n)}}
  BY Kinds DEF Carried
<1>2. Range(s) \subseteq Pieces(R)
  BY RangeOfSeq
<1>3. ASSUME NEW node \in Range(s), IsDict(node)
      PROVE  node.result \in {r \in R : Object(r) \in Range(s)}
  <2>1. PICK r \in R : node = Object(r)
    BY <1>2, <1>3, Kinds DEF Pieces, Objects
  <2> QED
    BY <2>1, Kinds
<1>4. ASSUME NEW r \in R, Object(r) \in Range(s)
      PROVE  r \in {node.result : node \in {n \in Range(s) : IsDict(n)}}
  <2>1. Object(r).result = r /\ IsDict(Object(r))
    BY Kinds
  <2> QED
    BY <1>4, <2>1
<1> QED
  BY <1>1, <1>3, <1>4

LEMMA DumpsCarryNothing ==
  ASSUME NEW R, NEW w \in Wrappings(R)
  PROVE  Carried(Text(<<w>>)) = {NoResult}
<1>1. Range(Text(<<w>>).inner) = {w}
  BY Kinds, OneOf
<1>2. IsDict(w) /\ w.result = NoResult
  BY Kinds
<1> QED
  BY <1>1, <1>2 DEF Carried

(* What the scan of the texts finds is what they carry. *)
LEMMA ResultsFound ==
  ASSUME NEW R, NEW texts \in Seq(Texts(R))
  PROVE  /\ ResultsIn(texts) \in Seq(R \cup {NoResult})
         /\ \A x : x \in Range(ResultsIn(texts)) <=> \E t \in Range(texts) : x \in Carried(t)
<1> DEFINE N == Pieces(R) \cup Wrappings(R)
           found == [i \in DOMAIN texts |-> JsonObjectsIn(texts[i])]
           D == {n \in N : IsDict(n)}
           objects == FlattenSeq(found)
           results == [i \in DOMAIN objects |-> objects[i].result]
<1>1. DOMAIN texts = 1..Len(texts) /\ Len(texts) \in Nat /\ \A i \in DOMAIN texts : texts[i] \in Texts(R)
  BY LenProperties, ElementOfSeq
<1>2. ASSUME NEW i \in DOMAIN texts
      PROVE  /\ found[i] \in Seq(N)
             /\ Range(found[i]) = {n \in Range(texts[i].inner) : IsDict(n)}
  <2>1. texts[i].inner \in Seq(N)
    BY <1>1, TextIsWritten
  <2>2. found[i] = DictsOf(texts[i].inner)
    BY DEF JsonObjectsIn
  <2> QED
    BY <2>1, <2>2, DictsFound
<1>3. found \in Seq(Seq(N)) /\ DOMAIN found = DOMAIN texts
  <2>1. found \in [1..Len(texts) -> Seq(N)]
    BY <1>1, <1>2
  <2> HIDE DEF found
  <2> QED
    BY <1>1, <2>1, FunctionIsSeq
<1>4. /\ objects \in Seq(N)
      /\ \A x : x \in Range(objects) <=> \E i \in DOMAIN texts : x \in Range(found[i])
  <2> HIDE DEF found, N
  <2> QED
    BY <1>3, Flattened
<1>5. ResultsIn(texts) = results
  BY Zenon DEF ResultsIn
<1> HIDE DEF found
<1>6. ASSUME NEW n \in N, IsDict(n)
      PROVE  n.result \in R \cup {NoResult}
  <2>1. CASE n \in Wrappings(R)
    BY <2>1, Kinds
  <2>2. CASE n \in Pieces(R)
    <3>1. PICK r \in R : n = Object(r)
      BY <1>6, <2>2, Kinds DEF Pieces, Objects
    <3>2. n.result = r
      BY <3>1, Kinds, Zenon
    <3> QED
      BY <3>2
  <2> QED
    BY <2>1, <2>2
<1>7. DOMAIN objects = 1..Len(objects) /\ Len(objects) \in Nat
  BY <1>4, LenProperties
<1>8. \A i \in DOMAIN objects : objects[i] \in N /\ IsDict(objects[i])
  <2>1. \A i \in DOMAIN objects : objects[i] \in Range(objects)
    BY DEF Range
  <2>2. \A i \in DOMAIN objects : objects[i] \in N
    <3> HIDE DEF objects, N
    <3> QED
      BY <1>4, <1>7, ElementOfSeq
  <2> QED
    BY <1>2, <1>4, <2>1, <2>2
<1> HIDE DEF objects
<1>9. results \in Seq(R \cup {NoResult})
  <2>1. results \in [1..Len(objects) -> R \cup {NoResult}]
    BY <1>6, <1>7, <1>8
  <2> HIDE DEF results
  <2> QED
    BY <1>7, <2>1, FunctionIsSeq
<1>10. ASSUME NEW x \in Range(results)
       PROVE  \E t \in Range(texts) : x \in Carried(t)
  <2>1. PICK k \in DOMAIN objects : x = objects[k].result
    BY <1>10 DEF Range
  <2>2. PICK i \in DOMAIN texts : objects[k] \in Range(found[i])
    BY <1>4 DEF Range
  <2>3. x \in Carried(texts[i])
    BY <1>2, <2>1, <2>2 DEF Carried
  <2> QED
    BY <2>3 DEF Range
<1>11. ASSUME NEW t \in Range(texts), NEW x \in Carried(t)
       PROVE  x \in Range(results)
  <2>1. PICK i \in DOMAIN texts : t = texts[i]
    BY DEF Range
  <2>2. PICK n \in Range(found[i]) : x = n.result
    BY <1>2, <2>1 DEF Carried
  <2>3. PICK k \in DOMAIN objects : n = objects[k]
    BY <1>4, <2>2 DEF Range
  <2>4. results[k] = x /\ k \in DOMAIN results
    BY <2>2, <2>3
  <2> HIDE DEF results
  <2> QED
    BY <2>4 DEF Range
<1> QED
  BY <1>5, <1>9, <1>10, <1>11

(* Two stretches of texts carry what each of them does. *)
LEMMA ResultsJoined ==
  ASSUME NEW R, NEW a \in Seq(Texts(R)), NEW b \in Seq(Texts(R))
  PROVE  /\ a \o b \in Seq(Texts(R))
         /\ Range(ResultsIn(a \o b)) = Range(ResultsIn(a)) \cup Range(ResultsIn(b))
<1>1. a \o b \in Seq(Texts(R)) /\ Range(a \o b) = Range(a) \cup Range(b)
  BY ConcatProperties, RangeConcatenation
<1>2. ASSUME NEW x
      PROVE  x \in Range(ResultsIn(a \o b)) <=> x \in Range(ResultsIn(a)) \cup Range(ResultsIn(b))
  BY <1>1, ResultsFound
<1> QED
  BY <1>1, <1>2

-----------------------------------------------------------------------------
(* Restating                                                               *)

(* The tools of an event return objects, which are not wrapped. *)
LEMMA PayloadsFound ==
  ASSUME NEW R, NEW event \in Events(R)
  PROVE  /\ ToolPayloads(event) \in Seq(Objects(R))
         /\ Range(ToolPayloads(event)) = Range(event.responses)
<1> DEFINE Unwrap(node) == IF node.tag = "wrapper" /\ IsDict(node.inner[1])
                           THEN node.inner[1] ELSE node
           dicts == DictsOf(event.responses)
<1>1. event.responses \in Seq(Objects(R))
  BY DEF Events
<1>2. dicts \in Seq(Objects(R)) /\ Range(dicts) = {n \in Range(event.responses) : IsDict(n)}
  BY <1>1, DictsFound
<1>3. ToolPayloads(event) = [i \in DOMAIN dicts |-> Unwrap(dicts[i])]
  BY Zenon DEF ToolPayloads
<1> HIDE DEF dicts
<1>4. ASSUME NEW n \in Objects(R)
      PROVE  IsDict(n) /\ Unwrap(n) = n
  <2>1. PICK r \in R : n = Object(r)
    BY DEF Objects
  <2>2. IsDict(n) /\ n.tag = "object"
    BY <2>1, Kinds, Zenon
  <2> QED
    BY <2>2
<1>5. DOMAIN dicts = 1..Len(dicts) /\ Len(dicts) \in Nat /\ \A i \in DOMAIN dicts : dicts[i] \in Objects(R)
  BY <1>2, LenProperties, ElementOfSeq
<1> HIDE DEF Unwrap
<1>6. [i \in DOMAIN dicts |-> Unwrap(dicts[i])] = [i \in DOMAIN dicts |-> dicts[i]]
  BY <1>4, <1>5
<1>7. [i \in DOMAIN dicts |-> dicts[i]] = dicts
  BY <1>2
<1>8. ToolPayloads(event) = dicts
  BY <1>3, <1>6, <1>7
<1>9. Range(event.responses) \subseteq Objects(R)
  BY <1>1, RangeOfSeq
<1> QED
  BY <1>2, <1>4, <1>8, <1>9

(* The results to restate: those of the turn's tools that are to be audited. *)
Returns(event, r) == Object(r) \in Range(event.responses)

LEMMA AuditedFound ==
  ASSUME NEW R, NEW events \in Seq(Events(R))
  PROVE  /\ AuditedResults(events) \in Seq(Objects(R))
         /\ \A r \in R : Object(r) \in Range(AuditedResults(events)) <=>
              r.status \in AUDITED_STATUSES /\ \E i \in DOMAIN events : Returns(events[i], r)
<1> DEFINE payloads == [i \in DOMAIN events |-> ToolPayloads(events[i])]
           all == FlattenSeq(payloads)
           places == {i \in DOMAIN all : all[i].result.status \in AUDITED_STATUSES}
           audited == Picked(all, places)
<1>1. DOMAIN events = 1..Len(events) /\ Len(events) \in Nat /\ \A i \in DOMAIN events : events[i] \in Events(R)
  BY LenProperties, ElementOfSeq
<1>2. \A i \in DOMAIN events : /\ payloads[i] \in Seq(Objects(R))
                              /\ Range(payloads[i]) = Range(events[i].responses)
  BY <1>1, PayloadsFound
<1>3. AuditedResults(events) = Distinct(audited)
  BY Zenon DEF AuditedResults
<1>4. payloads \in Seq(Seq(Objects(R))) /\ DOMAIN payloads = DOMAIN events
  <2>1. payloads \in [1..Len(events) -> Seq(Objects(R))]
    BY <1>1, <1>2
  <2> HIDE DEF payloads
  <2> QED
    BY <1>1, <2>1, FunctionIsSeq
<1> HIDE DEF payloads
<1>5. /\ all \in Seq(Objects(R))
      /\ \A x : x \in Range(all) <=> \E i \in DOMAIN events : x \in Range(payloads[i])
  BY <1>4, Flattened
<1> HIDE DEF all
<1>6. /\ audited \in Seq(Objects(R))
      /\ Range(audited) = {all[i] : i \in {j \in DOMAIN all : j \in places}}
  <2> HIDE DEF places
  <2> QED
    BY <1>5, PickedRange
<1>7. \A x : x \in Range(audited) <=> x \in Range(all) /\ x.result.status \in AUDITED_STATUSES
  BY <1>6 DEF Range
<1> HIDE DEF audited
<1>8. /\ Distinct(audited) \in Seq(Objects(R))
      /\ Range(Distinct(audited)) = Range(audited)
  BY <1>6, DistinctItems
<1>9. ASSUME NEW r \in R
      PROVE  Object(r) \in Range(AuditedResults(events)) <=>
              r.status \in AUDITED_STATUSES /\ \E i \in DOMAIN events : Returns(events[i], r)
  <2>1. Object(r).result = r
    BY Kinds
  <2> QED
    BY <1>2, <1>3, <1>5, <1>7, <1>8, <2>1 DEF Returns
<1> QED
  BY <1>3, <1>8, <1>9

(* The agent's last words are those of one of the events, unless it says
   nothing. *)
LastToSpeak(i, events) ==
  /\ i \in DOMAIN events /\ events[i].said # <<>>
  /\ \A j \in DOMAIN events : events[j].said # <<>> => j <= i

LEMMA SpokenLast ==
  ASSUME NEW R, NEW events \in Seq(Events(R))
  PROVE  /\ Spoken(events) \in Seq(Pieces(R))
         /\ \/ Spoken(events) = <<>> /\ \A i \in DOMAIN events : events[i].said = <<>>
            \/ \E i \in DOMAIN events : LastToSpeak(i, events) /\ Spoken(events) = events[i].said
         /\ \A i \in DOMAIN events : LastToSpeak(i, events) => Spoken(events) = events[i].said
<1> DEFINE spoke == {i \in DOMAIN events : events[i].said # <<>>}
           last == CHOOSE i \in spoke : \A j \in spoke : j <= i
<1>1. /\ DOMAIN events = 1..Len(events) /\ Len(events) \in Nat
      /\ \A i \in DOMAIN events : events[i].said \in Seq(Pieces(R))
  <2>1. /\ DOMAIN events = 1..Len(events) /\ Len(events) \in Nat
        /\ \A i \in 1..Len(events) : events[i] \in Events(R)
    BY LenProperties, ElementOfSeq
  <2>2. \A e \in Events(R) : e.said \in Seq(Pieces(R))
    BY DEF Events
  <2> QED
    BY <2>1, <2>2
<1>2. Spoken(events) = IF spoke = {} THEN <<>> ELSE events[last].said
  BY Zenon DEF Spoken
<1>3. CASE spoke = {}
  <2>1. Spoken(events) = <<>> /\ \A i \in DOMAIN events : events[i].said = <<>>
    BY <1>2, <1>3
  <2>2. \A i \in DOMAIN events : ~LastToSpeak(i, events)
    BY <2>1 DEF LastToSpeak
  <2> QED
    BY <2>1, <2>2, EmptySeq
<1>4. CASE spoke # {}
  <2>1. \E i \in spoke : \A j \in spoke : j <= i
    <3> DEFINE Behind == {Len(events) - i : i \in spoke}
    <3>1. Behind \subseteq Nat /\ Behind # {}
      BY <1>1, <1>4
    <3>2. PICK m \in Behind : \A n \in Behind : m <= n
      <4> HIDE DEF Behind
      <4> QED
        BY <3>1, LeastNumber
    <3>3. PICK i \in spoke : m = Len(events) - i
      BY <3>2
    <3>4. \A j \in spoke : m <= Len(events) - j
      BY <3>2
    <3>5. \A j \in spoke : j <= i
      BY <1>1, <3>3, <3>4
    <3> QED
      BY <3>5
  <2>2. last \in spoke /\ \A j \in spoke : j <= last
    <3> HIDE DEF spoke
    <3> QED
      BY <2>1
  <2> HIDE DEF last
  <2>3. LastToSpeak(last, events) /\ last \in DOMAIN events /\ Spoken(events) = events[last].said
    BY <1>2, <1>4, <2>2 DEF LastToSpeak
  <2>4. \A i \in DOMAIN events : LastToSpeak(i, events) => i = last
    BY <1>1, <2>3 DEF LastToSpeak
  <2> QED
    BY <1>1, <2>3, <2>4
<1> QED
  BY <1>3, <1>4

(* The specialist's reply carries the results to be audited that its tools
   returned in this turn, whatever its model says, as long as that is prose. *)
LEMMA RestatedReply ==
  ASSUME NEW R, NEW events \in Seq(Events(R)),
         \A i \in DOMAIN events : \A r \in R : Object(r) \notin Range(events[i].said)
  PROVE  LET reply == PeerReply(RestateStructuredResults(events)) IN
         /\ reply \in Replies(R)
         /\ Carried(reply) = {r \in R : /\ r.status \in AUDITED_STATUSES
                                       /\ \E i \in DOMAIN events : Returns(events[i], r)}
<1> DEFINE results == AuditedResults(events)
           words == Spoken(events)
           said == Spoken(RestateStructuredResults(events))
<1>1. /\ results \in Seq(Objects(R))
      /\ \A r \in R : Object(r) \in Range(results) <=>
           r.status \in AUDITED_STATUSES /\ \E i \in DOMAIN events : Returns(events[i], r)
  BY AuditedFound
<1>2. /\ words \in Seq(Pieces(R))
      /\ \A r \in R : Object(r) \notin Range(words)
  <2>1. CASE words = <<>>
    <3>1. Range(words) = {}
      BY <2>1 DEF Range
    <3> QED
      BY <3>1, SpokenLast
  <2>2. CASE \E i \in DOMAIN events : words = events[i].said
    BY <2>2, SpokenLast
  <2> QED
    BY <2>1, <2>2, SpokenLast
<1> HIDE DEF results, words
<1>3. /\ said \in Seq(Pieces(R))
      /\ \A r \in R : Object(r) \in Range(said) <=> Object(r) \in Range(results)
  <2>1. CASE results = <<>>
    <3>1. RestateStructuredResults(events) = events
      BY <2>1 DEF RestateStructuredResults, results
    <3>2. Range(results) = {}
      BY <2>1 DEF Range
    <3> QED
      BY <1>2, <3>1, <3>2 DEF words
  <2>2. CASE results # <<>>
    <3> DEFINE restated == words \o results
               last == Event(<<>>, restated)
               all == Append(events, last)
               n == Len(events) + 1
    <3>1. RestateStructuredResults(events) = all
      BY <2>2, Zenon DEF RestateStructuredResults, results, words
    <3>2. results \in Seq(Pieces(R)) /\ Objects(R) \subseteq Pieces(R)
      BY <1>1 DEF Pieces
    <3>3. /\ restated \in Seq(Pieces(R)) /\ restated # <<>>
          /\ Range(restated) = Range(words) \cup Range(results)
      BY <1>2, <2>2, <3>2, ConcatProperties, ConcatEqualIffEmpty, RangeConcatenation
    <3> HIDE DEF restated
    <3>4. last \in Events(R) /\ last.said = restated
      BY <3>3, EmptySeq DEF Event, Events
    <3> HIDE DEF last
    <3>5. /\ all \in Seq(Events(R)) /\ all[n] = last /\ DOMAIN all = 1..n
          /\ n \in DOMAIN all /\ \A j \in DOMAIN all : j <= n
      <4>1. /\ all \in Seq(Events(R)) /\ Len(all) = Len(events) + 1
            /\ all[Len(events) + 1] = last
        BY <3>4, AppendProperties
      <4>2. DOMAIN all = 1..Len(all) /\ Len(events) \in Nat
        BY <4>1, LenProperties
      <4> QED
        BY <4>1, <4>2
    <3> HIDE DEF all, n
    <3>6. LastToSpeak(n, all)
      BY <3>3, <3>4, <3>5 DEF LastToSpeak
    <3>7. said = restated
      BY <3>1, <3>4, <3>5, <3>6, SpokenLast
    <3> QED
      BY <1>2, <3>3, <3>7
  <2> QED
    BY <2>1, <2>2
<1>4. PeerReply(RestateStructuredResults(events)) = Text(said)
  BY DEF PeerReply
<1> HIDE DEF said
<1>5. Carried(Text(said)) = {r \in R : Object(r) \in Range(said)}
  BY <1>3, RepliesCarry
<1>6. Text(said) \in Replies(R)
  BY <1>3 DEF Replies
<1> QED
  BY <1>1, <1>3, <1>4, <1>5, <1>6

-----------------------------------------------------------------------------
(* Unpacking                                                               *)

(* Flattening one sequence, or none, leaves what it is. *)
LEMMA FlattenedFew ==
  ASSUME NEW S, NEW s \in Seq(S)
  PROVE  FlattenSeq(<<s>>) = s /\ FlattenSeq(<<>>) = <<>>
BY DEF FlattenSeq

(* A reply that is returned as it is, in a wrapper, or in a list in a wrapper. *)
Packings(reply) == {reply, Wrapped(reply), Wrapped(ListOf(<<reply>>))}

LEMMA Unpacked ==
  ASSUME NEW R, NEW reply \in Replies(R), NEW packing \in Packings(reply)
  PROVE  /\ Unpack(packing) = IF packing = reply THEN <<reply>>
                             ELSE <<Text(<<packing>>)>> \o <<reply>>
         /\ packing # reply => packing \in Wrappings(R)
<1>1. /\ reply.tag = "text" /\ ~IsDict(reply)
      /\ Wrapped(reply) # reply /\ Wrapped(ListOf(<<reply>>)) # reply
  <2>1. PICK s \in Seq(Pieces(R)) : reply = Text(s)
    BY DEF Replies
  <2>2. reply.tag = "text" /\ ~IsDict(reply)
    BY <2>1, Kinds, Zenon
  <2> QED
    BY <2>2, Kinds
<1> DEFINE list == ListOf(<<reply>>)
<1>2. /\ Dumped(reply) = <<reply>> /\ Within(reply) = <<>>
      /\ Dumped(list) = <<>> /\ Within(list) = <<reply>>
      /\ \A x : Dumped(Wrapped(x)) = <<Text(<<Wrapped(x)>>)>> /\ Within(Wrapped(x)) = <<x>>
  <2>1. Dumped(reply) = <<reply>> /\ Within(reply) = <<>>
    BY <1>1 DEF Dumped, Within
  <2>2. list.tag = "list" /\ list.inner = <<reply>> /\ ~IsDict(list)
    BY Kinds, Zenon
  <2>3. Dumped(list) = <<>> /\ Within(list) = <<reply>>
    <3> HIDE DEF list
    <3> QED
      BY <2>2 DEF Dumped, Within
  <2>4. ASSUME NEW x
        PROVE  Dumped(Wrapped(x)) = <<Text(<<Wrapped(x)>>)>> /\ Within(Wrapped(x)) = <<x>>
    <3> DEFINE w == Wrapped(x)
    <3>1. w.tag = "wrapper" /\ w.inner = <<x>> /\ IsDict(w)
      BY Kinds, Zenon
    <3> HIDE DEF w
    <3>2. Dumped(w) = <<Text(<<w>>)>> /\ Within(w) = <<x>>
      BY <3>1 DEF Dumped, Within
    <3> QED
      BY <3>2 DEF w
  <2> QED
    BY <2>1, <2>3, <2>4
<1> HIDE DEF list
<1>3. ASSUME NEW node, NEW x, Within(node) = <<x>>
      PROVE  /\ [i \in DOMAIN Within(node) |-> Dumped(Within(node)[i])] = <<Dumped(x)>>
             /\ [i \in DOMAIN Within(node) |-> DumpedIn(Within(node)[i])] = <<DumpedIn(x)>>
  BY <1>3
<1>4. ASSUME NEW node, Within(node) = <<>>
      PROVE  /\ [i \in DOMAIN Within(node) |-> Dumped(Within(node)[i])] = <<>>
             /\ [i \in DOMAIN Within(node) |-> DumpedIn(Within(node)[i])] = <<>>
  BY <1>4
<1>5. \A x : /\ <<x>> \in Seq({x}) /\ FlattenSeq(<<<<x>>>>) = <<x>>
            /\ <<x>> \o <<>> = <<x>> /\ <<>> \o <<x>> = <<x>>
  BY OneOf, FlattenedFew, ConcatEmptySeq
<1>6. FlattenSeq(<<>>) = <<>>
  BY FlattenedFew, EmptySeq
<1>7. DumpedIn(reply) = <<reply>> /\ Unpack(reply) = <<reply>>
  <2>1. /\ DumpedIn(reply) = <<reply>> \o FlattenSeq(<<>>)
        /\ Unpack(reply) = <<reply>> \o FlattenSeq(<<>>)
    BY <1>2, <1>4, Zenon DEF DumpedIn, Unpack
  <2> QED
    BY <1>5, <1>6, <2>1, Zenon
<1>8. DumpedIn(list) = <<reply>>
  <2>1. DumpedIn(list) = <<>> \o FlattenSeq(<<<<reply>>>>)
    BY <1>2, <1>3, Zenon DEF DumpedIn
  <2> QED
    BY <1>5, <2>1, Zenon
<1>9. Unpack(reply) = <<reply>>
  BY <1>7
<1>10. ASSUME NEW x, DumpedIn(x) = <<reply>>
       PROVE  Unpack(Wrapped(x)) = <<Text(<<Wrapped(x)>>)>> \o <<reply>>
  <2>1. Within(Wrapped(x)) = <<x>> /\ Dumped(Wrapped(x)) = <<Text(<<Wrapped(x)>>)>>
    BY <1>2
  <2>2. Unpack(Wrapped(x)) = <<Text(<<Wrapped(x)>>)>> \o FlattenSeq(<<DumpedIn(x)>>)
    BY <1>3, <2>1, Zenon DEF Unpack
  <2> QED
    BY <1>5, <1>10, <2>2, Zenon
<1>11. Wrapped(reply) \in Wrappings(R) /\ Wrapped(list) \in Wrappings(R)
  BY DEF Wrappings, list
<1> QED
  BY <1>1, <1>7, <1>8, <1>9, <1>10, <1>11 DEF Packings, list

-----------------------------------------------------------------------------
(* What is found in the texts of an event                                  *)

(* In the texts of a tool's result: what the reply carries. *)
LEMMA ReplyIsRead ==
  ASSUME NEW R, NEW reply \in Replies(R), NEW packing \in Packings(reply)
  PROVE  LET read == ReplyTextsOf(Event(<<packing>>, <<>>)) IN
         /\ read \in Seq(Texts(R))
         /\ \A x : x \in Range(ResultsIn(read)) <=>
               x \in Carried(reply) \/ (packing # reply /\ x = NoResult)
<1> DEFINE read == ReplyTextsOf(Event(<<packing>>, <<>>))
           event == Event(<<packing>>, <<>>)
<1>0. /\ Unpack(packing) = IF packing = reply THEN <<reply>>
                           ELSE <<Text(<<packing>>)>> \o <<reply>>
      /\ packing # reply => packing \in Wrappings(R)
  BY Unpacked, Zenon
<1>1. read = Unpack(packing)
  <2>1. event.responses = <<packing>> /\ event.said = <<>>
    BY DEF Event
  <2>2. [i \in DOMAIN event.responses |-> Unpack(event.responses[i])] = <<Unpack(packing)>>
    <3> HIDE DEF event
    <3> QED
      BY <2>1
  <2>3. Unpack(packing) \in Seq(Range(Unpack(packing)))
    <3>1. \A a, b : <<a>> \in Seq({a, b}) /\ <<b>> \in Seq({a, b})
      OBVIOUS
    <3>2. <<Text(<<packing>>)>> \o <<reply>> \in Seq({Text(<<packing>>), reply})
      BY <3>1, ConcatProperties
    <3>3. <<reply>> \in Seq({reply})
      OBVIOUS
    <3>4. CASE packing = reply
      <4>1. Unpack(packing) = <<reply>>
        BY <1>0, <3>4
      <4> QED
        BY <3>3, <4>1, SeqOfRange
    <3>5. CASE packing # reply
      <4>1. Unpack(packing) = <<Text(<<packing>>)>> \o <<reply>>
        BY <1>0, <3>5
      <4> QED
        BY <3>2, <4>1, SeqOfRange
    <3> QED
      BY <3>4, <3>5
  <2>4. FlattenSeq(<<Unpack(packing)>>) = Unpack(packing) /\ Unpack(packing) \o <<>> = Unpack(packing)
    BY <2>3, FlattenedFew, ConcatEmptySeq
  <2>5. read = FlattenSeq(<<Unpack(packing)>>) \o <<>>
    BY <2>1, <2>2, Zenon DEF ReplyTextsOf
  <2> QED
    BY <2>4, <2>5, Zenon
<1> HIDE DEF read
<1>2. reply \in Texts(R) /\ (packing # reply => Text(<<packing>>) \in Texts(R))
  BY Unpacked, Zenon DEF Texts, Dumps
<1>3. <<reply>> \in Seq(Texts(R)) /\ Range(<<reply>>) = {reply}
  BY <1>2, OneOf
<1>4. \A x : x \in Range(ResultsIn(<<reply>>)) <=> x \in Carried(reply)
  BY <1>3, ResultsFound
<1>5. CASE packing = reply
  <2>1. read = <<reply>>
    BY <1>0, <1>1, <1>5, Zenon
  <2> QED
    BY <1>3, <1>4, <1>5, <2>1 DEF read
<1>6. CASE packing # reply
  <2> DEFINE dump == <<Text(<<packing>>)>>
  <2>1. read = dump \o <<reply>> /\ packing \in Wrappings(R)
    BY <1>0, <1>1, <1>6, Zenon
  <2>2. dump \in Seq(Texts(R)) /\ Range(dump) = {Text(<<packing>>)}
    BY <1>2, <1>6, OneOf
  <2>3. \A x : x \in Range(ResultsIn(dump)) <=> x = NoResult
    <3>1. Carried(Text(<<packing>>)) = {NoResult}
      BY <2>1, DumpsCarryNothing
    <3> HIDE DEF dump
    <3> QED
      BY <2>2, <3>1, ResultsFound
  <2> HIDE DEF dump
  <2>4. /\ read \in Seq(Texts(R))
        /\ Range(ResultsIn(read)) = Range(ResultsIn(dump)) \cup Range(ResultsIn(<<reply>>))
    <3> DEFINE one == <<reply>>
    <3>1. one \in Seq(Texts(R)) /\ dump \in Seq(Texts(R))
      BY <1>3, <2>2, Zenon
    <3> HIDE DEF one
    <3>2. /\ dump \o one \in Seq(Texts(R))
          /\ Range(ResultsIn(dump \o one)) = Range(ResultsIn(dump)) \cup Range(ResultsIn(one))
      BY <3>1, ResultsJoined
    <3> QED
      BY <2>1, <3>2, Zenon DEF one
  <2>5. \A x : x \in Range(ResultsIn(read)) <=> x \in Carried(reply) \/ x = NoResult
    BY <1>4, <2>3, <2>4
  <2>6. /\ read \in Seq(Texts(R))
        /\ \A x : x \in Range(ResultsIn(read)) <=>
              x \in Carried(reply) \/ (packing # reply /\ x = NoResult)
    BY <1>6, <2>4, <2>5, Zenon
  <2> QED
    BY <2>6, Zenon DEF read
<1> QED
  BY <1>5, <1>6

(* In the text of what somebody says: the results of the objects in it. *)
LEMMA WordsAreRead ==
  ASSUME NEW R, NEW said \in Seq(Pieces(R))
  PROVE  LET read == ReplyTextsOf(Event(<<>>, said)) IN
         /\ read \in Seq(Texts(R))
         /\ \A x : x \in Range(ResultsIn(read)) <=> x \in R /\ Object(x) \in Range(said)
<1> DEFINE read == ReplyTextsOf(Event(<<>>, said))
           event == Event(<<>>, said)
           words == IF said = <<>> THEN <<>> ELSE <<Text(said)>>
<1>1. read = words
  <2>1. event.responses = <<>> /\ event.said = said
    BY DEF Event
  <2>2. [i \in DOMAIN event.responses |-> Unpack(event.responses[i])] = <<>>
    <3> HIDE DEF event
    <3> QED
      BY <2>1
  <2>3. FlattenSeq(<<>>) = <<>>
    BY FlattenedFew, EmptySeq
  <2>4. read = <<>> \o words
    <3>1. (IF event.said = <<>> THEN <<>> ELSE <<Text(event.said)>>) = words
      BY <2>1, Zenon
    <3> HIDE DEF words, event
    <3>2. ReplyTextsOf(event) = <<>> \o words
      BY <2>2, <2>3, <3>1, Zenon DEF ReplyTextsOf
    <3> QED
      BY <3>2, Zenon DEF event
  <2>5. words \in Seq({Text(said)})
    <3>1. <<>> \in Seq({Text(said)}) /\ <<Text(said)>> \in Seq({Text(said)})
      BY EmptySeq, OneOf
    <3> QED
      BY <3>1, Zenon
  <2> HIDE DEF words, read
  <2> QED
    BY <2>4, <2>5, ConcatEmptySeq
<1> HIDE DEF read
<1>2. Text(said) \in Texts(R)
  BY DEF Texts, Replies
<1>3. CASE said = <<>>
  <2>1. read = <<>> /\ Range(<<>>) = {} /\ Range(said) = {}
    BY <1>1, <1>3 DEF Range
  <2>2. read \in Seq(Texts(R))
    BY <2>1, EmptySeq
  <2>3. \A x : x \notin Range(ResultsIn(read))
    BY <2>1, <2>2, ResultsFound
  <2> QED
    BY <2>1, <2>2, <2>3 DEF read
<1>4. CASE said # <<>>
  <2>1. read = <<Text(said)>>
    BY <1>1, <1>4
  <2>2. read \in Seq(Texts(R)) /\ Range(read) = {Text(said)}
    BY <1>2, <2>1, OneOf
  <2>3. \A x : x \in Range(ResultsIn(read)) <=> x \in Carried(Text(said))
    BY <2>2, ResultsFound
  <2> QED
    BY <2>2, <2>3, RepliesCarry DEF read
<1> QED
  BY <1>3, <1>4

(* Every proposal is found, and once. *)
LEMMA ProposalsFound ==
  ASSUME NEW S, NEW texts, ResultsIn(texts) \in Seq(S)
  PROVE  LET found == FindProposals(texts) IN
         /\ found \in Seq(S)
         /\ \A x : x \in Range(found) <=>
               x \in Range(ResultsIn(texts)) /\ x.status = "approval_required"
         /\ \A i, j \in DOMAIN found : found[i] = found[j] => i = j
<1> DEFINE results == ResultsIn(texts)
           places == {i \in DOMAIN results : results[i].status = "approval_required"}
           picked == Picked(results, places)
           found == Distinct(picked)
<1>1. FindProposals(texts) = found
  BY Zenon DEF FindProposals, Proposals
<1> HIDE DEF results
<1>2. /\ picked \in Seq(S)
      /\ Range(picked) = {results[i] : i \in {j \in DOMAIN results : j \in places}}
  <2>1. results \in Seq(S)
    BY DEF results
  <2> HIDE DEF places
  <2> QED
    BY <2>1, PickedRange
<1>3. \A x : x \in Range(picked) <=> x \in Range(results) /\ x.status = "approval_required"
  BY <1>2 DEF Range
<1> HIDE DEF picked
<1>4. /\ found \in Seq(S) /\ Range(found) = Range(picked)
      /\ \A i, j \in DOMAIN found : found[i] = found[j] => i = j
  BY <1>2, DistinctItems
<1> HIDE DEF found
<1> QED
  BY <1>1, <1>3, <1>4 DEF results

(* What is found for an approved proposal is the confirmations of it. *)
LEMMA ExecutionsFound ==
  ASSUME NEW S, NEW texts, ResultsIn(texts) \in Seq(S), NEW proposal
  PROVE  LET found == FindExecutions(texts, proposal)
             Confirms(x) == /\ x \in Range(ResultsIn(texts)) /\ x.status = "published"
                            /\ x.what = proposal
         IN /\ found # <<>> => Confirms(found[1])
            /\ found = <<>> => \A x : ~Confirms(x)
<1> DEFINE results == ResultsIn(texts)
           places == {i \in DOMAIN results : results[i].status = "published" /\
                                             results[i].what = proposal}
           found == Picked(results, places)
<1>1. FindExecutions(texts, proposal) = found
  BY Zenon DEF FindExecutions
<1> HIDE DEF results
<1>2. /\ found \in Seq(S)
      /\ Range(found) = {results[i] : i \in {j \in DOMAIN results : j \in places}}
  <2>1. results \in Seq(S)
    BY DEF results
  <2> HIDE DEF places
  <2> QED
    BY <2>1, PickedRange
<1>3. \A x : x \in Range(found) <=>
            x \in Range(results) /\ x.status = "published" /\ x.what = proposal
  BY <1>2 DEF Range
<1> HIDE DEF found
<1>4. found # <<>> => found[1] \in Range(found)
  <2>1. found # <<>> => 1 \in DOMAIN found
    BY <1>2, EmptySeq, LenProperties
  <2> QED
    BY <2>1 DEF Range
<1>5. found = <<>> => Range(found) = {}
  BY DEF Range
<1> QED
  BY <1>1, <1>3, <1>4, <1>5 DEF results
=============================================================================
