----------------------------- MODULE ListFacts ------------------------------
(***************************************************************************)
(* What the operators of SequencesExt that the models are built from       *)
(* return.  They stand for list_find, list_remove, list_add and            *)
(* list_remove_by_condition of the commons library: a list is itself, or   *)
(* itself without one of its elements, the others in their order.          *)
(***************************************************************************)
EXTENDS Naturals, Sequences, SequencesExt, TLAPS, WellFoundedInduction,
        SequenceTheorems

\* A non-empty set of indices of a list has a least one (Min of FiniteSetsExt, on
\* which list_find's model SelectInSeq rests).
LEMMA MinIndex ==
  ASSUME NEW n \in Nat, NEW I \in SUBSET (1..n), I # {}
  PROVE Min(I) \in I /\ \A j \in I : Min(I) <= j
<1>1. \E x \in I : \A y \in I : ~ (<<y, x>> \in OpToRel(<, Nat))
  <2>1. I \subseteq Nat
    OBVIOUS
  <2> QED BY <2>1, WFMin, NatLessThanWellFounded
<1>2. \E x \in I : \A y \in I : x <= y
  <2>1. PICK x \in I : \A y \in I : ~ (<<y, x>> \in OpToRel(<, Nat))
    BY <1>1
  <2>2. ASSUME NEW y \in I PROVE x <= y
    <3>1. x \in Nat /\ y \in Nat
      OBVIOUS
    <3>2. ~(y < x)
      BY <2>1, <3>1 DEF OpToRel
    <3> QED BY <3>1, <3>2
  <2> QED BY <2>2
<1> QED BY <1>2 DEF Min
\* What list_remove leaves: one element less, those behind it one place ahead.
LEMMA RemoveAtElements ==
  ASSUME NEW S, NEW s \in Seq(S), NEW i \in 1..Len(s)
  PROVE /\ RemoveAt(s, i) \in Seq(S)
        /\ Len(RemoveAt(s, i)) = Len(s) - 1
        /\ \A j \in 1..(Len(s)-1) : RemoveAt(s,i)[j] = IF j < i THEN s[j] ELSE s[j+1]
<1> DEFINE a == SubSeq(s, 1, i-1)
           b == SubSeq(s, i+1, Len(s))
<1>0. Len(s) \in Nat /\ \A j \in 1..Len(s) : s[j] \in S
  OBVIOUS
<1>1. a \in Seq(S) /\ Len(a) = i-1 /\ \A j \in 1..(i-1) : a[j] = s[j]
  BY SubSeqProperties, <1>0
<1>2. b \in Seq(S) /\ Len(b) = Len(s)-i /\ \A j \in 1..(Len(s)-i) : b[j] = s[j+i]
  BY SubSeqProperties, <1>0
<1>3. /\ a \o b \in Seq(S)
      /\ Len(a \o b) = Len(s)-1
      /\ \A j \in 1..(Len(s)-1) : (a \o b)[j] = IF j <= i-1 THEN a[j] ELSE b[j-(i-1)]
  <2> HIDE DEF a, b
  <2>1. /\ a \o b \in Seq(S)
        /\ Len(a \o b) = Len(a) + Len(b)
        /\ \A j \in 1 .. Len(a) + Len(b) : (a \o b)[j] =
                   IF j <= Len(a) THEN a[j] ELSE b[j - Len(a)]
    BY <1>1, <1>2, ConcatProperties
  <2>2. Len(a) + Len(b) = Len(s) - 1
    BY <1>1, <1>2, <1>0
  <2> QED BY <2>1, <2>2, <1>1
<1>4. RemoveAt(s, i) = a \o b
  BY DEF RemoveAt
<1> QED
  <2>1. ASSUME NEW j \in 1..(Len(s)-1) PROVE (a \o b)[j] = IF j < i THEN s[j] ELSE s[j+1]
    <3> HIDE DEF a, b
    <3>1. CASE j < i BY <1>1, <1>3, <3>1, <1>0
    <3>2. CASE ~(j < i)
      <4>1. j-(i-1) \in 1..(Len(s)-i) /\ (j-(i-1))+i = j+1  BY <3>2, <1>0
      <4>2. (a \o b)[j] = b[j-(i-1)] BY <1>3, <3>2, <1>0
      <4> QED BY <1>2, <4>1, <4>2, <3>2
    <3> QED BY <3>1, <3>2
  <2> QED BY <1>3, <1>4, <2>1

\* The list, or the list without one of its elements.
Thinned(r, s) == r = s \/ \E i \in 1..Len(s) : r = RemoveAt(s, i)

\* A thinned list has elements of the same type, and each of them was in the list,
\* at a place of its own.
LEMMA ThinnedElements ==
  ASSUME NEW S, NEW s \in Seq(S), NEW r, Thinned(r, s)
  PROVE  /\ r \in Seq(S)
         /\ \E f \in [1..Len(r) -> 1..Len(s)] :
               /\ \A j \in 1..Len(r) : r[j] = s[f[j]]
               /\ \A j, k \in 1..Len(r) : f[j] = f[k] => j = k
<1>0. Len(s) \in Nat
  BY LenProperties
<1>1. CASE r = s
  <2> DEFINE f == [j \in 1..Len(s) |-> j]
  <2>1. f \in [1..Len(r) -> 1..Len(s)] /\ \A j \in 1..Len(r) : f[j] = j
    BY <1>1
  <2> QED BY <1>1, <2>1
<1>2. CASE \E i \in 1..Len(s) : r = RemoveAt(s, i)
  <2>1. PICK i \in 1..Len(s) : r = RemoveAt(s, i)
    BY <1>2
  <2>2. /\ r \in Seq(S) /\ Len(r) = Len(s) - 1
        /\ \A j \in 1..(Len(s) - 1) : r[j] = IF j < i THEN s[j] ELSE s[j + 1]
    BY <2>1, RemoveAtElements
  <2> DEFINE f == [j \in 1..Len(r) |-> IF j < i THEN j ELSE j + 1]
  <2>3. f \in [1..Len(r) -> 1..Len(s)]
    BY <1>0, <2>2
  <2>4. \A j \in 1..Len(r) : r[j] = s[f[j]]
    BY <1>0, <2>2
  <2>5. \A j, k \in 1..Len(r) : f[j] = f[k] => j = k
    BY <1>0, <2>2
  <2> QED BY <2>2, <2>3, <2>4, <2>5
<1> QED BY <1>1, <1>2 DEF Thinned

\* What list_remove_by_condition takes from a list is an element that meets the
\* condition, if there is one (planificador.c:639, distribution.c:56).
LEMMA RemoveFirstTakes ==
  ASSUME NEW S, NEW s \in Seq(S), NEW e
  PROVE  \/ (\A i \in 1..Len(s) : s[i] # e) /\ RemoveFirst(s, e) = s
         \/ \E i \in 1..Len(s) : s[i] = e /\ RemoveFirst(s, e) = RemoveAt(s, i)
<1> DEFINE I == {i \in 1..Len(s) : s[i] = e}
<1>1. CASE I = {}
  BY <1>1 DEF RemoveFirst
<1>2. CASE I # {}
  <2>1. Min(I) \in I
    <3>1. Len(s) \in Nat /\ I \in SUBSET (1..Len(s))
      BY LenProperties
    <3> HIDE DEF I
    <3> QED BY <1>2, <3>1, MinIndex
  <2>2. SelectInSeq(s, LAMBDA c : c = e) = Min(I)
    BY <1>2 DEF SelectInSeq
  <2>3. RemoveFirst(s, e) = RemoveAt(s, Min(I))
    BY <1>2, <2>2 DEF RemoveFirst
  <2> QED BY <2>1, <2>3
<1> QED BY <1>1, <1>2

\* Taking an element out of a list thins it.
LEMMA RemoveFirstThins ==
  ASSUME NEW S, NEW s \in Seq(S), NEW e
  PROVE  Thinned(RemoveFirst(s, e), s)
BY RemoveFirstTakes DEF Thinned

-----------------------------------------------------------------------------
(* Lists as sets *)

\* What is in a list after the removal of an index.
LEMMA RemoveAtSet ==
  ASSUME NEW S, NEW s \in Seq(S), NEW i \in 1..Len(s)
  PROVE  /\ ToSet(RemoveAt(s, i)) = {s[j] : j \in (1..Len(s)) \ {i}}
         /\ IsInjective(s) => IsInjective(RemoveAt(s, i))
<1> DEFINE r == RemoveAt(s, i)
<1>1. /\ r \in Seq(S) /\ Len(r) = Len(s) - 1
      /\ \A j \in 1..(Len(s) - 1) : r[j] = IF j < i THEN s[j] ELSE s[j + 1]
  BY RemoveAtElements
<1>2. Len(s) \in Nat /\ DOMAIN s = 1..Len(s) /\ DOMAIN r = 1..Len(r)
  BY <1>1, LenProperties
<1> HIDE DEF r
<1>3. ASSUME NEW j \in 1..Len(r) PROVE r[j] \in {s[n] : n \in (1..Len(s)) \ {i}}
  <2>1. CASE j < i
    BY <1>1, <1>2, <2>1
  <2>2. CASE ~(j < i)
    <3>1. j + 1 \in (1..Len(s)) \ {i} /\ r[j] = s[j + 1]
      BY <1>1, <1>2, <2>2
    <3> QED BY <3>1
  <2> QED BY <2>1, <2>2
<1>4. ASSUME NEW n \in (1..Len(s)) \ {i} PROVE \E j \in 1..Len(r) : r[j] = s[n]
  <2>1. CASE n < i
    <3>1. n \in 1..Len(r) /\ r[n] = s[n]
      BY <1>1, <1>2, <2>1
    <3> QED BY <3>1
  <2>2. CASE n > i
    <3>1. n - 1 \in 1..Len(r) /\ r[n - 1] = s[n]
      BY <1>1, <1>2, <2>2
    <3> QED BY <3>1
  <2> QED BY <1>2, <2>1, <2>2
<1>5. IsInjective(s) => IsInjective(r)
  <2> SUFFICES ASSUME IsInjective(s), NEW j \in 1..Len(r), NEW k \in 1..Len(r), r[j] = r[k]
               PROVE  j = k
    BY <1>2 DEF IsInjective
  <2>0. Thinned(r, s)
    BY DEF Thinned, r
  <2>1. PICK f \in [1..Len(r) -> 1..Len(s)] :
           /\ \A m \in 1..Len(r) : r[m] = s[f[m]]
           /\ \A m, n \in 1..Len(r) : f[m] = f[n] => m = n
    BY <2>0, ThinnedElements
  <2>2. f[j] \in DOMAIN s /\ f[k] \in DOMAIN s /\ s[f[j]] = s[f[k]]
    BY <1>2, <2>1
  <2>3. f[j] = f[k]
    BY <2>2 DEF IsInjective
  <2> QED BY <2>1, <2>3
<1> QED BY <1>2, <1>3, <1>4, <1>5 DEF ToSet, r

\* list_remove of a list without repetitions takes the element away.
LEMMA RemoveFirstSet ==
  ASSUME NEW S, NEW s \in Seq(S), IsInjective(s), NEW e
  PROVE  /\ RemoveFirst(s, e) \in Seq(S) /\ IsInjective(RemoveFirst(s, e))
         /\ ToSet(RemoveFirst(s, e)) = ToSet(s) \ {e}
<1>1. RemoveFirst(s, e) \in Seq(S)
  BY RemoveFirstThins, ThinnedElements
<1>2. DOMAIN s = 1..Len(s)
  BY LenProperties
<1>3. CASE (\A i \in 1..Len(s) : s[i] # e) /\ RemoveFirst(s, e) = s
  BY <1>1, <1>2, <1>3 DEF ToSet
<1>4. ASSUME NEW i \in 1..Len(s), s[i] = e, RemoveFirst(s, e) = RemoveAt(s, i)
      PROVE  IsInjective(RemoveFirst(s, e)) /\ ToSet(RemoveFirst(s, e)) = ToSet(s) \ {e}
  <2>1. ToSet(RemoveAt(s, i)) = {s[j] : j \in (1..Len(s)) \ {i}} /\ IsInjective(RemoveAt(s, i))
    BY RemoveAtSet
  <2>2. \A j \in 1..Len(s) : s[j] = e => j = i
    BY <1>2, <1>4 DEF IsInjective
  <2> QED BY <1>2, <1>4, <2>1, <2>2 DEF ToSet
<1> QED BY <1>1, <1>3, <1>4, RemoveFirstTakes

\* list_add.
LEMMA AppendSet ==
  ASSUME NEW S, NEW s \in Seq(S), NEW e \in S
  PROVE  /\ Append(s, e) \in Seq(S) /\ ToSet(Append(s, e)) = ToSet(s) \cup {e}
         /\ IsInjective(s) /\ e \notin ToSet(s) => IsInjective(Append(s, e))
<1> DEFINE t == Append(s, e)
<1>1. /\ t \in Seq(S) /\ Len(t) = Len(s) + 1
      /\ \A i \in 1..Len(s) : t[i] = s[i]
      /\ t[Len(s) + 1] = e
  BY AppendProperties
<1>2. DOMAIN t = 1..(Len(s) + 1) /\ DOMAIN s = 1..Len(s) /\ Len(s) \in Nat
  <2> HIDE DEF t
  <2> QED BY <1>1, LenProperties
<1> HIDE DEF t
<1>3. ToSet(t) = ToSet(s) \cup {e}
  <2>1. \A i \in 1..(Len(s) + 1) : i \in 1..Len(s) \/ i = Len(s) + 1
    BY <1>2
  <2>2. Len(s) + 1 \in 1..(Len(s) + 1) /\ 1..Len(s) \subseteq 1..(Len(s) + 1)
    BY <1>2
  <2> QED BY <1>1, <1>2, <2>1, <2>2 DEF ToSet
<1>4. ASSUME IsInjective(s), e \notin ToSet(s), NEW i \in DOMAIN t, NEW j \in DOMAIN t,
             t[i] = t[j]
      PROVE  i = j
  <2>1. CASE i <= Len(s) /\ j <= Len(s)
    <3>1. i \in DOMAIN s /\ j \in DOMAIN s /\ s[i] = s[j]
      BY <1>1, <1>2, <1>4, <2>1
    <3> QED BY <1>4, <3>1 DEF IsInjective
  <2>2. CASE i = Len(s) + 1 /\ j = Len(s) + 1
    BY <2>2
  <2>3. CASE i = Len(s) + 1 /\ j <= Len(s)
    <3>1. j \in DOMAIN s /\ s[j] = e
      BY <1>1, <1>2, <1>4, <2>3
    <3> QED BY <1>4, <3>1 DEF ToSet
  <2>4. CASE i <= Len(s) /\ j = Len(s) + 1
    <3>1. i \in DOMAIN s /\ s[i] = e
      BY <1>1, <1>2, <1>4, <2>4
    <3> QED BY <1>4, <3>1 DEF ToSet
  <2> QED BY <1>2, <1>4, <2>1, <2>2, <2>3, <2>4
<1> QED BY <1>1, <1>3, <1>4 DEF IsInjective, t

\* list_add_all.
LEMMA ConcatSet ==
  ASSUME NEW S, NEW s \in Seq(S), NEW t \in Seq(S)
  PROVE  /\ s \o t \in Seq(S) /\ ToSet(s \o t) = ToSet(s) \cup ToSet(t)
         /\ IsInjective(s) /\ IsInjective(t) /\ ToSet(s) \cap ToSet(t) = {}
                => IsInjective(s \o t)
<1> DEFINE u == s \o t
<1>1. /\ u \in Seq(S) /\ Len(u) = Len(s) + Len(t)
      /\ \A i \in 1..(Len(s) + Len(t)) : u[i] = IF i <= Len(s) THEN s[i] ELSE t[i - Len(s)]
  BY ConcatProperties
<1>2. /\ DOMAIN u = 1..(Len(s) + Len(t)) /\ DOMAIN s = 1..Len(s) /\ DOMAIN t = 1..Len(t)
      /\ Len(s) \in Nat /\ Len(t) \in Nat
  <2> HIDE DEF u
  <2> QED BY <1>1, LenProperties
<1> HIDE DEF u
<1>3. ASSUME NEW i \in DOMAIN u
      PROVE  \/ i \in DOMAIN s /\ u[i] = s[i]
             \/ ~(i <= Len(s)) /\ i - Len(s) \in DOMAIN t /\ u[i] = t[i - Len(s)]
  BY <1>1, <1>2
<1>4. \A i \in DOMAIN s : i \in DOMAIN u /\ u[i] = s[i]
  BY <1>1, <1>2
<1>5. \A i \in DOMAIN t : i + Len(s) \in DOMAIN u /\ u[i + Len(s)] = t[i]
  BY <1>1, <1>2
<1>6. ToSet(u) = ToSet(s) \cup ToSet(t)
  BY <1>3, <1>4, <1>5 DEF ToSet
<1>7. ASSUME IsInjective(s), IsInjective(t), ToSet(s) \cap ToSet(t) = {},
             NEW i \in DOMAIN u, NEW j \in DOMAIN u, u[i] = u[j]
      PROVE  i = j
  <2>1. CASE i \in DOMAIN s /\ u[i] = s[i] /\ j \in DOMAIN s /\ u[j] = s[j]
    BY <1>7, <2>1 DEF IsInjective
  <2>2. CASE /\ i - Len(s) \in DOMAIN t /\ u[i] = t[i - Len(s)]
             /\ j - Len(s) \in DOMAIN t /\ u[j] = t[j - Len(s)]
    <3>1. i - Len(s) = j - Len(s)
      BY <1>7, <2>2 DEF IsInjective
    <3> QED BY <1>2, <3>1
  <2>3. CASE \/ i \in DOMAIN s /\ u[i] = s[i] /\ j - Len(s) \in DOMAIN t /\ u[j] = t[j - Len(s)]
             \/ j \in DOMAIN s /\ u[j] = s[j] /\ i - Len(s) \in DOMAIN t /\ u[i] = t[i - Len(s)]
    BY <1>7, <2>3 DEF ToSet
  <2> QED BY <1>3, <2>1, <2>2, <2>3
<1> QED BY <1>1, <1>6, <1>7 DEF IsInjective, u

\* list_create.
LEMMA EmptySet == ToSet(<<>>) = {} /\ IsInjective(<<>>)
BY DEF ToSet, IsInjective

\* A list of one element.
LEMMA OneInSet == \A x : ToSet(<<x>>) = {x}
<1> TAKE x
<1>1. DOMAIN <<x>> = {1} /\ <<x>>[1] = x
  OBVIOUS
<1> QED BY <1>1 DEF ToSet

\* Two lists of one element.
LEMMA SameElement == \A x, y : <<x>> = <<y>> => x = y
<1> TAKE x, y
<1>1. <<x>>[1] = x /\ <<y>>[1] = y
  OBVIOUS
<1> QED BY <1>1

\* What is left of a list was there before.
LEMMA SuffixSet ==
  ASSUME NEW S, NEW s \in Seq(S), NEW i \in 1..Len(s)
  PROVE  \A j \in DOMAIN SubSeq(s, i + 1, Len(s)) :
             \E m \in DOMAIN s : SubSeq(s, i + 1, Len(s))[j] = s[m]
<1>1. Len(s) \in Nat /\ DOMAIN s = 1..Len(s)
  BY LenProperties
<1> DEFINE r == SubSeq(s, i + 1, Len(s))
<1>2. /\ r \in Seq(S) /\ Len(r) = IF i + 1 <= Len(s) THEN Len(s) - (i + 1) + 1 ELSE 0
      /\ \A j \in 1..(Len(s) - (i + 1) + 1) : r[j] = s[i + 1 + j - 1]
  BY <1>1, SubSeqProperties
<1>3. DOMAIN r = 1..Len(r)
  <2> HIDE DEF r
  <2> QED BY <1>2, LenProperties
<1> HIDE DEF r
<1>4. ASSUME NEW j \in DOMAIN r PROVE \E m \in DOMAIN s : r[j] = s[m]
  <2>0. i + 1 <= Len(s) /\ j \in 1..(Len(s) - (i + 1) + 1) /\ i \in Nat \ {0} /\ j \in Nat
    <3>1. CASE i + 1 <= Len(s)
      BY <1>1, <1>2, <1>3, <3>1
    <3>2. CASE ~(i + 1 <= Len(s))
      BY <1>1, <1>2, <1>3, <3>2
    <3> QED BY <3>1, <3>2
  <2>1. j \in 1..(Len(s) - (i + 1) + 1) /\ i + 1 + j - 1 \in 1..Len(s)
    BY <1>1, <2>0
  <2> QED BY <1>1, <1>2, <2>1
<1> QED BY <1>4 DEF r

\* Whatever stands after i is in what is left after i.
LEMMA SuffixKeeps ==
  ASSUME NEW S, NEW s \in Seq(S), NEW i \in 1..Len(s), NEW m \in DOMAIN s, m > i
  PROVE  s[m] \in ToSet(SubSeq(s, i + 1, Len(s)))
<1> DEFINE r == SubSeq(s, i + 1, Len(s))
<1>1. Len(s) \in Nat /\ m \in 1..Len(s) /\ i \in Nat
  BY LenProperties
<1>2. i + 1 \in Int /\ i + 1 <= Len(s) /\ m - i \in 1..(Len(s) - (i + 1) + 1)
  BY <1>1
<1>3. i + 1 + (m - i) - 1 = m
  BY <1>1
<1>4. \A n \in (i + 1)..Len(s) : s[n] \in S
  BY <1>1, ElementOfSeq
<1>5. /\ r \in Seq(S) /\ Len(r) = Len(s) - (i + 1) + 1
      /\ \A n \in 1..(Len(s) - (i + 1) + 1) : r[n] = s[i + 1 + n - 1]
  BY <1>1, <1>2, <1>4, SubSeqProperties
<1> HIDE DEF r
<1>6. r[m - i] = s[m]
  BY <1>2, <1>3, <1>5
<1>7. m - i \in DOMAIN r
  BY <1>2, <1>5, LenProperties
<1>8. s[m] \in ToSet(r)
  BY <1>6, <1>7 DEF ToSet
<1> QED BY <1>8 DEF r

\* An entry of a thinned list was in the list.
LEMMA ThinnedSet ==
  ASSUME NEW S, NEW s \in Seq(S), NEW r, Thinned(r, s)
  PROVE  /\ r \in Seq(S) /\ ToSet(r) \subseteq ToSet(s)
         /\ \A i \in DOMAIN r : r[i] \in ToSet(s)
<1>1. PICK f \in [1..Len(r) -> 1..Len(s)] : \A m \in 1..Len(r) : r[m] = s[f[m]]
  BY ThinnedElements
<1>2. r \in Seq(S) /\ DOMAIN r = 1..Len(r) /\ DOMAIN s = 1..Len(s)
  BY ThinnedElements, LenProperties
<1>3. \A i \in DOMAIN r : r[i] \in ToSet(s)
  BY <1>1, <1>2 DEF ToSet
<1> QED BY <1>2, <1>3 DEF ToSet

-----------------------------------------------------------------------------
(* Loops over a list: FoldLeft *)

\* Induction up to N, for a set of numbers.
LEMMA UpTo ==
  ASSUME NEW N \in Nat, NEW P, 0 \in P, \A i \in 1..N : i - 1 \in P => i \in P
  PROVE  \A i \in 0..N : i \in P
<1> DEFINE I == {i \in 1..N : i \notin P}
<1>1. CASE I = {}
  <2>1. \A i \in 0..N : i = 0 \/ i \in 1..N
    OBVIOUS
  <2> QED BY <1>1, <2>1
<1>2. CASE I # {}
  <2>1. Min(I) \in I /\ \A j \in I : Min(I) <= j
    BY <1>2, MinIndex
  <2>2. PICK i \in I : \A j \in I : i <= j
    BY <2>1
  <2>3. i \in 1..N /\ i - 1 \notin I
    BY <2>2
  <2>4. i - 1 \in P
    BY <2>3
  <2> QED BY <2>2, <2>3, <2>4
<1> QED BY <1>1, <1>2

\* The largest of the first i numbers, and what is left without it.
LEMMA FirstNumbers ==
  ASSUME NEW N \in Nat, NEW i \in 1..N
  PROVE  /\ 1..i \in SUBSET (1..N) /\ 1..i # {}
         /\ Max(1..i) = i /\ (1..i) \ {i} = 1..(i - 1)
<1>1. \A x \in 1..i : (\A y \in 1..i : x >= y) <=> x = i
  OBVIOUS
<1>2. i \in 1..i
  OBVIOUS
<1>3. Max(1..i) = i
  BY <1>1, <1>2 DEF Max
<1>4. (1..i) \ {i} = 1..(i - 1)
  OBVIOUS
<1> QED BY <1>2, <1>3, <1>4

\* The function on sets of indices that FoldLeft is defined by.
FoldedBy(f, n, b, G) ==
    \A s \in SUBSET (1..n) : f[s] = IF s = {} THEN b ELSE G[<<Max(s), f[s \ {Max(s)}]>>]

\* A loop over indices whose steps stay in a set has an outcome there: the function
\* FoldLeft is defined by exists.
LEMMA FoldHasOutcome ==
  ASSUME NEW U, NEW N \in Nat, NEW b \in U, NEW G \in [(1..N) \X U -> U]
  PROVE  \E f \in [SUBSET (1..N) -> U] : FoldedBy(f, N, b, G)
<1> DEFINE Good(n) == \E f \in [SUBSET (1..n) -> U] : FoldedBy(f, n, b, G)
           P == {n \in 0..N : Good(n)}
<1>1. 0 \in P
  <2> DEFINE f == [s \in SUBSET (1..0) |-> b]
  <2>1. f \in [SUBSET (1..0) -> U] /\ \A s \in SUBSET (1..0) : s = {} /\ f[s] = b
    OBVIOUS
  <2>2. FoldedBy(f, 0, b, G)
    <3> HIDE DEF f
    <3> QED BY <2>1 DEF FoldedBy
  <2>3. Good(0)
    <3> HIDE DEF f
    <3> QED BY <2>1, <2>2
  <2> HIDE DEF Good
  <2> QED BY <2>3
<1>2. ASSUME NEW n \in 1..N, Good(n - 1)
      PROVE  Good(n)
  <2>1. PICK f \in [SUBSET (1..(n - 1)) -> U] : \A s \in SUBSET (1..(n - 1)) :
             f[s] = IF s = {} THEN b ELSE G[<<Max(s), f[s \ {Max(s)}]>>]
    BY <1>2 DEF FoldedBy
  <2> DEFINE g == [s \in SUBSET (1..n) |->
                     IF n \in s THEN G[<<n, f[s \ {n}]>>] ELSE f[s]]
  <2>2. \A s \in SUBSET (1..n) : s \ {n} \in SUBSET (1..(n - 1))
    OBVIOUS
  <2>3. ASSUME NEW s \in SUBSET (1..n)
        PROVE  /\ g[s] \in U
               /\ g[s] = IF s = {} THEN b ELSE G[<<Max(s), g[s \ {Max(s)}]>>]
    <3>1. CASE n \in s
      <4>1. Max(s) = n
        <5>1. \A x \in s : (\A y \in s : x >= y) <=> x = n
          BY <3>1
        <5> QED BY <3>1, <5>1 DEF Max
      <4>2. g[s] = G[<<n, f[s \ {n}]>>] /\ f[s \ {n}] \in U
        BY <2>1, <2>2, <3>1
      <4>3. s \ {n} \in SUBSET (1..n) /\ g[s \ {n}] = f[s \ {n}]
        OBVIOUS
      <4>4. <<n, f[s \ {n}]>> \in (1..N) \X U
        BY <4>2
      <4>5. G[<<n, f[s \ {n}]>>] \in U
        BY <4>4
      <4> HIDE DEF g
      <4> QED BY <3>1, <4>1, <4>2, <4>3, <4>5
    <3>2. CASE n \notin s
      <4>1. s \in SUBSET (1..(n - 1)) /\ g[s] = f[s]
        BY <2>2, <3>2
      <4>2. g[s \ {Max(s)}] = f[s \ {Max(s)}]
        <5>1. s \ {Max(s)} \in SUBSET (1..n) /\ n \notin s \ {Max(s)}
          BY <3>2
        <5> QED BY <5>1
      <4> HIDE DEF g
      <4> QED BY <2>1, <4>1, <4>2
    <3> QED BY <3>1, <3>2
  <2>4. g \in [SUBSET (1..n) -> U]
    <3>1. g = [s \in SUBSET (1..n) |-> g[s]]
      OBVIOUS
    <3> HIDE DEF g
    <3> QED BY <2>3, <3>1
  <2> HIDE DEF g
  <2> QED BY <2>3, <2>4 DEF FoldedBy
<1>3. ASSUME NEW n \in 1..N, n - 1 \in P PROVE n \in P
  <2>1. Good(n - 1)
    BY <1>3
  <2>2. Good(n)
    BY <1>2, <2>1
  <2> QED BY <2>2
<1>4. N \in P
  <2> HIDE DEF P
  <2> QED BY <1>1, <1>3, UpTo
<1>5. Good(N)
  BY <1>4
<1> QED BY <1>5

\* The largest of some indices.
LEMMA MaxIndex ==
  ASSUME NEW N \in Nat, NEW s \in SUBSET (1..N), s # {}
  PROVE  Max(s) \in s /\ \A x \in s : x <= Max(s)
<1> DEFINE I == {N + 1 - x : x \in s}
<1>1. I \in SUBSET (1..N) /\ I # {}
  <2>1. \A x \in s : x \in Nat /\ N + 1 - x \in 1..N
    OBVIOUS
  <2> QED BY <2>1
<1>2. Min(I) \in I /\ \A j \in I : Min(I) <= j
  <2> HIDE DEF I
  <2> QED BY <1>1, MinIndex
<1>3. PICK m \in s : Min(I) = N + 1 - m
  BY <1>2
<1>4. ASSUME NEW x \in s PROVE m >= x
  <2>1. N + 1 - x \in I
    OBVIOUS
  <2>2. N + 1 - m <= N + 1 - x
    BY <1>2, <1>3, <2>1
  <2> HIDE DEF I
  <2> QED BY <2>2
<1>5. Max(s) \in s /\ \A x \in s : Max(s) >= x
  BY <1>4 DEF Max
<1> QED BY <1>5

\* The same, with each of its steps known to be one of the loop's.
LoopOutcome(f, U, N, b, G) ==
    \A s \in SUBSET (1..N) :
        IF s = {} THEN f[s] = b
        ELSE /\ Max(s) \in 1..N /\ f[s \ {Max(s)}] \in U
             /\ f[s] = G[<<Max(s), f[s \ {Max(s)}]>>]

\* A loop whose steps stay in a set has an outcome all of whose steps are in the set.
LEMMA LoopHasOutcome ==
  ASSUME NEW U, NEW N \in Nat, NEW b \in U, NEW G \in [(1..N) \X U -> U]
  PROVE  \E f \in [SUBSET (1..N) -> U] : LoopOutcome(f, U, N, b, G)
<1>1. PICK f \in [SUBSET (1..N) -> U] : FoldedBy(f, N, b, G)
  BY FoldHasOutcome
<1>2. \A s \in SUBSET (1..N) : s # {} => Max(s) \in 1..N /\ f[s \ {Max(s)}] \in U
  BY MaxIndex
<1>3. LoopOutcome(f, U, N, b, G)
  BY <1>1, <1>2 DEF FoldedBy, LoopOutcome
<1> QED BY <1>3
=============================================================================
