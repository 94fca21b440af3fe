--------------------------- MODULE SequenceLemmas ---------------------------
(***************************************************************************)
(* Lemmas about natural numbers and sequences that the proofs of several   *)
(* components rest on.                                                     *)
(***************************************************************************)
EXTENDS Naturals, Sequences, SequenceTheorems, WellFoundedInduction, TLAPS

-----------------------------------------------------------------------------
(***************************************************************************)
(* Induction.  Both are stated for sets of numbers: the least number of a  *)
(* set, and a set that has 0 and with every number the next.               *)
(***************************************************************************)

\* A set of natural numbers that is not empty has a least element.
LEMMA Smallest ==
    ASSUME NEW T \in SUBSET Nat, T # {}
    PROVE  \E x \in T : \A y \in T : x <= y
  <1> DEFINE R == OpToRel(<, Nat)
  <1>1. IsWellFoundedOn(R, Nat)
    BY NatLessThanWellFounded
  <1>2. \A x, y \in Nat : x < y => <<x, y>> \in R
    BY DEF OpToRel
  <1> HIDE DEF R
  <1>3. \E x \in T : \A y \in T : ~ (<<y, x>> \in R)
    BY <1>1, WFMin
  <1>4. PICK x \in T : \A y \in T : ~ (<<y, x>> \in R)
    BY <1>3
  <1>5. ASSUME NEW y \in T PROVE x <= y
    <2>1. x \in Nat /\ y \in Nat /\ ~ (y < x)
      BY <1>2, <1>4
    <2> QED BY <2>1
  <1> QED BY <1>5

\* A set that has 0, and with every number the next, has every number.
LEMMA Induction ==
    ASSUME NEW P, 0 \in P, \A n \in Nat : n \in P => n + 1 \in P
    PROVE  Nat \subseteq P
  <1> SUFFICES ASSUME ~(Nat \subseteq P) PROVE FALSE
    OBVIOUS
  <1> DEFINE T == {n \in Nat : n \notin P}
  <1>1. PICK x \in T : \A y \in T : x <= y
    BY Smallest
  <1>2. x # 0 /\ x - 1 \in Nat /\ x - 1 \notin T /\ x - 1 \in P
    BY <1>1
  <1> QED BY <1>1, <1>2

-----------------------------------------------------------------------------
(***************************************************************************)
(* Joining and cutting sequences.                                          *)
(***************************************************************************)

\* What is at each place of u, and where the elements of s and t are.
Joined(u, s, t) ==
    /\ Len(u) = Len(s) + Len(t)
    /\ Len(s) \in Nat /\ Len(t) \in Nat
    /\ \A i \in 1 .. Len(s) : i \in 1 .. Len(u) /\ u[i] = s[i]
    /\ \A i \in 1 .. Len(t) : Len(s) + i \in 1 .. Len(u) /\ u[Len(s) + i] = t[i]
    /\ \A i \in 1 .. Len(u) :
          \/ i \in 1 .. Len(s)
          \/ i - Len(s) \in 1 .. Len(t) /\ u[i] = t[i - Len(s)]

\* The lemma to cite for every \o: it leaves Joined to be expanded where it is needed.
LEMMA JoinFacts ==
    ASSUME NEW S, NEW s \in Seq(S), NEW t \in Seq(S), NEW u, u = s \o t
    PROVE  u \in Seq(S) /\ Joined(u, s, t)
  <1> DEFINE m == Len(s)
             n == Len(t)
  <1>1. /\ u \in Seq(S) /\ Len(u) = m + n
        /\ \A i \in 1 .. m + n : u[i] = IF i <= m THEN s[i] ELSE t[i - m]
    BY ConcatProperties
  <1>2. m \in Nat /\ n \in Nat
    OBVIOUS
  <1> HIDE DEF m, n
  <1>3. \A i \in 1 .. m : i \in 1 .. m + n /\ u[i] = s[i]
    BY <1>1, <1>2
  <1>4. \A i \in 1 .. n : m + i \in 1 .. m + n /\ u[m + i] = t[i]
    <2> SUFFICES ASSUME NEW i \in 1 .. n
                 PROVE  m + i \in 1 .. m + n /\ u[m + i] = t[i]
      OBVIOUS
    <2>1. m + i \in 1 .. m + n /\ ~(m + i <= m) /\ (m + i) - m = i
      BY <1>2
    <2> QED BY <1>1, <2>1
  <1>5. \A i \in 1 .. m + n : \/ i \in 1 .. m
                              \/ i - m \in 1 .. n /\ u[i] = t[i - m]
    BY <1>1, <1>2
  <1> QED BY <1>1, <1>2, <1>3, <1>4, <1>5 DEF m, n, Joined

\* A sequence cut in two.
LEMMA SplitFacts ==
    ASSUME NEW S, NEW s \in Seq(S), NEW k \in 0 .. Len(s)
    PROVE  /\ SubSeq(s, 1, k) \in Seq(S) /\ Len(SubSeq(s, 1, k)) = k
           /\ SubSeq(s, k + 1, Len(s)) \in Seq(S)
           /\ \A i \in 1 .. k : SubSeq(s, 1, k)[i] = s[i]
           /\ s = SubSeq(s, 1, k) \o SubSeq(s, k + 1, Len(s))
           /\ k = Len(s) => SubSeq(s, k + 1, Len(s)) = <<>>
  <1> DEFINE n == Len(s)
             a == SubSeq(s, 1, k)
             b == SubSeq(s, k + 1, n)
  <1>1. n \in Nat /\ k \in Nat /\ k <= n /\ \A i \in 1 .. n : s[i] \in S
    OBVIOUS
  <1>2. /\ a \in Seq(S) /\ Len(a) = k
        /\ \A i \in 1 .. k : a[i] = s[i]
    <2>1. \A i \in 1 .. k : s[i] \in S
      BY <1>1
    <2>2. /\ a \in Seq(S)
          /\ Len(a) = IF 1 <= k THEN k - 1 + 1 ELSE 0
          /\ \A i \in 1 .. k - 1 + 1 : a[i] = s[1 + i - 1]
      BY <1>1, <2>1, SubSeqProperties
    <2> HIDE DEF a, n
    <2> QED BY <1>1, <2>2
  <1>3. /\ b \in Seq(S) /\ Len(b) = n - k
        /\ \A i \in 1 .. n - k : b[i] = s[k + i]
    <2> HIDE DEF n
    <2>1. \A i \in k + 1 .. n : s[i] \in S
      BY <1>1
    <2>2. k + 1 \in Int /\ n \in Int
      BY <1>1
    <2>3. /\ b \in Seq(S)
          /\ Len(b) = IF k + 1 <= n THEN n - (k + 1) + 1 ELSE 0
          /\ \A i \in 1 .. n - (k + 1) + 1 : b[i] = s[(k + 1) + i - 1]
      BY <2>1, <2>2, SubSeqProperties
    <2>4. n - (k + 1) + 1 = n - k /\ \A i \in Int : (k + 1) + i - 1 = k + i
      BY <1>1
    <2> HIDE DEF b
    <2> QED BY <1>1, <2>3, <2>4
  <1>4. s \in Seq(S) /\ Len(s) = n
    OBVIOUS
  <1> HIDE DEF n, a, b
  <1>5. /\ a \o b \in Seq(S) /\ Len(a \o b) = n
        /\ \A i \in 1 .. n : (a \o b)[i] = s[i]
    <2>0. PICK u : u = a \o b
      OBVIOUS
    <2>1. /\ u \in Seq(S) /\ Len(u) = Len(a) + Len(b)
          /\ \A i \in 1 .. Len(a) : u[i] = a[i]
          /\ \A i \in 1 .. Len(b) : u[Len(a) + i] = b[i]
      <3>1. a \in Seq(S) /\ b \in Seq(S)
        BY <1>2, <1>3
      <3>2. u \in Seq(S) /\ Joined(u, a, b)
        BY <3>1, <2>0, JoinFacts
      <3> QED BY <3>2 DEF Joined
    <2>2. ASSUME NEW i \in 1 .. n PROVE u[i] = s[i]
      <3>1. CASE i <= k
        <4>1. i \in 1 .. k
          BY <1>1, <3>1
        <4> QED BY <1>2, <2>1, <4>1
      <3>2. CASE ~(i <= k)
        <4>1. i - k \in 1 .. n - k /\ k + (i - k) = i
          BY <1>1, <3>2
        <4> QED BY <1>2, <1>3, <2>1, <4>1
      <3> QED BY <3>1, <3>2
    <2>3. Len(u) = n
      BY <1>1, <1>2, <1>3, <2>1
    <2> QED BY <2>0, <2>1, <2>2, <2>3
  <1>6. s = a \o b
    BY <1>4, <1>5, SeqEqual
  <1>7. k = n => b = <<>>
    BY <1>1, <1>3
  <1> QED BY <1>2, <1>3, <1>6, <1>7 DEF n, a, b

\* It does not matter which two of three sequences are joined first.
LEMMA JoinAssociative ==
    ASSUME NEW S, NEW s \in Seq(S), NEW t \in Seq(S), NEW u \in Seq(S),
           NEW st \in Seq(S), Joined(st, s, t), NEW tu \in Seq(S), Joined(tu, t, u),
           NEW v \in Seq(S), Joined(v, st, u), NEW w \in Seq(S), Joined(w, s, tu)
    PROVE  v = w
  <1>1. st \in Seq(S) /\ Joined(st, s, t)
    OBVIOUS
  <1>2. tu \in Seq(S) /\ Joined(tu, t, u)
    OBVIOUS
  <1>4. v \in Seq(S) /\ Joined(v, st, u)
    OBVIOUS
  <1>6. w \in Seq(S) /\ Joined(w, s, tu)
    OBVIOUS
  <1>7. Len(v) = Len(w)
    BY <1>1, <1>2, <1>4, <1>6 DEF Joined
  <1>8. ASSUME NEW i \in 1 .. Len(w) PROVE v[i] = w[i]
    <2>1. CASE i \in 1 .. Len(s)
      BY <1>1, <1>4, <1>6, <2>1 DEF Joined
    <2>2. CASE i - Len(s) \in 1 .. Len(t)
      <3>1. w[i] = t[i - Len(s)]
        <4>1. i - Len(s) \in 1 .. Len(tu) /\ Len(s) + (i - Len(s)) = i
          BY <1>1, <1>2, <2>2 DEF Joined
        <4> QED BY <1>2, <1>6, <2>2, <4>1 DEF Joined
      <3>2. i \in 1 .. Len(st) /\ Len(s) + (i - Len(s)) = i
        BY <1>1, <2>2 DEF Joined
      <3>3. st[i] = t[i - Len(s)]
        BY <1>1, <2>2, <3>2 DEF Joined
      <3> QED BY <1>4, <3>1, <3>2, <3>3 DEF Joined
    <2>3. CASE i - Len(st) \in 1 .. Len(u)
      <3> DEFINE k == i - Len(st)
      <3>1. /\ Len(st) + k = i /\ Len(t) + k = i - Len(s) /\ Len(s) + (i - Len(s)) = i
            /\ i - Len(s) \in 1 .. Len(tu)
        BY <1>1, <1>2, <2>3 DEF Joined
      <3>2. v[i] = u[k]
        BY <1>4, <2>3, <3>1 DEF Joined
      <3>3. w[i] = tu[i - Len(s)] /\ tu[i - Len(s)] = u[k]
        <4>1. w[i] = tu[i - Len(s)]
          BY <1>6, <3>1 DEF Joined
        <4>2. tu[i - Len(s)] = u[k]
          BY <1>2, <2>3, <3>1 DEF Joined
        <4> QED BY <4>1, <4>2
      <3> QED BY <3>2, <3>3
    <2>4. i \in 1 .. Len(s) \/ i - Len(s) \in 1 .. Len(t) \/ i - Len(st) \in 1 .. Len(u)
      BY <1>1, <1>2, <1>6 DEF Joined
    <2> QED BY <2>1, <2>2, <2>3, <2>4
  <1> QED BY <1>4, <1>6, <1>7, <1>8, SeqEqual

-----------------------------------------------------------------------------
(***************************************************************************)
(* Joining as algebra.  The provers look into \o; they do not look into    *)
(* Cat, so that equations between joins stay equations.                    *)
(***************************************************************************)

Cat(s, t) == s \o t

\* Cat is associative, and has the empty sequence as its unit.
LEMMA CatFacts ==
    ASSUME NEW S
    PROVE  /\ <<>> \in Seq(S)
           /\ \A s, t \in Seq(S) : Cat(s, t) \in Seq(S)
           /\ \A s, t, u \in Seq(S) : Cat(Cat(s, t), u) = Cat(s, Cat(t, u))
           /\ \A s \in Seq(S) : Cat(s, <<>>) = s /\ Cat(<<>>, s) = s
  <1>1. ASSUME NEW s \in Seq(S), NEW t \in Seq(S) PROVE Cat(s, t) \in Seq(S)
    BY ConcatProperties DEF Cat
  <1>2. ASSUME NEW s \in Seq(S), NEW t \in Seq(S), NEW u \in Seq(S)
        PROVE  Cat(Cat(s, t), u) = Cat(s, Cat(t, u))
    <2>1. (s \o t) \o u = s \o (t \o u)
      BY ConcatAssociative
    <2> QED BY <2>1, Zenon DEF Cat
  <1>3. ASSUME NEW s \in Seq(S) PROVE Cat(s, <<>>) = s /\ Cat(<<>>, s) = s
    BY ConcatEmptySeq, Zenon DEF Cat
  <1> QED BY <1>1, <1>2, <1>3

\* Where the elements of a join are.
LEMMA CatPlaces ==
    ASSUME NEW S, NEW s \in Seq(S), NEW t \in Seq(S)
    PROVE  Joined(Cat(s, t), s, t)
  BY JoinFacts, Zenon DEF Cat

\* Joining with what has one element more.
LEMMA CatAppend ==
    ASSUME NEW S, NEW s \in Seq(S), NEW t \in Seq(S), NEW x \in S
    PROVE  Cat(s, Append(t, x)) = Append(Cat(s, t), x)
  <1>1. Append(t, x) \in Seq(S) /\ <<x>> \in Seq(S)
    OBVIOUS
  <1>2. \A r \in Seq(S) : Append(r, x) = Cat(r, <<x>>)
    BY AppendIsConcat, Zenon DEF Cat
  <1>3. Cat(s, t) \in Seq(S)
    BY CatFacts
  <1>4. PICK a, b : a = Append(t, x) /\ b = <<x>>
    OBVIOUS
  <1>5. a = Cat(t, b) /\ a \in Seq(S) /\ b \in Seq(S)
    BY <1>1, <1>2, <1>4
  <1>6. Cat(s, a) = Cat(Cat(s, t), b)
    BY <1>5, CatFacts
  <1>7. Cat(s, Append(t, x)) = Cat(Cat(s, t), <<x>>)
    BY <1>4, <1>6
  <1> QED BY <1>1, <1>2, <1>3, <1>7

\* A sequence is what is cut off it and what is left.
LEMMA CatSplit ==
    ASSUME NEW S, NEW s \in Seq(S), NEW k \in 0 .. Len(s)
    PROVE  /\ SubSeq(s, 1, k) \in Seq(S) /\ Len(SubSeq(s, 1, k)) = k
           /\ SubSeq(s, k + 1, Len(s)) \in Seq(S)
           /\ s = Cat(SubSeq(s, 1, k), SubSeq(s, k + 1, Len(s)))
  BY SplitFacts, Zenon DEF Cat

\* The two parts of a join are what one cuts off it.
LEMMA CatCut ==
    ASSUME NEW S, NEW s \in Seq(S), NEW t \in Seq(S), NEW u, u = Cat(s, t)
    PROVE  /\ SubSeq(u, 1, Len(s)) = s
           /\ SubSeq(u, Len(s) + 1, Len(u)) = t
           /\ Len(u) = Len(s) + Len(t) /\ Len(s) \in Nat /\ Len(t) \in Nat
  <1>1. u \in Seq(S) /\ Joined(u, s, t)
    BY CatFacts, CatPlaces
  <1>2. Len(u) = Len(s) + Len(t) /\ Len(s) \in Nat /\ Len(t) \in Nat
    BY <1>1 DEF Joined
  <1>3. Len(s) \in 0 .. Len(u)
    BY <1>2
  <1>4. PICK a, b : a = SubSeq(u, 1, Len(s)) /\ b = SubSeq(u, Len(s) + 1, Len(u))
    OBVIOUS
  <1>5. a \in Seq(S) /\ Len(a) = Len(s) /\ b \in Seq(S) /\ u = Cat(a, b)
        /\ \A i \in 1 .. Len(s) : a[i] = u[i]
    BY <1>1, <1>3, <1>4, CatSplit, SplitFacts
  <1>6. Joined(u, a, b)
    BY <1>5, CatPlaces
  <1>7. Len(a) = Len(s) /\ \A i \in 1 .. Len(a) : a[i] = s[i]
    BY <1>1, <1>5 DEF Joined
  <1>8. a = s
    BY <1>5, <1>7, SeqEqual
  <1>9. Len(b) = Len(t)
    BY <1>1, <1>2, <1>5, <1>6 DEF Joined
  <1>10. \A i \in 1 .. Len(b) : b[i] = t[i]
    BY <1>1, <1>5, <1>6, <1>9 DEF Joined
  <1>11. b = t
    BY <1>5, <1>9, <1>10, SeqEqual
  <1> QED BY <1>2, <1>4, <1>8, <1>11

\* The first part of a join is cut from it.
LEMMA CatFirst ==
    ASSUME NEW S, NEW s \in Seq(S), NEW t \in Seq(S)
    PROVE  SubSeq(Cat(s, t), 1, Len(s)) = s
  <1>1. PICK u : u = Cat(s, t)
    OBVIOUS
  <1>2. SubSeq(u, 1, Len(s)) = s
    BY <1>1, CatCut
  <1> QED BY <1>1, <1>2

\* So is the second part.
LEMMA CatSecond ==
    ASSUME NEW S, NEW s \in Seq(S), NEW t \in Seq(S)
    PROVE  SubSeq(Cat(s, t), Len(s) + 1, Len(Cat(s, t))) = t
  <1>1. PICK u : u = Cat(s, t)
    OBVIOUS
  <1>2. SubSeq(u, Len(s) + 1, Len(u)) = t
    BY <1>1, CatCut
  <1> QED BY <1>1, <1>2

\* If two joins are equal and their first parts equally long, their parts are equal.
LEMMA CatCancel ==
    ASSUME NEW S, NEW s \in Seq(S), NEW t \in Seq(S), NEW u \in Seq(S), NEW v \in Seq(S),
           Cat(s, t) = Cat(u, v), Len(s) = Len(u)
    PROVE  s = u /\ t = v
  <1>1. PICK w : w = Cat(s, t)
    OBVIOUS
  <1>2. Joined(w, s, t) /\ Joined(w, u, v)
    BY <1>1, CatPlaces
  <1>3. Len(s) = Len(u) /\ Len(t) = Len(v)
    BY <1>2 DEF Joined
  <1>4. \A i \in 1 .. Len(s) : s[i] = u[i]
    BY <1>2, <1>3 DEF Joined
  <1>5. \A i \in 1 .. Len(t) : t[i] = v[i]
    BY <1>2, <1>3 DEF Joined
  <1> QED BY <1>3, <1>4, <1>5, SeqEqual

\* Of two sequences that begin the same whole the shorter begins the longer.
LEMMA CatOverlap ==
    ASSUME NEW S, NEW s \in Seq(S), NEW t \in Seq(S), NEW u \in Seq(S), NEW v \in Seq(S),
           Cat(s, t) = Cat(u, v), Len(u) <= Len(s)
    PROVE  \E r \in Seq(S) : s = Cat(u, r) /\ v = Cat(r, t)
  <1>1. Len(s) \in Nat /\ Len(u) \in Nat
    BY CatCut
  <1>2. Len(u) \in 0 .. Len(s)
    BY <1>1
  <1>3. PICK a, r : a = SubSeq(s, 1, Len(u)) /\ r = SubSeq(s, Len(u) + 1, Len(s))
    OBVIOUS
  <1>4. a \in Seq(S) /\ Len(a) = Len(u) /\ r \in Seq(S) /\ s = Cat(a, r)
    BY <1>2, <1>3, CatSplit
  <1>5. Cat(a, Cat(r, t)) = Cat(u, v) /\ Cat(r, t) \in Seq(S)
    BY <1>4, CatFacts
  <1>6. a = u /\ Cat(r, t) = v
    BY <1>4, <1>5, CatCancel
  <1> QED BY <1>4, <1>6
=============================================================================
