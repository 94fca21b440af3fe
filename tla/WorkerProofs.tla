---------------------------- MODULE WorkerProofs ----------------------------
(***************************************************************************)
(* Theorems about Worker, for all sets of connections, jobs and tasks and  *)
(* all values of the bounds: what is in the queues, who holds the job      *)
(* lock, and what a server and this worker believe of each other.          *)
(***************************************************************************)
EXTENDS Worker, SequenceTheorems, TLAPS

-----------------------------------------------------------------------------
(***************************************************************************)
(* Queues, and the commands in them.                                       *)
(***************************************************************************)

\* The places in q of the commands whose cmd is in K.
At(q, K) == {i \in 1 .. Len(q) : q[i].cmd \in K}

AtMostOne(S) == \A i, j \in S : i = j

\* A command of q whose cmd is in K is about job j.
Has(q, K, j) == \E i \in 1 .. Len(q) : q[i].cmd \in K /\ q[i].job = j

\* The last CAN_DO of q announces A.
LastCanDo(q, A) ==
    \E i \in At(q, {"CAN_DO"}) :
        /\ \A k \in At(q, {"CAN_DO"}) : k <= i
        /\ q[i].tasks = A

\* Appending keeps what is queued and puts the new element last.
LEMMA AppendFacts ==
    ASSUME NEW S, NEW q \in Seq(S), NEW e \in S
    PROVE  /\ Append(q, e) \in Seq(S)
           /\ Len(q) \in Nat
           /\ Len(Append(q, e)) = Len(q) + 1
           /\ \A i \in 1 .. Len(q) : Append(q, e)[i] = q[i]
           /\ Append(q, e)[Len(q) + 1] = e
    OBVIOUS

\* Taking the head moves every other element one place forward.
LEMMA TailFacts ==
    ASSUME NEW S, NEW q \in Seq(S), q # <<>>
    PROVE  /\ Tail(q) \in Seq(S)
           /\ Len(q) \in Nat \ {0}
           /\ Head(q) \in S
           /\ Head(q) = q[1]
           /\ Len(Tail(q)) = Len(q) - 1
           /\ \A i \in 1 .. Len(q) - 1 : Tail(q)[i] = q[i + 1]
    OBVIOUS

LEMMA AtEmpty == ASSUME NEW K PROVE At(<<>>, K) = {}
    BY DEF At

\* What Append and Tail do to the places of some commands.
LEMMA AtAppend ==
    ASSUME NEW S, NEW q \in Seq(S), NEW e \in S, NEW K
    PROVE  /\ e.cmd \notin K => At(Append(q, e), K) = At(q, K)
           /\ e.cmd \in K => At(Append(q, e), K) = At(q, K) \cup {Len(q) + 1}
  <1> DEFINE a == Append(q, e)
  <1>1. /\ Len(q) \in Nat /\ Len(a) = Len(q) + 1
        /\ \A i \in 1 .. Len(q) : a[i] = q[i]
        /\ a[Len(q) + 1] = e
    BY AppendFacts
  <1> HIDE DEF a
  <1>2. 1 .. Len(a) = (1 .. Len(q)) \cup {Len(q) + 1}
    BY <1>1
  <1>3. At(a, K) = At(q, K) \cup {i \in {Len(q) + 1} : e.cmd \in K}
    BY <1>1, <1>2 DEF At
  <1> QED BY <1>3 DEF a

LEMMA AtTail ==
    ASSUME NEW S, NEW q \in Seq(S), q # <<>>, NEW K
    PROVE  /\ \A i \in At(Tail(q), K) : i + 1 \in At(q, K) /\ Tail(q)[i] = q[i + 1]
           /\ \A i \in At(q, K) : i # 1 => i - 1 \in At(Tail(q), K) /\ Tail(q)[i - 1] = q[i]
           /\ 1 \in At(q, K) <=> Head(q).cmd \in K
           /\ At(q, K) \subseteq Nat \ {0} /\ At(Tail(q), K) \subseteq Nat
  <1> DEFINE t == Tail(q)
  <1>1. /\ Len(q) \in Nat \ {0} /\ Len(t) = Len(q) - 1 /\ Head(q) = q[1]
        /\ \A i \in 1 .. Len(q) - 1 : t[i] = q[i + 1]
    BY TailFacts
  <1> HIDE DEF t
  <1>2. \A i \in At(t, K) : i + 1 \in At(q, K) /\ t[i] = q[i + 1]
    BY <1>1 DEF At
  <1>3. \A i \in At(q, K) : i # 1 => i - 1 \in At(t, K) /\ t[i - 1] = q[i]
    <2> SUFFICES ASSUME NEW i \in At(q, K), i # 1
                 PROVE  i - 1 \in At(t, K) /\ t[i - 1] = q[i]
      OBVIOUS
    <2>1. i \in 1 .. Len(q) /\ q[i].cmd \in K
      BY DEF At
    <2>2. i - 1 \in 1 .. Len(q) - 1 /\ (i - 1) + 1 = i
      BY <2>1, <1>1
    <2>3. t[i - 1] = q[i]
      BY <1>1, <2>2
    <2> QED BY <1>1, <2>1, <2>2, <2>3 DEF At
  <1>4. (1 \in At(q, K) <=> Head(q).cmd \in K)
        /\ At(q, K) \subseteq Nat \ {0} /\ At(t, K) \subseteq Nat
    BY <1>1 DEF At
  <1> QED BY <1>2, <1>3, <1>4 DEF t

\* A head that is not one of K leaves them there, a head that is the only one does not.
LEMMA TailKeeps ==
    ASSUME NEW S, NEW q \in Seq(S), q # <<>>, NEW K
    PROVE  /\ At(q, K) = {} => At(Tail(q), K) = {}
           /\ AtMostOne(At(q, K)) => AtMostOne(At(Tail(q), K))
           /\ Head(q).cmd \notin K /\ At(q, K) # {} => At(Tail(q), K) # {}
           /\ Head(q).cmd \in K => At(q, K) # {}
           /\ Head(q).cmd \in K /\ AtMostOne(At(q, K)) => At(Tail(q), K) = {}
  <1>1. At(q, K) = {} => At(Tail(q), K) = {}
    BY AtTail
  <1>2. AtMostOne(At(q, K)) => AtMostOne(At(Tail(q), K))
    <2> SUFFICES ASSUME AtMostOne(At(q, K)), NEW i \in At(Tail(q), K), NEW j \in At(Tail(q), K)
                 PROVE  i = j
      BY DEF AtMostOne
    <2>1. i + 1 \in At(q, K) /\ j + 1 \in At(q, K) /\ i \in Nat /\ j \in Nat
      BY AtTail
    <2>2. i + 1 = j + 1
      BY <2>1 DEF AtMostOne
    <2> QED BY <2>1, <2>2
  <1>3. Head(q).cmd \notin K /\ At(q, K) # {} => At(Tail(q), K) # {}
    BY AtTail
  <1>4. Head(q).cmd \in K => 1 \in At(q, K)
    BY AtTail
  <1>5. Head(q).cmd \in K /\ AtMostOne(At(q, K)) => At(Tail(q), K) = {}
    <2> SUFFICES ASSUME Head(q).cmd \in K, AtMostOne(At(q, K)), NEW i \in At(Tail(q), K)
                 PROVE  FALSE
      OBVIOUS
    <2>1. i + 1 \in At(q, K) /\ i \in Nat
      BY AtTail
    <2>2. At(Tail(q), K) \subseteq 1 .. Len(Tail(q))
      BY DEF At
    <2>3. Len(Tail(q)) \in Nat
      BY TailFacts, LenProperties
    <2>4. i # 0
      BY <2>2, <2>3
    <2>5. i + 1 = 1
      BY <1>4, <2>1 DEF AtMostOne
    <2> QED BY <2>1, <2>4, <2>5
  <1> QED BY <1>1, <1>2, <1>3, <1>4, <1>5

LEMMA HasAppend ==
    ASSUME NEW S, NEW q \in Seq(S), NEW e \in S, NEW K, NEW j
    PROVE  /\ Has(q, K, j) => Has(Append(q, e), K, j)
           /\ e.cmd \in K /\ e.job = j => Has(Append(q, e), K, j)
  <1> DEFINE a == Append(q, e)
  <1>1. /\ Len(q) \in Nat /\ Len(a) = Len(q) + 1
        /\ \A i \in 1 .. Len(q) : a[i] = q[i]
        /\ a[Len(q) + 1] = e
    BY AppendFacts
  <1> HIDE DEF a
  <1>2. 1 .. Len(a) = (1 .. Len(q)) \cup {Len(q) + 1}
    BY <1>1
  <1>3. Has(q, K, j) => Has(a, K, j)
    BY <1>1, <1>2 DEF Has
  <1>4. e.cmd \in K /\ e.job = j => Has(a, K, j)
    BY <1>1, <1>2 DEF Has
  <1> QED BY <1>3, <1>4 DEF a

LEMMA HasTail ==
    ASSUME NEW S, NEW q \in Seq(S), q # <<>>, NEW K, NEW j
    PROVE  Has(q, K, j) => Has(Tail(q), K, j) \/ (Head(q).cmd \in K /\ Head(q).job = j)
  <1> DEFINE t == Tail(q)
  <1>1. /\ Len(q) \in Nat \ {0} /\ Len(t) = Len(q) - 1 /\ Head(q) = q[1]
        /\ \A i \in 1 .. Len(q) - 1 : t[i] = q[i + 1]
    BY TailFacts
  <1> HIDE DEF t
  <1> SUFFICES ASSUME NEW i \in 1 .. Len(q), q[i].cmd \in K, q[i].job = j, i # 1
               PROVE  Has(t, K, j)
    BY <1>1 DEF Has, t
  <1>2. i - 1 \in 1 .. Len(t) /\ i - 1 \in 1 .. Len(q) - 1 /\ (i - 1) + 1 = i
    BY <1>1
  <1>3. t[i - 1] = q[i]
    BY <1>1, <1>2
  <1> QED BY <1>2, <1>3 DEF Has

LEMMA LastAppend ==
    ASSUME NEW S, NEW q \in Seq(S), NEW e \in S, NEW A
    PROVE  /\ e.cmd # "CAN_DO" /\ LastCanDo(q, A) => LastCanDo(Append(q, e), A)
           /\ e.cmd = "CAN_DO" /\ e.tasks = A => LastCanDo(Append(q, e), A)
  <1> DEFINE a == Append(q, e)
             K == {"CAN_DO"}
  <1>1. /\ Len(q) \in Nat /\ Len(a) = Len(q) + 1
        /\ \A i \in 1 .. Len(q) : a[i] = q[i]
        /\ a[Len(q) + 1] = e
    BY AppendFacts
  <1>2. /\ e.cmd \notin K => At(a, K) = At(q, K)
        /\ e.cmd \in K => At(a, K) = At(q, K) \cup {Len(q) + 1}
    BY AtAppend
  <1>3. At(q, K) \subseteq 1 .. Len(q)
    BY DEF At
  <1> HIDE DEF a
  <1>4. e.cmd # "CAN_DO" /\ LastCanDo(q, A) => LastCanDo(a, A)
    BY <1>1, <1>2, <1>3 DEF LastCanDo
  <1>5. e.cmd = "CAN_DO" /\ e.tasks = A => LastCanDo(a, A)
    <2> SUFFICES ASSUME e.cmd = "CAN_DO", e.tasks = A
                 PROVE  LastCanDo(a, A)
      OBVIOUS
    <2>1. \A k \in At(a, K) : k <= Len(q) + 1
      BY <1>1, <1>2, <1>3
    <2> QED BY <1>1, <1>2, <2>1 DEF LastCanDo
  <1> QED BY <1>4, <1>5 DEF a

\* Once the last announcement is taken there is none.
LEMMA LastTail ==
    ASSUME NEW S, NEW q \in Seq(S), q # <<>>, NEW A, LastCanDo(q, A)
    PROVE  \/ LastCanDo(Tail(q), A)
           \/ /\ At(Tail(q), {"CAN_DO"}) = {}
              /\ Head(q).cmd = "CAN_DO" /\ Head(q).tasks = A
  <1> DEFINE t == Tail(q)
             K == {"CAN_DO"}
  <1>1. /\ \A i \in At(t, K) : i + 1 \in At(q, K) /\ t[i] = q[i + 1]
        /\ \A i \in At(q, K) : i # 1 => i - 1 \in At(t, K) /\ t[i - 1] = q[i]
        /\ 1 \in At(q, K) <=> Head(q).cmd \in K
        /\ At(q, K) \subseteq Nat \ {0} /\ At(t, K) \subseteq Nat
    BY AtTail
  <1>2. Head(q) = q[1] /\ At(t, K) \subseteq 1 .. Len(t) /\ Len(t) \in Nat
    BY TailFacts, LenProperties DEF At
  <1> HIDE DEF t
  <1>3. PICK i \in At(q, K) : (\A k \in At(q, K) : k <= i) /\ q[i].tasks = A
    BY DEF LastCanDo
  <1>4. CASE i = 1
    <2>1. At(t, K) = {}
      <3> SUFFICES ASSUME NEW k \in At(t, K) PROVE FALSE
        OBVIOUS
      <3>1. k + 1 <= i /\ k \in 1 .. Len(t)
        BY <1>1, <1>2, <1>3
      <3> QED BY <1>2, <1>4, <3>1
    <2> QED BY <1>1, <1>2, <1>3, <1>4, <2>1 DEF t
  <1>5. CASE i # 1
    <2>1. i - 1 \in At(t, K) /\ t[i - 1].tasks = A
      BY <1>1, <1>3, <1>5
    <2>2. \A k \in At(t, K) : k <= i - 1
      <3> SUFFICES ASSUME NEW k \in At(t, K) PROVE k <= i - 1
        OBVIOUS
      <3>1. k + 1 <= i /\ k \in Nat /\ i \in Nat
        BY <1>1, <1>3
      <3> QED BY <3>1
    <2> QED BY <2>1, <2>2 DEF LastCanDo, t
  <1> QED BY <1>4, <1>5

-----------------------------------------------------------------------------
(***************************************************************************)
(* What is said: a queue of written commands before one of unwritten ones. *)
(***************************************************************************)

LEMMA ConcatFacts ==
    ASSUME NEW S, NEW w \in Seq(S), NEW q \in Seq(S)
    PROVE  /\ w \o q \in Seq(S)
           /\ Len(w) \in Nat /\ Len(q) \in Nat
           /\ Len(w \o q) = Len(w) + Len(q)
           /\ \A i \in 1 .. Len(w) : (w \o q)[i] = w[i]
           /\ \A i \in 1 .. Len(q) : (w \o q)[Len(w) + i] = q[i]
  <1> DEFINE s == w \o q
  <1>1. /\ s \in Seq(S)
        /\ Len(s) = Len(w) + Len(q)
        /\ \A i \in 1 .. Len(w) + Len(q) : s[i] = IF i <= Len(w) THEN w[i] ELSE q[i - Len(w)]
    BY ConcatProperties
  <1>2. Len(w) \in Nat /\ Len(q) \in Nat
    BY LenProperties
  <1> HIDE DEF s
  <1>3. \A i \in 1 .. Len(w) : s[i] = w[i]
    BY <1>1, <1>2
  <1>4. \A i \in 1 .. Len(q) : s[Len(w) + i] = q[i]
    <2> SUFFICES ASSUME NEW i \in 1 .. Len(q) PROVE s[Len(w) + i] = q[i]
      OBVIOUS
    <2>1. Len(w) + i \in 1 .. Len(w) + Len(q) /\ ~(Len(w) + i <= Len(w))
          /\ (Len(w) + i) - Len(w) = i
      BY <1>2
    <2> QED BY <1>1, <2>1
  <1> QED BY <1>1, <1>2, <1>3, <1>4 DEF s

LEMMA Regroup ==
    ASSUME NEW S, NEW w \in Seq(S), NEW q \in Seq(S), NEW r \in Seq(S)
    PROVE  (w \o q) \o r = w \o (q \o r)
    OBVIOUS

LEMMA ConcatAppend ==
    \A S : \A w, q \in Seq(S), e \in S : w \o Append(q, e) = Append(w \o q, e)
  <1> TAKE S
  <1> TAKE w, q \in Seq(S), e \in S
  <1>1. <<e>> \in Seq(S)
    OBVIOUS
  <1>2. w \o q \in Seq(S)
    BY ConcatFacts
  <1>3. Append(q, e) = q \o <<e>> /\ Append(w \o q, e) = (w \o q) \o <<e>>
    BY <1>2, AppendIsConcat
  <1>4. (w \o q) \o <<e>> = w \o (q \o <<e>>)
    BY <1>1, ConcatAssociative
  <1> QED BY <1>3, <1>4

\* Reading the head of what is written.
LEMMA ConcatTail ==
    ASSUME NEW S, NEW w \in Seq(S), NEW q \in Seq(S), w # <<>>
    PROVE  /\ w \o q # <<>>
           /\ Head(w \o q) = Head(w)
           /\ Tail(w \o q) = Tail(w) \o q
  <1> DEFINE s == w \o q
             r == Tail(w) \o q
  <1>1. /\ s \in Seq(S) /\ Len(w) \in Nat \ {0} /\ Len(q) \in Nat
        /\ Len(s) = Len(w) + Len(q)
        /\ \A i \in 1 .. Len(w) : s[i] = w[i]
        /\ \A i \in 1 .. Len(q) : s[Len(w) + i] = q[i]
    BY ConcatFacts, TailFacts
  <1>2. /\ Tail(w) \in Seq(S) /\ Len(Tail(w)) = Len(w) - 1 /\ Head(w) = w[1]
        /\ \A i \in 1 .. Len(w) - 1 : Tail(w)[i] = w[i + 1]
    BY TailFacts
  <1>3. /\ r \in Seq(S)
        /\ Len(r) = Len(Tail(w)) + Len(q)
        /\ \A i \in 1 .. Len(Tail(w)) : r[i] = Tail(w)[i]
        /\ \A i \in 1 .. Len(q) : r[Len(Tail(w)) + i] = q[i]
    BY <1>2, ConcatFacts
  <1>4. s # <<>>
    <2>1. Len(s) # 0
      BY <1>1
    <2> QED BY <2>1, EmptySeq
  <1>5. /\ Tail(s) \in Seq(S) /\ Len(Tail(s)) = Len(s) - 1 /\ Head(s) = s[1]
        /\ \A i \in 1 .. Len(s) - 1 : Tail(s)[i] = s[i + 1]
    BY <1>1, <1>4, TailFacts
  <1>6. Head(s) = Head(w)
    BY <1>1, <1>2, <1>5
  <1> DEFINE ts == Tail(s)
             tw == Tail(w)
  <1> HIDE DEF r, s, ts, tw
  <1>7. \A i \in 1 .. Len(ts) : ts[i] = r[i]
    <2> SUFFICES ASSUME NEW i \in 1 .. Len(ts) PROVE ts[i] = r[i]
      OBVIOUS
    <2>1. Len(ts) = Len(s) - 1 /\ Len(tw) = Len(w) - 1
      BY <1>2, <1>5 DEF ts, tw
    <2>2. i \in 1 .. Len(s) - 1 /\ i \in Nat
      BY <2>1, <1>1
    <2>3. ts[i] = s[i + 1]
      BY <1>5, <2>2 DEF ts
    <2>4. CASE i <= Len(w) - 1
      <3>1. i \in 1 .. Len(w) - 1 /\ i + 1 \in 1 .. Len(w)
        BY <2>2, <2>4, <1>1
      <3>2. s[i + 1] = w[i + 1] /\ tw[i] = w[i + 1]
        BY <3>1, <1>1, <1>2 DEF tw
      <3>3. r[i] = tw[i]
        BY <3>1, <1>3, <2>1 DEF tw
      <3> QED BY <2>3, <3>2, <3>3
    <2>5. CASE ~(i <= Len(w) - 1)
      <3> DEFINE k == i - (Len(w) - 1)
      <3>1. k \in 1 .. Len(q) /\ Len(w) + k = i + 1 /\ Len(tw) + k = i
        BY <2>1, <2>2, <2>5, <1>1
      <3> HIDE DEF k
      <3>2. s[Len(w) + k] = q[k] /\ r[Len(tw) + k] = q[k]
        BY <3>1, <1>1, <1>3 DEF tw
      <3> QED BY <2>3, <3>1, <3>2
    <2> QED BY <2>4, <2>5
  <1>8. Len(ts) = Len(r)
    BY <1>1, <1>2, <1>3, <1>5 DEF ts
  <1>9. ts = r
    BY <1>3, <1>5, <1>7, <1>8, SeqEqual DEF ts
  <1> QED BY <1>4, <1>6, <1>9 DEF s, r, ts

\* Writing moves commands from one queue to the other and changes nothing said.
Glued(w, q) == w \o q
Firsts(q, n) == SubSeq(q, 1, n)
Rest(q, n) == SubSeq(q, n + 1, Len(q))

LEMMA ConcatWrite ==
    ASSUME NEW S, NEW w \in Seq(S), NEW q \in Seq(S), NEW n \in 1 .. Len(q)
    PROVE  /\ Firsts(q, n) \in Seq(S) /\ Rest(q, n) \in Seq(S)
           /\ Glued(w, Firsts(q, n)) \in Seq(S)
           /\ Glued(Glued(w, Firsts(q, n)), Rest(q, n)) = Glued(w, q)
           /\ \A i \in 1 .. Len(Rest(q, n)) :
                 \E k \in 1 .. Len(q) : Rest(q, n)[i] = q[k]
  <1> DEFINE L == Len(q)
             a == SubSeq(q, 1, n)
             b == SubSeq(q, n + 1, L)
  <1>1. L \in Nat /\ n \in Int /\ n + 1 \in Int /\ n \in Nat /\ 1 <= n /\ n <= L
    BY LenProperties
  <1>2. \A i \in 1 .. L : q[i] \in S
    BY ElementOfSeq
  <1> HIDE DEF L
  <1>3. \A i \in 1 .. n : q[i] \in S
    BY <1>1, <1>2
  <1>4. \A i \in n + 1 .. L : q[i] \in S
    BY <1>1, <1>2
  <1>13. \A m, l \in Int : (\A i \in m .. l : q[i] \in S) =>
              /\ SubSeq(q, m, l) \in Seq(S)
              /\ Len(SubSeq(q, m, l)) = IF m <= l THEN l - m + 1 ELSE 0
              /\ \A i \in 1 .. l - m + 1 : SubSeq(q, m, l)[i] = q[m + i - 1]
    BY SubSeqProperties
  <1>5. a \in Seq(S)
    BY <1>1, <1>3, SubSeqProperties
  <1>6. /\ b \in Seq(S)
        /\ Len(b) = IF n + 1 <= L THEN L - (n + 1) + 1 ELSE 0
        /\ \A i \in 1 .. L - (n + 1) + 1 : b[i] = q[(n + 1) + i - 1]
    BY <1>1, <1>4, <1>13
  <1>7. 1 \in 1 .. L + 1 /\ n \in 1 - 1 .. L /\ L \in n .. L
    BY <1>1
  <1>8. a \o b = SubSeq(q, 1, L)
    BY <1>7, ConcatAdjacentSubSeq DEF L
  <1>9. a \o b = q
    BY <1>8, SubSeqFull DEF L
  <1>10. (w \o a) \o b = w \o (a \o b)
    <2>1. b \in Seq(S)
      BY <1>6
    <2> HIDE DEF a, b
    <2> QED BY <1>5, <2>1, Regroup, SMTT(60)
  <1>11. w \o a \in Seq(S)
    BY <1>5, ConcatFacts
  <1>12. \A i \in 1 .. Len(b) : \E k \in 1 .. L : b[i] = q[k]
    <2> SUFFICES ASSUME NEW i \in 1 .. Len(b) PROVE \E k \in 1 .. L : b[i] = q[k]
      OBVIOUS
    <2> HIDE DEF b
    <2>1. i \in 1 .. L - (n + 1) + 1 /\ (n + 1) + i - 1 \in 1 .. L
      BY <1>1, <1>6
    <2>2. b[i] = q[(n + 1) + i - 1]
      BY <1>6, <2>1
    <2> QED BY <2>1, <2>2
  <1>14. /\ Firsts(q, n) = a /\ Rest(q, n) = b /\ Glued(w, q) = w \o q
         /\ Glued(w, a) = w \o a /\ Glued(w \o a, b) = (w \o a) \o b
    BY DEF Firsts, Rest, Glued, L
  <1>15. b \in Seq(S)
    BY <1>6
  <1>16. (w \o a) \o b = w \o q
    <2> HIDE DEF a, b
    <2> QED BY <1>9, <1>10
  <1> HIDE DEF a, b
  <1> QED BY <1>5, <1>11, <1>12, <1>14, <1>15, <1>16 DEF L

\* Saying the same thing several times.
Repeat(n, e) == [i \in 1 .. n |-> e]

LEMMA RepeatFacts ==
    ASSUME NEW S, NEW n \in Nat, NEW e \in S
    PROVE  /\ Repeat(n, e) \in Seq(S)
           /\ Len(Repeat(n, e)) = n
           /\ \A i \in 1 .. n : Repeat(n, e)[i] = e
  <1>1. Repeat(n, e) \in [1 .. n -> S]
    BY DEF Repeat
  <1>2. Repeat(n, e) \in Seq(S)
    BY <1>1, SeqDef
  <1>3. Len(Repeat(n, e)) \in Nat /\ 1 .. Len(Repeat(n, e)) = 1 .. n
    BY <1>1, <1>2, LenProperties
  <1>4. \A k \in Nat : 1 .. k = 1 .. n => k = n
    <2> SUFFICES ASSUME NEW k \in Nat, 1 .. k = 1 .. n PROVE k = n
      OBVIOUS
    <2>1. (k > 0 => k \in 1 .. k) /\ (n > 0 => n \in 1 .. n)
      OBVIOUS
    <2>2. (k > 0 => k \in 1 .. n) /\ (n > 0 => n \in 1 .. k)
      BY <2>1
    <2> QED BY <2>2
  <1>5. Len(Repeat(n, e)) = n
    BY <1>3, <1>4
  <1> QED BY <1>2, <1>5 DEF Repeat

\* A queue followed by one that repeats e.
LEMMA AtConcat ==
    ASSUME NEW S, NEW q \in Seq(S), NEW e \in S, NEW K, NEW j,
           NEW r \in Seq(S), \A i \in 1 .. Len(r) : r[i] = e
    PROVE  /\ e.cmd \notin K => At(Glued(q, r), K) = At(q, K)
           /\ Has(q, K, j) => Has(Glued(q, r), K, j)
           /\ Len(r) # 0 /\ e.cmd = "CAN_DO" => LastCanDo(Glued(q, r), e.tasks)
  <1> DEFINE s == Glued(q, r)
             n == Len(r)
  <1>2. /\ s \in Seq(S)
        /\ Len(q) \in Nat /\ n \in Nat
        /\ Len(s) = Len(q) + n
        /\ \A i \in 1 .. Len(q) : s[i] = q[i]
        /\ \A i \in 1 .. n : s[Len(q) + i] = e
    <2>1. /\ s \in Seq(S) /\ Len(q) \in Nat /\ n \in Nat /\ Len(s) = Len(q) + n
          /\ \A i \in 1 .. Len(q) : s[i] = q[i]
          /\ \A i \in 1 .. n : s[Len(q) + i] = r[i]
      BY ConcatFacts DEF Glued
    <2> HIDE DEF s
    <2> QED BY <2>1
  <1> HIDE DEF s, n
  <1>3. \A i \in 1 .. Len(s) : i \in 1 .. Len(q) \/ s[i] = e
    <2> SUFFICES ASSUME NEW i \in 1 .. Len(s), i \notin 1 .. Len(q) PROVE s[i] = e
      OBVIOUS
    <2>1. i - Len(q) \in 1 .. n /\ Len(q) + (i - Len(q)) = i
      BY <1>2
    <2> QED BY <1>2, <2>1
  <1>4. 1 .. Len(q) \subseteq 1 .. Len(s)
    BY <1>2
  <1>5. e.cmd \notin K => At(s, K) = At(q, K)
    BY <1>2, <1>3, <1>4 DEF At
  <1>6. Has(q, K, j) => Has(s, K, j)
    BY <1>2, <1>4 DEF Has
  <1>8. n # 0 /\ e.cmd = "CAN_DO" => LastCanDo(s, e.tasks)
    <2> SUFFICES ASSUME n # 0, e.cmd = "CAN_DO" PROVE LastCanDo(s, e.tasks)
      OBVIOUS
    <2>1. n \in 1 .. n /\ Len(s) \in 1 .. Len(s) /\ \A k \in 1 .. Len(s) : k <= Len(s)
      BY <1>2
    <2>2. s[Len(s)] = e
      BY <2>1, <1>2
    <2> QED BY <2>1, <2>2 DEF LastCanDo, At
  <1> QED BY <1>5, <1>6, <1>8 DEF s, n

-----------------------------------------------------------------------------
(***************************************************************************)
(* Type correctness.                                                       *)
(***************************************************************************)

\* A handler of the map is known, and has had its session: without it the lock
\* could be taken by a handler that was never made.
Session(c) ==
    /\ sessions[c] <= MaxSessions
    /\ handlerOf[c] <= sessions[c]
    /\ connected[c] => handlerOf[c] # 0
    /\ handlerOf[c] # 0 => known[c] # 0

Typed == TypeOK /\ \A c \in Conns : Session(c)

LEMMA CommandFacts ==
    /\ \A A \in SUBSET Tasks : /\ CanDo(A) \in Outbound
                               /\ CanDo(A).cmd = "CAN_DO" /\ CanDo(A).tasks = A
    /\ \A cmd \in {"PRE_SLEEP", "GRAB_JOB_UNIQ", "WORK_STATUS"} :
          Plain(cmd) \in Outbound /\ Plain(cmd).cmd = cmd
    /\ \A cmd \in Verdicts, j \in Jobs :
          /\ AboutJob(cmd, j) \in Outbound
          /\ AboutJob(cmd, j).cmd = cmd /\ AboutJob(cmd, j).job = j
    /\ \A cmd \in {"NOOP", "NO_JOB"} : Plain(cmd) \in Inbound /\ Plain(cmd).cmd = cmd
    /\ \A j \in Jobs : /\ AboutJob("JOB_ASSIGN_UNIQ", j) \in Inbound
                       /\ AboutJob("JOB_ASSIGN_UNIQ", j).cmd = "JOB_ASSIGN_UNIQ"
                       /\ AboutJob("JOB_ASSIGN_UNIQ", j).job = j
    /\ \A m \in Outbound :
          /\ m.cmd = "CAN_DO" => m.tasks \in SUBSET Tasks
          /\ m.cmd \in Verdicts => m.job \in Jobs /\ m = AboutJob(m.cmd, m.job)
    /\ \A m \in Inbound : m.cmd = "JOB_ASSIGN_UNIQ" => m.job \in Jobs
  <1>1. \A A \in SUBSET Tasks : /\ CanDo(A) \in Outbound
                                /\ CanDo(A).cmd = "CAN_DO" /\ CanDo(A).tasks = A
    BY DEF CanDo, Outbound
  <1>2. \A cmd \in {"PRE_SLEEP", "GRAB_JOB_UNIQ", "WORK_STATUS"} :
           Plain(cmd) \in Outbound /\ Plain(cmd).cmd = cmd
    BY DEF Plain, Outbound
  <1>3. \A cmd \in Verdicts, j \in Jobs :
           /\ AboutJob(cmd, j) \in Outbound
           /\ AboutJob(cmd, j).cmd = cmd /\ AboutJob(cmd, j).job = j
    BY DEF AboutJob, Outbound
  <1>4. \A cmd \in {"NOOP", "NO_JOB"} : Plain(cmd) \in Inbound /\ Plain(cmd).cmd = cmd
    BY DEF Plain, Inbound
  <1>5. \A j \in Jobs : /\ AboutJob("JOB_ASSIGN_UNIQ", j) \in Inbound
                        /\ AboutJob("JOB_ASSIGN_UNIQ", j).cmd = "JOB_ASSIGN_UNIQ"
                        /\ AboutJob("JOB_ASSIGN_UNIQ", j).job = j
    BY DEF AboutJob, Inbound
  <1>6. \A m \in Outbound :
           /\ m.cmd = "CAN_DO" => m.tasks \in SUBSET Tasks
           /\ m.cmd \in Verdicts => m.job \in Jobs /\ m = AboutJob(m.cmd, m.job)
    BY DEF CanDo, Plain, AboutJob, Outbound, Verdicts
  <1>7. \A m \in Inbound : m.cmd = "JOB_ASSIGN_UNIQ" => m.job \in Jobs
    BY DEF Plain, AboutJob, Inbound
  <1> QED BY <1>1, <1>2, <1>3, <1>4, <1>5, <1>6, <1>7

LEMMA InitTyped == Init => Typed
  <1> SUFFICES ASSUME Init PROVE Typed
    OBVIOUS
  <1>1. /\ working = FALSE /\ running = None /\ lock = None /\ hadJob = FALSE
        /\ abilities \in SUBSET Tasks
        /\ stage = OutOfRounds
        /\ <<updates, changes, stops, shutdowns, noops>> = <<0, 0, 0, 0, 0>>
    BY DEF Init
  <1>2. /\ connected \in [Conns -> BOOLEAN]
        /\ handlerOf \in [Conns -> Nat]
        /\ sessions \in [Conns -> Nat]
        /\ known \in [Conns -> Nat]
        /\ \A c \in Conns : handlerOf[c] = 0 /\ sessions[c] = 0 /\ ~connected[c]
    BY DEF Init
  <1>3. /\ outgoing \in [Conns -> Seq(Outbound)]
        /\ wire \in [Conns -> Seq(Outbound)]
        /\ inbound \in [Conns -> Seq(Inbound)]
    <2>1. <<>> \in Seq(Outbound) /\ <<>> \in Seq(Inbound)
      OBVIOUS
    <2> QED BY <2>1 DEF Init
  <1>4. /\ srv \in [Conns -> {"gone", "awake", "asleep", "woken"}]
        /\ srvAbil \in [Conns -> SUBSET Tasks]
        /\ job \in [Jobs -> JobRecords]
    BY DEF Init, JobRecords
  <1>5. TypeOK
    <2>1. stage \in (IF Rounds THEN {"callback", "round"} ELSE {"any"}) /\ stage # "round"
      BY <1>1 DEF OutOfRounds
    <2>2. <<updates, changes, stops, shutdowns, noops>> \in Nat \X Nat \X Nat \X Nat \X Nat
      BY <1>1
    <2> QED BY <1>1, <1>2, <1>3, <1>4, <2>1, <2>2 DEF TypeOK
  <1>6. ASSUME NEW c \in Conns PROVE Session(c)
    <2>1. MaxSessions \in Nat /\ handlerOf[c] = 0 /\ sessions[c] = 0 /\ ~connected[c]
      BY <1>2, ConstantsAssumption
    <2> QED BY <2>1 DEF Session
  <1> QED BY <1>5, <1>6 DEF Typed

\* What Send, Fetch and the ends of sessions do to the types.
LEMMA SendTyped ==
    ASSUME TypeOK, NEW c \in Conns, NEW m \in Outbound, Send(c, m)
    PROVE  outgoing' \in [Conns -> Seq(Outbound)]
  <1>1. Append(outgoing[c], m) \in Seq(Outbound)
    BY AppendFacts DEF TypeOK
  <1> QED BY <1>1 DEF Send, TypeOK

LEMMA FetchTyped ==
    ASSUME TypeOK, NEW c \in Conns, NEW cmd, Fetch(c, cmd)
    PROVE  /\ Head(inbound[c]) \in Inbound
           /\ Head(inbound[c]).cmd = cmd
           /\ inbound' \in [Conns -> Seq(Inbound)]
  <1>1. Head(inbound[c]) \in Inbound /\ Tail(inbound[c]) \in Seq(Inbound)
    BY TailFacts DEF TypeOK, Fetch
  <1> QED BY <1>1 DEF Fetch, TypeOK

LEMMA CloseTyped ==
    ASSUME TypeOK, NEW S \in SUBSET Conns, Close(S)
    PROVE  /\ connected' \in [Conns -> BOOLEAN]
           /\ outgoing' \in [Conns -> Seq(Outbound)]
           /\ wire' \in [Conns -> Seq(Outbound)]
           /\ inbound' \in [Conns -> Seq(Inbound)]
           /\ srv' \in [Conns -> {"gone", "awake", "asleep", "woken"}]
           /\ srvAbil' \in [Conns -> SUBSET Tasks]
           /\ job' \in [Jobs -> JobRecords]
  <1>1. <<>> \in Seq(Outbound) /\ <<>> \in Seq(Inbound)
    OBVIOUS
  <1>2. outgoing' \in [Conns -> Seq(Outbound)]
    BY <1>1 DEF Close, TypeOK
  <1>3. wire' \in [Conns -> Seq(Outbound)] /\ inbound' \in [Conns -> Seq(Inbound)]
    BY <1>1 DEF Close, TypeOK
  <1>4. job' \in [Jobs -> JobRecords]
    <2>1. job' = Requeued(S) /\ job \in [Jobs -> JobRecords]
      BY DEF Close, TypeOK
    <2>2. \A j \in Jobs : [job[j] EXCEPT !.state = "queued"] \in JobRecords
      BY <2>1 DEF JobRecords
    <2> QED BY <2>1, <2>2 DEF Requeued
  <1>5. /\ connected' \in [Conns -> BOOLEAN]
        /\ srv' \in [Conns -> {"gone", "awake", "asleep", "woken"}]
        /\ srvAbil' \in [Conns -> SUBSET Tasks]
    BY DEF Close, TypeOK
  <1> QED BY <1>2, <1>3, <1>4, <1>5

LEMMA EstablishTyped ==
    ASSUME Typed, NEW S \in SUBSET Dead, Establish(S)
    PROVE  /\ connected' \in [Conns -> BOOLEAN]
           /\ handlerOf' \in [Conns -> Nat]
           /\ sessions' \in [Conns -> Nat]
           /\ known' \in [Conns -> Nat]
           /\ outgoing' \in [Conns -> Seq(Outbound)]
           /\ srv' \in [Conns -> {"gone", "awake", "asleep", "woken"}]
           /\ \A c \in Conns : Session(c)'
  <1>1. S \subseteq Conns
    BY DEF Dead
  <1>2. <<CanDo(abilities), Plain("PRE_SLEEP")>> \in Seq(Outbound)
    BY CommandFacts DEF Typed, TypeOK
  <1>3. outgoing' \in [Conns -> Seq(Outbound)]
    BY <1>2 DEF Establish, Typed, TypeOK
  <1>4. /\ connected' \in [Conns -> BOOLEAN]
        /\ handlerOf' \in [Conns -> Nat]
        /\ sessions' \in [Conns -> Nat]
        /\ known' \in [Conns -> Nat]
        /\ srv' \in [Conns -> {"gone", "awake", "asleep", "woken"}]
    <2>1. /\ connected \in [Conns -> BOOLEAN]
          /\ handlerOf \in [Conns -> Nat]
          /\ sessions \in [Conns -> Nat]
          /\ known \in [Conns -> Nat]
          /\ srv \in [Conns -> {"gone", "awake", "asleep", "woken"}]
      BY DEF Typed, TypeOK
    <2> QED BY <2>1 DEF Establish
  <1>5. ASSUME NEW c \in Conns PROVE Session(c)'
    <2>1. /\ sessions[c] \in Nat /\ handlerOf[c] \in Nat /\ known[c] \in Nat
          /\ Session(c) /\ MaxSessions \in Nat
      BY ConstantsAssumption DEF Typed, TypeOK
    <2>2. CASE c \in S
      <3>1. /\ sessions[c] < MaxSessions /\ sessions'[c] = sessions[c] + 1
            /\ handlerOf'[c] = sessions[c] + 1 /\ known'[c] = known[c] + 1
        BY <2>2 DEF Establish
      <3> QED BY <2>1, <3>1 DEF Session
    <2>3. CASE c \notin S
      <3>1. /\ sessions'[c] = sessions[c] /\ handlerOf'[c] = handlerOf[c]
            /\ known'[c] = known[c] /\ connected'[c] = connected[c]
        BY <2>3 DEF Establish, Typed, TypeOK
      <3> QED BY <2>1, <3>1 DEF Session
    <2> QED BY <2>2, <2>3
  <1> QED BY <1>3, <1>4, <1>5

LEMMA HandleErrorTyped ==
    ASSUME Typed, NEW c \in Conns, HandleError(c)
    PROVE  /\ lock' \in {None} \cup Handlers
           /\ handlerOf' \in [Conns -> Nat]
           /\ known' \in [Conns -> Nat]
           /\ \A d \in Conns : Session(d)'
  <1>1. connected' \in [Conns -> BOOLEAN] /\ connected'[c] = FALSE
        /\ \A d \in Conns : connected'[d] => connected[d]
    BY DEF HandleError, Close, Typed, TypeOK
  <1>2. lock' \in {None} \cup Handlers
    BY DEF HandleError, Released, Typed, TypeOK
  <1>3. /\ handlerOf \in [Conns -> Nat] /\ known \in [Conns -> Nat]
        /\ sessions' = sessions /\ \A d \in Conns : Session(d)
        /\ handlerOf' = [handlerOf EXCEPT ![c] = 0]
        /\ known' = [known EXCEPT ![c] = IF handlerOf[c] = 0 THEN @ ELSE @ - 1]
    BY DEF HandleError, Typed, TypeOK
  <1>4. handlerOf[c] # 0 => known[c] - 1 \in Nat
    BY <1>3 DEF Session
  <1>5. handlerOf' \in [Conns -> Nat] /\ known' \in [Conns -> Nat]
    BY <1>3, <1>4
  <1>6. sessions \in [Conns -> Nat] /\ MaxSessions \in Nat
    BY ConstantsAssumption DEF Typed, TypeOK
  <1>7. ASSUME NEW d \in Conns PROVE Session(d)'
    <2>1. CASE d = c
      <3>1. handlerOf'[d] = 0
        BY <1>3, <2>1
      <3>2. sessions'[d] = sessions[d] /\ sessions[d] \in Nat /\ sessions[d] <= MaxSessions
            /\ ~connected'[d]
        BY <1>1, <1>3, <1>6, <2>1 DEF Session
      <3> QED BY <3>1, <3>2 DEF Session
    <2>2. CASE d # c
      <3>1. handlerOf'[d] = handlerOf[d] /\ known'[d] = known[d]
        BY <1>3, <2>2
      <3> QED BY <1>1, <1>3, <3>1 DEF Session
    <2> QED BY <2>1, <2>2
  <1> QED BY <1>2, <1>5, <1>7

LEMMA SessionsStay ==
    ASSUME Typed, UNCHANGED sessionVars
    PROVE  \A c \in Conns : Session(c)'
  <1> SUFFICES ASSUME NEW c \in Conns PROVE Session(c)'
    OBVIOUS
  <1>1. Session(c) /\ connected' = connected /\ handlerOf' = handlerOf
        /\ sessions' = sessions /\ known' = known
    BY DEF Typed, sessionVars
  <1> QED BY <1>1 DEF Session

Counters == <<updates, changes, stops, shutdowns, noops>>

LEMMA CountersTyped ==
    ASSUME TypeOK
    PROVE  /\ updates \in Nat /\ changes \in Nat /\ stops \in Nat
           /\ shutdowns \in Nat /\ noops \in Nat
    BY DEF TypeOK

\* A step of each kind keeps the types.
LEMMA LoopTyped ==
    ASSUME Typed,
           StartWork \/ CallbackGoesOn \/ RoundEnds \/ Reestablish \/ NoConnections
    PROVE  Typed'
  <1>1. CASE StartWork
    <2>1. PICK S \in SUBSET Dead : Establish(S)
      BY <1>1 DEF StartWork
    <2>2. TypeOK'
      BY <1>1, <2>1, EstablishTyped
      DEF StartWork, Establish, Typed, TypeOK, loopVars, boundVars
    <2> QED BY <2>1, <2>2, EstablishTyped DEF Typed
  <1>2. CASE CallbackGoesOn
    <2>1. TypeOK'
      BY <1>2 DEF CallbackGoesOn, Between, HadJob, Typed, TypeOK, sessionVars, serverVars,
                  boundVars
    <2> QED BY <1>2, <2>1, SessionsStay DEF CallbackGoesOn, Typed
  <1>3. CASE RoundEnds
    <2>1. TypeOK'
      BY <1>3 DEF RoundEnds, Polling, Typed, TypeOK, sessionVars, serverVars, boundVars
    <2> QED BY <1>3, <2>1, SessionsStay DEF RoundEnds, Typed
  <1>4. CASE Reestablish
    <2>1. PICK S \in SUBSET Dead : Establish(S)
      BY <1>4 DEF Reestablish
    <2>2. TypeOK'
      BY <1>4, <2>1, EstablishTyped, ConstantsAssumption
      DEF Reestablish, Between, HadJob, Establish, Typed, TypeOK, boundVars
    <2> QED BY <2>1, <2>2, EstablishTyped DEF Typed
  <1>5. CASE NoConnections
    <2>1. TypeOK'
      BY <1>5 DEF NoConnections, LeaveLoop, OutOfRounds, Typed, TypeOK, sessionVars,
                  serverVars, boundVars
    <2> QED BY <1>5, <2>1, SessionsStay DEF NoConnections, Typed
  <1> QED BY <1>1, <1>2, <1>3, <1>4, <1>5

LEMMA EndTyped ==
    ASSUME Typed, StopWork \/ Shutdown
    PROVE  Typed'
  <1>1. Close(Conns) /\ UNCHANGED <<handlerOf, sessions, known>>
    BY DEF StopWork, Shutdown
  <1>2. \A c \in Conns : ~connected'[c]
    BY <1>1 DEF Close
  <1>6. /\ connected' \in [Conns -> BOOLEAN]
        /\ outgoing' \in [Conns -> Seq(Outbound)]
        /\ wire' \in [Conns -> Seq(Outbound)]
        /\ inbound' \in [Conns -> Seq(Inbound)]
        /\ srv' \in [Conns -> {"gone", "awake", "asleep", "woken"}]
        /\ srvAbil' \in [Conns -> SUBSET Tasks]
        /\ job' \in [Jobs -> JobRecords]
    <2>1. Conns \in SUBSET Conns /\ TypeOK
      BY DEF Typed
    <2> QED BY <1>1, <2>1, CloseTyped
  <1>3. ASSUME NEW c \in Conns PROVE Session(c)'
    BY <1>1, <1>2 DEF Session, Typed
  <1>4. CASE StopWork
    <2>2. Counters' \in Nat \X Nat \X Nat \X Nat \X Nat
      BY <1>4, CountersTyped DEF Counters, StopWork, Typed
    <2>1. TypeOK'
      BY <1>1, <1>4, <1>6, <2>2
      DEF StopWork, LeaveLoop, OutOfRounds, Typed, TypeOK, Counters
    <2> QED BY <1>3, <2>1 DEF Typed
  <1>5. CASE Shutdown
    <2>2. Counters' \in Nat \X Nat \X Nat \X Nat \X Nat
      BY <1>5, CountersTyped DEF Counters, Shutdown, Typed
    <2>1. TypeOK'
      BY <1>1, <1>5, <1>6, <2>2 DEF Shutdown, loopVars, Typed, TypeOK, Counters
    <2> QED BY <1>3, <2>1 DEF Typed
  <1> QED BY <1>4, <1>5

LEMMA AbilitiesTyped ==
    ASSUME Typed, NEW A \in SUBSET Tasks, SetAbilities(A)
    PROVE  Typed'
  <1>1. \A c \in Conns : [i \in 1 .. known[c] |-> CanDo(A)] = Repeat(known[c], CanDo(A))
    BY DEF Repeat
  <1>2. ASSUME NEW c \in Conns
        PROVE  outgoing[c] \o Repeat(known[c], CanDo(A)) \in Seq(Outbound)
    <2>1. outgoing[c] \in Seq(Outbound) /\ known[c] \in Nat /\ CanDo(A) \in Outbound
      BY CommandFacts DEF Typed, TypeOK
    <2>2. Repeat(known[c], CanDo(A)) \in Seq(Outbound)
      BY <2>1, RepeatFacts
    <2> QED BY <2>1, <2>2, ConcatFacts
  <1>3. outgoing' \in [Conns -> Seq(Outbound)]
    <2>1. outgoing \in [Conns -> Seq(Outbound)]
      BY DEF Typed, TypeOK
    <2>2. outgoing' = [c \in Conns |-> IF connected[c]
                         THEN outgoing[c] \o Repeat(known[c], CanDo(A)) ELSE outgoing[c]]
      BY <1>1 DEF SetAbilities
    <2> QED BY <1>2, <2>1, <2>2
  <1>4. TypeOK'
    BY <1>3 DEF SetAbilities, Typed, TypeOK, loopVars, sessionVars, serverVars
  <1> QED BY <1>4, SessionsStay DEF SetAbilities, Typed

LEMMA WriteTyped ==
    ASSUME Typed, NEW c \in Conns, HandleWrite(c)
    PROVE  Typed'
  <1>1. PICK n \in 1 .. Len(outgoing[c]) :
           /\ wire' = [wire EXCEPT ![c] = @ \o SubSeq(outgoing[c], 1, n)]
           /\ outgoing' = [outgoing EXCEPT ![c] = SubSeq(@, n + 1, Len(@))]
    BY DEF HandleWrite
  <1>2. /\ wire \in [Conns -> Seq(Outbound)]
        /\ outgoing \in [Conns -> Seq(Outbound)]
    BY DEF Typed, TypeOK
  <1>3. wire[c] \in Seq(Outbound) /\ outgoing[c] \in Seq(Outbound)
    BY <1>2
  <1>4. /\ wire[c] \o SubSeq(outgoing[c], 1, n) \in Seq(Outbound)
        /\ SubSeq(outgoing[c], n + 1, Len(outgoing[c])) \in Seq(Outbound)
    <2>1. /\ Glued(wire[c], Firsts(outgoing[c], n)) \in Seq(Outbound)
          /\ Rest(outgoing[c], n) \in Seq(Outbound)
      BY <1>3, ConcatWrite
    <2> QED BY <2>1 DEF Glued, Firsts, Rest
  <1>5. wire' \in [Conns -> Seq(Outbound)] /\ outgoing' \in [Conns -> Seq(Outbound)]
    BY <1>1, <1>2, <1>4
  <1>6. TypeOK'
    BY <1>5 DEF HandleWrite, Typed, TypeOK, workerVars, sessionVars, serverVars, boundVars
  <1> QED BY <1>6, SessionsStay DEF HandleWrite, Typed

LEMMA ReceiveTyped ==
    ASSUME Typed, NEW c \in Conns, Receive(c)
    PROVE  Typed'
  <1>1. TypeOK /\ connected[c] /\ working
    BY DEF Receive, RecvNoop, RecvNoJob, RecvJobAssign, RecvRaises, Fetch, Served, Typed
  <1>2. Handler(c) \in Handlers
    BY <1>1, ConstantsAssumption DEF Handler, Handlers, Typed, TypeOK, Session
  <1>3. inbound' \in [Conns -> Seq(Inbound)]
    BY <1>1, FetchTyped DEF Receive, RecvNoop, RecvNoJob, RecvJobAssign, RecvRaises
  <1>4. Plain("GRAB_JOB_UNIQ") \in Outbound /\ Plain("PRE_SLEEP") \in Outbound
    BY CommandFacts
  <1>5. CASE RecvNoop(c)
    <2>1. outgoing' \in [Conns -> Seq(Outbound)]
      BY <1>1, <1>4, <1>5, SendTyped DEF RecvNoop, TypeOK
    <2>2. TypeOK'
      BY <1>1, <1>2, <1>3, <1>5, <2>1
      DEF RecvNoop, TypeOK, loopVars, sessionVars, serverVars, boundVars
    <2> QED BY <1>5, <2>2, SessionsStay DEF RecvNoop, Typed
  <1>6. CASE RecvNoJob(c)
    <2>1. outgoing' \in [Conns -> Seq(Outbound)]
      BY <1>1, <1>4, <1>6, SendTyped DEF RecvNoJob
    <2>2. TypeOK'
      BY <1>1, <1>3, <1>6, <2>1
      DEF RecvNoJob, TypeOK, loopVars, sessionVars, serverVars, boundVars
    <2> QED BY <1>6, <2>2, SessionsStay DEF RecvNoJob, Typed
  <1>7. CASE RecvJobAssign(c)
    <2>1. Head(inbound[c]).job \in Jobs
      BY <1>1, <1>7, FetchTyped, CommandFacts DEF RecvJobAssign
    <2>2. running' \in [conn : Conns, job : Jobs, step : Steps]
      BY <1>7, <2>1 DEF RecvJobAssign, Steps
    <2>3. TypeOK'
      BY <1>1, <1>3, <1>7, <2>2
      DEF RecvJobAssign, TypeOK, loopVars, sessionVars, serverVars, boundVars
    <2> QED BY <1>7, <2>3, SessionsStay DEF RecvJobAssign, Typed
  <1>8. CASE RecvRaises(c)
    <2>1. TypeOK'
      BY <1>1, <1>3, <1>8
      DEF RecvRaises, LeaveLoop, OutOfRounds, TypeOK, sessionVars, serverVars, boundVars
    <2> QED BY <1>8, <2>1, SessionsStay DEF RecvRaises, Typed
  <1> QED BY <1>5, <1>6, <1>7, <1>8 DEF Receive

LEMMA DiesTyped ==
    ASSUME Typed, NEW c \in Conns, ConnectionDies(c)
    PROVE  Typed'
  <1>1. HandleError(c) /\ UNCHANGED <<working, running, loopVars>>
    BY DEF ConnectionDies
  <1>2. Close({c})
    BY <1>1 DEF HandleError
  <1>3. TypeOK'
    BY <1>1, <1>2, CloseTyped, HandleErrorTyped
    DEF HandleError, Typed, TypeOK, loopVars, boundVars
  <1> QED BY <1>1, <1>3, HandleErrorTyped DEF Typed

LEMMA ExecuteTyped ==
    ASSUME Typed, Execute
    PROVE  Typed'
  <1> DEFINE c == running.conn
  <1>1. /\ running # None
        /\ running \in [conn : Conns, job : Jobs, step : Steps]
        /\ c \in Conns /\ running.job \in Jobs /\ running.step \in Steps
        /\ TypeOK
    BY DEF Execute, JobUpdate, JobReturnsInVain, JobInterrupted, UpdateSent, ResultSent,
           ConnectionDiesInWait, JobReturns, InCallback, InWait, Typed, TypeOK
  <1>2. \A s \in Steps : [running EXCEPT !.step = s] \in [conn : Conns, job : Jobs, step : Steps]
    BY <1>1
  <1>3. CASE JobUpdate
    <2>1. outgoing' \in [Conns -> Seq(Outbound)]
      BY <1>1, <1>3, CommandFacts, SendTyped DEF JobUpdate
    <2>2. running' \in [conn : Conns, job : Jobs, step : Steps]
      BY <1>2, <1>3 DEF JobUpdate, Steps
    <2>4. Counters' \in Nat \X Nat \X Nat \X Nat \X Nat
      BY <1>1, <1>3, CountersTyped DEF Counters, JobUpdate
    <2>3. TypeOK'
      BY <1>3, <2>1, <2>2, <2>4, <1>1
      DEF JobUpdate, TypeOK, Counters, loopVars, sessionVars, serverVars
    <2> QED BY <1>3, <2>3, SessionsStay DEF JobUpdate, Typed
  <1>4. ASSUME NEW verdict \in Verdicts, JobReturns(verdict)
        PROVE  Typed'
    <2>1. outgoing' \in [Conns -> Seq(Outbound)]
      BY <1>1, <1>4, CommandFacts, SendTyped DEF JobReturns
    <2>2. running' \in [conn : Conns, job : Jobs, step : Steps]
      BY <1>2, <1>4 DEF JobReturns, Steps
    <2>3. TypeOK'
      BY <1>1, <1>4, <2>1, <2>2
      DEF JobReturns, TypeOK, loopVars, sessionVars, serverVars, boundVars
    <2> QED BY <1>4, <2>3, SessionsStay DEF JobReturns, Typed
  <1>5. CASE JobReturnsInVain
    <2>1. TypeOK'
      BY <1>1, <1>5 DEF JobReturnsInVain, LeaveLoop, OutOfRounds, TypeOK, sessionVars,
                        serverVars, boundVars
    <2> QED BY <1>5, <2>1, SessionsStay DEF JobReturnsInVain, Typed
  <1>6. CASE JobInterrupted
    <2>2. Counters' \in Nat \X Nat \X Nat \X Nat \X Nat
      BY <1>1, <1>6, CountersTyped DEF Counters, JobInterrupted
    <2>1. TypeOK'
      BY <1>1, <1>6, <2>2 DEF JobInterrupted, LeaveLoop, OutOfRounds, TypeOK, Counters,
                              sessionVars, serverVars
    <2> QED BY <1>6, <2>1, SessionsStay DEF JobInterrupted, Typed
  <1>7. CASE UpdateSent
    <2>1. running' \in [conn : Conns, job : Jobs, step : Steps]
      BY <1>2, <1>7 DEF UpdateSent, Steps
    <2>2. TypeOK'
      BY <1>1, <1>7, <2>1
      DEF UpdateSent, TypeOK, loopVars, sessionVars, serverVars, boundVars
    <2> QED BY <1>7, <2>2, SessionsStay DEF UpdateSent, Typed
  <1>8. CASE ResultSent
    <2>1. outgoing' \in [Conns -> Seq(Outbound)]
      BY <1>1, <1>8, CommandFacts, SendTyped DEF ResultSent
    <2>2. TypeOK'
      BY <1>1, <1>8, <2>1
      DEF ResultSent, TypeOK, loopVars, sessionVars, serverVars, boundVars
    <2> QED BY <1>8, <2>2, SessionsStay DEF ResultSent, Typed
  <1>9. CASE ConnectionDiesInWait
    <2>1. HandleError(c) /\ Close({c})
      BY <1>9 DEF ConnectionDiesInWait, HandleError
    <2>2. \/ /\ running' \in [conn : Conns, job : Jobs, step : Steps]
             /\ UNCHANGED <<working, loopVars>>
          \/ /\ running' = None /\ working' = FALSE /\ LeaveLoop
      BY <1>2, <1>9 DEF ConnectionDiesInWait, Steps
    <2>3. {c} \in SUBSET Conns
      BY <1>1
    <2>4. /\ connected' \in [Conns -> BOOLEAN]
          /\ outgoing' \in [Conns -> Seq(Outbound)]
          /\ wire' \in [Conns -> Seq(Outbound)]
          /\ inbound' \in [Conns -> Seq(Inbound)]
          /\ srv' \in [Conns -> {"gone", "awake", "asleep", "woken"}]
          /\ srvAbil' \in [Conns -> SUBSET Tasks]
          /\ job' \in [Jobs -> JobRecords]
      BY <1>1, <2>1, <2>3, CloseTyped
    <2>5. /\ lock' \in {None} \cup Handlers
          /\ handlerOf' \in [Conns -> Nat]
          /\ known' \in [Conns -> Nat]
          /\ \A d \in Conns : Session(d)'
      BY <1>1, <2>1, HandleErrorTyped
    <2>6. UNCHANGED <<abilities, sessions, boundVars>>
      BY <2>1 DEF HandleError
    <2>7. stage' \in (IF Rounds THEN {"callback", "round"} ELSE {"any"})
          /\ hadJob' \in BOOLEAN /\ (~working' => hadJob' = FALSE /\ stage' # "round")
          /\ working' \in BOOLEAN
      BY <1>1, <2>2 DEF LeaveLoop, OutOfRounds, loopVars, TypeOK
    <2>8. TypeOK'
      BY <1>1, <2>2, <2>4, <2>5, <2>6, <2>7 DEF TypeOK, boundVars
    <2> QED BY <2>5, <2>8 DEF Typed
  <1> QED BY <1>3, <1>4, <1>5, <1>6, <1>7, <1>8, <1>9 DEF Execute

LEMMA SubmitTyped ==
    ASSUME Typed, NEW j \in Jobs,
           (\E c \in Conns, t \in Tasks : ClientSubmits(j, c, t)) \/ OtherWorkerTakes(j)
    PROVE  Typed'
  <1>1. job' \in [Jobs -> JobRecords]
    <2>1. job \in [Jobs -> JobRecords] /\ job[j] \in JobRecords
      BY DEF Typed, TypeOK
    <2>2. [job[j] EXCEPT !.state = "elsewhere"] \in JobRecords
      BY <2>1 DEF JobRecords
    <2>3. \A c \in Conns, t \in Tasks : [state |-> "queued", server |-> c, task |-> t] \in JobRecords
      BY DEF JobRecords
    <2> QED BY <2>1, <2>2, <2>3 DEF ClientSubmits, OtherWorkerTakes
  <1>2. TypeOK'
    BY <1>1 DEF ClientSubmits, OtherWorkerTakes, Typed, TypeOK, workerVars, sessionVars,
                boundVars
  <1> QED BY <1>2, SessionsStay DEF ClientSubmits, OtherWorkerTakes, Typed

LEMMA ServerTyped ==
    ASSUME Typed, NEW c \in Conns, Server(c)
    PROVE  Typed'
  <1>1. UNCHANGED <<workerVars, sessionVars, outgoing>>
    BY DEF Server, ServerWakes, ServerReads, ServerDrops
  <1>2. TypeOK /\ \A j \in Doable(c) : j \in Jobs
    BY DEF Doable, Typed
  <1>3. ASSUME NEW m \in Inbound, ServerSends(c, m)
        PROVE  inbound' \in [Conns -> Seq(Inbound)]
    <2>1. Append(inbound[c], m) \in Seq(Inbound)
      BY <1>2, AppendFacts DEF TypeOK
    <2> QED BY <1>2, <1>3, <2>1 DEF ServerSends, TypeOK
  <1>6. \A j \in Jobs, s \in {"queued", "assigned", "done", "failed"} :
           [job EXCEPT ![j].state = s] \in [Jobs -> JobRecords]
    <2>1. job \in [Jobs -> JobRecords]
      BY <1>2 DEF TypeOK
    <2>2. \A j \in Jobs, s \in {"queued", "assigned", "done", "failed"} :
             [job[j] EXCEPT !.state = s] \in JobRecords
      BY <2>1 DEF JobRecords
    <2> QED BY <2>1, <2>2
  <1>4. /\ wire' \in [Conns -> Seq(Outbound)]
        /\ inbound' \in [Conns -> Seq(Inbound)]
        /\ srv' \in [Conns -> {"gone", "awake", "asleep", "woken"}]
        /\ srvAbil' \in [Conns -> SUBSET Tasks]
        /\ job' \in [Jobs -> JobRecords]
        /\ <<updates, changes, stops, shutdowns, noops>>' \in Nat \X Nat \X Nat \X Nat \X Nat
    <2>1. CASE ServerWakes(c)
      <3>1. inbound' \in [Conns -> Seq(Inbound)]
        BY <1>3, <2>1, CommandFacts DEF ServerWakes
      <3>2. Counters' \in Nat \X Nat \X Nat \X Nat \X Nat
        BY <1>2, <2>1, CountersTyped DEF Counters, ServerWakes
      <3> QED BY <1>2, <2>1, <3>1, <3>2 DEF ServerWakes, TypeOK, Counters
    <2>2. CASE ServerReads(c)
      <3>1. Head(wire[c]) \in Outbound /\ Tail(wire[c]) \in Seq(Outbound)
        BY <1>2, <2>2, TailFacts DEF ServerReads, TypeOK
      <3>2. wire' \in [Conns -> Seq(Outbound)]
        BY <1>2, <2>2, <3>1 DEF ServerReads, TypeOK
      <3>3. CASE ServerGrants(c)
        <4>1. inbound' \in [Conns -> Seq(Inbound)]
          BY <1>2, <1>3, <3>3, CommandFacts DEF ServerGrants
        <4>2. job' \in [Jobs -> JobRecords]
          <5>1. CASE UNCHANGED job
            BY <1>2, <5>1 DEF TypeOK
          <5>2. CASE ~UNCHANGED job
            <6>1. PICK j \in Doable(c) : job' = [job EXCEPT ![j].state = "assigned"]
              BY <3>3, <5>2 DEF ServerGrants
            <6> QED BY <1>2, <1>6, <6>1
          <5> QED BY <5>1, <5>2
        <4> QED BY <1>2, <2>2, <3>2, <3>3, <4>1, <4>2
                DEF ServerReads, ServerGrants, TypeOK, boundVars
      <3>4. CASE ServerNotes(c)
        <4>1. job' \in [Jobs -> JobRecords]
          <5>1. Head(wire[c]).cmd \in Verdicts => Head(wire[c]).job \in Jobs
            BY <3>1, CommandFacts
          <5>2. CASE UNCHANGED job
            BY <1>2, <5>2 DEF TypeOK
          <5>3. CASE ~UNCHANGED job
            <6> DEFINE m == Head(wire[c])
                       s == IF m.cmd = "WORK_COMPLETE" THEN "done" ELSE "failed"
            <6>1. m.job \in Jobs /\ job' = [job EXCEPT ![m.job].state = s]
              BY <3>4, <5>1, <5>3 DEF ServerNotes
            <6>2. s \in {"queued", "assigned", "done", "failed"}
              OBVIOUS
            <6> HIDE DEF m, s
            <6> QED BY <1>6, <6>1, <6>2
          <5> QED BY <5>2, <5>3
        <4>2. srvAbil' \in [Conns -> SUBSET Tasks]
          BY <1>2, <3>1, <3>4, CommandFacts DEF ServerNotes, TypeOK
        <4>3. srv' \in [Conns -> {"gone", "awake", "asleep", "woken"}]
          BY <1>2, <3>4 DEF ServerNotes, TypeOK
        <4> QED BY <1>2, <2>2, <3>2, <3>4, <4>1, <4>2, <4>3
                DEF ServerReads, ServerNotes, TypeOK, boundVars
      <3> QED BY <2>2, <3>3, <3>4 DEF ServerReads
    <2>3. CASE ServerDrops(c)
      <3>1. <<>> \in Seq(Outbound)
        OBVIOUS
      <3>2. wire' \in [Conns -> Seq(Outbound)]
        BY <1>2, <2>3, <3>1 DEF ServerDrops, TypeOK
      <3>3. job' \in [Jobs -> JobRecords]
        <4>1. job' = Requeued({c}) /\ job \in [Jobs -> JobRecords]
          BY <1>2, <2>3 DEF ServerDrops, TypeOK
        <4>2. \A j \in Jobs : [job[j] EXCEPT !.state = "queued"] \in JobRecords
          BY <4>1 DEF JobRecords
        <4> QED BY <4>1, <4>2 DEF Requeued
      <3> QED BY <1>2, <2>3, <3>2, <3>3 DEF ServerDrops, TypeOK, boundVars
    <2> QED BY <2>1, <2>2, <2>3 DEF Server
  <1>5. TypeOK'
    BY <1>1, <1>2, <1>4 DEF TypeOK, workerVars, sessionVars
  <1> QED BY <1>1, <1>5, SessionsStay DEF Typed

LEMMA IdleTyped == ASSUME Typed, UNCHANGED vars PROVE Typed'
  <1>1. TypeOK'
    BY DEF Typed, TypeOK, vars, workerVars, sessionVars, serverVars, boundVars
  <1> QED BY <1>1, SessionsStay DEF vars, Typed

LEMMA NextTyped == ASSUME Typed, [Next]_vars PROVE Typed'
  <1>1. CASE StartWork \/ CallbackGoesOn \/ RoundEnds \/ Reestablish \/ NoConnections
    BY <1>1, LoopTyped
  <1>2. CASE StopWork \/ Shutdown
    BY <1>2, EndTyped
  <1>3. ASSUME NEW A \in SUBSET Tasks, SetAbilities(A) PROVE Typed'
    BY <1>3, AbilitiesTyped
  <1>4. ASSUME NEW c \in Conns, HandleWrite(c) \/ Receive(c) \/ ConnectionDies(c) \/ Server(c)
        PROVE  Typed'
    BY <1>4, WriteTyped, ReceiveTyped, DiesTyped, ServerTyped
  <1>5. CASE Execute
    BY <1>5, ExecuteTyped
  <1>6. ASSUME NEW j \in Jobs,
               (\E c \in Conns, t \in Tasks : ClientSubmits(j, c, t)) \/ OtherWorkerTakes(j)
        PROVE  Typed'
    BY <1>6, SubmitTyped
  <1>7. CASE UNCHANGED vars
    BY <1>7, IdleTyped
  <1>8. CASE Next
    BY <1>1, <1>2, <1>3, <1>4, <1>5, <1>6, <1>8 DEF Next
  <1> QED BY <1>7, <1>8

LEMMA AlwaysTyped == Spec => []Typed
  <1>1. Init => Typed
    BY InitTyped
  <1>2. Typed /\ [Next]_vars => Typed'
    BY NextTyped
  <1> QED BY <1>1, <1>2, PTL DEF Spec

\* The variables keep their types.  In particular the job lock is held by nobody or by
\* a handler that was made: set_job_lock records only handlers of the map.
THEOREM TypeCorrect == Spec => []TypeOK
  <1>1. Typed => TypeOK
    BY DEF Typed
  <1> QED BY <1>1, AlwaysTyped, PTL

-----------------------------------------------------------------------------
(***************************************************************************)
(* The inductive invariant: what holds of each connection, and of each job *)
(* a server believes this worker to have, whatever is stopped, shut down,  *)
(* registered or unregistered meanwhile.                                   *)
(***************************************************************************)

Asks    == {"GRAB_JOB_UNIQ"}
Answers == {"JOB_ASSIGN_UNIQ", "NO_JOB"}

RunsOn(c) == running # None /\ running.conn = c

\* Nothing is left of a connection that was closed.
Closed(c) ==
    ~connected[c] => /\ outgoing[c] = <<>> /\ wire[c] = <<>> /\ inbound[c] = <<>>
                     /\ srv[c] = "gone"

\* Whoever asks for a job, is answered or has one holds the lock, and does one of
\* these, once.
Grabbing(c) ==
    connected[c] =>
        /\ AtMostOne(At(Said(c), Asks)) /\ AtMostOne(At(inbound[c], Answers))
        /\ At(Said(c), Asks) # {} => At(inbound[c], Answers) = {} /\ ~RunsOn(c)
        /\ At(inbound[c], Answers) # {} => ~RunsOn(c)
        /\ At(Said(c), Asks) # {} \/ At(inbound[c], Answers) # {} \/ RunsOn(c)
              => lock = Handler(c)

\* A verdict is written before the wait for it is over.
VerdictsWritten(c) ==
    At(outgoing[c], Verdicts) # {} => RunsOn(c) /\ running.step = "result"

\* A connection that is not busy with a job is on the way to sleep, or back.
Wakeable(c) ==
    connected[c] /\ srv[c] # "gone" =>
        \/ lock = Handler(c)
        \/ srv[c] = "asleep"
        \/ At(Said(c), {"PRE_SLEEP"}) # {}
        \/ At(inbound[c], {"NOOP"}) # {}

\* What the server knows, or the last it is told, is what the worker can do.
InSync(c) ==
    connected[c] /\ srv[c] # "gone" =>
        \/ At(Said(c), {"CAN_DO"}) = {} /\ srvAbil[c] = abilities
        \/ LastCanDo(Said(c), abilities)

Connected(c) ==
    Closed(c) /\ Grabbing(c) /\ VerdictsWritten(c) /\ Wakeable(c) /\ InSync(c)

\* What a server believes this worker to have is on its way, unless it was given up
\* with the lock kept.
Handled(j, c) ==
    \/ Has(inbound[c], {"JOB_ASSIGN_UNIQ"}, j)
    \/ RunsOn(c) /\ running.job = j /\ running.step # "result"
    \/ Has(Said(c), Verdicts, j)

GivenUp(c) ==
    /\ lock = Handler(c)
    /\ At(Said(c), Asks) = {} /\ At(inbound[c], Answers) = {} /\ ~RunsOn(c)

HasIt(j, c) == /\ connected[c] /\ srv[c] # "gone"
               /\ Handled(j, c) \/ GivenUp(c)

Assigned(j) ==
    job[j].state = "assigned" => \E c \in Conns : job[j].server = c /\ HasIt(j, c)

\* A callback may go on after its connection was closed, a wait does not.
Busy == running # None => working /\ (running.step # "callback" => connected[running.conn])

WorkerInv ==
    /\ Busy
    /\ \A c \in Conns : Connected(c)
    /\ \A j \in Jobs : Assigned(j)

Inductive == Typed /\ WorkerInv

\* Whoever holds the lock waits for an answer or runs a job, or its connection's death
\* is still to be noticed.  Not every step keeps this: see Steady below.
Waits(c) ==
    /\ lock = Handler(c) /\ connected[c]
    /\ \/ srv[c] = "gone"
       \/ At(Said(c), Asks) # {} \/ At(inbound[c], Answers) # {} \/ RunsOn(c)

Owed == lock # None => \E c \in Conns : Waits(c)

-----------------------------------------------------------------------------
(***************************************************************************)
(* Steps that leave a connection alone.                                    *)
(***************************************************************************)

\* What the step changes is not about c.
Beside(c) ==
    /\ connected'[c] = connected[c] /\ handlerOf'[c] = handlerOf[c]
    /\ outgoing'[c] = outgoing[c] /\ wire'[c] = wire[c] /\ inbound'[c] = inbound[c]
    /\ srv'[c] = srv[c] /\ srvAbil'[c] = srvAbil[c]
    /\ (lock' = Handler(c)) <=> (lock = Handler(c))
    /\ RunsOn(c)' <=> RunsOn(c)
    /\ RunsOn(c) => /\ running'.job = running.job
                    /\ (running'.step = "result") <=> (running.step = "result")

LEMMA BesideFacts ==
    ASSUME NEW c \in Conns, Beside(c)
    PROVE  /\ Said(c)' = Said(c)
           /\ (lock = Handler(c))' <=> (lock = Handler(c))
    BY DEF Beside, Said, Handler

LEMMA BesideConnected ==
    ASSUME NEW c \in Conns, Connected(c), Beside(c), abilities' = abilities
    PROVE  Connected(c)'
  <1>1. /\ Said(c)' = Said(c)
        /\ (lock = Handler(c))' <=> (lock = Handler(c))
    BY BesideFacts
  <1>2. /\ connected'[c] = connected[c] /\ outgoing'[c] = outgoing[c] /\ wire'[c] = wire[c]
        /\ inbound'[c] = inbound[c] /\ srv'[c] = srv[c] /\ srvAbil'[c] = srvAbil[c]
        /\ RunsOn(c)' <=> RunsOn(c)
        /\ RunsOn(c) => ((running'.step = "result") <=> (running.step = "result"))
    BY DEF Beside
  <1>3. Closed(c)'
    BY <1>2 DEF Connected, Closed
  <1>4. Grabbing(c)'
    BY <1>1, <1>2 DEF Connected, Grabbing
  <1>5. VerdictsWritten(c)'
    BY <1>1, <1>2 DEF Connected, VerdictsWritten
  <1>6. Wakeable(c)'
    BY <1>1, <1>2 DEF Connected, Wakeable
  <1>7. InSync(c)'
    BY <1>1, <1>2 DEF Connected, InSync
  <1> QED BY <1>3, <1>4, <1>5, <1>6, <1>7 DEF Connected

LEMMA BesideHasIt ==
    ASSUME NEW c \in Conns, NEW j \in Jobs, HasIt(j, c), Beside(c)
    PROVE  HasIt(j, c)'
  <1>1. /\ Said(c)' = Said(c)
        /\ (lock = Handler(c))' <=> (lock = Handler(c))
    BY BesideFacts
  <1>2. /\ connected'[c] = connected[c] /\ inbound'[c] = inbound[c] /\ srv'[c] = srv[c]
        /\ RunsOn(c)' <=> RunsOn(c)
        /\ RunsOn(c) => /\ running'.job = running.job
                        /\ (running'.step = "result") <=> (running.step = "result")
    BY DEF Beside
  <1>3. Handled(j, c) => Handled(j, c)'
    BY <1>1, <1>2 DEF Handled
  <1>4. GivenUp(c) => GivenUp(c)'
    BY <1>1, <1>2 DEF GivenUp
  <1> QED BY <1>2, <1>3, <1>4 DEF HasIt

\* A job whose record stays, at a server that this worker keeps its word to.
LEMMA AssignedStays ==
    ASSUME NEW j \in Jobs, Assigned(j),
           job'[j].state = "assigned" =>
               job[j].state = "assigned" /\ job'[j].server = job[j].server,
           \A c \in Conns : job'[j].state = "assigned" /\ job[j].server = c /\ HasIt(j, c)
                               => HasIt(j, c)'
    PROVE  Assigned(j)'
    BY DEF Assigned

\* A step that leaves all connections but c alone, and no job becomes assigned.
LEMMA OnlyAt ==
    ASSUME Inductive, Busy', NEW c \in Conns, abilities' = abilities,
           \A d \in Conns \ {c} : Beside(d),
           Connected(c)',
           \A j \in Jobs : job'[j].state = "assigned" =>
               job[j].state = "assigned" /\ job'[j].server = job[j].server,
           \A j \in Jobs : job'[j].state = "assigned" /\ job[j].server = c /\ HasIt(j, c)
                              => HasIt(j, c)'
    PROVE  WorkerInv'
  <1>1. ASSUME NEW d \in Conns PROVE Connected(d)'
    <2>1. CASE d = c
      BY <2>1
    <2>2. CASE d # c
      BY <2>2, BesideConnected DEF Inductive, WorkerInv
    <2> QED BY <2>1, <2>2
  <1>2. ASSUME NEW j \in Jobs PROVE Assigned(j)'
    <2>1. Assigned(j)
      BY DEF Inductive, WorkerInv
    <2>2. ASSUME NEW d \in Conns, job'[j].state = "assigned", job[j].server = d, HasIt(j, d)
          PROVE  HasIt(j, d)'
      <3>1. CASE d = c
        BY <2>2, <3>1
      <3>2. CASE d # c
        BY <2>2, <3>2, BesideHasIt
      <3> QED BY <3>1, <3>2
    <2> QED BY <2>1, <2>2, AssignedStays
  <1> QED BY <1>1, <1>2 DEF WorkerInv

\* A step that leaves all connections alone.
LEMMA OnlyBeside ==
    ASSUME Inductive, Busy', abilities' = abilities,
           \A d \in Conns : Beside(d),
           \A j \in Jobs : job'[j].state = "assigned" =>
               job[j].state = "assigned" /\ job'[j].server = job[j].server
    PROVE  WorkerInv'
  <1>1. ASSUME NEW d \in Conns PROVE Connected(d)'
    BY BesideConnected DEF Inductive, WorkerInv
  <1>2. ASSUME NEW j \in Jobs PROVE Assigned(j)'
    <2>1. Assigned(j)
      BY DEF Inductive, WorkerInv
    <2>2. ASSUME NEW d \in Conns, HasIt(j, d) PROVE HasIt(j, d)'
      BY <2>2, BesideHasIt
    <2> QED BY <2>1, <2>2, AssignedStays
  <1> QED BY <1>1, <1>2 DEF WorkerInv

\* The holder of the lock stays owed what it waits for, unless the lock is given back.
LEMMA BesideWaits ==
    ASSUME NEW c \in Conns, Waits(c), Beside(c)
    PROVE  Waits(c)'
  <1>1. /\ Said(c)' = Said(c)
        /\ (lock = Handler(c))' <=> (lock = Handler(c))
    BY BesideFacts
  <1> QED BY <1>1 DEF Waits, Beside

LEMMA OwedStays ==
    ASSUME Owed, NEW c \in Conns, \A d \in Conns \ {c} : Beside(d),
           Waits(c) => Waits(c)' \/ lock' = None,
           lock' = lock \/ lock' = None \/ Waits(c)'
    PROVE  Owed'
  <1>1. CASE lock' = lock /\ lock # None /\ ~Waits(c)'
    <2>1. PICK d \in Conns : Waits(d)
      BY <1>1 DEF Owed
    <2>2. d # c
      BY <1>1, <2>1
    <2> QED BY <2>1, <2>2, BesideWaits DEF Owed
  <1> QED BY <1>1 DEF Owed

LEMMA OwedBeside ==
    ASSUME Owed, \A d \in Conns : Beside(d), lock' = lock
    PROVE  Owed'
  <1>1. CASE lock # None
    <2>1. PICK d \in Conns : Waits(d)
      BY <1>1 DEF Owed
    <2> QED BY <2>1, BesideWaits DEF Owed
  <1> QED BY <1>1 DEF Owed

\* Two connections have two handlers, and none is None.
LEMMA HandlersDiffer ==
    ASSUME Typed, NEW c \in Conns
    PROVE  /\ Handler(c) # None
           /\ \A d \in Conns \ {c} : Handler(d) # Handler(c)
  <1>1. handlerOf[c] \in Nat /\ None \notin Conns \X Nat
    BY ConstantsAssumption DEF Typed, TypeOK
  <1>2. Handler(c) # None
    BY <1>1 DEF Handler
  <1>3. \A d \in Conns \ {c} : Handler(d) # Handler(c)
    BY DEF Handler
  <1> QED BY <1>2, <1>3

-----------------------------------------------------------------------------
(***************************************************************************)
(* What the calls do to what is said and heard.                            *)
(***************************************************************************)

LEMMA SaidTyped ==
    ASSUME Typed, NEW c \in Conns
    PROVE  /\ wire[c] \in Seq(Outbound) /\ outgoing[c] \in Seq(Outbound)
           /\ Said(c) \in Seq(Outbound) /\ inbound[c] \in Seq(Inbound)
  <1>1. /\ wire[c] \in Seq(Outbound) /\ outgoing[c] \in Seq(Outbound)
        /\ inbound[c] \in Seq(Inbound)
    BY DEF Typed, TypeOK
  <1> QED BY <1>1, ConcatFacts DEF Said

\* A command is queued: K are commands it is not one of, or is.
LEMMA SendFacts ==
    ASSUME Typed, NEW c \in Conns, NEW m \in Outbound,
           outgoing' = [outgoing EXCEPT ![c] = Append(@, m)], wire' = wire
    PROVE  /\ Said(c)' = Append(Said(c), m)
           /\ \A K : m.cmd \notin K => /\ At(Said(c), K)' = At(Said(c), K)
                                       /\ At(outgoing[c], K)' = At(outgoing[c], K)
           /\ \A K : m.cmd \in K => /\ At(Said(c), K)' # {}
                                    /\ At(Said(c), K) = {} => AtMostOne(At(Said(c), K))'
           /\ \A K, j : Has(Said(c), K, j) => Has(Said(c), K, j)'
           /\ \A K, j : m.cmd \in K /\ m.job = j => Has(Said(c), K, j)'
           /\ \A A : m.cmd # "CAN_DO" /\ LastCanDo(Said(c), A) => LastCanDo(Said(c), A)'
  <1>1. /\ wire[c] \in Seq(Outbound) /\ outgoing[c] \in Seq(Outbound)
        /\ Said(c) \in Seq(Outbound)
    BY SaidTyped
  <1>2. outgoing'[c] = Append(outgoing[c], m) /\ wire'[c] = wire[c]
    BY DEF Typed, TypeOK
  <1>3. Said(c)' = Append(Said(c), m)
    <2>1. wire[c] \o Append(outgoing[c], m) = Append(wire[c] \o outgoing[c], m)
      <3>1. \A w, q \in Seq(Outbound) : w \o Append(q, m) = Append(w \o q, m)
        BY ConcatAppend
      <3> QED BY <1>1, <3>1, Zenon
    <2> QED BY <1>2, <2>1 DEF Said
  <1>4. ASSUME NEW K
        PROVE  /\ m.cmd \notin K => At(Append(Said(c), m), K) = At(Said(c), K)
               /\ m.cmd \in K => At(Append(Said(c), m), K) = At(Said(c), K) \cup {Len(Said(c)) + 1}
               /\ m.cmd \notin K => At(Append(outgoing[c], m), K) = At(outgoing[c], K)
    BY <1>1, AtAppend
  <1>5. ASSUME NEW K
        PROVE  /\ m.cmd \notin K => /\ At(Said(c), K)' = At(Said(c), K)
                                    /\ At(outgoing[c], K)' = At(outgoing[c], K)
               /\ m.cmd \in K => /\ At(Said(c), K)' # {}
                                 /\ At(Said(c), K) = {} => AtMostOne(At(Said(c), K))'
    <2>1. /\ At(Said(c), K)' = At(Append(Said(c), m), K)
          /\ At(outgoing[c], K)' = At(Append(outgoing[c], m), K)
      BY <1>2, <1>3
    <2>2. AtMostOne({} \cup {Len(Said(c)) + 1})
      BY DEF AtMostOne
    <2> QED BY <1>4, <2>1, <2>2
  <1>6. ASSUME NEW K, NEW j
        PROVE  /\ Has(Said(c), K, j) => Has(Append(Said(c), m), K, j)
               /\ m.cmd \in K /\ m.job = j => Has(Append(Said(c), m), K, j)
    BY <1>1, HasAppend
  <1>7. ASSUME NEW A
        PROVE  m.cmd # "CAN_DO" /\ LastCanDo(Said(c), A) => LastCanDo(Append(Said(c), m), A)
    BY <1>1, LastAppend
  <1> QED BY <1>3, <1>5, <1>6, <1>7

\* A command is taken off the connection.
LEMMA FetchFacts ==
    ASSUME Typed, NEW c \in Conns, NEW cmd, Fetch(c, cmd)
    PROVE  /\ connected[c] /\ working /\ Head(inbound[c]) \in Inbound
           /\ running # None => RunsOn(c)
           /\ \A K : cmd \notin K => (At(inbound[c], K)' # {} <=> At(inbound[c], K) # {})
           /\ \A K : AtMostOne(At(inbound[c], K)) => AtMostOne(At(inbound[c], K))'
           /\ \A K : cmd \in K => At(inbound[c], K) # {}
           /\ \A K : cmd \in K /\ AtMostOne(At(inbound[c], K)) => At(inbound[c], K)' = {}
           /\ \A K, j : Has(inbound[c], K, j) =>
                 Has(inbound[c], K, j)' \/ (cmd \in K /\ Head(inbound[c]).job = j)
  <1>1. /\ inbound[c] \in Seq(Inbound) /\ inbound[c] # <<>> /\ Head(inbound[c]).cmd = cmd
        /\ inbound'[c] = Tail(inbound[c])
    BY SaidTyped DEF Fetch, Typed, TypeOK
  <1>2. connected[c] /\ working /\ Head(inbound[c]) \in Inbound /\ (running # None => RunsOn(c))
    BY <1>1, TailFacts DEF Fetch, Served, RunsOn
  <1>3. ASSUME NEW K
        PROVE  /\ cmd \notin K => (At(inbound[c], K)' # {} <=> At(inbound[c], K) # {})
               /\ AtMostOne(At(inbound[c], K)) => AtMostOne(At(inbound[c], K))'
               /\ cmd \in K => At(inbound[c], K) # {}
               /\ cmd \in K /\ AtMostOne(At(inbound[c], K)) => At(inbound[c], K)' = {}
    <2>1. /\ At(inbound[c], K) = {} => At(Tail(inbound[c]), K) = {}
          /\ AtMostOne(At(inbound[c], K)) => AtMostOne(At(Tail(inbound[c]), K))
          /\ cmd \notin K /\ At(inbound[c], K) # {} => At(Tail(inbound[c]), K) # {}
          /\ cmd \in K => At(inbound[c], K) # {}
          /\ cmd \in K /\ AtMostOne(At(inbound[c], K)) => At(Tail(inbound[c]), K) = {}
      BY <1>1, TailKeeps
    <2> QED BY <1>1, <2>1
  <1>4. ASSUME NEW K, NEW j, Has(inbound[c], K, j)
        PROVE  Has(Tail(inbound[c]), K, j) \/ (cmd \in K /\ Head(inbound[c]).job = j)
    BY <1>1, <1>4, HasTail
  <1>5. \A K, j : Has(inbound[c], K, j) =>
                 Has(inbound[c], K, j)' \/ (cmd \in K /\ Head(inbound[c]).job = j)
    BY <1>1, <1>4
  <1> QED BY <1>2, <1>3, <1>5

\* The server reads a command.
LEMMA ReadFacts ==
    ASSUME Typed, NEW c \in Conns, wire[c] # <<>>,
           wire' = [wire EXCEPT ![c] = Tail(@)], outgoing' = outgoing
    PROVE  LET m == Head(wire[c]) IN
           /\ m \in Outbound
           /\ \A K : m.cmd \notin K => (At(Said(c), K)' # {} <=> At(Said(c), K) # {})
           /\ \A K : AtMostOne(At(Said(c), K)) => AtMostOne(At(Said(c), K))'
           /\ \A K : m.cmd \in K => At(Said(c), K) # {}
           /\ \A K : m.cmd \in K /\ AtMostOne(At(Said(c), K)) => At(Said(c), K)' = {}
           /\ \A K, j : Has(Said(c), K, j) => Has(Said(c), K, j)' \/ (m.cmd \in K /\ m.job = j)
           /\ \A A : LastCanDo(Said(c), A) =>
                 \/ LastCanDo(Said(c), A)'
                 \/ /\ At(Said(c), {"CAN_DO"})' = {}
                    /\ m.cmd = "CAN_DO" /\ m.tasks = A
  <1> DEFINE m == Head(wire[c])
  <1>1. /\ wire[c] \in Seq(Outbound) /\ outgoing[c] \in Seq(Outbound)
        /\ Said(c) \in Seq(Outbound)
    BY SaidTyped
  <1>2. wire'[c] = Tail(wire[c]) /\ outgoing'[c] = outgoing[c]
    BY DEF Typed, TypeOK
  <1>3. m \in Outbound
    BY <1>1, TailFacts
  <1>4. Said(c) # <<>> /\ Head(Said(c)) = m /\ Said(c)' = Tail(Said(c))
    <2>1. /\ wire[c] \o outgoing[c] # <<>> /\ Head(wire[c] \o outgoing[c]) = m
          /\ Tail(wire[c] \o outgoing[c]) = Tail(wire[c]) \o outgoing[c]
      BY <1>1, ConcatTail
    <2> QED BY <1>2, <2>1 DEF Said
  <1> HIDE DEF m
  <1>5. ASSUME NEW K
        PROVE  /\ m.cmd \notin K => (At(Said(c), K)' # {} <=> At(Said(c), K) # {})
               /\ AtMostOne(At(Said(c), K)) => AtMostOne(At(Said(c), K))'
               /\ m.cmd \in K => At(Said(c), K) # {}
               /\ m.cmd \in K /\ AtMostOne(At(Said(c), K)) => At(Said(c), K)' = {}
    <2>1. /\ At(Said(c), K) = {} => At(Tail(Said(c)), K) = {}
          /\ AtMostOne(At(Said(c), K)) => AtMostOne(At(Tail(Said(c)), K))
          /\ m.cmd \notin K /\ At(Said(c), K) # {} => At(Tail(Said(c)), K) # {}
          /\ m.cmd \in K => At(Said(c), K) # {}
          /\ m.cmd \in K /\ AtMostOne(At(Said(c), K)) => At(Tail(Said(c)), K) = {}
      BY <1>1, <1>4, TailKeeps
    <2> QED BY <1>4, <2>1
  <1>6. ASSUME NEW K, NEW j, Has(Said(c), K, j)
        PROVE  Has(Tail(Said(c)), K, j) \/ (m.cmd \in K /\ m.job = j)
    BY <1>1, <1>4, <1>6, HasTail
  <1>7. ASSUME NEW A, LastCanDo(Said(c), A)
        PROVE  \/ LastCanDo(Tail(Said(c)), A)
               \/ /\ At(Tail(Said(c)), {"CAN_DO"}) = {}
                  /\ m.cmd = "CAN_DO" /\ m.tasks = A
    BY <1>1, <1>4, <1>7, LastTail
  <1>8. \A K, j : Has(Said(c), K, j) => Has(Said(c), K, j)' \/ (m.cmd \in K /\ m.job = j)
    BY <1>4, <1>6
  <1>9. \A A : LastCanDo(Said(c), A) =>
                 \/ LastCanDo(Said(c), A)'
                 \/ /\ At(Said(c), {"CAN_DO"})' = {}
                    /\ m.cmd = "CAN_DO" /\ m.tasks = A
    BY <1>4, <1>7
  <1> QED BY <1>3, <1>5, <1>8, <1>9 DEF m

\* The server sends a command.
LEMMA HearFacts ==
    ASSUME Typed, NEW c \in Conns, NEW m \in Inbound, ServerSends(c, m)
    PROVE  /\ \A K : m.cmd \notin K => At(inbound[c], K)' = At(inbound[c], K)
           /\ \A K : m.cmd \in K => /\ At(inbound[c], K)' # {}
                                    /\ At(inbound[c], K) = {} => AtMostOne(At(inbound[c], K))'
           /\ \A K, j : Has(inbound[c], K, j) => Has(inbound[c], K, j)'
           /\ \A K, j : m.cmd \in K /\ m.job = j => Has(inbound[c], K, j)'
  <1>1. inbound[c] \in Seq(Inbound) /\ inbound'[c] = Append(inbound[c], m)
    BY SaidTyped DEF ServerSends, Typed, TypeOK
  <1>2. ASSUME NEW K
        PROVE  /\ m.cmd \notin K => At(Append(inbound[c], m), K) = At(inbound[c], K)
               /\ m.cmd \in K =>
                     At(Append(inbound[c], m), K) = At(inbound[c], K) \cup {Len(inbound[c]) + 1}
    BY <1>1, AtAppend
  <1>3. ASSUME NEW K
        PROVE  /\ m.cmd \notin K => At(inbound[c], K)' = At(inbound[c], K)
               /\ m.cmd \in K => /\ At(inbound[c], K)' # {}
                                 /\ At(inbound[c], K) = {} => AtMostOne(At(inbound[c], K))'
    <2>1. At(inbound[c], K)' = At(Append(inbound[c], m), K)
      BY <1>1
    <2>2. AtMostOne({} \cup {Len(inbound[c]) + 1})
      BY DEF AtMostOne
    <2> QED BY <1>2, <2>1, <2>2
  <1>4. ASSUME NEW K, NEW j
        PROVE  /\ Has(inbound[c], K, j) => Has(Append(inbound[c], m), K, j)
               /\ m.cmd \in K /\ m.job = j => Has(Append(inbound[c], m), K, j)
    BY <1>1, HasAppend
  <1>5. /\ \A K, j : Has(inbound[c], K, j) => Has(inbound[c], K, j)'
        /\ \A K, j : m.cmd \in K /\ m.job = j => Has(inbound[c], K, j)'
    BY <1>1, <1>4
  <1> QED BY <1>3, <1>5

-----------------------------------------------------------------------------
(***************************************************************************)
(* Each action keeps the invariant: the commands the worker receives.      *)
(***************************************************************************)

\* While the handler of c takes or gives back the lock, or no one does, and runs stay
\* where they are, no other connection has to do with it.
LEMMA OthersBeside ==
    ASSUME Typed, NEW c \in Conns, NEW d \in Conns \ {c},
           handlerOf'[d] = handlerOf[d], connected'[d] = connected[d],
           outgoing'[d] = outgoing[d], wire'[d] = wire[d], inbound'[d] = inbound[d],
           srv'[d] = srv[d], srvAbil'[d] = srvAbil[d],
           \/ lock' = lock
           \/ lock \in {None, Handler(c)} /\ lock' \in {None, Handler(c)},
           \/ running' = running
           \/ ~RunsOn(d) /\ ~RunsOn(d)'
    PROVE  Beside(d)
  <1>1. Handler(d) # None /\ Handler(d) # Handler(c)
    BY HandlersDiffer
  <1>2. (lock' = Handler(d)) <=> (lock = Handler(d))
    BY <1>1
  <1>3. /\ RunsOn(d)' <=> RunsOn(d)
        /\ RunsOn(d) => /\ running'.job = running.job
                        /\ (running'.step = "result") <=> (running.step = "result")
    BY DEF RunsOn
  <1> QED BY <1>2, <1>3 DEF Beside

LEMMA NoopKeeps ==
    ASSUME Inductive, NEW c \in Conns, RecvNoop(c)
    PROVE  WorkerInv' /\ (Owed => Owed')
  <1>1. /\ Typed /\ Busy /\ Connected(c) /\ Fetch(c, "NOOP")
        /\ UNCHANGED <<working, running, abilities, connected, handlerOf, wire, srv, srvAbil, job>>
    BY DEF Inductive, WorkerInv, RecvNoop, sessionVars, serverVars
  <1>2. /\ connected[c] /\ connected'[c] /\ (At(inbound[c], Answers)' # {} <=> At(inbound[c], Answers) # {})
        /\ AtMostOne(At(inbound[c], Answers)) => AtMostOne(At(inbound[c], Answers))'
        /\ \A j : Has(inbound[c], {"JOB_ASSIGN_UNIQ"}, j) => Has(inbound[c], {"JOB_ASSIGN_UNIQ"}, j)'
    BY <1>1, FetchFacts DEF Answers
  <1>3. /\ inbound' = [inbound EXCEPT ![c] = Tail(@)]
        /\ \/ lock' = lock /\ outgoing' = outgoing /\ lock = Handler(c)
           \/ /\ lock = None /\ lock' = Handler(c)
              /\ outgoing' = [outgoing EXCEPT ![c] = Append(@, Plain("GRAB_JOB_UNIQ"))]
           \/ /\ lock' = lock
              /\ outgoing' = [outgoing EXCEPT ![c] = Append(@, Plain("PRE_SLEEP"))]
    BY <1>1 DEF RecvNoop, Fetch, HoldsLock, Send
  <1>4. \A d \in Conns \ {c} : Beside(d)
    <2> SUFFICES ASSUME NEW d \in Conns \ {c} PROVE Beside(d)
      OBVIOUS
    <2>1. outgoing'[d] = outgoing[d] /\ inbound'[d] = inbound[d]
      BY <1>1, <1>3 DEF Typed, TypeOK
    <2> QED BY <1>1, <1>3, <2>1, OthersBeside
  <1>5. Busy' /\ RunsOn(c)' = RunsOn(c) /\ Handler(c)' = Handler(c)
    BY <1>1 DEF Busy, RunsOn, Handler
  <1>6. /\ Connected(c)' /\ \A j \in Jobs : HasIt(j, c) => HasIt(j, c)'
        /\ Waits(c) => Waits(c)'
        /\ lock' = lock \/ Waits(c)'
    <2>1. CASE lock' = lock /\ outgoing' = outgoing /\ lock = Handler(c)
      <3>1. Said(c)' = Said(c) /\ outgoing'[c] = outgoing[c]
        BY <1>1, <2>1 DEF Said
      <3>2. Closed(c)' /\ Grabbing(c)' /\ VerdictsWritten(c)'
        BY <1>1, <1>2, <1>5, <2>1, <3>1
        DEF Connected, Closed, Grabbing, VerdictsWritten
      <3>3. Wakeable(c)' /\ InSync(c)'
        BY <1>1, <1>2, <1>5, <2>1, <3>1 DEF Connected, Wakeable, InSync
      <3>4. \A j \in Jobs : HasIt(j, c) => HasIt(j, c)'
        BY <1>1, <1>2, <1>5, <2>1, <3>1 DEF HasIt, Handled, GivenUp
      <3>5. Waits(c) => Waits(c)'
        BY <1>1, <1>2, <1>5, <2>1, <3>1 DEF Waits
      <3> QED BY <2>1, <3>2, <3>3, <3>4, <3>5 DEF Connected
    <2>2. CASE /\ lock = None /\ lock' = Handler(c)
               /\ outgoing' = [outgoing EXCEPT ![c] = Append(@, Plain("GRAB_JOB_UNIQ"))]
      <3> DEFINE m == Plain("GRAB_JOB_UNIQ")
      <3>1. m \in Outbound /\ m.cmd = "GRAB_JOB_UNIQ"
        BY CommandFacts
      <3> HIDE DEF m
      <3>2. /\ At(outgoing[c], Verdicts)' = At(outgoing[c], Verdicts)
            /\ At(Said(c), {"CAN_DO"})' = At(Said(c), {"CAN_DO"})
            /\ At(Said(c), Asks) = {} => AtMostOne(At(Said(c), Asks))'
            /\ At(Said(c), Asks)' # {}
            /\ \A j : Has(Said(c), Verdicts, j) => Has(Said(c), Verdicts, j)'
            /\ \A A : LastCanDo(Said(c), A) => LastCanDo(Said(c), A)'
        BY <1>1, <2>2, <3>1, SendFacts DEF Verdicts, Asks, m
      <3>3. lock # Handler(c)
        BY <1>1, <2>2, HandlersDiffer
      <3>4. At(Said(c), Asks) = {} /\ At(inbound[c], Answers) = {} /\ ~RunsOn(c)
        BY <1>1, <1>2, <3>3 DEF Connected, Grabbing
      <3>5. Closed(c)' /\ Grabbing(c)' /\ VerdictsWritten(c)'
        BY <1>1, <1>2, <1>5, <2>2, <3>2, <3>4
        DEF Connected, Closed, Grabbing, VerdictsWritten
      <3>6. Wakeable(c)' /\ InSync(c)'
        BY <1>1, <1>5, <2>2, <3>2 DEF Connected, Wakeable, InSync
      <3>7. \A j \in Jobs : HasIt(j, c) => HasIt(j, c)'
        BY <1>1, <1>2, <1>5, <3>2, <3>3 DEF HasIt, Handled, GivenUp
      <3>8. Waits(c)'
        BY <1>2, <1>5, <2>2, <3>2 DEF Waits
      <3> QED BY <3>5, <3>6, <3>7, <3>8 DEF Connected
    <2>3. CASE /\ lock' = lock
               /\ outgoing' = [outgoing EXCEPT ![c] = Append(@, Plain("PRE_SLEEP"))]
      <3> DEFINE m == Plain("PRE_SLEEP")
      <3>1. m \in Outbound /\ m.cmd = "PRE_SLEEP"
        BY CommandFacts
      <3> HIDE DEF m
      <3>2. /\ At(outgoing[c], Verdicts)' = At(outgoing[c], Verdicts)
            /\ At(Said(c), {"CAN_DO"})' = At(Said(c), {"CAN_DO"})
            /\ At(Said(c), Asks)' = At(Said(c), Asks)
            /\ At(Said(c), {"PRE_SLEEP"})' # {}
            /\ \A j : Has(Said(c), Verdicts, j) => Has(Said(c), Verdicts, j)'
            /\ \A A : LastCanDo(Said(c), A) => LastCanDo(Said(c), A)'
        BY <1>1, <2>3, <3>1, SendFacts DEF Verdicts, Asks, m
      <3>5. Closed(c)' /\ Grabbing(c)' /\ VerdictsWritten(c)'
        BY <1>1, <1>2, <1>5, <2>3, <3>2
        DEF Connected, Closed, Grabbing, VerdictsWritten
      <3>6. Wakeable(c)' /\ InSync(c)'
        BY <1>1, <1>5, <2>3, <3>2 DEF Connected, Wakeable, InSync
      <3>7. \A j \in Jobs : HasIt(j, c) => HasIt(j, c)'
        BY <1>1, <1>2, <1>5, <2>3, <3>2 DEF HasIt, Handled, GivenUp
      <3>8. Waits(c) => Waits(c)'
        BY <1>1, <1>2, <1>5, <2>3, <3>2 DEF Waits
      <3> QED BY <2>3, <3>5, <3>6, <3>7, <3>8 DEF Connected
    <2> QED BY <1>3, <2>1, <2>2, <2>3
  <1>7. \A j \in Jobs : job'[j].state = "assigned" =>
           job[j].state = "assigned" /\ job'[j].server = job[j].server
    BY <1>1
  <1>8. WorkerInv'
    BY <1>1, <1>4, <1>5, <1>6, <1>7, OnlyAt
  <1>9. Owed => Owed'
    BY <1>4, <1>6, OwedStays
  <1> QED BY <1>8, <1>9

LEMMA NoJobKeeps ==
    ASSUME Inductive, NEW c \in Conns, RecvNoJob(c)
    PROVE  WorkerInv' /\ (Owed => Owed')
  <1> DEFINE m == Plain("PRE_SLEEP")
  <1>1. /\ Typed /\ Busy /\ Connected(c) /\ Fetch(c, "NO_JOB")
        /\ UNCHANGED <<working, running, abilities, connected, handlerOf, wire, srv, srvAbil, job>>
        /\ inbound' = [inbound EXCEPT ![c] = Tail(@)]
        /\ lock = Handler(c) /\ lock' = None
        /\ outgoing' = [outgoing EXCEPT ![c] = Append(@, m)]
    BY DEF Inductive, WorkerInv, RecvNoJob, Fetch, HoldsLock, Send, sessionVars, serverVars
  <1>2. m \in Outbound /\ m.cmd = "PRE_SLEEP"
    BY CommandFacts
  <1> HIDE DEF m
  <1>3. /\ At(outgoing[c], Verdicts)' = At(outgoing[c], Verdicts)
        /\ At(Said(c), {"CAN_DO"})' = At(Said(c), {"CAN_DO"})
        /\ At(Said(c), Asks)' = At(Said(c), Asks)
        /\ At(Said(c), {"PRE_SLEEP"})' # {}
        /\ \A j : Has(Said(c), Verdicts, j) => Has(Said(c), Verdicts, j)'
        /\ \A A : LastCanDo(Said(c), A) => LastCanDo(Said(c), A)'
    BY <1>1, <1>2, SendFacts DEF Verdicts, Asks
  <1>4. /\ connected[c] /\ At(inbound[c], Answers) # {}
        /\ AtMostOne(At(inbound[c], Answers)) => At(inbound[c], Answers)' = {}
        /\ \A j : Has(inbound[c], {"JOB_ASSIGN_UNIQ"}, j) => Has(inbound[c], {"JOB_ASSIGN_UNIQ"}, j)'
    <2>1. "NO_JOB" \in Answers /\ "NO_JOB" \notin {"JOB_ASSIGN_UNIQ"}
      BY DEF Answers
    <2>2. Typed /\ Fetch(c, "NO_JOB")
      BY <1>1
    <2>3. connected[c] /\ At(inbound[c], Answers) # {}
      BY <2>1, <2>2, FetchFacts
    <2>4. AtMostOne(At(inbound[c], Answers)) => At(inbound[c], Answers)' = {}
      BY <2>1, <2>2, FetchFacts
    <2>5. \A j : Has(inbound[c], {"JOB_ASSIGN_UNIQ"}, j) =>
                    Has(inbound[c], {"JOB_ASSIGN_UNIQ"}, j)'
      BY <2>1, <2>2, FetchFacts
    <2> QED BY <2>3, <2>4, <2>5
  <1>5. At(Said(c), Asks) = {} /\ ~RunsOn(c) /\ AtMostOne(At(inbound[c], Answers))
    BY <1>1, <1>4 DEF Connected, Grabbing
  <1>6. Busy' /\ RunsOn(c)' = RunsOn(c)
    BY <1>1 DEF Busy, RunsOn
  <1>7. Closed(c)' /\ Grabbing(c)' /\ VerdictsWritten(c)'
    BY <1>1, <1>3, <1>4, <1>5, <1>6
    DEF Connected, Closed, Grabbing, VerdictsWritten, AtMostOne
  <1>8. Wakeable(c)' /\ InSync(c)'
    BY <1>1, <1>3 DEF Connected, Wakeable, InSync
  <1>9. \A j \in Jobs : HasIt(j, c) => HasIt(j, c)'
    BY <1>1, <1>3, <1>4, <1>5, <1>6 DEF HasIt, Handled, GivenUp
  <1>10. \A d \in Conns \ {c} : Beside(d)
    <2> SUFFICES ASSUME NEW d \in Conns \ {c} PROVE Beside(d)
      OBVIOUS
    <2>1. outgoing'[d] = outgoing[d] /\ inbound'[d] = inbound[d]
      BY <1>1 DEF Typed, TypeOK
    <2> QED BY <1>1, <2>1, OthersBeside
  <1>11. WorkerInv'
    BY <1>1, <1>6, <1>7, <1>8, <1>9, <1>10, OnlyAt DEF Connected
  <1> QED BY <1>1, <1>11 DEF Owed

LEMMA AssignKeeps ==
    ASSUME Inductive, NEW c \in Conns, RecvJobAssign(c)
    PROVE  WorkerInv' /\ (Owed => Owed')
  <1>1. /\ Typed /\ Busy /\ Connected(c) /\ Fetch(c, "JOB_ASSIGN_UNIQ")
        /\ UNCHANGED <<working, lock, abilities, connected, handlerOf, outgoing, wire, srv,
                       srvAbil, job>>
        /\ inbound' = [inbound EXCEPT ![c] = Tail(@)]
        /\ lock = Handler(c) /\ running = None
    BY DEF Inductive, WorkerInv, RecvJobAssign, Fetch, HoldsLock, sessionVars, serverVars
  <1>2. /\ connected[c] /\ At(inbound[c], Answers) # {} /\ working
        /\ AtMostOne(At(inbound[c], Answers)) => At(inbound[c], Answers)' = {}
        /\ At(inbound[c], {"NOOP"})' # {} <=> At(inbound[c], {"NOOP"}) # {}
        /\ \A j : Has(inbound[c], {"JOB_ASSIGN_UNIQ"}, j) =>
               Has(inbound[c], {"JOB_ASSIGN_UNIQ"}, j)' \/ Head(inbound[c]).job = j
        /\ Head(inbound[c]).job \in Jobs
    <2>1. Head(inbound[c]).cmd = "JOB_ASSIGN_UNIQ"
      BY <1>1 DEF Fetch
    <2>2. /\ "JOB_ASSIGN_UNIQ" \in Answers /\ "JOB_ASSIGN_UNIQ" \in {"JOB_ASSIGN_UNIQ"}
          /\ "JOB_ASSIGN_UNIQ" \notin {"NOOP"}
      BY DEF Answers
    <2>3. Head(inbound[c]) \in Inbound
      BY <1>1, FetchFacts
    <2>4. Head(inbound[c]).job \in Jobs
      BY <2>1, <2>3, CommandFacts
    <2>5. Typed /\ Fetch(c, "JOB_ASSIGN_UNIQ")
      BY <1>1
    <2>6. /\ connected[c] /\ working /\ At(inbound[c], Answers) # {}
          /\ AtMostOne(At(inbound[c], Answers)) => At(inbound[c], Answers)' = {}
      BY <2>2, <2>5, FetchFacts
    <2>7. At(inbound[c], {"NOOP"})' # {} <=> At(inbound[c], {"NOOP"}) # {}
      BY <2>2, <2>5, FetchFacts
    <2>8. \A j : Has(inbound[c], {"JOB_ASSIGN_UNIQ"}, j) =>
               Has(inbound[c], {"JOB_ASSIGN_UNIQ"}, j)' \/ Head(inbound[c]).job = j
      BY <2>5, FetchFacts
    <2> QED BY <2>4, <2>6, <2>7, <2>8
  <1>3. At(Said(c), Asks) = {} /\ AtMostOne(At(inbound[c], Answers))
    BY <1>1, <1>2 DEF Connected, Grabbing
  <1>4. /\ running' = [conn |-> c, job |-> Head(inbound[c]).job, step |-> "callback"]
        /\ running' # None
    <2>1. running' = [conn |-> c, job |-> Head(inbound[c]).job, step |-> "callback"]
      BY DEF RecvJobAssign
    <2>2. running' \in [conn : Conns, job : Jobs, step : Steps]
      BY <1>2, <2>1 DEF Steps
    <2> QED BY <2>1, <2>2, ConstantsAssumption
  <1>5. /\ RunsOn(c)' /\ ~RunsOn(c) /\ Busy' /\ At(outgoing[c], Verdicts) = {}
        /\ Said(c)' = Said(c) /\ lock' = Handler(c)'
    BY <1>1, <1>2, <1>4 DEF RunsOn, Busy, Connected, VerdictsWritten, Said, Handler
  <1>6. Closed(c)' /\ Grabbing(c)'
    BY <1>1, <1>2, <1>3, <1>5 DEF Connected, Closed, Grabbing, AtMostOne
  <1>7. VerdictsWritten(c)' /\ Wakeable(c)'
    BY <1>1, <1>5 DEF VerdictsWritten, Wakeable
  <1>8. InSync(c)'
    BY <1>1, <1>5 DEF Connected, InSync
  <1>9. \A j \in Jobs : HasIt(j, c) => HasIt(j, c)'
    <2> SUFFICES ASSUME NEW j \in Jobs, HasIt(j, c) PROVE HasIt(j, c)'
      OBVIOUS
    <2>1. /\ connected[c] /\ srv[c] # "gone"
          /\ Has(inbound[c], {"JOB_ASSIGN_UNIQ"}, j) \/ Has(Said(c), Verdicts, j)
      BY <1>2, <1>5 DEF HasIt, Handled, GivenUp
    <2>2. CASE Has(Said(c), Verdicts, j)
      BY <1>1, <1>5, <2>1, <2>2 DEF HasIt, Handled
    <2>3. CASE Has(inbound[c], {"JOB_ASSIGN_UNIQ"}, j)
      <3>1. CASE Head(inbound[c]).job = j
        <4>1. running'.job = j /\ running'.step = "callback"
          BY <1>4, <3>1
        <4> QED BY <1>1, <1>5, <2>1, <4>1 DEF HasIt, Handled
      <3>2. CASE Has(inbound[c], {"JOB_ASSIGN_UNIQ"}, j)'
        BY <1>1, <2>1, <3>2 DEF HasIt, Handled
      <3> QED BY <1>2, <2>3, <3>1, <3>2
    <2> QED BY <2>1, <2>2, <2>3
  <1>10. \A d \in Conns \ {c} : Beside(d)
    <2> SUFFICES ASSUME NEW d \in Conns \ {c} PROVE Beside(d)
      OBVIOUS
    <2>1. outgoing'[d] = outgoing[d] /\ inbound'[d] = inbound[d]
      BY <1>1 DEF Typed, TypeOK
    <2>2. ~RunsOn(d) /\ ~RunsOn(d)'
      BY <1>1, <1>4 DEF RunsOn
    <2> QED BY <1>1, <2>1, <2>2, OthersBeside
  <1>11. WorkerInv'
    BY <1>1, <1>5, <1>6, <1>7, <1>8, <1>9, <1>10, OnlyAt DEF Connected
  <1>12. Waits(c)'
    BY <1>1, <1>2, <1>5 DEF Waits
  <1>13. Owed => Owed'
    BY <1>10, <1>12, OwedStays
  <1> QED BY <1>11, <1>13

\* A job that is assigned for a task no longer registered is given up: the lock stays.
LEMMA RaisesKeeps ==
    ASSUME Inductive, NEW c \in Conns, RecvRaises(c)
    PROVE  WorkerInv'
  <1>1. /\ Typed /\ Busy /\ Connected(c) /\ running = None
        /\ Fetch(c, "JOB_ASSIGN_UNIQ") \/ (Fetch(c, "NO_JOB") /\ ~HoldsLock(c))
        /\ UNCHANGED <<running, lock, abilities, connected, handlerOf, outgoing, wire, srv,
                       srvAbil, job>>
        /\ inbound' = [inbound EXCEPT ![c] = Tail(@)]
    BY DEF Inductive, WorkerInv, RecvRaises, Fetch, sessionVars, serverVars
  <1>2. /\ connected[c] /\ At(inbound[c], Answers) # {}
        /\ AtMostOne(At(inbound[c], Answers)) => At(inbound[c], Answers)' = {}
    <2>1. "NO_JOB" \in Answers /\ "JOB_ASSIGN_UNIQ" \in Answers
      BY DEF Answers
    <2>4. Typed
      BY <1>1
    <2>2. CASE Fetch(c, "NO_JOB")
      BY <2>1, <2>2, <2>4, FetchFacts
    <2>3. CASE Fetch(c, "JOB_ASSIGN_UNIQ")
      BY <2>1, <2>3, <2>4, FetchFacts
    <2> QED BY <1>1, <2>2, <2>3
  <1>3. At(Said(c), Asks) = {} /\ AtMostOne(At(inbound[c], Answers)) /\ lock = Handler(c)
    BY <1>1, <1>2 DEF Connected, Grabbing
  <1>4. ~RunsOn(c) /\ ~RunsOn(c)' /\ Busy' /\ Said(c)' = Said(c) /\ (lock = Handler(c))'
    BY <1>1, <1>3 DEF RunsOn, Busy, Said, Handler
  <1>5. Closed(c)' /\ Grabbing(c)' /\ VerdictsWritten(c)'
    BY <1>1, <1>2, <1>3, <1>4 DEF Connected, Closed, Grabbing, VerdictsWritten, AtMostOne
  <1>6. Wakeable(c)' /\ InSync(c)'
    BY <1>1, <1>4 DEF Connected, Wakeable, InSync
  <1>7. \A j \in Jobs : HasIt(j, c) => HasIt(j, c)'
    BY <1>1, <1>2, <1>3, <1>4 DEF HasIt, GivenUp
  <1>8. \A d \in Conns \ {c} : Beside(d)
    <2> SUFFICES ASSUME NEW d \in Conns \ {c} PROVE Beside(d)
      OBVIOUS
    <2>1. inbound'[d] = inbound[d]
      BY <1>1 DEF Typed, TypeOK
    <2> QED BY <1>1, <2>1, OthersBeside
  <1> QED BY <1>1, <1>4, <1>5, <1>6, <1>7, <1>8, OnlyAt DEF Connected

-----------------------------------------------------------------------------
(***************************************************************************)
(* A dead connection, a write, and the execution of a job.                 *)
(***************************************************************************)

\* What is left assigned when the sessions of S end was not assigned over them.
LEMMA RequeuedFacts ==
    ASSUME Typed, NEW S, job' = Requeued(S), NEW j \in Jobs, job'[j].state = "assigned"
    PROVE  job[j].state = "assigned" /\ job'[j].server = job[j].server /\ job[j].server \notin S
  <1>1. job[j] \in JobRecords /\ job'[j] = IF job[j].state = "assigned" /\ job[j].server \in S
                    THEN [job[j] EXCEPT !.state = "queued"] ELSE job[j]
    BY DEF Requeued, Typed, TypeOK
  <1>2. [job[j] EXCEPT !.state = "queued"].state = "queued"
    BY <1>1 DEF JobRecords
  <1> QED BY <1>1, <1>2

LEMMA HandleErrorKeeps ==
    ASSUME Inductive, NEW c \in Conns, HandleError(c), Busy',
           running' = running \/ (RunsOn(c) /\ (running' = None \/ RunsOn(c)'))
    PROVE  WorkerInv' /\ (Owed => Owed')
  <1>1. /\ Typed /\ abilities' = abilities
        /\ lock' = IF lock = Handler(c) THEN None ELSE lock
        /\ handlerOf' = [handlerOf EXCEPT ![c] = 0]
        /\ connected' = [d \in Conns |-> connected[d] /\ d \notin {c}]
        /\ outgoing' = [d \in Conns |-> IF d \in {c} THEN <<>> ELSE outgoing[d]]
        /\ wire' = [d \in Conns |-> IF d \in {c} THEN <<>> ELSE wire[d]]
        /\ inbound' = [d \in Conns |-> IF d \in {c} THEN <<>> ELSE inbound[d]]
        /\ srv' = [d \in Conns |-> IF d \in {c} THEN "gone" ELSE srv[d]]
        /\ srvAbil' = [d \in Conns |-> IF d \in {c} THEN {} ELSE srvAbil[d]]
        /\ job' = Requeued({c})
    BY DEF Inductive, HandleError, Close, Released, HoldsLock
  <1>2. /\ ~connected'[c] /\ outgoing'[c] = <<>> /\ wire'[c] = <<>> /\ inbound'[c] = <<>>
        /\ srv'[c] = "gone"
    BY <1>1
  <1>3. At(outgoing[c], Verdicts)' = {}
    BY <1>2, AtEmpty
  <1>4. Connected(c)'
    BY <1>2, <1>3 DEF Connected, Closed, Grabbing, VerdictsWritten, Wakeable, InSync
  <1>5. \A d \in Conns \ {c} : Beside(d)
    <2> SUFFICES ASSUME NEW d \in Conns \ {c} PROVE Beside(d)
      OBVIOUS
    <2>1. /\ handlerOf'[d] = handlerOf[d] /\ connected'[d] = connected[d]
          /\ outgoing'[d] = outgoing[d] /\ wire'[d] = wire[d] /\ inbound'[d] = inbound[d]
          /\ srv'[d] = srv[d] /\ srvAbil'[d] = srvAbil[d]
      <3>1. connected[d] \in BOOLEAN /\ handlerOf \in [Conns -> Nat]
        BY <1>1 DEF Typed, TypeOK
      <3> QED BY <1>1, <3>1
    <2>2. running' = running \/ (~RunsOn(d) /\ ~RunsOn(d)')
      BY DEF RunsOn
    <2>3. \/ lock' = lock
          \/ lock \in {None, Handler(c)} /\ lock' \in {None, Handler(c)}
      BY <1>1
    <2> QED BY <1>1, <2>1, <2>2, <2>3, OthersBeside
  <1>6. \A j \in Jobs : job'[j].state = "assigned" =>
           job[j].state = "assigned" /\ job'[j].server = job[j].server /\ job[j].server # c
    BY <1>1, RequeuedFacts
  <1>7. WorkerInv'
    BY <1>1, <1>4, <1>5, <1>6, OnlyAt
  <1>8. Owed => Owed'
    <2>1. Waits(c) => lock' = None
      BY <1>1 DEF Waits
    <2> QED BY <1>1, <1>5, <2>1, OwedStays
  <1> QED BY <1>7, <1>8

LEMMA DiesKeeps ==
    ASSUME Inductive, NEW c \in Conns, ConnectionDies(c)
    PROVE  WorkerInv' /\ (Owed => Owed')
  <1>1. HandleError(c) /\ running = None /\ running' = running
    BY DEF ConnectionDies, Polling
  <1>2. Busy'
    BY <1>1 DEF Busy
  <1> QED BY <1>1, <1>2, HandleErrorKeeps

LEMMA DiesInWaitKeeps ==
    ASSUME Inductive, ConnectionDiesInWait
    PROVE  WorkerInv' /\ (Owed => Owed')
  <1>1. PICK c \in Conns : c = running.conn
    BY DEF ConnectionDiesInWait, InWait, Inductive, Typed, TypeOK
  <1>2. /\ running # None /\ HandleError(c)
        /\ running \in [conn : Conns, job : Jobs, step : Steps]
        /\ working
    BY <1>1 DEF ConnectionDiesInWait, InWait, Inductive, WorkerInv, Busy, Typed, TypeOK
  <1>3. \/ running' = None
        \/ /\ running' = [running EXCEPT !.step = "callback"]
           /\ running' \in [conn : Conns, job : Jobs, step : Steps]
           /\ working'
    BY <1>2 DEF ConnectionDiesInWait, Steps
  <1>4. RunsOn(c) /\ (running' = None \/ RunsOn(c)')
    BY <1>1, <1>2, <1>3, ConstantsAssumption DEF RunsOn
  <1>5. Busy'
    BY <1>2, <1>3 DEF Busy
  <1> QED BY <1>2, <1>4, <1>5, HandleErrorKeeps

LEMMA WriteKeeps ==
    ASSUME Inductive, NEW c \in Conns, HandleWrite(c)
    PROVE  WorkerInv' /\ (Owed => Owed')
  <1>1. /\ Typed /\ Busy /\ Connected(c)
        /\ wire[c] \in Seq(Outbound) /\ outgoing[c] \in Seq(Outbound)
        /\ UNCHANGED <<working, running, lock, abilities, connected, handlerOf, inbound, srv,
                       srvAbil, job>>
    BY SaidTyped DEF Inductive, WorkerInv, HandleWrite, workerVars, sessionVars, serverVars
  <1>2. PICK n \in 1 .. Len(outgoing[c]) :
           /\ wire' = [wire EXCEPT ![c] = @ \o SubSeq(outgoing[c], 1, n)]
           /\ outgoing' = [outgoing EXCEPT ![c] = SubSeq(@, n + 1, Len(@))]
    BY DEF HandleWrite
  <1>3. /\ wire'[c] = wire[c] \o SubSeq(outgoing[c], 1, n)
        /\ outgoing'[c] = SubSeq(outgoing[c], n + 1, Len(outgoing[c]))
        /\ \A d \in Conns \ {c} : wire'[d] = wire[d] /\ outgoing'[d] = outgoing[d]
    BY <1>1, <1>2 DEF Typed, TypeOK
  <1>4. /\ Said(c)' = Said(c)
        /\ \A i \in 1 .. Len(SubSeq(outgoing[c], n + 1, Len(outgoing[c]))) :
              \E k \in 1 .. Len(outgoing[c]) :
                 SubSeq(outgoing[c], n + 1, Len(outgoing[c]))[i] = outgoing[c][k]
    <2>1. /\ Glued(Glued(wire[c], Firsts(outgoing[c], n)), Rest(outgoing[c], n))
                = Glued(wire[c], outgoing[c])
          /\ \A i \in 1 .. Len(Rest(outgoing[c], n)) :
                \E k \in 1 .. Len(outgoing[c]) : Rest(outgoing[c], n)[i] = outgoing[c][k]
      <3> DEFINE w == wire[c]
                 q == outgoing[c]
      <3>1. w \in Seq(Outbound) /\ q \in Seq(Outbound) /\ n \in 1 .. Len(q)
        BY <1>1
      <3> HIDE DEF w, q
      <3>2. Glued(Glued(w, Firsts(q, n)), Rest(q, n)) = Glued(w, q)
        BY <3>1, ConcatWrite
      <3>3. \A i \in 1 .. Len(Rest(q, n)) : \E k \in 1 .. Len(q) : Rest(q, n)[i] = q[k]
        BY <3>1, ConcatWrite
      <3> QED BY <3>2, <3>3 DEF w, q
    <2> QED BY <1>3, <2>1 DEF Said, Glued, Firsts, Rest
  <1>5. Said(c)' = Said(c) /\ Busy' /\ RunsOn(c)' = RunsOn(c) /\ Handler(c)' = Handler(c)
    BY <1>1, <1>4 DEF Busy, RunsOn, Handler
  <1>6. At(outgoing[c], Verdicts)' # {} => At(outgoing[c], Verdicts) # {}
    <2> DEFINE q == outgoing[c]
               r == outgoing'[c]
    <2>1. \A i \in 1 .. Len(r) : \E k \in 1 .. Len(q) : r[i] = q[k]
      BY <1>3, <1>4
    <2> HIDE DEF q, r
    <2>2. At(r, Verdicts) # {} => At(q, Verdicts) # {}
      BY <2>1 DEF At
    <2> QED BY <2>2 DEF q, r
  <1>7. Closed(c)' /\ Grabbing(c)' /\ VerdictsWritten(c)'
    <2>1. connected[c]
      BY DEF HandleWrite, Served
    <2> QED BY <1>1, <1>5, <1>6, <2>1 DEF Connected, Closed, Grabbing, VerdictsWritten
  <1>8. Wakeable(c)' /\ InSync(c)'
    BY <1>1, <1>5 DEF Connected, Wakeable, InSync
  <1>9. \A j \in Jobs : HasIt(j, c) => HasIt(j, c)'
    BY <1>1, <1>5 DEF HasIt, Handled, GivenUp
  <1>10. \A d \in Conns \ {c} : Beside(d)
    BY <1>1, <1>3, OthersBeside
  <1>11. WorkerInv'
    BY <1>1, <1>5, <1>7, <1>8, <1>9, <1>10, OnlyAt DEF Connected
  <1>12. Owed => Owed'
    <2>1. Waits(c) => Waits(c)'
      BY <1>1, <1>5 DEF Waits
    <2> QED BY <1>1, <1>10, <2>1, OwedStays
  <1> QED BY <1>11, <1>12

\* What a step of the execution begins with.
LEMMA RunningFacts ==
    ASSUME Inductive, running # None
    PROVE  /\ Typed /\ Busy /\ working
           /\ running \in [conn : Conns, job : Jobs, step : Steps]
           /\ running.conn \in Conns /\ running.job \in Jobs
           /\ RunsOn(running.conn) /\ Connected(running.conn)
           /\ \A d \in Conns : d # running.conn => ~RunsOn(d)
           /\ \A s \in Steps :
                 /\ [running EXCEPT !.step = s] \in [conn : Conns, job : Jobs, step : Steps]
                 /\ [running EXCEPT !.step = s] # None
                 /\ [running EXCEPT !.step = s].conn = running.conn
                 /\ [running EXCEPT !.step = s].job = running.job
                 /\ [running EXCEPT !.step = s].step = s
  <1>1. /\ Typed /\ Busy /\ working
        /\ running \in [conn : Conns, job : Jobs, step : Steps]
    BY DEF Inductive, WorkerInv, Busy, Typed, TypeOK
  <1>2. /\ running.conn \in Conns /\ running.job \in Jobs
        /\ RunsOn(running.conn) /\ Connected(running.conn)
        /\ \A d \in Conns : d # running.conn => ~RunsOn(d)
    BY <1>1 DEF Inductive, WorkerInv, RunsOn
  <1>3. ASSUME NEW s \in Steps
        PROVE  /\ [running EXCEPT !.step = s] \in [conn : Conns, job : Jobs, step : Steps]
               /\ [running EXCEPT !.step = s].conn = running.conn
               /\ [running EXCEPT !.step = s].job = running.job
               /\ [running EXCEPT !.step = s].step = s
    BY <1>1
  <1> QED BY <1>1, <1>2, <1>3, ConstantsAssumption

\* A command is queued on the connection of the job that runs, and the wait for it begins:
\* an update, or the verdict.
LEMMA JobSendsKeeps ==
    ASSUME Inductive, JobUpdate \/ \E verdict \in Verdicts : JobReturns(verdict)
    PROVE  WorkerInv' /\ (Owed => Owed')
  <1>1. PICK c \in Conns, m \in Outbound, s \in {"update", "result"} :
           /\ running # None /\ c = running.conn /\ running.step = "callback" /\ connected[c]
           /\ outgoing' = [outgoing EXCEPT ![c] = Append(@, m)]
           /\ running' = [running EXCEPT !.step = s]
           /\ \/ m.cmd = "WORK_STATUS" /\ s = "update"
              \/ m.cmd \in Verdicts /\ m.job = running.job /\ s = "result"
    <2>1. running # None
      BY DEF JobUpdate, JobReturns, InCallback
    <2>2. running.conn \in Conns /\ running.job \in Jobs
      BY <2>1, RunningFacts
    <2>3. CASE JobUpdate
      <3>1. Plain("WORK_STATUS") \in Outbound /\ Plain("WORK_STATUS").cmd = "WORK_STATUS"
        BY CommandFacts
      <3> QED BY <2>1, <2>2, <2>3, <3>1 DEF JobUpdate, InCallback, Send
    <2>4. ASSUME NEW verdict \in Verdicts, JobReturns(verdict)
          PROVE  \E d \in Conns, e \in Outbound, s \in {"update", "result"} :
                    /\ running # None /\ d = running.conn /\ running.step = "callback"
                    /\ connected[d]
                    /\ outgoing' = [outgoing EXCEPT ![d] = Append(@, e)]
                    /\ running' = [running EXCEPT !.step = s]
                    /\ \/ e.cmd = "WORK_STATUS" /\ s = "update"
                       \/ e.cmd \in Verdicts /\ e.job = running.job /\ s = "result"
      <3> DEFINE e == AboutJob(verdict, running.job)
      <3>1. e \in Outbound /\ e.cmd = verdict /\ e.job = running.job
        BY <2>2, CommandFacts
      <3> QED BY <2>1, <2>2, <2>4, <3>1 DEF JobReturns, InCallback, Send
    <2> QED BY <2>3, <2>4
  <1>2. /\ Typed /\ Busy /\ working /\ RunsOn(c) /\ Connected(c)
        /\ running' # None /\ running'.conn = c /\ running'.job = running.job
        /\ running'.step = s
        /\ \A d \in Conns \ {c} : ~RunsOn(d)
    BY <1>1, RunningFacts DEF Steps
  <1>3. UNCHANGED <<working, lock, abilities, connected, handlerOf, wire, inbound, srv, srvAbil,
                    job>>
    BY DEF JobUpdate, JobReturns, sessionVars, serverVars
  <1>4. /\ m.cmd \notin {"CAN_DO"} /\ m.cmd \notin Asks /\ m.cmd \notin {"PRE_SLEEP"}
        /\ s = "update" => m.cmd \notin Verdicts
    BY <1>1 DEF Verdicts, Asks
  <1>5. /\ s = "update" => At(outgoing[c], Verdicts)' = At(outgoing[c], Verdicts)
        /\ At(Said(c), {"CAN_DO"})' = At(Said(c), {"CAN_DO"})
        /\ At(Said(c), Asks)' = At(Said(c), Asks)
        /\ At(Said(c), {"PRE_SLEEP"})' = At(Said(c), {"PRE_SLEEP"})
    <2>1. Typed /\ outgoing' = [outgoing EXCEPT ![c] = Append(@, m)] /\ wire' = wire
      BY <1>1, <1>2, <1>3
    <2>2. \A K : m.cmd \notin K => /\ At(Said(c), K)' = At(Said(c), K)
                                   /\ At(outgoing[c], K)' = At(outgoing[c], K)
      BY <2>1, SendFacts
    <2> QED BY <1>4, <2>2
  <1>13. PICK k : k = running.job
    OBVIOUS
  <1>6. /\ \A j : Has(Said(c), Verdicts, j) => Has(Said(c), Verdicts, j)'
        /\ s = "result" => Has(Said(c), Verdicts, k)'
        /\ \A A : LastCanDo(Said(c), A) => LastCanDo(Said(c), A)'
    <2>1. m.cmd # "CAN_DO"
      BY <1>4
    <2>2. s = "result" => m.cmd \in Verdicts /\ m.job = running.job
      BY <1>1
    <2>3. \A j : Has(Said(c), Verdicts, j) => Has(Said(c), Verdicts, j)'
      BY <1>1, <1>2, <1>3, SendFacts
    <2>4. \A j : m.cmd \in Verdicts /\ m.job = j => Has(Said(c), Verdicts, j)'
      BY <1>1, <1>2, <1>3, SendFacts
    <2>6. \A A : LastCanDo(Said(c), A) => LastCanDo(Said(c), A)'
      BY <1>1, <1>2, <1>3, <2>1, SendFacts
    <2>7. s = "result" => Has(Said(c), Verdicts, k)'
      BY <1>13, <2>2, <2>4
    <2> QED BY <2>3, <2>6, <2>7
  <1>7. RunsOn(c)' /\ Busy' /\ Handler(c)' = Handler(c)
    BY <1>1, <1>2, <1>3 DEF RunsOn, Busy, Handler
  <1>8. Closed(c)' /\ Grabbing(c)'
    BY <1>1, <1>2, <1>3, <1>5, <1>7 DEF Connected, Closed, Grabbing
  <1>9. VerdictsWritten(c)'
    BY <1>1, <1>2, <1>5, <1>7 DEF Connected, VerdictsWritten
  <1>10. Wakeable(c)' /\ InSync(c)'
    BY <1>2, <1>3, <1>5, <1>6, <1>7 DEF Connected, Wakeable, InSync
  <1>11. \A j \in Jobs : HasIt(j, c) => HasIt(j, c)'
    BY <1>1, <1>2, <1>3, <1>6, <1>7, <1>13 DEF HasIt, Handled, GivenUp
  <1>12. \A d \in Conns \ {c} : Beside(d)
    <2> SUFFICES ASSUME NEW d \in Conns \ {c} PROVE Beside(d)
      OBVIOUS
    <2>1. outgoing'[d] = outgoing[d]
      BY <1>1, <1>2 DEF Typed, TypeOK
    <2>2. ~RunsOn(d) /\ ~RunsOn(d)'
      BY <1>2 DEF RunsOn
    <2> QED BY <1>2, <1>3, <2>1, <2>2, OthersBeside
  <1>14. WorkerInv'
    BY <1>3, <1>7, <1>8, <1>9, <1>10, <1>11, <1>12, OnlyAt DEF Connected
  <1>15. Owed => Owed'
    <2>1. Waits(c) => Waits(c)'
      BY <1>3, <1>7 DEF Waits
    <2> QED BY <1>3, <1>12, <2>1, OwedStays
  <1> QED BY <1>14, <1>15

\* The callback is left without a verdict: its connection is closed, or an exception
\* that nobody catches gives the job up.
LEMMA JobLeftKeeps ==
    ASSUME Inductive, JobReturnsInVain \/ JobInterrupted
    PROVE  WorkerInv' /\ (JobReturnsInVain /\ Owed => Owed')
  <1>1. running # None /\ running.step = "callback"
    BY DEF JobReturnsInVain, JobInterrupted, InCallback
  <1>2. PICK c \in Conns : c = running.conn
    BY <1>1, RunningFacts
  <1>3. /\ Typed /\ Busy /\ working /\ RunsOn(c) /\ Connected(c)
        /\ \A d \in Conns \ {c} : ~RunsOn(d)
    BY <1>1, <1>2, RunningFacts
  <1>4. /\ running' = None
        /\ UNCHANGED <<lock, abilities, connected, handlerOf, outgoing, wire, inbound, srv,
                       srvAbil, job>>
    BY DEF JobReturnsInVain, JobInterrupted, sessionVars, serverVars
  <1>5. Busy' /\ ~RunsOn(c)' /\ Said(c)' = Said(c) /\ Handler(c)' = Handler(c)
    BY <1>4 DEF Busy, RunsOn, Said, Handler
  <1>6. Closed(c)' /\ Grabbing(c)' /\ VerdictsWritten(c)'
    BY <1>1, <1>3, <1>4, <1>5 DEF Connected, Closed, Grabbing, VerdictsWritten
  <1>7. Wakeable(c)' /\ InSync(c)'
    BY <1>3, <1>4, <1>5 DEF Connected, Wakeable, InSync
  <1>8. \A j \in Jobs : HasIt(j, c) => HasIt(j, c)'
    <2>1. connected[c] => /\ lock = Handler(c)
                          /\ At(Said(c), Asks) = {} /\ At(inbound[c], Answers) = {}
      BY <1>3 DEF Connected, Grabbing
    <2> QED BY <1>3, <1>4, <1>5, <2>1 DEF HasIt, GivenUp
  <1>9. \A d \in Conns \ {c} : Beside(d)
    <2> SUFFICES ASSUME NEW d \in Conns \ {c} PROVE Beside(d)
      OBVIOUS
    <2>1. ~RunsOn(d) /\ ~RunsOn(d)'
      BY <1>3, <1>4 DEF RunsOn
    <2> QED BY <1>3, <1>4, <2>1, OthersBeside
  <1>10. WorkerInv'
    BY <1>4, <1>5, <1>6, <1>7, <1>8, <1>9, OnlyAt DEF Connected
  <1>11. JobReturnsInVain /\ Owed => Owed'
    <2>1. JobReturnsInVain => ~Waits(c)
      BY <1>2 DEF JobReturnsInVain, Waits
    <2> QED BY <1>4, <1>9, <2>1, OwedStays
  <1> QED BY <1>10, <1>11

LEMMA UpdateSentKeeps ==
    ASSUME Inductive, UpdateSent
    PROVE  WorkerInv' /\ (Owed => Owed')
  <1>1. /\ running # None /\ running.step = "update"
        /\ running' = [running EXCEPT !.step = "callback"]
        /\ UNCHANGED <<working, lock, abilities, connected, handlerOf, outgoing, wire, inbound,
                       srv, srvAbil, job>>
    BY DEF UpdateSent, InWait, sessionVars, serverVars
  <1>2. /\ Busy /\ working /\ running' # None /\ running'.conn = running.conn
        /\ running'.job = running.job /\ running'.step = "callback"
    BY <1>1, RunningFacts DEF Steps
  <1>3. Busy'
    BY <1>1, <1>2 DEF Busy
  <1>4. \A d \in Conns : Beside(d)
    BY <1>1, <1>2 DEF Beside, RunsOn
  <1> QED BY <1>1, <1>3, <1>4, OnlyBeside, OwedBeside

LEMMA ResultSentKeeps ==
    ASSUME Inductive, ResultSent
    PROVE  WorkerInv' /\ (Owed => Owed')
  <1>1. PICK c \in Conns : c = running.conn /\ running # None
    BY RunningFacts DEF ResultSent, InWait
  <1> DEFINE m == Plain("PRE_SLEEP")
  <1>2. /\ Typed /\ Busy /\ working /\ RunsOn(c) /\ Connected(c)
        /\ \A d \in Conns \ {c} : ~RunsOn(d)
    BY <1>1, RunningFacts
  <1>3. /\ running.step = "result" /\ outgoing[c] = <<>> /\ lock = Handler(c) /\ lock' = None
        /\ running' = None
        /\ outgoing' = [outgoing EXCEPT ![c] = Append(@, m)]
        /\ UNCHANGED <<working, abilities, connected, handlerOf, wire, inbound, srv, srvAbil, job>>
    BY <1>1 DEF ResultSent, HoldsLock, Send, sessionVars, serverVars
  <1>4. connected[c]
    BY <1>1, <1>2, <1>3 DEF Busy
  <1>5. m \in Outbound /\ m.cmd = "PRE_SLEEP"
    BY CommandFacts
  <1> HIDE DEF m
  <1>6. /\ At(outgoing[c], Verdicts)' = At(outgoing[c], Verdicts)
        /\ At(Said(c), {"CAN_DO"})' = At(Said(c), {"CAN_DO"})
        /\ At(Said(c), Asks)' = At(Said(c), Asks)
        /\ At(Said(c), {"PRE_SLEEP"})' # {}
        /\ \A j : Has(Said(c), Verdicts, j) => Has(Said(c), Verdicts, j)'
        /\ \A A : LastCanDo(Said(c), A) => LastCanDo(Said(c), A)'
    BY <1>2, <1>3, <1>5, SendFacts DEF Verdicts, Asks
  <1>7. At(outgoing[c], Verdicts) = {}
    BY <1>3, AtEmpty
  <1>8. Busy' /\ ~RunsOn(c)'
    BY <1>3 DEF Busy, RunsOn
  <1>9. At(Said(c), Asks) = {} /\ At(inbound[c], Answers) = {}
    BY <1>2, <1>4 DEF Connected, Grabbing
  <1>10. Closed(c)' /\ Grabbing(c)' /\ VerdictsWritten(c)'
    BY <1>3, <1>4, <1>6, <1>7, <1>8, <1>9
    DEF Closed, Grabbing, VerdictsWritten, AtMostOne
  <1>11. Wakeable(c)' /\ InSync(c)'
    BY <1>2, <1>3, <1>6 DEF Connected, Wakeable, InSync
  <1>12. \A j \in Jobs : HasIt(j, c) => HasIt(j, c)'
    BY <1>2, <1>3, <1>6, <1>9 DEF HasIt, Handled, GivenUp
  <1>13. \A d \in Conns \ {c} : Beside(d)
    <2> SUFFICES ASSUME NEW d \in Conns \ {c} PROVE Beside(d)
      OBVIOUS
    <2>1. outgoing'[d] = outgoing[d]
      BY <1>2, <1>3 DEF Typed, TypeOK
    <2>2. ~RunsOn(d) /\ ~RunsOn(d)'
      BY <1>2, <1>3 DEF RunsOn
    <2> QED BY <1>2, <1>3, <2>1, <2>2, OthersBeside
  <1>14. WorkerInv'
    BY <1>3, <1>8, <1>10, <1>11, <1>12, <1>13, OnlyAt DEF Connected
  <1> QED BY <1>3, <1>14 DEF Owed

-----------------------------------------------------------------------------
(***************************************************************************)
(* The servers and the clients.                                            *)
(***************************************************************************)

LEMMA WakesKeeps ==
    ASSUME Inductive, NEW c \in Conns, ServerWakes(c)
    PROVE  WorkerInv' /\ (Owed => Owed')
  <1> DEFINE m == Plain("NOOP")
  <1>1. /\ Typed /\ Busy /\ Connected(c) /\ srv[c] # "gone"
        /\ ServerSends(c, m) /\ srv' = [srv EXCEPT ![c] = "woken"]
        /\ UNCHANGED <<working, running, lock, abilities, connected, handlerOf, outgoing, wire,
                       srvAbil, job>>
    BY DEF Inductive, WorkerInv, ServerWakes, workerVars, sessionVars
  <1>2. m \in Inbound /\ m.cmd = "NOOP"
    BY CommandFacts
  <1> HIDE DEF m
  <1>3. /\ At(inbound[c], Answers)' = At(inbound[c], Answers)
        /\ At(inbound[c], {"NOOP"})' # {}
        /\ \A j : Has(inbound[c], {"JOB_ASSIGN_UNIQ"}, j) => Has(inbound[c], {"JOB_ASSIGN_UNIQ"}, j)'
    BY <1>1, <1>2, HearFacts DEF Answers
  <1>4. connected[c]
    BY <1>1 DEF Connected, Closed
  <1>5. /\ Busy' /\ RunsOn(c)' = RunsOn(c) /\ Said(c)' = Said(c) /\ Handler(c)' = Handler(c)
        /\ srv'[c] = "woken"
    BY <1>1 DEF Busy, RunsOn, Said, Handler, Typed, TypeOK
  <1>6. Closed(c)' /\ Grabbing(c)' /\ VerdictsWritten(c)'
    BY <1>1, <1>3, <1>4, <1>5 DEF Connected, Closed, Grabbing, VerdictsWritten
  <1>7. Wakeable(c)' /\ InSync(c)'
    BY <1>1, <1>3, <1>4, <1>5 DEF Connected, Wakeable, InSync
  <1>8. \A j \in Jobs : HasIt(j, c) => HasIt(j, c)'
    BY <1>1, <1>3, <1>4, <1>5 DEF HasIt, Handled, GivenUp
  <1>9. \A d \in Conns \ {c} : Beside(d)
    <2> SUFFICES ASSUME NEW d \in Conns \ {c} PROVE Beside(d)
      OBVIOUS
    <2>1. inbound'[d] = inbound[d] /\ srv'[d] = srv[d]
      BY <1>1 DEF ServerSends, Typed, TypeOK
    <2> QED BY <1>1, <2>1, OthersBeside
  <1>10. WorkerInv'
    BY <1>1, <1>5, <1>6, <1>7, <1>8, <1>9, OnlyAt DEF Connected
  <1>11. Owed => Owed'
    <2>1. Waits(c) => Waits(c)'
      BY <1>1, <1>3, <1>5 DEF Waits
    <2> QED BY <1>1, <1>9, <2>1, OwedStays
  <1> QED BY <1>10, <1>11

\* What is true of every command the server reads.
LEMMA ReadsBegins ==
    ASSUME Inductive, NEW c \in Conns, ServerReads(c)
    PROVE  /\ Typed /\ Busy' /\ Connected(c) /\ connected[c] /\ srv[c] # "gone"
           /\ wire[c] # <<>> /\ wire' = [wire EXCEPT ![c] = Tail(@)]
           /\ UNCHANGED <<working, running, lock, abilities, connected, handlerOf, outgoing>>
           /\ RunsOn(c)' = RunsOn(c) /\ Handler(c)' = Handler(c)
           /\ At(outgoing[c], Verdicts)' = At(outgoing[c], Verdicts)
           /\ VerdictsWritten(c)' /\ Closed(c)'
           /\ \A d \in Conns \ {c} : wire'[d] = wire[d] /\ outgoing'[d] = outgoing[d]
  <1>1. /\ Typed /\ Busy /\ Connected(c) /\ srv[c] # "gone" /\ wire[c] # <<>>
        /\ wire' = [wire EXCEPT ![c] = Tail(@)]
        /\ UNCHANGED <<working, running, lock, abilities, connected, handlerOf, outgoing>>
    BY DEF Inductive, WorkerInv, ServerReads, workerVars, sessionVars
  <1>2. connected[c]
    BY <1>1 DEF Connected, Closed
  <1>3. /\ Busy' /\ RunsOn(c)' = RunsOn(c) /\ Handler(c)' = Handler(c)
        /\ At(outgoing[c], Verdicts)' = At(outgoing[c], Verdicts)
    BY <1>1 DEF Busy, RunsOn, Handler
  <1>4. VerdictsWritten(c)' /\ Closed(c)'
    BY <1>1, <1>2, <1>3 DEF Connected, VerdictsWritten, Closed
  <1>5. \A d \in Conns \ {c} : wire'[d] = wire[d] /\ outgoing'[d] = outgoing[d]
    BY <1>1 DEF Typed, TypeOK
  <1> QED BY <1>1, <1>2, <1>3, <1>4, <1>5

LEMMA GrantsKeeps ==
    ASSUME Inductive, NEW c \in Conns, ServerReads(c), ServerGrants(c)
    PROVE  WorkerInv' /\ (Owed => Owed')
  <1>1. /\ Typed /\ Busy' /\ Connected(c) /\ connected[c] /\ srv[c] # "gone"
        /\ wire[c] # <<>> /\ wire' = [wire EXCEPT ![c] = Tail(@)]
        /\ UNCHANGED <<working, running, lock, abilities, connected, handlerOf, outgoing>>
        /\ RunsOn(c)' = RunsOn(c) /\ Handler(c)' = Handler(c)
        /\ VerdictsWritten(c)' /\ Closed(c)'
        /\ \A d \in Conns \ {c} : wire'[d] = wire[d] /\ outgoing'[d] = outgoing[d]
    BY ReadsBegins
  <1>2. /\ Head(wire[c]).cmd = "GRAB_JOB_UNIQ"
        /\ srv' = [srv EXCEPT ![c] = "awake"]
        /\ srvAbil' = srvAbil /\ srv'[c] = "awake"
    BY <1>1 DEF ServerGrants, Typed, TypeOK
  <1>3. PICK m \in Inbound :
           /\ ServerSends(c, m) /\ m.cmd \in Answers
           /\ \/ job' = job
              \/ /\ m.cmd = "JOB_ASSIGN_UNIQ" /\ m.job \in Doable(c)
                 /\ job' = [job EXCEPT ![m.job].state = "assigned"]
    <2>1. CASE ServerSends(c, Plain("NO_JOB")) /\ UNCHANGED job
      BY <2>1, CommandFacts DEF Answers
    <2>2. CASE \E j \in Doable(c) : /\ ServerSends(c, AboutJob("JOB_ASSIGN_UNIQ", j))
                                    /\ job' = [job EXCEPT ![j].state = "assigned"]
      <3>1. PICK j \in Doable(c) : /\ ServerSends(c, AboutJob("JOB_ASSIGN_UNIQ", j))
                                   /\ job' = [job EXCEPT ![j].state = "assigned"]
        BY <2>2
      <3>2. j \in Jobs
        BY DEF Doable
      <3> DEFINE e == AboutJob("JOB_ASSIGN_UNIQ", j)
      <3>3. e \in Inbound /\ e.cmd = "JOB_ASSIGN_UNIQ" /\ e.job = j
        BY <3>2, CommandFacts
      <3> HIDE DEF e
      <3>4. /\ ServerSends(c, e) /\ e.cmd \in Answers /\ e.job \in Doable(c)
            /\ job' = [job EXCEPT ![e.job].state = "assigned"]
        BY <3>1, <3>3 DEF Answers, e
      <3> QED BY <3>3, <3>4
    <2> QED BY <2>1, <2>2 DEF ServerGrants
  <1>4. /\ At(Said(c), Asks) # {}
        /\ AtMostOne(At(Said(c), Asks)) => At(Said(c), Asks)' = {}
        /\ At(Said(c), {"CAN_DO"})' # {} <=> At(Said(c), {"CAN_DO"}) # {}
        /\ \A A : LastCanDo(Said(c), A) => LastCanDo(Said(c), A)'
        /\ \A j : Has(Said(c), Verdicts, j) => Has(Said(c), Verdicts, j)'
    <2>1. /\ Head(wire[c]).cmd \in Asks /\ Head(wire[c]).cmd \notin {"CAN_DO"}
          /\ Head(wire[c]).cmd \notin Verdicts
      BY <1>2 DEF Asks, Verdicts
    <2>2. /\ At(Said(c), Asks) # {}
          /\ AtMostOne(At(Said(c), Asks)) => At(Said(c), Asks)' = {}
          /\ At(Said(c), {"CAN_DO"})' # {} <=> At(Said(c), {"CAN_DO"}) # {}
      BY <1>1, <2>1, ReadFacts
    <2>3. \A A : LastCanDo(Said(c), A) => LastCanDo(Said(c), A)'
      BY <1>1, <2>1, ReadFacts
    <2>4. \A j : Has(Said(c), Verdicts, j) => Has(Said(c), Verdicts, j)'
      BY <1>1, <2>1, ReadFacts
    <2> QED BY <2>2, <2>3, <2>4
  <1>5. /\ At(inbound[c], Answers) = {} /\ ~RunsOn(c) /\ lock = Handler(c)
        /\ AtMostOne(At(Said(c), Asks))
    BY <1>1, <1>4 DEF Connected, Grabbing
  <1>6. /\ AtMostOne(At(inbound[c], Answers))'
        /\ \A j : Has(inbound[c], {"JOB_ASSIGN_UNIQ"}, j) => Has(inbound[c], {"JOB_ASSIGN_UNIQ"}, j)'
        /\ \A j : m.cmd = "JOB_ASSIGN_UNIQ" /\ m.job = j => Has(inbound[c], {"JOB_ASSIGN_UNIQ"}, j)'
    <2>1. AtMostOne(At(inbound[c], Answers))'
      BY <1>1, <1>3, <1>5, HearFacts
    <2>2. \A j : Has(inbound[c], {"JOB_ASSIGN_UNIQ"}, j) => Has(inbound[c], {"JOB_ASSIGN_UNIQ"}, j)'
      BY <1>1, <1>3, HearFacts
    <2>3. \A j : m.cmd \in {"JOB_ASSIGN_UNIQ"} /\ m.job = j => Has(inbound[c], {"JOB_ASSIGN_UNIQ"}, j)'
      BY <1>1, <1>3, HearFacts
    <2> QED BY <2>1, <2>2, <2>3
  <1>7. Grabbing(c)' /\ Wakeable(c)'
    BY <1>1, <1>4, <1>5, <1>6 DEF Grabbing, Wakeable, AtMostOne
  <1>8. InSync(c)'
    BY <1>1, <1>2, <1>4 DEF Connected, InSync
  <1>9. \A d \in Conns \ {c} : Beside(d)
    <2> SUFFICES ASSUME NEW d \in Conns \ {c} PROVE Beside(d)
      OBVIOUS
    <2>1. inbound'[d] = inbound[d] /\ srv'[d] = srv[d]
      BY <1>1, <1>2, <1>3 DEF ServerSends, Typed, TypeOK
    <2> QED BY <1>1, <1>2, <2>1, OthersBeside
  <1>10. ASSUME NEW d \in Conns PROVE Connected(d)'
    <2>1. CASE d = c
      BY <1>1, <1>7, <1>8, <2>1 DEF Connected
    <2>2. CASE d # c
      BY <1>1, <1>9, <2>2, BesideConnected DEF Inductive, WorkerInv
    <2> QED BY <2>1, <2>2
  <1>11. ASSUME NEW j \in Jobs PROVE Assigned(j)'
    <2>1. Assigned(j) /\ job \in [Jobs -> JobRecords]
      BY <1>1 DEF Inductive, WorkerInv, Typed, TypeOK
    <2>2. CASE job'[j] = job[j]
      <3>1. ASSUME NEW d \in Conns, HasIt(j, d) PROVE HasIt(j, d)'
        <4>1. CASE d = c
          BY <1>1, <1>2, <1>4, <1>5, <1>6, <3>1, <4>1 DEF HasIt, Handled, GivenUp
        <4>2. CASE d # c
          BY <1>9, <3>1, <4>2, BesideHasIt
        <4> QED BY <4>1, <4>2
      <3> QED BY <2>1, <2>2, <3>1, AssignedStays
    <2>3. CASE job'[j] # job[j]
      <3>1. m.job \in Jobs /\ job' = [job EXCEPT ![m.job].state = "assigned"]
            /\ m.job = j /\ m.cmd = "JOB_ASSIGN_UNIQ" /\ job[j].server = c
        BY <1>3, <2>1, <2>3 DEF Doable
      <3>2. job'[j].server = c
        BY <2>1, <3>1
      <3>3. HasIt(j, c)'
        BY <1>1, <1>2, <1>6, <3>1 DEF HasIt, Handled
      <3> QED BY <3>2, <3>3 DEF Assigned
    <2> QED BY <2>2, <2>3
  <1>12. Waits(c)'
    <2>1. At(inbound[c], Answers)' # {}
      BY <1>1, <1>3, HearFacts
    <2> QED BY <1>1, <1>5, <2>1 DEF Waits
  <1>13. Owed => Owed'
    BY <1>9, <1>12, OwedStays
  <1> QED BY <1>1, <1>10, <1>11, <1>13 DEF WorkerInv

LEMMA NotesKeeps ==
    ASSUME Inductive, NEW c \in Conns, ServerReads(c), ServerNotes(c)
    PROVE  WorkerInv' /\ (Owed => Owed')
  <1>1. /\ Typed /\ Busy' /\ Connected(c) /\ connected[c] /\ srv[c] # "gone"
        /\ wire[c] # <<>> /\ wire' = [wire EXCEPT ![c] = Tail(@)]
        /\ UNCHANGED <<working, running, lock, abilities, connected, handlerOf, outgoing, inbound>>
        /\ RunsOn(c)' = RunsOn(c) /\ Handler(c)' = Handler(c)
        /\ VerdictsWritten(c)' /\ Closed(c)'
        /\ \A d \in Conns \ {c} : wire'[d] = wire[d] /\ outgoing'[d] = outgoing[d]
    BY ReadsBegins DEF ServerNotes
  <1>2. PICK m : m = Head(wire[c])
    OBVIOUS
  <1>3. /\ \/ /\ m.cmd = "CAN_DO" /\ srvAbil' = [srvAbil EXCEPT ![c] = m.tasks]
              /\ UNCHANGED <<srv, job>>
           \/ /\ m.cmd = "PRE_SLEEP" /\ srv' = [srv EXCEPT ![c] = "asleep"]
              /\ UNCHANGED <<srvAbil, job>>
           \/ m.cmd = "WORK_STATUS" /\ UNCHANGED <<srv, srvAbil, job>>
           \/ /\ m.cmd \in Verdicts /\ UNCHANGED <<srv, srvAbil>>
              /\ job' = [job EXCEPT ![m.job].state =
                            IF m.cmd = "WORK_COMPLETE" THEN "done" ELSE "failed"]
        /\ m.cmd \notin Asks
    BY <1>2 DEF ServerNotes, Asks, Verdicts
  <1>4. /\ m \in Outbound
        /\ \A K : m.cmd \notin K => (At(Said(c), K)' # {} <=> At(Said(c), K) # {})
        /\ \A K : AtMostOne(At(Said(c), K)) => AtMostOne(At(Said(c), K))'
        /\ \A K : m.cmd \in K => At(Said(c), K) # {}
    BY <1>1, <1>2, ReadFacts
  <1>5. /\ \A K, j : Has(Said(c), K, j) => Has(Said(c), K, j)' \/ (m.cmd \in K /\ m.job = j)
        /\ \A A : LastCanDo(Said(c), A) =>
                 \/ LastCanDo(Said(c), A)'
                 \/ /\ At(Said(c), {"CAN_DO"})' = {}
                    /\ m.cmd = "CAN_DO" /\ m.tasks = A
    BY <1>1, <1>2, ReadFacts
  <1>6. /\ srv'[c] \in {srv[c], "asleep"} /\ (m.cmd = "PRE_SLEEP" => srv'[c] = "asleep")
        /\ srvAbil'[c] = IF m.cmd = "CAN_DO" THEN m.tasks ELSE srvAbil[c]
        /\ \A d \in Conns \ {c} : srv'[d] = srv[d] /\ srvAbil'[d] = srvAbil[d]
    BY <1>1, <1>3 DEF Typed, TypeOK, Verdicts
  <1>7. Grabbing(c)'
    <2>1. /\ At(Said(c), Asks)' # {} <=> At(Said(c), Asks) # {}
          /\ AtMostOne(At(Said(c), Asks)) => AtMostOne(At(Said(c), Asks))'
      BY <1>3, <1>4
    <2> QED BY <1>1, <2>1 DEF Connected, Grabbing
  <1>8. Wakeable(c)'
    <2>1. CASE m.cmd = "PRE_SLEEP"
      BY <1>6, <2>1 DEF Wakeable
    <2>2. CASE m.cmd # "PRE_SLEEP"
      <3>1. At(Said(c), {"PRE_SLEEP"})' # {} <=> At(Said(c), {"PRE_SLEEP"}) # {}
        BY <1>4, <2>2
      <3> QED BY <1>1, <1>6, <3>1 DEF Connected, Wakeable
    <2> QED BY <2>1, <2>2
  <1>9. InSync(c)'
    <2>1. CASE m.cmd = "CAN_DO"
      <3>1. At(Said(c), {"CAN_DO"}) # {}
        BY <1>4, <2>1
      <3>2. LastCanDo(Said(c), abilities)
        BY <1>1, <3>1 DEF Connected, InSync
      <3> QED BY <1>1, <1>5, <1>6, <2>1, <3>2 DEF InSync
    <2>2. CASE m.cmd # "CAN_DO"
      <3>1. At(Said(c), {"CAN_DO"})' # {} <=> At(Said(c), {"CAN_DO"}) # {}
        BY <1>4, <2>2
      <3>2. LastCanDo(Said(c), abilities) => LastCanDo(Said(c), abilities)'
        <4>1. PICK A : A = abilities /\ A = abilities'
          BY <1>1
        <4>2. LastCanDo(Said(c), A) => LastCanDo(Said(c), A)'
          BY <1>5, <2>2
        <4> QED BY <4>1, <4>2
      <3> QED BY <1>1, <1>6, <2>2, <3>1, <3>2 DEF Connected, InSync
    <2> QED BY <2>1, <2>2
  <1>10. \A d \in Conns \ {c} : Beside(d)
    BY <1>1, <1>6, OthersBeside
  <1>11. \A j \in Jobs : job'[j].state = "assigned" =>
            /\ job[j].state = "assigned" /\ job'[j].server = job[j].server
            /\ ~(m.cmd \in Verdicts /\ m.job = j)
    <2> SUFFICES ASSUME NEW j \in Jobs, job'[j].state = "assigned"
                 PROVE  /\ job[j].state = "assigned" /\ job'[j].server = job[j].server
                        /\ ~(m.cmd \in Verdicts /\ m.job = j)
      OBVIOUS
    <2>1. job \in [Jobs -> JobRecords] /\ job[j] \in JobRecords
      BY <1>1 DEF Typed, TypeOK
    <2>2. CASE m.cmd \in Verdicts
      <3>1. PICK s \in {"done", "failed"} : job' = [job EXCEPT ![m.job].state = s]
        BY <1>3, <2>2 DEF Verdicts
      <3>2. CASE m.job = j
        <4>1. job'[j].state = s
          BY <2>1, <3>1, <3>2 DEF JobRecords
        <4> QED BY <4>1
      <3>3. CASE m.job # j
        BY <2>1, <3>1, <3>3
      <3> QED BY <3>2, <3>3
    <2>3. CASE m.cmd \notin Verdicts
      <3>1. job' = job
        BY <1>3, <2>3
      <3> QED BY <2>3, <3>1
    <2> QED BY <2>2, <2>3
  <1>12. ASSUME NEW j \in Jobs, ~(m.cmd \in Verdicts /\ m.job = j), HasIt(j, c)
         PROVE  HasIt(j, c)'
    <2>1. /\ At(Said(c), Asks)' # {} <=> At(Said(c), Asks) # {}
          /\ Has(Said(c), Verdicts, j) => Has(Said(c), Verdicts, j)'
      BY <1>3, <1>4, <1>5, <1>12
    <2> QED BY <1>1, <1>6, <1>12, <2>1 DEF HasIt, Handled, GivenUp
  <1>13. WorkerInv'
    BY <1>1, <1>7, <1>8, <1>9, <1>10, <1>11, <1>12, OnlyAt DEF Connected
  <1>14. Owed => Owed'
    <2>1. At(Said(c), Asks)' # {} <=> At(Said(c), Asks) # {}
      BY <1>3, <1>4
    <2>2. Waits(c) => Waits(c)'
      BY <1>1, <2>1 DEF Waits
    <2> QED BY <1>1, <1>10, <2>2, OwedStays
  <1> QED BY <1>13, <1>14

LEMMA DropsKeeps ==
    ASSUME Inductive, NEW c \in Conns, ServerDrops(c)
    PROVE  WorkerInv' /\ (Owed => Owed')
  <1>1. /\ Typed /\ Busy /\ Connected(c) /\ srv[c] # "gone"
        /\ srv' = [srv EXCEPT ![c] = "gone"]
        /\ srvAbil' = [srvAbil EXCEPT ![c] = {}]
        /\ wire' = [wire EXCEPT ![c] = <<>>]
        /\ job' = Requeued({c})
        /\ UNCHANGED <<working, running, lock, abilities, connected, handlerOf, outgoing, inbound>>
    BY DEF Inductive, WorkerInv, ServerDrops, workerVars, sessionVars
  <1>2. connected[c] /\ srv'[c] = "gone" /\ wire'[c] = <<>>
    BY <1>1 DEF Connected, Closed, Typed, TypeOK
  <1>3. Said(c)' = outgoing[c]
    <2>1. outgoing[c] \in Seq(Outbound)
      BY <1>1, SaidTyped
    <2>2. <<>> \o outgoing[c] = outgoing[c]
      BY <2>1, ConcatEmptySeq
    <2> QED BY <1>1, <1>2, <2>2 DEF Said
  <1>4. /\ At(outgoing[c], Asks) # {} => At(Said(c), Asks) # {}
        /\ AtMostOne(At(Said(c), Asks)) => AtMostOne(At(outgoing[c], Asks))
    <2> DEFINE w == wire[c]
               q == outgoing[c]
               s == Said(c)
    <2>1. /\ w \in Seq(Outbound) /\ q \in Seq(Outbound)
      BY <1>1, SaidTyped
    <2>0. s = w \o q
      BY DEF Said
    <2> HIDE DEF w, q, s
    <2>2. /\ Len(w) \in Nat /\ Len(q) \in Nat /\ Len(s) = Len(w) + Len(q)
          /\ \A i \in 1 .. Len(q) : s[Len(w) + i] = q[i]
      BY <2>0, <2>1, ConcatFacts
    <2>3. \A i \in At(q, Asks) : i \in Nat /\ Len(w) + i \in At(s, Asks)
      <3> SUFFICES ASSUME NEW i \in At(q, Asks) PROVE i \in Nat /\ Len(w) + i \in At(s, Asks)
        OBVIOUS
      <3>1. i \in 1 .. Len(q) /\ q[i].cmd \in Asks
        BY DEF At
      <3>2. i \in Nat /\ Len(w) + i \in 1 .. Len(s) /\ s[Len(w) + i].cmd \in Asks
        BY <2>2, <3>1
      <3> QED BY <3>2 DEF At
    <2>4. AtMostOne(At(s, Asks)) => AtMostOne(At(q, Asks))
      <3> SUFFICES ASSUME AtMostOne(At(s, Asks)), NEW i \in At(q, Asks), NEW k \in At(q, Asks)
                   PROVE  i = k
        BY DEF AtMostOne
      <3>1. Len(w) + i = Len(w) + k /\ i \in Nat /\ k \in Nat
        BY <2>3 DEF AtMostOne
      <3> QED BY <2>2, <3>1
    <2>5. At(q, Asks) # {} => At(s, Asks) # {}
      BY <2>3
    <2> QED BY <2>4, <2>5 DEF q, s
  <1>5. Busy' /\ RunsOn(c)' = RunsOn(c) /\ Handler(c)' = Handler(c)
    BY <1>1 DEF Busy, RunsOn, Handler
  <1>6. Closed(c)' /\ Grabbing(c)' /\ VerdictsWritten(c)'
    BY <1>1, <1>2, <1>3, <1>4, <1>5 DEF Connected, Closed, Grabbing, VerdictsWritten
  <1>7. Wakeable(c)' /\ InSync(c)'
    BY <1>2 DEF Wakeable, InSync
  <1>8. \A d \in Conns \ {c} : Beside(d)
    <2> SUFFICES ASSUME NEW d \in Conns \ {c} PROVE Beside(d)
      OBVIOUS
    <2>1. wire'[d] = wire[d] /\ srv'[d] = srv[d] /\ srvAbil'[d] = srvAbil[d]
      BY <1>1 DEF Typed, TypeOK
    <2> QED BY <1>1, <2>1, OthersBeside
  <1>9. \A j \in Jobs : job'[j].state = "assigned" =>
           job[j].state = "assigned" /\ job'[j].server = job[j].server /\ job[j].server # c
    BY <1>1, RequeuedFacts
  <1>10. WorkerInv'
    BY <1>1, <1>5, <1>6, <1>7, <1>8, <1>9, OnlyAt DEF Connected
  <1>11. Owed => Owed'
    <2>1. Waits(c) => Waits(c)'
      BY <1>1, <1>2, <1>5 DEF Waits
    <2> QED BY <1>1, <1>8, <2>1, OwedStays
  <1> QED BY <1>10, <1>11

LEMMA SubmitKeeps ==
    ASSUME Inductive, NEW j \in Jobs,
           (\E c \in Conns, t \in Tasks : ClientSubmits(j, c, t)) \/ OtherWorkerTakes(j)
    PROVE  WorkerInv' /\ (Owed => Owed')
  <1>1. UNCHANGED <<workerVars, sessionVars, outgoing, wire, inbound, srv, srvAbil>>
    BY DEF ClientSubmits, OtherWorkerTakes
  <1>2. /\ UNCHANGED <<working, running, lock, abilities, connected, handlerOf, outgoing, wire,
                       inbound, srv, srvAbil>>
        /\ Busy
    BY <1>1 DEF workerVars, sessionVars, Inductive, WorkerInv
  <1>3. Busy' /\ \A d \in Conns : Beside(d)
    BY <1>2 DEF Busy, Beside, RunsOn
  <1>4. ASSUME NEW k \in Jobs, job'[k].state = "assigned" PROVE job'[k] = job[k]
    <2>1. job \in [Jobs -> JobRecords]
      BY DEF Inductive, Typed, TypeOK
    <2>2. PICK r : job' = [job EXCEPT ![j] = r] /\ r.state # "assigned"
      <3>1. CASE OtherWorkerTakes(j)
        <4>1. /\ job' = [job EXCEPT ![j] = [job[j] EXCEPT !.state = "elsewhere"]]
              /\ [job[j] EXCEPT !.state = "elsewhere"].state = "elsewhere"
          BY <2>1, <3>1 DEF OtherWorkerTakes, JobRecords
        <4> QED BY <4>1
      <3>2. ASSUME NEW c \in Conns, NEW t \in Tasks, ClientSubmits(j, c, t)
            PROVE  \E r : job' = [job EXCEPT ![j] = r] /\ r.state # "assigned"
        <4>1. /\ job' = [job EXCEPT ![j] = [state |-> "queued", server |-> c, task |-> t]]
              /\ [state |-> "queued", server |-> c, task |-> t].state # "assigned"
          BY <3>2 DEF ClientSubmits
        <4> QED BY <4>1
      <3> QED BY <3>1, <3>2
    <2>3. k # j
      BY <1>4, <2>1, <2>2
    <2> QED BY <2>1, <2>2, <2>3
  <1> QED BY <1>2, <1>3, <1>4, OnlyBeside, OwedBeside

-----------------------------------------------------------------------------
(***************************************************************************)
(* Registering tasks, and the ends and beginnings of sessions.             *)
(***************************************************************************)

\* Every known handler announces A, so the last announcement is A.
LEMMA AnnounceFacts ==
    ASSUME Typed, NEW c \in Conns, NEW A \in SUBSET Tasks, connected[c], wire' = wire,
           outgoing'[c] = outgoing[c] \o Repeat(known[c], CanDo(A))
    PROVE  /\ \A K : "CAN_DO" \notin K => /\ At(Said(c), K)' = At(Said(c), K)
                                          /\ At(outgoing[c], K)' = At(outgoing[c], K)
           /\ \A K, j : Has(Said(c), K, j) => Has(Said(c), K, j)'
           /\ LastCanDo(Said(c)', A)
  <1>1. PICK e : e = CanDo(A)
    OBVIOUS
  <1>2. PICK n, w, q : n = known[c] /\ w = wire[c] /\ q = outgoing[c]
    OBVIOUS
  <1>10. PICK r : r = Repeat(n, e)
    OBVIOUS
  <1>3. /\ e \in Outbound /\ e.cmd = "CAN_DO" /\ e.tasks = A
        /\ n \in Nat /\ n # 0
        /\ w \in Seq(Outbound) /\ q \in Seq(Outbound)
        /\ Said(c) \in Seq(Outbound)
    BY <1>1, <1>2, CommandFacts, SaidTyped, ZenonT(30) DEF Typed, TypeOK, Session
  <1>4. r \in Seq(Outbound) /\ Len(r) # 0 /\ \A i \in 1 .. Len(r) : r[i] = e
    <2>1. /\ Repeat(n, e) \in Seq(Outbound) /\ Len(Repeat(n, e)) = n
          /\ \A i \in 1 .. n : Repeat(n, e)[i] = e
      BY <1>3, RepeatFacts
    <2> QED BY <1>3, <1>10, <2>1
  <1>5. outgoing'[c] = Glued(outgoing[c], r) /\ Said(c)' = Glued(Said(c), r)
    <2>1. (w \o q) \o r = w \o (q \o r)
      <3>1. w \in Seq(Outbound) /\ q \in Seq(Outbound) /\ r \in Seq(Outbound)
        BY <1>3, <1>4
      <3> QED BY <3>1, Regroup
    <2> QED BY <1>1, <1>2, <1>10, <2>1 DEF Said, Glued
  <1>6. ASSUME NEW K, NEW j, NEW p \in Seq(Outbound)
        PROVE  /\ "CAN_DO" \notin K => At(Glued(p, r), K) = At(p, K)
               /\ Has(p, K, j) => Has(Glued(p, r), K, j)
               /\ LastCanDo(Glued(p, r), A)
    <2>1. e \in Outbound /\ r \in Seq(Outbound) /\ \A i \in 1 .. Len(r) : r[i] = e
      BY <1>3, <1>4
    <2>2. /\ e.cmd \notin K => At(Glued(p, r), K) = At(p, K)
          /\ Has(p, K, j) => Has(Glued(p, r), K, j)
          /\ Len(r) # 0 /\ e.cmd = "CAN_DO" => LastCanDo(Glued(p, r), e.tasks)
      BY <2>1, AtConcat
    <2> QED BY <1>3, <1>4, <2>2
  <1>7. ASSUME NEW K, "CAN_DO" \notin K
        PROVE  At(Said(c), K)' = At(Said(c), K) /\ At(outgoing[c], K)' = At(outgoing[c], K)
    <2>1. At(Glued(Said(c), r), K) = At(Said(c), K) /\ At(Glued(outgoing[c], r), K) = At(outgoing[c], K)
      BY <1>2, <1>3, <1>6, <1>7
    <2> QED BY <1>5, <2>1
  <1>8. ASSUME NEW K, NEW j, Has(Said(c), K, j) PROVE Has(Said(c), K, j)'
    <2>1. Has(Glued(Said(c), r), K, j)
      BY <1>3, <1>6, <1>8
    <2> QED BY <1>5, <2>1
  <1>9. LastCanDo(Said(c)', A)
    BY <1>3, <1>5, <1>6
  <1> QED BY <1>7, <1>8, <1>9

LEMMA AbilitiesKeeps ==
    ASSUME Inductive, NEW A \in SUBSET Tasks, SetAbilities(A)
    PROVE  WorkerInv'
  <1>1. /\ Typed /\ Busy /\ \A c \in Conns : Connected(c)
        /\ abilities' = A
        /\ UNCHANGED <<working, running, lock, connected, handlerOf, wire, inbound, srv,
                       srvAbil, job>>
    BY DEF Inductive, WorkerInv, SetAbilities, sessionVars, serverVars
  <1>2. \A c \in Conns : outgoing'[c] = IF connected[c]
                              THEN outgoing[c] \o Repeat(known[c], CanDo(A)) ELSE outgoing[c]
    BY DEF SetAbilities, Repeat
  <1>3. Busy' /\ \A c \in Conns : RunsOn(c)' = RunsOn(c) /\ Handler(c)' = Handler(c)
    BY <1>1 DEF Busy, RunsOn, Handler
  <1>4. ASSUME NEW c \in Conns, connected[c]
        PROVE  /\ \A K : "CAN_DO" \notin K => /\ At(Said(c), K)' = At(Said(c), K)
                                              /\ At(outgoing[c], K)' = At(outgoing[c], K)
               /\ \A K, j : Has(Said(c), K, j) => Has(Said(c), K, j)'
               /\ LastCanDo(Said(c)', A)
    BY <1>1, <1>2, <1>4, AnnounceFacts
  <1>5. ASSUME NEW c \in Conns PROVE Connected(c)'
    <2>1. CASE ~connected[c]
      <3>1. /\ ~connected'[c] /\ outgoing'[c] = <<>> /\ wire'[c] = <<>> /\ inbound'[c] = <<>>
            /\ srv'[c] = "gone"
        BY <1>1, <1>2, <2>1 DEF Connected, Closed
      <3>2. At(outgoing[c], Verdicts)' = {}
        BY <3>1, AtEmpty
      <3> QED BY <3>1, <3>2
              DEF Connected, Closed, Grabbing, VerdictsWritten, Wakeable, InSync
    <2>2. CASE connected[c]
      <3>1. /\ At(Said(c), Asks)' = At(Said(c), Asks)
            /\ At(Said(c), {"PRE_SLEEP"})' = At(Said(c), {"PRE_SLEEP"})
            /\ At(outgoing[c], Verdicts)' = At(outgoing[c], Verdicts)
        BY <1>4, <2>2 DEF Asks, Verdicts
      <3>2. LastCanDo(Said(c), abilities)'
        BY <1>1, <1>4, <2>2
      <3>3. Closed(c)' /\ InSync(c)'
        BY <1>1, <2>2, <3>2 DEF Closed, InSync
      <3>4. Grabbing(c)'
        BY <1>1, <1>3, <3>1 DEF Connected, Grabbing
      <3>5. VerdictsWritten(c)' /\ Wakeable(c)'
        BY <1>1, <1>3, <3>1 DEF Connected, VerdictsWritten, Wakeable
      <3> QED BY <3>3, <3>4, <3>5 DEF Connected
    <2> QED BY <2>1, <2>2
  <1>6. ASSUME NEW j \in Jobs PROVE Assigned(j)'
    <2>1. Assigned(j)
      BY DEF Inductive, WorkerInv
    <2>2. ASSUME NEW c \in Conns, HasIt(j, c) PROVE HasIt(j, c)'
      <3>1. connected[c]
        BY <2>2 DEF HasIt
      <3>2. /\ Has(Said(c), Verdicts, j) => Has(Said(c), Verdicts, j)'
            /\ At(Said(c), Asks)' = At(Said(c), Asks)
        BY <1>4, <3>1 DEF Asks
      <3> QED BY <1>1, <1>3, <2>2, <3>2 DEF HasIt, Handled, GivenUp
    <2> QED BY <1>1, <2>1, <2>2, AssignedStays
  <1> QED BY <1>3, <1>5, <1>6 DEF WorkerInv

\* All connections are closed: no server is left that believes anything.
LEMMA CloseKeeps ==
    ASSUME Inductive, Close(Conns), Busy'
    PROVE  WorkerInv'
  <1>1. Typed /\ \A j \in Jobs : Assigned(j)
    BY DEF Inductive, WorkerInv
  <1>2. ASSUME NEW c \in Conns PROVE Connected(c)'
    <2>1. /\ ~connected'[c] /\ outgoing'[c] = <<>> /\ wire'[c] = <<>> /\ inbound'[c] = <<>>
          /\ srv'[c] = "gone"
      BY DEF Close
    <2>2. At(outgoing[c], Verdicts)' = {}
      BY <2>1, AtEmpty
    <2> QED BY <2>1, <2>2 DEF Connected, Closed, Grabbing, VerdictsWritten, Wakeable, InSync
  <1>3. ASSUME NEW j \in Jobs, job'[j].state = "assigned" PROVE FALSE
    <2>1. job' = Requeued(Conns)
      BY DEF Close
    <2>2. job[j].state = "assigned" /\ job[j].server \notin Conns
      BY <1>1, <1>3, <2>1, RequeuedFacts
    <2> QED BY <1>1, <2>2 DEF Assigned
  <1> QED BY <1>2, <1>3 DEF WorkerInv, Assigned

LEMMA EndKeeps ==
    ASSUME Inductive, StopWork \/ Shutdown
    PROVE  WorkerInv' /\ (Shutdown => Owed')
  <1>1. Busy'
    <2>1. CASE StopWork
      BY <2>1 DEF StopWork, Between, Busy
    <2>2. CASE Shutdown
      BY <2>2 DEF Shutdown, MayCall, Busy, Inductive, WorkerInv
    <2> QED BY <2>1, <2>2
  <1>2. Shutdown => Owed'
    BY DEF Shutdown, Owed
  <1> QED BY <1>1, <1>2, CloseKeeps DEF StopWork, Shutdown

\* What is first said on a connection: the abilities, and that it sleeps.
LEMMA FreshFacts ==
    ASSUME NEW A \in SUBSET Tasks
    PROVE  LET q == <<CanDo(A), Plain("PRE_SLEEP")>> IN
           /\ q \in Seq(Outbound)
           /\ At(q, Asks) = {} /\ At(q, Verdicts) = {}
           /\ At(q, {"PRE_SLEEP"}) # {}
           /\ LastCanDo(q, A)
  <1>1. PICK e : e = CanDo(A)
    OBVIOUS
  <1>2. PICK p : p = Plain("PRE_SLEEP")
    OBVIOUS
  <1>3. PICK q : q = <<e, p>>
    OBVIOUS
  <1>4. /\ e \in Outbound /\ e.cmd = "CAN_DO" /\ e.tasks = A
        /\ p \in Outbound /\ p.cmd = "PRE_SLEEP"
    BY <1>1, <1>2, CommandFacts
  <1>5. q \in Seq(Outbound) /\ Len(q) = 2 /\ q[1] = e /\ q[2] = p
    BY <1>3, <1>4
  <1>6. 1 .. Len(q) = {1, 2}
    BY <1>5
  <1>7. At(q, Asks) = {} /\ At(q, Verdicts) = {} /\ At(q, {"PRE_SLEEP"}) # {}
    BY <1>4, <1>5, <1>6 DEF At, Asks, Verdicts
  <1>8. At(q, {"CAN_DO"}) = {1}
    BY <1>4, <1>5, <1>6 DEF At
  <1>9. LastCanDo(q, A)
    BY <1>4, <1>5, <1>8 DEF LastCanDo
  <1> QED BY <1>1, <1>2, <1>3, <1>5, <1>7, <1>9

LEMMA EstablishKeeps ==
    ASSUME Inductive, NEW S \in SUBSET Dead, Establish(S), running = None, Busy'
    PROVE  WorkerInv' /\ (Owed => Owed')
  <1>1. /\ Typed /\ Busy /\ \A c \in Conns : Connected(c)
        /\ UNCHANGED <<running, lock, abilities, wire, inbound, srvAbil, job>>
        /\ abilities \in SUBSET Tasks
    BY DEF Inductive, WorkerInv, Establish, Typed, TypeOK
  <1>2. \A c \in Conns \ S :
           /\ connected'[c] = connected[c] /\ handlerOf'[c] = handlerOf[c]
           /\ outgoing'[c] = outgoing[c] /\ srv'[c] = srv[c]
    BY DEF Establish, Inductive, Typed, TypeOK
  <1>3. \A c \in Conns \ S : Beside(c)
    BY <1>1, <1>2 DEF Beside, RunsOn
  <1>4. ASSUME NEW c \in S PROVE Connected(c)'
    <2>1. /\ c \in Conns /\ ~connected[c] /\ wire'[c] = <<>> /\ inbound'[c] = <<>>
      BY <1>1 DEF Dead, Connected, Closed
    <2>2. connected'[c] /\ outgoing'[c] = <<CanDo(abilities), Plain("PRE_SLEEP")>> /\ ~RunsOn(c)'
      BY <1>1, <2>1 DEF Establish, RunsOn
    <2>3. PICK q : q = <<CanDo(abilities), Plain("PRE_SLEEP")>>
      OBVIOUS
    <2>4. /\ q \in Seq(Outbound)
          /\ At(q, Asks) = {} /\ At(q, Verdicts) = {}
          /\ At(q, {"PRE_SLEEP"}) # {}
          /\ LastCanDo(q, abilities)
      BY <1>1, <2>3, FreshFacts
    <2>5. outgoing'[c] = q /\ Said(c)' = q
      <3>1. <<>> \o q = q
        BY <2>4, ConcatEmptySeq
      <3> QED BY <2>1, <2>2, <2>3, <3>1 DEF Said
    <2>6. /\ At(Said(c), Asks)' = {} /\ At(outgoing[c], Verdicts)' = {}
          /\ At(Said(c), {"PRE_SLEEP"})' # {}
          /\ LastCanDo(Said(c), abilities)'
      BY <1>1, <2>4, <2>5
    <2>7. At(inbound[c], Answers)' = {}
      BY <2>1, AtEmpty
    <2>8. Grabbing(c)'
      BY <2>2, <2>6, <2>7 DEF Grabbing, AtMostOne
    <2> QED BY <2>2, <2>6, <2>8 DEF Connected, Closed, VerdictsWritten, Wakeable, InSync
  <1>5. ASSUME NEW c \in Conns PROVE Connected(c)'
    <2>1. CASE c \in S
      BY <1>4, <2>1
    <2>2. CASE c \notin S
      BY <1>1, <1>3, <2>2, BesideConnected
    <2> QED BY <2>1, <2>2
  <1>6. ASSUME NEW j \in Jobs PROVE Assigned(j)'
    <2>1. Assigned(j)
      BY DEF Inductive, WorkerInv
    <2>2. ASSUME NEW c \in Conns, HasIt(j, c) PROVE HasIt(j, c)'
      <3>1. c \notin S
        BY <2>2 DEF HasIt, Dead
      <3> QED BY <1>3, <2>2, <3>1, BesideHasIt
    <2> QED BY <1>1, <2>1, <2>2, AssignedStays
  <1>7. ASSUME Owed, lock # None PROVE Owed'
    <2>1. PICK c \in Conns : Waits(c)
      BY <1>7 DEF Owed
    <2>2. c \notin S
      BY <2>1 DEF Waits, Dead
    <2> QED BY <1>3, <2>1, <2>2, BesideWaits DEF Owed
  <1>8. lock = None => Owed'
    BY <1>1 DEF Owed
  <1> QED BY <1>5, <1>6, <1>7, <1>8 DEF WorkerInv

LEMMA LoopKeeps ==
    ASSUME Inductive, StartWork \/ CallbackGoesOn \/ RoundEnds \/ Reestablish \/ NoConnections
    PROVE  WorkerInv' /\ (Owed => Owed')
  <1>1. running = None /\ running' = None
    BY DEF Inductive, WorkerInv, Busy, StartWork, CallbackGoesOn, RoundEnds, Reestablish,
           NoConnections, Between, Polling, Establish
  <1>2. Busy'
    BY <1>1 DEF Busy
  <1>3. CASE StartWork \/ Reestablish
    <2>1. PICK S \in SUBSET Dead : Establish(S)
      BY <1>3 DEF StartWork, Reestablish
    <2> QED BY <1>1, <1>2, <2>1, EstablishKeeps
  <1>4. CASE CallbackGoesOn \/ RoundEnds \/ NoConnections
    <2>1. UNCHANGED <<running, lock, abilities, connected, handlerOf, outgoing, wire, inbound,
                      srv, srvAbil, job>>
      BY <1>4 DEF CallbackGoesOn, RoundEnds, NoConnections, sessionVars, serverVars
    <2>2. \A d \in Conns : Beside(d)
      BY <2>1 DEF Beside, RunsOn
    <2> QED BY <1>2, <2>1, <2>2, OnlyBeside, OwedBeside
  <1> QED BY <1>3, <1>4

-----------------------------------------------------------------------------
(***************************************************************************)
(* The invariant holds.                                                    *)
(***************************************************************************)

LEMMA InitWorker == Init => WorkerInv
  <1> SUFFICES ASSUME Init PROVE WorkerInv
    OBVIOUS
  <1>1. running = None /\ \A j \in Jobs : job[j].state = "new"
    BY DEF Init
  <1>2. ASSUME NEW c \in Conns PROVE Connected(c)
    <2>1. /\ ~connected[c] /\ outgoing[c] = <<>> /\ wire[c] = <<>> /\ inbound[c] = <<>>
          /\ srv[c] = "gone"
      BY DEF Init
    <2>2. At(outgoing[c], Verdicts) = {}
      BY <2>1, AtEmpty
    <2> QED BY <2>1, <2>2 DEF Connected, Closed, Grabbing, VerdictsWritten, Wakeable, InSync
  <1> QED BY <1>1, <1>2 DEF WorkerInv, Busy, Assigned

LEMMA IdleKeeps ==
    ASSUME Inductive, UNCHANGED vars
    PROVE  WorkerInv' /\ (Owed => Owed')
  <1>1. UNCHANGED <<working, running, lock, abilities, connected, handlerOf, outgoing, wire,
                    inbound, srv, srvAbil, job>>
    BY DEF vars, workerVars, sessionVars, serverVars
  <1>2. Busy' /\ \A d \in Conns : Beside(d)
    BY <1>1 DEF Beside, RunsOn, Busy, Inductive, WorkerInv
  <1> QED BY <1>1, <1>2, OnlyBeside, OwedBeside

LEMMA NextKeeps == ASSUME Inductive, [Next]_vars PROVE WorkerInv'
  <1>1. CASE StartWork \/ CallbackGoesOn \/ RoundEnds \/ Reestablish \/ NoConnections
    BY <1>1, LoopKeeps
  <1>2. CASE StopWork \/ Shutdown
    BY <1>2, EndKeeps
  <1>3. ASSUME NEW A \in SUBSET Tasks, SetAbilities(A) PROVE WorkerInv'
    BY <1>3, AbilitiesKeeps
  <1>4. ASSUME NEW c \in Conns, HandleWrite(c) \/ ConnectionDies(c) PROVE WorkerInv'
    BY <1>4, WriteKeeps, DiesKeeps
  <1>5. ASSUME NEW c \in Conns, Receive(c) PROVE WorkerInv'
    BY <1>5, NoopKeeps, NoJobKeeps, AssignKeeps, RaisesKeeps DEF Receive
  <1>6. ASSUME NEW c \in Conns, Server(c) PROVE WorkerInv'
    <2>1. CASE ServerReads(c)
      <3>1. ServerGrants(c) \/ ServerNotes(c)
        BY <2>1 DEF ServerReads
      <3> QED BY <2>1, <3>1, GrantsKeeps, NotesKeeps
    <2> QED BY <1>6, <2>1, WakesKeeps, DropsKeeps DEF Server
  <1>7. CASE Execute
    BY <1>7, JobSendsKeeps, JobLeftKeeps, UpdateSentKeeps, ResultSentKeeps, DiesInWaitKeeps
    DEF Execute
  <1>8. ASSUME NEW j \in Jobs,
               (\E c \in Conns, t \in Tasks : ClientSubmits(j, c, t)) \/ OtherWorkerTakes(j)
        PROVE  WorkerInv'
    BY <1>8, SubmitKeeps
  <1>9. CASE UNCHANGED vars
    BY <1>9, IdleKeeps
  <1>10. CASE Next
    BY <1>1, <1>2, <1>3, <1>4, <1>5, <1>6, <1>7, <1>8, <1>10 DEF Next
  <1> QED BY <1>9, <1>10

\* What holds of every connection and of every job a server believes this worker to
\* have, however the worker is stopped, shut down or given other tasks.
THEOREM WorkerHolds == Spec => []Inductive
  <1>1. Init => Inductive
    BY InitTyped, InitWorker DEF Inductive
  <1>2. Inductive /\ [Next]_vars => Inductive'
    BY NextTyped, NextKeeps DEF Inductive
  <1> QED BY <1>1, <1>2, PTL DEF Spec

-----------------------------------------------------------------------------
(***************************************************************************)
(* What follows from it, for all values of the bounds.                     *)
(***************************************************************************)

LEMMA PlacesAgree ==
    ASSUME Typed, NEW c \in Conns, NEW K
    PROVE  Saying(c, K) = At(Said(c), K) /\ Hearing(c, K) = At(inbound[c], K)
  <1>1. DOMAIN Said(c) = 1 .. Len(Said(c)) /\ DOMAIN inbound[c] = 1 .. Len(inbound[c])
    BY SaidTyped, LenProperties
  <1> QED BY <1>1 DEF Saying, Hearing, At

LEMMA GrabsFacts ==
    ASSUME Typed, NEW c \in Conns, NEW g \in Grabs(c)
    PROVE  /\ connected[c]
           /\ \/ \E i \in At(Said(c), Asks) : g = <<"said", i>>
              \/ \E i \in At(inbound[c], Answers) : g = <<"heard", i>>
              \/ RunsOn(c) /\ g = <<"running", 0>>
  <1>1. /\ Saying(c, {"GRAB_JOB_UNIQ"}) = At(Said(c), Asks)
        /\ Hearing(c, {"JOB_ASSIGN_UNIQ", "NO_JOB"}) = At(inbound[c], Answers)
    BY PlacesAgree DEF Asks, Answers
  <1>2. connected[c]
    BY DEF Grabs
  <1>3. g \in {<<"said", i>> : i \in At(Said(c), Asks)}
                \cup {<<"heard", i>> : i \in At(inbound[c], Answers)}
                \cup (IF RunsOn(c) THEN {<<"running", 0>>} ELSE {})
    BY <1>1, <1>2 DEF Grabs, RunsOn
  <1> QED BY <1>2, <1>3

\* The worker never holds on to two jobs: over all its connections there is at most
\* one request for a job, one answer to it, or one job that runs.
THEOREM NeverTwoJobs == Spec => []OneGrab
  <1>1. Inductive => OneGrab
    <2> SUFFICES ASSUME Inductive, NEW c \in Conns, NEW d \in Conns,
                        NEW g \in Grabs(c), NEW h \in Grabs(d)
                 PROVE  c = d /\ g = h
      BY DEF OneGrab
    <2>1. Typed /\ Grabbing(c) /\ Grabbing(d)
      BY DEF Inductive, WorkerInv, Connected
    <2>2. /\ connected[c]
          /\ \/ \E i \in At(Said(c), Asks) : g = <<"said", i>>
             \/ \E i \in At(inbound[c], Answers) : g = <<"heard", i>>
             \/ RunsOn(c) /\ g = <<"running", 0>>
      BY <2>1, GrabsFacts
    <2>3. /\ connected[d]
          /\ \/ \E i \in At(Said(d), Asks) : h = <<"said", i>>
             \/ \E i \in At(inbound[d], Answers) : h = <<"heard", i>>
             \/ RunsOn(d) /\ h = <<"running", 0>>
      BY <2>1, GrabsFacts
    <2>4. lock = Handler(c) /\ lock = Handler(d)
      BY <2>1, <2>2, <2>3 DEF Grabbing
    <2>5. c = d
      BY <2>1, <2>4, HandlersDiffer
    <2>6. AtMostOne(At(Said(c), Asks)) /\ AtMostOne(At(inbound[c], Answers))
      BY <2>1, <2>2 DEF Grabbing
    <2>7. /\ At(Said(c), Asks) # {} => At(inbound[c], Answers) = {} /\ ~RunsOn(c)
          /\ At(inbound[c], Answers) # {} => ~RunsOn(c)
      BY <2>1, <2>2 DEF Grabbing
    <2>8. g = h
      <3>1. CASE At(Said(c), Asks) # {}
        <4>1. PICK i \in At(Said(c), Asks) : g = <<"said", i>>
          BY <2>2, <2>7, <3>1
        <4>2. PICK k \in At(Said(c), Asks) : h = <<"said", k>>
          BY <2>3, <2>5, <2>7, <3>1
        <4>3. i = k
          BY <2>6 DEF AtMostOne
        <4> QED BY <4>1, <4>2, <4>3
      <3>2. CASE At(Said(c), Asks) = {} /\ At(inbound[c], Answers) # {}
        <4>1. PICK i \in At(inbound[c], Answers) : g = <<"heard", i>>
          BY <2>2, <2>7, <3>2
        <4>2. PICK k \in At(inbound[c], Answers) : h = <<"heard", k>>
          BY <2>3, <2>5, <2>7, <3>2
        <4>3. i = k
          BY <2>6 DEF AtMostOne
        <4> QED BY <4>1, <4>2, <4>3
      <3>3. CASE At(Said(c), Asks) = {} /\ At(inbound[c], Answers) = {}
        BY <2>2, <2>3, <2>5, <3>3
      <3> QED BY <3>1, <3>2, <3>3
    <2> QED BY <2>5, <2>8
  <1> QED BY <1>1, WorkerHolds, PTL

\* What a server that lives will believe this worker can do, once it has read all that
\* was said, is what the worker can do, however often it registers tasks anew.
THEOREM AbilitiesAlwaysInSync == Spec => []AbilitiesInSync
  <1>1. Inductive => AbilitiesInSync
    <2> SUFFICES ASSUME Inductive, NEW c \in Conns, Live(c)
                 PROVE  LET said == Saying(c, {"CAN_DO"}) IN
                        IF said = {} THEN srvAbil[c] = abilities
                        ELSE \E i \in said : /\ \A k \in said : k <= i
                                             /\ Said(c)[i].tasks = abilities
      BY DEF AbilitiesInSync
    <2>1. Saying(c, {"CAN_DO"}) = At(Said(c), {"CAN_DO"})
      BY PlacesAgree DEF Inductive
    <2>2. \/ At(Said(c), {"CAN_DO"}) = {} /\ srvAbil[c] = abilities
          \/ LastCanDo(Said(c), abilities)
      BY DEF Inductive, WorkerInv, Connected, InSync, Live
    <2> QED BY <2>1, <2>2 DEF LastCanDo
  <1> QED BY <1>1, WorkerHolds, PTL

\* What a server believes this worker to have while nobody holds the lock has its
\* verdict on the wire.
LEMMA UnlockedIsAnswered ==
    ASSUME Inductive, lock = None, running = None, NEW j \in Jobs, job[j].state = "assigned"
    PROVE  \E i \in DOMAIN wire[job[j].server] :
              wire[job[j].server][i] \in {AboutJob(v, j) : v \in Verdicts}
  <1>1. PICK c \in Conns : job[j].server = c /\ HasIt(j, c)
    BY DEF Inductive, WorkerInv, Assigned
  <1>2. Typed /\ Connected(c) /\ connected[c]
    BY <1>1 DEF Inductive, WorkerInv, HasIt
  <1>3. lock # Handler(c) /\ ~RunsOn(c)
    BY <1>2, HandlersDiffer DEF RunsOn
  <1>4. At(inbound[c], Answers) = {} /\ At(outgoing[c], Verdicts) = {}
    BY <1>2, <1>3 DEF Connected, Grabbing, VerdictsWritten
  <1>5. ~Has(inbound[c], {"JOB_ASSIGN_UNIQ"}, j)
    BY <1>4 DEF Has, At, Answers
  <1>6. Has(Said(c), Verdicts, j)
    BY <1>1, <1>3, <1>5 DEF HasIt, Handled, GivenUp
  <1>7. PICK w, q : w = wire[c] /\ q = outgoing[c]
    OBVIOUS
  <1>8. w \in Seq(Outbound) /\ q \in Seq(Outbound) /\ Said(c) = w \o q
    BY <1>2, <1>7, SaidTyped DEF Said
  <1>9. PICK s : s = w \o q
    OBVIOUS
  <1>10. /\ s \in Seq(Outbound) /\ Len(w) \in Nat /\ Len(q) \in Nat /\ Len(s) = Len(w) + Len(q)
         /\ \A i \in 1 .. Len(w) : s[i] = w[i]
         /\ \A i \in 1 .. Len(q) : s[Len(w) + i] = q[i]
    BY <1>8, <1>9, ConcatFacts
  <1>11. PICK i \in 1 .. Len(s) : s[i].cmd \in Verdicts /\ s[i].job = j
    BY <1>6, <1>8, <1>9 DEF Has
  <1>12. i \in 1 .. Len(w)
    <2> SUFFICES ASSUME i \notin 1 .. Len(w) PROVE FALSE
      OBVIOUS
    <2>1. i - Len(w) \in 1 .. Len(q) /\ Len(w) + (i - Len(w)) = i
      BY <1>10
    <2>2. q[i - Len(w)].cmd \in Verdicts
      BY <1>10, <1>11, <2>1
    <2> QED BY <1>4, <1>7, <2>1, <2>2 DEF At
  <1>13. w[i] \in Outbound /\ DOMAIN w = 1 .. Len(w)
    <2>1. w \in [1 .. Len(w) -> Outbound]
      BY <1>8, LenProperties
    <2> QED BY <1>12, <2>1
  <1>14. w[i] = AboutJob(w[i].cmd, j)
    BY <1>10, <1>11, <1>12, <1>13, CommandFacts
  <1>15. w[i].cmd \in Verdicts
    BY <1>10, <1>11, <1>12
  <1> QED BY <1>1, <1>7, <1>12, <1>13, <1>14, <1>15

\* When after_job is called no connection asks for a job or has one, and all that a
\* server still waits for is on the wire: to stop there undoes no job.
THEOREM StopAfterJobAlwaysClean == Spec => []StopAfterJobIsClean
  <1>1. Inductive => StopAfterJobIsClean
    <2> SUFFICES ASSUME Inductive, AfterJob PROVE StopAfterJobIsClean
      BY DEF StopAfterJobIsClean
    <2>1. lock = None /\ running = None /\ Typed
      BY DEF AfterJob, Between, Inductive
    <2>2. ASSUME NEW c \in Conns, NEW g \in Grabs(c) PROVE FALSE
      <3>1. /\ connected[c]
            /\ At(Said(c), Asks) # {} \/ At(inbound[c], Answers) # {} \/ RunsOn(c)
        BY <2>1, <2>2, GrabsFacts
      <3>2. lock = Handler(c)
        BY <3>1 DEF Inductive, WorkerInv, Connected, Grabbing
      <3> QED BY <2>1, <3>2, HandlersDiffer
    <2>3. \A c \in Conns : Grabs(c) = {}
      BY <2>2
    <2> QED BY <2>1, <2>3, UnlockedIsAnswered DEF StopAfterJobIsClean
  <1> QED BY <1>1, WorkerHolds, PTL

-----------------------------------------------------------------------------
(***************************************************************************)
(* A worker that keeps its tasks and is not told to stop.  Otherwise an    *)
(* assigned job may be for a task that is no longer registered, or a       *)
(* callback be left, and the lock is kept by a handler that waits for      *)
(* nothing.                                                                *)
(***************************************************************************)

Elems(q) == {q[i] : i \in 1 .. Len(q)}

LEMMA ElemsFacts ==
    ASSUME NEW S, NEW q \in Seq(S)
    PROVE  /\ \A e \in S : Elems(Append(q, e)) = Elems(q) \cup {e}
           /\ q # <<>> => Head(q) \in Elems(q) /\ Elems(Tail(q)) \subseteq Elems(q)
  <1>1. ASSUME NEW e \in S PROVE Elems(Append(q, e)) = Elems(q) \cup {e}
    <2> DEFINE a == Append(q, e)
    <2>1. /\ Len(q) \in Nat /\ Len(a) = Len(q) + 1
          /\ \A i \in 1 .. Len(q) : a[i] = q[i]
          /\ a[Len(q) + 1] = e
      BY AppendFacts
    <2> HIDE DEF a
    <2>2. 1 .. Len(a) = (1 .. Len(q)) \cup {Len(q) + 1}
      BY <2>1
    <2>3. Elems(a) = Elems(q) \cup {e}
      BY <2>1, <2>2 DEF Elems
    <2> QED BY <2>3 DEF a
  <1>2. ASSUME q # <<>> PROVE Head(q) \in Elems(q) /\ Elems(Tail(q)) \subseteq Elems(q)
    <2> DEFINE t == Tail(q)
    <2>1. /\ Len(q) \in Nat \ {0} /\ Len(t) = Len(q) - 1 /\ Head(q) = q[1]
          /\ \A i \in 1 .. Len(q) - 1 : t[i] = q[i + 1]
      BY <1>2, TailFacts
    <2> HIDE DEF t
    <2>2. \A i \in 1 .. Len(t) : i + 1 \in 1 .. Len(q) /\ t[i] = q[i + 1]
      BY <2>1
    <2> QED BY <2>1, <2>2 DEF Elems, t
  <1> QED BY <1>1, <1>2

LEMMA ElemsEmpty == Elems(<<>>) = {}
    BY DEF Elems

\* What is written was queued.
LEMMA ElemsWritten ==
    ASSUME NEW S, NEW w \in Seq(S), NEW q \in Seq(S), NEW n \in 1 .. Len(q)
    PROVE  /\ Elems(Glued(w, Firsts(q, n))) \subseteq Elems(w) \cup Elems(q)
           /\ Elems(Rest(q, n)) \subseteq Elems(q)
  <1>1. /\ Firsts(q, n) \in Seq(S)
        /\ \A i \in 1 .. Len(Rest(q, n)) : \E k \in 1 .. Len(q) : Rest(q, n)[i] = q[k]
    BY ConcatWrite
  <1>2. /\ Len(Firsts(q, n)) = n
        /\ \A i \in 1 .. n : Firsts(q, n)[i] = q[i]
    BY DEF Firsts
  <1>3. PICK p : p = Firsts(q, n)
    OBVIOUS
  <1>4. PICK s : s = Glued(w, p)
    OBVIOUS
  <1>5. /\ Len(w) \in Nat /\ Len(p) \in Nat /\ Len(s) = Len(w) + Len(p)
        /\ \A i \in 1 .. Len(w) : s[i] = w[i]
        /\ \A i \in 1 .. Len(p) : s[Len(w) + i] = p[i]
    BY <1>1, <1>3, <1>4, ConcatFacts DEF Glued
  <1>6. \A i \in 1 .. Len(p) : p[i] \in Elems(q)
    <2>1. Len(q) \in Nat
      BY LenProperties
    <2> QED BY <1>2, <1>3, <2>1 DEF Elems
  <1>7. ASSUME NEW i \in 1 .. Len(s) PROVE s[i] \in Elems(w) \cup Elems(q)
    <2>1. CASE i \in 1 .. Len(w)
      BY <1>5, <2>1 DEF Elems
    <2>2. CASE i \notin 1 .. Len(w)
      <3>1. i - Len(w) \in 1 .. Len(p) /\ Len(w) + (i - Len(w)) = i
        BY <1>5, <2>2
      <3> QED BY <1>5, <1>6, <3>1
    <2> QED BY <2>1, <2>2
  <1>8. Elems(s) \subseteq Elems(w) \cup Elems(q)
    BY <1>7 DEF Elems
  <1>9. Elems(Rest(q, n)) \subseteq Elems(q)
    BY <1>1 DEF Elems
  <1> QED BY <1>3, <1>4, <1>8, <1>9

\* Servers know and are told of no other tasks than this worker does, and assign no
\* others.
Suited(c) ==
    /\ srvAbil[c] \subseteq abilities
    /\ \A m \in Elems(wire[c]) \cup Elems(outgoing[c]) :
          m.cmd = "CAN_DO" => m.tasks \subseteq abilities
    /\ \A m \in Elems(inbound[c]) : m.cmd = "JOB_ASSIGN_UNIQ" =>
          job[m.job].state # "new" /\ job[m.job].task \in abilities

Steady == Inductive /\ Owed /\ \A c \in Conns : Suited(c)

\* What a step queues is an announcement of what this worker does, or no announcement.
LEMMA Queues ==
    ASSUME Typed, MaxChanges = 0, [Next]_vars, NEW c \in Conns
    PROVE  /\ \A m \in Elems(outgoing'[c]) :
                 m \in Elems(outgoing[c]) \/ (m.cmd = "CAN_DO" => m.tasks = abilities)
           /\ Elems(wire'[c]) \subseteq Elems(wire[c]) \cup Elems(outgoing[c])
           /\ abilities' = abilities
  <1>1. /\ wire \in [Conns -> Seq(Outbound)] /\ outgoing \in [Conns -> Seq(Outbound)]
        /\ abilities \in SUBSET Tasks
    BY DEF Typed, TypeOK
  <1>2. ASSUME wire' = wire, NEW d \in Conns, NEW m \in Outbound, m.cmd # "CAN_DO",
               outgoing' = [outgoing EXCEPT ![d] = Append(@, m)]
        PROVE  /\ Elems(outgoing'[c]) \subseteq Elems(outgoing[c]) \cup {m}
               /\ wire'[c] = wire[c]
    <2>1. CASE c = d
      <3>1. outgoing'[c] = Append(outgoing[c], m) /\ outgoing[c] \in Seq(Outbound)
        BY <1>1, <1>2, <2>1
      <3>2. Elems(Append(outgoing[c], m)) = Elems(outgoing[c]) \cup {m}
        BY <3>1, ElemsFacts
      <3> QED BY <1>2, <3>1, <3>2
    <2>2. CASE c # d
      BY <1>1, <1>2, <2>2
    <2> QED BY <2>1, <2>2
  <1>3. ASSUME NEW S, Close(S)
        PROVE  /\ outgoing'[c] \in {<<>>, outgoing[c]} /\ wire'[c] \in {<<>>, wire[c]}
    BY <1>3 DEF Close
  <1>4. ASSUME NEW S \in SUBSET Dead, Establish(S)
        PROVE  /\ outgoing'[c] \in {outgoing[c], <<CanDo(abilities), Plain("PRE_SLEEP")>>}
               /\ wire' = wire /\ abilities' = abilities
    BY <1>4 DEF Establish
  <1>5. Elems(<<CanDo(abilities), Plain("PRE_SLEEP")>>) = {CanDo(abilities), Plain("PRE_SLEEP")}
    <2>1. PICK q, e, p : e = CanDo(abilities) /\ p = Plain("PRE_SLEEP") /\ q = <<e, p>>
      OBVIOUS
    <2>2. Len(q) = 2 /\ q[1] = e /\ q[2] = p
      BY <2>1
    <2>3. 1 .. Len(q) = {1, 2}
      BY <2>2
    <2>4. Elems(q) = {e, p}
      BY <2>2, <2>3 DEF Elems
    <2> QED BY <2>1, <2>4
  <1>6. /\ CanDo(abilities).tasks = abilities
        /\ Plain("PRE_SLEEP") \in Outbound /\ Plain("PRE_SLEEP").cmd # "CAN_DO"
        /\ Plain("GRAB_JOB_UNIQ") \in Outbound /\ Plain("GRAB_JOB_UNIQ").cmd # "CAN_DO"
        /\ Plain("WORK_STATUS") \in Outbound /\ Plain("WORK_STATUS").cmd # "CAN_DO"
    BY <1>1, CommandFacts
  <1>7. CASE StartWork \/ Reestablish
    <2>1. PICK S \in SUBSET Dead : Establish(S)
      BY <1>7 DEF StartWork, Reestablish
    <2> QED BY <1>4, <1>5, <1>6, <2>1
  <1>8. CASE StopWork \/ Shutdown
    BY <1>3, <1>8, ElemsEmpty DEF StopWork, Shutdown
  <1>9. ASSUME NEW A \in SUBSET Tasks, SetAbilities(A) PROVE FALSE
    <2>1. changes \in Nat
      BY DEF Typed, TypeOK
    <2> QED BY <1>9, <2>1 DEF SetAbilities
  <1>10. ASSUME NEW d \in Conns, HandleWrite(d)
         PROVE  /\ Elems(outgoing'[c]) \subseteq Elems(outgoing[c])
                /\ Elems(wire'[c]) \subseteq Elems(wire[c]) \cup Elems(outgoing[c])
                /\ abilities' = abilities
    <2>1. PICK n \in 1 .. Len(outgoing[d]) :
             /\ wire' = [wire EXCEPT ![d] = @ \o SubSeq(outgoing[d], 1, n)]
             /\ outgoing' = [outgoing EXCEPT ![d] = SubSeq(@, n + 1, Len(@))]
      BY <1>10 DEF HandleWrite
    <2>2. abilities' = abilities
      BY <1>10 DEF HandleWrite, workerVars
    <2>3. CASE c = d
      <3>1. PICK w, q : w = wire[d] /\ q = outgoing[d]
        OBVIOUS
      <3>2. w \in Seq(Outbound) /\ q \in Seq(Outbound) /\ n \in 1 .. Len(q)
        BY <1>1, <3>1
      <3>3. wire'[c] = Glued(w, Firsts(q, n)) /\ outgoing'[c] = Rest(q, n)
        BY <1>1, <2>1, <2>3, <3>1 DEF Glued, Firsts, Rest
      <3>4. /\ Elems(Glued(w, Firsts(q, n))) \subseteq Elems(w) \cup Elems(q)
            /\ Elems(Rest(q, n)) \subseteq Elems(q)
        BY <3>2, ElemsWritten
      <3> QED BY <2>2, <2>3, <3>1, <3>3, <3>4
    <2>4. CASE c # d
      BY <1>1, <2>1, <2>2, <2>4
    <2> QED BY <2>3, <2>4
  <1>11. ASSUME NEW d \in Conns, Receive(d) \/ ConnectionDies(d)
         PROVE  /\ wire'[c] \in {<<>>, wire[c]} /\ abilities' = abilities
                /\ \/ outgoing'[c] \in {<<>>, outgoing[c]}
                   \/ Elems(outgoing'[c]) \subseteq Elems(outgoing[c]) \cup {Plain("PRE_SLEEP")}
                   \/ Elems(outgoing'[c]) \subseteq Elems(outgoing[c]) \cup {Plain("GRAB_JOB_UNIQ")}
    <2>1. CASE RecvNoop(d)
      BY <1>2, <1>6, <2>1 DEF RecvNoop, Send
    <2>2. CASE RecvNoJob(d)
      BY <1>2, <1>6, <2>2 DEF RecvNoJob, Send
    <2>3. CASE RecvJobAssign(d) \/ RecvRaises(d)
      BY <2>3 DEF RecvJobAssign, RecvRaises
    <2>4. CASE ConnectionDies(d)
      BY <1>3, <2>4 DEF ConnectionDies, HandleError
    <2> QED BY <1>11, <2>1, <2>2, <2>3, <2>4 DEF Receive
  <1>12. ASSUME NEW d \in Conns, Server(d)
         PROVE  /\ outgoing' = outgoing /\ abilities' = abilities
                /\ Elems(wire'[c]) \subseteq Elems(wire[c])
    <2>1. outgoing' = outgoing /\ abilities' = abilities
      BY <1>12 DEF Server, ServerWakes, ServerReads, ServerDrops, workerVars
    <2>2. \/ wire' = wire
          \/ wire' = [wire EXCEPT ![d] = Tail(@)] /\ wire[d] # <<>>
          \/ wire' = [wire EXCEPT ![d] = <<>>]
      BY <1>12 DEF Server, ServerWakes, ServerReads, ServerDrops
    <2>3. \/ wire'[c] = wire[c]
          \/ wire'[c] = Tail(wire[c]) /\ wire[c] # <<>>
          \/ wire'[c] = <<>>
      BY <1>1, <2>2
    <2> QED BY <1>1, <2>1, <2>3, ElemsFacts, ElemsEmpty
  <1>13. CASE Execute
    <2>1. CASE JobUpdate
      <3>1. running.conn \in Conns
        BY <2>1 DEF JobUpdate, InCallback, Typed, TypeOK
      <3>2. Elems(outgoing'[c]) \subseteq Elems(outgoing[c]) \cup {Plain("WORK_STATUS")}
            /\ wire'[c] = wire[c]
        BY <1>2, <1>6, <2>1, <3>1 DEF JobUpdate, Send
      <3> QED BY <1>6, <2>1, <3>2 DEF JobUpdate
    <2>2. ASSUME NEW verdict \in Verdicts, JobReturns(verdict)
          PROVE  \E m \in Outbound :
                    /\ m.cmd # "CAN_DO" /\ abilities' = abilities /\ wire'[c] = wire[c]
                    /\ Elems(outgoing'[c]) \subseteq Elems(outgoing[c]) \cup {m}
      <3>1. running.conn \in Conns /\ running.job \in Jobs
        BY <2>2 DEF JobReturns, InCallback, Typed, TypeOK
      <3>2. PICK m : m = AboutJob(verdict, running.job)
        OBVIOUS
      <3>3. m \in Outbound /\ m.cmd # "CAN_DO"
        BY <3>1, <3>2, CommandFacts DEF Verdicts
      <3>4. /\ outgoing' = [outgoing EXCEPT ![running.conn] = Append(@, m)]
            /\ wire' = wire /\ abilities' = abilities
        BY <2>2, <3>2 DEF JobReturns, Send
      <3> QED BY <1>2, <3>1, <3>3, <3>4
    <2>3. CASE ResultSent
      <3>1. running.conn \in Conns
        BY <2>3 DEF ResultSent, InWait, Typed, TypeOK
      <3>2. Elems(outgoing'[c]) \subseteq Elems(outgoing[c]) \cup {Plain("PRE_SLEEP")}
            /\ wire'[c] = wire[c]
        BY <1>2, <1>6, <2>3, <3>1 DEF ResultSent, Send
      <3> QED BY <1>6, <2>3, <3>2 DEF ResultSent
    <2>4. CASE ConnectionDiesInWait
      <3>1. Close({running.conn}) /\ abilities' = abilities
        BY <2>4 DEF ConnectionDiesInWait, HandleError
      <3> QED BY <1>3, <3>1, ElemsEmpty
    <2>5. CASE JobReturnsInVain \/ JobInterrupted \/ UpdateSent
      BY <2>5 DEF JobReturnsInVain, JobInterrupted, UpdateSent
    <2> QED BY <1>13, <2>1, <2>2, <2>3, <2>4, <2>5 DEF Execute
  <1>14. CASE CallbackGoesOn \/ RoundEnds \/ NoConnections
    BY <1>14 DEF CallbackGoesOn, RoundEnds, NoConnections
  <1>15. ASSUME NEW j \in Jobs,
                (\E d \in Conns, t \in Tasks : ClientSubmits(j, d, t)) \/ OtherWorkerTakes(j)
         PROVE  outgoing' = outgoing /\ wire' = wire /\ abilities' = abilities
    BY <1>15 DEF ClientSubmits, OtherWorkerTakes, workerVars
  <1>16. CASE UNCHANGED vars
    BY <1>16 DEF vars, workerVars
  <1>17. CASE \E d \in Conns : Receive(d) \/ ConnectionDies(d)
    <2>1. PICK d \in Conns : Receive(d) \/ ConnectionDies(d)
      BY <1>17
    <2>2. /\ wire'[c] \in {<<>>, wire[c]} /\ abilities' = abilities
          /\ \/ outgoing'[c] \in {<<>>, outgoing[c]}
             \/ Elems(outgoing'[c]) \subseteq Elems(outgoing[c]) \cup {Plain("PRE_SLEEP")}
             \/ Elems(outgoing'[c]) \subseteq Elems(outgoing[c]) \cup {Plain("GRAB_JOB_UNIQ")}
      BY <1>11, <2>1
    <2> QED BY <1>6, <2>2, ElemsEmpty
  <1>18. CASE Next
    BY <1>7, <1>8, <1>9, <1>10, <1>12, <1>13, <1>14, <1>15, <1>17, <1>18 DEF Next
  <1> QED BY <1>16, <1>18

\* A job keeps its task, once it has one.
LEMMA TasksStay ==
    ASSUME Typed, [Next]_vars, NEW j \in Jobs, job[j].state # "new"
    PROVE  job'[j].state # "new" /\ job'[j].task = job[j].task
  <1>1. job \in [Jobs -> JobRecords] /\ job[j] \in JobRecords
    BY DEF Typed, TypeOK
  <1>2. \A s \in {"queued", "assigned", "done", "failed", "elsewhere"} :
           /\ [job[j] EXCEPT !.state = s].state # "new"
           /\ [job[j] EXCEPT !.state = s].task = job[j].task
    BY <1>1 DEF JobRecords
  <1>3. ASSUME NEW S, job' = Requeued(S)
        PROVE  job'[j].state # "new" /\ job'[j].task = job[j].task
    BY <1>2, <1>3 DEF Requeued
  <1>4. ASSUME NEW k, NEW s \in {"queued", "assigned", "done", "failed", "elsewhere"},
               job' = [job EXCEPT ![k].state = s]
        PROVE  job'[j].state # "new" /\ job'[j].task = job[j].task
    <2>1. job'[j] = job[j] \/ job'[j] = [job[j] EXCEPT !.state = s]
      BY <1>1, <1>4
    <2> QED BY <1>2, <2>1
  <1>5. CASE StopWork \/ Shutdown
    BY <1>3, <1>5 DEF StopWork, Shutdown, Close
  <1>6. ASSUME NEW c \in Conns, ConnectionDies(c) \/ ServerDrops(c)
        PROVE  job'[j].state # "new" /\ job'[j].task = job[j].task
    BY <1>3, <1>6 DEF ConnectionDies, HandleError, Close, ServerDrops
  <1>7. CASE ConnectionDiesInWait
    BY <1>3, <1>7 DEF ConnectionDiesInWait, HandleError, Close
  <1>8. ASSUME NEW c \in Conns, ServerReads(c)
        PROVE  job'[j].state # "new" /\ job'[j].task = job[j].task
    <2>1. CASE ServerGrants(c)
      BY <1>4, <2>1 DEF ServerGrants
    <2>2. CASE ServerNotes(c)
      <3>1. \/ job' = job
            \/ job' = [job EXCEPT ![Head(wire[c]).job].state = "done"]
            \/ job' = [job EXCEPT ![Head(wire[c]).job].state = "failed"]
        BY <2>2 DEF ServerNotes
      <3> QED BY <1>4, <3>1
    <2> QED BY <1>8, <2>1, <2>2 DEF ServerReads
  <1>9. ASSUME NEW k \in Jobs, \E c \in Conns, t \in Tasks : ClientSubmits(k, c, t)
        PROVE  job'[j] = job[j]
    BY <1>1, <1>9 DEF ClientSubmits
  <1>10. ASSUME NEW k \in Jobs, OtherWorkerTakes(k)
         PROVE  job'[j].state # "new" /\ job'[j].task = job[j].task
    BY <1>4, <1>10 DEF OtherWorkerTakes
  <1>11. ASSUME NEW c \in Conns, HandleWrite(c) \/ Receive(c) \/ ServerWakes(c)
         PROVE  job' = job
    BY <1>11 DEF HandleWrite, Receive, RecvNoop, RecvNoJob, RecvJobAssign, RecvRaises,
                 ServerWakes, serverVars
  <1>12. CASE StartWork \/ CallbackGoesOn \/ RoundEnds \/ Reestablish \/ NoConnections
    <2>1. job' = job
      BY <1>12 DEF StartWork, CallbackGoesOn, RoundEnds, Reestablish, NoConnections, Establish,
                   serverVars
    <2> QED BY <2>1
  <1>13. ASSUME NEW A \in SUBSET Tasks, SetAbilities(A) PROVE job' = job
    BY <1>13 DEF SetAbilities, serverVars
  <1>14. CASE Execute
    <2>1. CASE ~ConnectionDiesInWait
      <3>1. job' = job
        BY <1>14, <2>1 DEF Execute, JobUpdate, JobReturns, JobReturnsInVain, JobInterrupted,
                           UpdateSent, ResultSent, serverVars
      <3> QED BY <3>1
    <2> QED BY <1>7, <2>1
  <1>15. CASE UNCHANGED vars
    BY <1>15 DEF vars, serverVars
  <1>16. ASSUME NEW c \in Conns, Server(c)
         PROVE  job'[j].state # "new" /\ job'[j].task = job[j].task
    BY <1>6, <1>8, <1>11, <1>16 DEF Server
  <1>17. CASE Next
    BY <1>5, <1>6, <1>9, <1>10, <1>11, <1>12, <1>13, <1>14, <1>16, <1>17 DEF Next
  <1> QED BY <1>15, <1>17

\* What a server learns it reads, and it assigns a job that is queued for a task it knows.
LEMMA Learns ==
    ASSUME Typed, [Next]_vars, NEW c \in Conns
    PROVE  \/ srvAbil'[c] \in {{}, srvAbil[c]}
           \/ \E m \in Elems(wire[c]) : m.cmd = "CAN_DO" /\ srvAbil'[c] = m.tasks
  <1>1. srvAbil \in [Conns -> SUBSET Tasks] /\ wire[c] \in Seq(Outbound)
    BY DEF Typed, TypeOK
  <1>2. ASSUME NEW S, Close(S) PROVE srvAbil'[c] \in {{}, srvAbil[c]}
    BY <1>2 DEF Close
  <1>3. CASE StopWork \/ Shutdown
    BY <1>2, <1>3 DEF StopWork, Shutdown
  <1>4. ASSUME NEW d \in Conns, HandleWrite(d) \/ Receive(d) \/ ConnectionDies(d)
        PROVE  srvAbil'[c] \in {{}, srvAbil[c]}
    BY <1>2, <1>4 DEF HandleWrite, Receive, RecvNoop, RecvNoJob, RecvJobAssign, RecvRaises,
                      ConnectionDies, HandleError, serverVars
  <1>5. ASSUME NEW d \in Conns, Server(d)
        PROVE  \/ srvAbil'[c] \in {{}, srvAbil[c]}
               \/ \E m \in Elems(wire[c]) : m.cmd = "CAN_DO" /\ srvAbil'[c] = m.tasks
    <2>1. CASE ServerWakes(d)
      BY <2>1 DEF ServerWakes
    <2>2. CASE ServerDrops(d)
      BY <1>1, <2>2 DEF ServerDrops
    <2>3. CASE ServerReads(d)
      <3>1. \/ srvAbil' = srvAbil
            \/ /\ Head(wire[d]).cmd = "CAN_DO"
               /\ srvAbil' = [srvAbil EXCEPT ![d] = Head(wire[d]).tasks]
        BY <2>3 DEF ServerReads, ServerGrants, ServerNotes
      <3>2. CASE c = d
        <4>1. Head(wire[c]) \in Elems(wire[c])
          BY <1>1, <2>3, <3>2, ElemsFacts DEF ServerReads
        <4> QED BY <1>1, <3>1, <3>2, <4>1
      <3>3. CASE c # d
        BY <1>1, <3>1, <3>3
      <3> QED BY <3>2, <3>3
    <2> QED BY <1>5, <2>1, <2>2, <2>3 DEF Server
  <1>6. CASE StartWork \/ CallbackGoesOn \/ RoundEnds \/ Reestablish \/ NoConnections
    <2>1. srvAbil' = srvAbil
      BY <1>6 DEF StartWork, CallbackGoesOn, RoundEnds, Reestablish, NoConnections, Establish,
                  serverVars
    <2> QED BY <2>1
  <1>7. ASSUME NEW A \in SUBSET Tasks, SetAbilities(A) PROVE srvAbil' = srvAbil
    BY <1>7 DEF SetAbilities, serverVars
  <1>8. CASE Execute
    <2>1. CASE ~ConnectionDiesInWait
      <3>1. srvAbil' = srvAbil
        BY <1>8, <2>1 DEF Execute, JobUpdate, JobReturns, JobReturnsInVain, JobInterrupted,
                          UpdateSent, ResultSent, serverVars
      <3> QED BY <3>1
    <2>2. CASE ConnectionDiesInWait
      BY <1>2, <2>2 DEF ConnectionDiesInWait, HandleError
    <2> QED BY <2>1, <2>2
  <1>9. ASSUME NEW j \in Jobs,
               (\E d \in Conns, t \in Tasks : ClientSubmits(j, d, t)) \/ OtherWorkerTakes(j)
        PROVE  srvAbil' = srvAbil
    BY <1>9 DEF ClientSubmits, OtherWorkerTakes
  <1>10. CASE UNCHANGED vars
    BY <1>10 DEF vars, serverVars
  <1>11. CASE Next
    BY <1>3, <1>4, <1>5, <1>6, <1>7, <1>8, <1>9, <1>11 DEF Next
  <1> QED BY <1>10, <1>11

LEMMA Hears ==
    ASSUME Typed, [Next]_vars, NEW c \in Conns, NEW m \in Elems(inbound'[c]),
           m \notin Elems(inbound[c]), m.cmd = "JOB_ASSIGN_UNIQ"
    PROVE  m.job \in Jobs /\ job[m.job].state # "new" /\ job[m.job].task \in srvAbil[c]
  <1>1. inbound \in [Conns -> Seq(Inbound)] /\ inbound[c] \in Seq(Inbound)
    BY DEF Typed, TypeOK
  <1>2. ASSUME NEW S, Close(S) PROVE inbound'[c] \in {<<>>, inbound[c]}
    BY <1>2 DEF Close
  <1>3. CASE StopWork \/ Shutdown
    BY <1>2, <1>3, ElemsEmpty DEF StopWork, Shutdown
  <1>4. ASSUME NEW d \in Conns, Receive(d) PROVE FALSE
    <2>1. inbound[d] # <<>> /\ inbound' = [inbound EXCEPT ![d] = Tail(@)]
      BY <1>4 DEF Receive, RecvNoop, RecvNoJob, RecvJobAssign, RecvRaises, Fetch
    <2>2. CASE c = d
      BY <1>1, <2>1, <2>2, ElemsFacts
    <2>3. CASE c # d
      BY <1>1, <2>1, <2>3
    <2> QED BY <2>2, <2>3
  <1>5. ASSUME NEW d \in Conns, HandleWrite(d) \/ ConnectionDies(d) PROVE FALSE
    BY <1>2, <1>5, ElemsEmpty DEF HandleWrite, ConnectionDies, HandleError
  <1>6. ASSUME NEW d \in Conns, NEW e \in Inbound, ServerSends(d, e)
        PROVE  c = d /\ m = e
    <2>1. c = d
      BY <1>1, <1>6 DEF ServerSends
    <2>2. inbound'[c] = Append(inbound[c], e)
      BY <1>1, <1>6, <2>1 DEF ServerSends
    <2>3. Elems(Append(inbound[c], e)) = Elems(inbound[c]) \cup {e}
      BY <1>1, ElemsFacts
    <2> QED BY <2>1, <2>2, <2>3
  <1>7. ASSUME NEW d \in Conns, Server(d)
        PROVE  m.job \in Jobs /\ job[m.job].state # "new" /\ job[m.job].task \in srvAbil[c]
    <2>1. CASE ServerWakes(d)
      BY <1>6, <2>1, CommandFacts DEF ServerWakes
    <2>2. CASE ServerDrops(d)
      BY <2>2 DEF ServerDrops
    <2>3. CASE ServerReads(d) /\ ServerNotes(d)
      BY <2>3 DEF ServerNotes
    <2>4. CASE ServerGrants(d)
      <3>1. CASE ServerSends(d, Plain("NO_JOB"))
        BY <1>6, <3>1, CommandFacts
      <3>2. ASSUME NEW j \in Doable(d), ServerSends(d, AboutJob("JOB_ASSIGN_UNIQ", j))
            PROVE  m.job = j /\ c = d
        <4>1. j \in Jobs
          BY DEF Doable
        <4> QED BY <1>6, <3>2, <4>1, CommandFacts
      <3> QED BY <2>4, <3>1, <3>2 DEF ServerGrants, Doable
    <2> QED BY <1>7, <2>1, <2>2, <2>3, <2>4 DEF Server, ServerReads
  <1>8. CASE StartWork \/ CallbackGoesOn \/ RoundEnds \/ Reestablish \/ NoConnections
    <2>1. inbound' = inbound
      BY <1>8 DEF StartWork, CallbackGoesOn, RoundEnds, Reestablish, NoConnections, Establish
    <2> QED BY <2>1
  <1>9. ASSUME NEW A \in SUBSET Tasks, SetAbilities(A) PROVE inbound' = inbound
    BY <1>9 DEF SetAbilities
  <1>10. CASE Execute
    <2>1. CASE ~ConnectionDiesInWait
      <3>1. inbound' = inbound
        BY <1>10, <2>1 DEF Execute, JobUpdate, JobReturns, JobReturnsInVain, JobInterrupted,
                           UpdateSent, ResultSent
      <3> QED BY <3>1
    <2>2. CASE ConnectionDiesInWait
      BY <1>2, <2>2, ElemsEmpty DEF ConnectionDiesInWait, HandleError
    <2> QED BY <2>1, <2>2
  <1>11. ASSUME NEW j \in Jobs,
                (\E d \in Conns, t \in Tasks : ClientSubmits(j, d, t)) \/ OtherWorkerTakes(j)
         PROVE  inbound' = inbound
    BY <1>11 DEF ClientSubmits, OtherWorkerTakes
  <1>12. CASE UNCHANGED vars
    BY <1>12 DEF vars
  <1>13. CASE Next
    BY <1>3, <1>4, <1>5, <1>7, <1>8, <1>9, <1>10, <1>11, <1>13 DEF Next
  <1> QED BY <1>12, <1>13

LEMMA SuitedStays ==
    ASSUME Typed, MaxChanges = 0, [Next]_vars, NEW c \in Conns, Suited(c)
    PROVE  Suited(c)'
  <1>1. /\ \A m \in Elems(outgoing'[c]) :
              m \in Elems(outgoing[c]) \/ (m.cmd = "CAN_DO" => m.tasks = abilities)
        /\ Elems(wire'[c]) \subseteq Elems(wire[c]) \cup Elems(outgoing[c])
        /\ abilities' = abilities
    BY Queues
  <1>2. srvAbil'[c] \subseteq abilities'
    BY <1>1, Learns DEF Suited
  <1>3. \A m \in Elems(wire'[c]) \cup Elems(outgoing'[c]) :
           m.cmd = "CAN_DO" => m.tasks \subseteq abilities'
    BY <1>1 DEF Suited
  <1>4. ASSUME NEW m \in Elems(inbound'[c]), m.cmd = "JOB_ASSIGN_UNIQ"
        PROVE  job'[m.job].state # "new" /\ job'[m.job].task \in abilities'
    <2>1. m.job \in Jobs /\ job[m.job].state # "new" /\ job[m.job].task \in abilities
      <3>1. CASE m \in Elems(inbound[c])
        <4>1. inbound[c] \in Seq(Inbound)
          BY SaidTyped
        <4>2. m \in Inbound
          BY <3>1, <4>1, ElementOfSeq DEF Elems
        <4> QED BY <1>4, <3>1, <4>2, CommandFacts DEF Suited
      <3>2. CASE m \notin Elems(inbound[c])
        BY <1>4, <3>2, Hears DEF Suited
      <3> QED BY <3>1, <3>2
    <2> QED BY <1>1, <2>1, TasksStay
  <1>5. (abilities \in SUBSET Tasks) /\ Elems(wire[c])' = Elems(wire'[c])
        /\ Elems(outgoing[c])' = Elems(outgoing'[c]) /\ Elems(inbound[c])' = Elems(inbound'[c])
    BY DEF Typed, TypeOK
  <1> QED BY <1>2, <1>3, <1>4, <1>5 DEF Suited

\* A job that is assigned suits this worker, which holds the lock: it does not raise.
LEMMA NeverRaises ==
    ASSUME Steady, NEW c \in Conns
    PROVE  ~RecvRaises(c)
  <1> SUFFICES ASSUME RecvRaises(c) PROVE FALSE
    OBVIOUS
  <1>1. Typed /\ Grabbing(c) /\ Suited(c) /\ inbound[c] \in Seq(Inbound)
    BY SaidTyped DEF Steady, Inductive, WorkerInv, Connected
  <1>2. PICK cmd \in Answers :
           /\ Fetch(c, cmd)
           /\ \/ /\ cmd = "JOB_ASSIGN_UNIQ"
                 /\ job[Head(inbound[c]).job].task \notin abilities
              \/ ~HoldsLock(c)
    BY DEF RecvRaises, Answers
  <1>3. connected[c] /\ At(inbound[c], Answers) # {}
    BY <1>1, <1>2, FetchFacts
  <1>4. HoldsLock(c)
    BY <1>1, <1>3 DEF Grabbing, HoldsLock
  <1>5. Head(inbound[c]) \in Elems(inbound[c]) /\ Head(inbound[c]).cmd = cmd
    BY <1>1, <1>2, ElemsFacts DEF Fetch
  <1> QED BY <1>1, <1>2, <1>4, <1>5 DEF Suited

LEMMA OwedNext ==
    ASSUME Steady, MaxStops = 0, MaxChanges = 0, [Next]_vars
    PROVE  Owed'
  <1>1. Inductive /\ Owed /\ stops \in Nat /\ changes \in Nat
    BY DEF Steady, Inductive, Typed, TypeOK
  <1>2. CASE StartWork \/ CallbackGoesOn \/ RoundEnds \/ Reestablish \/ NoConnections
    BY <1>1, <1>2, LoopKeeps
  <1>3. ~StopWork /\ ~JobInterrupted /\ \A A : ~SetAbilities(A)
    BY <1>1 DEF StopWork, JobInterrupted, SetAbilities
  <1>4. CASE Shutdown
    BY <1>1, <1>4, EndKeeps
  <1>5. ASSUME NEW c \in Conns, HandleWrite(c) \/ ConnectionDies(c) PROVE Owed'
    BY <1>1, <1>5, WriteKeeps, DiesKeeps
  <1>6. ASSUME NEW c \in Conns, Receive(c) PROVE Owed'
    BY <1>1, <1>6, NeverRaises, NoopKeeps, NoJobKeeps, AssignKeeps DEF Receive
  <1>7. ASSUME NEW c \in Conns, Server(c) PROVE Owed'
    <2>1. CASE ServerReads(c)
      <3>1. ServerGrants(c) \/ ServerNotes(c)
        BY <2>1 DEF ServerReads
      <3> QED BY <1>1, <2>1, <3>1, GrantsKeeps, NotesKeeps
    <2> QED BY <1>1, <1>7, <2>1, WakesKeeps, DropsKeeps DEF Server
  <1>8. CASE Execute
    BY <1>1, <1>3, <1>8, JobSendsKeeps, JobLeftKeeps, UpdateSentKeeps, ResultSentKeeps,
       DiesInWaitKeeps DEF Execute
  <1>9. ASSUME NEW j \in Jobs,
               (\E c \in Conns, t \in Tasks : ClientSubmits(j, c, t)) \/ OtherWorkerTakes(j)
        PROVE  Owed'
    BY <1>1, <1>9, SubmitKeeps
  <1>10. CASE UNCHANGED vars
    BY <1>1, <1>10, IdleKeeps
  <1>11. CASE Next
    BY <1>2, <1>3, <1>4, <1>5, <1>6, <1>7, <1>8, <1>9, <1>11 DEF Next
  <1> QED BY <1>10, <1>11

LEMMA SteadyHolds ==
    ASSUME MaxStops = 0, MaxChanges = 0
    PROVE  Spec => []Steady
  <1>1. Init => Steady
    <2> SUFFICES ASSUME Init PROVE Steady
      OBVIOUS
    <2>1. /\ lock = None
          /\ \A c \in Conns : /\ srvAbil[c] = {} /\ wire[c] = <<>> /\ outgoing[c] = <<>>
                              /\ inbound[c] = <<>>
      BY DEF Init
    <2>2. Owed /\ \A c \in Conns : Suited(c)
      BY <2>1, ElemsEmpty DEF Owed, Suited
    <2> QED BY <2>2, InitTyped, InitWorker DEF Steady, Inductive
  <1>2. Steady /\ [Next]_vars => Steady'
    <2> SUFFICES ASSUME Steady, [Next]_vars PROVE Steady'
      OBVIOUS
    <2>1. Inductive'
      BY NextTyped, NextKeeps DEF Steady, Inductive
    <2>2. ASSUME NEW c \in Conns PROVE Suited(c)'
      BY SuitedStays DEF Steady, Inductive
    <2> QED BY <2>1, <2>2, OwedNext DEF Steady
  <1> QED BY <1>1, <1>2, PTL DEF Spec

LEMMA WaitsGrabs ==
    ASSUME Typed, NEW c \in Conns, Waits(c)
    PROVE  Grabs(c) # {} \/ srv[c] = "gone"
  <1>1. /\ Saying(c, {"GRAB_JOB_UNIQ"}) = At(Said(c), Asks)
        /\ Hearing(c, {"JOB_ASSIGN_UNIQ", "NO_JOB"}) = At(inbound[c], Answers)
    BY PlacesAgree DEF Asks, Answers
  <1>2. connected[c]
    BY DEF Waits
  <1>3. CASE At(Said(c), Asks) # {}
    BY <1>1, <1>2, <1>3 DEF Grabs
  <1>4. CASE At(inbound[c], Answers) # {}
    BY <1>1, <1>2, <1>4 DEF Grabs
  <1>5. CASE RunsOn(c)
    BY <1>2, <1>5 DEF Grabs, RunsOn
  <1> QED BY <1>3, <1>4, <1>5 DEF Waits

LEMMA HolderWaits ==
    ASSUME Steady, NEW c \in Conns, lock = Handler(c)
    PROVE  Waits(c)
  <1>1. Typed /\ Owed
    BY DEF Steady, Inductive
  <1>2. PICK d \in Conns : Waits(d)
    BY <1>1, HandlersDiffer DEF Owed
  <1>3. d = c
    BY <1>1, <1>2, HandlersDiffer DEF Waits
  <1> QED BY <1>2, <1>3

\* While the worker keeps its tasks and is not told to stop, whoever holds the job lock is
\* on the way to giving it back, through every loss of a connection and every shutdown():
\* no handler of an earlier session keeps the others from all jobs.
THEOREM LockAlwaysOwed ==
    ASSUME MaxStops = 0, MaxChanges = 0
    PROVE  Spec => []LockIsOwed
  <1>1. Steady => LockIsOwed
    <2> SUFFICES ASSUME Steady, lock # None PROVE LockIsOwed
      BY DEF LockIsOwed
    <2>1. PICK c \in Conns : Waits(c)
      BY DEF Steady, Owed
    <2>2. lock = Handler(c) /\ connected[c] /\ lock[1] = c
      BY <2>1 DEF Waits, Handler
    <2>3. Grabs(c) # {} \/ srv[c] = "gone"
      BY <2>1, WaitsGrabs DEF Steady, Inductive
    <2> QED BY <2>2, <2>3 DEF LockIsOwed
  <1> QED BY <1>1, SteadyHolds, PTL

\* Under the same conditions the worker never drops a job and stays connected: what a
\* server believes it to have is on its way to the callback, in it, or its verdict is on
\* the way back.
THEOREM AssignedAlwaysHandled ==
    ASSUME MaxStops = 0, MaxChanges = 0
    PROVE  Spec => []AssignedIsHandled
  <1>1. Steady => AssignedIsHandled
    <2> SUFFICES ASSUME Steady, NEW j \in Jobs, job[j].state = "assigned"
                 PROVE  LET c == job[j].server IN
                        \/ \E i \in Hearing(c, {"JOB_ASSIGN_UNIQ"}) : inbound[c][i].job = j
                        \/ running # None /\ running.job = j /\ running.conn = c
                              /\ running.step # "result"
                        \/ \E i \in Saying(c, Verdicts) : Said(c)[i].job = j
      BY DEF AssignedIsHandled
    <2>1. Typed /\ Assigned(j)
      BY DEF Steady, Inductive, WorkerInv
    <2>2. PICK c \in Conns : job[j].server = c /\ HasIt(j, c)
      BY <2>1 DEF Assigned
    <2>3. Handled(j, c)
      <3>1. CASE GivenUp(c)
        <4>1. Waits(c)
          BY <3>1, HolderWaits DEF GivenUp
        <4> QED BY <2>2, <3>1, <4>1 DEF Waits, GivenUp, HasIt
      <3> QED BY <2>2, <3>1 DEF HasIt
    <2>4. /\ Hearing(c, {"JOB_ASSIGN_UNIQ"}) = At(inbound[c], {"JOB_ASSIGN_UNIQ"})
          /\ Saying(c, Verdicts) = At(Said(c), Verdicts)
      BY <2>1, PlacesAgree
    <2> QED BY <2>2, <2>3, <2>4 DEF Handled, Has, At, RunsOn
  <1> QED BY <1>1, SteadyHolds, PTL

\* Under the same conditions a connection that is not busy with a job sleeps, is about to,
\* or is about to be woken: the server can always say that it has work.
THEOREM WakeupNeverLost ==
    ASSUME MaxStops = 0, MaxChanges = 0
    PROVE  Spec => []NoLostWakeup
  <1>1. Steady => NoLostWakeup
    <2> SUFFICES ASSUME Steady, NEW c \in Conns, Live(c)
                 PROVE  \/ Grabs(c) # {}
                        \/ srv[c] = "asleep"
                        \/ Saying(c, {"PRE_SLEEP"}) # {}
                        \/ Hearing(c, {"NOOP"}) # {}
      BY DEF NoLostWakeup
    <2>1. Typed /\ Wakeable(c) /\ connected[c] /\ srv[c] # "gone"
      BY DEF Steady, Inductive, WorkerInv, Connected, Live
    <2>2. lock = Handler(c) => Grabs(c) # {}
      BY <2>1, HolderWaits, WaitsGrabs
    <2>3. /\ Saying(c, {"PRE_SLEEP"}) = At(Said(c), {"PRE_SLEEP"})
          /\ Hearing(c, {"NOOP"}) = At(inbound[c], {"NOOP"})
      BY <2>1, PlacesAgree
    <2> QED BY <2>1, <2>2, <2>3 DEF Wakeable
  <1> QED BY <1>1, SteadyHolds, PTL
=============================================================================
