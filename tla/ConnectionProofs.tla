-------------------------- MODULE ConnectionProofs --------------------------
(***************************************************************************)
(* Theorems about Connection: no byte is lost, repeated, reordered or      *)
(* carried over, for any commands of any size in either framing, any       *)
(* pieces the socket takes and gives, and any number of sessions; and the  *)
(* connection implements CommandChannel.  The argument is about the        *)
(* commands that are under way, partly or as a whole: their bytes are      *)
(* exactly those in the buffers and on the network.                        *)
(***************************************************************************)
EXTENDS Connection, SequenceLemmas

-----------------------------------------------------------------------------
(***************************************************************************)
(* FlattenSeq, of which Frames is made, by its recursive function.         *)
(***************************************************************************)

\* f joins the first n sequences of ss for each n up to m.
Flattens(f, ss, m) ==
    /\ f = [i \in 1 .. m |-> f[i]]
    /\ \A i \in 1 .. m : f[i] = IF i = 1 THEN ss[i] ELSE f[i - 1] \o ss[i]

\* There is such a function, and its values are sequences.
LEMMA FlattenExists ==
    ASSUME NEW S, NEW ss \in Seq(Seq(S))
    PROVE  \A m \in 0 .. Len(ss) :
              \E f : Flattens(f, ss, m) /\ \A i \in 1 .. m : f[i] \in Seq(S)
  <1> DEFINE P == {m \in Nat : m <= Len(ss) =>
                 \E f : Flattens(f, ss, m) /\ \A i \in 1 .. m : f[i] \in Seq(S)}
  <1>1. 0 \in P
    <2> DEFINE f == [i \in 1 .. 0 |-> <<>>]
    <2>1. Flattens(f, ss, 0) /\ \A i \in 1 .. 0 : f[i] \in Seq(S)
      BY DEF Flattens
    <2> QED BY <2>1
  <1>2. ASSUME NEW m \in Nat, m \in P PROVE m + 1 \in P
    <2>1. SUFFICES ASSUME m + 1 <= Len(ss)
                   PROVE  \E g : /\ Flattens(g, ss, m + 1)
                                 /\ \A i \in 1 .. m + 1 : g[i] \in Seq(S)
      BY <1>2
    <2>2. PICK f : Flattens(f, ss, m) /\ \A i \in 1 .. m : f[i] \in Seq(S)
      BY <1>2, <2>1
    <2> DEFINE last == IF m = 0 THEN ss[1] ELSE f[m] \o ss[m + 1]
               g == [i \in 1 .. m + 1 |-> IF i <= m THEN f[i] ELSE last]
    <2>3. ss[m + 1] \in Seq(S)
      BY <2>1
    <2>4. last \in Seq(S)
      <3>1. CASE m = 0
        BY <2>3, <3>1
      <3>2. CASE m # 0
        <4>1. f[m] \in Seq(S)
          BY <2>2, <3>2
        <4> QED BY <2>3, <3>2, <4>1, ConcatProperties
      <3> QED BY <3>1, <3>2
    <2>5. \A i \in 1 .. m + 1 : g[i] \in Seq(S)
      BY <2>2, <2>4
    <2>6. ASSUME NEW i \in 1 .. m + 1
          PROVE  g[i] = IF i = 1 THEN ss[i] ELSE g[i - 1] \o ss[i]
      <3>1. CASE i <= m
        <4>1. f[i] = IF i = 1 THEN ss[i] ELSE f[i - 1] \o ss[i]
          <5>1. i \in 1 .. m
            BY <1>2, <3>1
          <5> QED BY <2>2, <5>1, Zenon DEF Flattens
        <4>2. g[i] = f[i] /\ (i # 1 => g[i - 1] = f[i - 1])
          BY <3>1
        <4> QED BY <4>1, <4>2
      <3>2. CASE i = m + 1
        <4>1. g[i] = last /\ (i # 1 => g[i - 1] = f[m])
          BY <3>2
        <4>2. i = 1 <=> m = 0
          BY <3>2
        <4> QED BY <3>2, <4>1, <4>2
      <3> QED BY <3>1, <3>2
    <2>7. g = [i \in 1 .. m + 1 |-> g[i]]
      OBVIOUS
    <2>8. Flattens(g, ss, m + 1)
      <3> HIDE DEF g
      <3> QED BY <2>6, <2>7 DEF Flattens
    <2> QED BY <2>5, <2>8
  <1>3. Nat \subseteq P
    <2> HIDE DEF P
    <2> QED BY <1>1, <1>2, Induction
  <1> QED BY <1>3

\* Two such functions agree as far as what they join does.
LEMMA FlattenUnique ==
    ASSUME NEW m \in Nat, NEW n \in Nat, m <= n, NEW ss, NEW tt,
           NEW f, Flattens(f, ss, m), NEW g, Flattens(g, tt, n),
           \A i \in 1 .. m : ss[i] = tt[i]
    PROVE  \A i \in 1 .. m : f[i] = g[i]
  <1> SUFFICES ASSUME ~(\A i \in 1 .. m : f[i] = g[i]) PROVE FALSE
    OBVIOUS
  <1> DEFINE T == {i \in 1 .. m : f[i] # g[i]}
  <1>0. T \in SUBSET Nat /\ T # {}
    <2>1. PICK i \in 1 .. m : f[i] # g[i]
      OBVIOUS
    <2> QED BY <2>1
  <1>1. PICK x \in T : \A y \in T : x <= y
    <2> HIDE DEF T
    <2> QED BY <1>0, Smallest
  <1>2. x \in 1 .. m /\ x \in 1 .. n
    BY <1>1
  <1>3. f[x] = IF x = 1 THEN ss[x] ELSE f[x - 1] \o ss[x]
    BY <1>2, Zenon DEF Flattens
  <1>4. g[x] = IF x = 1 THEN tt[x] ELSE g[x - 1] \o tt[x]
    BY <1>2, Zenon DEF Flattens
  <1>5. x # 1 => f[x - 1] = g[x - 1]
    BY <1>1
  <1>6. ss[x] = tt[x]
    BY <1>1
  <1> QED BY <1>1, <1>3, <1>4, <1>5, <1>6

\* FlattenSeq is the last value of that function.
LEMMA FlattenValue ==
    ASSUME NEW S, NEW ss \in Seq(Seq(S)), Len(ss) # 0
    PROVE  \E f : Flattens(f, ss, Len(ss)) /\ FlattenSeq(ss) = f[Len(ss)]
  <1> DEFINE step(f) == [i \in 1 .. Len(ss) |-> IF i = 1 THEN ss[i] ELSE f[i - 1] \o ss[i]]
             flatten == CHOOSE f : f = step(f)
  <1>1. \E f : f = step(f)
    <2>1. Len(ss) \in 0 .. Len(ss)
      OBVIOUS
    <2>2. PICK f : Flattens(f, ss, Len(ss))
      BY <2>1, FlattenExists
    <2>3. f = [i \in 1 .. Len(ss) |-> f[i]]
      BY <2>2 DEF Flattens
    <2>4. \A i \in 1 .. Len(ss) : f[i] = IF i = 1 THEN ss[i] ELSE f[i - 1] \o ss[i]
      BY <2>2 DEF Flattens
    <2>5. [i \in 1 .. Len(ss) |-> f[i]] = step(f)
      BY <2>4
    <2> QED BY <2>3, <2>5
  <1>2. flatten = step(flatten)
    <2> HIDE DEF step
    <2> QED BY <1>1
  <1>3. FlattenSeq(ss) = flatten[Len(ss)]
    BY DEF FlattenSeq
  <1>4. Flattens(flatten, ss, Len(ss))
    <2>1. PICK d, e : d = flatten /\ e = step(d)
      OBVIOUS
    <2>3. e = [i \in 1 .. Len(ss) |-> IF i = 1 THEN ss[i] ELSE d[i - 1] \o ss[i]]
      BY <2>1, Zenon
    <2> HIDE DEF step, flatten
    <2>2. d = e
      BY <1>2, <2>1, Zenon
    <2>4. \A i \in 1 .. Len(ss) : e[i] = IF i = 1 THEN ss[i] ELSE d[i - 1] \o ss[i]
      BY <2>3, Zenon
    <2>5. e = [i \in 1 .. Len(ss) |-> e[i]]
      BY <2>3, Zenon
    <2>6. Flattens(d, ss, Len(ss))
      BY <2>2, <2>4, <2>5, Zenon DEF Flattens
    <2> QED BY <2>1, <2>6
  <1> QED BY <1>3, <1>4

\* Joining sequences gives a sequence.
LEMMA FlattenTyped ==
    ASSUME NEW S, NEW ss \in Seq(Seq(S))
    PROVE  FlattenSeq(ss) \in Seq(S)
  <1> DEFINE n == Len(ss)
  <1>1. CASE n = 0
    <2>1. ss = <<>> /\ <<>> \in Seq(S)
      BY <1>1
    <2>2. FlattenSeq(ss) = ss
      BY <1>1 DEF FlattenSeq
    <2> QED BY <2>1, <2>2, Zenon
  <1>2. CASE n # 0
    <2>1. n \in Nat /\ n \in 0 .. n /\ n \in 1 .. n
      BY <1>2
    <2>2. PICK f : Flattens(f, ss, n) /\ FlattenSeq(ss) = f[n]
      BY <1>2, FlattenValue
    <2>3. PICK g : Flattens(g, ss, n) /\ \A i \in 1 .. n : g[i] \in Seq(S)
      BY <2>1, FlattenExists
    <2>4. \A i \in 1 .. n : f[i] = g[i]
      <3> HIDE DEF n
      <3>1. n <= n /\ Flattens(f, ss, n) /\ Flattens(g, ss, n)
        BY <2>1, <2>2, <2>3
      <3> QED BY <2>1, <3>1, FlattenUnique
    <2> QED BY <2>1, <2>2, <2>3, <2>4
  <1> QED BY <1>1, <1>2

\* One sequence more comes at the end.
LEMMA FlattenAppend ==
    ASSUME NEW S, NEW ss \in Seq(Seq(S)), NEW s \in Seq(S)
    PROVE  FlattenSeq(Append(ss, s)) = Cat(FlattenSeq(ss), s)
  <1> DEFINE n == Len(ss)
  <1>1. PICK tt : tt = Append(ss, s)
    OBVIOUS
  <1>2. /\ tt \in Seq(Seq(S)) /\ Len(tt) = n + 1 /\ n \in Nat
        /\ tt[n + 1] = s /\ \A i \in 1 .. n : ss[i] = tt[i]
    BY <1>1
  <1> HIDE DEF n
  <1>3. PICK g : Flattens(g, tt, n + 1) /\ FlattenSeq(tt) = g[n + 1]
    BY <1>2, FlattenValue
  <1>4. n + 1 \in 1 .. n + 1
    BY <1>2
  <1>5. g[n + 1] = IF n + 1 = 1 THEN s ELSE g[(n + 1) - 1] \o s
    BY <1>2, <1>3, <1>4, Zenon DEF Flattens
  <1>6. CASE n = 0
    <2>1. ss = <<>> /\ Len(ss) = 0
      BY <1>6 DEF n
    <2>2. FlattenSeq(ss) = <<>>
      BY <2>1 DEF FlattenSeq
    <2>3. FlattenSeq(tt) = s
      BY <1>3, <1>5, <1>6
    <2> QED BY <1>1, <2>2, <2>3, CatFacts
  <1>7. CASE n # 0
    <2>1. PICK f : Flattens(f, ss, n) /\ FlattenSeq(ss) = f[n]
      BY <1>7, FlattenValue DEF n
    <2>2. \A i \in 1 .. n : f[i] = g[i]
      <3>1. PICK m \in Nat : n <= m /\ Flattens(g, tt, m)
        BY <1>2, <1>3
      <3>2. n \in Nat /\ \A i \in 1 .. n : ss[i] = tt[i]
        BY <1>2
      <3> QED BY <2>1, <3>1, <3>2, FlattenUnique
    <2>3. n + 1 # 1 /\ (n + 1) - 1 = n /\ n \in 1 .. n
      BY <1>2, <1>7
    <2>4. FlattenSeq(tt) = FlattenSeq(ss) \o s
      BY <1>3, <1>5, <2>1, <2>2, <2>3
    <2> QED BY <1>1, <2>4, Zenon DEF Cat
  <1> QED BY <1>6, <1>7

-----------------------------------------------------------------------------
(***************************************************************************)
(* What commands are on the wire.                                          *)
(***************************************************************************)

\* A frame has as many bytes as its command takes, each at its place.
LEMMA FrameFacts ==
    ASSUME NEW c \in Commands
    PROVE  /\ Frame(c) \in Seq(Bytes) /\ Len(Frame(c)) = Size[c]
           /\ Size[c] \in Nat /\ Size[c] > 0
           /\ \A i \in 1 .. Size[c] : Frame(c)[i] = [cmd |-> c, at |-> i]
  <1>1. Size[c] \in Nat /\ Size[c] > 0
    BY ConnectionAssumption
  <1>2. Frame(c) \in [1 .. Size[c] -> Bytes]
    BY <1>1 DEF Frame, Bytes
  <1>3. Frame(c) \in Seq(Bytes) /\ Len(Frame(c)) = Size[c]
    BY <1>1, <1>2
  <1>4. \A i \in 1 .. Size[c] : Frame(c)[i] = [cmd |-> c, at |-> i]
    BY DEF Frame
  <1> QED BY <1>1, <1>3, <1>4

LEMMA FramesTyped ==
    ASSUME NEW cs \in Seq(Commands)
    PROVE  Frames(cs) \in Seq(Bytes)
  <1> DEFINE ss == [i \in DOMAIN cs |-> Frame(cs[i])]
  <1>1. \A i \in 1 .. Len(cs) : cs[i] \in Commands /\ Frame(cs[i]) \in Seq(Bytes)
    BY FrameFacts
  <1>2. ss \in Seq(Seq(Bytes))
    BY <1>1
  <1>3. FlattenSeq(ss) \in Seq(Bytes)
    BY <1>2, FlattenTyped
  <1> QED BY <1>3 DEF Frames

LEMMA FramesEmpty == Frames(<<>>) = <<>>
  <1>1. [i \in DOMAIN <<>> |-> Frame(<<>>[i])] = <<>>
    OBVIOUS
  <1>2. FlattenSeq(<<>>) = <<>>
    BY DEF FlattenSeq
  <1> QED BY <1>1, <1>2 DEF Frames

\* One command more: its bytes come after the others.
LEMMA FramesAppend ==
    ASSUME NEW cs \in Seq(Commands), NEW c \in Commands
    PROVE  Frames(Append(cs, c)) = Cat(Frames(cs), Frame(c))
  <1> DEFINE ss == [i \in DOMAIN cs |-> Frame(cs[i])]
             tt == [i \in DOMAIN Append(cs, c) |-> Frame(Append(cs, c)[i])]
  <1>1. \A i \in 1 .. Len(cs) : cs[i] \in Commands /\ Frame(cs[i]) \in Seq(Bytes)
    BY FrameFacts
  <1>2. ss \in Seq(Seq(Bytes)) /\ Frame(c) \in Seq(Bytes) /\ Len(ss) = Len(cs)
    <2>1. Frame(c) \in Seq(Bytes)
      BY FrameFacts
    <2>2. ss \in Seq(Seq(Bytes)) /\ Len(ss) = Len(cs)
      BY <1>1
    <2> QED BY <2>1, <2>2
  <1>3. tt = Append(ss, Frame(c))
    <2>1. /\ Len(Append(cs, c)) = Len(cs) + 1 /\ DOMAIN Append(cs, c) = 1 .. Len(cs) + 1
          /\ Append(cs, c)[Len(cs) + 1] = c /\ Len(cs) \in Nat
          /\ \A i \in 1 .. Len(cs) : Append(cs, c)[i] = cs[i]
      OBVIOUS
    <2>2. PICK u : u = Append(ss, Frame(c))
      OBVIOUS
    <2>3. /\ u \in Seq(Seq(Bytes)) /\ Len(u) = Len(cs) + 1
          /\ u[Len(cs) + 1] = Frame(c)
          /\ \A i \in 1 .. Len(cs) : u[i] = Frame(cs[i])
      <3>1. \A i \in 1 .. Len(cs) : ss[i] = Frame(cs[i])
        OBVIOUS
      <3> HIDE DEF ss
      <3> QED BY <1>2, <2>2, <3>1
    <2>4. \A i \in 1 .. Len(cs) + 1 : u[i] = tt[i]
      BY <2>1, <2>3
    <2>5. tt \in Seq(Seq(Bytes)) /\ Len(tt) = Len(cs) + 1
      <3>1. \A i \in 1 .. Len(cs) + 1 : tt[i] \in Seq(Bytes)
        BY <1>1, <1>2, <2>1
      <3> QED BY <2>1, <3>1
    <2>6. u = tt
      BY <2>3, <2>4, <2>5, SeqEqual
    <2> QED BY <2>2, <2>6
  <1>4. FlattenSeq(Append(ss, Frame(c))) = Cat(FlattenSeq(ss), Frame(c))
    BY <1>2, FlattenAppend
  <1> QED BY <1>3, <1>4 DEF Frames

\* Commands one after the other are on the wire one after the other.
LEMMA FramesJoin ==
    ASSUME NEW a \in Seq(Commands), NEW b \in Seq(Commands)
    PROVE  Frames(Cat(a, b)) = Cat(Frames(a), Frames(b))
  <1> DEFINE P == {n \in Nat : \A d \in Seq(Commands) :
                      Len(d) = n => Frames(Cat(a, d)) = Cat(Frames(a), Frames(d))}
  <1>1. 0 \in P
    <2> SUFFICES ASSUME NEW d \in Seq(Commands), Len(d) = 0
                 PROVE  Frames(Cat(a, d)) = Cat(Frames(a), Frames(d))
      OBVIOUS
    <2>1. d = <<>>
      OBVIOUS
    <2>2. Cat(a, d) = a
      BY <2>1, CatFacts
    <2>3. Cat(Frames(a), <<>>) = Frames(a)
      BY FramesTyped, CatFacts
    <2> QED BY <2>1, <2>2, <2>3, FramesEmpty
  <1>2. ASSUME NEW n \in Nat, n \in P PROVE n + 1 \in P
    <2> SUFFICES ASSUME NEW d \in Seq(Commands), Len(d) = n + 1
                 PROVE  Frames(Cat(a, d)) = Cat(Frames(a), Frames(d))
      BY <1>2
    <2>0. d # <<>>
      BY <1>2
    <2>1. PICK e \in Seq(Commands), c \in Commands : d = Append(e, c)
      BY <2>0, SequenceEmptyOrAppend
    <2>2. Len(e) = n
      BY <1>2, <2>1
    <2>3. Frames(Cat(a, e)) = Cat(Frames(a), Frames(e))
      BY <1>2, <2>2
    <2>4. Cat(a, d) = Append(Cat(a, e), c) /\ Cat(a, e) \in Seq(Commands)
      <3>0. e \in Seq(Commands) /\ c \in Commands
        BY <2>1
      <3>1. Cat(a, Append(e, c)) = Append(Cat(a, e), c)
        BY <3>0, CatAppend
      <3>2. Cat(a, e) \in Seq(Commands)
        BY <3>0, CatFacts
      <3> QED BY <2>1, <3>1, <3>2
    <2>5. Frames(Cat(a, d)) = Cat(Frames(Cat(a, e)), Frame(c))
      BY <2>4, FramesAppend
    <2>6. Frames(d) = Cat(Frames(e), Frame(c))
      BY <2>1, FramesAppend
    <2>7. /\ Frames(a) \in Seq(Bytes) /\ Frames(e) \in Seq(Bytes)
          /\ Frame(c) \in Seq(Bytes)
      BY FramesTyped, FrameFacts
    <2> QED BY <2>3, <2>5, <2>6, <2>7, CatFacts
  <1>3. Nat \subseteq P
    <2> HIDE DEF P
    <2> QED BY <1>1, <1>2, Induction
  <1>4. Len(b) \in Nat
    OBVIOUS
  <1> QED BY <1>3, <1>4

\* The bytes of the first command come first.
LEMMA FramesFirst ==
    ASSUME NEW cs \in Seq(Commands), cs # <<>>
    PROVE  \E c \in Commands, ds \in Seq(Commands) :
              cs = Cat(<<c>>, ds) /\ Frames(cs) = Cat(Frame(c), Frames(ds))
  <1>1. 1 \in 0 .. Len(cs) /\ cs[1] \in Commands
    OBVIOUS
  <1>2. PICK h, ds : h = SubSeq(cs, 1, 1) /\ ds = SubSeq(cs, 1 + 1, Len(cs))
    OBVIOUS
  <1>3. /\ h \in Seq(Commands) /\ Len(h) = 1 /\ ds \in Seq(Commands) /\ cs = Cat(h, ds)
        /\ h[1] = cs[1]
    BY <1>1, <1>2, CatSplit, SplitFacts
  <1>4. h = <<cs[1]>>
    BY <1>3
  <1>5. h = Append(<<>>, cs[1])
    BY <1>4
  <1>6. Frames(h) = Frame(cs[1])
    <2>1. Frames(h) = Cat(Frames(<<>>), Frame(cs[1])) /\ Frame(cs[1]) \in Seq(Bytes)
      <3>1. <<>> \in Seq(Commands)
        OBVIOUS
      <3> QED BY <1>1, <1>5, <3>1, FramesAppend, FrameFacts
    <2> QED BY <2>1, FramesEmpty, CatFacts
  <1>7. Frames(cs) = Cat(Frame(cs[1]), Frames(ds))
    BY <1>3, <1>6, FramesJoin
  <1>8. cs = Cat(<<cs[1]>>, ds)
    BY <1>3, <1>4
  <1> QED BY <1>1, <1>3, <1>7, <1>8

-----------------------------------------------------------------------------
(***************************************************************************)
(* Cutting a buffer into commands.                                         *)
(***************************************************************************)

\* No more is cut off a buffer than it holds.
LEMMA CutAtBounds ==
    ASSUME NEW buf \in Seq(Bytes)
    PROVE  CutAt(buf) \in 0 .. Len(buf)
  <1>1. CASE buf = <<>>
    BY <1>1 DEF CutAt
  <1>2. CASE buf # <<>>
    <2>1. buf[1] \in Bytes
      BY <1>2
    <2>2. buf[1].cmd \in Commands
      BY <2>1 DEF Bytes
    <2>3. CASE buf[1].cmd \in Text
      <3> DEFINE ends == {i \in DOMAIN buf : IsNewline(buf[i])}
      <3>1. CutAt(buf) = IF ends = {} THEN 0
                         ELSE CHOOSE i \in ends : \A j \in ends : i <= j
        BY <1>2, <2>3 DEF CutAt
      <3>2. ends \subseteq 1 .. Len(buf) /\ ends \in SUBSET Nat
        OBVIOUS
      <3> HIDE DEF ends
      <3>3. CASE ends = {}
        BY <3>1, <3>3
      <3>4. CASE ends # {}
        <4>1. \E i \in ends : \A j \in ends : i <= j
          BY <3>2, <3>4, Smallest
        <4>2. CutAt(buf) \in ends
          BY <3>1, <3>4, <4>1
        <4>3. CutAt(buf) \in 1 .. Len(buf)
          BY <3>2, <4>2, Zenon
        <4>4. Len(buf) \in Nat
          OBVIOUS
        <4> QED BY <4>3, <4>4
      <3> QED BY <3>3, <3>4
    <2>4. CASE buf[1].cmd \notin Text
      <3>1. CutAt(buf) = IF Len(buf) >= HeaderSize /\ Len(buf) >= Size[buf[1].cmd]
                         THEN Size[buf[1].cmd] ELSE 0
        BY <1>2, <2>4 DEF CutAt
      <3>2. Size[buf[1].cmd] \in Nat
        BY <2>2, ConnectionAssumption
      <3> QED BY <3>1, <3>2
    <2> QED BY <2>3, <2>4
  <1> QED BY <1>1, <1>2

\* Both framings find the end of the command whose bytes come first, if it is there.
LEMMA CutAtFrame ==
    ASSUME NEW c \in Commands, NEW buf \in Seq(Bytes), NEW rest \in Seq(Bytes),
           NEW more \in Seq(Bytes), Cat(buf, rest) = Cat(Frame(c), more)
    PROVE  CutAt(buf) = IF Len(buf) >= Size[c] THEN Size[c] ELSE 0
  <1>1. PICK f, u : f = Frame(c) /\ u = Cat(buf, rest)
    OBVIOUS
  <1>2. PICK n \in Nat : n = Size[c]
    BY FrameFacts
  <1>3. /\ f \in Seq(Bytes) /\ Len(f) = n /\ n > 0
        /\ \A i \in 1 .. n : f[i] = [cmd |-> c, at |-> i]
    BY <1>1, <1>2, FrameFacts
  <1>4. Joined(u, buf, rest) /\ Joined(u, f, more)
    BY <1>1, <1>3, CatPlaces
  <1>5. \A i \in 1 .. n : i \in 1 .. Len(buf) => buf[i] = [cmd |-> c, at |-> i]
    BY <1>3, <1>4 DEF Joined
  <1>6. Len(buf) \in Nat
    OBVIOUS
  <1>7. CASE buf = <<>>
    <2>1. Len(buf) = 0
      BY <1>7
    <2> QED BY <1>2, <1>3, <1>7, <2>1 DEF CutAt
  <1>8. CASE buf # <<>>
    <2>1. 1 \in 1 .. Len(buf) /\ 1 \in 1 .. n
      BY <1>3, <1>8
    <2>2. buf[1].cmd = c
      <3>1. buf[1] = [cmd |-> c, at |-> 1]
        BY <1>5, <2>1
      <3> QED BY <3>1
    <2>3. CASE c \in Text
      <3> DEFINE ends == {i \in DOMAIN buf : IsNewline(buf[i])}
      <3>1. CutAt(buf) = IF ends = {} THEN 0
                         ELSE CHOOSE i \in ends : \A j \in ends : i <= j
        BY <1>8, <2>2, <2>3 DEF CutAt
      <3>2. ends \subseteq 1 .. Len(buf)
        OBVIOUS
      <3>3. \A i \in 1 .. n : i \in ends <=> i = n /\ i \in 1 .. Len(buf)
        <4> SUFFICES ASSUME NEW i \in 1 .. n, i \in 1 .. Len(buf)
                     PROVE  i \in ends <=> i = n
          BY <3>2
        <4>0. buf[i] = [cmd |-> c, at |-> i]
          BY <1>5
        <4>1. buf[i].cmd = c /\ buf[i].at = i
          BY <4>0
        <4>2. IsNewline(buf[i]) <=> i = n
          BY <1>2, <2>3, <4>1 DEF IsNewline
        <4> QED BY <4>2
      <3>4. CASE Len(buf) >= n
        <4>1. n \in ends /\ n \in 1 .. n
          BY <1>3, <1>6, <3>3, <3>4
        <4>2. \A j \in ends : n <= j
          BY <3>2, <3>3
        <4>3. \A i \in ends : (\A j \in ends : i <= j) => i = n
          BY <3>2, <4>1, <4>2
        <4> HIDE DEF ends
        <4>4. (CHOOSE i \in ends : \A j \in ends : i <= j) = n
          BY <4>1, <4>2, <4>3
        <4> QED BY <1>2, <3>1, <3>4, <4>1, <4>4
      <3>5. CASE ~(Len(buf) >= n)
        <4>1. ends = {}
          BY <1>6, <3>2, <3>3, <3>5
        <4> QED BY <1>2, <3>1, <3>5, <4>1
      <3> QED BY <3>4, <3>5
    <2>4. CASE c \notin Text
      <3>1. CutAt(buf) = IF Len(buf) >= HeaderSize /\ Len(buf) >= n THEN n ELSE 0
        BY <1>2, <1>8, <2>2, <2>4 DEF CutAt
      <3>2. HeaderSize \in Nat /\ n >= HeaderSize
        BY <1>2, <2>4, ConnectionAssumption
      <3> QED BY <1>2, <1>6, <3>1, <3>2
    <2> QED BY <2>3, <2>4
  <1> QED BY <1>7, <1>8

\* A frame that is cut out is its command.
LEMMA MeantFrame ==
    ASSUME NEW c \in Commands
    PROVE  Meant(Frame(c)) = c
  <1>1. Frame(c)[1] = [cmd |-> c, at |-> 1]
    BY FrameFacts
  <1>2. Frame(c)[1].cmd = c
    BY <1>1
  <1> QED BY <1>2, Zenon DEF Meant

\* What Cut's recursive function g has at i: the commands in the buffer from there.
CutStep(g, buf, i) ==
    LET rest == SubSeq(buf, i + 1, Len(buf))
        n    == CutAt(rest)
    IN IF n = 0 THEN [cmds |-> <<>>, rest |-> rest]
       ELSE [g[i + n] EXCEPT !.cmds = <<Meant(SubSeq(rest, 1, n))>> \o @]

\* The end of a buffer is a buffer, and what is cut off it is within the buffer.
LEMMA CutStepBounds ==
    ASSUME NEW buf \in Seq(Bytes), NEW i \in 0 .. Len(buf)
    PROVE  CutAt(SubSeq(buf, i + 1, Len(buf))) \in 0 .. Len(buf) - i
  <1>1. PICK h, t : h = SubSeq(buf, 1, i) /\ t = SubSeq(buf, i + 1, Len(buf))
    OBVIOUS
  <1>2. h \in Seq(Bytes) /\ Len(h) = i /\ t \in Seq(Bytes) /\ buf = Cat(h, t)
    BY <1>1, CatSplit
  <1>3. Len(buf) = Len(h) + Len(t) /\ Len(h) \in Nat /\ Len(t) \in Nat
    <2>1. Joined(buf, h, t)
      BY <1>2, CatPlaces
    <2> QED BY <2>1 DEF Joined
  <1>4. CutAt(t) \in 0 .. Len(t)
    BY <1>2, CutAtBounds
  <1>5. Len(t) = Len(buf) - i
    BY <1>2, <1>3
  <1> QED BY <1>1, <1>4, <1>5

\* The recursive function exists: it is made from the end of the buffer backwards.
LEMMA CutExists ==
    ASSUME NEW buf \in Seq(Bytes)
    PROVE  \E g : g = [i \in 0 .. Len(buf) |-> CutStep(g, buf, i)]
  <1> DEFINE L == Len(buf)
             Solves(g, k) == /\ g = [i \in 0 .. L |-> g[i]]
                             /\ \A i \in 0 .. L : i >= k => g[i] = CutStep(g, buf, i)
             P == {k \in Nat : k <= L + 1 => \E g : Solves(g, (L + 1) - k)}
  <1>0. L \in Nat
    OBVIOUS
  <1> HIDE DEF L
  <1>1. 0 \in P
    <2> DEFINE g == [i \in 0 .. L |-> 0]
    <2>1. g = [i \in 0 .. L |-> g[i]]
      OBVIOUS
    <2>2. \A i \in 0 .. L : ~(i >= (L + 1) - 0)
      BY <1>0
    <2>3. Solves(g, (L + 1) - 0)
      BY <2>1, <2>2
    <2> QED BY <2>3
  <1>2. ASSUME NEW k \in Nat, k \in P PROVE k + 1 \in P
    <2> SUFFICES ASSUME k + 1 <= L + 1 PROVE \E f : Solves(f, (L + 1) - (k + 1))
      BY <1>2
    <2>1. k <= L + 1
      BY <1>0, <1>2
    <2>2. PICK g : Solves(g, (L + 1) - k)
      BY <1>2, <2>1
    <2>3. PICK j \in 0 .. L : j = (L + 1) - (k + 1) /\ (L + 1) - k = j + 1
      BY <1>0, <1>2
    <2> DEFINE f == [i \in 0 .. L |-> IF i = j THEN CutStep(g, buf, j) ELSE g[i]]
    <2>4. f = [i \in 0 .. L |-> f[i]]
      OBVIOUS
    <2>5. ASSUME NEW i \in 0 .. L, i >= j PROVE f[i] = CutStep(f, buf, i)
      <3>0. PICK rest : rest = SubSeq(buf, i + 1, Len(buf))
        OBVIOUS
      <3>1. PICK n : n = CutAt(rest)
        OBVIOUS
      <3>2. n \in 0 .. L - i
        BY <3>0, <3>1, <2>5, CutStepBounds DEF L
      <3>3. n # 0 => f[i + n] = g[i + n]
        BY <1>0, <2>3, <2>5, <3>2
      <3>4. CutStep(f, buf, i) = CutStep(g, buf, i)
        <4> DEFINE Value(x) == IF n = 0 THEN [cmds |-> <<>>, rest |-> rest]
                    ELSE [x EXCEPT !.cmds = <<Meant(SubSeq(rest, 1, n))>> \o @]
        <4>1. \A x : CutStep(x, buf, i) = Value(x[i + n])
          BY <3>0, <3>1, Zenon DEF CutStep
        <4>2. n = 0 => \A x, y : Value(x) = Value(y)
          OBVIOUS
        <4> HIDE DEF Value
        <4> QED BY <3>3, <4>1, <4>2
      <3>5. CASE i = j
        BY <3>4, <3>5
      <3>6. CASE i # j
        <4>1. i >= (L + 1) - k
          BY <2>3, <2>5, <3>6
        <4>2. g[i] = CutStep(g, buf, i)
          BY <2>2, <4>1
        <4> QED BY <3>4, <3>6, <4>2
      <3> QED BY <3>5, <3>6
    <2>6. Solves(f, j)
      <3> HIDE DEF f
      <3> QED BY <2>4, <2>5
    <2>7. \E h : Solves(h, j)
      BY <2>6
    <2> QED BY <2>3, <2>7
  <1>3. Nat \subseteq P
    <2> HIDE DEF P
    <2> QED BY <1>1, <1>2, Induction
  <1>4. PICK g : Solves(g, (L + 1) - (L + 1))
    <2>1. L + 1 \in P
      BY <1>0, <1>3
    <2> QED BY <1>0, <2>1
  <1>5. \A i \in 0 .. L : g[i] = CutStep(g, buf, i)
    BY <1>0, <1>4
  <1>6. g = [i \in 0 .. L |-> g[i]]
    BY <1>4
  <1>7. [i \in 0 .. L |-> g[i]] = [i \in 0 .. L |-> CutStep(g, buf, i)]
    BY <1>5
  <1> QED BY <1>6, <1>7 DEF L

\* Cut is the value of that function at the start of the buffer.
LEMMA CutValue ==
    ASSUME NEW buf \in Seq(Bytes)
    PROVE  \E g : /\ \A i \in 0 .. Len(buf) : g[i] = CutStep(g, buf, i)
                 /\ Cut(buf) = g[0]
  <1> DEFINE step(f) == [i \in 0 .. Len(buf) |-> CutStep(f, buf, i)]
             cut == CHOOSE f : f = step(f)
  <1>1. \E f : f = step(f)
    BY CutExists
  <1>2. cut = step(cut)
    <2> HIDE DEF step
    <2> QED BY <1>1
  <1>3. Cut(buf) = cut[0]
    BY Zenon DEF Cut, CutStep
  <1>4. \A f : \A i \in 0 .. Len(buf) : step(f)[i] = CutStep(f, buf, i)
    OBVIOUS
  <1>5. \A i \in 0 .. Len(buf) : cut[i] = CutStep(cut, buf, i)
    <2> HIDE DEF step
    <2>1. \A i \in 0 .. Len(buf) : step(cut)[i] = CutStep(cut, buf, i)
      BY <1>4
    <2> QED BY <1>2, <2>1
  <1> QED BY <1>3, <1>5

\* x is the right result of cutting a buffer, when cs is what the buffer and the bytes
\* after it are: the first commands of cs, and the bytes of the others that are there.
RightCut(x, after, cs) ==
    \E a, b \in Seq(Commands), rest \in Seq(Bytes) :
        /\ x = [cmds |-> a, rest |-> rest]
        /\ cs = Cat(a, b)
        /\ Cat(rest, after) = Frames(b)

\* After n of the places behind the first i there are m left.
LEMMA PlaceInside ==
    ASSUME NEW i \in Nat, NEW n \in Nat, NEW m \in Nat, n > 0,
           NEW k, k = i + n, NEW l, l = k + m
    PROVE  k \in 0 .. l /\ n \in 1 .. l - i
  OBVIOUS

\* One step of the cutting: nothing is whole yet, or the first command is.
LEMMA CutStepRight ==
    ASSUME NEW g, NEW buf \in Seq(Bytes), NEW i \in 0 .. Len(buf),
           NEW after \in Seq(Bytes), NEW cs \in Seq(Commands),
           Cat(Drop(buf, i), after) = Frames(cs),
           \A n \in 1 .. Len(buf) - i : \A ds \in Seq(Commands) :
               Cat(Drop(buf, i + n), after) = Frames(ds) => RightCut(g[i + n], after, ds)
    PROVE  RightCut(CutStep(g, buf, i), after, cs)
  <1>0. PICK here : here = Drop(buf, i)
    OBVIOUS
  <1>4. here \in Seq(Bytes) /\ Cat(here, after) = Frames(cs)
    BY <1>0, CatSplit DEF Drop
  <1> DEFINE Value(n) == IF n = 0 THEN [cmds |-> <<>>, rest |-> here]
                 ELSE [g[i + n] EXCEPT !.cmds = <<Meant(SubSeq(here, 1, n))>> \o @]
  <1>1. CutStep(g, buf, i) = Value(CutAt(here))
    BY <1>0, Zenon DEF CutStep, Drop
  <1>2. CASE CutAt(here) = 0
    <2>1. CutStep(g, buf, i) = [cmds |-> <<>>, rest |-> here]
      BY <1>1, <1>2
    <2>2. <<>> \in Seq(Commands) /\ cs = Cat(<<>>, cs)
      BY CatFacts
    <2> QED BY <1>4, <2>1, <2>2 DEF RightCut
  <1>3. CASE CutAt(here) # 0
    <2>1. cs # <<>>
      <3> SUFFICES ASSUME cs = <<>> PROVE FALSE
        OBVIOUS
      <3>1. Cat(here, after) = <<>>
        BY <1>4, FramesEmpty
      <3>2. PICK u : u = Cat(here, after)
        OBVIOUS
      <3>3. Joined(u, here, after) /\ u = <<>> /\ Len(u) = 0
        BY <1>4, <3>1, <3>2, CatPlaces
      <3>4. Len(here) = 0
        BY <3>3 DEF Joined
      <3>5. here = <<>>
        BY <1>4, <3>4
      <3> QED BY <1>3, <3>5 DEF CutAt
    <2>2. PICK c \in Commands, ds \in Seq(Commands) :
             cs = Cat(<<c>>, ds) /\ Frames(cs) = Cat(Frame(c), Frames(ds))
      BY <2>1, FramesFirst
    <2>3. PICK f, more : f = Frame(c) /\ more = Frames(ds)
      OBVIOUS
    <2>4. /\ f \in Seq(Bytes) /\ more \in Seq(Bytes) /\ Len(f) = Size[c]
          /\ Size[c] \in Nat /\ Size[c] > 0
      BY <2>3, FrameFacts, FramesTyped
    <2>5. Cat(here, after) = Cat(f, more)
      BY <1>4, <2>2, <2>3
    <2>6. CutAt(here) = IF Len(here) >= Size[c] THEN Size[c] ELSE 0
      BY <1>4, <2>3, <2>4, <2>5, CutAtFrame
    <2>7. PICK n \in Nat : n = Size[c] /\ n = CutAt(here) /\ n > 0 /\ Len(here) >= n
      BY <1>3, <2>4, <2>6
    <2>8. Len(f) <= Len(here)
      BY <2>4, <2>7
    <2>9. PICK r \in Seq(Bytes) : here = Cat(f, r) /\ more = Cat(r, after)
      BY <1>4, <2>4, <2>5, <2>8, CatOverlap
    <2>10. SubSeq(here, 1, n) = f
      <3>1. SubSeq(here, 1, Len(f)) = f
        BY <2>4, <2>9, CatFirst
      <3> QED BY <2>4, <2>7, <3>1
    <2>11. /\ i + n \in 0 .. Len(buf) /\ n \in 1 .. Len(buf) - i
           /\ Drop(buf, i + n) = r
      <3>1. PICK h : h = SubSeq(buf, 1, i)
        OBVIOUS
      <3>2. h \in Seq(Bytes) /\ Len(h) = i /\ buf = Cat(h, here)
        BY <1>0, <3>1, CatSplit DEF Drop
      <3>3. PICK k : k = Cat(h, f)
        OBVIOUS
      <3>4. k \in Seq(Bytes) /\ buf = Cat(k, r)
        BY <1>4, <2>4, <2>9, <3>2, <3>3, CatFacts
      <3>5. Joined(k, h, f) /\ Joined(buf, k, r)
        BY <2>4, <3>2, <3>3, <3>4, CatPlaces
      <3>6. Len(k) = i + n /\ Len(buf) = Len(k) + Len(r) /\ Len(r) \in Nat
        BY <2>4, <2>7, <3>2, <3>5 DEF Joined
      <3>61. i \in Nat
        OBVIOUS
      <3>7. SubSeq(buf, Len(k) + 1, Len(buf)) = r
        BY <2>9, <3>4, CatSecond
      <3>8. Len(k) \in 0 .. Len(buf) /\ n \in 1 .. Len(buf) - i
        BY <2>7, <3>6, <3>61, PlaceInside, Zenon
      <3>9. Drop(buf, Len(k)) = r
        BY <3>7 DEF Drop
      <3> QED BY <3>6, <3>8, <3>9
    <2>12. RightCut(g[i + n], after, ds)
      BY <2>3, <2>9, <2>11
    <2>13. PICK a, b \in Seq(Commands), rest \in Seq(Bytes) :
              /\ g[i + n] = [cmds |-> a, rest |-> rest]
              /\ ds = Cat(a, b)
              /\ Cat(rest, after) = Frames(b)
      BY <2>12 DEF RightCut
    <2>14. CutStep(g, buf, i) = [cmds |-> Cat(<<c>>, a), rest |-> rest]
      <3>1. CutStep(g, buf, i) = [g[i + n] EXCEPT !.cmds = <<Meant(f)>> \o @]
        BY <1>1, <1>3, <2>7, <2>10
      <3>2. Meant(f) = c
        BY <2>3, MeantFrame
      <3>3. CutStep(g, buf, i) = [[cmds |-> a, rest |-> rest] EXCEPT !.cmds = <<c>> \o @]
        BY <2>13, <3>1, <3>2, Zenon
      <3>4. PICK w : w = Cat(<<c>>, a)
        OBVIOUS
      <3>5. CutStep(g, buf, i) = [cmds |-> w, rest |-> rest]
        <4>1. w = <<c>> \o a
          BY <3>4 DEF Cat
        <4> QED BY <3>3, <4>1
      <3> QED BY <3>4, <3>5
    <2>15. /\ Cat(<<c>>, a) \in Seq(Commands) /\ cs = Cat(Cat(<<c>>, a), b)
      <3>1. PICK one : one = <<c>>
        OBVIOUS
      <3>2. one \in Seq(Commands)
        BY <2>2, <3>1
      <3>3. cs = Cat(one, ds)
        BY <2>2, <3>1
      <3>4. Cat(one, a) \in Seq(Commands) /\ cs = Cat(Cat(one, a), b)
        BY <2>13, <3>2, <3>3, CatFacts
      <3> QED BY <3>1, <3>4
    <2> QED BY <2>13, <2>14, <2>15 DEF RightCut
  <1> QED BY <1>2, <1>3

\* Cutting a buffer that holds the first bytes of commands gives the first of them,
\* and keeps the bytes of the others.
LEMMA CutIsRight ==
    ASSUME NEW buf \in Seq(Bytes), NEW after \in Seq(Bytes), NEW cs \in Seq(Commands),
           Cat(buf, after) = Frames(cs)
    PROVE  RightCut(Cut(buf), after, cs)
  <1> DEFINE L == Len(buf)
             Tl(i) == Drop(buf, i)
             Right(x, i) == \A ds \in Seq(Commands) :
                        Cat(Tl(i), after) = Frames(ds) => RightCut(x, after, ds)
  <1>0. L \in Nat
    OBVIOUS
  <1>1. PICK g : (\A i \in 0 .. L : g[i] = CutStep(g, buf, i)) /\ Cut(buf) = g[0]
    BY CutValue
  <1>2. ASSUME NEW i \in 0 .. L, \A n \in 1 .. L - i : Right(g[i + n], i + n)
        PROVE  Right(g[i], i)
    <2> SUFFICES ASSUME NEW ds \in Seq(Commands), Cat(Tl(i), after) = Frames(ds)
                 PROVE  RightCut(g[i], after, ds)
      OBVIOUS
    <2>1. RightCut(CutStep(g, buf, i), after, ds)
      BY <1>2, CutStepRight
    <2> QED BY <1>1, <1>2, <2>1
  <1>3. \A i \in 0 .. L : Right(g[i], i)
    <2> SUFFICES ASSUME ~(\A i \in 0 .. L : Right(g[i], i)) PROVE FALSE
      OBVIOUS
    <2> DEFINE T == {k \in 0 .. L : ~Right(g[L - k], L - k)}
    <2>1. PICK j \in 0 .. L : ~Right(g[j], j)
      OBVIOUS
    <2>2. L - j \in T
      <3>1. L - j \in 0 .. L /\ L - (L - j) = j
        BY <1>0
      <3> HIDE DEF Right, L
      <3> QED BY <2>1, <3>1
    <2>3. T \in SUBSET Nat /\ T # {}
      <3>1. T \in SUBSET Nat
        OBVIOUS
      <3> HIDE DEF T
      <3> QED BY <2>2, <3>1
    <2>4. PICK k \in T : \A y \in T : k <= y
      <3> HIDE DEF T
      <3> QED BY <2>3, Smallest
    <2>5. PICK i \in 0 .. L : i = L - k /\ ~Right(g[i], i)
      <3> HIDE DEF Right, L
      <3> QED BY <1>0, <2>4
    <2>6. ASSUME NEW n \in 1 .. L - i PROVE Right(g[i + n], i + n)
      <3> HIDE DEF Right, L
      <3>1. k - n \in 0 .. L /\ ~(k <= k - n) /\ L - (k - n) = i + n
        BY <1>0, <2>4, <2>5, <2>6
      <3>2. k - n \notin T
        BY <2>4, <3>1
      <3> QED BY <3>1, <3>2
    <2> HIDE DEF Right
    <2> QED BY <1>2, <2>5, <2>6
  <1>4. Tl(0) = buf
    BY SubSeqFull DEF Drop
  <1>5. 0 \in 0 .. L
    BY <1>0
  <1>6. Right(g[0], 0)
    <2> HIDE DEF Right
    <2> QED BY <1>3, <1>5
  <1> QED BY <1>1, <1>4, <1>6

-----------------------------------------------------------------------------
(***************************************************************************)
(* The inductive invariant.                                                *)
(***************************************************************************)

\* What either side has read off its buffer is what commands it was sent.
Understood == {heard, got, incomingCommands} \subseteq Seq(Commands)

\* What was sent is what the server has heard, the commands under way, and those still
\* queued.  The bytes under way are those of the commands under way; once the
\* connection is down some of them, left, are gone.
Outbound ==
    \E flying, queued \in Seq(Commands), left \in Seq(Bytes) :
        /\ sent = Cat(heard, Cat(flying, queued))
        /\ Cat(Cat(serverBuffer, up), left) = Frames(flying)
        /\ connected => queued = outgoingCommands /\ left = outgoingBuffer

\* The same of what the server said, while the connection is up.
Inbound ==
    connected =>
        \E flying \in Seq(Commands) :
            /\ said = Cat(Cat(got, incomingCommands), flying)
            /\ Cat(incomingBuffer, down) = Frames(flying)

Invariant == ConnTypeOK /\ Understood /\ Outbound /\ Inbound

\* Nothing about what is sent changes, but that the connection may go down.
LEMMA OutboundKept ==
    ASSUME Outbound, UNCHANGED <<sent, heard, serverBuffer, up>>,
           connected' => connected /\ UNCHANGED <<outgoingCommands, outgoingBuffer>>
    PROVE  Outbound'
  BY DEF Outbound

\* Nothing about what is said changes, but that the connection may go down.
LEMMA InboundKept ==
    ASSUME Inbound,
           connected' => /\ connected
                         /\ UNCHANGED <<said, got, incomingCommands, incomingBuffer, down>>
    PROVE  Inbound'
  BY DEF Inbound

\* A sequence is what is taken off it and what is left.
LEMMA DropFacts ==
    ASSUME NEW S, NEW s \in Seq(S), NEW k \in 0 .. Len(s)
    PROVE  /\ SubSeq(s, 1, k) \in Seq(S) /\ Drop(s, k) \in Seq(S)
           /\ s = Cat(SubSeq(s, 1, k), Drop(s, k))
  BY CatSplit DEF Drop

LEMMA InitInvariant == Init => Invariant
  <1> SUFFICES ASSUME Init PROVE Invariant
    OBVIOUS
  <1>1. ConnTypeOK /\ Understood /\ Inbound
    <2>1. \A S : <<>> \in Seq(S)
      OBVIOUS
    <2> QED BY <2>1 DEF Init, ConnTypeOK, Understood, Inbound
  <1>2. <<>> \in Seq(Commands) /\ <<>> \in Seq(Bytes)
    OBVIOUS
  <1>3. <<>> = Cat(<<>>, Cat(<<>>, <<>>)) /\ Cat(Cat(<<>>, <<>>), <<>>) = Frames(<<>>)
    BY <1>2, CatFacts, FramesEmpty
  <1>4. sent = <<>> /\ heard = <<>> /\ serverBuffer = <<>> /\ up = <<>> /\ ~connected
    BY DEF Init
  <1>5. Outbound
    BY <1>2, <1>3, <1>4, Zenon DEF Outbound
  <1> QED BY <1>1, <1>5 DEF Invariant

-----------------------------------------------------------------------------
(***************************************************************************)
(* One lemma for each action.                                              *)
(***************************************************************************)

LEMMA ConnectInvariant == Invariant /\ Connect => Invariant'
  <1> SUFFICES ASSUME Invariant, Connect PROVE Invariant'
    OBVIOUS
  <1>1. \A S : <<>> \in Seq(S)
    OBVIOUS
  <1>2. ConnTypeOK' /\ Understood'
    BY <1>1 DEF Invariant, ConnTypeOK, Understood, Connect, Reset
  <1>3. <<>> = Cat(<<>>, Cat(<<>>, <<>>)) /\ Cat(Cat(<<>>, <<>>), <<>>) = Frames(<<>>)
        /\ <<>> = Cat(Cat(<<>>, <<>>), <<>>) /\ Cat(<<>>, <<>>) = Frames(<<>>)
    BY <1>1, CatFacts, FramesEmpty
  <1>4. Outbound'
    <2>1. /\ sent' = <<>> /\ heard' = <<>> /\ serverBuffer' = <<>> /\ up' = <<>>
          /\ outgoingCommands' = <<>> /\ outgoingBuffer' = <<>>
      BY DEF Connect, Reset
    <2> QED BY <1>1, <1>3, <2>1, Zenon DEF Outbound
  <1>5. Inbound'
    <2>1. /\ said' = <<>> /\ got' = <<>> /\ incomingBuffer' = <<>> /\ down' = <<>>
          /\ incomingCommands' = <<>>
      BY DEF Connect, Reset
    <2> QED BY <1>1, <1>3, <2>1, Zenon DEF Inbound
  <1> QED BY <1>2, <1>4, <1>5 DEF Invariant

\* The connection goes down, or stays down.
LEMMA DownInvariant ==
    Invariant /\ (ConnectFails \/ Throw \/ HandleError \/ Shutdown) => Invariant'
  <1> SUFFICES ASSUME Invariant, ConnectFails \/ Throw \/ HandleError \/ Shutdown
               PROVE  Invariant'
    OBVIOUS
  <1> USE DEF bufferVars, networkVars, channelVars, clockVars
  <1>1. \A S : <<>> \in Seq(S)
    OBVIOUS
  <1>2. ConnTypeOK' /\ Understood'
    <2>1. CASE ConnectFails
      BY <1>1, <2>1 DEF Invariant, ConnTypeOK, Understood, ConnectFails, Reset
    <2>2. CASE Throw
      BY <2>2 DEF Invariant, ConnTypeOK, Understood, Throw
    <2>3. CASE HandleError
      BY <1>1, <2>3 DEF Invariant, ConnTypeOK, Understood, HandleError, Reset
    <2>4. CASE Shutdown
      BY <1>1, <2>4 DEF Invariant, ConnTypeOK, Understood, Shutdown, Reset
    <2> QED BY <2>1, <2>2, <2>3, <2>4
  <1>3. ~connected' /\ UNCHANGED <<sent, heard, serverBuffer, up>>
    BY DEF ConnectFails, Throw, HandleError, Shutdown
  <1>4. Outbound' /\ Inbound'
    BY <1>3, OutboundKept, InboundKept DEF Invariant
  <1> QED BY <1>2, <1>4 DEF Invariant

LEMMA TickInvariant == Invariant /\ (Tick \/ UNCHANGED vars) => Invariant'
  <1> SUFFICES ASSUME Invariant, Tick \/ UNCHANGED vars PROVE Invariant'
    OBVIOUS
  <1>1. UNCHANGED <<bufferVars, stateVars, networkVars, channelVars>>
    BY DEF Tick, vars
  <1>2. now' \in Nat /\ UNCHANGED <<sessions, sends, lastConnect>>
    BY DEF Tick, vars, clockVars, Invariant, ConnTypeOK
  <1>3. ConnTypeOK' /\ Understood'
    BY <1>1, <1>2
       DEF Invariant, ConnTypeOK, Understood, bufferVars, stateVars, networkVars, channelVars
  <1>4. Outbound' /\ Inbound'
    BY <1>1, OutboundKept, InboundKept
       DEF Invariant, bufferVars, stateVars, networkVars, channelVars
  <1> QED BY <1>3, <1>4 DEF Invariant

\* A command is queued: it is behind all others.
LEMMA SendCommandInvariant ==
    ASSUME NEW c \in Commands, Invariant, SendCommand(c)
    PROVE  Invariant'
  <1> USE DEF bufferVars, stateVars, networkVars
  <1>1. ConnTypeOK' /\ Understood'
    BY DEF Invariant, ConnTypeOK, Understood, SendCommand
  <1>2. Inbound'
    BY InboundKept DEF Invariant, SendCommand
  <1>3. Outbound'
    <2>1. PICK flying \in Seq(Commands), queued \in Seq(Commands), left \in Seq(Bytes) :
             /\ sent = Cat(heard, Cat(flying, queued))
             /\ Cat(Cat(serverBuffer, up), left) = Frames(flying)
             /\ connected => queued = outgoingCommands /\ left = outgoingBuffer
      BY DEF Invariant, Outbound
    <2>2. heard \in Seq(Commands) /\ Cat(flying, queued) \in Seq(Commands)
      BY <2>1, CatFacts DEF Invariant, Understood
    <2>3. PICK q : q = Append(queued, c)
      OBVIOUS
    <2>4. q \in Seq(Commands)
      BY <2>1, <2>3
    <2>5. Cat(flying, q) = Append(Cat(flying, queued), c)
      BY <2>1, <2>3, CatAppend
    <2>6. Cat(heard, Cat(flying, q)) = Append(sent, c)
      <3>1. PICK x \in Seq(Commands) : x = Cat(flying, queued)
        BY <2>2
      <3>2. Cat(heard, Append(x, c)) = Append(Cat(heard, x), c)
        BY <2>2, CatAppend
      <3> QED BY <2>1, <2>5, <3>1, <3>2
    <2>7. /\ sent' = Append(sent, c) /\ outgoingCommands' = Append(outgoingCommands, c)
          /\ UNCHANGED <<connected, heard, serverBuffer, up, outgoingBuffer>>
      BY DEF SendCommand
    <2>8. connected' => q = outgoingCommands' /\ left = outgoingBuffer'
      BY <2>1, <2>3, <2>7
    <2>9. sent' = Cat(heard', Cat(flying, q))
          /\ Cat(Cat(serverBuffer', up'), left) = Frames(flying)
      BY <2>1, <2>6, <2>7
    <2> QED BY <2>1, <2>4, <2>8, <2>9 DEF Outbound
  <1> QED BY <1>1, <1>2, <1>3 DEF Invariant

\* All that is queued is put on its way, and some bytes leave.
LEMMA HandleWriteInvariant == Invariant /\ HandleWrite => Invariant'
  <1> SUFFICES ASSUME Invariant, HandleWrite PROVE Invariant'
    OBVIOUS
  <1> USE DEF stateVars, channelVars, clockVars
  <1>1. /\ heard \in Seq(Commands) /\ outgoingCommands \in Seq(Commands)
        /\ serverBuffer \in Seq(Bytes) /\ up \in Seq(Bytes)
        /\ outgoingBuffer \in Seq(Bytes) /\ connected
    BY DEF Invariant, ConnTypeOK, Understood, HandleWrite, Writable
  <1>2. PICK new : new = Frames(outgoingCommands)
    OBVIOUS
  <1>3. new \in Seq(Bytes)
    BY <1>1, <1>2, FramesTyped
  <1>4. PICK packed : packed = Cat(outgoingBuffer, new)
    OBVIOUS
  <1>5. packed \in Seq(Bytes)
    BY <1>1, <1>3, <1>4, CatFacts
  <1>6. PICK n \in 1 .. Len(packed) :
           up' = up \o SubSeq(packed, 1, n) /\ outgoingBuffer' = Drop(packed, n)
    BY <1>2, <1>4 DEF HandleWrite, Cat
  <1>7. PICK a, b : a = SubSeq(packed, 1, n) /\ b = Drop(packed, n)
    OBVIOUS
  <1>8. n \in 0 .. Len(packed)
    BY <1>6
  <1>9. a \in Seq(Bytes) /\ b \in Seq(Bytes) /\ packed = Cat(a, b)
    BY <1>5, <1>7, <1>8, DropFacts
  <1>10. up' = Cat(up, a) /\ outgoingBuffer' = b
    BY <1>6, <1>7 DEF Cat
  <1>11. up' \in Seq(Bytes) /\ outgoingBuffer' \in Seq(Bytes)
    BY <1>1, <1>9, <1>10, CatFacts
  <1>12. /\ outgoingCommands' = <<>>
         /\ UNCHANGED <<incomingBuffer, incomingCommands, stateVars, down, serverBuffer,
                        channelVars, clockVars>>
    BY DEF HandleWrite
  <1>13. ConnTypeOK' /\ Understood'
    <2>1. <<>> \in Seq(Commands)
      OBVIOUS
    <2> QED BY <1>11, <1>12, <2>1 DEF Invariant, ConnTypeOK, Understood
  <1>14. Inbound'
    BY <1>12, InboundKept DEF Invariant
  <1>15. Outbound'
    <2>1. PICK flying \in Seq(Commands), queued \in Seq(Commands), left \in Seq(Bytes) :
             /\ sent = Cat(heard, Cat(flying, queued))
             /\ Cat(Cat(serverBuffer, up), left) = Frames(flying)
             /\ connected => queued = outgoingCommands /\ left = outgoingBuffer
      BY DEF Invariant, Outbound
    <2>2. queued = outgoingCommands /\ left = outgoingBuffer
      BY <1>1, <2>1
    <2>3. Cat(flying, queued) \in Seq(Commands) /\ <<>> \in Seq(Commands)
      BY <2>1, CatFacts
    <2>4. sent' = Cat(heard', Cat(Cat(flying, queued), <<>>))
      BY <1>12, <2>1, <2>3, CatFacts
    <2>5. Frames(Cat(flying, queued)) = Cat(Frames(flying), new)
      BY <1>2, <2>1, <2>2, FramesJoin
    <2>6. Cat(Cat(serverBuffer, Cat(up, a)), b) = Cat(Cat(serverBuffer, up), packed)
      BY <1>1, <1>9, CatFacts
    <2>7. Cat(Cat(serverBuffer, up), packed) = Cat(Cat(Cat(serverBuffer, up), left), new)
      BY <1>1, <1>3, <1>4, <2>2, CatFacts
    <2>8. Cat(Cat(serverBuffer', up'), b) = Frames(Cat(flying, queued))
      BY <1>10, <1>12, <2>1, <2>5, <2>6, <2>7
    <2> QED BY <1>9, <1>10, <1>12, <2>3, <2>4, <2>8 DEF Outbound
  <1> QED BY <1>13, <1>14, <1>15 DEF Invariant

\* Where the first command that cannot be packed is.
LEMMA FirstUnpackableBounds ==
    ASSUME outgoingCommands \in Seq(Commands),
           \E i \in DOMAIN outgoingCommands : outgoingCommands[i] \in Unpackable
    PROVE  FirstUnpackable \in 1 .. Len(outgoingCommands)
  <1> DEFINE T == {i \in 1 .. Len(outgoingCommands) : outgoingCommands[i] \in Unpackable}
  <1>1. T \in SUBSET Nat /\ T # {}
    OBVIOUS
  <1>2. PICK x \in T : \A y \in T : x <= y
    <2> HIDE DEF T
    <2> QED BY <1>1, Smallest
  <1>3. \A j \in 1 .. x - 1 : outgoingCommands[j] \notin Unpackable
    BY <1>2
  <1>4. x \in DOMAIN outgoingCommands /\ outgoingCommands[x] \in Unpackable
    BY <1>2
  <1>5. FirstUnpackable \in DOMAIN outgoingCommands
    BY <1>3, <1>4 DEF FirstUnpackable
  <1> QED BY <1>5

\* What PackFails takes away are commands that follow one another, after those that the
\* server can have heard.
LEMMA PackFailsFacts ==
    ASSUME Invariant, PackFails
    PROVE  \E before, gone, after \in Seq(Commands) :
              /\ sent = Cat(Cat(heard, before), Cat(gone, after))
              /\ sent' = Cat(Cat(heard, before), after)
              /\ Len(gone) >= 1
              /\ Cat(Cat(serverBuffer, up), outgoingBuffer) = Frames(before)
              /\ outgoingCommands' = after
  <1>1. /\ heard \in Seq(Commands) /\ outgoingCommands \in Seq(Commands) /\ connected
    BY DEF Invariant, ConnTypeOK, Understood, PackFails, Writable
  <1>2. PICK k : k = FirstUnpackable
    OBVIOUS
  <1>3. k \in 1 .. Len(outgoingCommands)
    BY <1>1, <1>2, FirstUnpackableBounds DEF PackFails
  <1>4. PICK flying \in Seq(Commands), queued \in Seq(Commands), left \in Seq(Bytes) :
           /\ sent = Cat(heard, Cat(flying, queued))
           /\ Cat(Cat(serverBuffer, up), left) = Frames(flying)
           /\ connected => queued = outgoingCommands /\ left = outgoingBuffer
    BY DEF Invariant, Outbound
  <1>5. queued = outgoingCommands /\ left = outgoingBuffer
    BY <1>1, <1>4
  <1>6. PICK gone, after : gone = SubSeq(queued, 1, k) /\ after = Drop(queued, k)
    OBVIOUS
  <1>7. k \in 0 .. Len(queued)
    BY <1>3, <1>5
  <1>8. /\ gone \in Seq(Commands) /\ after \in Seq(Commands)
        /\ queued = Cat(gone, after) /\ Len(gone) = k
    <2>1. gone \in Seq(Commands) /\ after \in Seq(Commands) /\ queued = Cat(gone, after)
      BY <1>4, <1>6, <1>7, DropFacts
    <2>2. Len(gone) = k
      BY <1>4, <1>6, <1>7, CatSplit
    <2> QED BY <2>1, <2>2
  <1>9. PICK pre : pre = Cat(heard, flying)
    OBVIOUS
  <1>10. pre \in Seq(Commands) /\ sent = Cat(pre, queued)
    BY <1>1, <1>4, <1>9, CatFacts
  <1>11. Len(sent) - Len(outgoingCommands) = Len(pre)
    <2>1. Joined(sent, pre, queued)
      BY <1>4, <1>10, CatPlaces
    <2> QED BY <1>5, <2>1 DEF Joined
  <1>12. SubSeq(sent, 1, Len(pre)) = pre
    BY <1>4, <1>10, CatFirst
  <1>13. outgoingCommands' = after
    BY <1>2, <1>5, <1>6 DEF PackFails
  <1>14. sent' = SubSeq(sent, 1, Len(pre)) \o after
    BY <1>11, <1>13 DEF PackFails
  <1>15. sent' = Cat(pre, after)
    BY <1>12, <1>14 DEF Cat
  <1> QED BY <1>3, <1>4, <1>5, <1>8, <1>9, <1>10, <1>13, <1>15

LEMMA PackFailsInvariant == Invariant /\ PackFails => Invariant'
  <1> SUFFICES ASSUME Invariant, PackFails PROVE Invariant'
    OBVIOUS
  <1> USE DEF stateVars, networkVars, clockVars
  <1>1. PICK before \in Seq(Commands), gone \in Seq(Commands), after \in Seq(Commands) :
           /\ sent' = Cat(Cat(heard, before), after)
           /\ Cat(Cat(serverBuffer, up), outgoingBuffer) = Frames(before)
           /\ outgoingCommands' = after
    BY PackFailsFacts
  <1>2. heard \in Seq(Commands) /\ outgoingBuffer \in Seq(Bytes)
    BY DEF Invariant, Understood, ConnTypeOK
  <1>3. UNCHANGED <<outgoingBuffer, incomingBuffer, incomingCommands, stateVars,
                    networkVars, heard, said, got, clockVars>>
    BY DEF PackFails
  <1>4. sent' = Cat(heard, Cat(before, after)) /\ sent' \in Seq(Commands)
    BY <1>1, <1>2, CatFacts
  <1>5. ConnTypeOK' /\ Understood'
    BY <1>1, <1>3, <1>4 DEF Invariant, ConnTypeOK, Understood
  <1>6. Inbound'
    BY <1>3, InboundKept DEF Invariant
  <1>7. Outbound'
    BY <1>1, <1>2, <1>3, <1>4, Zenon DEF Outbound
  <1> QED BY <1>5, <1>6, <1>7 DEF Invariant

\* The server says a command: it is behind all others on their way.
LEMMA ServerSaysInvariant ==
    ASSUME NEW c \in Commands, Invariant, ServerSays(c)
    PROVE  Invariant'
  <1> USE DEF bufferVars, stateVars, clockVars
  <1>1. /\ down \in Seq(Bytes) /\ incomingBuffer \in Seq(Bytes)
        /\ got \in Seq(Commands) /\ incomingCommands \in Seq(Commands) /\ connected
    BY DEF Invariant, ConnTypeOK, Understood, ServerSays
  <1>2. PICK f : f = Frame(c)
    OBVIOUS
  <1>3. f \in Seq(Bytes)
    BY <1>2, FrameFacts
  <1>4. down' = Cat(down, f) /\ said' = Append(said, c)
        /\ UNCHANGED <<bufferVars, stateVars, up, serverBuffer, sent, heard, got, clockVars>>
    BY <1>2 DEF ServerSays, Cat
  <1>5. down' \in Seq(Bytes)
    BY <1>1, <1>3, <1>4, CatFacts
  <1>6. ConnTypeOK' /\ Understood'
    BY <1>4, <1>5 DEF Invariant, ConnTypeOK, Understood
  <1>7. Outbound'
    BY <1>4, OutboundKept DEF Invariant
  <1>8. Inbound'
    <2>1. PICK flying \in Seq(Commands) :
             /\ said = Cat(Cat(got, incomingCommands), flying)
             /\ Cat(incomingBuffer, down) = Frames(flying)
      BY <1>1 DEF Invariant, Inbound
    <2>2. PICK q, known : q = Append(flying, c) /\ known = Cat(got, incomingCommands)
      OBVIOUS
    <2>3. q \in Seq(Commands) /\ known \in Seq(Commands)
      BY <1>1, <2>1, <2>2, CatFacts
    <2>4. said' = Cat(known, q)
      <3>1. Cat(known, Append(flying, c)) = Append(Cat(known, flying), c)
        BY <2>1, <2>3, CatAppend
      <3> QED BY <1>4, <2>1, <2>2, <3>1
    <2>5. Frames(q) = Cat(Frames(flying), f)
      BY <1>2, <2>1, <2>2, FramesAppend
    <2>6. Cat(incomingBuffer, Cat(down, f)) = Cat(Cat(incomingBuffer, down), f)
      BY <1>1, <1>3, CatFacts
    <2>7. Cat(incomingBuffer', down') = Frames(q)
      BY <1>4, <2>1, <2>5, <2>6
    <2> QED BY <1>4, <2>2, <2>3, <2>4, <2>7 DEF Inbound
  <1> QED BY <1>6, <1>7, <1>8 DEF Invariant

\* n bytes of way come into buf: what is cut off is the first of the commands under way,
\* and what stays are the bytes of the others.
Arrives(buf, way, n, after, flying) ==
    \E a, b \in Seq(Commands), rest \in Seq(Bytes) :
        /\ Cut(buf \o SubSeq(way, 1, n)) = [cmds |-> a, rest |-> rest]
        /\ flying = Cat(a, b)
        /\ Cat(Cat(rest, Drop(way, n)), after) = Frames(b)
        /\ Drop(way, n) \in Seq(Bytes)

LEMMA ArrivalIsRight ==
    ASSUME NEW buf \in Seq(Bytes), NEW way \in Seq(Bytes), NEW after \in Seq(Bytes),
           NEW flying \in Seq(Commands), Cat(Cat(buf, way), after) = Frames(flying),
           NEW n \in 1 .. Len(way)
    PROVE  Arrives(buf, way, n, after, flying)
  <1>1. PICK x, y : x = SubSeq(way, 1, n) /\ y = Drop(way, n)
    OBVIOUS
  <1>2. n \in 0 .. Len(way)
    OBVIOUS
  <1>3. x \in Seq(Bytes) /\ y \in Seq(Bytes) /\ way = Cat(x, y)
    BY <1>1, <1>2, DropFacts
  <1>4. PICK whole, tail : whole = Cat(buf, x) /\ tail = Cat(y, after)
    OBVIOUS
  <1>5. /\ whole \in Seq(Bytes) /\ tail \in Seq(Bytes)
        /\ Cat(whole, tail) = Cat(Cat(buf, way), after)
    BY <1>3, <1>4, CatFacts
  <1>6. RightCut(Cut(whole), tail, flying)
    BY <1>5, CutIsRight
  <1>7. PICK a \in Seq(Commands), b \in Seq(Commands), rest \in Seq(Bytes) :
           /\ Cut(whole) = [cmds |-> a, rest |-> rest]
           /\ flying = Cat(a, b)
           /\ Cat(rest, tail) = Frames(b)
    BY <1>6 DEF RightCut
  <1>8. Cat(Cat(rest, y), after) = Frames(b)
    BY <1>3, <1>4, <1>7, CatFacts
  <1>9. whole = buf \o x
    BY <1>4 DEF Cat
  <1> QED BY <1>1, <1>3, <1>7, <1>8, <1>9 DEF Arrives

\* The server comes to have heard what was under way, in order.
LEMMA ServerReadsFacts ==
    ASSUME Invariant, ServerReads
    PROVE  /\ \E a \in Seq(Commands) : heard' = Cat(heard, a)
           /\ up' \in Seq(Bytes) /\ serverBuffer' \in Seq(Bytes)
           /\ Outbound'
  <1>1. /\ heard \in Seq(Commands) /\ serverBuffer \in Seq(Bytes) /\ up \in Seq(Bytes)
    BY DEF Invariant, ConnTypeOK, Understood
  <1>2. PICK flying \in Seq(Commands), queued \in Seq(Commands), left \in Seq(Bytes) :
           /\ sent = Cat(heard, Cat(flying, queued))
           /\ Cat(Cat(serverBuffer, up), left) = Frames(flying)
           /\ connected => queued = outgoingCommands /\ left = outgoingBuffer
    BY DEF Invariant, Outbound
  <1>3. PICK n \in 1 .. Len(up) :
           /\ up' = Drop(up, n)
           /\ serverBuffer' = Cut(serverBuffer \o SubSeq(up, 1, n)).rest
           /\ heard' = heard \o Cut(serverBuffer \o SubSeq(up, 1, n)).cmds
    BY DEF ServerReads
  <1>4. PICK a \in Seq(Commands), b \in Seq(Commands), rest \in Seq(Bytes) :
           /\ Cut(serverBuffer \o SubSeq(up, 1, n)) = [cmds |-> a, rest |-> rest]
           /\ flying = Cat(a, b)
           /\ Cat(Cat(rest, Drop(up, n)), left) = Frames(b)
           /\ Drop(up, n) \in Seq(Bytes)
    <2>1. n \in 1 .. Len(up) /\ flying \in Seq(Commands) /\ left \in Seq(Bytes)
      BY <1>2, <1>3
    <2>2. Cat(Cat(serverBuffer, up), left) = Frames(flying)
      BY <1>2
    <2>3. serverBuffer \in Seq(Bytes) /\ up \in Seq(Bytes)
      BY <1>1
    <2>4. Arrives(serverBuffer, up, n, left, flying)
      BY <2>1, <2>2, <2>3, ArrivalIsRight
    <2> QED BY <2>4, Zenon DEF Arrives
  <1>5. serverBuffer' = rest /\ heard' = heard \o a
    <2>1. PICK cut : cut = Cut(serverBuffer \o SubSeq(up, 1, n))
      OBVIOUS
    <2>2. cut.cmds = a /\ cut.rest = rest
      BY <1>4, <2>1
    <2>3. serverBuffer' = cut.rest /\ heard' = heard \o cut.cmds
      BY <1>3, <2>1
    <2> QED BY <2>2, <2>3
  <1>6. heard' = Cat(heard, a)
    BY <1>5 DEF Cat
  <1>7. sent = Cat(Cat(heard, a), Cat(b, queued))
    BY <1>1, <1>2, <1>4, CatFacts
  <1>8. UNCHANGED <<sent, connected, outgoingCommands, outgoingBuffer>>
    BY DEF ServerReads, bufferVars, stateVars
  <1>9. Outbound'
    BY <1>2, <1>3, <1>4, <1>5, <1>6, <1>7, <1>8, Zenon DEF Outbound
  <1> QED BY <1>3, <1>4, <1>5, <1>6, <1>9

LEMMA ServerReadsInvariant == Invariant /\ ServerReads => Invariant'
  <1> SUFFICES ASSUME Invariant, ServerReads PROVE Invariant'
    OBVIOUS
  <1>1. PICK a \in Seq(Commands) : heard' = Cat(heard, a)
    BY ServerReadsFacts
  <1>2. heard \in Seq(Commands)
    BY DEF Invariant, Understood
  <1>3. heard' \in Seq(Commands)
    BY <1>1, <1>2, CatFacts
  <1>4. up' \in Seq(Bytes) /\ serverBuffer' \in Seq(Bytes) /\ Outbound'
    BY ServerReadsFacts
  <1>5. UNCHANGED <<bufferVars, stateVars, down, sent, said, got, clockVars>>
    BY DEF ServerReads
  <1>6. heard' \in Seq(Commands \cup {None})
    BY <1>3, SeqMonotonic
  <1>7. ConnTypeOK' /\ Understood'
    BY <1>3, <1>4, <1>5, <1>6
       DEF Invariant, ConnTypeOK, Understood, bufferVars, stateVars, clockVars
  <1>8. Inbound'
    BY <1>5, InboundKept DEF Invariant, bufferVars, stateVars
  <1> QED BY <1>4, <1>7, <1>8 DEF Invariant

\* The handler is called with some of the commands that are read, from the first on.
LEMMA FetchedBounds ==
    ASSUME NEW cmds \in Seq(Commands)
    PROVE  Fetched(cmds) \in 0 .. Len(cmds)
  <1> DEFINE stops == {i \in DOMAIN cmds : cmds[i] \in Stopping}
  <1>1. Fetched(cmds) = IF stops = {} THEN Len(cmds)
                        ELSE CHOOSE i \in stops : \A j \in stops : i <= j
    BY DEF Fetched
  <1>2. stops \in SUBSET Nat /\ stops \subseteq 0 .. Len(cmds) /\ Len(cmds) \in 0 .. Len(cmds)
    OBVIOUS
  <1> HIDE DEF stops
  <1>3. CASE stops = {}
    BY <1>1, <1>2, <1>3
  <1>4. CASE stops # {}
    <2>1. \E i \in stops : \A j \in stops : i <= j
      BY <1>2, <1>4, Smallest
    <2>2. Fetched(cmds) \in stops
      BY <1>1, <1>4, <2>1
    <2> QED BY <1>2, <2>2
  <1> QED BY <1>3, <1>4

\* The handler comes to have been called with what was said, in order.
LEMMA HandleReadFacts ==
    ASSUME Invariant, HandleRead
    PROVE  /\ \E a \in Seq(Commands) : got' = Cat(got, a)
           /\ down' \in Seq(Bytes) /\ incomingBuffer' \in Seq(Bytes)
           /\ incomingCommands' \in Seq(Commands)
           /\ Inbound'
  <1>1. /\ got \in Seq(Commands) /\ incomingCommands \in Seq(Commands)
        /\ incomingBuffer \in Seq(Bytes) /\ down \in Seq(Bytes) /\ connected
    BY DEF Invariant, ConnTypeOK, Understood, HandleRead
  <1>2. PICK flying \in Seq(Commands) :
           /\ said = Cat(Cat(got, incomingCommands), flying)
           /\ Cat(incomingBuffer, down) = Frames(flying)
    BY <1>1 DEF Invariant, Inbound
  <1>3. PICK n \in 1 .. Len(down) :
           LET cut   == Cut(incomingBuffer \o SubSeq(down, 1, n))
               queue == incomingCommands \o cut.cmds
           IN /\ down' = Drop(down, n)
              /\ incomingBuffer' = cut.rest
              /\ incomingCommands' = Drop(queue, Fetched(queue))
              /\ got' = got \o SubSeq(queue, 1, Fetched(queue))
    BY DEF HandleRead
  <1>4. PICK none : none = <<>>
    OBVIOUS
  <1>5. PICK a \in Seq(Commands), b \in Seq(Commands), rest \in Seq(Bytes) :
           /\ Cut(incomingBuffer \o SubSeq(down, 1, n)) = [cmds |-> a, rest |-> rest]
           /\ flying = Cat(a, b)
           /\ Cat(Cat(rest, Drop(down, n)), none) = Frames(b)
           /\ Drop(down, n) \in Seq(Bytes)
    <2>1. /\ none \in Seq(Bytes) /\ Cat(Cat(incomingBuffer, down), none) = Frames(flying)
      BY <1>1, <1>2, <1>4, CatFacts
    <2>2. n \in 1 .. Len(down) /\ flying \in Seq(Commands)
      BY <1>2, <1>3
    <2>3. incomingBuffer \in Seq(Bytes) /\ down \in Seq(Bytes)
      BY <1>1
    <2>4. Arrives(incomingBuffer, down, n, none, flying)
      BY <2>1, <2>2, <2>3, ArrivalIsRight
    <2> QED BY <2>4, Zenon DEF Arrives
  <1>6. PICK queue : queue = Cat(incomingCommands, a)
    OBVIOUS
  <1>7. queue \in Seq(Commands)
    BY <1>1, <1>5, <1>6, CatFacts
  <1>8. PICK k : k = Fetched(queue)
    OBVIOUS
  <1>9. k \in 0 .. Len(queue)
    BY <1>7, <1>8, FetchedBounds
  <1>10. PICK x, y : x = SubSeq(queue, 1, k) /\ y = Drop(queue, k)
    OBVIOUS
  <1>11. x \in Seq(Commands) /\ y \in Seq(Commands) /\ queue = Cat(x, y)
    BY <1>7, <1>9, <1>10, DropFacts
  <1>12. /\ down' = Drop(down, n) /\ incomingBuffer' = rest
         /\ incomingCommands' = y /\ got' = Cat(got, x)
    <2>1. queue = incomingCommands \o a
      BY <1>6 DEF Cat
    <2>2. /\ down' = Drop(down, n) /\ incomingBuffer' = rest
          /\ incomingCommands' = Drop(queue, Fetched(queue))
          /\ got' = got \o SubSeq(queue, 1, Fetched(queue))
      <3>1. PICK cut : cut = Cut(incomingBuffer \o SubSeq(down, 1, n))
        OBVIOUS
      <3>2. cut.cmds = a /\ cut.rest = rest
        BY <1>5, <3>1
      <3>3. /\ down' = Drop(down, n) /\ incomingBuffer' = cut.rest
            /\ incomingCommands' = Drop(incomingCommands \o cut.cmds,
                                        Fetched(incomingCommands \o cut.cmds))
            /\ got' = got \o SubSeq(incomingCommands \o cut.cmds, 1,
                                   Fetched(incomingCommands \o cut.cmds))
        BY <1>3, <3>1, Zenon
      <3> QED BY <2>1, <3>2, <3>3
    <2> QED BY <1>8, <1>10, <2>2 DEF Cat
  <1>13. said = Cat(Cat(Cat(got, x), y), b)
    <2>1. Cat(Cat(got, incomingCommands), Cat(a, b)) = Cat(Cat(got, queue), b)
      BY <1>1, <1>5, <1>6, CatFacts
    <2>2. Cat(got, queue) = Cat(Cat(got, x), y)
      BY <1>1, <1>11, CatFacts
    <2> QED BY <1>2, <1>5, <2>1, <2>2
  <1>14. Cat(rest, Drop(down, n)) = Frames(b)
    <2>1. Cat(rest, Drop(down, n)) \in Seq(Bytes)
      BY <1>5, CatFacts
    <2> QED BY <1>4, <1>5, <2>1, CatFacts
  <1>15. Inbound'
    <2>1. said' = said
      BY DEF HandleRead
    <2> QED BY <1>5, <1>12, <1>13, <1>14, <2>1, Zenon DEF Inbound
  <1> QED BY <1>5, <1>11, <1>12, <1>15

LEMMA HandleReadInvariant == Invariant /\ HandleRead => Invariant'
  <1> SUFFICES ASSUME Invariant, HandleRead PROVE Invariant'
    OBVIOUS
  <1>1. PICK a \in Seq(Commands) : got' = Cat(got, a)
    BY HandleReadFacts
  <1>2. got \in Seq(Commands)
    BY DEF Invariant, Understood
  <1>3. got' \in Seq(Commands)
    BY <1>1, <1>2, CatFacts
  <1>4. /\ down' \in Seq(Bytes) /\ incomingBuffer' \in Seq(Bytes)
        /\ incomingCommands' \in Seq(Commands) /\ Inbound'
    BY HandleReadFacts
  <1>5. UNCHANGED <<outgoingCommands, outgoingBuffer, stateVars, up, serverBuffer, sent,
                    heard, said, clockVars>>
    BY DEF HandleRead
  <1>6. got' \in Seq(Commands \cup {None}) /\ incomingCommands' \in Seq(Commands \cup {None})
    BY <1>3, <1>4, SeqMonotonic
  <1>7. ConnTypeOK' /\ Understood'
    BY <1>3, <1>4, <1>5, <1>6
       DEF Invariant, ConnTypeOK, Understood, stateVars, clockVars
  <1>8. Outbound'
    BY <1>5, OutboundKept DEF Invariant, stateVars
  <1> QED BY <1>4, <1>7, <1>8 DEF Invariant

LEMMA NextInvariant == Invariant /\ [Next]_vars => Invariant'
  <1> SUFFICES ASSUME Invariant, [Next]_vars PROVE Invariant'
    OBVIOUS
  <1>1. CASE Connect
    BY <1>1, ConnectInvariant
  <1>2. CASE ConnectFails \/ Throw \/ HandleError \/ Shutdown
    BY <1>2, DownInvariant
  <1>3. CASE \/ \E c \in Commands : SendCommand(c)
             \/ \E c \in Commands \ Unpackable : ServerSays(c)
    BY <1>3, SendCommandInvariant, ServerSaysInvariant
  <1>4. CASE HandleWrite
    BY <1>4, HandleWriteInvariant
  <1>5. CASE PackFails
    BY <1>5, PackFailsInvariant
  <1>6. CASE HandleRead
    BY <1>6, HandleReadInvariant
  <1>7. CASE ServerReads
    BY <1>7, ServerReadsInvariant
  <1>8. CASE Tick \/ UNCHANGED vars
    BY <1>8, TickInvariant
  <1> QED BY <1>1, <1>2, <1>3, <1>4, <1>5, <1>6, <1>7, <1>8 DEF Next

\* In every state the bytes under way are those of the commands under way.
LEMMA AlwaysInvariant == Spec => []Invariant
  BY InitInvariant, NextInvariant, PTL DEF Spec

-----------------------------------------------------------------------------
(***************************************************************************)
(* What the connection promises.                                           *)
(***************************************************************************)

LEMMA InvariantNothingLost == Invariant => NothingLost
  <1> SUFFICES ASSUME Invariant, connected PROVE NothingLost
    BY DEF NothingLost
  <1>1. /\ heard \in Seq(Commands) /\ got \in Seq(Commands)
        /\ incomingCommands \in Seq(Commands) /\ outgoingCommands \in Seq(Commands)
        /\ outgoingBuffer \in Seq(Bytes) /\ incomingBuffer \in Seq(Bytes)
        /\ up \in Seq(Bytes) /\ down \in Seq(Bytes) /\ serverBuffer \in Seq(Bytes)
    BY DEF Invariant, ConnTypeOK, Understood
  <1>2. None \notin ToSet(heard) \cup ToSet(got)
    <2>1. \A s \in Seq(Commands) : None \notin ToSet(s)
      BY ConnectionAssumption DEF ToSet
    <2> QED BY <1>1, <2>1
  <1>3. Frames(heard) \o serverBuffer \o up \o outgoingBuffer \o Frames(outgoingCommands)
            = Frames(sent)
    <2>1. PICK flying \in Seq(Commands) :
             /\ sent = Cat(heard, Cat(flying, outgoingCommands))
             /\ Cat(Cat(serverBuffer, up), outgoingBuffer) = Frames(flying)
      BY DEF Invariant, Outbound
    <2>2. PICK fh, fo : fh = Frames(heard) /\ fo = Frames(outgoingCommands)
      OBVIOUS
    <2>3. fh \in Seq(Bytes) /\ fo \in Seq(Bytes)
      BY <1>1, <2>2, FramesTyped
    <2>4. Cat(flying, outgoingCommands) \in Seq(Commands)
      BY <1>1, <2>1, CatFacts
    <2>5. Frames(sent) = Cat(fh, Cat(Cat(Cat(serverBuffer, up), outgoingBuffer), fo))
      BY <1>1, <2>1, <2>2, <2>4, FramesJoin
    <2>6. Frames(sent) = Cat(Cat(Cat(Cat(fh, serverBuffer), up), outgoingBuffer), fo)
      <3>1. PICK x \in Seq(Bytes), y \in Seq(Bytes) :
               x = Cat(serverBuffer, up) /\ y = Cat(x, outgoingBuffer)
        BY <1>1, CatFacts
      <3>2. Cat(fh, Cat(y, fo)) = Cat(Cat(fh, y), fo)
        BY <2>3, CatFacts
      <3>3. Cat(fh, y) = Cat(Cat(fh, x), outgoingBuffer)
        BY <1>1, <2>3, <3>1, CatFacts
      <3>4. Cat(fh, x) = Cat(Cat(fh, serverBuffer), up)
        BY <1>1, <2>3, <3>1, CatFacts
      <3> QED BY <2>5, <3>1, <3>2, <3>3, <3>4
    <2> QED BY <2>2, <2>6, Zenon DEF Cat
  <1>4. Frames(got) \o Frames(incomingCommands) \o incomingBuffer \o down = Frames(said)
    <2>1. PICK flying \in Seq(Commands) :
             /\ said = Cat(Cat(got, incomingCommands), flying)
             /\ Cat(incomingBuffer, down) = Frames(flying)
      BY DEF Invariant, Inbound
    <2>2. PICK fg, fi : fg = Frames(got) /\ fi = Frames(incomingCommands)
      OBVIOUS
    <2>3. fg \in Seq(Bytes) /\ fi \in Seq(Bytes)
      BY <1>1, <2>2, FramesTyped
    <2>4. Cat(got, incomingCommands) \in Seq(Commands)
      BY <1>1, CatFacts
    <2>5. Frames(said) = Cat(Cat(fg, fi), Cat(incomingBuffer, down))
      BY <1>1, <2>1, <2>2, <2>4, FramesJoin
    <2>6. Frames(said) = Cat(Cat(Cat(fg, fi), incomingBuffer), down)
      <3>1. PICK x \in Seq(Bytes) : x = Cat(fg, fi)
        BY <2>3, CatFacts
      <3>2. Cat(x, Cat(incomingBuffer, down)) = Cat(Cat(x, incomingBuffer), down)
        BY <1>1, CatFacts
      <3> QED BY <2>5, <3>1, <3>2
    <2> QED BY <2>2, <2>6, Zenon DEF Cat
  <1> QED BY <1>2, <1>3, <1>4 DEF NothingLost

\* Types: a connection that is up has a socket and a handler, the queues hold commands,
\* the buffers and the network bytes of commands.
THEOREM ConnTypeCorrect == Spec => []ConnTypeOK
  <1>1. Invariant => ConnTypeOK
    BY DEF Invariant
  <1> QED BY <1>1, AlwaysInvariant, PTL

\* connection.py loses, repeats, reorders and carries over no byte: while it is up, every
\* byte of every command of the session is in one place, in order, whatever
\* send_data_to_socket and read_data_from_socket take and give at a time.
THEOREM NothingEverLost == Spec => []NothingLost
  BY InvariantNothingLost, AlwaysInvariant, PTL

-----------------------------------------------------------------------------
(***************************************************************************)
(* The refinement, step by step.                                           *)
(***************************************************************************)

\* What is longer and a prefix of the whole, in the words of CommandChannel.
LEMMA ExtendsFacts ==
    ASSUME NEW old \in Seq(Commands), NEW a \in Seq(Commands), NEW more \in Seq(Commands),
           NEW new, new = Cat(old, a), NEW whole, whole = Cat(new, more), new # old
    PROVE  /\ Channel!Extends(old, new, whole)
           /\ Len(new) \in 0 .. Len(whole) /\ new = SubSeq(whole, 1, Len(new))
  <1>1. new \in Seq(Commands)
    BY CatFacts
  <1>2. Joined(new, old, a) /\ Joined(whole, new, more)
    BY <1>1, CatPlaces
  <1>3. Len(old) <= Len(new) /\ Len(new) <= Len(whole) /\ Len(new) \in 0 .. Len(whole)
    BY <1>2 DEF Joined
  <1>4. SubSeq(new, 1, Len(old)) = old /\ SubSeq(whole, 1, Len(new)) = new
    BY <1>1, CatFirst
  <1>5. SubSeq(old, 1, Len(old)) = old /\ SubSeq(new, 1, Len(new)) = new
    BY <1>1, SubSeqFull
  <1>6. Channel!Extends(old, new, whole)
    <2>1. Channel!IsPrefix(old, new) /\ Channel!IsPrefix(new, whole)
      BY <1>3, <1>4, <1>5, Zenon DEF Channel!IsPrefix
    <2> QED BY <2>1, Zenon DEF Channel!Extends, Channel!IsStrictPrefix
  <1> QED BY <1>3, <1>4, <1>6

LEMMA ChannelInit == Init => Channel!Init
  BY DEF Init, Channel!Init

\* The server's reading is Hear, or nothing if no command is complete.
LEMMA ServerReadsIsHear ==
    ASSUME Invariant, ServerReads
    PROVE  Channel!Hear \/ UNCHANGED <<sent, heard, said, got>>
  <1>1. PICK a \in Seq(Commands) : heard' = Cat(heard, a)
    BY ServerReadsFacts
  <1>2. UNCHANGED <<sent, said, got>>
    BY DEF ServerReads
  <1>3. CASE heard' = heard
    BY <1>2, <1>3, SMTT(30)
  <1>4. CASE heard' # heard
    <2>1. PICK flying \in Seq(Commands), queued \in Seq(Commands) :
             sent' = Cat(heard', Cat(flying, queued))
      BY ServerReadsFacts DEF Outbound
    <2>2. PICK more \in Seq(Commands) : sent = Cat(heard', more)
      BY <1>2, <2>1, CatFacts
    <2>3. heard \in Seq(Commands)
      BY DEF Invariant, Understood
    <2>4. /\ Channel!Extends(heard, heard', sent)
          /\ Len(heard') \in 0 .. Len(sent) /\ heard' = SubSeq(sent, 1, Len(heard'))
      BY <1>1, <1>4, <2>2, <2>3, ExtendsFacts
    <2> QED BY <1>2, <2>4 DEF Channel!Hear
  <1> QED BY <1>3, <1>4

\* The handler's reading is Get, or nothing if no command is complete.
LEMMA HandleReadIsGet ==
    ASSUME Invariant, HandleRead
    PROVE  Channel!Get \/ UNCHANGED <<sent, heard, said, got>>
  <1>1. PICK a \in Seq(Commands) : got' = Cat(got, a)
    BY HandleReadFacts
  <1>2. UNCHANGED <<sent, heard, said>> /\ connected'
    BY DEF HandleRead, stateVars
  <1>3. CASE got' = got
    BY <1>2, <1>3, SMTT(30)
  <1>4. CASE got' # got
    <2>1. PICK flying \in Seq(Commands) :
             said' = Cat(Cat(got', incomingCommands'), flying)
      BY <1>2, HandleReadFacts DEF Inbound
    <2>2. got \in Seq(Commands)
      BY DEF Invariant, Understood
    <2>3. got' \in Seq(Commands) /\ incomingCommands' \in Seq(Commands)
      BY <1>1, <2>2, HandleReadFacts, CatFacts
    <2>4. PICK more \in Seq(Commands) : said = Cat(got', more)
      BY <1>2, <2>1, <2>3, CatFacts
    <2>5. /\ Channel!Extends(got, got', said)
          /\ Len(got') \in 0 .. Len(said) /\ got' = SubSeq(said, 1, Len(got'))
      BY <1>1, <1>4, <2>2, <2>4, ExtendsFacts
    <2> QED BY <1>2, <2>5 DEF Channel!Get
  <1> QED BY <1>3, <1>4

\* A packing that raises is Withdraw.
LEMMA PackFailsIsWithdraw ==
    ASSUME Invariant, PackFails
    PROVE  Channel!Withdraw
  <1>1. PICK before \in Seq(Commands), gone \in Seq(Commands), after \in Seq(Commands) :
           /\ sent = Cat(Cat(heard, before), Cat(gone, after))
           /\ sent' = Cat(Cat(heard, before), after)
           /\ Len(gone) >= 1
    BY PackFailsFacts
  <1>2. heard \in Seq(Commands)
    BY DEF Invariant, Understood
  <1>3. PICK pre, rest, most :
           pre = Cat(heard, before) /\ rest = Cat(gone, after) /\ most = Cat(pre, gone)
    OBVIOUS
  <1>4. /\ pre \in Seq(Commands) /\ rest \in Seq(Commands) /\ most \in Seq(Commands)
        /\ sent = Cat(pre, rest) /\ sent = Cat(most, after) /\ sent' = Cat(pre, after)
    BY <1>1, <1>2, <1>3, CatFacts
  <1>5. /\ Joined(pre, heard, before) /\ Joined(most, pre, gone)
        /\ Joined(sent, most, after)
    BY <1>1, <1>2, <1>3, <1>4, CatPlaces
  <1>6. PICK i, j : i = Len(pre) + 1 /\ j = Len(most)
    OBVIOUS
  <1>7. /\ Len(pre) >= Len(heard) /\ Len(most) = Len(pre) + Len(gone)
        /\ Len(sent) >= Len(most) /\ Len(pre) \in Nat /\ Len(most) \in Nat
        /\ Len(heard) \in Nat /\ Len(gone) \in Nat /\ Len(sent) \in Nat
    BY <1>1, <1>5 DEF Joined
  <1>8. /\ i \in Len(heard) + 1 .. Len(sent) /\ j \in Len(heard) + 1 .. Len(sent)
        /\ i <= j /\ i - 1 = Len(pre)
    BY <1>1, <1>6, <1>7
  <1>9. SubSeq(sent, 1, Len(pre)) = pre /\ SubSeq(sent, Len(most) + 1, Len(sent)) = after
    <2>1. SubSeq(sent, 1, Len(pre)) = pre
      BY <1>4, CatFirst
    <2>2. SubSeq(sent, Len(most) + 1, Len(sent)) = after
      BY <1>1, <1>4, CatSecond
    <2> QED BY <2>1, <2>2
  <1>10. sent' = SubSeq(sent, 1, i - 1) \o SubSeq(sent, j + 1, Len(sent))
    BY <1>4, <1>6, <1>8, <1>9 DEF Cat
  <1>11. UNCHANGED <<heard, said, got>>
    BY DEF PackFails
  <1> QED BY <1>8, <1>10, <1>11 DEF Channel!Withdraw

LEMMA ChannelStep ==
    ASSUME Invariant, [Next]_vars
    PROVE  [Channel!Next]_(Channel!chan)
  <1> USE DEF Channel!chan
  <1>1. CASE Connect
    BY <1>1 DEF Connect, Channel!Next, Channel!Reopen
  <1>2. CASE ConnectFails \/ Throw \/ HandleError \/ Shutdown \/ HandleWrite \/ Tick
    BY <1>2 DEF ConnectFails, Throw, HandleError, Shutdown, HandleWrite, Tick, channelVars
  <1>3. ASSUME NEW c \in Commands, SendCommand(c) PROVE Channel!Next
    <2>1. Channel!Send(c)
      BY <1>3 DEF SendCommand, Channel!Send
    <2> QED BY <2>1 DEF Channel!Next
  <1>4. ASSUME NEW c \in Commands, ServerSays(c) PROVE Channel!Next
    <2>1. Channel!Say(c)
      BY <1>4 DEF ServerSays, Channel!Say
    <2> QED BY <2>1 DEF Channel!Next
  <1>5. CASE PackFails
    BY <1>5, PackFailsIsWithdraw DEF Channel!Next
  <1>6. CASE HandleRead
    BY <1>6, HandleReadIsGet DEF Channel!Next
  <1>7. CASE ServerReads
    BY <1>7, ServerReadsIsHear DEF Channel!Next
  <1>8. CASE UNCHANGED vars
    BY <1>8 DEF vars, channelVars
  <1> QED BY <1>1, <1>2, <1>3, <1>4, <1>5, <1>6, <1>7, <1>8 DEF Next

\* The connection implements two FIFO channels of whole commands per session: what is
\* given to send_command is heard in order or not at all, and so is what the server says.
THEOREM ConnectionIsChannel == Spec => ChannelSpec
  <1>1. Init => Channel!Init
    BY ChannelInit
  <1>2. Invariant /\ [Next]_vars => [Channel!Next]_(Channel!chan)
    BY ChannelStep
  <1> QED BY <1>1, <1>2, AlwaysInvariant, PTL DEF Spec, ChannelSpec, Channel!Spec
=============================================================================
