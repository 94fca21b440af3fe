------------------------- MODULE AdminClientProofs -------------------------
(***************************************************************************)
(* Theorems about AdminClient, for any number of calls and rows, with      *)
(* timeouts, refusals and losses.  The argument is about the lines that no *)
(* call has used yet, wherever they are: they come in blocks, one for each *)
(* command the server has answered and no call has popped, in the order    *)
(* the commands were sent.                                                 *)
(***************************************************************************)
EXTENDS AdminClient, SequenceLemmas

-----------------------------------------------------------------------------
(***************************************************************************)
(* The inductive invariant.                                                *)
(***************************************************************************)

\* The response that the waiting call has yet to pop.
Response == IF recvResponses = <<>> THEN <<>> ELSE recvResponses[1]

\* Every line that no call has used, oldest first.
Unused == Response \o (partial \o (incoming \o inbound))

\* How many of the commands not yet popped the server has answered.
Replied == Len(sentCommands) - Len(serverQueue) - Len(outgoing)

\* The command that a line of this kind may answer.
Fits == [row |-> "status", end |-> "status", text |-> "version",
         OK |-> "maxqueue", ERR |-> "maxqueue", echo |-> "echo"]

\* There is a response only for a call that waits, and one at most.
Waited ==
    /\ Len(recvResponses) <= 1
    /\ recvResponses # <<>> => waiting # None
    /\ waiting # None => connected /\ sentCommands # <<>>

Ordered(s) == \A i, j \in 1 .. Len(s) : i < j => s[i].call < s[j].call

\* Each command is sent once, under a number of its own, and what is not answered yet
\* is the end of what was sent.
Sends ==
    /\ Replied >= 0
    /\ \A i \in 1 .. Len(sentCommands) : sentCommands[i].call <= calls
    /\ Ordered(sentCommands)
    /\ \A i \in 1 .. Len(serverQueue) : serverQueue[i] = sentCommands[Replied + i]
    /\ \A i \in 1 .. Len(outgoing) :
          outgoing[i] = sentCommands[Replied + Len(serverQueue) + i]

\* A line of L answers one of the first r commands of s.
Owned(L, s, r) ==
    \A i \in 1 .. Len(L) : \E p \in 1 .. r :
        L[i].call = s[p].call /\ Fits[L[i].kind] = s[p].type

InOrder(L) == \A i, j \in 1 .. Len(L) : i < j => L[i].call <= L[j].call

\* A line that is not a row is the last of its block.
Ended(L) == \A i, j \in 1 .. Len(L) : i < j /\ L[i].kind # "row" => L[i].call < L[j].call

\* Every block has such a line.
Whole(L, s, r) ==
    \A p \in 1 .. r : \E i \in 1 .. Len(L) : L[i].call = s[p].call /\ L[i].kind # "row"

\* The lines of L answer the first r commands of s, block by block.
InBlocks(L, s, r) == Owned(L, s, r) /\ InOrder(L) /\ Ended(L) /\ Whole(L, s, r)

\* What was taken off the queue is rows, or one whole block.
Parts ==
    /\ \A i \in 1 .. Len(partial) : partial[i].kind = "row"
    /\ recvResponses # <<>> =>
          /\ partial = <<>> /\ Response # <<>>
          /\ \A i \in 1 .. Len(Response) :
                (Response[i].kind = "row") = (i < Len(Response))

\* Without a mishap no command is outstanding but the one that is waited for.
Alone ==
    mishaps = {} =>
        /\ sentCommands = IF waiting = None THEN <<>> ELSE <<waiting>>
        /\ waiting # None => waiting.call = calls

\* A session in which no read has raised.
Session ==
    connected /\ "protocol" \notin mishaps =>
        Sends /\ InBlocks(Unused, sentCommands, Replied) /\ Parts /\ Alone

-----------------------------------------------------------------------------
(***************************************************************************)
(* Blocks.                                                                 *)
(***************************************************************************)

\* A sequence of lines has lines at its places.
LEMMA LineFacts ==
    ASSUME NEW L \in Seq(Lines)
    PROVE  /\ Len(L) \in Nat
           /\ \A i \in 1 .. Len(L) : L[i] \in Lines /\ L[i].call \in Nat
                                     /\ L[i].kind \in Kinds
  <1>1. Len(L) \in Nat /\ \A i \in 1 .. Len(L) : L[i] \in Lines
    OBVIOUS
  <1> QED BY <1>1 DEF Lines

\* A sequence of commands has commands at its places.
LEMMA CommandFacts ==
    ASSUME NEW s \in Seq(Commands)
    PROVE  /\ Len(s) \in Nat
           /\ \A p \in 1 .. Len(s) : s[p] \in Commands /\ s[p].call \in Nat
                                     /\ s[p].type \in Types
  <1>1. Len(s) \in Nat /\ \A p \in 1 .. Len(s) : s[p] \in Commands
    OBVIOUS
  <1> QED BY <1>1 DEF Commands

\* As long as there were only rows before it, a line is of the first command's block.
LEMMA FirstBlock ==
    ASSUME NEW s \in Seq(Commands), NEW r \in Nat, r <= Len(s), Ordered(s),
           NEW L \in Seq(Lines), InBlocks(L, s, r),
           NEW n \in 1 .. Len(L), \A i \in 1 .. n - 1 : L[i].kind = "row"
    PROVE  /\ r >= 1
           /\ \A i \in 1 .. n : /\ L[i].call = s[1].call
                                /\ Fits[L[i].kind] = s[1].type
  <1>1. r >= 1
    BY DEF InBlocks, Owned
  <1>2. /\ 1 \in 1 .. r /\ 1 \in 1 .. Len(s)
        /\ \A p \in 1 .. r : p \in 1 .. Len(s) /\ s[p].call \in Nat
        /\ \A i \in 1 .. Len(L) : L[i].call \in Nat
    BY <1>1, LineFacts, CommandFacts
  <1>3. \A p \in 1 .. r : s[1].call <= s[p].call /\ (s[p].call = s[1].call => p = 1)
    BY <1>2 DEF Ordered
  <1>4. PICK m \in 1 .. Len(L) : L[m].call = s[1].call /\ L[m].kind # "row"
    BY <1>2 DEF InBlocks, Whole
  <1>5. m >= n
    BY <1>4
  <1>6. \A i \in 1 .. Len(L) : s[1].call <= L[i].call
    <2> TAKE i \in 1 .. Len(L)
    <2>1. PICK p \in 1 .. r : L[i].call = s[p].call
      BY DEF InBlocks, Owned
    <2> QED BY <1>3, <2>1
  <1>7. L[n].call = s[1].call
    <2>1. m # n => L[n].call <= L[m].call
      BY <1>4, <1>5 DEF InBlocks, InOrder
    <2> QED BY <1>2, <1>4, <1>6, <2>1
  <1>8. \A i \in 1 .. n : i \in 1 .. Len(L) /\ L[i].call = s[1].call
    <2> TAKE i \in 1 .. n
    <2>1. i \in 1 .. Len(L)
      OBVIOUS
    <2>2. i < n => L[i].call <= L[n].call
      BY <2>1 DEF InBlocks, InOrder
    <2> QED BY <1>2, <1>6, <1>7, <2>1, <2>2
  <1>9. \A i \in 1 .. n : Fits[L[i].kind] = s[1].type
    <2> TAKE i \in 1 .. n
    <2>1. PICK p \in 1 .. r : L[i].call = s[p].call /\ Fits[L[i].kind] = s[p].type
      BY <1>8 DEF InBlocks, Owned
    <2> QED BY <1>3, <1>8, <2>1
  <1> QED BY <1>1, <1>8, <1>9

\* The first line answers the first command.
LEMMA FirstLine ==
    ASSUME NEW s \in Seq(Commands), NEW r \in Nat, r <= Len(s), Ordered(s),
           NEW L \in Seq(Lines), InBlocks(L, s, r), L # <<>>
    PROVE  L[1].call = s[1].call
  <1>1. PICK n \in 1 .. Len(L) : n = 1
    OBVIOUS
  <1>2. \A i \in 1 .. n - 1 : L[i].kind = "row"
    BY <1>1
  <1>3. \A i \in 1 .. n : L[i].call = s[1].call
    BY <1>2, FirstBlock
  <1> QED BY <1>1, <1>3

\* With the first block gone, the rest is in blocks for the other commands.
LEMMA BlockPopped ==
    ASSUME NEW s \in Seq(Commands), NEW r \in Nat, r <= Len(s), Ordered(s),
           NEW a \in Seq(Lines), NEW b \in Seq(Lines),
           NEW L, L = a \o b, NEW t, t = Tail(s), a # <<>>,
           \A i \in 1 .. Len(a) : (a[i].kind = "row") = (i < Len(a))
    PROVE  InBlocks(L, s, r) => r >= 1 /\ InBlocks(b, t, r - 1)
  <1>0. L \in Seq(Lines) /\ Joined(L, a, b)
    BY JoinFacts
  <1> SUFFICES ASSUME InBlocks(L, s, r) PROVE r >= 1 /\ InBlocks(b, t, r - 1)
    OBVIOUS
  <1>02. PICK n : n = Len(a)
    OBVIOUS
  <1>1. n \in 1 .. Len(L) /\ n \in 1 .. n /\ n >= 1
    BY <1>0, <1>02 DEF Joined
  <1>2. L[n].kind # "row" /\ \A i \in 1 .. n - 1 : L[i].kind = "row"
    BY <1>0, <1>02, <1>1 DEF Joined
  <1>3. /\ r >= 1
        /\ \A i \in 1 .. n : L[i].call = s[1].call /\ Fits[L[i].kind] = s[1].type
    <2>1. L \in Seq(Lines)
      BY <1>0 DEF Joined
    <2> QED BY <1>1, <1>2, <2>1, FirstBlock
  <1>4. s # <<>> /\ s[1].call \in Nat
    BY <1>3, CommandFacts
  <1>5. /\ Len(t) = Len(s) - 1
        /\ \A p \in 1 .. r - 1 : p + 1 \in 1 .. r /\ t[p] = s[p + 1]
    <2>1. Len(t) = Len(s) - 1 /\ \A i \in 1 .. Len(t) : t[i] = s[i + 1]
      BY <1>4, HeadTailProperties
    <2> QED BY <2>1
  <1>6. /\ \A i \in 1 .. Len(L) : L[i].call \in Nat
        /\ \A p \in 1 .. Len(s) : s[p].call \in Nat
    BY <1>0, <1>02, LineFacts, CommandFacts DEF Joined
  <1>7. \A i \in 1 .. Len(b) : \E p \in 1 .. r - 1 :
           b[i].call = t[p].call /\ Fits[b[i].kind] = t[p].type
    <2> TAKE i \in 1 .. Len(b)
    <2>1. /\ n + i \in 1 .. Len(L) /\ L[n + i] = b[i]
          /\ n < n + i
      <3>1. n + i \in 1 .. Len(L) /\ L[n + i] = b[i]
        BY <1>0, <1>02 DEF Joined
      <3>2. n < n + i
        BY <1>1
      <3> QED BY <3>1, <3>2
    <2>2. PICK p \in 1 .. r : b[i].call = s[p].call /\ Fits[b[i].kind] = s[p].type
      BY <2>1 DEF InBlocks, Owned
    <2>3. s[1].call < b[i].call
      BY <1>1, <1>2, <1>3, <2>1 DEF InBlocks, Ended
    <2>4. p # 1
      BY <1>4, <2>2, <2>3
    <2>5. p - 1 \in 1 .. r - 1 /\ t[p - 1] = s[p]
      BY <1>5, <2>4
    <2> QED BY <2>2, <2>5
  <1>8. \A i, j \in 1 .. Len(b) : i < j => b[i].call <= b[j].call
    <2> TAKE i, j \in 1 .. Len(b)
    <2>1. n + i \in 1 .. Len(L) /\ n + j \in 1 .. Len(L) /\ (i < j => n + i < n + j)
      BY <1>0, <1>02 DEF Joined
    <2>2. i < j => L[n + i].call <= L[n + j].call
      BY <2>1 DEF InBlocks, InOrder
    <2> QED BY <1>0, <1>02, <2>2 DEF Joined
  <1>9. \A i, j \in 1 .. Len(b) : i < j /\ b[i].kind # "row" => b[i].call < b[j].call
    <2> TAKE i, j \in 1 .. Len(b)
    <2>1. n + i \in 1 .. Len(L) /\ n + j \in 1 .. Len(L) /\ (i < j => n + i < n + j)
      BY <1>0, <1>02 DEF Joined
    <2>2. i < j /\ L[n + i].kind # "row" => L[n + i].call < L[n + j].call
      BY <2>1 DEF InBlocks, Ended
    <2> QED BY <1>0, <1>02, <2>2 DEF Joined
  <1>10. \A p \in 1 .. r - 1 : \E i \in 1 .. Len(b) :
            b[i].call = t[p].call /\ b[i].kind # "row"
    <2> TAKE p \in 1 .. r - 1
    <2>1. PICK i \in 1 .. Len(L) : L[i].call = s[p + 1].call /\ L[i].kind # "row"
      BY <1>5 DEF InBlocks, Whole
    <2>2. s[1].call < s[p + 1].call
      BY <1>3, <1>5 DEF Ordered
    <2>3. i \notin 1 .. n
      BY <1>3, <1>6, <2>1, <2>2
    <2>4. i - n \in 1 .. Len(b) /\ L[i] = b[i - n]
      BY <1>0, <1>02, <2>3 DEF Joined
    <2> QED BY <1>5, <2>1, <2>4
  <1> QED BY <1>3, <1>7, <1>8, <1>9, <1>10 DEF InBlocks, Owned, InOrder, Ended, Whole

\* A reply to the next command is the next block.
LEMMA BlockAdded ==
    ASSUME NEW s \in Seq(Commands), NEW r \in Nat, r + 1 <= Len(s), Ordered(s),
           NEW L \in Seq(Lines), InBlocks(L, s, r),
           NEW b \in Seq(Lines), b # <<>>,
           \A i \in 1 .. Len(b) : /\ b[i].call = s[r + 1].call
                                  /\ Fits[b[i].kind] = s[r + 1].type
                                  /\ (b[i].kind = "row") = (i < Len(b)),
           NEW M, M = L \o b
    PROVE  InBlocks(M, s, r + 1)
  <1>0. M \in Seq(Lines) /\ Joined(M, L, b)
    BY JoinFacts
  <1>1. /\ \A i \in 1 .. Len(M) : M[i].call \in Nat
        /\ \A p \in 1 .. Len(s) : s[p].call \in Nat
        /\ \A p \in 1 .. r : p \in 1 .. Len(s) /\ s[p].call < s[r + 1].call
        /\ r + 1 \in 1 .. r + 1 /\ \A p \in 1 .. r : p \in 1 .. r + 1
    <2>1. /\ \A i \in 1 .. Len(M) : M[i].call \in Nat
          /\ \A p \in 1 .. Len(s) : s[p].call \in Nat
      BY <1>0, LineFacts, CommandFacts
    <2>2. /\ r + 1 \in 1 .. r + 1 /\ r + 1 \in 1 .. Len(s)
          /\ \A p \in 1 .. r : p \in 1 .. r + 1 /\ p \in 1 .. Len(s) /\ p < r + 1
      <3>1. Len(s) \in Nat
        OBVIOUS
      <3> QED BY <3>1
    <2>3. \A p \in 1 .. r : s[p].call < s[r + 1].call
      BY <2>2 DEF Ordered
    <2> QED BY <2>1, <2>2, <2>3
  <1>2. \A i \in 1 .. Len(L) : M[i].call < s[r + 1].call
    <2> TAKE i \in 1 .. Len(L)
    <2>1. PICK p \in 1 .. r : L[i].call = s[p].call
      BY DEF InBlocks, Owned
    <2> QED BY <1>0, <1>1, <2>1 DEF Joined
  <1>3. \A i \in 1 .. Len(M) : i \notin 1 .. Len(L) =>
           /\ M[i].call = s[r + 1].call /\ Fits[M[i].kind] = s[r + 1].type
           /\ M[i].kind # "row" => i = Len(M)
    <2> SUFFICES ASSUME NEW i \in 1 .. Len(M), i \notin 1 .. Len(L)
                 PROVE  /\ M[i].call = s[r + 1].call /\ Fits[M[i].kind] = s[r + 1].type
                        /\ M[i].kind # "row" => i = Len(M)
      OBVIOUS
    <2>1. i - Len(L) \in 1 .. Len(b) /\ M[i] = b[i - Len(L)]
      BY <1>0 DEF Joined
    <2>2. /\ M[i].call = s[r + 1].call /\ Fits[M[i].kind] = s[r + 1].type
          /\ M[i].kind # "row" => ~(i - Len(L) < Len(b))
      BY <2>1
    <2>3. i - Len(L) = Len(b) => i = Len(M)
      BY <1>0 DEF Joined
    <2> QED BY <2>1, <2>2, <2>3
  <1>4. \A i \in 1 .. Len(M) : \E p \in 1 .. r + 1 :
           M[i].call = s[p].call /\ Fits[M[i].kind] = s[p].type
    <2> TAKE i \in 1 .. Len(M)
    <2>1. CASE i \in 1 .. Len(L)
      <3>1. PICK p \in 1 .. r : L[i].call = s[p].call /\ Fits[L[i].kind] = s[p].type
        BY <2>1 DEF InBlocks, Owned
      <3> QED BY <1>0, <1>1, <2>1, <3>1 DEF Joined
    <2>2. CASE i \notin 1 .. Len(L)
      BY <1>1, <1>3, <2>2
    <2> QED BY <2>1, <2>2
  <1>5. ASSUME NEW i \in 1 .. Len(M), NEW j \in 1 .. Len(M), i < j
        PROVE  M[i].call <= M[j].call /\ (M[i].kind # "row" => M[i].call < M[j].call)
    <2>1. CASE j \in 1 .. Len(L)
      <3>1. i \in 1 .. Len(L)
        BY <1>0, <1>5, <2>1 DEF Joined
      <3>2. L[i].call <= L[j].call /\ (L[i].kind # "row" => L[i].call < L[j].call)
        BY <1>5, <2>1, <3>1 DEF InBlocks, InOrder, Ended
      <3> QED BY <1>0, <2>1, <3>1, <3>2 DEF Joined
    <2>2. CASE j \notin 1 .. Len(L) /\ i \in 1 .. Len(L)
      BY <1>1, <1>2, <1>3, <2>2
    <2>3. CASE j \notin 1 .. Len(L) /\ i \notin 1 .. Len(L)
      <3>1. i # Len(M)
        BY <1>5, <1>0 DEF Joined
      <3> QED BY <1>1, <1>3, <2>3, <3>1
    <2> QED BY <2>1, <2>2, <2>3
  <1>6. \A p \in 1 .. r + 1 : \E i \in 1 .. Len(M) :
           M[i].call = s[p].call /\ M[i].kind # "row"
    <2> TAKE p \in 1 .. r + 1
    <2>1. CASE p \in 1 .. r
      <3>1. PICK i \in 1 .. Len(L) : L[i].call = s[p].call /\ L[i].kind # "row"
        BY <2>1 DEF InBlocks, Whole
      <3> QED BY <1>0, <3>1 DEF Joined
    <2>2. CASE p = r + 1
      <3>1. Len(b) \in 1 .. Len(b) /\ ~(Len(b) < Len(b))
        BY <1>0 DEF Joined
      <3>2. /\ Len(L) + Len(b) \in 1 .. Len(M)
            /\ M[Len(L) + Len(b)] = b[Len(b)]
            /\ b[Len(b)].call = s[r + 1].call /\ b[Len(b)].kind # "row"
        BY <1>0, <3>1 DEF Joined
      <3> QED BY <2>2, <3>2
    <2> QED BY <2>1, <2>2
  <1> QED BY <1>4, <1>5, <1>6 DEF InBlocks, Owned, InOrder, Ended, Whole

-----------------------------------------------------------------------------
(***************************************************************************)
(* Reading.                                                                *)
(***************************************************************************)

\* What a line is read as says what kind of line it is.
LEMMA ReadsOf ==
    ASSUME NEW m \in Lines, sentCommands \in Seq(Commands)
    PROVE  /\ Reads(m) \in {"row", "response", "raises"}
           /\ Reads(m) = "row" => m.kind = "row" /\ Oldest = "status"
           /\ Reads(m) = "response" /\ Fits[m.kind] = Oldest => m.kind # "row"
           /\ Fits[m.kind] = "status" => m.kind \in {"row", "end"}
           /\ m.kind = "end" => Fits[m.kind] = "status"
  <1>1. m.kind \in Kinds
    BY DEF Lines
  <1>2. sentCommands # <<>> => Oldest \in Types
    <2>1. sentCommands # <<>> => 1 \in 1 .. Len(sentCommands)
      OBVIOUS
    <2> QED BY <2>1, CommandFacts DEF Oldest
  <1>3. CASE m.kind = "echo"
    BY <1>3 DEF Reads, Fits
  <1>4. CASE m.kind # "echo" /\ sentCommands = <<>>
    <2>1. Reads(m) = "raises"
      BY <1>4 DEF Reads
    <2> QED BY <1>1, <2>1 DEF Fits, Kinds
  <1>5. CASE m.kind # "echo" /\ sentCommands # <<>>
    <2>1. Reads(m) = CASE Oldest = "version"  -> "response"
             [] Oldest = "status"   -> IF Py3 THEN "raises"
                                       ELSE IF m.kind = "row" THEN "row"
                                       ELSE IF m.kind = "end" THEN "response" ELSE "raises"
             [] Oldest = "maxqueue" -> IF m.kind = "OK" /\ ~Py3 THEN "response"
                                       ELSE "raises"
             [] Oldest = "echo"     -> "raises"
      BY <1>5 DEF Reads
    <2> QED BY <1>1, <1>2, <1>5, <2>1 DEF Fits, Kinds, Types
  <1> QED BY <1>3, <1>4, <1>5

\* fetch_commands takes rows, and one line more that is not a row if there is one.
LEMMA FetchFacts ==
    ASSUME NEW queue \in Seq(Lines), queue # <<>>, partial \in Seq(Lines)
    PROVE  \E n \in 1 .. Len(queue) :
              /\ queue[n] \in Lines
              /\ \A i \in 1 .. n - 1 : Reads(queue[i]) = "row"
              /\ Reads(queue[n]) = "row" => n = Len(queue)
              /\ Fetch(queue).left = SubSeq(queue, n + 1, Len(queue))
              /\ Fetch(queue).raised = (Reads(queue[n]) = "raises")
              /\ \E rows : /\ rows = partial \o SubSeq(queue, 1,
                                      IF Reads(queue[n]) = "row" THEN n ELSE n - 1)
                           /\ Fetch(queue).partial = RowsAfter(rows, queue[n])
                           /\ Fetch(queue).responses = Responses(rows, queue[n])
  <1> DEFINE stops == Stops(queue)
  <1>0. Len(queue) \in Nat /\ Len(queue) >= 1 /\ DOMAIN queue = 1 .. Len(queue)
        /\ \A i \in 1 .. Len(queue) : queue[i] \in Lines
    OBVIOUS
  <1>1. stops = {i \in 1 .. Len(queue) : Reads(queue[i]) # "row"}
    BY <1>0 DEF Stops
  <1>2. CASE stops = {}
    <2>1. Len(queue) \in 1 .. Len(queue)
      BY <1>0
    <2>2. \A i \in 1 .. Len(queue) : Reads(queue[i]) = "row"
      BY <1>1, <1>2
    <2>3. /\ Fetch(queue).left = SubSeq(queue, Len(queue) + 1, Len(queue))
          /\ Fetch(queue).partial = RowsAfter(partial \o SubSeq(queue, 1, Len(queue)),
                                              queue[Len(queue)])
          /\ Fetch(queue).responses = Responses(partial \o SubSeq(queue, 1, Len(queue)),
                                                queue[Len(queue)])
          /\ Fetch(queue).raised = (Reads(queue[Len(queue)]) = "raises")
      BY <1>2 DEF Fetch
    <2>4. \E rows : /\ rows = partial \o SubSeq(queue, 1,
                             IF Reads(queue[Len(queue)]) = "row" THEN Len(queue)
                             ELSE Len(queue) - 1)
                   /\ Fetch(queue).partial = RowsAfter(rows, queue[Len(queue)])
                   /\ Fetch(queue).responses = Responses(rows, queue[Len(queue)])
      BY <2>1, <2>2, <2>3
    <2>5. \A i \in 1 .. Len(queue) - 1 : i \in 1 .. Len(queue)
      BY <1>0
    <2> WITNESS Len(queue) \in 1 .. Len(queue)
    <2> QED BY <1>0, <2>1, <2>2, <2>3, <2>4, <2>5
  <1>3. CASE stops # {}
    <2> DEFINE n == CHOOSE i \in stops : \A j \in stops : i <= j
    <2>0. stops \in SUBSET Nat
      BY <1>0, <1>1
    <2>1. \E i \in stops : \A j \in stops : i <= j
      <3> HIDE DEF stops
      <3> QED BY <1>3, <2>0, Smallest
    <2>2. n \in stops /\ \A j \in stops : n <= j
      <3> HIDE DEF stops
      <3> QED BY <2>1
    <2>3. /\ Fetch(queue).left = SubSeq(queue, n + 1, Len(queue))
          /\ Fetch(queue).partial = RowsAfter(partial \o SubSeq(queue, 1, n - 1), queue[n])
          /\ Fetch(queue).responses = Responses(partial \o SubSeq(queue, 1, n - 1), queue[n])
          /\ Fetch(queue).raised = (Reads(queue[n]) = "raises")
      BY <1>3 DEF Fetch
    <2> HIDE DEF n
    <2>4. n \in 1 .. Len(queue) /\ Reads(queue[n]) # "row"
      BY <1>1, <2>2
    <2>5. \A i \in 1 .. n - 1 : Reads(queue[i]) = "row"
      BY <1>0, <1>1, <2>2, <2>4
    <2> QED BY <1>0, <2>3, <2>4, <2>5
  <1> QED BY <1>2, <1>3

\* The line that follows what was taken is taken too.
LEMMA TakenOneMore ==
    ASSUME NEW S, NEW p \in Seq(S), NEW q \in Seq(S), NEW n \in 1 .. Len(q)
    PROVE  Append(p \o SubSeq(q, 1, n - 1), q[n]) = p \o SubSeq(q, 1, n)
  <1>0. q[n] \in S /\ n - 1 \in 0 .. Len(q) /\ n \in 0 .. Len(q) /\ n \in Nat
    OBVIOUS
  <1>1. PICK a : a = SubSeq(q, 1, n - 1)
    OBVIOUS
  <1>2. PICK b : b = SubSeq(q, 1, n)
    OBVIOUS
  <1>3. a \in Seq(S) /\ Len(a) = n - 1 /\ \A i \in 1 .. n - 1 : a[i] = q[i]
    BY <1>0, <1>1, SplitFacts
  <1>4. b \in Seq(S) /\ Len(b) = n /\ \A i \in 1 .. n : b[i] = q[i]
    BY <1>0, <1>2, SplitFacts
  <1>5. Append(a, q[n]) = b
    <2>1. /\ Append(a, q[n]) \in Seq(S)
          /\ Len(Append(a, q[n])) = Len(a) + 1
          /\ \A i \in 1 .. Len(a) : Append(a, q[n])[i] = a[i]
          /\ Append(a, q[n])[Len(a) + 1] = q[n]
      BY <1>0, <1>3, AppendProperties
    <2>2. PICK c : c = Append(a, q[n])
      OBVIOUS
    <2>3. /\ c \in Seq(S) /\ Len(c) = n /\ c[n] = q[n]
          /\ \A i \in 1 .. n - 1 : c[i] = q[i]
      BY <1>0, <1>3, <2>1, <2>2
    <2>4. \A i \in 1 .. n : c[i] = b[i]
      <3> TAKE i \in 1 .. n
      <3>1. b[i] = q[i]
        BY <1>4
      <3>2. CASE i = n
        BY <2>3, <3>1, <3>2
      <3>3. CASE i # n
        <4>1. i \in 1 .. n - 1
          BY <1>0, <3>3
        <4> QED BY <2>3, <3>1, <4>1
      <3> QED BY <3>2, <3>3
    <2> QED BY <1>4, <2>2, <2>3, <2>4, SeqEqual
  <1>6. Append(p \o a, q[n]) = p \o Append(a, q[n])
    <2>0. PICK y \in S : y = q[n]
      BY <1>0
    <2>02. <<y>> \in Seq(S)
      OBVIOUS
    <2>1. PICK e \in Seq(S) : e = <<q[n]>>
      BY <2>0, <2>02
    <2>2. PICK u \in Seq(S) : u = p \o a
      BY <1>3, ConcatProperties
    <2>3. Append(u, q[n]) = u \o e /\ Append(a, q[n]) = a \o e
      BY <1>0, <1>3, <2>1, AppendIsConcat
    <2>4. PICK v, w, x : v = u \o e /\ w = a \o e /\ x = p \o w
      OBVIOUS
    <2>5. Joined(u, p, a)
      BY <1>3, <2>2, JoinFacts
    <2>6. v \in Seq(S) /\ Joined(v, u, e) /\ w \in Seq(S) /\ Joined(w, a, e)
      BY <1>3, <2>4, JoinFacts
    <2>7. x \in Seq(S) /\ Joined(x, p, w)
      BY <2>4, <2>6, JoinFacts
    <2>8. v = x
      BY <1>3, <2>5, <2>6, <2>7, JoinAssociative
    <2> QED BY <2>2, <2>3, <2>4, <2>8
  <1> QED BY <1>1, <1>2, <1>5, <1>6

\* A read that does not raise moves lines on and drops none: what the caller is given
\* is the rows that were collected and the line that ends them, a block.
LEMMA FetchTakes ==
    ASSUME TypeOK, Polling, Sends, Parts, InBlocks(Unused, sentCommands, Replied),
           NEW k \in 1 .. Len(inbound),
           NEW q \in Seq(Lines), Joined(q, incoming, SubSeq(inbound, 1, k)),
           ~Fetch(q).raised
    PROVE  \E took \in Seq(Lines), rest \in Seq(Lines), left \in Seq(Lines),
              after \in Seq(Lines) :
              /\ rest = SubSeq(inbound, k + 1, Len(inbound))
              /\ left = Fetch(q).left
              /\ after = left \o rest
              /\ Unused = took \o after
              /\ \/ /\ Fetch(q).responses = <<>>
                    /\ Fetch(q).partial = took
                    /\ \A i \in 1 .. Len(took) : took[i].kind = "row"
                 \/ /\ Fetch(q).responses = <<took>>
                    /\ Fetch(q).partial = <<>>
                    /\ took # <<>>
                    /\ \A i \in 1 .. Len(took) : (took[i].kind = "row") = (i < Len(took))
  <1>1. /\ recvResponses = <<>> /\ Response = <<>>
        /\ sentCommands \in Seq(Commands) /\ partial \in Seq(Lines)
        /\ incoming \in Seq(Lines) /\ inbound \in Seq(Lines)
    BY DEF TypeOK, Polling, Response
  <1>2. PICK fst, rest : /\ fst = SubSeq(inbound, 1, k)
                         /\ rest = SubSeq(inbound, k + 1, Len(inbound))
    OBVIOUS
  <1>3. /\ fst \in Seq(Lines) /\ rest \in Seq(Lines) /\ Len(fst) = k
        /\ inbound = fst \o rest
    <2>1. k \in 0 .. Len(inbound)
      OBVIOUS
    <2> QED BY <1>1, <1>2, <2>1, SplitFacts
  <1>4. q \in Seq(Lines) /\ Joined(q, incoming, fst)
    BY <1>2
  <1>5. q # <<>> /\ Len(q) \in Nat
    <2>1. Len(q) = Len(incoming) + k /\ Len(incoming) \in Nat /\ Len(q) \in Nat
      BY <1>3, <1>4 DEF Joined
    <2>2. k >= 1 /\ k \in Int
      OBVIOUS
    <2>3. Len(q) # 0
      BY <2>1, <2>2
    <2> QED BY <2>1, <2>3
  <1>6. PICK n \in 1 .. Len(q) :
           /\ q[n] \in Lines
           /\ \A i \in 1 .. n - 1 : Reads(q[i]) = "row"
           /\ Reads(q[n]) = "row" => n = Len(q)
           /\ Fetch(q).left = SubSeq(q, n + 1, Len(q))
           /\ Fetch(q).raised = (Reads(q[n]) = "raises")
           /\ \E rows : /\ rows = partial \o SubSeq(q, 1,
                                   IF Reads(q[n]) = "row" THEN n ELSE n - 1)
                        /\ Fetch(q).partial = RowsAfter(rows, q[n])
                        /\ Fetch(q).responses = Responses(rows, q[n])
    BY <1>1, <1>4, <1>5, FetchFacts
  <1>7. PICK a, b : a = SubSeq(q, 1, n) /\ b = SubSeq(q, n + 1, Len(q))
    OBVIOUS
  <1>8. /\ a \in Seq(Lines) /\ b \in Seq(Lines) /\ Len(a) = n
        /\ \A i \in 1 .. n : a[i] = q[i]
        /\ q = a \o b
        /\ n = Len(q) => b = <<>>
    <2>1. n \in 0 .. Len(q)
      BY <1>5
    <2> QED BY <1>4, <1>7, <2>1, SplitFacts
  <1>9. PICK pa, br, U : pa = partial \o a /\ br = b \o rest /\ U = pa \o br
    OBVIOUS
  <1>10. pa \in Seq(Lines) /\ br \in Seq(Lines) /\ Joined(pa, partial, a)
         /\ Joined(br, b, rest)
    BY <1>1, <1>3, <1>8, <1>9, JoinFacts
  <1>11. U \in Seq(Lines) /\ Joined(U, pa, br)
    BY <1>9, <1>10, JoinFacts
  <1>12. Unused = U
    <2>1. PICK qr, ii, w : /\ qr = q \o rest /\ ii = incoming \o inbound
                           /\ w = partial \o qr
      OBVIOUS
    <2>2. /\ qr \in Seq(Lines) /\ Joined(qr, q, rest)
          /\ ii \in Seq(Lines) /\ Joined(ii, incoming, inbound)
          /\ Joined(inbound, fst, rest) /\ Joined(q, a, b)
      BY <1>1, <1>3, <1>4, <1>8, <2>1, JoinFacts
    <2>3. w \in Seq(Lines) /\ Joined(w, partial, qr)
      BY <1>1, <2>1, <2>2, JoinFacts
    <2>4. qr = ii
      <3>1. fst \in Seq(Lines) /\ rest \in Seq(Lines)
        BY <1>3
      <3> QED BY <1>1, <1>4, <2>2, <3>1, JoinAssociative
    <2>5. U = w
      <3>1. /\ partial \in Seq(Lines) /\ a \in Seq(Lines) /\ b \in Seq(Lines)
            /\ rest \in Seq(Lines)
        BY <1>1, <1>3, <1>8
      <3>2. PICK x : x = a \o br
        OBVIOUS
      <3>3. x \in Seq(Lines) /\ Joined(x, a, br)
        BY <1>10, <3>1, <3>2, JoinFacts
      <3>4. q \in Seq(Lines) /\ Joined(q, a, b) /\ qr \in Seq(Lines) /\ Joined(qr, q, rest)
        BY <1>4, <2>2
      <3>5. qr = x
        BY <1>10, <3>1, <3>3, <3>4, JoinAssociative
      <3>6. Joined(w, partial, x)
        BY <2>3, <3>5
      <3> QED BY <1>10, <1>11, <2>3, <3>1, <3>3, <3>6, JoinAssociative
    <2>6. <<>> \o w = w
      BY <2>3, ConcatEmptySeq
    <2> QED BY <1>1, <2>1, <2>4, <2>5, <2>6 DEF Unused
  <1>13. \A i \in 1 .. Len(partial) : partial[i].kind = "row"
    BY DEF Parts
  <1>14. /\ Len(partial) \in Nat /\ Len(pa) = Len(partial) + n /\ n \in Nat /\ n >= 1
         /\ \A i \in 1 .. Len(partial) : pa[i] = partial[i]
         /\ \A i \in 1 .. n : pa[Len(partial) + i] = q[i]
         /\ \A i \in 1 .. Len(pa) :
               i \in 1 .. Len(partial) \/ i - Len(partial) \in 1 .. n
    <2>1. n \in Nat /\ n >= 1
      BY <1>5
    <2> QED BY <1>8, <1>10, <2>1 DEF Joined
  <1>15. \A i \in 1 .. n - 1 : q[i].kind = "row" /\ Oldest = "status"
    <2> TAKE i \in 1 .. n - 1
    <2>1. q[i] \in Lines /\ Reads(q[i]) = "row"
      BY <1>4, <1>6
    <2> QED BY <1>1, <2>1, ReadsOf
  <1>16. \A i \in 1 .. Len(pa) - 1 : pa[i].kind = "row"
    <2> TAKE i \in 1 .. Len(pa) - 1
    <2>1. CASE i \in 1 .. Len(partial)
      BY <1>13, <1>14, <2>1
    <2>2. CASE i \notin 1 .. Len(partial)
      <3>1. i - Len(partial) \in 1 .. n - 1 /\ Len(partial) + (i - Len(partial)) = i
            /\ i - Len(partial) \in 1 .. n
        BY <1>14, <2>2
      <3> QED BY <1>14, <1>15, <3>1
    <2> QED BY <2>1, <2>2
  <1>17. pa[Len(pa)] = q[n] /\ Len(pa) \in Nat /\ Len(pa) >= 1
    BY <1>14
  <1>18. Fetch(q).left = b
    BY <1>6, <1>7
  <1>19. CASE Reads(q[n]) = "row"
    <2>1. q[n].kind = "row"
      BY <1>1, <1>6, <1>19, ReadsOf
    <2>2. PICK rows : /\ rows = partial \o a
                      /\ Fetch(q).partial = RowsAfter(rows, q[n])
                      /\ Fetch(q).responses = Responses(rows, q[n])
      BY <1>6, <1>7, <1>19
    <2>3. Fetch(q).partial = pa /\ Fetch(q).responses = <<>>
      BY <1>9, <1>19, <2>1, <2>2 DEF RowsAfter, Responses
    <2>4. \A i \in 1 .. Len(pa) : pa[i].kind = "row"
      <3> TAKE i \in 1 .. Len(pa)
      <3>1. i = Len(pa) \/ i \in 1 .. Len(pa) - 1
        BY <1>17
      <3> QED BY <1>16, <1>17, <2>1, <3>1
    <2> QED BY <1>2, <1>3, <1>8, <1>9, <1>10, <1>11, <1>12, <1>18, <2>3, <2>4
  <1>20. CASE Reads(q[n]) # "row"
    <2>1. Reads(q[n]) = "response"
      <3>1. Reads(q[n]) # "raises"
        BY <1>6
      <3>2. Reads(q[n]) \in {"row", "response", "raises"}
        BY <1>1, <1>6, ReadsOf
      <3> QED BY <1>20, <3>1, <3>2
    <2>2. PICK rows : /\ rows = partial \o SubSeq(q, 1, n - 1)
                      /\ Fetch(q).partial = RowsAfter(rows, q[n])
                      /\ Fetch(q).responses = Responses(rows, q[n])
      BY <1>6, <1>20
    <2>3. Append(rows, q[n]) = pa
      <3>1. Append(partial \o SubSeq(q, 1, n - 1), q[n]) = partial \o SubSeq(q, 1, n)
        BY <1>1, <1>4, TakenOneMore
      <3> QED BY <1>7, <1>9, <2>2, <3>1
    <2>4. /\ \A i \in 1 .. Len(pa) : i \in 1 .. Len(U) /\ U[i] = pa[i]
          /\ Len(pa) \in 1 .. Len(U)
          /\ \A i \in 1 .. Len(pa) - 1 : U[i].kind = "row"
      <3>1. \A i \in 1 .. Len(pa) : i \in 1 .. Len(U) /\ U[i] = pa[i]
        BY <1>11 DEF Joined
      <3>2. Len(pa) \in 1 .. Len(pa) /\ \A i \in 1 .. Len(pa) - 1 : i \in 1 .. Len(pa)
        BY <1>17
      <3> QED BY <1>16, <3>1, <3>2
    <2>5. \A i \in 1 .. Len(pa) : Fits[pa[i].kind] = Oldest
      <3>1. Replied \in Nat /\ Replied <= Len(sentCommands) /\ Ordered(sentCommands)
        BY DEF Sends, Replied, TypeOK
      <3>2. InBlocks(U, sentCommands, Replied)
        BY <1>12
      <3>3. \A i \in 1 .. Len(pa) : Fits[U[i].kind] = sentCommands[1].type
        BY <1>1, <1>11, <2>4, <3>1, <3>2, FirstBlock
      <3> QED BY <2>4, <3>3 DEF Oldest
    <2>6. Fits[q[n].kind] = Oldest
      BY <1>17, <2>5
    <2>7. q[n].kind # "row" /\ (Oldest = "status" => q[n].kind = "end")
          /\ (q[n].kind = "end" => Oldest = "status")
      BY <1>1, <1>6, <2>1, <2>6, ReadsOf
    <2>8. \A i \in 1 .. Len(pa) : (pa[i].kind = "row") = (i < Len(pa))
      <3> TAKE i \in 1 .. Len(pa)
      <3>1. i = Len(pa) \/ i \in 1 .. Len(pa) - 1
        BY <1>17
      <3>2. CASE i = Len(pa)
        <4>1. ~(i < Len(pa)) /\ pa[i].kind # "row"
          BY <1>17, <2>7, <3>2
        <4> QED BY <4>1
      <3>3. CASE i # Len(pa)
        <4>1. i < Len(pa) /\ pa[i].kind = "row"
          BY <1>16, <1>17, <3>1, <3>3
        <4> QED BY <4>1
      <3> QED BY <3>2, <3>3
    <2>9. Oldest = "status" => Fetch(q).responses = <<pa>> /\ Fetch(q).partial = <<>>
      BY <2>1, <2>2, <2>3, <2>7 DEF RowsAfter, Responses
    <2>10. ASSUME Oldest # "status"
           PROVE  Fetch(q).responses = <<pa>> /\ Fetch(q).partial = <<>>
      <3>1. Len(pa) = 1
        <4>0. Len(pa) \in Nat /\ Len(pa) >= 1
          BY <1>17
        <4>1. CASE Len(pa) > 1
          <5>1. 1 \in 1 .. Len(pa) - 1 /\ 1 \in 1 .. Len(pa)
            BY <1>17, <4>1
          <5>2. pa[1].kind = "row" /\ Fits[pa[1].kind] = Oldest
            BY <1>16, <2>5, <5>1
          <5> QED BY <2>10, <5>2 DEF Fits
        <4>2. CASE ~(Len(pa) > 1)
          <5>1. PICK l \in Nat : l = Len(pa)
            BY <4>0
          <5>2. l = 1
            BY <4>0, <4>2, <5>1
          <5> QED BY <5>1, <5>2
        <4> QED BY <4>1, <4>2
      <3>2. Len(partial) = 0 /\ n = 1
        <4>1. PICK l \in Nat, m \in Nat : l = Len(partial) /\ m = n /\ m >= 1
          BY <1>14
        <4>2. 1 = l + m
          BY <1>14, <3>1, <4>1
        <4>3. l = 0 /\ m = 1
          BY <4>1, <4>2
        <4> QED BY <4>1, <4>3
      <3>3. partial = <<>> /\ SubSeq(q, 1, n - 1) = <<>>
        BY <1>1, <3>2
      <3>4. rows = <<>>
        BY <2>2, <3>3
      <3>5. pa = <<q[n]>>
        BY <2>3, <3>4
      <3> QED BY <2>1, <2>2, <2>7, <2>10, <3>4, <3>5 DEF RowsAfter, Responses
    <2>11. pa # <<>>
      BY <1>17
    <2> QED BY <1>2, <1>3, <1>8, <1>9, <1>10, <1>11, <1>12, <1>18, <2>8, <2>9, <2>10, <2>11
  <1> QED BY <1>19, <1>20

-----------------------------------------------------------------------------
(***************************************************************************)
(* What the variables hold, and that there is a response only for a call   *)
(* that waits.                                                             *)
(***************************************************************************)

\* What fetch_commands leaves and makes are sequences of lines.
LEMMA FetchTyped ==
    ASSUME NEW q \in Seq(Lines), q # <<>>, partial \in Seq(Lines)
    PROVE  /\ Fetch(q).left \in Seq(Lines) /\ Fetch(q).partial \in Seq(Lines)
           /\ Fetch(q).responses \in Seq(Seq(Lines))
           /\ Len(Fetch(q).responses) <= 1
           /\ Fetch(q).raised => Fetch(q).responses = <<>>
           /\ Fetch(q).raised \in BOOLEAN
  <1>1. PICK n \in 1 .. Len(q) :
           /\ q[n] \in Lines
           /\ Fetch(q).left = SubSeq(q, n + 1, Len(q))
           /\ Fetch(q).raised = (Reads(q[n]) = "raises")
           /\ \E rows : /\ rows = partial \o SubSeq(q, 1,
                                   IF Reads(q[n]) = "row" THEN n ELSE n - 1)
                        /\ Fetch(q).partial = RowsAfter(rows, q[n])
                        /\ Fetch(q).responses = Responses(rows, q[n])
    BY FetchFacts
  <1>2. PICK m \in 0 .. Len(q) : m = IF Reads(q[n]) = "row" THEN n ELSE n - 1
    OBVIOUS
  <1>3. n \in 0 .. Len(q)
    OBVIOUS
  <1>4. SubSeq(q, 1, m) \in Seq(Lines) /\ SubSeq(q, n + 1, Len(q)) \in Seq(Lines)
    BY <1>3, SplitFacts
  <1>5. PICK rows \in Seq(Lines) : /\ Fetch(q).partial = RowsAfter(rows, q[n])
                                   /\ Fetch(q).responses = Responses(rows, q[n])
    BY <1>1, <1>2, <1>4, ConcatProperties
  <1>6. RowsAfter(rows, q[n]) \in Seq(Lines)
    BY DEF RowsAfter
  <1>7. Append(rows, q[n]) \in Seq(Lines) /\ <<q[n]>> \in Seq(Lines)
    BY <1>1
  <1>8. /\ Responses(rows, q[n]) \in Seq(Seq(Lines))
        /\ Len(Responses(rows, q[n])) <= 1
        /\ Reads(q[n]) = "raises" => Responses(rows, q[n]) = <<>>
    <2>1. PICK r1 \in Seq(Lines), r2 \in Seq(Lines) :
             r1 = Append(rows, q[n]) /\ r2 = <<q[n]>>
      BY <1>7
    <2>2. Responses(rows, q[n]) = IF Reads(q[n]) # "response" THEN <<>>
                                  ELSE IF q[n].kind = "end" /\ Oldest = "status" THEN <<r1>>
                                  ELSE <<r2>>
      BY <2>1 DEF Responses
    <2>3. PICK R : R = Responses(rows, q[n])
      OBVIOUS
    <2>4. R = <<>> \/ R = <<r1>> \/ R = <<r2>>
      BY <2>2, <2>3
    <2>5. R \in Seq(Seq(Lines)) /\ Len(R) <= 1
      <3>1. CASE R = <<>>
        BY <3>1
      <3>2. CASE R = <<r1>>
        BY <3>2
      <3>3. CASE R = <<r2>>
        BY <3>3
      <3> QED BY <2>4, <3>1, <3>2, <3>3
    <2>6. Reads(q[n]) = "raises" => R = <<>>
      BY <2>2, <2>3
    <2> QED BY <2>3, <2>5, <2>6
  <1> QED BY <1>1, <1>4, <1>5, <1>6, <1>8

\* The end of a call leaves values of their types.
LEMMA EndsTyped ==
    ASSUME TypeOK, NEW how \in Outcomes, NEW what \in Seq(Lines), Ends(how, what)
    PROVE  /\ waiting' \in Commands \cup {None} /\ outcome' \in Outcomes
           /\ answer' \in Seq(Lines) /\ mishaps' \subseteq {"timeout", "protocol"}
  BY DEF TypeOK, Ends

\* The queue that handle_read takes commands from.
LEMMA QueueFacts ==
    ASSUME TypeOK, NEW k \in 1 .. Len(inbound),
           NEW q, q = incoming \o SubSeq(inbound, 1, k)
    PROVE  /\ q \in Seq(Lines) /\ q # <<>>
           /\ Joined(q, incoming, SubSeq(inbound, 1, k))
           /\ SubSeq(inbound, k + 1, Len(inbound)) \in Seq(Lines)
  <1>1. incoming \in Seq(Lines) /\ inbound \in Seq(Lines) /\ k \in 0 .. Len(inbound)
        /\ k \in Nat /\ k >= 1
    BY DEF TypeOK
  <1>2. PICK a : a = SubSeq(inbound, 1, k)
    OBVIOUS
  <1>3. a \in Seq(Lines) /\ Len(a) = k /\ SubSeq(inbound, k + 1, Len(inbound)) \in Seq(Lines)
    BY <1>1, <1>2, SplitFacts
  <1>4. q \in Seq(Lines) /\ Joined(q, incoming, a)
    BY <1>1, <1>2, <1>3, JoinFacts
  <1>5. q # <<>>
    <2>1. Len(q) = Len(incoming) + k /\ Len(incoming) \in Nat
      BY <1>3, <1>4 DEF Joined
    <2>2. Len(q) # 0
      BY <1>1, <2>1
    <2> QED BY <2>2
  <1> QED BY <1>2, <1>3, <1>4, <1>5

\* A reply is one block.
LEMMA ReplyFacts ==
    ASSUME NEW cmd \in Commands, NEW reply \in Reply(cmd)
    PROVE  /\ reply \in Seq(Lines) /\ reply # <<>>
           /\ \A i \in 1 .. Len(reply) : /\ reply[i].call = cmd.call
                                         /\ Fits[reply[i].kind] = cmd.type
                                         /\ (reply[i].kind = "row") = (i < Len(reply))
  <1> DEFINE Line(kind) == [call |-> cmd.call, kind |-> kind]
  <1>0. cmd.call \in Nat /\ cmd.type \in Types
    BY DEF Commands
  <1>1. \A kind \in Kinds : /\ Line(kind) \in Lines /\ Line(kind).call = cmd.call
                            /\ Line(kind).kind = kind
    BY <1>0 DEF Lines
  <1>2. Reply(cmd) =
           CASE cmd.type = "status"   -> {[i \in 1 .. n + 1 |-> Line(IF i <= n THEN "row" ELSE "end")]
                                             : n \in 0 .. MaxRows}
             [] cmd.type = "version"  -> {<<Line("text")>>}
             [] cmd.type = "maxqueue" -> {<<Line("OK")>>}
                                         \cup (IF MayRefuse THEN {<<Line("ERR")>>} ELSE {})
             [] cmd.type = "echo"     -> {<<Line("echo")>>}
    BY DEF Reply
  <1> HIDE DEF Line
  <1>3. CASE cmd.type = "status"
    <2>1. PICK n \in 0 .. MaxRows :
             reply = [i \in 1 .. n + 1 |-> Line(IF i <= n THEN "row" ELSE "end")]
      BY <1>2, <1>3
    <2>2. n \in Nat /\ n + 1 \in Nat /\ n + 1 >= 1
      BY AdminAssumption
    <2>3. \A i \in 1 .. n + 1 : /\ reply[i] = Line(IF i <= n THEN "row" ELSE "end")
                                /\ (IF i <= n THEN "row" ELSE "end") \in Kinds
      BY <2>1 DEF Kinds
    <2>4. \A i \in 1 .. n + 1 : reply[i] \in Lines
      BY <1>1, <2>3
    <2>5. reply \in Seq(Lines) /\ Len(reply) = n + 1
      <3>1. reply = [i \in 1 .. n + 1 |-> reply[i]]
        BY <2>1
      <3>2. reply \in [1 .. n + 1 -> Lines]
        BY <2>4, <3>1
      <3> QED BY <2>2, <3>2
    <2>6. reply # <<>>
      BY <2>2, <2>5
    <2>7. \A i \in 1 .. n + 1 : (i <= n) = (i < n + 1)
      BY <2>2
    <2>8. \A i \in 1 .. n + 1 : /\ reply[i].call = cmd.call
                                /\ Fits[reply[i].kind] = cmd.type
                                /\ (reply[i].kind = "row") = (i < n + 1)
      <3> TAKE i \in 1 .. n + 1
      <3>1. CASE i <= n
        <4>1. reply[i] = Line("row") /\ "row" \in Kinds
          BY <2>3, <3>1
        <4>2. reply[i].call = cmd.call /\ reply[i].kind = "row"
          BY <1>1, <4>1
        <4>3. (i < n + 1) = TRUE
          BY <2>2, <3>1
        <4> QED BY <1>3, <4>2, <4>3 DEF Fits
      <3>2. CASE ~(i <= n)
        <4>1. reply[i] = Line("end") /\ "end" \in Kinds
          BY <2>3, <3>2
        <4>2. reply[i].call = cmd.call /\ reply[i].kind = "end"
          BY <1>1, <4>1
        <4>3. (i < n + 1) = FALSE
          BY <2>2, <3>2
        <4> QED BY <1>3, <4>2, <4>3 DEF Fits
      <3> QED BY <3>1, <3>2
    <2> QED BY <2>5, <2>6, <2>8
  <1>4. ASSUME NEW kind \in Kinds \ {"row", "end"}, reply = <<Line(kind)>>,
               Fits[kind] = cmd.type
        PROVE  /\ reply \in Seq(Lines) /\ reply # <<>>
               /\ \A i \in 1 .. Len(reply) : /\ reply[i].call = cmd.call
                                             /\ Fits[reply[i].kind] = cmd.type
                                             /\ (reply[i].kind = "row") = (i < Len(reply))
    <2>1. PICK l \in Lines : l = Line(kind) /\ l.call = cmd.call /\ l.kind = kind
      BY <1>1
    <2>2. reply = <<l>>
      BY <1>4, <2>1
    <2>3. reply \in Seq(Lines) /\ Len(reply) = 1 /\ reply[1] = l
      BY <2>2
    <2>4. \A i \in 1 .. Len(reply) : reply[i] = l /\ (i < Len(reply)) = FALSE
      BY <2>3
    <2> QED BY <1>4, <2>1, <2>3, <2>4
  <1>5. CASE cmd.type # "status"
    <2>1. \E kind \in Kinds \ {"row", "end"} :
             reply = <<Line(kind)>> /\ Fits[kind] = cmd.type
      BY <1>0, <1>2, <1>5 DEF Types, Kinds, Fits
    <2> QED BY <1>4, <2>1
  <1> QED BY <1>3, <1>5

\* At the start all is of its type.
LEMMA TypedInit == Init => TypeOK
  <1> SUFFICES ASSUME Init PROVE TypeOK
    OBVIOUS
  <1>1. /\ connected \in BOOLEAN /\ calls \in Nat /\ losses \in Nat
        /\ waiting \in Commands \cup {None} /\ outcome \in Outcomes
        /\ mishaps \subseteq {"timeout", "protocol"}
    BY DEF Init, Outcomes
  <1>2. /\ {sentCommands, outgoing, serverQueue} \subseteq Seq(Commands)
        /\ {partial, incoming, inbound} \subseteq Seq(Lines)
    BY DEF Init
  <1>3. recvResponses \in Seq(Seq(Lines)) /\ answer \in Seq(Lines)
    BY DEF Init
  <1> QED BY <1>1, <1>2, <1>3 DEF TypeOK

\* Every step keeps the types.
LEMMA TypedStep == TypeOK /\ Waited /\ [Next]_vars => TypeOK'
  <1> SUFFICES ASSUME TypeOK, Waited, [Next]_vars PROVE TypeOK'
    OBVIOUS
  <1>0. /\ connected \in BOOLEAN
        /\ sentCommands \in Seq(Commands) /\ outgoing \in Seq(Commands)
        /\ serverQueue \in Seq(Commands)
        /\ partial \in Seq(Lines) /\ incoming \in Seq(Lines) /\ inbound \in Seq(Lines)
        /\ recvResponses \in Seq(Seq(Lines))
        /\ waiting \in Commands \cup {None} /\ outcome \in Outcomes
        /\ answer \in Seq(Lines) /\ mishaps \subseteq {"timeout", "protocol"}
        /\ calls \in Nat /\ losses \in Nat
    BY DEF TypeOK
  <1>1. \A how \in Outcomes, what \in Seq(Lines) : Ends(how, what) =>
           /\ waiting' \in Commands \cup {None} /\ outcome' \in Outcomes
           /\ answer' \in Seq(Lines) /\ mishaps' \subseteq {"timeout", "protocol"}
    BY EndsTyped
  <1>2. /\ {"none", "answered", "timeout", "unexpected", "mismatch", "protocol",
             "unavailable"} \subseteq Outcomes
        /\ <<>> \in Seq(Lines)
    BY DEF Outcomes
  <1>3. ASSUME NEW type \in Types, Call(type) PROVE TypeOK'
    <2>0. calls + 1 \in Nat
      BY <1>0
    <2>02. [call |-> calls + 1, type |-> type] \in Commands
      BY <2>0 DEF Commands
    <2>1. PICK cmd \in Commands : cmd = [call |-> calls + 1, type |-> type]
      BY <2>02
    <2>2. Append(sentCommands, cmd) \in Seq(Commands) /\ <<cmd>> \in Seq(Commands)
          /\ Append(outgoing, cmd) \in Seq(Commands)
      BY <1>0
    <2>3. sentCommands' \in Seq(Commands) /\ outgoing' \in Seq(Commands)
      BY <1>3, <2>1, <2>2 DEF Call
    <2>4. /\ partial' \in Seq(Lines) /\ incoming' \in Seq(Lines) /\ inbound' \in Seq(Lines)
          /\ recvResponses' \in Seq(Seq(Lines)) /\ serverQueue' \in Seq(Commands)
      <3>1. CASE connected
        BY <1>0, <1>3, <3>1 DEF Call
      <3>2. CASE ~connected
        <4>1. /\ partial' = <<>> /\ incoming' = <<>> /\ inbound' = <<>>
              /\ recvResponses' = <<>> /\ serverQueue' = <<>>
          BY <1>3, <3>2 DEF Call
        <4> QED BY <4>1
      <3> QED BY <3>1, <3>2
    <2>5. /\ connected' \in BOOLEAN /\ waiting' \in Commands \cup {None}
          /\ outcome' \in Outcomes /\ answer' \in Seq(Lines)
          /\ mishaps' \subseteq {"timeout", "protocol"}
          /\ calls' \in Nat /\ losses' \in Nat
      BY <1>0, <1>2, <1>3, <2>1 DEF Call
    <2> QED BY <2>3, <2>4, <2>5 DEF TypeOK
  <1>4. CASE CallFails
    <2>1. /\ waiting' \in Commands \cup {None} /\ outcome' \in Outcomes
          /\ answer' \in Seq(Lines) /\ mishaps' \subseteq {"timeout", "protocol"}
      BY <1>1, <1>2, <1>4 DEF CallFails
    <2>2. calls' \in Nat
      BY <1>0, <1>4 DEF CallFails
    <2> QED BY <1>0, <1>4, <2>1, <2>2 DEF CallFails, handlerVars, wireVars, TypeOK
  <1>5. CASE HandleWrite
    <2>1. serverQueue \o outgoing \in Seq(Commands) /\ <<>> \in Seq(Commands)
      BY <1>0, ConcatProperties
    <2> QED BY <1>0, <1>5, <2>1 DEF HandleWrite, handlerVars, callVars, TypeOK
  <1>6. CASE HandleRead
    <2>1. PICK k \in 1 .. Len(inbound) :
             LET f == Fetch(incoming \o SubSeq(inbound, 1, k)) IN
             /\ inbound' = SubSeq(inbound, k + 1, Len(inbound))
             /\ incoming' = f.left
             /\ partial' = f.partial
             /\ recvResponses' = recvResponses \o f.responses
             /\ IF f.raised THEN Ends("protocol", <<>>) ELSE UNCHANGED callVars
      BY <1>6 DEF HandleRead
    <2>2. PICK q : q = incoming \o SubSeq(inbound, 1, k)
      OBVIOUS
    <2>3. q \in Seq(Lines) /\ q # <<>> /\ SubSeq(inbound, k + 1, Len(inbound)) \in Seq(Lines)
      BY <2>2, QueueFacts
    <2>4. /\ Fetch(q).left \in Seq(Lines) /\ Fetch(q).partial \in Seq(Lines)
          /\ Fetch(q).responses \in Seq(Seq(Lines)) /\ Fetch(q).raised \in BOOLEAN
      BY <1>0, <2>3, FetchTyped
    <2>5. recvResponses \o Fetch(q).responses \in Seq(Seq(Lines))
      BY <1>0, <2>4, ConcatProperties
    <2>6. /\ inbound' \in Seq(Lines) /\ incoming' \in Seq(Lines) /\ partial' \in Seq(Lines)
          /\ recvResponses' \in Seq(Seq(Lines))
      BY <2>1, <2>2, <2>3, <2>4, <2>5
    <2>7. /\ waiting' \in Commands \cup {None} /\ outcome' \in Outcomes
          /\ answer' \in Seq(Lines) /\ mishaps' \subseteq {"timeout", "protocol"}
      BY <1>0, <1>1, <1>2, <2>1, <2>2, <2>4 DEF callVars
    <2> QED BY <1>0, <1>6, <2>6, <2>7 DEF HandleRead, TypeOK
  <1>7. CASE Popped
    <2>1. sentCommands # <<>> /\ recvResponses # <<>>
      BY <1>7 DEF Popped, Waited
    <2>2. Tail(sentCommands) \in Seq(Commands) /\ Tail(recvResponses) \in Seq(Seq(Lines))
          /\ Head(recvResponses) \in Seq(Lines)
      BY <1>0, <2>1, HeadTailProperties
    <2>3. /\ waiting' \in Commands \cup {None} /\ outcome' \in Outcomes
          /\ answer' \in Seq(Lines) /\ mishaps' \subseteq {"timeout", "protocol"}
      BY <1>1, <1>2, <1>7, <2>2 DEF Popped
    <2> QED BY <1>0, <1>7, <2>2, <2>3 DEF Popped, wireVars, TypeOK
  <1>8. CASE TimesOut
    BY <1>0, <1>1, <1>2, <1>8 DEF TimesOut, handlerVars, wireVars, TypeOK
  <1>9. CASE LosesConnection
    <2>1. <<>> \in Seq(Commands) /\ losses' \in Nat
      BY <1>0, <1>9 DEF LosesConnection
    <2> QED BY <1>0, <1>1, <1>2, <1>9, <2>1 DEF LosesConnection, handlerVars, TypeOK
  <1>10. CASE ServerReplies
    <2>1. serverQueue # <<>> /\ Head(serverQueue) \in Commands
          /\ Tail(serverQueue) \in Seq(Commands)
      BY <1>0, <1>10, HeadTailProperties DEF ServerReplies
    <2>2. PICK reply \in Reply(Head(serverQueue)) : inbound' = inbound \o reply
      BY <1>10 DEF ServerReplies
    <2>3. reply \in Seq(Lines)
      BY <2>1, <2>2, ReplyFacts
    <2>4. inbound' \in Seq(Lines)
      BY <1>0, <2>2, <2>3, ConcatProperties
    <2> QED BY <1>0, <1>10, <2>1, <2>4
        DEF ServerReplies, handlerVars, callVars, TypeOK
  <1>11. CASE UNCHANGED vars
    BY <1>0, <1>11 DEF vars, handlerVars, wireVars, callVars, TypeOK
  <1> QED BY <1>3, <1>4, <1>5, <1>6, <1>7, <1>8, <1>9, <1>10, <1>11 DEF Next

\* Every step keeps what is said of responses and waiting calls.
LEMMA WaitedStep == TypeOK /\ Waited /\ [Next]_vars => Waited'
  <1> SUFFICES ASSUME TypeOK, Waited, [Next]_vars PROVE Waited'
    OBVIOUS
  <1>0. /\ sentCommands \in Seq(Commands) /\ recvResponses \in Seq(Seq(Lines))
        /\ waiting = None => recvResponses = <<>>
        /\ Len(<<>>) = 0
    BY DEF TypeOK, Waited
  <1>1. ASSUME NEW type \in Types, Call(type) PROVE Waited'
    <2>1. sentCommands' # <<>> /\ connected'
      BY <1>0, <1>1 DEF Call
    <2>2. recvResponses' = <<>>
      BY <1>0, <1>1 DEF Call
    <2> QED BY <1>0, <2>1, <2>2 DEF Waited
  <1>2. CASE CallFails
    BY <1>0, <1>2 DEF CallFails, Ends, handlerVars, Waited
  <1>3. CASE HandleWrite
    BY <1>3 DEF HandleWrite, handlerVars, callVars, Waited
  <1>4. CASE HandleRead
    <2>1. PICK k \in 1 .. Len(inbound) :
             LET f == Fetch(incoming \o SubSeq(inbound, 1, k)) IN
             /\ recvResponses' = recvResponses \o f.responses
             /\ IF f.raised THEN Ends("protocol", <<>>) ELSE UNCHANGED callVars
      BY <1>4 DEF HandleRead
    <2>2. PICK q : q = incoming \o SubSeq(inbound, 1, k)
      OBVIOUS
    <2>3. q \in Seq(Lines) /\ q # <<>> /\ partial \in Seq(Lines)
      BY <2>2, QueueFacts DEF TypeOK
    <2>4. /\ Fetch(q).responses \in Seq(Seq(Lines)) /\ Len(Fetch(q).responses) <= 1
          /\ Fetch(q).raised => Fetch(q).responses = <<>>
      BY <2>3, FetchTyped
    <2>5. recvResponses' = Fetch(q).responses
      <3>1. PICK r \in Seq(Seq(Lines)) : r = Fetch(q).responses
        BY <2>4
      <3>2. <<>> \o r = r
        BY <3>1, ConcatEmptySeq
      <3>3. recvResponses' = <<>> \o r
        BY <1>4, <2>1, <2>2, <3>1 DEF HandleRead, Polling
      <3> QED BY <3>1, <3>2, <3>3
    <2>6. /\ waiting # None /\ connected' /\ sentCommands' # <<>>
          /\ waiting' = None => recvResponses' = <<>>
      <3>1. waiting # None /\ connected' /\ sentCommands' # <<>>
        BY <1>4 DEF HandleRead, Polling, Waited
      <3>2. ~Fetch(q).raised => waiting' = waiting
        BY <2>1, <2>2 DEF callVars
      <3> QED BY <2>4, <2>5, <3>1, <3>2
    <2> QED BY <2>4, <2>5, <2>6 DEF Waited
  <1>5. CASE Popped
    <2>1. recvResponses' = <<>> /\ waiting' = None
      <3>1. recvResponses # <<>> /\ recvResponses' = Tail(recvResponses) /\ waiting' = None
        BY <1>5 DEF Popped, Ends
      <3>2. Len(recvResponses) = 1
        <4>1. Len(recvResponses) \in Nat /\ Len(recvResponses) <= 1
          BY <1>0 DEF Waited
        <4>2. Len(recvResponses) # 0
          BY <1>0, <3>1
        <4>3. PICK l \in Nat : l = Len(recvResponses)
          BY <4>1
        <4>4. l = 1
          BY <4>1, <4>2, <4>3
        <4> QED BY <4>3, <4>4
      <3> QED BY <1>0, <3>1, <3>2
    <2> QED BY <1>0, <2>1 DEF Waited
  <1>6. CASE TimesOut
    BY <1>0, <1>6 DEF TimesOut, Polling, Ends, handlerVars, Waited
  <1>7. CASE LosesConnection
    BY <1>0, <1>7 DEF LosesConnection, Polling, Ends, handlerVars, Waited
  <1>8. CASE ServerReplies
    BY <1>8 DEF ServerReplies, handlerVars, callVars, Waited
  <1>9. CASE UNCHANGED vars
    BY <1>9 DEF vars, handlerVars, callVars, Waited
  <1> QED BY <1>1, <1>2, <1>3, <1>4, <1>5, <1>6, <1>7, <1>8, <1>9 DEF Next

\* Each variable holds what it should: the lines and commands of this protocol.
THEOREM AdminTypeCorrect == Spec => []TypeOK
  <1>1. Init => TypeOK /\ Waited
    <2>1. Init => Waited
      BY DEF Init, Waited
    <2> QED BY <2>1, TypedInit
  <1>2. TypeOK /\ Waited /\ [Next]_vars => TypeOK' /\ Waited'
    BY TypedStep, WaitedStep
  <1> QED BY <1>1, <1>2, PTL DEF Spec

-----------------------------------------------------------------------------
(***************************************************************************)
(* A session keeps its lines in blocks.                                    *)
(***************************************************************************)

\* The blocks are for the first commands, so more commands do not matter.
LEMMA BlocksKept ==
    ASSUME NEW L, NEW r, NEW s, NEW t, \A p \in 1 .. r : t[p] = s[p],
           InBlocks(L, s, r)
    PROVE  InBlocks(L, t, r)
  <1>1. Owned(L, t, r)
    BY DEF InBlocks, Owned
  <1>2. Whole(L, t, r)
    <2> SUFFICES ASSUME NEW p \in 1 .. r
                 PROVE  \E i \in 1 .. Len(L) : L[i].call = t[p].call /\ L[i].kind # "row"
      BY DEF Whole
    <2>1. t[p] = s[p]
      OBVIOUS
    <2>2. \E i \in 1 .. Len(L) : L[i].call = s[p].call /\ L[i].kind # "row"
      BY DEF InBlocks, Whole
    <2> QED BY <2>1, <2>2
  <1> QED BY <1>1, <1>2 DEF InBlocks

\* A call in a session that has begun: one more command, sent by no one yet.
LEMMA CallKeeps ==
    ASSUME TypeOK, Waited, Session, connected, NEW type \in Types, Call(type)
    PROVE  Session'
  <1>1. PICK cmd \in Commands : cmd = [call |-> calls + 1, type |-> type]
    <2>1. calls + 1 \in Nat
      BY DEF TypeOK
    <2> QED BY <2>1 DEF Commands
  <1>2. /\ waiting = None /\ calls' = calls + 1
        /\ sentCommands' = Append(sentCommands, cmd) /\ outgoing' = Append(outgoing, cmd)
        /\ partial' = partial /\ recvResponses' = recvResponses /\ incoming' = incoming
        /\ serverQueue' = serverQueue /\ inbound' = inbound
        /\ waiting' = cmd /\ mishaps' = mishaps
    BY <1>1 DEF Call
  <1> SUFFICES ASSUME "protocol" \notin mishaps
               PROVE  (Sends /\ InBlocks(Unused, sentCommands, Replied) /\ Parts /\ Alone)'
    BY <1>2 DEF Session
  <1>3. Sends /\ InBlocks(Unused, sentCommands, Replied) /\ Parts /\ Alone
    BY DEF Session
  <1>4. /\ sentCommands \in Seq(Commands) /\ outgoing \in Seq(Commands)
        /\ calls \in Nat /\ recvResponses = <<>>
        /\ Len(sentCommands) \in Nat /\ Len(outgoing) \in Nat /\ Len(serverQueue) \in Nat
    BY <1>2 DEF TypeOK, Waited
  <1>5. /\ Len(sentCommands') = Len(sentCommands) + 1
        /\ \A i \in 1 .. Len(sentCommands) : sentCommands'[i] = sentCommands[i]
        /\ sentCommands'[Len(sentCommands) + 1] = cmd
    BY <1>2, <1>4, AppendProperties
  <1>6. /\ Len(outgoing') = Len(outgoing) + 1
        /\ \A i \in 1 .. Len(outgoing) : outgoing'[i] = outgoing[i]
        /\ outgoing'[Len(outgoing) + 1] = cmd
    BY <1>2, <1>4, AppendProperties
  <1>7. /\ Replied' = Replied /\ Replied \in Nat
        /\ Replied + Len(serverQueue) + Len(outgoing) = Len(sentCommands)
    BY <1>2, <1>3, <1>4, <1>5, <1>6 DEF Replied, Sends
  <1>8. Unused' = Unused
    BY <1>2 DEF Unused, Response
  <1>9. InBlocks(Unused, sentCommands', Replied)
    <2>1. \A p \in 1 .. Replied : sentCommands'[p] = sentCommands[p]
      BY <1>4, <1>5, <1>7
    <2> QED BY <1>3, <2>1, BlocksKept
  <1>10. \A i \in 1 .. Len(sentCommands') :
            sentCommands'[i].call <= calls' /\ sentCommands'[i].call \in Nat
    <2> TAKE i \in 1 .. Len(sentCommands')
    <2>1. CASE i \in 1 .. Len(sentCommands)
      <3>1. sentCommands[i].call \in Nat /\ sentCommands[i].call <= calls
        BY <1>3, <1>4, <2>1, CommandFacts DEF Sends
      <3> QED BY <1>2, <1>4, <1>5, <2>1, <3>1
    <2>2. CASE i = Len(sentCommands) + 1
      BY <1>1, <1>2, <1>4, <1>5, <2>2
    <2> QED BY <1>4, <1>5, <2>1, <2>2
  <1>11. Ordered(sentCommands')
    <2> SUFFICES ASSUME NEW i \in 1 .. Len(sentCommands'), NEW j \in 1 .. Len(sentCommands'),
                        i < j
                 PROVE  sentCommands'[i].call < sentCommands'[j].call
      BY DEF Ordered
    <2>1. i \in 1 .. Len(sentCommands)
      BY <1>4, <1>5
    <2>2. CASE j \in 1 .. Len(sentCommands)
      BY <1>3, <1>5, <2>1, <2>2 DEF Sends, Ordered
    <2>3. CASE j = Len(sentCommands) + 1
      <3>1. sentCommands[i].call \in Nat /\ sentCommands[i].call <= calls
        BY <1>3, <1>4, <2>1, CommandFacts DEF Sends
      <3>2. sentCommands'[j].call = calls + 1
        BY <1>1, <1>5, <2>3
      <3> QED BY <1>4, <1>5, <2>1, <3>1, <3>2
    <2> QED BY <1>4, <1>5, <2>2, <2>3
  <1>12. \A i \in 1 .. Len(serverQueue) : serverQueue[i] = sentCommands'[Replied + i]
    <2> TAKE i \in 1 .. Len(serverQueue)
    <2>1. Replied + i \in 1 .. Len(sentCommands)
      BY <1>4, <1>7
    <2> QED BY <1>3, <1>5, <2>1 DEF Sends
  <1>13. \A i \in 1 .. Len(outgoing') :
            outgoing'[i] = sentCommands'[Replied + Len(serverQueue) + i]
    <2> TAKE i \in 1 .. Len(outgoing')
    <2>1. CASE i \in 1 .. Len(outgoing)
      <3>1. Replied + Len(serverQueue) + i \in 1 .. Len(sentCommands)
        BY <1>4, <1>7, <2>1
      <3> QED BY <1>3, <1>5, <1>6, <2>1, <3>1 DEF Sends
    <2>2. CASE i = Len(outgoing) + 1
      <3>1. Replied + Len(serverQueue) + i = Len(sentCommands) + 1
        BY <1>4, <1>7, <2>2
      <3> QED BY <1>5, <1>6, <2>2, <3>1
    <2> QED BY <1>4, <1>6, <2>1, <2>2
  <1>14. Sends'
    <2>1. Replied >= 0
      BY <1>7
    <2> QED BY <1>2, <1>7, <1>10, <1>11, <1>12, <1>13, <2>1 DEF Sends
  <1>15. Parts'
    BY <1>2, <1>3 DEF Parts, Response
  <1>16. Alone'
    <2> SUFFICES ASSUME mishaps = {}
                 PROVE  sentCommands' = <<waiting'>> /\ waiting' # None /\ waiting'.call = calls'
      BY <1>2 DEF Alone
    <2>1. sentCommands = <<>>
      BY <1>2, <1>3 DEF Alone
    <2>2. cmd # None
      BY AdminAssumption DEF Commands
    <2> QED BY <1>1, <1>2, <2>1, <2>2
  <1> QED BY <1>7, <1>8, <1>9, <1>14, <1>15, <1>16

\* A call that connects begins a session with one command and no lines.
LEMMA ConnectKeeps ==
    ASSUME TypeOK, ~connected, NEW type \in Types, Call(type)
    PROVE  Session'
  <1>1. PICK cmd \in Commands : cmd = [call |-> calls + 1, type |-> type]
    <2>1. calls + 1 \in Nat
      BY DEF TypeOK
    <2> QED BY <2>1 DEF Commands
  <1>2. /\ calls' = calls + 1 /\ calls \in Nat
        /\ sentCommands' = <<cmd>> /\ outgoing' = <<cmd>>
        /\ partial' = <<>> /\ recvResponses' = <<>> /\ incoming' = <<>>
        /\ serverQueue' = <<>> /\ inbound' = <<>>
        /\ waiting' = cmd
    BY <1>1 DEF Call, TypeOK
  <1>3. Replied' = 0 /\ Len(sentCommands') = 1 /\ sentCommands'[1] = cmd
    BY <1>2 DEF Replied
  <1>4. Unused' = <<>>
    BY <1>2 DEF Unused, Response
  <1>5. InBlocks(<<>>, sentCommands', 0)
    BY DEF InBlocks, Owned, InOrder, Ended, Whole
  <1>6. Sends'
    <2>1. \A i \in 1 .. Len(sentCommands') : i = 1
      BY <1>3
    <2>2. Ordered(sentCommands') /\ \A i \in 1 .. Len(sentCommands') : sentCommands'[i].call <= calls'
      BY <1>1, <1>2, <1>3, <2>1 DEF Ordered
    <2>3. Len(serverQueue') = 0 /\ Len(outgoing') = 1 /\ outgoing'[1] = cmd
      BY <1>2
    <2>4. \A i \in 1 .. Len(serverQueue') : serverQueue'[i] = sentCommands'[Replied' + i]
      BY <2>3
    <2>5. \A i \in 1 .. Len(outgoing') :
             outgoing'[i] = sentCommands'[Replied' + Len(serverQueue') + i]
      BY <1>3, <2>3
    <2>6. Replied' >= 0
      BY <1>3
    <2> QED BY <2>2, <2>4, <2>5, <2>6 DEF Sends
  <1>7. Parts'
    BY <1>2 DEF Parts
  <1>8. Alone'
    <2>1. cmd # None
      BY AdminAssumption DEF Commands
    <2> QED BY <1>1, <1>2, <2>1 DEF Alone
  <1> QED BY <1>3, <1>4, <1>5, <1>6, <1>7, <1>8 DEF Session

\* What is written is where it was among the commands sent.
LEMMA WriteKeeps ==
    ASSUME TypeOK, Session, HandleWrite PROVE Session'
  <1>1. /\ serverQueue' = serverQueue \o outgoing /\ outgoing' = <<>>
        /\ UNCHANGED <<connected, sentCommands, partial, recvResponses, incoming, inbound,
                       waiting, mishaps, calls>>
    BY DEF HandleWrite, handlerVars, callVars
  <1> SUFFICES ASSUME connected, "protocol" \notin mishaps
               PROVE  (Sends /\ InBlocks(Unused, sentCommands, Replied) /\ Parts /\ Alone)'
    BY <1>1 DEF Session
  <1>2. Sends /\ InBlocks(Unused, sentCommands, Replied) /\ Parts /\ Alone
    BY DEF Session
  <1>3. /\ serverQueue \in Seq(Commands) /\ outgoing \in Seq(Commands)
        /\ Len(sentCommands) \in Nat
    BY DEF TypeOK
  <1>4. Joined(serverQueue', serverQueue, outgoing)
    <2>1. PICK u : u = serverQueue \o outgoing
      OBVIOUS
    <2>2. Joined(u, serverQueue, outgoing)
      BY <1>3, <2>1, JoinFacts
    <2> QED BY <1>1, <2>1, <2>2
  <1>5. /\ Len(serverQueue') = Len(serverQueue) + Len(outgoing) /\ Len(outgoing') = 0
        /\ Len(serverQueue) \in Nat /\ Len(outgoing) \in Nat
    BY <1>1, <1>4 DEF Joined
  <1>6. Replied' = Replied /\ Replied \in Nat
    BY <1>1, <1>2, <1>3, <1>5 DEF Replied, Sends
  <1>7. Unused' = Unused
    BY <1>1 DEF Unused, Response
  <1>8. \A i \in 1 .. Len(serverQueue') : serverQueue'[i] = sentCommands[Replied + i]
    <2> TAKE i \in 1 .. Len(serverQueue')
    <2>1. CASE i \in 1 .. Len(serverQueue)
      BY <1>2, <1>4, <2>1 DEF Sends, Joined
    <2>2. CASE i \notin 1 .. Len(serverQueue)
      <3>1. /\ i - Len(serverQueue) \in 1 .. Len(outgoing)
            /\ serverQueue'[i] = outgoing[i - Len(serverQueue)]
        BY <1>4, <2>2 DEF Joined
      <3>2. Replied + Len(serverQueue) + (i - Len(serverQueue)) = Replied + i
        BY <1>5, <1>6
      <3>3. outgoing[i - Len(serverQueue)]
               = sentCommands[Replied + Len(serverQueue) + (i - Len(serverQueue))]
        BY <1>2, <3>1 DEF Sends
      <3> QED BY <3>1, <3>2, <3>3
    <2> QED BY <2>1, <2>2
  <1>9. Sends'
    <2>1. \A i \in 1 .. Len(outgoing') :
             outgoing'[i] = sentCommands'[Replied' + Len(serverQueue') + i]
      BY <1>5
    <2>2. /\ Replied' >= 0 /\ Ordered(sentCommands')
          /\ \A i \in 1 .. Len(sentCommands') : sentCommands'[i].call <= calls'
      BY <1>1, <1>2, <1>6 DEF Sends
    <2>3. \A i \in 1 .. Len(serverQueue') : serverQueue'[i] = sentCommands'[Replied' + i]
      BY <1>1, <1>6, <1>8
    <2> QED BY <2>1, <2>2, <2>3 DEF Sends
  <1>10. Parts' /\ Alone'
    BY <1>1, <1>2 DEF Parts, Response, Alone
  <1> QED BY <1>1, <1>2, <1>6, <1>7, <1>9, <1>10

\* A read that does not raise only moves lines.
LEMMA ReadKeeps ==
    ASSUME TypeOK, Session, HandleRead PROVE Session'
  <1>1. /\ Polling /\ connected /\ recvResponses = <<>>
        /\ UNCHANGED <<connected, sentCommands, outgoing, serverQueue, calls>>
    BY DEF HandleRead, Polling
  <1>2. PICK k \in 1 .. Len(inbound) :
           LET f == Fetch(incoming \o SubSeq(inbound, 1, k)) IN
           /\ inbound' = SubSeq(inbound, k + 1, Len(inbound))
           /\ incoming' = f.left
           /\ partial' = f.partial
           /\ recvResponses' = recvResponses \o f.responses
           /\ IF f.raised THEN Ends("protocol", <<>>) ELSE UNCHANGED callVars
    BY DEF HandleRead
  <1>3. PICK q : q = incoming \o SubSeq(inbound, 1, k)
    OBVIOUS
  <1>4. q \in Seq(Lines) /\ q # <<>> /\ Joined(q, incoming, SubSeq(inbound, 1, k))
    BY <1>3, QueueFacts
  <1>5. /\ inbound' = SubSeq(inbound, k + 1, Len(inbound))
        /\ incoming' = Fetch(q).left /\ partial' = Fetch(q).partial
        /\ recvResponses' = <<>> \o Fetch(q).responses
        /\ IF Fetch(q).raised THEN Ends("protocol", <<>>) ELSE UNCHANGED callVars
    BY <1>1, <1>2, <1>3
  <1>6. CASE Fetch(q).raised
    BY <1>5, <1>6 DEF Ends, Session
  <1>7. CASE ~Fetch(q).raised
    <2>1. mishaps' = mishaps /\ waiting' = waiting
      BY <1>5, <1>7 DEF callVars
    <2> SUFFICES ASSUME "protocol" \notin mishaps
                 PROVE  (Sends /\ InBlocks(Unused, sentCommands, Replied) /\ Parts /\ Alone)'
      BY <2>1 DEF Session
    <2>2. Sends /\ InBlocks(Unused, sentCommands, Replied) /\ Parts /\ Alone
      BY <1>1 DEF Session
    <2>3. PICK took \in Seq(Lines), rest \in Seq(Lines), left \in Seq(Lines),
               after \in Seq(Lines) :
             /\ rest = SubSeq(inbound, k + 1, Len(inbound))
             /\ left = Fetch(q).left
             /\ after = left \o rest
             /\ Unused = took \o after
             /\ \/ /\ Fetch(q).responses = <<>>
                   /\ Fetch(q).partial = took
                   /\ \A i \in 1 .. Len(took) : took[i].kind = "row"
                \/ /\ Fetch(q).responses = <<took>>
                   /\ Fetch(q).partial = <<>>
                   /\ took # <<>>
                   /\ \A i \in 1 .. Len(took) : (took[i].kind = "row") = (i < Len(took))
      BY <1>1, <1>4, <1>7, <2>2, FetchTakes
    <2>4. incoming' \o inbound' = after
      BY <1>5, <2>3
    <2>5. <<>> \o after = after /\ <<>> \o (took \o after) = took \o after
      <3>1. PICK u \in Seq(Lines) : u = took \o after
        BY ConcatProperties
      <3>2. <<>> \o u = u
        BY <3>1, ConcatEmptySeq
      <3> QED BY <3>1, <3>2, ConcatEmptySeq
    <2>6. Unused' = Unused /\ Parts'
      <3>1. CASE Fetch(q).responses = <<>>
        <4>1. recvResponses' = <<>> /\ partial' = took
              /\ \A i \in 1 .. Len(took) : took[i].kind = "row"
          BY <1>5, <2>3, <3>1
        <4> QED BY <2>3, <2>4, <2>5, <4>1 DEF Unused, Response, Parts
      <3>2. CASE Fetch(q).responses = <<took>>
        <4>1. /\ recvResponses' = <<took>> /\ partial' = <<>> /\ took # <<>>
              /\ \A i \in 1 .. Len(took) : (took[i].kind = "row") = (i < Len(took))
          <5>1. PICK s : s = <<took>>
            OBVIOUS
          <5>2. s \in Seq(Seq(Lines))
            BY <5>1
          <5>3. <<>> \o s = s
            BY <5>2, ConcatEmptySeq
          <5> QED BY <1>5, <2>3, <3>2, <5>1, <5>3
        <4>2. recvResponses' # <<>> /\ recvResponses'[1] = took
          BY <4>1
        <4>3. Response' = took
          BY <4>2 DEF Response
        <4> QED BY <2>3, <2>4, <2>5, <4>1, <4>3 DEF Unused, Parts
      <3> QED BY <2>3, <3>1, <3>2
    <2>7. Sends' /\ Replied' = Replied /\ Alone'
      BY <1>1, <2>1, <2>2 DEF Sends, Replied, Alone
    <2> QED BY <1>1, <2>2, <2>6, <2>7
  <1> QED BY <1>6, <1>7

\* While a response waits to be popped it is the first block of what is unused, and
\* its lines belong to the command that is popped with it.
LEMMA ResponseFacts ==
    ASSUME TypeOK, Waited, recvResponses # <<>>, Sends, Parts,
           InBlocks(Unused, sentCommands, Replied)
    PROVE  /\ Response \in Seq(Lines) /\ Response = Head(recvResponses)
           /\ Tail(recvResponses) = <<>>
           /\ \A i \in 1 .. Len(Response) : Response[i].call = sentCommands[1].call
           /\ Replied \in Nat /\ Replied >= 1 /\ Replied <= Len(sentCommands)
           /\ InBlocks(<<>> \o (partial \o (incoming \o inbound)), Tail(sentCommands),
                       Replied - 1)
  <1>1. /\ recvResponses \in Seq(Seq(Lines)) /\ sentCommands \in Seq(Commands)
        /\ partial \in Seq(Lines) /\ incoming \in Seq(Lines) /\ inbound \in Seq(Lines)
        /\ serverQueue \in Seq(Commands) /\ outgoing \in Seq(Commands)
    BY DEF TypeOK
  <1>2. PICK l \in Nat : l = Len(recvResponses) /\ l = 1
    <2>1. PICK l \in Nat : l = Len(recvResponses)
      BY <1>1
    <2>2. l <= 1 /\ l # 0
      BY <1>1, <2>1 DEF Waited
    <2> QED BY <2>1, <2>2
  <1>3. /\ Response = Head(recvResponses) /\ Response \in Seq(Lines)
        /\ Tail(recvResponses) = <<>>
    <2>1. Response = recvResponses[1] /\ Head(recvResponses) = recvResponses[1]
      BY DEF Response
    <2>2. Head(recvResponses) \in Seq(Lines)
      BY <1>1, HeadTailProperties
    <2>3. Tail(recvResponses) \in Seq(Seq(Lines)) /\ Len(Tail(recvResponses)) = 0
      <3>1. /\ Tail(recvResponses) \in Seq(Seq(Lines))
            /\ Len(Tail(recvResponses)) = Len(recvResponses) - 1
        BY <1>1, HeadTailProperties
      <3> QED BY <1>2, <3>1
    <2>4. PICK t : t = Tail(recvResponses)
      OBVIOUS
    <2>5. t \in Seq(Seq(Lines)) /\ Len(t) = 0
      BY <2>3, <2>4
    <2>6. t = <<>>
      BY <2>5, EmptySeq
    <2> QED BY <2>1, <2>2, <2>4, <2>6
  <1>4. PICK b \in Seq(Lines) : b = partial \o (incoming \o inbound)
    <2>1. PICK c \in Seq(Lines) : c = incoming \o inbound
      BY <1>1, ConcatProperties
    <2> QED BY <1>1, <2>1, ConcatProperties
  <1>5. PICK U \in Seq(Lines) : U = Response \o b /\ U = Unused
    BY <1>3, <1>4, ConcatProperties DEF Unused
  <1>6. <<>> \o b = b
    BY ConcatEmptySeq
  <1>7. /\ Response # <<>>
        /\ \A i \in 1 .. Len(Response) : (Response[i].kind = "row") = (i < Len(Response))
    BY DEF Parts
  <1>8. Replied \in Nat /\ Replied <= Len(sentCommands) /\ Ordered(sentCommands)
    BY <1>1 DEF Sends, Replied
  <1>9. InBlocks(U, sentCommands, Replied)
    BY <1>5
  <1>10. PICK a \in Seq(Lines) : a = Response
    BY <1>3
  <1>11. /\ a # <<>> /\ U = a \o b
         /\ \A i \in 1 .. Len(a) : (a[i].kind = "row") = (i < Len(a))
    BY <1>5, <1>7, <1>10
  <1>12. PICK t : t = Tail(sentCommands)
    OBVIOUS
  <1>13. Replied >= 1 /\ InBlocks(b, t, Replied - 1)
    BY <1>1, <1>8, <1>9, <1>11, <1>12, BlockPopped
  <1>14. \A i \in 1 .. Len(a) : a[i].call = sentCommands[1].call
    <2>1. Joined(U, a, b)
      BY <1>11, JoinFacts
    <2>2. Len(a) \in Nat /\ Len(a) >= 1
      BY <1>11
    <2>3. Len(a) \in 1 .. Len(a) /\ \A i \in 1 .. Len(a) - 1 : i \in 1 .. Len(a) /\ i < Len(a)
      BY <2>2
    <2>4. Len(a) \in 1 .. Len(U)
      BY <2>1, <2>3 DEF Joined
    <2>5. \A i \in 1 .. Len(a) - 1 : U[i].kind = "row"
      BY <1>11, <2>1, <2>3 DEF Joined
    <2>6. \A i \in 1 .. Len(a) : U[i].call = sentCommands[1].call
      BY <1>1, <1>8, <1>9, <2>4, <2>5, FirstBlock, ZenonT(40)
    <2> QED BY <2>1, <2>6 DEF Joined
  <1> QED BY <1>3, <1>4, <1>6, <1>8, <1>10, <1>12, <1>13, <1>14

\* The first response and the first command go together.
LEMMA PopKeeps ==
    ASSUME TypeOK, Waited, Session, Popped PROVE Session'
  <1>1. /\ waiting # None /\ recvResponses # <<>> /\ connected /\ sentCommands # <<>>
        /\ sentCommands' = Tail(sentCommands) /\ recvResponses' = Tail(recvResponses)
        /\ UNCHANGED <<connected, partial, incoming, outgoing, serverQueue, inbound, calls>>
        /\ waiting' = None /\ mishaps \subseteq mishaps'
    BY DEF Popped, Waited, Ends, wireVars
  <1> SUFFICES ASSUME "protocol" \notin mishaps
               PROVE  (Sends /\ InBlocks(Unused, sentCommands, Replied) /\ Parts /\ Alone)'
    BY <1>1 DEF Session
  <1>2. Sends /\ InBlocks(Unused, sentCommands, Replied) /\ Parts /\ Alone
    BY <1>1 DEF Session
  <1>3. /\ Tail(recvResponses) = <<>>
        /\ Replied \in Nat /\ Replied >= 1 /\ Replied <= Len(sentCommands)
        /\ InBlocks(<<>> \o (partial \o (incoming \o inbound)), Tail(sentCommands),
                    Replied - 1)
    BY <1>1, <1>2, ResponseFacts
  <1>4. recvResponses' = <<>> /\ Unused' = <<>> \o (partial \o (incoming \o inbound))
    BY <1>1, <1>3 DEF Unused, Response
  <1>5. /\ sentCommands \in Seq(Commands) /\ Len(serverQueue) \in Nat
        /\ Len(outgoing) \in Nat /\ Len(sentCommands) \in Nat
    BY DEF TypeOK
  <1>6. /\ Len(sentCommands') = Len(sentCommands) - 1
        /\ \A i \in 1 .. Len(sentCommands') : sentCommands'[i] = sentCommands[i + 1]
    BY <1>1, <1>5, HeadTailProperties
  <1>7. /\ Replied' = Replied - 1
        /\ Replied + Len(serverQueue) + Len(outgoing) = Len(sentCommands)
    BY <1>1, <1>5, <1>6 DEF Replied
  <1>8. \A i \in 1 .. Len(sentCommands') : i + 1 \in 1 .. Len(sentCommands)
    BY <1>5, <1>6
  <1>9. Sends'
    <2>1. Replied' >= 0
      BY <1>3, <1>7
    <2>2. \A i \in 1 .. Len(sentCommands') : sentCommands'[i].call <= calls'
      BY <1>1, <1>2, <1>6, <1>8 DEF Sends
    <2>3. Ordered(sentCommands')
      <3> SUFFICES ASSUME NEW i \in 1 .. Len(sentCommands'),
                          NEW j \in 1 .. Len(sentCommands'), i < j
                   PROVE  sentCommands'[i].call < sentCommands'[j].call
        BY DEF Ordered
      <3>1. i + 1 < j + 1
        OBVIOUS
      <3>2. sentCommands[i + 1].call < sentCommands[j + 1].call
        BY <1>2, <1>8, <3>1 DEF Sends, Ordered
      <3> QED BY <1>6, <3>2
    <2>4. \A i \in 1 .. Len(serverQueue) : serverQueue[i] = sentCommands'[Replied' + i]
      <3> TAKE i \in 1 .. Len(serverQueue)
      <3>1. Replied' + i \in 1 .. Len(sentCommands') /\ Replied' + i + 1 = Replied + i
        BY <1>3, <1>5, <1>6, <1>7
      <3>2. serverQueue[i] = sentCommands[Replied + i]
        BY <1>2 DEF Sends
      <3> QED BY <1>6, <3>1, <3>2
    <2>5. \A i \in 1 .. Len(outgoing) :
             outgoing[i] = sentCommands'[Replied' + Len(serverQueue) + i]
      <3> TAKE i \in 1 .. Len(outgoing)
      <3>1. /\ Replied' + Len(serverQueue) + i \in 1 .. Len(sentCommands')
            /\ Replied' + Len(serverQueue) + i + 1 = Replied + Len(serverQueue) + i
        BY <1>3, <1>5, <1>6, <1>7
      <3>2. outgoing[i] = sentCommands[Replied + Len(serverQueue) + i]
        BY <1>2 DEF Sends
      <3> QED BY <1>6, <3>1, <3>2
    <2> QED BY <1>1, <2>1, <2>2, <2>3, <2>4, <2>5 DEF Sends
  <1>10. Parts'
    BY <1>1, <1>2, <1>4 DEF Parts
  <1>11. Alone'
    <2> SUFFICES ASSUME mishaps = {} PROVE sentCommands' = <<>>
      BY <1>1 DEF Alone
    <2>1. Len(sentCommands) = 1
      BY <1>1, <1>2 DEF Alone
    <2> QED BY <1>1, <1>5, <2>1
  <1>12. InBlocks(Unused', sentCommands', Replied')
    BY <1>1, <1>3, <1>4, <1>7
  <1> QED BY <1>9, <1>10, <1>11, <1>12

\* The server answers the first command that is not answered, with the next block.
LEMMA ReplyKeeps ==
    ASSUME TypeOK, Session, ServerReplies PROVE Session'
  <1>1. /\ serverQueue # <<>> /\ serverQueue' = Tail(serverQueue)
        /\ UNCHANGED <<connected, sentCommands, partial, recvResponses, incoming, outgoing,
                       waiting, mishaps, calls>>
    BY DEF ServerReplies, handlerVars, callVars
  <1> SUFFICES ASSUME connected, "protocol" \notin mishaps
               PROVE  (Sends /\ InBlocks(Unused, sentCommands, Replied) /\ Parts /\ Alone)'
    BY <1>1 DEF Session
  <1>2. Sends /\ InBlocks(Unused, sentCommands, Replied) /\ Parts /\ Alone
    BY DEF Session
  <1>3. /\ sentCommands \in Seq(Commands) /\ serverQueue \in Seq(Commands)
        /\ Len(serverQueue) \in Nat /\ Len(outgoing) \in Nat /\ Len(sentCommands) \in Nat
        /\ partial \in Seq(Lines) /\ incoming \in Seq(Lines) /\ inbound \in Seq(Lines)
        /\ recvResponses \in Seq(Seq(Lines))
    BY DEF TypeOK
  <1>4. /\ Head(serverQueue) \in Commands /\ Head(serverQueue) = serverQueue[1]
        /\ Len(serverQueue') = Len(serverQueue) - 1 /\ Len(serverQueue) >= 1
        /\ \A i \in 1 .. Len(serverQueue') : serverQueue'[i] = serverQueue[i + 1]
    BY <1>1, <1>3, HeadTailProperties
  <1>5. /\ Replied \in Nat /\ Replied' = Replied + 1
        /\ Replied + Len(serverQueue) + Len(outgoing) = Len(sentCommands)
    BY <1>1, <1>2, <1>3, <1>4 DEF Replied, Sends
  <1>6. Head(serverQueue) = sentCommands[Replied + 1]
    BY <1>2, <1>4 DEF Sends
  <1>7. PICK reply \in Reply(Head(serverQueue)) : inbound' = inbound \o reply
    BY DEF ServerReplies
  <1>8. /\ reply \in Seq(Lines) /\ reply # <<>>
        /\ \A i \in 1 .. Len(reply) : /\ reply[i].call = sentCommands[Replied + 1].call
                                      /\ Fits[reply[i].kind] = sentCommands[Replied + 1].type
                                      /\ (reply[i].kind = "row") = (i < Len(reply))
    BY <1>4, <1>6, <1>7, ReplyFacts
  <1>9. Response \in Seq(Lines) /\ Response' = Response
    BY <1>1, <1>3 DEF Response
  <1>10. PICK L, M : /\ L \in Seq(Lines) /\ L = Unused /\ M = Unused'
                    /\ M = L \o reply
    <2>1. PICK i1, i2, p1, p2, u1, u2, u3 :
             /\ i1 = incoming \o inbound /\ i2 = incoming \o inbound'
             /\ p1 = partial \o i1 /\ p2 = partial \o i2
             /\ u1 = Response \o p1 /\ u2 = Response \o p2
             /\ u3 = u1 \o reply
      OBVIOUS
    <2>2. PICK r : r \in Seq(Lines) /\ r = reply
      BY <1>8
    <2>3. PICK x : x = inbound \o r
      OBVIOUS
    <2>4. x \in Seq(Lines) /\ Joined(x, inbound, r) /\ inbound' = x
      BY <1>3, <1>7, <2>2, <2>3, JoinFacts
    <2>5. i1 \in Seq(Lines) /\ Joined(i1, incoming, inbound)
      BY <1>3, <2>1, JoinFacts
    <2>6. i2 \in Seq(Lines) /\ Joined(i2, incoming, x)
      BY <1>3, <2>1, <2>4, JoinFacts
    <2>7. PICK i3 : i3 = i1 \o r
      OBVIOUS
    <2>8. i3 \in Seq(Lines) /\ Joined(i3, i1, r)
      BY <2>2, <2>5, <2>7, JoinFacts
    <2>9. i3 = i2
      BY <1>3, <2>2, <2>4, <2>5, <2>6, <2>8, JoinAssociative
    <2>10. p1 \in Seq(Lines) /\ Joined(p1, partial, i1)
      BY <1>3, <2>1, <2>5, JoinFacts
    <2>11. p2 \in Seq(Lines) /\ Joined(p2, partial, i2)
      BY <1>3, <2>1, <2>6, JoinFacts
    <2>12. PICK p3 : p3 = p1 \o r
      OBVIOUS
    <2>13. p3 \in Seq(Lines) /\ Joined(p3, p1, r)
      BY <2>2, <2>10, <2>12, JoinFacts
    <2>14. Joined(i2, i1, r)
      BY <2>8, <2>9
    <2>15. p3 = p2
      BY <1>3, <2>2, <2>5, <2>6, <2>10, <2>11, <2>13, <2>14, JoinAssociative
    <2>16. u1 \in Seq(Lines) /\ Joined(u1, Response, p1)
      BY <1>9, <2>1, <2>10, JoinFacts
    <2>17. u2 \in Seq(Lines) /\ Joined(u2, Response, p2)
      BY <1>9, <2>1, <2>11, JoinFacts
    <2>18. u3 \in Seq(Lines) /\ Joined(u3, u1, r)
      BY <2>1, <2>2, <2>16, JoinFacts
    <2>19. Joined(p2, p1, r)
      BY <2>13, <2>15
    <2>20. u3 = u2
      BY <1>9, <2>2, <2>10, <2>11, <2>16, <2>17, <2>18, <2>19, JoinAssociative
    <2>21. Unused = u1 /\ Unused' = u2
      BY <1>1, <1>9, <2>1 DEF Unused
    <2> QED BY <2>1, <2>16, <2>20, <2>21
  <1>11. InBlocks(M, sentCommands, Replied + 1)
    <2>1. Replied + 1 <= Len(sentCommands) /\ Ordered(sentCommands)
      BY <1>2, <1>3, <1>4, <1>5 DEF Sends
    <2>2. InBlocks(L, sentCommands, Replied)
      BY <1>2, <1>10
    <2> QED BY <1>3, <1>5, <1>8, <1>10, <2>1, <2>2, BlockAdded
  <1>12. Sends'
    <2>1. \A i \in 1 .. Len(serverQueue') : serverQueue'[i] = sentCommands[Replied' + i]
      <3> TAKE i \in 1 .. Len(serverQueue')
      <3>1. i + 1 \in 1 .. Len(serverQueue) /\ Replied + (i + 1) = Replied' + i
        BY <1>3, <1>4, <1>5
      <3>2. serverQueue[i + 1] = sentCommands[Replied + (i + 1)]
        BY <1>2, <3>1 DEF Sends
      <3> QED BY <1>4, <3>1, <3>2
    <2>2. \A i \in 1 .. Len(outgoing) :
             outgoing[i] = sentCommands[Replied' + Len(serverQueue') + i]
      <3>1. Replied' + Len(serverQueue') = Replied + Len(serverQueue)
        BY <1>3, <1>4, <1>5
      <3> QED BY <1>2, <3>1 DEF Sends
    <2>3. Replied' >= 0
      BY <1>5
    <2> QED BY <1>1, <1>2, <2>1, <2>2, <2>3 DEF Sends
  <1>13. Parts' /\ Alone'
    BY <1>1, <1>2, <1>9 DEF Parts, Alone
  <1> QED BY <1>1, <1>5, <1>10, <1>11, <1>12, <1>13

-----------------------------------------------------------------------------
(***************************************************************************)
(* The invariant of every behaviour, and what it shows.                    *)
(***************************************************************************)

Invariant == TypeOK /\ Waited /\ Session

\* The invariant holds at the start.
LEMMA InvariantInit == Init => Invariant
  <1>1. Init => Waited /\ Session
    BY DEF Init, Waited, Session
  <1> QED BY <1>1, TypedInit DEF Invariant

\* Every step keeps the lines of a session in blocks.
LEMMA SessionStep == TypeOK /\ Waited /\ Session /\ [Next]_vars => Session'
  <1> SUFFICES ASSUME TypeOK, Waited, Session, [Next]_vars PROVE Session'
    OBVIOUS
  <1>0. TypeOK /\ Waited /\ Session
    OBVIOUS
  <1>1. ASSUME NEW type \in Types, Call(type) PROVE Session'
    BY <1>0, <1>1, CallKeeps, ConnectKeeps
  <1>2. CASE CallFails
    BY <1>2 DEF CallFails, Session
  <1>3. CASE HandleWrite
    BY <1>0, <1>3, WriteKeeps
  <1>4. CASE HandleRead
    BY <1>0, <1>4, ReadKeeps
  <1>5. CASE Popped
    BY <1>0, <1>5, PopKeeps
  <1>6. CASE TimesOut
    <2>1. /\ mishaps' # {} /\ mishaps \subseteq mishaps'
          /\ UNCHANGED <<connected, handlerVars, wireVars, calls>>
      BY <1>6 DEF TimesOut, Ends
    <2>2. Alone'
      BY <2>1 DEF Alone
    <2>3. Sends' = Sends /\ Parts' = Parts /\ Unused' = Unused /\ Replied' = Replied
          /\ sentCommands' = sentCommands /\ connected' = connected
      BY <2>1 DEF Sends, Parts, Unused, Response, Replied, handlerVars, wireVars
    <2> QED BY <1>0, <2>1, <2>2, <2>3 DEF Session
  <1>7. CASE LosesConnection
    BY <1>7 DEF LosesConnection, Session
  <1>8. CASE ServerReplies
    BY <1>0, <1>8, ReplyKeeps
  <1>9. CASE UNCHANGED vars
    <2>1. Sends' = Sends /\ Parts' = Parts /\ Unused' = Unused /\ Replied' = Replied
          /\ sentCommands' = sentCommands /\ connected' = connected /\ mishaps' = mishaps
          /\ Alone' = Alone
      BY <1>9 DEF vars, Sends, Parts, Unused, Response, Replied, Alone, handlerVars,
                  wireVars, callVars
    <2> QED BY <1>0, <2>1 DEF Session
  <1> QED BY <1>1, <1>2, <1>3, <1>4, <1>5, <1>6, <1>7, <1>8, <1>9 DEF Next

\* Every step keeps the invariant.
LEMMA InvariantStep == Invariant /\ [Next]_vars => Invariant'
  BY TypedStep, WaitedStep, SessionStep DEF Invariant

\* A call that returns, returns the reply to its own request, as long as no call of
\* the session has timed out or raised: for any number of calls, with losses of the
\* connection, refusals and calls that end on "unexpected".
THEOREM AnswersAlwaysOwn == Spec => []AnswerIsOwn
  <1>1. Init => AnswerIsOwn
    BY DEF Init, AnswerIsOwn
  <1>2. Invariant /\ AnswerIsOwn /\ [Next]_vars => AnswerIsOwn'
    <2> SUFFICES ASSUME Invariant, AnswerIsOwn, [Next]_vars PROVE AnswerIsOwn'
      OBVIOUS
    <2>0. TypeOK /\ Waited /\ Session
      BY DEF Invariant
    <2>1. ASSUME NEW type \in Types, Call(type) PROVE AnswerIsOwn'
      BY <2>1 DEF Call, AnswerIsOwn
    <2>2. CASE CallFails
      BY <2>2 DEF CallFails, Ends, AnswerIsOwn
    <2>3. CASE HandleWrite
      BY <2>3 DEF HandleWrite, callVars, AnswerIsOwn
    <2>4. CASE HandleRead
      <3>1. UNCHANGED calls /\ (outcome' = "protocol" \/ UNCHANGED callVars)
        BY <2>4 DEF HandleRead, Ends
      <3> QED BY <3>1 DEF callVars, AnswerIsOwn
    <2>5. CASE Popped
      <3> SUFFICES ASSUME outcome' = "answered", mishaps' = {}
                   PROVE  \A i \in DOMAIN answer' : answer'[i].call = calls'
        BY DEF AnswerIsOwn
      <3>1. /\ waiting # None /\ recvResponses # <<>> /\ connected /\ calls' = calls
            /\ answer' = Head(recvResponses) /\ mishaps = {}
        BY <2>0, <2>5 DEF Popped, Ends, Waited
      <3>2. Sends /\ InBlocks(Unused, sentCommands, Replied) /\ Parts /\ Alone
        BY <2>0, <3>1 DEF Session
      <3>3. /\ Response \in Seq(Lines) /\ Response = Head(recvResponses)
            /\ \A i \in 1 .. Len(Response) : Response[i].call = sentCommands[1].call
        BY <2>0, <3>1, <3>2, ResponseFacts
      <3>4. sentCommands = <<waiting>> /\ waiting.call = calls
        BY <3>1, <3>2 DEF Alone
      <3>5. sentCommands[1].call = calls
        BY <3>4
      <3>6. DOMAIN answer' = 1 .. Len(Response) /\ answer' = Response
        BY <3>1, <3>3
      <3> QED BY <3>1, <3>3, <3>5, <3>6
    <2>6. CASE TimesOut
      BY <2>6 DEF TimesOut, Ends, AnswerIsOwn
    <2>7. CASE LosesConnection
      BY <2>7 DEF LosesConnection, Ends, AnswerIsOwn
    <2>8. CASE ServerReplies
      BY <2>8 DEF ServerReplies, callVars, AnswerIsOwn
    <2>9. CASE UNCHANGED vars
      BY <2>9 DEF vars, callVars, AnswerIsOwn
    <2> QED BY <2>1, <2>2, <2>3, <2>4, <2>5, <2>6, <2>7, <2>8, <2>9 DEF Next
  <1> QED BY <1>1, <1>2, InvariantInit, InvariantStep, PTL DEF Spec

\* Between the calls of a session without a mishap nothing of an old call is left that
\* the next one could take for its answer.
THEOREM AlwaysCleanBetween == Spec => []CleanBetweenCalls
  <1>1. Invariant => CleanBetweenCalls
    <2> SUFFICES ASSUME Invariant, connected, waiting = None, mishaps = {}
                 PROVE  /\ sentCommands = <<>> /\ recvResponses = <<>> /\ partial = <<>>
                        /\ incoming = <<>> /\ inbound = <<>>
                        /\ outgoing = <<>> /\ serverQueue = <<>>
      BY DEF CleanBetweenCalls
    <2>1. TypeOK /\ Waited /\ Session
      BY DEF Invariant
    <2>2. Sends /\ InBlocks(Unused, sentCommands, Replied) /\ Alone
      BY <2>1 DEF Session
    <2>3. sentCommands = <<>> /\ recvResponses = <<>>
      BY <2>1, <2>2 DEF Alone, Waited
    <2>4. /\ serverQueue \in Seq(Commands) /\ outgoing \in Seq(Commands)
          /\ partial \in Seq(Lines) /\ incoming \in Seq(Lines) /\ inbound \in Seq(Lines)
      BY <2>1 DEF TypeOK
    <2>5. Len(serverQueue) = 0 /\ Len(outgoing) = 0 /\ Replied = 0
      <3>1. PICK m \in Nat, n \in Nat : m = Len(serverQueue) /\ n = Len(outgoing)
        BY <2>4
      <3>2. Replied = 0 - m - n /\ Replied >= 0
        BY <2>2, <2>3, <3>1 DEF Replied, Sends
      <3>3. m = 0 /\ n = 0 /\ Replied = 0
        BY <3>1, <3>2
      <3> QED BY <3>1, <3>3
    <2>6. PICK i : i = incoming \o inbound
      OBVIOUS
    <2>7. i \in Seq(Lines) /\ Joined(i, incoming, inbound)
      BY <2>4, <2>6, JoinFacts
    <2>8. PICK p : p = partial \o i
      OBVIOUS
    <2>9. p \in Seq(Lines) /\ Joined(p, partial, i)
      BY <2>4, <2>7, <2>8, JoinFacts
    <2>10. Unused = p
      <3>1. Unused = <<>> \o p
        BY <2>3, <2>6, <2>8 DEF Unused, Response
      <3>2. <<>> \o p = p
        BY <2>9, ConcatEmptySeq
      <3> QED BY <3>1, <3>2
    <2>11. Len(p) = 0
      <3>1. \A j \in 1 .. Len(p) : \E r \in 1 .. 0 : TRUE
        BY <2>2, <2>5, <2>10 DEF InBlocks, Owned
      <3>2. Len(p) \in Nat
        BY <2>9
      <3>3. 1 \notin 1 .. Len(p)
        BY <3>1
      <3> QED BY <3>2, <3>3
    <2>12. Len(partial) = 0 /\ Len(i) = 0
      BY <2>9, <2>11 DEF Joined
    <2>13. Len(incoming) = 0 /\ Len(inbound) = 0
      BY <2>7, <2>12 DEF Joined
    <2> QED BY <2>3, <2>4, <2>5, <2>12, <2>13
  <1> QED BY <1>1, InvariantInit, InvariantStep, PTL DEF Spec

\* Of a sequence of at most one sequence there is nothing to flatten.
LEMMA FlattenOne ==
    ASSUME NEW s
    PROVE  FlattenSeq(<<s>>) = s
  <1> DEFINE ss == <<s>>
             step(f) == [i \in 1 .. Len(ss) |-> IF i = 1 THEN ss[i] ELSE f[i - 1] \o ss[i]]
             flatten == CHOOSE f : f = step(f)
             one == [i \in 1 .. 1 |-> s]
  <1>1. Len(ss) = 1 /\ ss[1] = s
    OBVIOUS
  <1>2. \A f : step(f) = one
    BY <1>1
  <1>3. one = step(one)
    BY <1>2
  <1>4. flatten = step(flatten)
    <2> HIDE DEF step
    <2> QED BY <1>3
  <1>5. flatten[1] = s
    BY <1>2, <1>4
  <1>6. FlattenSeq(ss) = flatten[Len(ss)]
    BY <1>1 DEF FlattenSeq
  <1> QED BY <1>1, <1>5, <1>6

\* The end of a sequence is a suffix of it.
LEMMA EndIsSuffix ==
    ASSUME NEW S, NEW s \in Seq(S), NEW t \in Seq(S), NEW r \in Nat,
           r + Len(s) = Len(t), \A i \in 1 .. Len(s) : s[i] = t[r + i]
    PROVE  IsSuffix(s, t)
  <1> DEFINE m == Len(s)
             n == Len(t)
             a == [i \in 1 .. m |-> s[(m - i) + 1]]
             b == [i \in 1 .. n |-> t[(n - i) + 1]]
  <1>1. m \in Nat /\ n \in Nat /\ r + m = n
        /\ (\A i \in 1 .. m : s[i] \in S) /\ \A i \in 1 .. n : t[i] \in S
    OBVIOUS
  <1>2. Reverse(s) = a /\ Reverse(t) = b
    BY DEF Reverse
  <1>3. \A i \in 1 .. m : s[i] = t[r + i]
    OBVIOUS
  <1> HIDE DEF m, n
  <1>4. a \in Seq(S) /\ Len(a) = m
    <2>1. \A i \in 1 .. m : s[(m - i) + 1] \in S
      BY <1>1
    <2>2. a \in [1 .. m -> S]
      BY <2>1
    <2> QED BY <1>1, <2>2
  <1>5. b \in Seq(S) /\ Len(b) = n
    <2>1. \A i \in 1 .. n : t[(n - i) + 1] \in S
      BY <1>1
    <2>2. b \in [1 .. n -> S]
      BY <2>1
    <2> QED BY <1>1, <2>2
  <1>6. \A i \in 1 .. m : a[i] = b[i]
    <2> TAKE i \in 1 .. m
    <2>1. /\ i \in 1 .. n /\ (m - i) + 1 \in 1 .. m /\ r + ((m - i) + 1) = (n - i) + 1
      BY <1>1
    <2>2. s[(m - i) + 1] = t[(n - i) + 1]
      BY <1>3, <2>1
    <2> QED BY <2>1, <2>2
  <1> HIDE DEF a, b
  <1>7. m \in 0 .. Len(a) /\ m \in 0 .. Len(b)
    BY <1>1, <1>4, <1>5
  <1>8. /\ SubSeq(a, 1, m) \in Seq(S) /\ Len(SubSeq(a, 1, m)) = m
        /\ \A i \in 1 .. m : SubSeq(a, 1, m)[i] = a[i]
    BY <1>4, <1>7, SplitFacts
  <1>9. /\ SubSeq(b, 1, m) \in Seq(S) /\ Len(SubSeq(b, 1, m)) = m
        /\ \A i \in 1 .. m : SubSeq(b, 1, m)[i] = b[i]
    BY <1>5, <1>7, SplitFacts
  <1>10. SubSeq(a, 1, m) = SubSeq(b, 1, m)
    <2>1. PICK c \in Seq(S), d \in Seq(S) : c = SubSeq(a, 1, m) /\ d = SubSeq(b, 1, m)
      BY <1>8, <1>9
    <2>2. Len(c) = m /\ Len(d) = m /\ \A i \in 1 .. m : c[i] = d[i]
      BY <1>6, <1>8, <1>9, <2>1
    <2>3. c = d
      BY <2>2, SeqEqual
    <2> QED BY <2>1, <2>3
  <1>11. m <= n
    BY <1>1
  <1> QED BY <1>2, <1>4, <1>5, <1>10, <1>11 DEF IsSuffix, IsPrefix

\* However many replies are late, a reply is read as what it is until one raises: the
\* lines not yet popped belong, in order, to the commands not yet popped, and what the
\* server has yet to answer is the end of what was sent.
THEOREM AlwaysReadAsSent == Spec => []ReadAsSent
  <1>1. ASSUME Invariant PROVE ReadAsSent
    <2> DEFINE lines  == FlattenSeq(recvResponses) \o partial \o incoming \o inbound
               owners == [i \in DOMAIN sentCommands |-> sentCommands[i].call]
               owed   == serverQueue \o outgoing
    <2> SUFFICES ASSUME connected, "protocol" \notin mishaps
                 PROVE  /\ \A i \in DOMAIN lines : lines[i].call \in ToSet(owners)
                        /\ \A i, j \in DOMAIN lines : i < j => lines[i].call <= lines[j].call
                        /\ IsSuffix(owed, sentCommands)
                        /\ lines # <<>> => lines[1].call = sentCommands[1].call
      BY DEF ReadAsSent
    <2>1. TypeOK /\ Waited /\ Session
      BY <1>1 DEF Invariant
    <2>2. Sends /\ InBlocks(Unused, sentCommands, Replied) /\ Parts
      BY <2>1 DEF Session
    <2>3. /\ sentCommands \in Seq(Commands) /\ serverQueue \in Seq(Commands)
          /\ outgoing \in Seq(Commands)
          /\ partial \in Seq(Lines) /\ incoming \in Seq(Lines) /\ inbound \in Seq(Lines)
          /\ recvResponses \in Seq(Seq(Lines))
          /\ Len(serverQueue) \in Nat /\ Len(outgoing) \in Nat /\ Len(sentCommands) \in Nat
          /\ DOMAIN sentCommands = 1 .. Len(sentCommands)
      BY <2>1 DEF TypeOK
    <2>4. /\ Replied \in Nat /\ Replied <= Len(sentCommands)
          /\ Replied + (Len(serverQueue) + Len(outgoing)) = Len(sentCommands)
      BY <2>2, <2>3 DEF Sends, Replied
    <2>5. FlattenSeq(recvResponses) = Response /\ Response \in Seq(Lines)
      <3>1. CASE recvResponses = <<>>
        <4>1. FlattenSeq(<<>>) = <<>>
          BY DEF FlattenSeq
        <4> QED BY <3>1, <4>1 DEF Response
      <3>2. CASE recvResponses # <<>>
        <4>1. PICK l \in Nat : l = Len(recvResponses) /\ l <= 1 /\ l # 0
          BY <2>1, <2>3, <3>2 DEF Waited
        <4>2. l = 1
          BY <4>1
        <4>3. PICK s \in Seq(Lines) : s = recvResponses[1]
          <5>1. recvResponses[1] \in Seq(Lines)
            BY <2>3, <3>2, HeadTailProperties
          <5> QED BY <5>1
        <4>4. recvResponses = <<s>>
          <5>1. PICK o : o = <<s>>
            OBVIOUS
          <5>2. o \in Seq(Seq(Lines)) /\ Len(o) = 1 /\ o[1] = s
            BY <5>1
          <5>3. Len(recvResponses) = Len(o)
            BY <4>1, <4>2, <5>2
          <5>4. \A i \in 1 .. Len(recvResponses) : recvResponses[i] = o[i]
            BY <4>1, <4>2, <4>3, <5>2
          <5>5. recvResponses = o
            BY <2>3, <5>2, <5>3, <5>4, SeqEqual
          <5> QED BY <5>1, <5>5
        <4>5. FlattenSeq(<<s>>) = s
          BY FlattenOne
        <4>6. Response = s
          BY <3>2, <4>3 DEF Response
        <4> QED BY <4>4, <4>5, <4>6
      <3> QED BY <3>1, <3>2
    <2>6. lines = Unused /\ lines \in Seq(Lines)
      <3>1. PICK R, ii, pii, u, rp, rpi, v :
               /\ R = Response
               /\ ii = incoming \o inbound /\ pii = partial \o ii /\ u = R \o pii
               /\ rp = R \o partial /\ rpi = rp \o incoming /\ v = rpi \o inbound
        OBVIOUS
      <3>2. R \in Seq(Lines)
        BY <2>5, <3>1
      <3>3. ii \in Seq(Lines) /\ Joined(ii, incoming, inbound)
        BY <2>3, <3>1, JoinFacts
      <3>4. pii \in Seq(Lines) /\ Joined(pii, partial, ii)
        BY <2>3, <3>1, <3>3, JoinFacts
      <3>5. u \in Seq(Lines) /\ Joined(u, R, pii)
        BY <3>1, <3>2, <3>4, JoinFacts
      <3>6. rp \in Seq(Lines) /\ Joined(rp, R, partial)
        BY <2>3, <3>1, <3>2, JoinFacts
      <3>7. rpi \in Seq(Lines) /\ Joined(rpi, rp, incoming)
        BY <2>3, <3>1, <3>6, JoinFacts
      <3>8. v \in Seq(Lines) /\ Joined(v, rpi, inbound)
        BY <2>3, <3>1, <3>7, JoinFacts
      <3>9. PICK w : w = rp \o ii
        OBVIOUS
      <3>10. w \in Seq(Lines) /\ Joined(w, rp, ii)
        BY <3>3, <3>6, <3>9, JoinFacts
      <3>11. v = w
        BY <2>3, <3>3, <3>6, <3>7, <3>8, <3>10, JoinAssociative
      <3>12. w = u
        BY <2>3, <3>2, <3>3, <3>4, <3>5, <3>6, <3>10, JoinAssociative
      <3>13. Unused = u
        BY <3>1 DEF Unused
      <3>14. lines = v
        BY <2>5, <3>1
      <3> QED BY <3>8, <3>11, <3>12, <3>13, <3>14
    <2>7. PICK L \in Seq(Lines) : L = lines /\ InBlocks(L, sentCommands, Replied)
      <3> HIDE DEF lines
      <3> QED BY <2>2, <2>6
    <2>8. DOMAIN L = 1 .. Len(L)
      OBVIOUS
    <2>9. \A i \in DOMAIN L : L[i].call \in ToSet(owners)
      <3> TAKE i \in DOMAIN L
      <3>1. PICK p \in 1 .. Replied : L[i].call = sentCommands[p].call
        BY <2>7, <2>8 DEF InBlocks, Owned
      <3>2. p \in DOMAIN sentCommands
        BY <2>3, <2>4
      <3>3. p \in DOMAIN owners /\ owners[p] = sentCommands[p].call
        BY <3>2
      <3> HIDE DEF owners
      <3> QED BY <3>1, <3>3 DEF ToSet
    <2>10. \A i, j \in DOMAIN L : i < j => L[i].call <= L[j].call
      BY <2>7, <2>8 DEF InBlocks, InOrder
    <2>11. IsSuffix(owed, sentCommands)
      <3>1. PICK o : o = serverQueue \o outgoing
        OBVIOUS
      <3>2. o \in Seq(Commands) /\ Joined(o, serverQueue, outgoing)
        BY <2>3, <3>1, JoinFacts
      <3>3. Replied + Len(o) = Len(sentCommands)
        BY <2>4, <3>2 DEF Joined
      <3>4. \A i \in 1 .. Len(o) : o[i] = sentCommands[Replied + i]
        <4> TAKE i \in 1 .. Len(o)
        <4>1. CASE i \in 1 .. Len(serverQueue)
          BY <2>2, <3>2, <4>1 DEF Sends, Joined
        <4>2. CASE i \notin 1 .. Len(serverQueue)
          <5>1. /\ i - Len(serverQueue) \in 1 .. Len(outgoing)
                /\ o[i] = outgoing[i - Len(serverQueue)]
            BY <3>2, <4>2 DEF Joined
          <5>2. Replied + Len(serverQueue) + (i - Len(serverQueue)) = Replied + i
            BY <2>3, <2>4
          <5>3. outgoing[i - Len(serverQueue)]
                   = sentCommands[Replied + Len(serverQueue) + (i - Len(serverQueue))]
            BY <2>2, <5>1 DEF Sends
          <5> QED BY <5>1, <5>2, <5>3
        <4> QED BY <4>1, <4>2
      <3>5. IsSuffix(o, sentCommands)
        BY <2>3, <2>4, <3>2, <3>3, <3>4, EndIsSuffix
      <3> QED BY <3>1, <3>5
    <2>12. L # <<>> => L[1].call = sentCommands[1].call
      <3> SUFFICES ASSUME L # <<>> PROVE L[1].call = sentCommands[1].call
        OBVIOUS
      <3>1. Ordered(sentCommands)
        BY <2>2 DEF Sends
      <3> HIDE DEF lines, owners, owed
      <3> QED BY <2>3, <2>4, <2>7, <3>1, FirstLine
    <2> HIDE DEF lines, owners, owed
    <2> QED BY <2>7, <2>9, <2>10, <2>11, <2>12
  <1>2. Invariant => ReadAsSent
    BY <1>1
  <1> QED BY <1>2, InvariantInit, InvariantStep, PTL DEF Spec
=============================================================================
