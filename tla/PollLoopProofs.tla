--------------------------- MODULE PollLoopProofs ---------------------------
(***************************************************************************)
(* Theorems about PollLoop, for any connections, pollers and bounds.       *)
(***************************************************************************)
EXTENDS PollLoop, TLAPS

\* DeadAreTold says nothing of a round.  Within one, a connection that was found dead
\* and is not yet closed is still to be dealt with, or was abandoned before.
DeadAreKnown ==
    \A c \in Conns : socket[c] /\ ~connected[c] => c \in dead \cup abandoned

LoopInv == LoopTypeOK /\ DeadAreKnown /\ NeverPollsNone

\* What is left of a queue is a queue of the same commands.
LEMMA DropType ==
    ASSUME NEW S, NEW q \in Seq(S), NEW n \in Nat
    PROVE  Drop(q, n) \in Seq(S)
  BY DEF Drop

\* The invariant holds of a manager whose connections were never made.
LEMMA InitInv == Init /\ Pollers \subseteq {"epoll", "_Select"} => LoopInv
  <1> SUFFICES ASSUME Init, Pollers \subseteq {"epoll", "_Select"} PROVE LoopInv
    OBVIOUS
  <1>1. LoopTypeOK
    BY DEF Init, LoopTypeOK, RecvKinds, SendKinds
  <1>2. DeadAreKnown /\ NeverPollsNone
    BY DEF Init, DeadAreKnown, NeverPollsNone
  <1> QED BY <1>1, <1>2 DEF LoopInv

-----------------------------------------------------------------------------
(***************************************************************************)
(* Each action keeps the invariant: first what happens outside the loop.   *)
(***************************************************************************)

\* establish_connection: the connection is up, and neither dead nor abandoned.
LEMMA EstablishInv ==
    ASSUME LoopInv, NEW c \in Conns, Establish(c)
    PROVE  LoopInv'
  <1> USE DEF LoopInv, Establish, loopVars, roundVars, selectVars
  <1>1. LoopTypeOK'
    BY DEF LoopTypeOK
  <1>2. DeadAreKnown'
    BY DEF LoopTypeOK, DeadAreKnown
  <1>3. NeverPollsNone'
    BY DEF NeverPollsNone
  <1> QED BY <1>1, <1>2, <1>3

\* send_command changes a queue and nothing else.
LEMMA SendCommandInv ==
    ASSUME LoopInv, NEW c \in Conns, NEW kind \in SendKinds, SendCommand(c, kind)
    PROVE  LoopInv'
  <1> USE DEF LoopInv, SendCommand, loopVars, roundVars, selectVars
  <1>1. LoopTypeOK'
    BY DEF LoopTypeOK
  <1>2. DeadAreKnown' /\ NeverPollsNone'
    BY DEF DeadAreKnown, NeverPollsNone
  <1> QED BY <1>1, <1>2

\* What a server says changes what has arrived and nothing else.
LEMMA ServerSaysInv ==
    ASSUME LoopInv, NEW c \in Conns, NEW kind \in RecvKinds, ServerSays(c, kind)
    PROVE  LoopInv'
  <1> USE DEF LoopInv, ServerSays, loopVars, roundVars, selectVars, connVars, boundVars
  <1>1. LoopTypeOK'
    BY DEF LoopTypeOK
  <1>2. DeadAreKnown'
    BY DEF LoopTypeOK, DeadAreKnown
  <1>3. NeverPollsNone'
    BY DEF LoopTypeOK, NeverPollsNone
  <1> QED BY <1>1, <1>2, <1>3

\* A connection whose peer is gone is not dead until it is found so.
LEMMA PeerClosesInv ==
    ASSUME LoopInv, NEW c \in Conns, PeerCloses(c)
    PROVE  LoopInv'
  <1> USE DEF LoopInv, PeerCloses, loopVars, roundVars, selectVars, connVars, boundVars
  <1>1. LoopTypeOK'
    BY DEF LoopTypeOK
  <1>2. DeadAreKnown'
    BY DEF LoopTypeOK, DeadAreKnown
  <1>3. NeverPollsNone'
    BY DEF LoopTypeOK, NeverPollsNone
  <1> QED BY <1>1, <1>2, <1>3

-----------------------------------------------------------------------------
\* poll_connections_until_stopped begins with the callback, which nobody is polled in.
LEMMA StartLoopInv ==
    ASSUME LoopInv, NEW S \in SUBSET Conns, StartLoop(S)
    PROVE  LoopInv'
  <1> USE DEF LoopInv, StartLoop, loopVars, roundVars, selectVars, connVars, boundVars
  <1>1. LoopTypeOK'
    BY DEF LoopTypeOK
  <1>2. DeadAreKnown'
    BY DEF LoopTypeOK, DeadAreKnown
  <1>3. NeverPollsNone'
    BY DEF LoopTypeOK, NeverPollsNone
  <1> QED BY <1>1, <1>2, <1>3

\* connection_ok: the loop polls only with a submitted connection that is up.
LEMMA CallbackGoesOnInv ==
    ASSUME LoopInv, CallbackGoesOn
    PROVE  LoopInv'
  <1> USE DEF LoopInv, CallbackGoesOn, Continue, ConnectionOk, loopVars, roundVars,
              selectVars, connVars, boundVars
  <1>1. LoopTypeOK'
    BY DEF LoopTypeOK
  <1>2. DeadAreKnown'
    BY DEF LoopTypeOK, DeadAreKnown
  <1>3. NeverPollsNone'
    BY DEF LoopTypeOK, NeverPollsNone
  <1> QED BY <1>1, <1>2, <1>3

\* It is asked after the callback, when shutdown() has closed every connection.
LEMMA CallbackShutsDownInv ==
    ASSUME LoopInv, CallbackShutsDown
    PROVE  LoopInv'
  <1> USE DEF LoopInv, CallbackShutsDown, Continue, ConnectionOk, loopVars, roundVars,
              selectVars, connVars, boundVars
  <1>1. LoopTypeOK'
    BY DEF LoopTypeOK
  <1>2. DeadAreKnown'
    BY DEF LoopTypeOK, DeadAreKnown
  <1>3. NeverPollsNone'
    BY DEF LoopTypeOK, NeverPollsNone
  <1> QED BY <1>1, <1>2, <1>3

\* Out of the loop there is no round.
LEMMA LeaveInv ==
    ASSUME LoopInv, Leave
    PROVE  LoopInv'
  <1> USE DEF LoopInv, Leave, loopVars, roundVars, selectVars, connVars, boundVars
  <1>1. LoopTypeOK'
    BY DEF LoopTypeOK
  <1>2. DeadAreKnown'
    BY DEF LoopTypeOK, DeadAreKnown
  <1>3. NeverPollsNone'
    BY DEF LoopTypeOK, NeverPollsNone
  <1> QED BY <1>1, <1>2, <1>3

-----------------------------------------------------------------------------
\* epoll reports connections, and changes none.
LEMMA PollEpollInv ==
    ASSUME LoopInv, PollEpoll
    PROVE  LoopInv'
  <1> USE DEF LoopInv, PollEpoll, Round, loopVars, roundVars, selectVars, connVars,
              boundVars
  <1>1. LoopTypeOK'
    <2>1. read' \subseteq Conns /\ write' \subseteq Conns
      BY DEF LoopTypeOK, Register, Registered, Open
    <2>2. rd' \subseteq Conns /\ wr' \subseteq Conns /\ ex' \subseteq Conns
      BY <2>1 DEF LoopTypeOK
    <2> QED BY <2>1, <2>2 DEF LoopTypeOK
  <1>2. DeadAreKnown'
    BY DEF DeadAreKnown
  <1>3. NeverPollsNone'
    BY DEF NeverPollsNone
  <1> QED BY <1>1, <1>2, <1>3

\* _Select.poll begins: the submitted connections are those Continue looked at.
LEMMA StartSelectInv ==
    ASSUME LoopInv, StartSelect
    PROVE  LoopInv'
  <1> USE DEF LoopInv, StartSelect, Register, Registered, Open, loopVars, roundVars,
              selectVars, connVars, boundVars
  <1>1. LoopTypeOK'
    BY DEF LoopTypeOK
  <1>2. DeadAreKnown'
    BY DEF LoopTypeOK, DeadAreKnown
  <1>3. NeverPollsNone'
    BY DEF LoopTypeOK, NeverPollsNone
  <1> QED BY <1>1, <1>2, <1>3

\* The search for connections without a socket stays in poll().
LEMMA SelectFailsInv ==
    ASSUME LoopInv, SelectFails
    PROVE  LoopInv'
  <1> USE DEF LoopInv, SelectFails, loopVars, roundVars, selectVars, connVars, boundVars
  <1>1. LoopTypeOK'
    <2>1. candidates' \subseteq Conns /\ errors' \subseteq Conns
      BY DEF LoopTypeOK, Bad
    <2>2. read' \subseteq Conns /\ write' \subseteq Conns
      BY DEF LoopTypeOK, Discard
    <2>3. UNCHANGED <<poller, connVars, loopVars, abandoned, boundVars>>
      OBVIOUS
    <2> HIDE DEF SelectFails
    <2> QED BY <2>1, <2>2, <2>3 DEF LoopTypeOK
  <1>2. DeadAreKnown'
    BY DEF DeadAreKnown
  <1>3. NeverPollsNone'
    BY DEF NeverPollsNone
  <1> QED BY <1>1, <1>2, <1>3

\* select() reports connections, and changes none.
LEMMA SelectReturnsInv ==
    ASSUME LoopInv, SelectReturns
    PROVE  LoopInv'
  <1> USE DEF LoopInv, SelectReturns, Round, loopVars, roundVars, selectVars, connVars,
              boundVars
  <1>1. LoopTypeOK'
    BY DEF LoopTypeOK
  <1>2. DeadAreKnown'
    BY DEF LoopTypeOK, DeadAreKnown
  <1>3. NeverPollsNone'
    BY DEF LoopTypeOK, NeverPollsNone
  <1> QED BY <1>1, <1>2, <1>3

\* The exception out of poll() finds no connection of a round.
LEMMA SelectRaisesInv ==
    ASSUME LoopInv, SelectRaises
    PROVE  LoopInv'
  <1> USE DEF LoopInv, SelectRaises, loopVars, roundVars, selectVars, connVars, boundVars
  <1>1. LoopTypeOK'
    BY DEF LoopTypeOK
  <1>2. DeadAreKnown'
    BY DEF LoopTypeOK, DeadAreKnown
  <1>3. NeverPollsNone'
    BY DEF LoopTypeOK, NeverPollsNone
  <1> QED BY <1>1, <1>2, <1>3

-----------------------------------------------------------------------------
\* A failed read marks the connection as down and puts it among the dead.
LEMMA HandleReadDeadInv ==
    ASSUME LoopInv, NEW c \in Conns, HandleReadDead(c)
    PROVE  LoopInv'
  <1> USE DEF LoopInv, HandleReadDead, Lost, loopVars, roundVars, selectVars, connVars,
              boundVars
  <1>1. LoopTypeOK'
    BY DEF LoopTypeOK
  <1>2. DeadAreKnown'
    BY DEF LoopTypeOK, DeadAreKnown
  <1>3. NeverPollsNone'
    BY DEF LoopTypeOK, NeverPollsNone
  <1> QED BY <1>1, <1>2, <1>3

\* A write leaves the connection as it is, or makes it one of the dead.
LEMMA HandleWriteInv ==
    ASSUME LoopInv, NEW c \in Conns, HandleWrite(c)
    PROVE  LoopInv'
  <1> USE DEF LoopInv, HandleWrite, ReadsDone, loopVars, roundVars, selectVars, connVars,
              boundVars
  <1>1. LoopTypeOK'
    <2>1. outgoing' \in [Conns -> Seq(SendKinds)]
      BY DEF LoopTypeOK
    <2>2. /\ connected' \in [Conns -> BOOLEAN] /\ dead' \subseteq Conns
          /\ \A d \in Conns : connected'[d] => connected[d]
      BY DEF LoopTypeOK, Lost
    <2> QED BY <2>1, <2>2 DEF LoopTypeOK
  <1>2. DeadAreKnown'
    BY DEF LoopTypeOK, DeadAreKnown, Lost
  <1>3. NeverPollsNone'
    BY DEF NeverPollsNone
  <1> QED BY <1>1, <1>2, <1>3

\* Who is taken off the dead has lost its socket.
LEMMA HandleErrorInv ==
    ASSUME LoopInv, NEW c \in Conns, HandleError(c)
    PROVE  LoopInv'
  <1> USE DEF LoopInv, HandleError, ReadsDone, CloseAndTell, loopVars, roundVars,
              selectVars, connVars, boundVars
  <1>1. LoopTypeOK'
    BY DEF LoopTypeOK
  <1>2. DeadAreKnown'
    BY DEF LoopTypeOK, DeadAreKnown
  <1>3. NeverPollsNone'
    BY DEF LoopTypeOK, NeverPollsNone
  <1> QED BY <1>1, <1>2, <1>3

\* A round ends with none dead: who is down and has a socket was abandoned before.
LEMMA RoundEndsInv ==
    ASSUME LoopInv, RoundEnds
    PROVE  LoopInv'
  <1> USE DEF LoopInv, RoundEnds, ReadsDone, loopVars, roundVars, selectVars, connVars,
              boundVars
  <1>1. LoopTypeOK'
    BY DEF LoopTypeOK
  <1>2. DeadAreKnown'
    BY DEF LoopTypeOK, DeadAreKnown
  <1>3. NeverPollsNone'
    BY DEF LoopTypeOK, NeverPollsNone
  <1> QED BY <1>1, <1>2, <1>3

\* A read that raises abandons the dead of its round.
LEMMA HandleReadInv ==
    ASSUME LoopInv, NEW c \in Conns, HandleRead(c)
    PROVE  LoopInv'
  <1> USE DEF LoopInv, loopVars, roundVars, selectVars, connVars, boundVars
  <1>1. arrived' \in [Conns -> Seq(RecvKinds)] /\ incoming' \in [Conns -> Seq(RecvKinds)]
    <2>1. arrived[c] \in Seq(RecvKinds) /\ incoming[c] \in Seq(RecvKinds)
      BY DEF LoopTypeOK
    <2>2. PICK n \in 1 .. Len(arrived[c]) :
             LET queue == incoming[c] \o SubSeq(arrived[c], 1, n) IN
             \E taken \in DOMAIN queue :
                /\ arrived' = [arrived EXCEPT ![c] = Drop(@, n)]
                /\ incoming' = [incoming EXCEPT ![c] = Drop(queue, taken)]
      BY DEF HandleRead
    <2> DEFINE queue == incoming[c] \o SubSeq(arrived[c], 1, n)
    <2>3. queue \in Seq(RecvKinds)
      BY <2>1
    <2>4. PICK taken \in DOMAIN queue :
             /\ arrived' = [arrived EXCEPT ![c] = Drop(@, n)]
             /\ incoming' = [incoming EXCEPT ![c] = Drop(queue, taken)]
      BY <2>2
    <2>5. taken \in Nat /\ n \in Nat
      <3> HIDE DEF queue
      <3> QED BY <2>3
    <2>6. Drop(arrived[c], n) \in Seq(RecvKinds) /\ Drop(queue, taken) \in Seq(RecvKinds)
      <3> HIDE DEF queue
      <3> QED BY <2>1, <2>3, <2>5, DropType
    <2> HIDE DEF queue
    <2> QED BY <2>4, <2>6 DEF LoopTypeOK
  <1>2. LoopTypeOK'
    <2>1. UNCHANGED <<poller, connected, socket, handled, peer, outgoing, selectVars,
                      boundVars, submitted, map>>
      BY DEF HandleRead, Escape
    <2>2. \/ /\ phase' = "idle" /\ abandoned' \subseteq Conns
             /\ rd' = {} /\ wr' = {} /\ ex' = {} /\ dead' = {} /\ failed' = {}
          \/ rd' = rd \ {c} /\ UNCHANGED <<phase, wr, ex, dead, failed, abandoned>>
      BY DEF HandleRead, Escape, LoopTypeOK
    <2>3. phase = "round"
      BY DEF HandleRead
    <2> QED BY <1>1, <2>1, <2>2, <2>3 DEF LoopTypeOK
  <1>3. DeadAreKnown'
    BY DEF DeadAreKnown, HandleRead, Escape
  <1>4. NeverPollsNone'
    BY DEF NeverPollsNone, HandleRead, Escape
  <1> QED BY <1>2, <1>3, <1>4

\* A write that raises does too.
LEMMA HandleWriteRaisesInv ==
    ASSUME LoopInv, NEW c \in Conns, HandleWriteRaises(c)
    PROVE  LoopInv'
  <1> USE DEF LoopInv, HandleWriteRaises, ReadsDone, Escape, loopVars, roundVars,
              selectVars, connVars, boundVars
  <1>1. LoopTypeOK'
    <2>1. outgoing[c] \in Seq(SendKinds)
      BY DEF LoopTypeOK
    <2>2. PICK n \in DOMAIN outgoing[c] : outgoing' = [outgoing EXCEPT ![c] = Drop(@, n)]
      OBVIOUS
    <2>3. Drop(outgoing[c], n) \in Seq(SendKinds)
      BY <2>1, DropType
    <2>4. outgoing' \in [Conns -> Seq(SendKinds)]
      BY <2>2, <2>3 DEF LoopTypeOK
    <2>5. abandoned' \subseteq Conns
      BY DEF LoopTypeOK
    <2> QED BY <2>4, <2>5 DEF LoopTypeOK
  <1>2. DeadAreKnown'
    BY DEF LoopTypeOK, DeadAreKnown
  <1>3. NeverPollsNone'
    BY DEF LoopTypeOK, NeverPollsNone
  <1> QED BY <1>1, <1>2, <1>3

-----------------------------------------------------------------------------
\* Every step of the loop, its applications and its peers keeps the invariant.
LEMMA StepInv == LoopInv /\ [Next]_vars => LoopInv'
  <1> SUFFICES ASSUME LoopInv, [Next]_vars PROVE LoopInv'
    OBVIOUS
  <1>1. CASE UNCHANGED vars
    BY <1>1 DEF LoopInv, LoopTypeOK, DeadAreKnown, NeverPollsNone, vars, connVars, loopVars,
                roundVars, selectVars, boundVars
  <1>2. CASE LoopStep
    <2>1. CASE CallbackGoesOn
      BY <2>1, CallbackGoesOnInv
    <2>2. CASE PollEpoll
      BY <2>2, PollEpollInv
    <2>3. CASE StartSelect
      BY <2>3, StartSelectInv
    <2>4. CASE SelectFails
      BY <2>4, SelectFailsInv
    <2>5. CASE SelectReturns
      BY <2>5, SelectReturnsInv
    <2>6. CASE SelectRaises
      BY <2>6, SelectRaisesInv
    <2>7. CASE \E c \in Conns : \/ HandleRead(c) \/ HandleReadDead(c)
                                \/ HandleWrite(c) \/ HandleWriteRaises(c) \/ HandleError(c)
      <3> PICK c \in Conns : \/ HandleRead(c) \/ HandleReadDead(c)
                             \/ HandleWrite(c) \/ HandleWriteRaises(c) \/ HandleError(c)
        BY <2>7
      <3>1. CASE HandleRead(c)
        BY <3>1, HandleReadInv
      <3>2. CASE HandleReadDead(c)
        BY <3>2, HandleReadDeadInv
      <3>3. CASE HandleWrite(c)
        BY <3>3, HandleWriteInv
      <3>4. CASE HandleWriteRaises(c)
        BY <3>4, HandleWriteRaisesInv
      <3>5. CASE HandleError(c)
        BY <3>5, HandleErrorInv
      <3> QED BY <3>1, <3>2, <3>3, <3>4, <3>5
    <2>8. CASE RoundEnds
      BY <2>8, RoundEndsInv
    <2> QED BY <1>2, <2>1, <2>2, <2>3, <2>4, <2>5, <2>6, <2>7, <2>8 DEF LoopStep
  <1>3. CASE CallbackShutsDown
    BY <1>3, CallbackShutsDownInv
  <1>4. CASE Leave
    BY <1>4, LeaveInv
  <1>5. CASE \E S \in (SUBSET Conns) : StartLoop(S)
    BY <1>5, StartLoopInv
  <1>6. CASE \E c \in Conns : \/ Establish(c) \/ PeerCloses(c)
                              \/ \E kind \in SendKinds : SendCommand(c, kind)
                              \/ \E kind \in RecvKinds : ServerSays(c, kind)
    BY <1>6, EstablishInv, PeerClosesInv, SendCommandInv, ServerSaysInv
  <1> QED BY <1>1, <1>2, <1>3, <1>4, <1>5, <1>6 DEF Next

\* Every behaviour of the loop keeps it.
LEMMA InvHolds == Spec => []LoopInv
  <1>1. Init => LoopInv
    BY InitInv, LoopAssumption
  <1> QED BY <1>1, StepInv, PTL DEF Spec

-----------------------------------------------------------------------------
(***************************************************************************)
(* The theorems.                                                           *)
(***************************************************************************)

\* For any connections and either poller: a connection marked up has its socket and
\* its handler, though the callback, the reads, the writes and the poller's report
\* all take connections down; and no dead connection is left for the next round.
THEOREM LoopTypeCorrect == Spec => []LoopTypeOK
  <1>1. LoopInv => LoopTypeOK
    BY DEF LoopInv
  <1> QED BY <1>1, InvHolds, PTL

\* connection_manager.py: "close all of the dead connections".  Between rounds every
\* connection found dead is closed and its handler told, however many are found in
\* one round and whoever finds them, unless an exception ended that round.
THEOREM DeadAlwaysTold == Spec => []DeadAreTold
  <1>1. LoopInv => DeadAreTold
    BY DEF LoopInv, LoopTypeOK, DeadAreKnown, DeadAreTold
  <1> QED BY <1>1, InvHolds, PTL

\* connection_manager.py: "don't go into a select polling loop with no connections".
\* Whatever became of the connections in the round and in the callback before, the
\* poller blocks for one at least that is up.
THEOREM AlwaysSomebodyPolled == Spec => []NeverPollsNone
  <1>1. LoopInv => NeverPollsNone
    BY DEF LoopInv
  <1> QED BY <1>1, InvHolds, PTL
=============================================================================
