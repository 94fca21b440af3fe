--------------------------- MODULE ClientPollProofs ---------------------------
(***************************************************************************)
(* Theorems about ClientPoll, for any number of requests, servers, file    *)
(* descriptors and waits.  Every step of a wait is one of ClientHandler's, *)
(* so that what is proved there holds inside every wait; what the waits    *)
(* add to it is proved on top of that.                                     *)
(***************************************************************************)
EXTENDS ClientPoll, ClientSubmissionProofs, SequenceTheorems, FiniteSetTheorems
-----------------------------------------------------------------------------
(***************************************************************************)
(* Rotations.                                                              *)
(***************************************************************************)

\* An order of the connections is a sequence that has each of them once.
LEMMA OrdersType ==
    /\ Cardinality(Conns) \in Nat
    /\ \A s \in Orders : /\ s \in Seq(Conns) /\ Len(s) = Cardinality(Conns)
                         /\ DOMAIN s = 1 .. Len(s)
                         /\ \A i, j \in 1 .. Len(s) : s[i] = s[j] => i = j
  <1>1. Cardinality(Conns) \in Nat
    BY PollAssumption, FS_CardinalityType
  <1> QED BY <1>1 DEF Orders

\* What deque.rotate gives: the elements after the k-th, then the first k.
LEMMA RotateElements ==
    ASSUME NEW s \in Orders, NEW k \in 0 .. Len(s) - 1
    PROVE  /\ Rotate(s, k) \in Seq(Conns) /\ Len(Rotate(s, k)) = Len(s)
           /\ \A i \in 1 .. Len(s) :
                 Rotate(s, k)[i] = IF i <= Len(s) - k THEN s[k + i] ELSE s[i - (Len(s) - k)]
  <1> DEFINE n == Len(s)
             a == SubSeq(s, k + 1, n)
             b == SubSeq(s, 1, k)
  <1>1. n \in Nat /\ k \in Nat /\ k < n /\ s \in Seq(Conns)
    BY OrdersType
  <1>2. \A i \in 1 .. n : s[i] \in Conns
    BY <1>1
  <1>3. /\ a \in Seq(Conns) /\ Len(a) = n - k
        /\ \A i \in 1 .. n - k : a[i] = s[k + i]
    <2>1. \A i \in k + 1 .. n : s[i] \in Conns
      BY <1>1, <1>2
    <2>2. /\ a \in Seq(Conns)
          /\ Len(a) = IF k + 1 <= n THEN n - (k + 1) + 1 ELSE 0
          /\ \A i \in 1 .. n - (k + 1) + 1 : a[i] = s[(k + 1) + i - 1]
      <3>1. k + 1 \in Int /\ n \in Int
        BY <1>1
      <3> HIDE DEF n
      <3> QED BY <2>1, <3>1, SubSeqProperties
    <2>3. n - (k + 1) + 1 = n - k /\ \A i \in Int : (k + 1) + i - 1 = k + i
      BY <1>1
    <2> HIDE DEF a, n
    <2> QED BY <1>1, <2>2, <2>3
  <1>4. /\ b \in Seq(Conns) /\ Len(b) = k
        /\ \A i \in 1 .. k : b[i] = s[i]
    <2>1. \A i \in 1 .. k : s[i] \in Conns
      BY <1>1, <1>2
    <2>2. /\ b \in Seq(Conns)
          /\ Len(b) = IF 1 <= k THEN k - 1 + 1 ELSE 0
          /\ \A i \in 1 .. k - 1 + 1 : b[i] = s[1 + i - 1]
      BY <1>1, <2>1, SubSeqProperties
    <2> HIDE DEF b, n
    <2> QED BY <1>1, <2>2
  <1>5. Rotate(s, k) = a \o b
    BY DEF Rotate
  <1> HIDE DEF a, b, n
  <1>6. /\ a \o b \in Seq(Conns) /\ Len(a \o b) = Len(a) + Len(b)
        /\ \A i \in 1 .. Len(a) + Len(b) :
               (a \o b)[i] = IF i <= Len(a) THEN a[i] ELSE b[i - Len(a)]
    BY <1>3, <1>4, ConcatProperties
  <1> DEFINE t == Rotate(s, k)
  <1>7. /\ t \in Seq(Conns) /\ Len(t) = n
        /\ \A i \in 1 .. n : t[i] = IF i <= n - k THEN a[i] ELSE b[i - (n - k)]
    <2>1. Len(a) + Len(b) = n
      BY <1>1, <1>3, <1>4
    <2> QED BY <1>3, <1>5, <1>6, <2>1
  <1> HIDE DEF t
  <1>8. \A i \in 1 .. n : t[i] = IF i <= n - k THEN s[k + i] ELSE s[i - (n - k)]
    <2> SUFFICES ASSUME NEW i \in 1 .. n
                 PROVE  t[i] = IF i <= n - k THEN s[k + i] ELSE s[i - (n - k)]
      OBVIOUS
    <2>1. CASE i <= n - k
      <3>1. i \in 1 .. n - k
        BY <1>1, <2>1
      <3> QED BY <1>3, <1>7, <2>1, <3>1
    <2>2. CASE ~(i <= n - k)
      <3>1. i - (n - k) \in 1 .. k
        BY <1>1, <2>2
      <3> QED BY <1>4, <1>7, <2>2, <3>1
    <2> QED BY <2>1, <2>2
  <1> QED BY <1>7, <1>8 DEF t, n

\* Rotating an order gives an order, with the element after the k-th first.
LEMMA RotateType ==
    ASSUME NEW s \in Orders, NEW k \in 0 .. Len(s) - 1
    PROVE  Rotate(s, k) \in Orders /\ Head(Rotate(s, k)) = s[k + 1] /\ Rotate(s, k) # <<>>
  <1> DEFINE n == Len(s)
             t == Rotate(s, k)
  <1>1. n \in Nat /\ k \in Nat /\ k < n /\ n = Cardinality(Conns)
    BY OrdersType
  <1>2. /\ t \in Seq(Conns) /\ Len(t) = n
        /\ \A i \in 1 .. n : t[i] = IF i <= n - k THEN s[k + i] ELSE s[i - (n - k)]
    BY RotateElements
  <1>3. \A i, j \in 1 .. n : s[i] = s[j] => i = j
    BY OrdersType
  <1> HIDE DEF n, t
  <1>4. \A i, j \in 1 .. n : t[i] = t[j] => i = j
    <2> SUFFICES ASSUME NEW i \in 1 .. n, NEW j \in 1 .. n, t[i] = t[j] PROVE i = j
      OBVIOUS
    <2> DEFINE at(x) == IF x <= n - k THEN k + x ELSE x - (n - k)
    <2>1. \A x \in 1 .. n : at(x) \in 1 .. n /\ t[x] = s[at(x)]
      BY <1>1, <1>2
    <2>2. at(i) = at(j)
      <3> HIDE DEF at
      <3> QED BY <1>3, <2>1
    <2> QED BY <1>1, <2>2
  <1>5. t \in [1 .. Cardinality(Conns) -> Conns] /\ DOMAIN t = 1 .. n
    BY <1>1, <1>2
  <1>6. t \in Orders
    BY <1>4, <1>5 DEF Orders
  <1>7. t # <<>> /\ Head(t) = t[1] /\ t[1] = s[k + 1]
    BY <1>1, <1>2
  <1> QED BY <1>6, <1>7 DEF t
-----------------------------------------------------------------------------
(***************************************************************************)
(* What the steps of the handler do to what the waits look at.             *)
(***************************************************************************)

\* A request is answered, or nothing happens to it.
Answered ==
    /\ UNCHANGED <<attempts, conn, held, connected, boundVars>>
    /\ \A q \in Requests :
           \/ state'[q] = state[q]
           \/ state[q] \in {"PENDING", "CREATED"} /\ state'[q] \in Settled

\* A command is handled.
Handled(c) == \/ RecvJobCreated(c) \/ RecvWorkUpdate(c) \/ RecvWorkComplete(c)
              \/ RecvWorkFail(c) \/ RecvStatusRes(c)

LEMMA HandledAnswers ==
    ASSUME TypeOK, NEW c \in Conns, Handled(c)
    PROVE  Receive(c) /\ Answered
  <1>1. Receive(c)
    BY DEF Handled, Receive
  <1>2. CASE RecvJobCreated(c)
    <2>1. /\ state' = [state EXCEPT ![Head(awaiting[c])] = "CREATED"]
          /\ state[Head(awaiting[c])] = "PENDING"
          /\ UNCHANGED <<attempts, conn, held, connected, boundVars>>
      BY <1>2 DEF RecvJobCreated, Fetch, Accepts, WorkTypes, UpdateTypes, FinalTypes, linkVars
    <2> QED BY <1>1, <2>1 DEF Answered, TypeOK, RequestsOK, Settled
  <1>3. CASE RecvWorkUpdate(c) \/ RecvWorkComplete(c) \/ RecvWorkFail(c) \/ RecvStatusRes(c)
    <2>1. UNCHANGED attempts
      BY <1>3 DEF RecvWorkUpdate, RecvWorkComplete, RecvWorkFail, RecvStatusRes
    <2> QED BY <1>1, <1>3, <2>1, RecvWorkState DEF Answered, Settled, linkVars
  <1> QED BY <1>2, <1>3 DEF Handled

\* A connection is lost, and with it some requests.
Dropped(d) ==
    /\ connected[d]
    /\ connected' = [connected EXCEPT ![d] = FALSE]
    /\ UNCHANGED <<attempts, conn, held, boundVars>>
    /\ \A q \in Requests : state'[q] \in {state[q], "UNKNOWN"}

LEMMA HandleErrorDrops ==
    ASSUME TypeOK, NEW d \in Conns, HandleError(d)
    PROVE  Dropped(d)
    BY DEF HandleError, Dropped, TypeOK, RequestsOK

\* A request is sent, on a connection that was up or is now.
Sent(r, c) ==
    /\ state[r] = "UNKNOWN" /\ attempts[r] < MaxAttempts
    /\ state' = [state EXCEPT ![r] = "PENDING"]
    /\ attempts' = [attempts EXCEPT ![r] = @ + 1]
    /\ conn' = [conn EXCEPT ![r] = c]
    /\ connected' = [connected EXCEPT ![c] = TRUE]
    /\ UNCHANGED <<held, boundVars>>

LEMMA SendSends ==
    ASSUME TypeOK, NEW r \in Requests, NEW c \in Conns, SendJobRequest(r, c)
    PROVE  Sent(r, c)
  <1>1. connected' = [connected EXCEPT ![c] = TRUE]
    BY DEF SendJobRequest, SendOnOpenConnection, SendOnNewConnection, TypeOK, SessionsOK,
           linkVars
  <1> QED
    BY <1>1
    DEF SendJobRequest, SendOnOpenConnection, SendOnNewConnection, MarkSubmitted, Sent,
        linkVars

\* A server says something.
LEMMA ServerSpeaks ==
    ASSUME NEW c \in Conns, ServerActs(c)
    PROVE  /\ Server(c)
           /\ UNCHANGED <<requestVars, connected, closings, rejects, waitVars>>
  <1>1. UNCHANGED waitVars
    BY DEF ServerActs
  <1>2. CASE ServerCreatesJob(c) \/ ServerAnswersStatus(c)
    BY <1>1, <1>2 DEF Server, ServerCreatesJob, ServerAnswersStatus, boundVars,
        linkVars
  <1>3. ASSUME NEW h \in Foreground(c), NEW type \in UpdateTypes, ServerUpdates(c, h, type)
        PROVE  /\ Server(c)
               /\ UNCHANGED <<requestVars, connected, closings, rejects>>
    BY <1>3 DEF Foreground, Server, ServerUpdates, linkVars
  <1>4. ASSUME NEW h \in Foreground(c), NEW type \in FinalTypes, ServerFinishes(c, h, type)
        PROVE  /\ Server(c)
               /\ UNCHANGED <<requestVars, connected, closings, rejects>>
    BY <1>4 DEF Foreground, Server, ServerFinishes, boundVars, linkVars
  <1> QED BY <1>1, <1>2, <1>3, <1>4 DEF ServerActs
-----------------------------------------------------------------------------
(***************************************************************************)
(* Types, and the file descriptors of the sockets that are open.           *)
(***************************************************************************)

\* A connection that is up has a descriptor, which no other has.
Sockets ==
    /\ \A c \in Conns : connected[c] => fileno[c] \in Fds
    /\ \A c, d \in Conns : connected[c] /\ connected[d] /\ fileno[c] = fileno[d] => c = d

InWait == phase # "idle" => wait \in Waits

WaitTyped == PollTypeOK /\ Sockets /\ InWait

LEMMA SocketsKept ==
    ASSUME Sockets, UNCHANGED fileno, \A c \in Conns : connected'[c] => connected[c]
    PROVE  Sockets'
    BY DEF Sockets

LEMMA TargetType ==
    ASSUME WaitTyped, NEW c \in Conns, connected[c]
    PROVE  Target(c) \in Conns \cup {None}
    BY DEF WaitTyped, PollTypeOK, Sockets, Target

LEMMA EnterTyped ==
    ASSUME WaitTyped, NEW w \in Waits, NEW B \in SUBSET Requests, Enter(w, B),
           UNCHANGED connected, dirty' \in [Conns -> BOOLEAN]
    PROVE  WaitTyped'
  <1>1. PollTypeOK'
    BY DEF Enter, WaitTyped, PollTypeOK, Phases, Waits
  <1> QED BY <1>1, SocketsKept DEF Enter, WaitTyped, InWait

LEMMA RaiseTyped ==
    ASSUME WaitTyped, NEW error \in Errors, Raise(error),
           UNCHANGED <<connected, fileno, dirty>>,
           rotation' \in [Requests -> {<<>>} \cup Orders]
    PROVE  WaitTyped'
  <1>1. PollTypeOK'
    BY DEF Raise, WaitTyped, PollTypeOK, Phases, Errors
  <1> QED BY <1>1, SocketsKept DEF Raise, WaitTyped, InWait

LEMMA ReturnTyped ==
    ASSUME TypeOK, WaitTyped, InCallback, NEW how \in {"returned", "timeout"}, Return(how)
    PROVE  WaitTyped'
  <1>1. UNCHANGED <<connected, wait, batch, polled, map, fileno, dirty, calls>>
    BY DEF Return, vars, sessionVars
  <1>2. timed_out' \in [Requests -> BOOLEAN]
    <2>1. \A r \in Requests : status[r].fresh \in BOOLEAN
      BY DEF TypeOK, RequestsOK, Statuses
    <2>2. \A r \in Requests : timed_out'[r] \in BOOLEAN
      <3> SUFFICES ASSUME NEW r \in Requests PROVE timed_out'[r] \in BOOLEAN
        OBVIOUS
      <3>1. timed_out'[r] =
              IF r \notin batch THEN timed_out[r]
              ELSE CASE wait = "accept"   -> state[r] = "PENDING"
                     [] wait = "complete" -> ~Complete(r)
                     [] wait = "status"   -> ~status[r].fresh
        BY DEF Return, MarkTimedOut
      <3>2. wait \in Waits
        BY DEF InCallback, WaitTyped, InWait
      <3>3. CASE r \notin batch
        BY <3>1, <3>3 DEF WaitTyped, PollTypeOK
      <3>4. CASE r \in batch /\ wait = "accept"
        BY <3>1, <3>4
      <3>5. CASE r \in batch /\ wait = "complete"
        BY <3>1, <3>5
      <3>6. CASE r \in batch /\ wait = "status"
        BY <2>1, <3>1, <3>6
      <3> QED BY <3>2, <3>3, <3>4, <3>5, <3>6 DEF Waits
    <2> QED BY <2>2 DEF Return, MarkTimedOut
  <1>3. rotation' \in [Requests -> {<<>>} \cup Orders]
    BY DEF Return, WaitTyped, PollTypeOK
  <1>4. PollTypeOK'
    BY <1>1, <1>2, <1>3 DEF Return, WaitTyped, PollTypeOK, Phases
  <1> QED BY <1>1, <1>4, SocketsKept DEF WaitTyped, Return, InWait

\* The order in which a request tries the servers, and the descriptor of the one
\* it is sent on.
LEMMA ChooseTyped ==
    ASSUME WaitTyped, NEW r \in Requests, NEW c \in Conns, ChooseConnection(r, c),
           TypeOK, Sent(r, c)
    PROVE  /\ rotation' \in [Requests -> {<<>>} \cup Orders]
           /\ fileno' \in [Conns -> Fds \cup {None}]
           /\ Sockets'
           /\ Head(rotation'[r]) = c
           /\ \A q \in Requests \ {r} : rotation'[q] = rotation[q]
  <1>1. PICK order \in (IF rotation[r] = <<>> THEN Orders ELSE {rotation[r]}) :
             \E k \in 0 .. Len(order) - 1 :
                /\ order[k + 1] = c
                /\ rotation' = [rotation EXCEPT ![r] = Rotate(order, k)]
    BY DEF ChooseConnection
  <1>2. order \in Orders
    BY DEF WaitTyped, PollTypeOK
  <1>3. PICK k \in 0 .. Len(order) - 1 :
             order[k + 1] = c /\ rotation' = [rotation EXCEPT ![r] = Rotate(order, k)]
    BY <1>1
  <1>4. Rotate(order, k) \in Orders /\ Head(Rotate(order, k)) = c
    BY <1>2, <1>3, RotateType
  <1>5. rotation \in [Requests -> {<<>>} \cup Orders]
    BY DEF WaitTyped, PollTypeOK
  <1>6. /\ rotation' \in [Requests -> {<<>>} \cup Orders]
        /\ Head(rotation'[r]) = c
        /\ \A q \in Requests \ {r} : rotation'[q] = rotation[q]
    BY <1>3, <1>4, <1>5
  <1>7. /\ \A d \in Conns : connected'[d] = (d = c \/ connected[d])
        /\ fileno \in [Conns -> Fds \cup {None}]
    BY DEF Sent, TypeOK, SessionsOK, WaitTyped, PollTypeOK
  <1>8. fileno' \in [Conns -> Fds \cup {None}] /\ Sockets'
    <2>1. CASE connected[c]
      <3>1. UNCHANGED fileno
        BY <2>1 DEF ChooseConnection
      <3> QED BY <1>7, <2>1, <3>1, SocketsKept DEF WaitTyped
    <2>2. CASE ~connected[c]
      <3>1. PICK f \in Fds \ {fileno[d] : d \in {x \in Conns : connected[x]}} :
                 fileno' = [fileno EXCEPT ![c] = f]
        BY <2>2 DEF ChooseConnection
      <3> QED BY <1>7, <2>2, <3>1 DEF Sockets, WaitTyped
    <2> QED BY <2>1, <2>2
  <1> QED BY <1>6, <1>8
-----------------------------------------------------------------------------
(***************************************************************************)
(* The steps of a wait, sorted by what they do to the wait.                *)
(***************************************************************************)

\* What a step may leave alone: requests and connections, as far as waits look.
Still == UNCHANGED <<state, attempts, conn, held, connected, closings, rejects>>

Entered == \E w \in Waits, B \in SUBSET Requests :
    Enter(w, B) /\ Still /\ dirty' \in [Conns -> BOOLEAN]

\* get_job_status that raises before it waits.
AskedOfLost ==
    /\ phase = "idle" /\ wait' = "status" /\ batch' \in SUBSET Requests
    /\ outcome' = "KeyError" /\ calls' = calls + 1 /\ Still
    /\ UNCHANGED <<phase, polled, map, fileno, dirty, rotation, timed_out>>

\* A wait that ends with an exception, after which only requests that are not sent
\* may have another rotation.
Raised ==
    /\ \E error \in Errors : Raise(error)
    /\ Still
    /\ UNCHANGED <<fileno, dirty>>
    /\ rotation' \in [Requests -> {<<>>} \cup Orders]
    /\ \A q \in Requests : state[q] # "UNKNOWN" => rotation'[q] = rotation[q]

\* A connection closed untold when the wait that polled it has raised.
Abandoned ==
    /\ phase = "idle" /\ closings' # 0
    /\ UNCHANGED <<state, attempts, conn, held, rejects>>
    /\ \A c \in Conns : connected'[c] => connected[c]
    /\ dirty' \in [Conns -> BOOLEAN]
    /\ UNCHANGED <<phase, wait, batch, outcome, polled, map, fileno, rotation, timed_out,
                   calls>>

Written ==
    /\ dirty' \in [Conns -> BOOLEAN]
    /\ UNCHANGED <<vars, phase, wait, batch, outcome, polled, map, fileno, rotation,
                   timed_out, calls>>

LEMMA ApplicationSteps ==
    ASSUME TypeOK, WaitTyped,
           \/ \E B \in SUBSET Requests : Submit(B) \/ AwaitCompletion(B)
           \/ \E r \in Requests : AskStatus(r) \/ AskStatusOfLost(r)
    PROVE  /\ phase = "idle" /\ (Entered \/ AskedOfLost)
           /\ Next \/ UNCHANGED vars
  <1>1. ASSUME NEW B \in SUBSET Requests, Submit(B) \/ AwaitCompletion(B)
        PROVE  Entered /\ phase = "idle" /\ UNCHANGED vars
    <2>1. /\ Enter("accept", B) \/ Enter("complete", B)
          /\ UNCHANGED <<vars, dirty>> /\ phase = "idle"
      BY <1>1 DEF Submit, AwaitCompletion, Enter
    <2>2. Still /\ dirty' \in [Conns -> BOOLEAN]
      BY <2>1
      DEF Still, vars, requestVars, sessionVars, boundVars, WaitTyped, PollTypeOK
    <2> QED BY <2>1, <2>2 DEF Entered, Waits
  <1>2. ASSUME NEW r \in Requests, AskStatus(r)
        PROVE  Entered /\ phase = "idle" /\ Next
    <2>1. Enter("status", {r}) /\ GetJobStatus(r) /\ phase = "idle"
      BY <1>2 DEF AskStatus, Enter
    <2>2. Still
      BY <2>1 DEF GetJobStatus, Still, linkVars
    <2>3. dirty' \in [Conns -> BOOLEAN]
      BY <1>2 DEF AskStatus, WaitTyped, PollTypeOK
    <2> QED BY <2>1, <2>2, <2>3 DEF Entered, Waits, Next
  <1>3. ASSUME NEW r \in Requests, AskStatusOfLost(r)
        PROVE  AskedOfLost /\ phase = "idle" /\ Next
    <2>1. GetStatusOfLost(r)
      BY <1>3 DEF AskStatusOfLost
    <2>2. Still
      BY <2>1 DEF GetStatusOfLost, Still, sessionVars, boundVars
    <2> QED BY <1>3, <2>1, <2>2 DEF AskStatusOfLost, AskedOfLost, Next
  <1> QED BY <1>1, <1>2, <1>3

LEMMA CallbackSteps ==
    ASSUME TypeOK, WaitTyped, Callback
    PROVE  /\ InCallback
           /\ \/ \E r \in Requests, c \in Conns : Send(r, c)
              \/ Raised
              \/ CallbackContinues
              \/ CallbackTimesOut \/ CallbackStops
           /\ Next \/ UNCHANGED vars
  <1>1. rotation \in [Requests -> {<<>>} \cup Orders]
    BY DEF WaitTyped, PollTypeOK
  <1>2. ASSUME NEW r \in Requests, SendRefused(r)
        PROVE  InCallback /\ Raised /\ UNCHANGED vars
    <2>1. /\ InCallback /\ r \in Unsent /\ UNCHANGED <<vars, fileno, dirty>>
          /\ \E error \in Errors : Raise(error)
      BY <1>2 DEF SendRefused, Errors
    <2>2. state[r] = "UNKNOWN"
      BY <2>1 DEF Unsent
    <2>3. \/ rotation' = rotation
          \/ \E order \in Orders : rotation' = [rotation EXCEPT ![r] = order]
      BY <1>1, <1>2 DEF SendRefused
    <2>4. Still
      BY <2>1 DEF Still, vars, requestVars, sessionVars, boundVars
    <2> QED BY <1>1, <2>1, <2>2, <2>3, <2>4 DEF Raised
  <1>3. ASSUME NEW r \in Requests, NEW c \in Conns, Send(r, c)
        PROVE  InCallback /\ Next
    BY <1>3 DEF Send, Next
  <1>4. ASSUME CallbackContinues \/ CallbackTimesOut \/ CallbackStops
        PROVE  InCallback /\ UNCHANGED vars
    BY <1>4 DEF CallbackContinues, CallbackTimesOut, CallbackStops, Return
  <1>5. ASSUME CallbackFindsNoConnection
        PROVE  InCallback /\ Raised /\ UNCHANGED vars
    BY <1>1, <1>5
    DEF CallbackFindsNoConnection, Raised, Errors, Still, vars, requestVars, sessionVars,
        boundVars
  <1> QED BY <1>2, <1>3, <1>4, <1>5 DEF Callback

\* The two outcomes of handle_read, and of handle_write.
LEMMA ReadSteps ==
    ASSUME WaitTyped, NEW d \in Conns, Read(d)
    PROVE  /\ (Handled(d) /\ UNCHANGED waitVars) \/ Raised
           /\ Next
  <1>1. CASE Handled(d) /\ UNCHANGED waitVars
    BY <1>1 DEF Handled, Next, Receive
  <1>2. CASE /\ RecvRaises(d) /\ Raise("RoundRaised")
             /\ UNCHANGED <<fileno, dirty, rotation>>
    <2>1. Still
      BY <1>2 DEF RecvRaises, Still, requestVars, linkVars, boundVars
    <2>2. Next
      BY <1>2 DEF Next, Receive
    <2> QED BY <1>2, <2>1, <2>2 DEF Raised, Errors, WaitTyped, PollTypeOK
  <1> QED BY <1>1, <1>2 DEF Read, Handled

LEMMA WriteSteps ==
    ASSUME WaitTyped, NEW d \in Conns, Write(d)
    PROVE  /\ Written \/ Raised
           /\ Next \/ UNCHANGED vars
  <1>1. CASE /\ dirty' = [dirty EXCEPT ![d] = FALSE]
             /\ UNCHANGED <<vars, phase, wait, batch, outcome, polled, map, fileno,
                            rotation, timed_out, calls>>
    BY <1>1 DEF Written, WaitTyped, PollTypeOK
  <1>2. CASE /\ PackFails(d) /\ Raise("RoundRaised")
             /\ UNCHANGED <<fileno, dirty, rotation>>
    <2>1. Still
      BY <1>2 DEF PackFails, Still, requestVars, linkVars
    <2>2. Next
      BY <1>2 DEF Next
    <2> QED BY <1>2, <2>1, <2>2 DEF Raised, Errors, WaitTyped, PollTypeOK
  <1> QED BY <1>1, <1>2 DEF Write

LEMMA PollSteps ==
    ASSUME TypeOK, WaitTyped, Poll
    PROVE  /\ phase = "polling"
           /\ \/ \E d \in Conns : Handled(d) /\ UNCHANGED waitVars
              \/ \E d \in Conns : Lose(d)
              \/ Written \/ Raised \/ RoundEnds
           /\ Next \/ UNCHANGED vars
  <1>1. /\ rotation \in [Requests -> {<<>>} \cup Orders]
        /\ dirty \in [Conns -> BOOLEAN]
    BY DEF WaitTyped, PollTypeOK
  <1>3. \A d \in Conns : Lose(d) => Next
    BY DEF Lose, Next
  <1>4. ASSUME NEW c \in Conns, PollRead(c)
        PROVE  phase = "polling" /\ Read(c)
    BY <1>4 DEF PollRead, Registered
  <1>5. ASSUME NEW c \in Conns, PollWrite(c)
        PROVE  phase = "polling" /\ Write(c)
    BY <1>5 DEF PollWrite, Registered
  <1>6. ASSUME NEW c \in Conns, PollLosesConnection(c)
        PROVE  phase = "polling" /\ Lose(c)
    BY <1>6 DEF PollLosesConnection, Registered
  <1>7. ASSUME NEW c \in Conns, PollMistakes(c)
        PROVE  /\ phase = "polling"
               /\ \/ \E d \in Conns : Read(d) \/ Lose(d) \/ Write(d)
                  \/ Raised /\ UNCHANGED vars
    <2>1. PICK d \in Conns : d = Target(c)
      BY <1>7, TargetType DEF PollMistakes, Registered
    <2>2. /\ phase = "polling"
          /\ \/ /\ Raise("RoundRaised")
                /\ UNCHANGED <<vars, fileno, dirty, rotation>>
             \/ Read(d) \/ Lose(d) \/ Write(d)
      BY <1>7, <2>1 DEF PollMistakes, Registered
    <2>3. UNCHANGED vars => Still
      BY DEF Still, vars, requestVars, sessionVars, boundVars
    <2> QED BY <1>1, <2>2, <2>3 DEF Raised, Errors
  <1>8. ASSUME RoundEnds PROVE phase = "polling" /\ UNCHANGED vars
    BY <1>8 DEF RoundEnds
  <1> QED BY <1>3, <1>4, <1>5, <1>6, <1>7, <1>8, ReadSteps, WriteSteps DEF Poll

LEMMA AbandonSteps ==
    ASSUME TypeOK, WaitTyped, NEW c \in Conns, PollAbandons(c)
    PROVE  Abandoned /\ Next
  <1>1. Abandon(c) /\ Next
    BY DEF PollAbandons, Next
  <1>2. closings' # 0
    BY <1>1 DEF Abandon, CloseUntold, TypeOK, BoundsOK
  <1>3. /\ UNCHANGED <<state, attempts, conn, held, rejects>>
        /\ \A d \in Conns : connected'[d] => connected[d]
    BY <1>1 DEF Abandon, CloseUntold, requestVars
  <1>4. dirty' \in [Conns -> BOOLEAN]
    BY DEF PollAbandons, WaitTyped, PollTypeOK
  <1> QED BY <1>1, <1>2, <1>3, <1>4 DEF PollAbandons, Abandoned

\* Every step of a wait is one of the handler's, or none.
LEMMA PollNextHandler ==
    ASSUME TypeOK, WaitTyped, PollNext
    PROVE  Next \/ UNCHANGED vars
  <1>1. ASSUME NEW c \in Conns, ServerActs(c) PROVE Next
    BY <1>1, ServerSpeaks DEF Next
  <1> QED BY <1>1, ApplicationSteps, CallbackSteps, PollSteps, AbandonSteps DEF PollNext
-----------------------------------------------------------------------------
(***************************************************************************)
(* Type correctness of the waits, and of what they do to the handlers.     *)
(***************************************************************************)

LEMMA InitTyped == PollInit => WaitTyped
  <1> SUFFICES ASSUME PollInit PROVE WaitTyped
    OBVIOUS
  <1>1. PollTypeOK
    BY DEF PollInit, PollTypeOK, Phases
  <1>2. Sockets
    BY DEF PollInit, Init, Sockets
  <1> QED BY <1>1, <1>2 DEF PollInit, WaitTyped, InWait

LEMMA NextTyped ==
    ASSUME TypeOK, WaitTyped, PollNext
    PROVE  WaitTyped'
  <1>1. CASE Entered
    <2>1. PICK w \in Waits, B \in SUBSET Requests :
               Enter(w, B) /\ Still /\ dirty' \in [Conns -> BOOLEAN]
      BY <1>1 DEF Entered
    <2> QED BY <2>1, EnterTyped DEF Still
  <1>2. CASE AskedOfLost /\ phase = "idle"
    <2>1. PollTypeOK'
      BY <1>2 DEF AskedOfLost, WaitTyped, PollTypeOK, Waits, Errors
    <2> QED BY <1>2, <2>1, SocketsKept DEF AskedOfLost, Still, WaitTyped, InWait
  <1>3. ASSUME NEW r \in Requests, NEW c \in Conns, Send(r, c)
        PROVE  WaitTyped'
    <2>1. Sent(r, c) /\ ChooseConnection(r, c)
      BY <1>3, SendSends DEF Send
    <2>2. /\ rotation' \in [Requests -> {<<>>} \cup Orders]
          /\ fileno' \in [Conns -> Fds \cup {None}]
          /\ Sockets'
      BY <2>1, ChooseTyped
    <2>3. dirty' \in [Conns -> BOOLEAN] /\ timed_out' \in [Requests -> BOOLEAN]
      BY <1>3 DEF Send, WaitTyped, PollTypeOK
    <2>4. PollTypeOK'
      BY <1>3, <2>2, <2>3 DEF Send, WaitTyped, PollTypeOK
    <2> QED BY <1>3, <2>2, <2>4 DEF Send, WaitTyped, InWait
  <1>4. CASE Raised
    <2>1. /\ \E error \in Errors : Raise(error)
          /\ UNCHANGED <<connected, fileno, dirty>>
          /\ rotation' \in [Requests -> {<<>>} \cup Orders]
      BY <1>4 DEF Raised, Still
    <2> QED BY <2>1, RaiseTyped
  <1>5. CASE CallbackContinues
    <2>1. map' \in [Fds -> Conns \cup {None}]
      <3>1. \A conns \in SUBSET Conns : MapOf(conns) \in [Fds -> Conns \cup {None}]
        BY DEF MapOf
      <3>2. map' = map \/ map' = MapOf({c \in Conns : connected[c]})
        BY <1>5 DEF CallbackContinues
      <3> QED BY <3>1, <3>2 DEF WaitTyped, PollTypeOK
    <2>2. /\ UNCHANGED <<connected, wait, batch, outcome, polled, fileno, dirty, rotation,
                         timed_out, calls>>
          /\ phase' = "polling" /\ phase # "idle"
      BY <1>5 DEF CallbackContinues, vars, sessionVars, InCallback
    <2>3. PollTypeOK'
      BY <2>1, <2>2 DEF WaitTyped, PollTypeOK, Phases
    <2> QED BY <2>2, <2>3, SocketsKept DEF WaitTyped, InWait
  <1>6. CASE CallbackTimesOut \/ CallbackStops
    BY <1>6, ReturnTyped DEF CallbackTimesOut, CallbackStops
  <1>7. ASSUME NEW d \in Conns, Handled(d), UNCHANGED waitVars
        PROVE  WaitTyped'
    <2>1. UNCHANGED connected
      BY <1>7, HandledAnswers DEF Answered
    <2> QED
      BY <1>7, <2>1, SocketsKept DEF waitVars, WaitTyped, PollTypeOK, InWait
  <1>8. ASSUME NEW d \in Conns, Lose(d)
        PROVE  WaitTyped'
    <2>1. Dropped(d)
      BY <1>8, HandleErrorDrops DEF Lose
    <2>2. \A c \in Conns : connected'[c] => connected[c]
      BY <2>1 DEF Dropped, TypeOK, SessionsOK
    <2>3. PollTypeOK'
      BY <1>8 DEF Lose, WaitTyped, PollTypeOK
    <2> QED BY <1>8, <2>2, <2>3, SocketsKept DEF Lose, WaitTyped, InWait
  <1>9. CASE Written
    <2>1. UNCHANGED connected
      BY <1>9 DEF Written, vars, sessionVars
    <2>2. PollTypeOK'
      BY <1>9 DEF Written, WaitTyped, PollTypeOK
    <2> QED BY <1>9, <2>1, <2>2, SocketsKept DEF Written, WaitTyped, InWait
  <1>10. CASE RoundEnds
    <2>1. UNCHANGED connected
      BY <1>10 DEF RoundEnds, vars, sessionVars
    <2>2. PollTypeOK'
      BY <1>10 DEF RoundEnds, WaitTyped, PollTypeOK, Phases
    <2> QED BY <1>10, <2>1, <2>2, SocketsKept DEF RoundEnds, WaitTyped, InWait
  <1>11. ASSUME NEW c \in Conns, ServerActs(c)
         PROVE  WaitTyped'
    <2>1. UNCHANGED <<connected, waitVars>>
      BY <1>11, ServerSpeaks
    <2> QED BY <2>1, SocketsKept DEF waitVars, WaitTyped, PollTypeOK, InWait
  <1>12. CASE Abandoned
    <2>1. PollTypeOK'
      BY <1>12 DEF Abandoned, WaitTyped, PollTypeOK
    <2>2. \A c \in Conns : connected'[c] => connected[c]
      BY <1>12 DEF Abandoned
    <2> QED BY <1>12, <2>1, <2>2, SocketsKept DEF Abandoned, WaitTyped, InWait
  <1> QED
    BY <1>1, <1>2, <1>3, <1>4, <1>5, <1>6, <1>7, <1>8, <1>9, <1>10, <1>11, <1>12,
       ApplicationSteps, CallbackSteps, PollSteps, AbandonSteps
    DEF PollNext

LEMMA WaitsTyped == PollSpec => [](TypeOK /\ WaitTyped)
  <1>1. ASSUME TypeOK, WaitTyped, PollNext PROVE (TypeOK /\ WaitTyped)'
    <2>1. Next => TypeOK'
      BY <1>1, SendType, GetJobStatusType, GetStatusOfLostType, ForgetType,
         CloseUntoldType, PackFailsType, RecvJobCreatedType, RecvWorkType, RecvOtherType,
         ServerType
      DEF Next, Receive, Abandon, Shutdown
    <2>2. UNCHANGED vars => TypeOK'
      BY <1>1 DEF vars, requestVars, sessionVars, boundVars, TypeOK, RequestsOK, SessionsOK,
             BoundsOK
    <2> QED BY <1>1, <2>1, <2>2, PollNextHandler, NextTyped
  <1>2. ASSUME TypeOK, WaitTyped, UNCHANGED pollVars PROVE (TypeOK /\ WaitTyped)'
    <2>1. UNCHANGED <<vars, waitVars>>
      BY <1>2 DEF pollVars
    <2>2. TypeOK'
      BY <1>2, <2>1
      DEF vars, requestVars, sessionVars, boundVars, TypeOK, RequestsOK, SessionsOK,
          BoundsOK
    <2>3. UNCHANGED connected
      BY <2>1 DEF vars, sessionVars
    <2>4. WaitTyped'
      BY <1>2, <2>1, <2>3, SocketsKept DEF waitVars, WaitTyped, PollTypeOK, InWait
    <2> QED BY <2>2, <2>4
  <1>3. PollInit => TypeOK /\ WaitTyped
    BY InitType, InitTyped DEF PollInit
  <1> QED BY <1>1, <1>2, <1>3, PTL DEF PollSpec

\* Type correctness of the waits: in every behaviour a rotation is an order of the
\* servers, connection_map leads to connections, and a callback or a poll belongs to
\* a wait.
THEOREM PollTypeCorrect == PollSpec => []PollTypeOK
  <1>1. TypeOK /\ WaitTyped => PollTypeOK
    BY DEF WaitTyped
  <1> QED BY <1>1, WaitsTyped, PTL

\* Whatever the waits do is a behaviour of the handler's own specification.
LEMMA WaitsAreHandlers == PollSpec => Spec
  <1>1. PollInit => Init
    BY DEF PollInit
  <1>2. ASSUME TypeOK, WaitTyped, [PollNext]_pollVars PROVE [Next]_vars
    <2>1. CASE PollNext
      BY <1>2, <2>1, PollNextHandler
    <2>2. CASE UNCHANGED pollVars
      BY <2>2 DEF pollVars
    <2> QED BY <1>2, <2>1, <2>2
  <1> QED BY <1>1, <1>2, WaitsTyped, PTL DEF PollSpec, Spec
-----------------------------------------------------------------------------
(***************************************************************************)
(* Rotations and the connections requests are sent on.                     *)
(***************************************************************************)

\* A step after which the pending requests were pending before, on the connection
\* and with the rotation they have, or with none.
Unsending == \A q \in Requests : state'[q] = "PENDING" =>
    /\ state[q] = "PENDING" /\ conn'[q] = conn[q]
    /\ rotation'[q] \in {rotation[q], <<>>}

LEMMA PollNextUnsending ==
    ASSUME TypeOK, WaitTyped, PollNext
    PROVE  Unsending \/ \E r \in Requests, c \in Conns : Send(r, c)
  <1>1. ASSUME UNCHANGED <<state, conn, rotation>> PROVE Unsending
    BY <1>1 DEF Unsending
  <1>2. Entered \/ AskedOfLost \/ Written \/ CallbackContinues \/ RoundEnds
          => UNCHANGED <<state, conn, rotation>>
    BY DEF Entered, Enter, AskedOfLost, Still, Written, CallbackContinues, RoundEnds,
           vars, requestVars
  <1>3. ASSUME Raised PROVE Unsending
    BY <1>3 DEF Raised, Still, Unsending
  <1>4. ASSUME CallbackTimesOut \/ CallbackStops PROVE Unsending
    BY <1>4 DEF CallbackTimesOut, CallbackStops, Return, Unsending, vars, requestVars
  <1>5. ASSUME NEW d \in Conns, Handled(d), UNCHANGED waitVars PROVE Unsending
    BY <1>5, HandledAnswers DEF Answered, Unsending, waitVars, Settled, Terminal
  <1>6. ASSUME NEW d \in Conns, Lose(d) PROVE Unsending
    BY <1>6, HandleErrorDrops DEF Lose, Dropped, Unsending
  <1>7. ASSUME NEW c \in Conns, ServerActs(c) PROVE Unsending
    BY <1>1, <1>7, ServerSpeaks DEF requestVars, waitVars
  <1>8. ASSUME Abandoned PROVE Unsending
    BY <1>1, <1>8 DEF Abandoned
  <1> QED
    BY <1>1, <1>2, <1>3, <1>4, <1>5, <1>6, <1>7, <1>8, ApplicationSteps, CallbackSteps,
       PollSteps, AbandonSteps
    DEF PollNext

\* A pending request is on the connection at the head of its rotation, as send_job_request
\* left it, however often it was lost and sent again.
THEOREM AlwaysSentOnHead == PollSpec => []SentOnHead
  <1>1. PollInit => SentOnHead
    BY DEF PollInit, SentOnHead
  <1>2. ASSUME TypeOK, WaitTyped, SentOnHead, PollNext PROVE SentOnHead'
    <2>1. CASE Unsending
      BY <1>2, <2>1 DEF Unsending, SentOnHead
    <2>2. ASSUME NEW r \in Requests, NEW c \in Conns, Send(r, c) PROVE SentOnHead'
      <3>1. Sent(r, c) /\ ChooseConnection(r, c)
        BY <1>2, <2>2, SendSends DEF Send
      <3>2. /\ Head(rotation'[r]) = c
            /\ \A q \in Requests \ {r} : rotation'[q] = rotation[q]
        BY <1>2, <3>1, ChooseTyped
      <3>3. /\ conn'[r] = c
            /\ \A q \in Requests \ {r} : state'[q] = state[q] /\ conn'[q] = conn[q]
        BY <1>2, <3>1 DEF Sent, TypeOK, RequestsOK
      <3> QED BY <1>2, <3>2, <3>3 DEF SentOnHead
    <2> QED BY <1>2, <2>1, <2>2, PollNextUnsending
  <1>3. ASSUME SentOnHead, UNCHANGED pollVars PROVE SentOnHead'
    BY <1>3 DEF SentOnHead, pollVars, vars, requestVars, waitVars
  <1> QED BY <1>1, <1>2, <1>3, WaitsTyped, PTL DEF PollSpec
-----------------------------------------------------------------------------
(***************************************************************************)
(* How a wait_until_jobs_accepted ends.                                    *)
(***************************************************************************)

\* Outside a wait nothing changes the requests, the last batch and its outcome.
Resting ==
    /\ phase' = "idle" => phase = "idle"
    /\ phase = "idle" /\ phase' = "idle" /\ wait' = "accept" =>
          UNCHANGED <<state, wait, batch, outcome, timed_out>>

LEMMA PollNextResting ==
    ASSUME TypeOK, WaitTyped, PollNext
    PROVE  \/ Resting
           \/ phase' = "idle" /\ outcome' \in Errors
           \/ InCallback /\ (CallbackTimesOut \/ CallbackStops)
  <1>1. CASE Entered
    BY <1>1 DEF Entered, Enter, Resting
  <1>2. CASE AskedOfLost
    BY <1>2 DEF AskedOfLost, Errors
  <1>3. ASSUME NEW r \in Requests, NEW c \in Conns, Send(r, c) PROVE Resting
    BY <1>3 DEF Send, InCallback, Resting
  <1>4. CASE Raised
    BY <1>4 DEF Raised, Raise
  <1>5. CASE CallbackContinues \/ RoundEnds
    BY <1>5 DEF CallbackContinues, RoundEnds, Resting
  <1>6. ASSUME phase = "polling",
               Written \/ \E d \in Conns : Lose(d) \/ (Handled(d) /\ UNCHANGED waitVars)
        PROVE  Resting
    BY <1>6 DEF Written, Lose, waitVars, Resting
  <1>7. ASSUME NEW c \in Conns, ServerActs(c) PROVE Resting
    BY <1>7, ServerSpeaks DEF waitVars, requestVars, Resting
  <1>8. CASE Abandoned
    BY <1>8 DEF Abandoned, Resting
  <1> QED
    BY <1>1, <1>2, <1>3, <1>4, <1>5, <1>6, <1>7, <1>8, ApplicationSteps, CallbackSteps,
       PollSteps, AbandonSteps
    DEF PollNext

\* What Return says of a request wait_until_jobs_accepted had to wait for.
LEMMA ReturnAccepted ==
    ASSUME TypeOK, WaitTyped, InCallback, CallbackTimesOut \/ CallbackStops
    PROVE  AcceptedOnReturn'
  <1> SUFFICES ASSUME wait = "accept", NEW r \in batch
               PROVE  \/ state[r] \in Settled /\ timed_out'[r] = FALSE
                      \/ /\ state[r] = "PENDING" /\ timed_out'[r] = TRUE
                         /\ outcome' = "timeout"
    BY DEF AcceptedOnReturn, CallbackTimesOut, CallbackStops, Return, vars, requestVars
  <1>1. r \in Requests /\ state[r] \in JobStates
    BY DEF WaitTyped, PollTypeOK, TypeOK, RequestsOK
  <1>2. state[r] # "UNKNOWN"
    BY DEF CallbackTimesOut, CallbackStops, Unsent
  <1>3. timed_out'[r] = (state[r] = "PENDING")
    BY <1>1 DEF CallbackTimesOut, CallbackStops, Return, MarkTimedOut
  <1>4. CASE CallbackTimesOut
    BY <1>1, <1>2, <1>3, <1>4 DEF CallbackTimesOut, Return, JobStates, Settled, Terminal
  <1>5. CASE CallbackStops
    <2>1. state[r] # "PENDING"
      BY <1>5 DEF CallbackStops, CallbackOk, GoesOn
    <2> QED BY <1>1, <1>2, <1>3, <2>1 DEF JobStates, Settled, Terminal
  <1> QED BY <1>4, <1>5

\* submit_multiple_requests and wait_until_jobs_accepted return an answer for every
\* request of the batch: accepted, or timed out and pending; and it stays so.
THEOREM AlwaysAcceptedOnReturn == PollSpec => []AcceptedOnReturn
  <1>1. PollInit => AcceptedOnReturn
    BY DEF PollInit, AcceptedOnReturn
  <1>2. ASSUME TypeOK, WaitTyped, AcceptedOnReturn, PollNext PROVE AcceptedOnReturn'
    <2>1. CASE Resting
      BY <1>2, <2>1 DEF Resting, AcceptedOnReturn
    <2>2. CASE phase' = "idle" /\ outcome' \in Errors
      BY <2>2 DEF AcceptedOnReturn, Errors
    <2>3. CASE InCallback /\ (CallbackTimesOut \/ CallbackStops)
      BY <1>2, <2>3, ReturnAccepted
    <2> QED BY <1>2, <2>1, <2>2, <2>3, PollNextResting
  <1>3. ASSUME AcceptedOnReturn, UNCHANGED pollVars PROVE AcceptedOnReturn'
    BY <1>3 DEF AcceptedOnReturn, pollVars, vars, requestVars, waitVars
  <1> QED BY <1>1, <1>2, <1>3, WaitsTyped, PTL DEF PollSpec
-----------------------------------------------------------------------------
(***************************************************************************)
(* What a wait listens to.  A connection that is lost is not polled again  *)
(* in that wait, and connection_map is built once: what goes wrong for a   *)
(* request that wait_until_jobs_accepted sends a second time cannot go     *)
(* wrong in the other waits, which send nothing, nor without retries.      *)
(***************************************************************************)

Unretried == MaxAttempts <= 1 \/ wait # "accept"

\* The waits let go of no request, and nothing is refused.
Kept == rejects = 0 /\ \A r \in Requests : held[r]

Attempted == \A r \in Requests : state[r] # "UNKNOWN" => attempts[r] > 0

\* In a wait that sends nothing twice every connection that is up is polled, and
\* found by its descriptor once the map is built.
Listening ==
    /\ phase = "first" => polled = Conns
    /\ phase # "idle" /\ Unretried => \A c \in Conns : connected[c] => c \in polled
    /\ phase \in {"polling", "callback"} /\ Unretried =>
          /\ \A c \in Conns : connected[c] => map[fileno[c]] = c
          /\ wait = "accept" => \A r \in batch : attempts[r] > 0

Attending == Kept /\ Attempted /\ Listening

LEMMA InitAttending == PollInit => Attending
    BY DEF PollInit, Init, Attending, Kept, Attempted, Listening

\* A step that changes none of what Attending is about.
LEMMA QuietAttending ==
    ASSUME Attending, phase' \in {phase, "idle"},
           UNCHANGED <<state, attempts, held, connected, closings, rejects>>,
           phase' # "idle" => UNCHANGED <<wait, batch, polled, map, fileno>>
    PROVE  Attending'
  <1>1. Kept' /\ Attempted'
    BY DEF Attending, Kept, Attempted
  <1>2. CASE phase' = "idle"
    BY <1>1, <1>2 DEF Attending, Listening
  <1>3. CASE phase' # "idle"
    BY <1>1, <1>3 DEF Attending, Listening, Unretried
  <1> QED BY <1>2, <1>3, <1>1

LEMMA SendAttending ==
    ASSUME TypeOK, WaitTyped, Attending, NEW r \in Requests, NEW c \in Conns, Send(r, c)
    PROVE  Attending'
  <1>1. /\ InCallback /\ r \in Unsent /\ UNCHANGED <<phase, wait, batch, polled, map>>
        /\ Sent(r, c) /\ wait = "accept" /\ r \in batch
    BY SendSends DEF Send, Unsent
  <1>2. attempts \in [Requests -> Nat] /\ MaxAttempts \in Nat
    BY ConstantsAssumption DEF TypeOK, RequestsOK
  <1>3. Kept'
    BY <1>1 DEF Attending, Kept, Sent, boundVars
  <1>4. /\ \A q \in Requests \ {r} : state'[q] = state[q] /\ attempts'[q] = attempts[q]
        /\ attempts'[r] = attempts[r] + 1
    BY <1>1, <1>2 DEF Sent, TypeOK, RequestsOK
  <1>5. Attempted'
    BY <1>2, <1>4 DEF Attending, Attempted
  <1>6. Unretried' => Unretried /\ attempts[r] = 0
    BY <1>1, <1>2 DEF Unretried, Sent
  <1>7. Unretried' => phase = "first"
    BY <1>1, <1>2, <1>6 DEF Attending, Listening, InCallback
  <1>8. Listening'
    BY <1>1, <1>7 DEF Attending, Listening, WaitTyped, PollTypeOK
  <1> QED BY <1>3, <1>5, <1>8 DEF Attending

\* connection_map, built, has every connection that is up.
LEMMA ContinueAttending ==
    ASSUME TypeOK, WaitTyped, Attending, CallbackContinues
    PROVE  Attending'
  <1>1. /\ UNCHANGED <<state, attempts, held, connected, closings, rejects, wait, batch,
                       polled, fileno>>
        /\ phase \in {"first", "callback"} /\ phase' = "polling" /\ Unsent = {}
    BY DEF CallbackContinues, InCallback, vars, requestVars, sessionVars, boundVars
  <1>2. Kept' /\ Attempted' /\ (Unretried' <=> Unretried)
    BY <1>1 DEF Attending, Kept, Attempted, Unretried
  <1>3. CASE phase = "callback"
    <2>1. UNCHANGED map
      BY <1>3 DEF CallbackContinues
    <2> QED BY <1>1, <1>2, <1>3, <2>1 DEF Attending, Listening
  <1>4. CASE phase = "first"
    <2>1. map' = MapOf({c \in Conns : connected[c]}) /\ polled = Conns
      BY <1>4 DEF CallbackContinues, Attending, Listening
    <2>2. ASSUME NEW c \in Conns, connected[c] PROVE map'[fileno[c]] = c
      <3> DEFINE up == {d \in Conns : connected[d]}
                 mine == CHOOSE d \in up : fileno[d] = fileno[c]
      <3>1. fileno[c] \in Fds /\ c \in up
        BY <2>2 DEF WaitTyped, Sockets
      <3>2. map'[fileno[c]] = mine
        BY <2>1, <3>1 DEF MapOf
      <3>3. mine \in up /\ fileno[mine] = fileno[c]
        BY <3>1
      <3> QED BY <2>2, <3>2, <3>3 DEF WaitTyped, Sockets
    <2>3. wait = "accept" => \A r \in batch : attempts[r] > 0
      BY <1>1 DEF Unsent, Attending, Attempted, WaitTyped, PollTypeOK
    <2> QED BY <1>1, <1>2, <2>1, <2>2, <2>3 DEF Attending, Listening
  <1> QED BY <1>1, <1>3, <1>4

LEMMA LoseAttending ==
    ASSUME TypeOK, WaitTyped, Attending, NEW d \in Conns, Lose(d), phase = "polling"
    PROVE  Attending'
  <1>1. /\ Dropped(d) /\ polled' = polled \ {d}
        /\ UNCHANGED <<phase, wait, batch, map, fileno>>
    BY HandleErrorDrops DEF Lose
  <1>2. \A c \in Conns : connected'[c] => c # d /\ connected[c]
    BY <1>1 DEF Dropped, TypeOK, SessionsOK
  <1>3. Kept' /\ Attempted'
    BY <1>1 DEF Dropped, Attending, Kept, Attempted, boundVars
  <1> QED BY <1>1, <1>2, <1>3 DEF Dropped, Attending, Listening, Unretried

LEMMA NextAttending ==
    ASSUME TypeOK, WaitTyped, Attending, PollNext
    PROVE  Attending'
  <1>1. CASE Entered
    <2>1. /\ phase' = "first" /\ polled' = Conns /\ Still
      BY <1>1 DEF Entered, Enter
    <2> QED BY <2>1 DEF Still, Attending, Kept, Attempted, Listening
  <1>2. CASE AskedOfLost
    BY <1>2, QuietAttending DEF AskedOfLost, Still
  <1>3. CASE Raised
    <2>1. phase' = "idle" /\ Still
      BY <1>3 DEF Raised, Raise
    <2> QED BY <2>1, QuietAttending DEF Still
  <1>4. CASE CallbackTimesOut \/ CallbackStops
    <2>1. phase' = "idle" /\ UNCHANGED vars
      BY <1>4 DEF CallbackTimesOut, CallbackStops, Return
    <2> QED BY <2>1, QuietAttending DEF vars, requestVars, sessionVars, boundVars
  <1>5. ASSUME NEW d \in Conns, Handled(d), UNCHANGED waitVars
        PROVE  Attending'
    <2>1. Answered
      BY <1>5, HandledAnswers
    <2>2. Kept' /\ Attempted'
      BY <2>1 DEF Answered, Attending, Kept, Attempted, boundVars
    <2> QED BY <1>5, <2>1, <2>2 DEF Answered, Attending, Listening, Unretried, waitVars
  <1>6. CASE Written
    BY <1>6, QuietAttending DEF Written, vars, requestVars, sessionVars, boundVars
  <1>7. CASE RoundEnds
    <2>1. /\ phase = "polling" /\ phase' = "callback"
          /\ UNCHANGED <<state, attempts, held, connected, closings, rejects, wait, batch,
                         polled, map, fileno>>
      BY <1>7 DEF RoundEnds, vars, requestVars, sessionVars, boundVars
    <2>2. Kept' /\ Attempted'
      BY <2>1 DEF Attending, Kept, Attempted
    <2> QED BY <2>1, <2>2 DEF Attending, Listening, Unretried
  <1>8. ASSUME NEW c \in Conns, ServerActs(c) PROVE Attending'
    BY <1>8, ServerSpeaks, QuietAttending DEF waitVars, requestVars
  <1>9. CASE Abandoned
    BY <1>9 DEF Abandoned, Attending, Kept, Attempted, Listening
  <1> QED
    BY <1>1, <1>2, <1>3, <1>4, <1>5, <1>6, <1>7, <1>8, <1>9, SendAttending,
       ContinueAttending, LoseAttending, ApplicationSteps, CallbackSteps, PollSteps,
       AbandonSteps
    DEF PollNext

LEMMA AttendingHolds == PollSpec => []Attending
  <1>1. ASSUME Attending, UNCHANGED pollVars PROVE Attending'
    BY <1>1, QuietAttending
    DEF pollVars, vars, requestVars, sessionVars, boundVars, waitVars
  <1> QED BY <1>1, InitAttending, NextAttending, WaitsTyped, PTL DEF PollSpec

\* client.py: a wait that goes on for a request listens to the connection that
\* request is on, under that connection's own descriptor: always where requests are
\* sent but once, and in every wait but wait_until_jobs_accepted, until requests are
\* mixed up or a round that raises closes a connection untold.
THEOREM WaitedForAlwaysPolled ==
    PollSpec => [](MaxAttempts <= 1 \/ wait # "accept" => WaitedForIsPolled)
  <1>1. PollSpec => []((~misfiled => Submissions) /\ Ordered)
    BY WaitsAreHandlers, SubmissionsHold, OrderedHolds, PTL
  <1>2. TypeOK /\ WaitTyped /\ (~misfiled => Submissions) /\ Ordered /\ Attending =>
            (MaxAttempts <= 1 \/ wait # "accept" => WaitedForIsPolled)
    <2> SUFFICES ASSUME TypeOK, WaitTyped, ~misfiled => Submissions, Ordered, Attending,
                        Unretried, phase = "polling", Undisturbed, closings = 0,
                        NEW r \in batch, GoesOn(r)
                 PROVE  Registered(conn[r]) /\ Target(conn[r]) = conn[r]
      BY DEF WaitedForIsPolled, Unretried
    <2>1. r \in Requests /\ state[r] \in JobStates /\ wait \in Waits
      BY DEF WaitTyped, PollTypeOK, InWait, TypeOK, RequestsOK
    <2>2. state[r] # "UNKNOWN"
      BY <2>1 DEF GoesOn, Waits
    <2>3. Submissions /\ Numbering
      BY DEF Undisturbed, Ordered
    <2>4. conn[r] \in Conns /\ connected[conn[r]]
      <3>1. CASE state[r] = "PENDING"
        BY <2>1, <2>3, <3>1 DEF Submissions, PendingTracked
      <3>2. CASE state[r] \in Settled
        <4>1. held[r]
          BY <2>1 DEF Attending, Kept
        <4> QED BY <2>1, <2>3, <3>2, <4>1 DEF Numbering, SettledHere
      <3> QED BY <2>1, <2>2, <3>1, <3>2 DEF JobStates, Settled, Terminal
    <2> QED BY <2>4 DEF Attending, Listening, Registered, Target
  <1> QED BY <1>1, <1>2, WaitsTyped, AttendingHolds, PTL

\* What arrives in a wait makes no callback raise.
NothingRaises ==
    \A c \in Conns : connected[c] /\ inbound[c] # <<>> => Accepts(c, Head(inbound[c]))

\* Of a client that keeps its requests and servers that refuse none: no answer raises
\* KeyError or InvalidClientState out of a wait, and every answer goes to the request
\* whose job it is about, whatever is lost and sent again, and also when connections
\* are closed untold by rounds that raise; until get_job_status files a request under
\* an old handle, or a submission is lost with a command that cannot be packed.
THEOREM WaitsAnswerOwn ==
    PollSpec => [](~misfiled /\ ~tossed => NothingRaises /\ AnswersAreOwn)
  <1>1. PollSpec => []((~tossed => OnlyForgottenRaise) /\ AnswersUnmixed)
    BY WaitsAreHandlers, OnlyForgottenAlwaysRaise, AnswersAlwaysUnmixed, PTL
  <1>2. (~tossed => OnlyForgottenRaise) /\ AnswersUnmixed /\ Attending =>
            (~misfiled /\ ~tossed => NothingRaises /\ AnswersAreOwn)
    BY DEF OnlyForgottenRaise, AnswersUnmixed, Undisturbed, Attending, Kept, NothingRaises
  <1> QED BY <1>1, <1>2, AttendingHolds, PTL
=============================================================================
