------------------------- MODULE ClientHandlerProofs -------------------------
(***************************************************************************)
(* Theorems about ClientHandler, for all sets of requests and connections  *)
(* and all values of the bounds.                                           *)
(***************************************************************************)
EXTENDS ClientHandler, SequenceTheorems, TLAPS

-----------------------------------------------------------------------------
(***************************************************************************)
(* Queues: what Append and Tail do to length and elements.                 *)
(***************************************************************************)

\* Appending keeps what is queued and puts the new element last.
LEMMA AppendFacts ==
    ASSUME NEW S, NEW q \in Seq(S), NEW e \in S
    PROVE  /\ Append(q, e) \in Seq(S)
           /\ Len(q) \in Nat
           /\ Len(Append(q, e)) = Len(q) + 1
           /\ \A i \in 1 .. Len(q) : Append(q, e)[i] = q[i]
           /\ Append(q, e)[Len(q) + 1] = e
    OBVIOUS

\* Taking the head moves every other element one place forward.
LEMMA TailFacts ==
    ASSUME NEW S, NEW q \in Seq(S), q # <<>>
    PROVE  /\ Tail(q) \in Seq(S)
           /\ Len(q) \in Nat \ {0}
           /\ Head(q) \in S
           /\ Head(q) = q[1]
           /\ Len(Tail(q)) = Len(q) - 1
           /\ \A i \in 1 .. Len(q) - 1 : Tail(q)[i] = q[i + 1]
    OBVIOUS

-----------------------------------------------------------------------------
(***************************************************************************)
(* Type correctness.                                                       *)
(***************************************************************************)

LEMMA InitType == Init => TypeOK
  <1> SUFFICES ASSUME Init PROVE TypeOK
    OBVIOUS
  <1>1. RequestsOK
    BY DEF Init, RequestsOK, NoStatus, Statuses, JobStates, Keys
  <1>2. SessionsOK
    BY DEF Init, SessionsOK, NoRequests
  <1>3. BoundsOK
    BY DEF Init, BoundsOK
  <1> QED BY <1>1, <1>2, <1>3 DEF TypeOK

\* The command a callback is given and, unless it answers a submission, the
\* request the callback acts on.
LEMMA FetchType ==
    ASSUME SessionsOK, NEW c \in Conns, inbound[c] # <<>>
    PROVE  /\ Head(inbound[c]) \in Replies
           /\ Tail(inbound[c]) \in Seq(Replies)
    BY TailFacts DEF SessionsOK

\* WORK_* are about a request's job; STATUS_RES may be about no job at all.
LEMMA RequestType ==
    ASSUME SessionsOK, NEW c \in Conns, NEW type \in WorkTypes \cup {"STATUS_RES"},
           Fetch(c, type)
    PROVE  /\ Head(inbound[c]).type = type
           /\ Head(inbound[c]).handle \in Handles
           /\ Head(inbound[c]).data \in Requests \cup {None}
           /\ Head(inbound[c]).known \in BOOLEAN
           /\ type # "STATUS_RES" => Head(inbound[c]).data \in Requests
           /\ RequestOf(c, Head(inbound[c])) \in Requests
  <1> DEFINE m == Head(inbound[c])
  <1>1. m \in Replies /\ m.type = type /\ Accepts(c, m)
    BY FetchType DEF Fetch
  <1>2. m # ErrorReply
    BY <1>1 DEF ErrorReply, WorkTypes, UpdateTypes, FinalTypes
  <1>3. /\ m.handle \in Handles /\ m.data \in Requests \cup {None} /\ m.known \in BOOLEAN
        /\ type # "STATUS_RES" => m.data \in Requests
    BY <1>1, <1>2 DEF Replies
  <1>4. RequestOf(c, m) # None
    BY <1>1 DEF Accepts, WorkTypes, UpdateTypes, FinalTypes
  <1>5. registered[c][m.handle] \in Requests \cup {None}
    BY <1>3 DEF SessionsOK, Keys
  <1> QED BY <1>1, <1>3, <1>4, <1>5 DEF RequestOf

LEMMA SendType ==
    ASSUME TypeOK, NEW r \in Requests, NEW c \in Conns, SendJobRequest(r, c)
    PROVE  TypeOK'
  <1>1. RequestsOK'
    <2>1. MarkSubmitted(r, c)
      BY DEF SendJobRequest, SendOnOpenConnection, SendOnNewConnection
    <2> QED
      BY <2>1 DEF SendJobRequest, MarkSubmitted, TypeOK, RequestsOK, JobStates, answerVars
  <1>2. BoundsOK'
    BY DEF SendJobRequest, TypeOK, BoundsOK, boundVars
  <1>3. SessionsOK'
    <2>1. CASE SendOnOpenConnection(r, c)
      <3>1. awaiting[c] \in Seq(Requests) /\ submits[c] \in Seq(Requests)
        BY DEF TypeOK, SessionsOK
      <3>2. /\ Append(awaiting[c], r) \in Seq(Requests)
            /\ Append(submits[c], r) \in Seq(Requests)
        BY <3>1
      <3> QED BY <2>1, <3>2 DEF SendOnOpenConnection, TypeOK, SessionsOK, linkVars
    <2>2. CASE SendOnNewConnection(r, c)
      <3>1. <<r>> \in Seq(Requests) /\ NoRequests \in [Keys -> Requests \cup {None}]
        BY DEF NoRequests
      <3>2. <<>> \in Seq(Requests) /\ <<>> \in Seq(Keys) /\ <<>> \in Seq(Replies)
        OBVIOUS
      <3> QED BY <2>2, <3>1, <3>2 DEF SendOnNewConnection, TypeOK, SessionsOK
    <2> QED BY <2>1, <2>2 DEF SendJobRequest
  <1> QED BY <1>1, <1>2, <1>3 DEF TypeOK

LEMMA GetJobStatusType ==
    ASSUME TypeOK, NEW r \in Requests, GetJobStatus(r)
    PROVE  TypeOK'
  <1> DEFINE c == conn[r]
  <1>1. RequestsOK'
    <2>1. status[r] \in Statuses
      BY DEF TypeOK, RequestsOK
    <2>2. [status[r] EXCEPT !.fresh = FALSE] \in Statuses
      BY <2>1 DEF Statuses
    <2> QED BY <2>2 DEF GetJobStatus, TypeOK, RequestsOK
  <1>2. SessionsOK'
    <2>1. c \in Conns /\ handle[r] \in Keys
      BY DEF GetJobStatus, TypeOK, RequestsOK, SessionsOK
    <2>2. asked[c] \in Seq(Keys)
      BY <2>1 DEF TypeOK, SessionsOK
    <2>3. Append(asked[c], handle[r]) \in Seq(Keys)
      BY <2>1, <2>2
    <2>4. /\ asked' \in [Conns -> Seq(Keys)]
          /\ registered' \in [Conns -> [Keys -> Requests \cup {None}]]
      BY <2>1, <2>3 DEF GetJobStatus, TypeOK, SessionsOK
    <2> QED BY <2>4 DEF GetJobStatus, TypeOK, SessionsOK, serverVars, linkVars
  <1>3. BoundsOK'
    BY DEF GetJobStatus, TypeOK, BoundsOK
  <1> QED BY <1>1, <1>2, <1>3 DEF TypeOK

LEMMA GetStatusOfLostType ==
    ASSUME TypeOK, NEW r \in Requests, GetStatusOfLost(r)
    PROVE  TypeOK'
  <1>1. status[r] \in Statuses
    BY DEF TypeOK, RequestsOK
  <1>2. [status[r] EXCEPT !.fresh = FALSE] \in Statuses
    BY <1>1 DEF Statuses
  <1>3. RequestsOK'
    BY <1>2 DEF GetStatusOfLost, TypeOK, RequestsOK
  <1>4. SessionsOK' /\ BoundsOK'
    BY DEF GetStatusOfLost, TypeOK, SessionsOK, BoundsOK, sessionVars, boundVars
  <1> QED BY <1>3, <1>4 DEF TypeOK

LEMMA ForgetType ==
    ASSUME TypeOK, NEW r \in Requests, Forget(r)
    PROVE  TypeOK'
    BY DEF Forget, TypeOK, RequestsOK, SessionsOK, BoundsOK, answerVars, serverVars, boundVars,
           linkVars

LEMMA CloseUntoldType ==
    ASSUME TypeOK, NEW D, CloseUntold(D)
    PROVE  TypeOK'
  <1>1. RequestsOK' /\ BoundsOK'
    BY DEF CloseUntold, TypeOK, RequestsOK, BoundsOK, requestVars
  <1>2. <<>> \in Seq(Replies)
    OBVIOUS
  <1>3. SessionsOK'
    BY <1>2 DEF CloseUntold, TypeOK, SessionsOK, serverVars
  <1> QED BY <1>1, <1>3 DEF TypeOK

\* What is left of a queue without its elements i to j: those before, then those after.
LEMMA CutFacts ==
    ASSUME NEW S, NEW q \in Seq(S), NEW i \in 1 .. Len(q) + 1, NEW j \in i - 1 .. Len(q)
    PROVE  /\ Cut(q, i, j) \in Seq(S)
           /\ Len(Cut(q, i, j)) = Len(q) - (j + 1 - i)
           /\ \A k \in 1 .. i - 1 : Cut(q, i, j)[k] = q[k]
           /\ \A k \in i .. Len(q) - (j + 1 - i) : Cut(q, i, j)[k] = q[k + (j + 1 - i)]
  <1> DEFINE a == SubSeq(q, 1, i - 1)
             b == SubSeq(q, j + 1, Len(q))
  <1>1. a \in Seq(S) /\ Len(a) = i - 1 /\ \A k \in 1 .. i - 1 : a[k] = q[k]
    OBVIOUS
  <1>2. b \in Seq(S) /\ Len(b) = Len(q) - j /\ \A k \in 1 .. Len(q) - j : b[k] = q[k + j]
    OBVIOUS
  <1> HIDE DEF a, b
  <1>3. /\ a \o b \in Seq(S) /\ Len(a \o b) = Len(a) + Len(b)
        /\ \A k \in 1 .. Len(a) + Len(b) :
              (a \o b)[k] = IF k <= Len(a) THEN a[k] ELSE b[k - Len(a)]
    BY <1>1, <1>2, ConcatProperties, Zenon
  <1>4. ASSUME NEW k \in 1 .. i - 1 PROVE (a \o b)[k] = q[k]
    BY <1>1, <1>2, <1>3
  <1>5. ASSUME NEW k \in i .. Len(q) - (j + 1 - i)
        PROVE  (a \o b)[k] = q[k + (j + 1 - i)]
    <2>1. k \in 1 .. Len(a) + Len(b) /\ ~(k <= Len(a))
      BY <1>1, <1>2
    <2>2. (a \o b)[k] = b[k - Len(a)]
      BY <2>1, <1>3
    <2>3. k - Len(a) \in 1 .. Len(q) - j /\ (k - Len(a)) + j = k + (j + 1 - i)
      BY <1>1, <1>2
    <2>4. b[k - Len(a)] = q[(k - Len(a)) + j]
      BY <1>2, <2>3
    <2> QED BY <2>2, <2>3, <2>4
  <1>6. Len(a) + Len(b) = Len(q) - (j + 1 - i)
    BY <1>1, <1>2
  <1>7. Cut(q, i, j) = a \o b
    BY DEF Cut, a, b
  <1> QED BY <1>3, <1>4, <1>5, <1>6, <1>7

\* The two pieces that PackFails cuts out of the queues of c.
LEMMA PackFailsCut ==
    ASSUME TypeOK, NEW c \in Conns, PackFails(c)
    PROVE  \E i \in 1 .. Len(submits[c]) + 1, k \in 1 .. Len(asked[c]) + 1 :
           \E j \in i - 1 .. Len(submits[c]), l \in k - 1 .. Len(asked[c]) :
              /\ taken[c] < i
              /\ submits' = [submits EXCEPT ![c] = Cut(@, i, j)]
              /\ asked' = [asked EXCEPT ![c] = Cut(@, k, l)]
  <1>1. /\ submits[c] \in Seq(Requests) /\ asked[c] \in Seq(Keys) /\ taken[c] \in Nat
        /\ Len(submits[c]) \in Nat /\ Len(asked[c]) \in Nat
    BY DEF TypeOK, SessionsOK
  <1>2. PICK j \in 0 .. Len(submits[c]), l \in 0 .. Len(asked[c]) :
          \E m \in taken[c] .. j, n \in 0 .. l :
              /\ submits' = [submits EXCEPT ![c] = Cut(@, m + 1, j)]
              /\ asked' = [asked EXCEPT ![c] = Cut(@, n + 1, l)]
    BY DEF PackFails
  <1>3. PICK m \in taken[c] .. j, n \in 0 .. l :
              /\ submits' = [submits EXCEPT ![c] = Cut(@, m + 1, j)]
              /\ asked' = [asked EXCEPT ![c] = Cut(@, n + 1, l)]
    BY <1>2
  <1>4. /\ m + 1 \in 1 .. Len(submits[c]) + 1 /\ j \in (m + 1) - 1 .. Len(submits[c])
        /\ n + 1 \in 1 .. Len(asked[c]) + 1 /\ l \in (n + 1) - 1 .. Len(asked[c])
        /\ taken[c] < m + 1
    BY <1>1
  <1> HIDE DEF Cut
  <1> QED BY <1>3, <1>4

LEMMA PackFailsType ==
    ASSUME TypeOK, NEW c \in Conns, PackFails(c)
    PROVE  TypeOK'
  <1>1. RequestsOK' /\ BoundsOK'
    BY DEF PackFails, TypeOK, RequestsOK, BoundsOK, requestVars
  <1>2. submits[c] \in Seq(Requests) /\ asked[c] \in Seq(Keys)
    BY DEF TypeOK, SessionsOK
  <1>3. PICK i \in 1 .. Len(submits[c]) + 1, k \in 1 .. Len(asked[c]) + 1 :
        \E j \in i - 1 .. Len(submits[c]), l \in k - 1 .. Len(asked[c]) :
              /\ submits' = [submits EXCEPT ![c] = Cut(@, i, j)]
              /\ asked' = [asked EXCEPT ![c] = Cut(@, k, l)]
    BY PackFailsCut
  <1>4. PICK j \in i - 1 .. Len(submits[c]), l \in k - 1 .. Len(asked[c]) :
              /\ submits' = [submits EXCEPT ![c] = Cut(@, i, j)]
              /\ asked' = [asked EXCEPT ![c] = Cut(@, k, l)]
    BY <1>3
  <1>5. Cut(submits[c], i, j) \in Seq(Requests) /\ Cut(asked[c], k, l) \in Seq(Keys)
    BY <1>2, CutFacts
  <1>6. submits' \in [Conns -> Seq(Requests)] /\ asked' \in [Conns -> Seq(Keys)]
    BY <1>4, <1>5 DEF TypeOK, SessionsOK
  <1>7. SessionsOK'
    BY <1>6 DEF PackFails, TypeOK, SessionsOK, serverVars, linkVars
  <1> QED BY <1>1, <1>7 DEF TypeOK

LEMMA RecvJobCreatedType ==
    ASSUME TypeOK, NEW c \in Conns, RecvJobCreated(c)
    PROVE  TypeOK'
  <1> DEFINE m == Head(inbound[c])
             r == Head(awaiting[c])
  <1>1. Fetch(c, "JOB_CREATED") /\ Accepts(c, m) /\ m.type = "JOB_CREATED"
    BY DEF RecvJobCreated, Fetch
  <1>2. m \in Replies /\ Tail(inbound[c]) \in Seq(Replies)
    BY <1>1, FetchType DEF Fetch, TypeOK
  <1>3. m.handle \in Handles /\ m.handle \in Keys
    <2>1. m # ErrorReply
      BY <1>1 DEF ErrorReply
    <2>2. m.handle \in Handles
      BY <1>2, <2>1 DEF Replies
    <2> QED BY <2>2 DEF Keys
  <1>4. awaiting[c] # <<>>
    BY <1>1 DEF Accepts, WorkTypes, UpdateTypes, FinalTypes
  <1>5. r \in Requests /\ Tail(awaiting[c]) \in Seq(Requests)
    BY <1>4, TailFacts DEF TypeOK, SessionsOK
  <1>6. RequestsOK'
    BY <1>3, <1>5 DEF RecvJobCreated, TypeOK, RequestsOK, JobStates, answerVars
  <1>7. SessionsOK'
    BY <1>1, <1>2, <1>3, <1>5
    DEF RecvJobCreated, Fetch, TypeOK, SessionsOK, serverVars, linkVars
  <1>8. BoundsOK'
    BY DEF RecvJobCreated, TypeOK, BoundsOK, boundVars
  <1> QED BY <1>6, <1>7, <1>8 DEF TypeOK

LEMMA HoldUpType ==
    ASSUME SessionsOK, NEW c \in Conns, HoldUp(c)
    PROVE  stalled' \in [Conns -> BOOLEAN]
  <1>1. PICK rest \in {FALSE, Len(inbound[c]) > 1} :
          stalled' = [stalled EXCEPT ![c] = rest]
    BY DEF HoldUp
  <1>2. rest = TRUE \/ rest = FALSE
    <2>1. Len(inbound[c]) \in Nat
      BY DEF SessionsOK
    <2> QED BY <2>1, SMT
  <1> QED BY <1>1, <1>2 DEF SessionsOK

\* A command of the given type that the handler takes off the wire leaves the
\* session well typed when nothing else of the session changes.
LEMMA FetchSession ==
    ASSUME TypeOK, NEW c \in Conns, NEW type, Fetch(c, type),
           UNCHANGED <<linkVars, awaiting, registered, submits, asked, serverVars,
                       boundVars>>,
           UNCHANGED stalled \/ HoldUp(c)
    PROVE  SessionsOK' /\ BoundsOK'
  <1>1. Tail(inbound[c]) \in Seq(Replies)
    BY FetchType DEF Fetch, TypeOK
  <1>2. inbound' \in [Conns -> Seq(Replies)]
    BY <1>1 DEF Fetch, TypeOK, SessionsOK
  <1>3. stalled' \in [Conns -> BOOLEAN]
    BY HoldUpType DEF TypeOK, SessionsOK
  <1> QED BY <1>2, <1>3 DEF TypeOK, SessionsOK, BoundsOK, serverVars, boundVars, linkVars

LEMMA RecvWorkType ==
    ASSUME TypeOK, NEW c \in Conns,
           RecvWorkUpdate(c) \/ RecvWorkComplete(c) \/ RecvWorkFail(c) \/ RecvStatusRes(c)
    PROVE  TypeOK'
  <1> DEFINE m == Head(inbound[c])
             r == RequestOf(c, m)
  <1>1. PICK type \in WorkTypes \cup {"STATUS_RES"} : Fetch(c, type)
    BY DEF RecvWorkUpdate, RecvWorkComplete, RecvWorkFail, RecvStatusRes, WorkTypes,
           UpdateTypes, FinalTypes
  <1>2. /\ m.type = type /\ m.data \in Requests \cup {None} /\ m.known \in BOOLEAN
        /\ r \in Requests /\ (type # "STATUS_RES" => m.data \in Requests)
    BY <1>1, RequestType DEF TypeOK
  <1>3. SessionsOK' /\ BoundsOK'
    BY <1>1, FetchSession
    DEF RecvWorkUpdate, RecvWorkComplete, RecvWorkFail, RecvStatusRes
  <1>4. RequestsOK'
    <2>1. CASE RecvWorkUpdate(c)
      <3>0. m.data \in Requests
        BY <2>1, <1>2 DEF RecvWorkUpdate, Fetch
      <3>1. /\ Append(data_updates[r], m.data) \in Seq(Requests)
            /\ Append(warning_updates[r], m.data) \in Seq(Requests)
        <4>1. data_updates[r] \in Seq(Requests) /\ warning_updates[r] \in Seq(Requests)
          BY <1>2 DEF TypeOK, RequestsOK
        <4> QED BY <3>0, <4>1
      <3>2. [fresh |-> TRUE, known |-> TRUE, of |-> m.data] \in Statuses
        BY <1>2 DEF Statuses
      <3>3. /\ data_updates' \in [Requests -> Seq(Requests)]
            /\ warning_updates' \in [Requests -> Seq(Requests)]
        BY <2>1, <3>1 DEF RecvWorkUpdate, TypeOK, RequestsOK
      <3>4. exception' \in [Requests -> Requests \cup {None}]
        BY <2>1, <3>0 DEF RecvWorkUpdate, TypeOK, RequestsOK
      <3>5. status' \in [Requests -> Statuses]
        BY <2>1, <3>2 DEF RecvWorkUpdate, TypeOK, RequestsOK
      <3> QED
        BY <2>1, <3>3, <3>4, <3>5 DEF RecvWorkUpdate, TypeOK, RequestsOK
    <2>2. CASE RecvWorkComplete(c)
      <3>1. m.data \in Requests
        BY <2>2, <1>2 DEF RecvWorkComplete, Fetch
      <3> QED BY <2>2, <1>2, <3>1 DEF RecvWorkComplete, TypeOK, RequestsOK, JobStates
    <2>3. CASE RecvWorkFail(c)
      BY <2>3, <1>2 DEF RecvWorkFail, TypeOK, RequestsOK, JobStates, answerVars
    <2>4. CASE RecvStatusRes(c)
      <3>1. [fresh |-> TRUE, known |-> DecodeKnown(m.known), of |-> m.data] \in Statuses
        BY <1>2, ConstantsAssumption DEF Statuses, DecodeKnown
      <3> QED BY <2>4, <3>1 DEF RecvStatusRes, TypeOK, RequestsOK
    <2> QED BY <2>1, <2>2, <2>3, <2>4
  <1> QED BY <1>3, <1>4 DEF TypeOK

LEMMA RecvOtherType ==
    ASSUME TypeOK, NEW c \in Conns,
           RecvError(c) \/ RecvRaises(c) \/ HandleError(c)
    PROVE  TypeOK'
  <1>1. CASE RecvError(c)
    <2>1. SessionsOK' /\ BoundsOK'
      BY <1>1, FetchSession DEF RecvError
    <2> QED BY <1>1, <2>1 DEF RecvError, TypeOK, RequestsOK, requestVars
  <1>2. CASE RecvRaises(c)
    <2>1. Tail(inbound[c]) \in Seq(Replies)
      BY <1>2, FetchType DEF RecvRaises, TypeOK
    <2>2. awaiting[c] # <<>> => Tail(awaiting[c]) \in Seq(Requests)
      BY TailFacts DEF TypeOK, SessionsOK
    <2>3. awaiting' \in [Conns -> Seq(Requests)] /\ inbound' \in [Conns -> Seq(Replies)]
      BY <1>2, <2>1, <2>2 DEF RecvRaises, TypeOK, SessionsOK
    <2>4. stalled' \in [Conns -> BOOLEAN]
      BY <1>2, HoldUpType DEF RecvRaises, TypeOK
    <2>5. SessionsOK' /\ BoundsOK'
      BY <1>2, <2>3, <2>4
      DEF RecvRaises, TypeOK, SessionsOK, BoundsOK, serverVars, boundVars, linkVars
    <2> QED BY <1>2, <2>5 DEF RecvRaises, TypeOK, RequestsOK, requestVars
  <1>3. CASE HandleError(c)
    <2>1. RequestsOK' /\ BoundsOK'
      BY <1>3
      DEF HandleError, TypeOK, RequestsOK, BoundsOK, JobStates, answerVars, boundVars
    <2>2. /\ <<>> \in Seq(Requests) /\ <<>> \in Seq(Keys) /\ <<>> \in Seq(Replies)
          /\ NoRequests \in [Keys -> Requests \cup {None}]
      BY DEF NoRequests
    <2>3. SessionsOK'
      BY <1>3, <2>2 DEF HandleError, TypeOK, SessionsOK
    <2> QED BY <2>1, <2>3 DEF TypeOK
  <1> QED BY <1>1, <1>2, <1>3

LEMMA ReplyType ==
    ASSUME SessionsOK, NEW c \in Conns, NEW m \in Replies, Reply(c, m)
    PROVE  inbound' \in [Conns -> Seq(Replies)] /\ stalled' \in [Conns -> BOOLEAN]
  <1>1. inbound[c] \in Seq(Replies)
    BY DEF SessionsOK
  <1>2. Append(inbound[c], m) \in Seq(Replies)
    BY <1>1
  <1> QED BY <1>2 DEF Reply, SessionsOK

LEMMA ServerType ==
    ASSUME TypeOK, NEW c \in Conns, Server(c)
    PROVE  TypeOK'
  <1>1. CASE ServerCreatesJob(c)
    <2> DEFINE r == submits[c][taken[c] + 1]
               h == Len(jobs[c]) + 1
               m == [type |-> "JOB_CREATED", handle |-> h, data |-> r, known |-> TRUE]
    <2>1. r \in Requests /\ h \in Handles
      BY <1>1 DEF ServerCreatesJob, IsSent, TypeOK, SessionsOK
    <2>2. m \in Replies
      BY <2>1 DEF Replies, ReplyTypes
    <2>3. inbound' \in [Conns -> Seq(Replies)] /\ stalled' \in [Conns -> BOOLEAN]
      BY <1>1, <2>2, ReplyType DEF ServerCreatesJob, TypeOK
    <2>4. jobs[c] \in Seq(Requests)
      BY DEF TypeOK, SessionsOK
    <2>5. Append(jobs[c], r) \in Seq(Requests)
      BY <2>1, <2>4
    <2>6. SessionsOK'
      <3>1. jobs' \in [Conns -> Seq(Requests)]
        BY <1>1, <2>5 DEF ServerCreatesJob, TypeOK, SessionsOK
      <3>2. taken' \in [Conns -> Nat]
        BY <1>1 DEF ServerCreatesJob, TypeOK, SessionsOK
      <3> QED BY <1>1, <2>3, <3>1, <3>2 DEF ServerCreatesJob, TypeOK, SessionsOK, linkVars
    <2> QED
      BY <1>1, <2>6 DEF ServerCreatesJob, TypeOK, RequestsOK, BoundsOK, requestVars, boundVars
  <1>2. CASE ServerRejectsJob(c)
    <2>1. inbound' \in [Conns -> Seq(Replies)] /\ stalled' \in [Conns -> BOOLEAN]
      BY <1>2, ReplyType DEF ServerRejectsJob, TypeOK, Replies
    <2>2. taken' \in [Conns -> Nat]
      BY <1>2 DEF ServerRejectsJob, TypeOK, SessionsOK
    <2>3. SessionsOK'
      BY <1>2, <2>1, <2>2 DEF ServerRejectsJob, TypeOK, SessionsOK, linkVars
    <2> QED
      BY <1>2, <2>3 DEF ServerRejectsJob, TypeOK, RequestsOK, BoundsOK, requestVars
  <1>3. ASSUME NEW h \in Handles, NEW type \in UpdateTypes, ServerUpdates(c, h, type)
        PROVE  TypeOK'
    <2> DEFINE m == [type |-> type, handle |-> h, data |-> jobs[c][h], known |-> TRUE]
    <2>1. m \in Replies
      BY <1>3 DEF ServerUpdates, TypeOK, SessionsOK, Replies, ReplyTypes, WorkTypes
    <2>2. inbound' \in [Conns -> Seq(Replies)] /\ stalled' \in [Conns -> BOOLEAN]
      BY <1>3, <2>1, ReplyType DEF ServerUpdates, TypeOK
    <2>3. SessionsOK'
      BY <1>3, <2>2 DEF ServerUpdates, TypeOK, SessionsOK, linkVars
    <2> QED
      BY <1>3, <2>3 DEF ServerUpdates, TypeOK, RequestsOK, BoundsOK, requestVars
  <1>4. ASSUME NEW h \in Handles, NEW type \in FinalTypes, ServerFinishes(c, h, type)
        PROVE  TypeOK'
    <2> DEFINE m == [type |-> type, handle |-> h, data |-> jobs[c][h], known |-> FALSE]
    <2>1. m \in Replies
      BY <1>4 DEF ServerFinishes, TypeOK, SessionsOK, Replies, ReplyTypes, WorkTypes
    <2>2. inbound' \in [Conns -> Seq(Replies)] /\ stalled' \in [Conns -> BOOLEAN]
      BY <1>4, <2>1, ReplyType DEF ServerFinishes, TypeOK
    <2>3. SessionsOK'
      BY <1>4, <2>2 DEF ServerFinishes, TypeOK, SessionsOK, linkVars
    <2> QED
      BY <1>4, <2>3
      DEF ServerFinishes, TypeOK, RequestsOK, BoundsOK, requestVars, boundVars
  <1>5. CASE ServerAnswersStatus(c)
    <2> DEFINE h == Head(asked[c])
               m == [type |-> "STATUS_RES", handle |-> h,
                     data |-> IF h \in DOMAIN jobs[c] THEN jobs[c][h] ELSE None,
                     known |-> h \in DOMAIN jobs[c] /\ h \notin finished[c]]
    <2>1. h \in Handles /\ Tail(asked[c]) \in Seq(Keys)
      BY <1>5, TailFacts DEF ServerAnswersStatus, TypeOK, SessionsOK, Keys
    <2>2. m \in Replies
      <3>1. CASE h \in DOMAIN jobs[c]
        <4>1. jobs[c][h] \in Requests
          BY <3>1 DEF TypeOK, SessionsOK
        <4>2. (h \in DOMAIN jobs[c] /\ h \notin finished[c]) \in BOOLEAN
          BY Zenon
        <4> QED BY <3>1, <2>1, <4>1, <4>2 DEF Replies, ReplyTypes
      <3>2. CASE h \notin DOMAIN jobs[c]
        BY <3>2, <2>1 DEF Replies
      <3> QED BY <3>1, <3>2
    <2>3. inbound' \in [Conns -> Seq(Replies)] /\ stalled' \in [Conns -> BOOLEAN]
      BY <1>5, <2>2, ReplyType DEF ServerAnswersStatus, TypeOK
    <2>4. SessionsOK'
      BY <1>5, <2>1, <2>3 DEF ServerAnswersStatus, TypeOK, SessionsOK, serverVars, linkVars
    <2> QED
      BY <1>5, <2>4
      DEF ServerAnswersStatus, TypeOK, RequestsOK, BoundsOK, requestVars, boundVars
  <1> QED BY <1>1, <1>2, <1>3, <1>4, <1>5 DEF Server

\* Type correctness: in every behaviour, of any number of requests and servers,
\* the handler's maps hold only requests, and no request takes its result, data or
\* status from a command that carries none.
THEOREM TypeCorrect == Spec => []TypeOK
  <1>1. ASSUME TypeOK, Next PROVE TypeOK'
    BY <1>1, SendType, GetJobStatusType, GetStatusOfLostType, ForgetType, CloseUntoldType,
       RecvJobCreatedType, RecvWorkType, RecvOtherType, PackFailsType, ServerType
    DEF Next, Receive, Abandon, Shutdown
  <1>2. ASSUME TypeOK, UNCHANGED vars PROVE TypeOK'
    BY <1>2
    DEF vars, requestVars, sessionVars, boundVars, TypeOK, RequestsOK, SessionsOK, BoundsOK
  <1> QED BY <1>1, <1>2, InitType, PTL DEF Spec

-----------------------------------------------------------------------------
(***************************************************************************)
(* What the other proofs use: the ranges of a session, and the answers.    *)
(***************************************************************************)

\* The lengths and ranges the index arithmetic of the invariant needs.
LEMMA SessionLengths ==
    ASSUME TypeOK, NEW c \in Conns
    PROVE  /\ awaiting[c] \in Seq(Requests) /\ Len(awaiting[c]) \in Nat
           /\ submits[c] \in Seq(Requests) /\ Len(submits[c]) \in Nat
           /\ jobs[c] \in Seq(Requests) /\ Len(jobs[c]) \in Nat
           /\ inbound[c] \in Seq(Replies) /\ Len(inbound[c]) \in Nat
           /\ asked[c] \in Seq(Keys) /\ Len(asked[c]) \in Nat
           /\ taken[c] \in Nat
    BY DEF TypeOK, SessionsOK

\* An answer that tells of the very request it is delivered to leaves every request
\* with answers of its own.
LEMMA OwnAnswers ==
    ASSUME TypeOK, AnswersAreOwn, NEW c \in Conns,
           RecvWorkUpdate(c) \/ RecvWorkComplete(c) \/ RecvWorkFail(c) \/ RecvStatusRes(c),
           RequestOf(c, Head(inbound[c])) \in Requests,
           Head(inbound[c]).data = RequestOf(c, Head(inbound[c]))
    PROVE  AnswersAreOwn'
  <1> USE DEF AnswersAreOwn
  <1> DEFINE m == Head(inbound[c])
             r == RequestOf(c, m)
  <1>1. CASE RecvWorkComplete(c)
    BY <1>1 DEF RecvWorkComplete, TypeOK, RequestsOK
  <1>2. CASE RecvWorkFail(c)
    BY <1>2 DEF RecvWorkFail, answerVars
  <1>3. CASE RecvStatusRes(c)
    <2>1. \A q \in Requests : status'[q].of \in {status[q].of, q}
      BY <1>3 DEF RecvStatusRes, TypeOK, RequestsOK
    <2> QED BY <1>3, <2>1 DEF RecvStatusRes
  <1>4. CASE RecvWorkUpdate(c)
    <2>1. /\ \/ status' = status
             \/ status' = [status EXCEPT ![r] = [fresh |-> TRUE, known |-> TRUE,
                                                 of |-> m.data]]
          /\ \/ exception' = exception
             \/ exception' = [exception EXCEPT ![r] = m.data]
          /\ \/ data_updates' = data_updates
             \/ data_updates' = [data_updates EXCEPT ![r] = Append(@, m.data)]
          /\ \/ warning_updates' = warning_updates
             \/ warning_updates' = [warning_updates EXCEPT ![r] = Append(@, m.data)]
          /\ result' = result
      BY <1>4 DEF RecvWorkUpdate
    <2>2. \A q \in Requests : status'[q].of \in {status[q].of, q}
      <3>1. CASE status' = status
        BY <3>1
      <3>2. CASE status' = [status EXCEPT ![r] = [fresh |-> TRUE, known |-> TRUE,
                                                  of |-> m.data]]
        BY <3>2 DEF TypeOK, RequestsOK
      <3> QED BY <2>1, <3>1, <3>2
    <2>3. \A q \in Requests : exception'[q] \in {exception[q], q}
      <3>1. DOMAIN exception = Requests
        BY DEF TypeOK, RequestsOK
      <3> QED BY <2>1, <3>1
    <2>4. \A q \in Requests : \/ data_updates'[q] = data_updates[q]
                              \/ data_updates'[q] = Append(data_updates[q], q)
      <3>1. DOMAIN data_updates = Requests
        BY DEF TypeOK, RequestsOK
      <3> QED BY <2>1, <3>1
    <2>5. \A q \in Requests : \/ warning_updates'[q] = warning_updates[q]
                              \/ warning_updates'[q] = Append(warning_updates[q], q)
      <3>1. DOMAIN warning_updates = Requests
        BY DEF TypeOK, RequestsOK
      <3> QED BY <2>1, <3>1
    <2>6. ASSUME NEW q \in Requests, NEW u \in Seq(Requests), NEW v,
                 \A i \in DOMAIN u : u[i] = q, v = u \/ v = Append(u, q)
          PROVE  \A i \in DOMAIN v : v[i] = q
      BY <2>6
    <2>7. ASSUME NEW q \in Requests
          PROVE  \A i \in DOMAIN data_updates'[q] : data_updates'[q][i] = q
      <3>1. /\ data_updates[q] \in Seq(Requests)
            /\ \A i \in DOMAIN data_updates[q] : data_updates[q][i] = q
        BY DEF TypeOK, RequestsOK
      <3> QED BY <2>4, <2>6, <3>1
    <2>8. ASSUME NEW q \in Requests
          PROVE  \A i \in DOMAIN warning_updates'[q] : warning_updates'[q][i] = q
      <3>1. /\ warning_updates[q] \in Seq(Requests)
            /\ \A i \in DOMAIN warning_updates[q] : warning_updates[q][i] = q
        BY DEF TypeOK, RequestsOK
      <3> QED BY <2>5, <2>6, <3>1
    <2> QED BY <2>1, <2>2, <2>3, <2>7, <2>8
  <1> QED BY <1>1, <1>2, <1>3, <1>4
=============================================================================
