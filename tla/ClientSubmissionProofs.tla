------------------------ MODULE ClientSubmissionProofs ------------------------
(***************************************************************************)
(* Theorems about ClientHandler whatever the servers and the application   *)
(* do: submissions may be refused or lost unsent, connections closed       *)
(* without telling their handlers, requests dropped by the application and *)
(* asked after under old handles, in any number.                           *)
(*                                                                         *)
(* Two invariants are proved.  Submissions, of where a request is queued,  *)
(* registered and submitted, holds until get_job_status files a request    *)
(* under a key its session has not given it.  Numbering, of how the wire   *)
(* and the queue of a session number its handles, holds until then or      *)
(* until commands are lost as one cannot be packed.  The matching of       *)
(* JOB_CREATED to submissions by order (HandlesMatch, CorrelationInv)      *)
(* follows from the two where, besides, no submission is refused.          *)
(***************************************************************************)
EXTENDS ClientHandlerProofs

-----------------------------------------------------------------------------
(***************************************************************************)
(* Queues without repetition.                                              *)
(***************************************************************************)

Elems(q) == {q[i] : i \in 1 .. Len(q)}

Distinct(q) == \A i, j \in 1 .. Len(q) : q[i] = q[j] => i = j

\* Appending what is not in the queue keeps its elements distinct.
LEMMA AppendDistinct ==
    ASSUME NEW S, NEW q \in Seq(S), NEW e \in S
    PROVE  /\ Elems(Append(q, e)) = Elems(q) \cup {e}
           /\ Distinct(q) /\ e \notin Elems(q) => Distinct(Append(q, e))
  <1> DEFINE n == Len(q)
             p == Append(q, e)
  <1>1. /\ n \in Nat /\ Len(p) = n + 1 /\ p[n + 1] = e
        /\ \A i \in 1 .. n : p[i] = q[i]
    BY AppendFacts
  <1> HIDE DEF n, p
  <1>2. \A i \in 1 .. n + 1 : i \in 1 .. n \/ i = n + 1
    BY <1>1
  <1>3. /\ \A i \in 1 .. n : i \in 1 .. n + 1
        /\ n + 1 \in 1 .. n + 1
    BY <1>1
  <1>4. Elems(p) = Elems(q) \cup {e}
    BY <1>1, <1>2, <1>3 DEF Elems, n
  <1>5. ASSUME Distinct(q), e \notin Elems(q) PROVE Distinct(p)
    <2>1. /\ \A i, j \in 1 .. n : q[i] = q[j] => i = j
          /\ \A i \in 1 .. n : q[i] # e
      BY <1>5 DEF Distinct, Elems, n
    <2> QED BY <1>1, <1>2, <2>1 DEF Distinct
  <1> QED BY <1>4, <1>5 DEF p

\* Taking the head of a queue without repetition takes that element out of it.
LEMMA TailDistinct ==
    ASSUME NEW S, NEW q \in Seq(S), q # <<>>, Distinct(q)
    PROVE  /\ Distinct(Tail(q))
           /\ Head(q) \in Elems(q)
           /\ Elems(Tail(q)) = Elems(q) \ {Head(q)}
  <1> DEFINE n == Len(q)
             t == Tail(q)
  <1>1. /\ n \in Nat \ {0} /\ Len(t) = n - 1 /\ Head(q) = q[1]
        /\ \A i \in 1 .. n - 1 : t[i] = q[i + 1]
    BY TailFacts
  <1> HIDE DEF n, t
  <1>2. /\ \A i, j \in 1 .. n - 1 : i + 1 = j + 1 => i = j
        /\ \A i \in 1 .. n - 1 : i + 1 \in 1 .. n /\ i + 1 # 1
        /\ \A i \in 1 .. n : i # 1 => i - 1 \in 1 .. n - 1 /\ (i - 1) + 1 = i
        /\ 1 \in 1 .. n
    BY <1>1
  <1>3. \A i, j \in 1 .. n : q[i] = q[j] => i = j
    BY DEF Distinct, n
  <1>4. Distinct(t)
    BY <1>1, <1>2, <1>3 DEF Distinct
  <1>5. Elems(t) \subseteq Elems(q) \ {Head(q)}
    BY <1>1, <1>2, <1>3 DEF Elems, n
  <1>6. Elems(q) \ {Head(q)} \subseteq Elems(t)
    <2> SUFFICES ASSUME NEW i \in 1 .. n, q[i] # q[1] PROVE q[i] \in Elems(t)
      BY <1>1 DEF Elems, n
    <2>1. i - 1 \in 1 .. n - 1 /\ t[i - 1] = q[i]
      BY <1>1, <1>2
    <2> QED BY <1>1, <2>1 DEF Elems
  <1>7. Head(q) \in Elems(q)
    BY <1>1, <1>2 DEF Elems, n
  <1> QED BY <1>4, <1>5, <1>6, <1>7 DEF t

LEMMA SmallDistinct ==
    /\ Distinct(<<>>) /\ Elems(<<>>) = {}
    /\ \A e : Distinct(<<e>>) /\ Elems(<<e>>) = {e}
    BY DEF Distinct, Elems

-----------------------------------------------------------------------------
(***************************************************************************)
(* Submissions: the inductive invariant.                                   *)
(***************************************************************************)

\* What awaits a handle, what is registered and what was submitted over a live
\* session are requests last submitted there, and of the state that goes with it.
AwaitedOnce(c) ==
    /\ Distinct(awaiting[c])
    /\ \A r \in Elems(awaiting[c]) :
           state[r] = "PENDING" /\ conn[r] = c /\ (closings = 0 => connected[c])

RegisteredSettled(c) ==
    \A h \in Keys : LET r == registered[c][h] IN
        r # None => conn[r] = c /\ state[r] \in Settled /\ (closings = 0 => connected[c])

SubmittedOnce(c) ==
    connected[c] =>
        /\ Distinct(submits[c])
        /\ \A r \in Elems(submits[c]) : state[r] # "UNKNOWN" /\ conn[r] = c

\* Unless a connection was closed without telling its handler, a pending request is in
\* the queue of a live one.
PendingTracked(r) ==
    closings = 0 /\ state[r] = "PENDING" =>
        /\ conn[r] \in Conns /\ connected[conn[r]]
        /\ r \in Elems(awaiting[conn[r]])

Submissions ==
    /\ \A c \in Conns : AwaitedOnce(c) /\ RegisteredSettled(c) /\ SubmittedOnce(c)
    /\ \A r \in Requests : PendingTracked(r)

\* The elements of the queues are requests, those of the maps requests or None.
LEMMA ElemsType ==
    ASSUME TypeOK, NEW c \in Conns
    PROVE  /\ awaiting[c] \in Seq(Requests) /\ Elems(awaiting[c]) \subseteq Requests
           /\ submits[c] \in Seq(Requests) /\ Elems(submits[c]) \subseteq Requests
           /\ \A h \in Keys : registered[c][h] \in Requests \cup {None}
           /\ Elems(awaiting[c]) = Awaited(c)
           /\ Tracked(c) = Elems(awaiting[c])
                             \cup ({registered[c][h] : h \in Keys} \ {None})
  <1>1. awaiting[c] \in Seq(Requests) /\ submits[c] \in Seq(Requests)
    BY DEF TypeOK, SessionsOK
  <1>2. DOMAIN awaiting[c] = 1 .. Len(awaiting[c])
    BY <1>1
  <1>3. \A h \in Keys : registered[c][h] \in Requests \cup {None}
    BY DEF TypeOK, SessionsOK
  <1>4. \A q \in Seq(Requests) : Elems(q) \subseteq Requests
    BY DEF Elems
  <1> QED BY <1>1, <1>2, <1>3, <1>4 DEF Elems, Awaited, Tracked

LEMMA InitSubmissions == Init => Submissions
    BY SmallDistinct
    DEF Init, Submissions, AwaitedOnce, RegisteredSettled, SubmittedOnce, PendingTracked,
        NoRequests

\* Nothing that Submissions speaks of changes but for requests let go of, and
\* for connections closed without telling their handlers.
LEMMA QuietSubmissions ==
    ASSUME TypeOK, Submissions, UNCHANGED <<state, conn, awaiting, submits>>,
           \/ UNCHANGED <<connected, closings>>
           \/ (closings' # 0 /\ \A c \in Conns : connected'[c] => connected[c]),
           \A c \in Conns, h \in Keys : registered'[c][h] \in {registered[c][h], None}
    PROVE  Submissions'
  <1>1. \A c \in Conns : AwaitedOnce(c)' /\ RegisteredSettled(c)'
    BY DEF Submissions, AwaitedOnce, RegisteredSettled
  <1>2. \A c \in Conns : SubmittedOnce(c)'
    BY DEF Submissions, SubmittedOnce
  <1>3. \A r \in Requests : PendingTracked(r)'
    BY DEF Submissions, PendingTracked
  <1> QED BY <1>1, <1>2, <1>3 DEF Submissions

LEMMA SendSubmissions ==
    ASSUME TypeOK, Submissions, NEW r \in Requests, NEW c \in Conns, SendJobRequest(r, c)
    PROVE  Submissions'
  <1>1. /\ state[r] = "UNKNOWN"
        /\ state'[r] = "PENDING" /\ conn'[r] = c /\ closings' = closings
        /\ \A q \in Requests : q # r => state'[q] = state[q] /\ conn'[q] = conn[q]
    <2>1. MarkSubmitted(r, c)
      BY DEF SendJobRequest, SendOnOpenConnection, SendOnNewConnection
    <2> QED BY <2>1 DEF SendJobRequest, MarkSubmitted, TypeOK, RequestsOK, boundVars
  <1>2. /\ connected'[c]
        /\ \A d \in Conns \ {c} :
               /\ connected'[d] = connected[d] /\ awaiting'[d] = awaiting[d]
               /\ registered'[d] = registered[d] /\ submits'[d] = submits[d]
        /\ \/ /\ connected[c] /\ awaiting'[c] = Append(awaiting[c], r)
              /\ submits'[c] = Append(submits[c], r) /\ registered'[c] = registered[c]
           \/ /\ ~connected[c] /\ awaiting'[c] = <<r>> /\ submits'[c] = <<r>>
              /\ registered'[c] = NoRequests
    BY DEF SendJobRequest, SendOnOpenConnection, SendOnNewConnection, TypeOK, SessionsOK,
           linkVars
  <1>3. \A d \in Conns : /\ r \notin Elems(awaiting[d])
                         /\ \A h \in Keys : registered[d][h] # r
                         /\ connected[d] => r \notin Elems(submits[d])
    BY <1>1, ConstantsAssumption
    DEF Submissions, AwaitedOnce, RegisteredSettled, SubmittedOnce, Settled, Terminal
  <1>4. ASSUME NEW d \in Conns, d # c
        PROVE  AwaitedOnce(d)' /\ RegisteredSettled(d)' /\ SubmittedOnce(d)'
    <2>1. /\ connected'[d] = connected[d] /\ awaiting'[d] = awaiting[d]
          /\ registered'[d] = registered[d] /\ submits'[d] = submits[d]
      BY <1>2, <1>4
    <2>2. AwaitedOnce(d)'
      BY <1>1, <1>3, <2>1, ElemsType DEF Submissions, AwaitedOnce
    <2>3. RegisteredSettled(d)'
      BY <1>1, <1>3, <2>1, ElemsType DEF Submissions, RegisteredSettled
    <2>4. SubmittedOnce(d)'
      <3>1. SubmittedOnce(d) /\ Elems(submits[d]) \subseteq Requests
        BY ElemsType DEF Submissions
      <3> QED BY <1>1, <1>3, <2>1, <3>1 DEF SubmittedOnce
    <2> QED BY <2>2, <2>3, <2>4
  <1>5. CASE connected[c]
    <2>1. /\ Distinct(awaiting'[c]) /\ Elems(awaiting'[c]) = Elems(awaiting[c]) \cup {r}
          /\ Distinct(submits'[c]) /\ Elems(submits'[c]) = Elems(submits[c]) \cup {r}
      <3>1. /\ awaiting'[c] = Append(awaiting[c], r) /\ submits'[c] = Append(submits[c], r)
            /\ Distinct(awaiting[c]) /\ Distinct(submits[c])
        BY <1>2, <1>5 DEF Submissions, AwaitedOnce, SubmittedOnce
      <3> QED BY <1>3, <1>5, <3>1, ElemsType, AppendDistinct
    <2>2. /\ AwaitedOnce(c)' /\ RegisteredSettled(c)' /\ SubmittedOnce(c)'
      <3>1. AwaitedOnce(c)'
        BY <1>1, <1>2, <1>3, <2>1, ElemsType DEF Submissions, AwaitedOnce
      <3>2. RegisteredSettled(c)'
        BY <1>1, <1>2, <1>3, <1>5, ElemsType DEF Submissions, RegisteredSettled
      <3>3. SubmittedOnce(c)'
        BY <1>1, <1>3, <1>5, <2>1, ElemsType DEF Submissions, SubmittedOnce
      <3> QED BY <3>1, <3>2, <3>3
    <2>3. ASSUME NEW q \in Requests PROVE PendingTracked(q)'
      BY <1>1, <1>2, <1>5, <2>1 DEF Submissions, PendingTracked
    <2> QED BY <1>4, <2>2, <2>3 DEF Submissions
  <1>6. CASE ~connected[c]
    <2>1. /\ Distinct(awaiting'[c]) /\ Elems(awaiting'[c]) = {r}
          /\ Distinct(submits'[c]) /\ Elems(submits'[c]) = {r}
      BY <1>2, <1>6, SmallDistinct
    <2>2. AwaitedOnce(c)' /\ RegisteredSettled(c)' /\ SubmittedOnce(c)'
      BY <1>1, <1>2, <1>6, <2>1
      DEF AwaitedOnce, RegisteredSettled, SubmittedOnce, NoRequests
    <2>3. ASSUME NEW q \in Requests PROVE PendingTracked(q)'
      BY <1>1, <1>2, <1>6, <2>1 DEF Submissions, PendingTracked
    <2> QED BY <1>4, <2>2, <2>3 DEF Submissions
  <1> QED BY <1>5, <1>6

\* A request filed where it is already changes nothing.
LEMMA SameRegistered ==
    ASSUME TypeOK, NEW r \in Requests, GetJobStatus(r), ~misfiled'
    PROVE  /\ ~misfiled /\ registered' = registered
           /\ conn[r] \in Conns /\ handle[r] \in Keys
           /\ registered[conn[r]][handle[r]] = r
  <1>1. conn[r] \in Conns /\ handle[r] \in Keys
    BY DEF GetJobStatus, TypeOK, RequestsOK, SessionsOK
  <1>2. ~misfiled /\ registered[conn[r]][handle[r]] = r
    BY Zenon DEF GetJobStatus
  <1>3. registered' = [registered EXCEPT ![conn[r]][handle[r]] = r]
    BY DEF GetJobStatus
  <1>4. registered' = registered
    BY <1>1, <1>2, <1>3 DEF TypeOK, SessionsOK
  <1> QED BY <1>1, <1>2, <1>4

LEMMA GetJobStatusSubmissions ==
    ASSUME TypeOK, Submissions, NEW r \in Requests, GetJobStatus(r), ~misfiled'
    PROVE  Submissions'
  <1>1. UNCHANGED <<state, conn, awaiting, submits, registered, connected, closings>>
    BY SameRegistered DEF GetJobStatus, linkVars
  <1> QED BY <1>1, QuietSubmissions

LEMMA OtherAppSubmissions ==
    ASSUME TypeOK, Submissions,
           \/ \E r \in Requests : GetStatusOfLost(r) \/ Forget(r)
           \/ \E D : CloseUntold(D)
    PROVE  Submissions'
  <1>1. ASSUME NEW r \in Requests, GetStatusOfLost(r) PROVE Submissions'
    BY <1>1, QuietSubmissions DEF GetStatusOfLost, sessionVars, boundVars
  <1>2. ASSUME NEW r \in Requests, Forget(r) PROVE Submissions'
    BY <1>2, QuietSubmissions DEF Forget, boundVars, linkVars
  <1>3. ASSUME NEW D, CloseUntold(D) PROVE Submissions'
    <2>1. closings' # 0 /\ \A c \in Conns : connected'[c] => connected[c]
      BY <1>3 DEF CloseUntold, TypeOK, BoundsOK, SessionsOK
    <2> QED BY <1>3, <2>1, QuietSubmissions DEF CloseUntold, requestVars
  <1> QED BY <1>1, <1>2, <1>3

\* What is cut out of a queue leaves it without repetition.
LEMMA CutDistinct ==
    ASSUME NEW S, NEW q \in Seq(S), NEW i \in 1 .. Len(q) + 1, NEW j \in i - 1 .. Len(q)
    PROVE  /\ Elems(Cut(q, i, j)) \subseteq Elems(q)
           /\ Distinct(q) => Distinct(Cut(q, i, j))
  <1> DEFINE p == Cut(q, i, j)
             d == j + 1 - i
             At(k) == IF k < i THEN k ELSE k + d
  <1>1. /\ Len(q) \in Nat /\ Len(p) = Len(q) - d
        /\ \A k \in 1 .. i - 1 : p[k] = q[k]
        /\ \A k \in i .. Len(q) - d : p[k] = q[k + d]
    BY CutFacts
  <1> HIDE DEF p
  <1>2. ASSUME NEW k \in 1 .. Len(p) PROVE At(k) \in 1 .. Len(q) /\ p[k] = q[At(k)]
    <2>1. CASE k < i
      <3>1. k \in 1 .. i - 1 /\ k \in 1 .. Len(q)
        BY <1>1, <2>1
      <3>2. p[k] = q[k]
        BY <1>1, <3>1
      <3> QED BY <2>1, <3>1, <3>2
    <2>2. CASE ~(k < i)
      <3>1. k \in i .. Len(q) - d /\ k + d \in 1 .. Len(q)
        BY <1>1, <2>2
      <3>2. p[k] = q[k + d]
        BY <1>1, <3>1
      <3> QED BY <2>2, <3>1, <3>2
    <2> QED BY <2>1, <2>2
  <1>3. ASSUME NEW k \in 1 .. Len(p), NEW l \in 1 .. Len(p), At(k) = At(l) PROVE k = l
    BY <1>1, <1>3
  <1> HIDE DEF At
  <1>4. Elems(p) \subseteq Elems(q)
    BY <1>2 DEF Elems
  <1>5. Distinct(q) => Distinct(p)
    BY <1>2, <1>3 DEF Distinct
  <1> QED BY <1>4, <1>5 DEF p

\* The requests whose submissions are lost unsent stay pending and queued.
LEMMA PackFailsSubmissions ==
    ASSUME TypeOK, Submissions, NEW c \in Conns, PackFails(c)
    PROVE  Submissions'
  <1>1. UNCHANGED <<state, conn, awaiting, registered, connected, closings>>
    BY DEF PackFails, requestVars, linkVars
  <1>2. PICK i \in 1 .. Len(submits[c]) + 1 : \E j \in i - 1 .. Len(submits[c]) :
            submits' = [submits EXCEPT ![c] = Cut(@, i, j)]
    BY PackFailsCut
  <1>3. PICK j \in i - 1 .. Len(submits[c]) :
            submits' = [submits EXCEPT ![c] = Cut(@, i, j)]
    BY <1>2
  <1>4. /\ Elems(submits'[c]) \subseteq Elems(submits[c])
        /\ Distinct(submits[c]) => Distinct(submits'[c])
        /\ \A d \in Conns \ {c} : submits'[d] = submits[d]
    <2>1. submits[c] \in Seq(Requests) /\ submits'[c] = Cut(submits[c], i, j)
      BY <1>3 DEF TypeOK, SessionsOK
    <2> QED BY <1>3, <2>1, CutDistinct DEF TypeOK, SessionsOK
  <1>5. \A d \in Conns : AwaitedOnce(d)' /\ RegisteredSettled(d)'
    BY <1>1 DEF Submissions, AwaitedOnce, RegisteredSettled
  <1>6. ASSUME NEW d \in Conns PROVE SubmittedOnce(d)'
    <2>1. CASE d = c
      BY <1>1, <1>4, <2>1 DEF Submissions, SubmittedOnce
    <2>2. CASE d # c
      BY <1>1, <1>4, <2>2 DEF Submissions, SubmittedOnce
    <2> QED BY <2>1, <2>2
  <1>7. \A r \in Requests : PendingTracked(r)'
    BY <1>1 DEF Submissions, PendingTracked
  <1> QED BY <1>5, <1>6, <1>7 DEF Submissions

\* The accepted request is the head of the queue, and it leaves it.
LEMMA RecvJobCreatedSubmissions ==
    ASSUME TypeOK, Submissions, NEW c \in Conns, RecvJobCreated(c)
    PROVE  Submissions'
  <1> DEFINE r == Head(awaiting[c])
             m == Head(inbound[c])
  <1>1. /\ awaiting[c] # <<>>
        /\ awaiting' = [awaiting EXCEPT ![c] = Tail(@)]
        /\ state' = [state EXCEPT ![r] = "CREATED"]
        /\ registered' = IF held[r] THEN [registered EXCEPT ![c][m.handle] = r]
                         ELSE registered
        /\ UNCHANGED <<conn, connected, submits, closings>> /\ connected[c]
    BY DEF RecvJobCreated, Fetch, Accepts, WorkTypes, UpdateTypes, FinalTypes, boundVars,
           linkVars
  <1>2. /\ r \in Elems(awaiting[c]) /\ r \in Requests
        /\ Distinct(awaiting'[c]) /\ Elems(awaiting'[c]) = Elems(awaiting[c]) \ {r}
        /\ \A d \in Conns \ {c} : awaiting'[d] = awaiting[d]
    BY <1>1, ElemsType, TailDistinct DEF Submissions, AwaitedOnce, TypeOK, SessionsOK
  <1>3. /\ state[r] = "PENDING" /\ conn[r] = c /\ state'[r] = "CREATED"
        /\ \A q \in Requests : q # r => state'[q] = state[q]
    BY <1>1, <1>2 DEF Submissions, AwaitedOnce, TypeOK, RequestsOK
  <1>4. ASSUME NEW d \in Conns PROVE AwaitedOnce(d)'
    <2>1. CASE d = c
      BY <1>1, <1>2, <1>3, <2>1, ElemsType DEF Submissions, AwaitedOnce
    <2>2. CASE d # c
      BY <1>1, <1>2, <1>3, <2>2, ElemsType DEF Submissions, AwaitedOnce
    <2> QED BY <2>1, <2>2
  <1>5. ASSUME NEW d \in Conns PROVE RegisteredSettled(d)'
    <2>1. ASSUME NEW h \in Keys
          PROVE  \/ registered'[d][h] = registered[d][h]
                 \/ registered'[d][h] = r /\ d = c
      BY <1>1 DEF TypeOK, SessionsOK
    <2> QED BY <1>1, <1>3, <2>1, ElemsType DEF Submissions, RegisteredSettled, Settled
  <1>6. ASSUME NEW d \in Conns PROVE SubmittedOnce(d)'
    BY <1>1, <1>3, ElemsType DEF Submissions, SubmittedOnce
  <1>7. ASSUME NEW q \in Requests PROVE PendingTracked(q)'
    BY <1>1, <1>2, <1>3 DEF Submissions, PendingTracked
  <1> QED BY <1>4, <1>5, <1>6, <1>7 DEF Submissions

\* A callback of a WORK_* or STATUS_RES ends an accepted request, or changes no state.
LEMMA RecvWorkState ==
    ASSUME TypeOK, NEW c \in Conns,
           RecvWorkUpdate(c) \/ RecvWorkComplete(c) \/ RecvWorkFail(c) \/ RecvStatusRes(c)
    PROVE  /\ UNCHANGED <<handle, conn, held, linkVars, awaiting, registered, stalled,
                          submits, asked, serverVars, boundVars>>
           /\ RequestOf(c, Head(inbound[c])) \in Requests
           /\ \A q \in Requests :
                 \/ state'[q] = state[q]
                 \/ /\ state[q] = "CREATED" /\ state'[q] \in Terminal
                    /\ q = RequestOf(c, Head(inbound[c]))
                    /\ Head(inbound[c]).type \in FinalTypes
  <1> DEFINE m == Head(inbound[c])
             r == RequestOf(c, m)
  <1>1. PICK type \in WorkTypes \cup {"STATUS_RES"} : Fetch(c, type)
    BY DEF RecvWorkUpdate, RecvWorkComplete, RecvWorkFail, RecvStatusRes, WorkTypes,
           UpdateTypes, FinalTypes
  <1>2. r \in Requests
    BY <1>1, RequestType DEF TypeOK
  <1>3. UNCHANGED <<handle, conn, held, linkVars, awaiting, registered, stalled, submits,
                    asked, serverVars, boundVars>>
    BY SMTT(30) DEF RecvWorkUpdate, RecvWorkComplete, RecvWorkFail, RecvStatusRes
  <1>4. \/ state' = state
        \/ /\ state[r] = "CREATED" /\ m.type \in FinalTypes
           /\ \E s \in Terminal : state' = [state EXCEPT ![r] = s]
    BY DEF RecvWorkUpdate, RecvWorkComplete, RecvWorkFail, RecvStatusRes, Fetch, Accepts,
           Terminal, WorkTypes, UpdateTypes, FinalTypes
  <1> QED BY <1>2, <1>3, <1>4 DEF TypeOK, RequestsOK

LEMMA RecvWorkSubmissions ==
    ASSUME TypeOK, Submissions, NEW c \in Conns,
           RecvWorkUpdate(c) \/ RecvWorkComplete(c) \/ RecvWorkFail(c) \/ RecvStatusRes(c)
    PROVE  Submissions'
  <1>1. /\ UNCHANGED <<conn, connected, awaiting, registered, submits, closings>>
        /\ \A q \in Requests :
               \/ state'[q] = state[q]
               \/ state[q] = "CREATED" /\ state'[q] \in Terminal
    BY RecvWorkState DEF boundVars, linkVars
  <1>2. \A d \in Conns : AwaitedOnce(d)'
    BY <1>1, ElemsType DEF Submissions, AwaitedOnce
  <1>3. \A d \in Conns : RegisteredSettled(d)'
    BY <1>1, ElemsType DEF Submissions, RegisteredSettled, Settled
  <1>4. \A d \in Conns : SubmittedOnce(d)'
    BY <1>1, ElemsType DEF Submissions, SubmittedOnce, Terminal
  <1>5. \A q \in Requests : PendingTracked(q)'
    BY <1>1 DEF Submissions, PendingTracked, Terminal
  <1> QED BY <1>2, <1>3, <1>4, <1>5 DEF Submissions

\* A callback that raises takes nothing off the queue: a queued request is pending.
LEMMA RecvOtherSubmissions ==
    ASSUME TypeOK, Submissions, NEW c \in Conns, RecvError(c) \/ RecvRaises(c)
    PROVE  Submissions'
  <1>1. UNCHANGED <<requestVars, connected, registered, submits, boundVars>>
    BY DEF RecvError, RecvRaises, linkVars
  <1>2. awaiting' = awaiting
    <2>1. CASE RecvError(c)
      BY <2>1 DEF RecvError
    <2>2. CASE RecvRaises(c) /\ Head(inbound[c]).type = "JOB_CREATED" /\ awaiting[c] # <<>>
      <3>1. Head(awaiting[c]) \in Elems(awaiting[c])
        BY <2>2, ElemsType, TailDistinct DEF Submissions, AwaitedOnce
      <3> QED BY <2>2, <3>1 DEF RecvRaises, Accepts, Submissions, AwaitedOnce
    <2>3. CASE RecvRaises(c) /\ ~(Head(inbound[c]).type = "JOB_CREATED" /\ awaiting[c] # <<>>)
      BY <2>3 DEF RecvRaises
    <2> QED BY <2>1, <2>2, <2>3
  <1> QED BY <1>1, <1>2, QuietSubmissions DEF requestVars, boundVars

\* handle_error marks the requests of the connection, and no other's.
LEMMA HandleErrorSubmissions ==
    ASSUME TypeOK, Submissions, NEW c \in Conns, HandleError(c)
    PROVE  Submissions'
  <1>1. /\ ~connected'[c] /\ awaiting'[c] = <<>> /\ registered'[c] = NoRequests
        /\ submits'[c] = <<>> /\ conn' = conn /\ closings' = closings
        /\ \A d \in Conns \ {c} :
               /\ connected'[d] = connected[d] /\ awaiting'[d] = awaiting[d]
               /\ registered'[d] = registered[d] /\ submits'[d] = submits[d]
        /\ \A q \in Requests :
               state'[q] = IF q \in Tracked(c) THEN "UNKNOWN" ELSE state[q]
    BY DEF HandleError, TypeOK, SessionsOK, boundVars
  <1>2. \A q \in Tracked(c) : conn[q] = c
    BY ElemsType DEF Submissions, AwaitedOnce, RegisteredSettled
  <1>3. AwaitedOnce(c)' /\ RegisteredSettled(c)' /\ SubmittedOnce(c)'
    BY <1>1, SmallDistinct DEF AwaitedOnce, RegisteredSettled, SubmittedOnce, NoRequests
  <1>4. ASSUME NEW d \in Conns, d # c
        PROVE  AwaitedOnce(d)' /\ RegisteredSettled(d)' /\ SubmittedOnce(d)'
    <2>1. /\ connected'[d] = connected[d] /\ awaiting'[d] = awaiting[d]
          /\ registered'[d] = registered[d] /\ submits'[d] = submits[d]
      BY <1>1, <1>4
    <2>2. \A q \in Requests : conn[q] = d => state'[q] = state[q]
      BY <1>1, <1>2, <1>4
    <2>3. AwaitedOnce(d)'
      BY <1>1, <2>1, <2>2, ElemsType DEF Submissions, AwaitedOnce
    <2>4. RegisteredSettled(d)'
      BY <1>1, <2>1, <2>2, ElemsType DEF Submissions, RegisteredSettled
    <2>5. SubmittedOnce(d)'
      BY <1>1, <2>1, <2>2, ElemsType DEF Submissions, SubmittedOnce
    <2> QED BY <2>3, <2>4, <2>5
  <1>5. ASSUME NEW q \in Requests PROVE PendingTracked(q)'
    <2>1. SUFFICES ASSUME closings = 0, state'[q] = "PENDING"
                   PROVE  /\ conn[q] \in Conns /\ connected'[conn[q]]
                          /\ q \in Elems(awaiting'[conn[q]])
      BY <1>1 DEF PendingTracked
    <2>2. q \notin Tracked(c) /\ state[q] = "PENDING"
      BY <1>1, <2>1
    <2>3. conn[q] # c
      BY <2>1, <2>2, ElemsType DEF Submissions, PendingTracked
    <2> QED BY <1>1, <2>1, <2>2, <2>3 DEF Submissions, PendingTracked
  <1> QED BY <1>3, <1>4, <1>5 DEF Submissions

LEMMA ServerSubmissions ==
    ASSUME TypeOK, Submissions, NEW c \in Conns, Server(c)
    PROVE  Submissions'
  <1>1. UNCHANGED <<requestVars, connected, awaiting, registered, submits, closings>>
    BY DEF Server, ServerCreatesJob, ServerRejectsJob, ServerUpdates, ServerFinishes,
           ServerAnswersStatus, boundVars, linkVars
  <1> QED BY <1>1, QuietSubmissions DEF requestVars

\* None of what disturbs the client is ever undone.
LEMMA DisturbancesStay ==
    ASSUME TypeOK, [Next]_vars
    PROVE  /\ misfiled => misfiled'
           /\ tossed => tossed'
           /\ rejects # 0 => rejects' # 0
           /\ closings # 0 => closings' # 0
  <1>1. ASSUME NEW r \in Requests, NEW c \in Conns, SendJobRequest(r, c)
        PROVE  UNCHANGED boundVars
    BY <1>1 DEF SendJobRequest
  <1>2. ASSUME NEW r \in Requests, GetStatusOfLost(r) \/ Forget(r)
        PROVE  UNCHANGED boundVars
    BY <1>2 DEF GetStatusOfLost, Forget
  <1>3. ASSUME NEW r \in Requests, GetJobStatus(r)
        PROVE  (misfiled => misfiled') /\ UNCHANGED <<tossed, rejects, closings>>
    BY <1>3 DEF GetJobStatus
  <1>4. ASSUME NEW c \in Conns, Receive(c) \/ HandleError(c)
        PROVE  UNCHANGED boundVars
    <2>1. CASE HandleError(c)
      BY <2>1 DEF HandleError
    <2>2. CASE Receive(c)
      BY <2>2
      DEF Receive, RecvJobCreated, RecvWorkUpdate, RecvWorkComplete, RecvWorkFail,
          RecvStatusRes, RecvError, RecvRaises
    <2> QED BY <1>4, <2>1, <2>2
  <1>5. ASSUME NEW c \in Conns, PackFails(c)
        PROVE  tossed' /\ UNCHANGED <<misfiled, rejects, closings>>
    BY <1>5 DEF PackFails
  <1>6. ASSUME NEW D, CloseUntold(D)
        PROVE  closings' # 0 /\ UNCHANGED <<misfiled, tossed, rejects>>
    BY <1>6 DEF CloseUntold, TypeOK, BoundsOK
  <1>7. ASSUME NEW c \in Conns, Server(c)
        PROVE  (rejects # 0 => rejects' # 0) /\ UNCHANGED <<misfiled, tossed, closings>>
    <2>1. CASE ServerRejectsJob(c)
      BY <2>1 DEF ServerRejectsJob, TypeOK, BoundsOK
    <2>2. CASE ~ServerRejectsJob(c)
      BY <1>7, <2>2
      DEF Server, ServerCreatesJob, ServerUpdates, ServerFinishes, ServerAnswersStatus,
          boundVars
    <2> QED BY <2>1, <2>2
  <1>8. CASE UNCHANGED vars
    BY <1>8 DEF vars, boundVars
  <1>9. CASE Next
    BY <1>1, <1>2, <1>3, <1>4, <1>5, <1>6, <1>7, <1>9
    DEF Next, Shutdown, Abandon, boundVars
  <1> QED BY <1>8, <1>9

LEMMA NextSubmissions ==
    ASSUME TypeOK, Submissions, [Next]_vars, ~misfiled'
    PROVE  Submissions'
  <1>1. CASE Next
    BY <1>1, SendSubmissions, GetJobStatusSubmissions, OtherAppSubmissions,
       RecvJobCreatedSubmissions, RecvWorkSubmissions, RecvOtherSubmissions,
       HandleErrorSubmissions, PackFailsSubmissions, ServerSubmissions
    DEF Next, Receive, Shutdown, Abandon
  <1>2. CASE UNCHANGED vars
    BY <1>2, QuietSubmissions DEF vars, requestVars, sessionVars, boundVars
  <1> QED BY <1>1, <1>2

\* Whatever the servers refuse, whatever is lost unsent, closed or dropped by the
\* application: requests are queued, registered and submitted once, where they were
\* last sent, until get_job_status files one under a key its session has not given it.
THEOREM SubmissionsHold == Spec => [](~misfiled => Submissions)
  <1> DEFINE J == ~misfiled => Submissions
  <1>1. Init => J
    BY InitSubmissions
  <1>2. TypeOK /\ J /\ [Next]_vars => J'
    BY NextSubmissions, DisturbancesStay
  <1> QED BY <1>1, <1>2, TypeCorrect, PTL DEF Spec

\* A request is pending exactly when it stands once in the queue of the live handler
\* it was last submitted to, unless a connection was closed without telling its
\* handler or a request filed under an old handle: even when servers refuse
\* submissions, or some are lost unsent, and answers go to the wrong requests.
THEOREM PendingAlwaysAwaited == Spec => []PendingIsAwaited
  <1>1. TypeOK /\ (~misfiled => Submissions) => PendingIsAwaited
    <2> SUFFICES ASSUME TypeOK, Submissions, closings = 0, ~misfiled
                 PROVE  PendingIsAwaited
      BY DEF PendingIsAwaited
    <2>1. \A r \in Requests : state[r] = "PENDING" =>
              connected[conn[r]] /\ r \in Awaited(conn[r])
      BY ElemsType DEF Submissions, PendingTracked
    <2>2. \A c \in Conns : DOMAIN awaiting[c] = 1 .. Len(awaiting[c])
      BY ElemsType
    <2>3. \A c \in Conns : \A i \in DOMAIN awaiting[c] :
              /\ state[awaiting[c][i]] = "PENDING" /\ conn[awaiting[c][i]] = c
              /\ \A j \in DOMAIN awaiting[c] : awaiting[c][i] = awaiting[c][j] => i = j
      BY <2>2 DEF Submissions, AwaitedOnce, Elems, Distinct
    <2> QED BY <2>1, <2>3 DEF PendingIsAwaited
  <1> QED BY <1>1, TypeCorrect, SubmissionsHold, PTL

\* No two live sessions hold a submission of the same request, and none holds two:
\* a job is never run twice for one request, for all that is refused, lost, closed
\* and sent again, until a request is filed under an old handle.
THEOREM OneLiveSubmissionAlways == Spec => []OneLiveSubmission
  <1>1. TypeOK /\ (~misfiled => Submissions) => OneLiveSubmission
    <2> SUFFICES ASSUME TypeOK, Submissions, NEW r \in Requests,
                        NEW c \in Conns, NEW d \in Conns,
                        NEW i \in DOMAIN submits[c], NEW j \in DOMAIN submits[d],
                        connected[c], connected[d], submits[c][i] = r, submits[d][j] = r
                 PROVE  c = d /\ i = j
      BY DEF OneLiveSubmission
    <2>1. /\ DOMAIN submits[c] = 1 .. Len(submits[c])
          /\ DOMAIN submits[d] = 1 .. Len(submits[d])
      BY ElemsType
    <2>2. conn[r] = c /\ conn[r] = d
      BY <2>1 DEF Submissions, SubmittedOnce, Elems
    <2> QED BY <2>1, <2>2 DEF Submissions, SubmittedOnce, Distinct
  <1> QED BY <1>1, TypeCorrect, SubmissionsHold, PTL

\* A finished request leaves its state only by the loss of its connection: no late,
\* repeated or misdirected answer reopens it or turns failure into success.  The one
\* exception is a request filed under an old handle, which the loss of that
\* connection may reopen.
THEOREM TerminalAlwaysStable == Spec => TerminalIsStable
  <1>1. ASSUME TypeOK, Submissions, Next, NEW r \in Requests,
               state[r] \in Terminal, state'[r] # state[r]
        PROVE  /\ state'[r] = "UNKNOWN"
               /\ connected[conn[r]] /\ ~connected'[conn[r]]
    <2>1. ASSUME NEW q \in Requests, NEW c \in Conns, SendJobRequest(q, c) PROVE FALSE
      <3>1. MarkSubmitted(q, c)
        BY <2>1 DEF SendJobRequest, SendOnOpenConnection, SendOnNewConnection
      <3> QED BY <1>1, <2>1, <3>1 DEF SendJobRequest, MarkSubmitted, TypeOK, RequestsOK, Terminal
    <2>2. ASSUME NEW c \in Conns, RecvJobCreated(c) PROVE FALSE
      <3>1. /\ state' = [state EXCEPT ![Head(awaiting[c])] = "CREATED"]
            /\ state[Head(awaiting[c])] = "PENDING"
        BY <2>2
        DEF RecvJobCreated, Fetch, Accepts, WorkTypes, UpdateTypes, FinalTypes
      <3> QED BY <1>1, <3>1 DEF TypeOK, RequestsOK, Terminal
    <2>3. ASSUME NEW c \in Conns, RecvWorkUpdate(c) \/ RecvWorkComplete(c)
                                  \/ RecvWorkFail(c) \/ RecvStatusRes(c)
          PROVE  FALSE
      BY <1>1, <2>3, RecvWorkState DEF Terminal
    <2>4. ASSUME NEW c \in Conns, HandleError(c)
          PROVE  /\ state'[r] = "UNKNOWN"
                 /\ connected[conn[r]] /\ ~connected'[conn[r]]
      <3>1. r \in Tracked(c) /\ state'[r] = "UNKNOWN"
        BY <1>1, <2>4 DEF HandleError
      <3>2. conn[r] = c
        BY <1>1, <3>1, ElemsType DEF Submissions, AwaitedOnce, RegisteredSettled
      <3> QED BY <1>1, <2>4, <3>1, <3>2 DEF HandleError, TypeOK, SessionsOK
    <2>5. ASSUME NEW q \in Requests, GetJobStatus(q) \/ GetStatusOfLost(q) \/ Forget(q)
          PROVE  FALSE
      BY <1>1, <2>5 DEF GetJobStatus, GetStatusOfLost, Forget
    <2>6. ASSUME NEW c \in Conns, RecvError(c) \/ RecvRaises(c) \/ Server(c) PROVE FALSE
      BY <1>1, <2>6
      DEF RecvError, RecvRaises, Server, ServerCreatesJob, ServerRejectsJob,
          ServerUpdates, ServerFinishes, ServerAnswersStatus, requestVars
    <2>7. ASSUME NEW D, CloseUntold(D) PROVE FALSE
      BY <1>1, <2>7 DEF CloseUntold, requestVars
    <2>8. ASSUME NEW c \in Conns, PackFails(c) PROVE FALSE
      BY <1>1, <2>8 DEF PackFails, requestVars
    <2> QED
      BY <1>1, <2>1, <2>2, <2>3, <2>4, <2>5, <2>6, <2>7, <2>8
      DEF Next, Receive, Shutdown, Abandon
  <1> DEFINE A == \A r \in Requests :
                     ~misfiled /\ state[r] \in Terminal /\ state'[r] # state[r] =>
                         /\ state'[r] = "UNKNOWN"
                         /\ connected[conn[r]] /\ ~connected'[conn[r]]
  <1>2. TypeOK /\ (~misfiled => Submissions) /\ [Next]_vars => [A]_vars
    BY <1>1
  <1>3. Spec => [][A]_vars
    BY <1>2, TypeCorrect, SubmissionsHold, PTL DEF Spec
  <1> QED BY <1>3 DEF TerminalIsStable

-----------------------------------------------------------------------------
(***************************************************************************)
(* The wire and the queue of one session: how handles are numbered.        *)
(***************************************************************************)

\* The JOB_CREATEDs in q carry the handles after a and up to n, in order, each once.
Created(q, i) == q[i].type = "JOB_CREATED"

CreatedBetween(q, a, n) ==
    /\ \A i \in 1 .. Len(q) : Created(q, i) => q[i].handle > a /\ q[i].handle <= n
    /\ \A i, j \in 1 .. Len(q) :
           Created(q, i) /\ Created(q, j) /\ i < j => q[i].handle < q[j].handle
    /\ \A h \in 1 .. n : h > a => \E i \in 1 .. Len(q) : Created(q, i) /\ q[i].handle = h

\* Nothing in q updates or ends job h.
Silent(q, h) == \A i \in 1 .. Len(q) : q[i].type \in WorkTypes => q[i].handle # h

\* What q tells of is a job, in that job's words, after the JOB_CREATED of a handle
\* beyond a, and before the end of the job.
Tells(q, a, js, fin, i) ==
    /\ q[i].handle \in 1 .. Len(js) /\ q[i].data = js[q[i].handle]
    /\ ~Created(q, i) /\ q[i].handle > a =>
          \E j \in 1 .. Len(q) : j < i /\ Created(q, j) /\ q[j].handle = q[i].handle
    /\ q[i].type \in FinalTypes =>
          /\ q[i].handle \in fin
          /\ \A j \in 1 .. Len(q) :
                i < j /\ q[j].type \in WorkTypes => q[j].handle # q[i].handle

Truthful(q, a, js, fin) ==
    \A i \in 1 .. Len(q) : q[i].type # "ERROR" => Tells(q, a, js, fin, i)

\* The queue q is the end of s.
EndOf(q, s) ==
    /\ Len(q) <= Len(s)
    /\ \A i \in 1 .. Len(q) : q[i] = s[(Len(s) - Len(q)) + i]

LEMMA ReplyHandles ==
    ASSUME NEW m \in Replies
    PROVE  /\ m.handle \in Nat
           /\ m.type \in ReplyTypes \cup {"ERROR"}
           /\ m.type # "ERROR" => m.handle \in Handles
  <1>1. CASE m = ErrorReply
    BY <1>1 DEF ErrorReply
  <1>2. CASE m \in [type : ReplyTypes, handle : Handles, data : Requests, known : BOOLEAN]
    BY <1>2, ConstantsAssumption DEF Handles
  <1>3. CASE m \in [type : {"STATUS_RES"}, handle : Handles, data : {None}, known : {FALSE}]
    BY <1>3, ConstantsAssumption DEF Handles, ReplyTypes
  <1> QED BY <1>1, <1>2, <1>3 DEF Replies

\* A JOB_CREATED is sent with the next handle, anything else leaves them as they are.
LEMMA CreatedAppend ==
    ASSUME NEW q \in Seq(Replies), NEW m \in Replies, NEW a \in Nat, NEW n \in Nat,
           CreatedBetween(q, a, n)
    PROVE  /\ m.type # "JOB_CREATED" => CreatedBetween(Append(q, m), a, n)
           /\ m.type = "JOB_CREATED" /\ m.handle = n + 1 /\ a <= n
                 => CreatedBetween(Append(q, m), a, n + 1)
  <1> DEFINE l == Len(q)
             p == Append(q, m)
  <1>1. /\ l \in Nat /\ Len(p) = l + 1 /\ p[l + 1] = m
        /\ \A i \in 1 .. l : p[i] = q[i] /\ q[i].handle \in Nat
    BY AppendFacts, ReplyHandles
  <1> HIDE DEF l, p
  <1>2. \A i \in 1 .. l + 1 : i \in 1 .. l \/ i = l + 1
    BY <1>1
  <1>3. /\ \A i \in 1 .. l : i \in 1 .. l + 1 /\ i < l + 1 /\ ~(l + 1 < i)
        /\ l + 1 \in 1 .. l + 1 /\ ~(l + 1 < l + 1)
    BY <1>1
  <1>4. \A i \in 1 .. l : Created(p, i) <=> Created(q, i)
    BY <1>1 DEF Created
  <1>5. Created(p, l + 1) <=> m.type = "JOB_CREATED"
    BY <1>1 DEF Created
  <1>6. /\ \A i \in 1 .. l : Created(q, i) => q[i].handle > a /\ q[i].handle <= n
        /\ \A i, j \in 1 .. l :
               Created(q, i) /\ Created(q, j) /\ i < j => q[i].handle < q[j].handle
        /\ \A h \in 1 .. n : h > a => \E i \in 1 .. l : Created(q, i) /\ q[i].handle = h
    BY DEF CreatedBetween, l
  <1>7. ASSUME m.type # "JOB_CREATED" PROVE CreatedBetween(p, a, n)
    <2>1. \A i \in 1 .. l + 1 : Created(p, i) => i \in 1 .. l /\ Created(q, i) /\ p[i] = q[i]
      BY <1>1, <1>2, <1>4, <1>5, <1>7
    <2>2. \A h \in 1 .. n : h > a => \E i \in 1 .. l + 1 : Created(p, i) /\ p[i].handle = h
      BY <1>1, <1>3, <1>4, <1>6
    <2> QED BY <1>1, <1>6, <2>1, <2>2 DEF CreatedBetween
  <1>8. ASSUME m.type = "JOB_CREATED", m.handle = n + 1, a <= n
        PROVE  CreatedBetween(p, a, n + 1)
    <2>1. \A i \in 1 .. l + 1 : Created(p, i) => p[i].handle > a /\ p[i].handle <= n + 1
      <3>1. ASSUME NEW i \in 1 .. l, Created(p, i)
            PROVE  p[i].handle > a /\ p[i].handle <= n + 1
        BY <1>1, <1>4, <1>6, <3>1
      <3>2. p[l + 1].handle > a /\ p[l + 1].handle <= n + 1
        BY <1>1, <1>8
      <3> QED BY <1>2, <3>1, <3>2
    <2>2. ASSUME NEW i \in 1 .. l + 1, NEW j \in 1 .. l + 1,
                 Created(p, i), Created(p, j), i < j
          PROVE  p[i].handle < p[j].handle
      <3>1. i \in 1 .. l
        BY <1>2, <1>3, <2>2
      <3>2. CASE j \in 1 .. l
        BY <1>1, <1>4, <1>6, <2>2, <3>1, <3>2
      <3>3. CASE j = l + 1
        <4>1. p[i].handle \in Nat /\ p[i].handle <= n /\ p[j].handle = n + 1
          BY <1>1, <1>4, <1>6, <1>8, <2>2, <3>1, <3>3
        <4> QED BY <4>1
      <3> QED BY <1>2, <3>2, <3>3
    <2>3. ASSUME NEW h \in 1 .. n + 1, h > a
          PROVE  \E i \in 1 .. l + 1 : Created(p, i) /\ p[i].handle = h
      <3>1. h \in 1 .. n \/ h = n + 1
        OBVIOUS
      <3>2. CASE h \in 1 .. n
        BY <1>1, <1>3, <1>4, <1>6, <2>3, <3>2
      <3>3. CASE h = n + 1
        BY <1>1, <1>3, <1>5, <1>8, <3>3
      <3> QED BY <3>1, <3>2, <3>3
    <2> QED BY <1>1, <2>1, <2>2, <2>3 DEF CreatedBetween
  <1> QED BY <1>7, <1>8 DEF p

\* The first JOB_CREATED on the wire carries the next handle.
LEMMA CreatedTail ==
    ASSUME NEW q \in Seq(Replies), q # <<>>, NEW a \in Nat, NEW n \in Nat,
           CreatedBetween(q, a, n)
    PROVE  /\ Head(q).type # "JOB_CREATED" => CreatedBetween(Tail(q), a, n)
           /\ Head(q).type = "JOB_CREATED" =>
                 /\ Head(q).handle = a + 1 /\ a + 1 \in 1 .. n
                 /\ CreatedBetween(Tail(q), a + 1, n)
  <1> DEFINE l == Len(q)
             t == Tail(q)
  <1>1. /\ l \in Nat \ {0} /\ Len(t) = l - 1 /\ Head(q) = q[1]
        /\ \A i \in 1 .. l - 1 : t[i] = q[i + 1]
    BY TailFacts
  <1>2. \A i \in 1 .. l : q[i].handle \in Nat
    BY ReplyHandles
  <1> HIDE DEF l, t
  <1>3. /\ \A i \in 1 .. l - 1 : i + 1 \in 1 .. l /\ 1 < i + 1
        /\ \A i, j \in 1 .. l - 1 : i < j => i + 1 < j + 1
        /\ \A i \in 1 .. l : i # 1 => /\ i - 1 \in 1 .. l - 1 /\ (i - 1) + 1 = i
                                      /\ 1 < i
        /\ 1 \in 1 .. l
    BY <1>1
  <1>4. \A i \in 1 .. l - 1 : Created(t, i) <=> Created(q, i + 1)
    BY <1>1 DEF Created
  <1>5. Created(q, 1) <=> Head(q).type = "JOB_CREATED"
    BY <1>1 DEF Created
  <1>6. /\ \A i \in 1 .. l : Created(q, i) => q[i].handle > a /\ q[i].handle <= n
        /\ \A i, j \in 1 .. l :
               Created(q, i) /\ Created(q, j) /\ i < j => q[i].handle < q[j].handle
        /\ \A h \in 1 .. n : h > a => \E i \in 1 .. l : Created(q, i) /\ q[i].handle = h
    BY DEF CreatedBetween, l
  <1>7. \A i, j \in 1 .. l - 1 :
            Created(t, i) /\ Created(t, j) /\ i < j => t[i].handle < t[j].handle
    <2> SUFFICES ASSUME NEW i \in 1 .. l - 1, NEW j \in 1 .. l - 1,
                        Created(t, i), Created(t, j), i < j
                 PROVE  t[i].handle < t[j].handle
      OBVIOUS
    <2>1. /\ i + 1 \in 1 .. l /\ j + 1 \in 1 .. l /\ i + 1 < j + 1
          /\ Created(q, i + 1) /\ Created(q, j + 1)
      BY <1>3, <1>4
    <2> QED BY <1>1, <1>6, <2>1
  <1>8. ASSUME ~Created(q, 1) PROVE CreatedBetween(t, a, n)
    <2>1. \A i \in 1 .. l - 1 : Created(t, i) => t[i].handle > a /\ t[i].handle <= n
      BY <1>1, <1>3, <1>4, <1>6
    <2>2. ASSUME NEW h \in 1 .. n, h > a
          PROVE  \E i \in 1 .. l - 1 : Created(t, i) /\ t[i].handle = h
      <3>1. PICK i \in 1 .. l : Created(q, i) /\ q[i].handle = h
        BY <1>6, <2>2
      <3> QED BY <1>1, <1>3, <1>4, <1>8, <3>1
    <2> QED BY <1>1, <1>7, <2>1, <2>2 DEF CreatedBetween
  <1>9. ASSUME Created(q, 1)
        PROVE  q[1].handle = a + 1 /\ a + 1 \in 1 .. n /\ CreatedBetween(t, a + 1, n)
    <2>1. q[1].handle \in Nat /\ q[1].handle > a /\ q[1].handle <= n
      BY <1>2, <1>3, <1>6, <1>9
    <2>2. a + 1 \in 1 .. n /\ a + 1 > a
      BY <2>1
    <2>3. PICK i \in 1 .. l : Created(q, i) /\ q[i].handle = a + 1
      BY <1>6, <2>2
    <2>4. i # 1 => q[1].handle < q[i].handle
      BY <1>3, <1>6, <1>9, <2>3
    <2>5. q[1].handle = a + 1
      BY <2>1, <2>3, <2>4
    <2>6. \A j \in 1 .. l - 1 : Created(t, j) => t[j].handle > a + 1 /\ t[j].handle <= n
      <3> SUFFICES ASSUME NEW j \in 1 .. l - 1, Created(t, j)
                   PROVE  t[j].handle > a + 1 /\ t[j].handle <= n
        OBVIOUS
      <3>1. q[1].handle < q[j + 1].handle /\ q[j + 1].handle <= n
        BY <1>3, <1>4, <1>6, <1>9
      <3> QED BY <1>1, <1>2, <1>3, <2>5, <3>1
    <2>7. ASSUME NEW h \in 1 .. n, h > a + 1
          PROVE  \E j \in 1 .. l - 1 : Created(t, j) /\ t[j].handle = h
      <3>1. PICK j \in 1 .. l : Created(q, j) /\ q[j].handle = h
        BY <1>6, <2>7
      <3>2. j # 1
        BY <2>5, <2>7, <3>1
      <3> QED BY <1>1, <1>3, <1>4, <3>1, <3>2
    <2> QED BY <1>1, <1>7, <2>2, <2>5, <2>6, <2>7 DEF CreatedBetween
  <1> QED BY <1>1, <1>5, <1>8, <1>9 DEF t

\* The server adds to the wire what is true of a job it has created and not ended.
LEMMA TruthfulAppend ==
    ASSUME NEW q \in Seq(Replies), NEW m \in Replies, NEW a \in Nat,
           NEW js \in Seq(Requests), NEW ks \in Seq(Requests), NEW fin, NEW gin,
           Truthful(q, a, js, fin), fin \subseteq gin,
           Len(js) <= Len(ks), \A h \in 1 .. Len(js) : ks[h] = js[h],
           m.type # "ERROR" => m.handle \in 1 .. Len(ks) /\ m.data = ks[m.handle],
           m.type \notin {"ERROR", "JOB_CREATED"} /\ m.handle > a =>
               \E i \in 1 .. Len(q) : Created(q, i) /\ q[i].handle = m.handle,
           m.type \in FinalTypes => m.handle \in gin,
           m.type \in WorkTypes => m.handle \notin fin
    PROVE  Truthful(Append(q, m), a, ks, gin)
  <1> DEFINE l == Len(q)
             p == Append(q, m)
  <1>1. /\ l \in Nat /\ Len(p) = l + 1 /\ p[l + 1] = m
        /\ \A i \in 1 .. l : p[i] = q[i]
    BY AppendFacts
  <1>2. Len(js) \in Nat /\ Len(ks) \in Nat
    OBVIOUS
  <1> HIDE DEF l, p
  <1>3. \A i \in 1 .. l + 1 : i \in 1 .. l \/ i = l + 1
    BY <1>1
  <1>4. /\ \A i \in 1 .. l : i \in 1 .. l + 1 /\ i < l + 1
        /\ \A j \in 1 .. l + 1 : ~(l + 1 < j)
    BY <1>1
  <1>5. \A h \in 1 .. Len(js) : h \in 1 .. Len(ks)
    BY <1>2
  <1>6. \A i \in 1 .. l : Created(p, i) <=> Created(q, i)
    BY <1>1 DEF Created
  <1>7. ASSUME NEW i \in 1 .. l, p[i].type # "ERROR" PROVE Tells(p, a, ks, gin, i)
    <2>1. Tells(q, a, js, fin, i) /\ p[i] = q[i]
      BY <1>1, <1>7 DEF Truthful, l
    <2>2. p[i].handle \in 1 .. Len(ks) /\ p[i].data = ks[p[i].handle]
      BY <1>5, <2>1 DEF Tells
    <2>3. ASSUME ~Created(p, i), p[i].handle > a
          PROVE  \E j \in 1 .. l + 1 : j < i /\ Created(p, j) /\ p[j].handle = p[i].handle
      <3>1. PICK j \in 1 .. l : j < i /\ Created(q, j) /\ q[j].handle = q[i].handle
        BY <1>6, <2>1, <2>3 DEF Tells, l
      <3> QED BY <1>1, <1>4, <1>6, <2>1, <3>1
    <2>4. ASSUME p[i].type \in FinalTypes
          PROVE  /\ p[i].handle \in gin
                 /\ \A j \in 1 .. l + 1 :
                       i < j /\ p[j].type \in WorkTypes => p[j].handle # p[i].handle
      <3>1. /\ q[i].handle \in fin
            /\ \A j \in 1 .. l :
                  i < j /\ q[j].type \in WorkTypes => q[j].handle # q[i].handle
        BY <2>1, <2>4 DEF Tells, l
      <3> QED BY <1>1, <1>3, <2>1, <3>1
    <2> QED BY <1>1, <2>2, <2>3, <2>4 DEF Tells
  <1>8. ASSUME m.type # "ERROR" PROVE Tells(p, a, ks, gin, l + 1)
    <2>1. ASSUME ~Created(p, l + 1), m.handle > a
          PROVE  \E j \in 1 .. l + 1 : j < l + 1 /\ Created(p, j) /\ p[j].handle = m.handle
      <3>1. PICK j \in 1 .. l : Created(q, j) /\ q[j].handle = m.handle
        BY <1>1, <1>8, <2>1 DEF Created, l
      <3> QED BY <1>1, <1>4, <1>6, <3>1
    <2> QED BY <1>1, <1>4, <1>8, <2>1 DEF Tells
  <1> QED BY <1>1, <1>3, <1>7, <1>8 DEF Truthful, p

\* Once a command is read, what follows is still true; after a JOB_CREATED, of the
\* handles beyond the next.
LEMMA TruthfulTail ==
    ASSUME NEW q \in Seq(Replies), q # <<>>, NEW a \in Nat, NEW b \in Nat,
           NEW js \in Seq(Requests), NEW fin, Truthful(q, a, js, fin),
           \/ Head(q).type # "JOB_CREATED" /\ b = a
           \/ Head(q).type = "JOB_CREATED" /\ Head(q).handle = a + 1 /\ b = a + 1
    PROVE  /\ Truthful(Tail(q), b, js, fin)
           /\ \A h : Silent(q, h) => Silent(Tail(q), h)
           /\ Head(q).type # "ERROR" =>
                 /\ Head(q).handle \in 1 .. Len(js) /\ Head(q).data = js[Head(q).handle]
                 /\ Head(q).type # "JOB_CREATED" => Head(q).handle <= a
           /\ Head(q).type \in FinalTypes =>
                 Head(q).handle \in fin /\ Silent(Tail(q), Head(q).handle)
           /\ Head(q).type \in WorkTypes => ~Silent(q, Head(q).handle)
  <1> DEFINE l == Len(q)
             t == Tail(q)
  <1>1. /\ l \in Nat \ {0} /\ Len(t) = l - 1 /\ Head(q) = q[1]
        /\ \A i \in 1 .. l - 1 : t[i] = q[i + 1]
    BY TailFacts
  <1>2. \A i \in 1 .. l : q[i].handle \in Nat
    BY ReplyHandles
  <1> HIDE DEF l, t
  <1>3. /\ \A i \in 1 .. l - 1 : i + 1 \in 1 .. l /\ 1 < i + 1
        /\ \A i, j \in 1 .. l - 1 : i < j => i + 1 < j + 1
        /\ \A i \in 1 .. l - 1, j \in 1 .. l :
               j < i + 1 /\ j # 1 => j - 1 \in 1 .. l - 1 /\ (j - 1) + 1 = j /\ j - 1 < i
        /\ 1 \in 1 .. l /\ \A j \in 1 .. l : ~(j < 1)
    BY <1>1
  <1>4. \A i \in 1 .. l - 1 : Created(t, i) <=> Created(q, i + 1)
    BY <1>1 DEF Created
  <1>5. \A i \in 1 .. l : q[i].type # "ERROR" => Tells(q, a, js, fin, i)
    BY DEF Truthful, l
  <1>6. ASSUME NEW i \in 1 .. l - 1, t[i].type # "ERROR" PROVE Tells(t, b, js, fin, i)
    <2>1. Tells(q, a, js, fin, i + 1) /\ t[i] = q[i + 1]
      BY <1>1, <1>3, <1>5, <1>6
    <2>2. ASSUME ~Created(t, i), t[i].handle > b
          PROVE  \E j \in 1 .. l - 1 : j < i /\ Created(t, j) /\ t[j].handle = t[i].handle
      <3>1. t[i].handle > a
        BY <1>2, <1>3, <2>1, <2>2
      <3>2. PICK j \in 1 .. l : j < i + 1 /\ Created(q, j) /\ q[j].handle = q[i + 1].handle
        BY <1>4, <2>1, <2>2, <3>1 DEF Tells, l
      <3>3. j # 1
        BY <1>1, <1>2, <1>3, <2>1, <2>2, <3>2 DEF Created
      <3>4. j - 1 \in 1 .. l - 1 /\ (j - 1) + 1 = j /\ j - 1 < i
        BY <1>3, <3>2, <3>3
      <3>5. Created(t, j - 1) /\ t[j - 1].handle = t[i].handle
        BY <1>1, <1>4, <2>1, <3>2, <3>4
      <3> QED BY <3>4, <3>5
    <2>3. ASSUME t[i].type \in FinalTypes, NEW j \in 1 .. l - 1, i < j,
                 t[j].type \in WorkTypes
          PROVE  t[j].handle # t[i].handle
      <3>1. j + 1 \in 1 .. l /\ i + 1 < j + 1 /\ t[j] = q[j + 1]
        BY <1>1, <1>3, <2>3
      <3>2. \A k \in 1 .. l : i + 1 < k /\ q[k].type \in WorkTypes
                                  => q[k].handle # q[i + 1].handle
        BY <2>1, <2>3 DEF Tells, l
      <3> QED BY <2>1, <2>3, <3>1, <3>2
    <2> QED BY <1>1, <2>1, <2>2, <2>3 DEF Tells
  <1>7. Truthful(t, b, js, fin)
    BY <1>1, <1>6 DEF Truthful
  <1>8. \A h : Silent(q, h) => Silent(t, h)
    BY <1>1, <1>3 DEF Silent, l
  <1>9. q[1].type # "ERROR" =>
            /\ q[1].handle \in 1 .. Len(js) /\ q[1].data = js[q[1].handle]
            /\ q[1].type # "JOB_CREATED" => q[1].handle <= a
    BY <1>2, <1>3, <1>5 DEF Tells, Created, l
  <1>10. q[1].type \in FinalTypes => q[1].handle \in fin /\ Silent(t, q[1].handle)
    <2> SUFFICES ASSUME q[1].type \in FinalTypes
                 PROVE  q[1].handle \in fin /\ Silent(t, q[1].handle)
      OBVIOUS
    <2>1. Tells(q, a, js, fin, 1)
      BY <1>3, <1>5 DEF FinalTypes
    <2>2. /\ q[1].handle \in fin
          /\ \A j \in 1 .. l : 1 < j /\ q[j].type \in WorkTypes => q[j].handle # q[1].handle
      BY <2>1 DEF Tells, l
    <2> QED BY <1>1, <1>3, <2>2 DEF Silent
  <1>11. q[1].type \in WorkTypes => ~Silent(q, q[1].handle)
    BY <1>3 DEF Silent, l
  <1> QED BY <1>1, <1>7, <1>8, <1>9, <1>10, <1>11 DEF t

\* Queue and submissions grow together, and only the queue gets shorter.
LEMMA EndOfAppend ==
    ASSUME NEW q \in Seq(Requests), NEW s \in Seq(Requests), EndOf(q, s),
           NEW r \in Requests
    PROVE  /\ EndOf(Append(q, r), Append(s, r))
           /\ Len(Append(s, r)) - Len(Append(q, r)) = Len(s) - Len(q)
           /\ \A h \in 1 .. Len(s) : Append(s, r)[h] = s[h]
  <1> DEFINE n == Len(q)
             k == Len(s)
             p == Append(q, r)
             v == Append(s, r)
  <1>1. n \in Nat /\ k \in Nat /\ n <= k /\ \A i \in 1 .. n : q[i] = s[(k - n) + i]
    BY DEF EndOf
  <1>2. /\ Len(p) = n + 1 /\ p[n + 1] = r /\ \A i \in 1 .. n : p[i] = q[i]
        /\ Len(v) = k + 1 /\ v[k + 1] = r /\ \A i \in 1 .. k : v[i] = s[i]
    BY AppendFacts
  <1> HIDE DEF n, k, p, v
  <1>3. (k + 1) - (n + 1) = k - n /\ n + 1 <= k + 1 /\ k - n \in Nat
    BY <1>1
  <1>4. ASSUME NEW i \in 1 .. n + 1 PROVE p[i] = v[(k - n) + i]
    <2>1. CASE i \in 1 .. n
      <3>1. (k - n) + i \in 1 .. k
        BY <1>1, <2>1
      <3> QED BY <1>1, <1>2, <2>1, <3>1
    <2>2. CASE i = n + 1
      <3>1. (k - n) + i = k + 1
        BY <1>1, <2>2
      <3> QED BY <1>2, <2>2, <3>1
    <2> QED BY <1>1, <2>1, <2>2
  <1>5. EndOf(p, v)
    BY <1>2, <1>3, <1>4 DEF EndOf
  <1> QED BY <1>2, <1>3, <1>5 DEF n, k, p, v

LEMMA EndOfTail ==
    ASSUME NEW q \in Seq(Requests), NEW s \in Seq(Requests), EndOf(q, s)
    PROVE  /\ Len(s) - Len(q) \in Nat
           /\ Len(s) - Len(q) < Len(s) => q # <<>>
           /\ q # <<>> => /\ EndOf(Tail(q), s)
                          /\ Len(s) - Len(Tail(q)) = (Len(s) - Len(q)) + 1
                          /\ Head(q) = s[(Len(s) - Len(q)) + 1]
  <1> DEFINE n == Len(q)
             k == Len(s)
             t == Tail(q)
  <1>1. n \in Nat /\ k \in Nat /\ n <= k /\ \A i \in 1 .. n : q[i] = s[(k - n) + i]
    BY DEF EndOf
  <1> HIDE DEF n, k, t
  <1>2. k - n \in Nat
    BY <1>1
  <1>3. ASSUME q # <<>>
        PROVE  EndOf(t, s) /\ k - Len(t) = (k - n) + 1 /\ Head(q) = s[(k - n) + 1]
    <2>1. /\ n \in Nat \ {0} /\ Len(t) = n - 1 /\ Head(q) = q[1]
          /\ \A i \in 1 .. n - 1 : t[i] = q[i + 1]
      BY <1>3, TailFacts DEF n, t
    <2>2. k - (n - 1) = (k - n) + 1 /\ n - 1 <= k /\ 1 \in 1 .. n
      BY <1>1, <2>1
    <2>3. ASSUME NEW i \in 1 .. n - 1 PROVE t[i] = s[(k - (n - 1)) + i]
      <3>1. (k - (n - 1)) + i = (k - n) + (i + 1) /\ i + 1 \in 1 .. n
        BY <1>1, <2>1
      <3> QED BY <1>1, <2>1, <3>1
    <2> QED BY <1>1, <2>1, <2>2, <2>3 DEF EndOf, k
  <1>4. k - n < k => q # <<>>
    BY <1>1 DEF n
  <1> QED BY <1>2, <1>3, <1>4 DEF n, k, t

-----------------------------------------------------------------------------
(***************************************************************************)
(* The numbering of handles: the inductive invariant.  Handle h of a       *)
(* session is given to its h-th submission, even when servers refuse       *)
(* submissions and h is the handle of another's job.                       *)
(***************************************************************************)

\* The queue is the end of the submissions, and the handles beyond those handled
\* are on the wire.
Wired(c) ==
    connected[c] =>
        /\ EndOf(awaiting[c], submits[c])
        /\ Acked(c) <= Len(jobs[c]) /\ Len(jobs[c]) <= taken[c]
        /\ taken[c] <= Len(submits[c]) /\ Len(jobs[c]) <= MaxHandle
        /\ CreatedBetween(inbound[c], Acked(c), Len(jobs[c]))
        /\ Truthful(inbound[c], Acked(c), jobs[c], finished[c])

\* The h-th submission has handle h and is registered under it, or was let go of,
\* and is over only when the wire has no more of the job.
Filed(c, h) == LET r == submits[c][h] IN
    /\ handle[r] = h /\ state[r] \in Settled
    /\ held[r] => registered[c][h] = r
    /\ state[r] \in Terminal => h \in finished[c] /\ Silent(inbound[c], h)

FiledAll(c) ==
    connected[c] =>
        /\ \A h \in 1 .. Acked(c) : Filed(c, h)
        /\ \A h \in Keys : registered[c][h] # None =>
               h \in 1 .. Acked(c) /\ registered[c][h] = submits[c][h]
        /\ \A i \in 1 .. Len(asked[c]) : asked[c][i] \in 1 .. Acked(c)

\* Unless a connection was closed without telling its handler, an accepted request is
\* found under its handle.
SettledHere(r) ==
    closings = 0 /\ held[r] /\ state[r] \in Settled =>
        /\ conn[r] \in Conns /\ connected[conn[r]]
        /\ handle[r] \in 1 .. Acked(conn[r]) /\ submits[conn[r]][handle[r]] = r

Numbering ==
    /\ \A c \in Conns : Wired(c) /\ FiledAll(c)
    /\ \A r \in Requests : SettledHere(r)

\* What is within the least of these bounds is within all.
LEMMA ChainOfBounds ==
    ASSUME NEW a \in Nat, NEW n \in Nat, NEW t \in Nat, NEW s \in Nat, NEW b \in Nat,
           a <= n, n <= t, t <= s, n <= b
    PROVE  \A h \in 1 .. a : h \in 1 .. n /\ h \in 1 .. b /\ h \in 1 .. s
    OBVIOUS

LEMMA WiredFacts ==
    ASSUME TypeOK, NEW c \in Conns, Wired(c), connected[c]
    PROVE  /\ EndOf(awaiting[c], submits[c])
           /\ Acked(c) \in Nat /\ Acked(c) = Len(submits[c]) - Len(awaiting[c])
           /\ Len(jobs[c]) \in Nat /\ Len(submits[c]) \in Nat /\ taken[c] \in Nat
           /\ Acked(c) <= Len(jobs[c]) /\ Len(jobs[c]) <= taken[c]
           /\ taken[c] <= Len(submits[c]) /\ Len(jobs[c]) <= MaxHandle
           /\ \A h \in 1 .. Acked(c) : /\ h \in 1 .. Len(jobs[c]) /\ h \in Handles
                                       /\ h \in 1 .. Len(submits[c])
                                       /\ submits[c][h] \in Requests
           /\ \A h \in 1 .. Acked(c) : submits[c][h] \in Elems(submits[c])
  <1>1. /\ EndOf(awaiting[c], submits[c]) /\ Acked(c) = Len(submits[c]) - Len(awaiting[c])
        /\ Acked(c) <= Len(jobs[c]) /\ Len(jobs[c]) <= taken[c]
        /\ taken[c] <= Len(submits[c]) /\ Len(jobs[c]) <= MaxHandle
    BY DEF Wired, Acked
  <1>2. /\ awaiting[c] \in Seq(Requests) /\ submits[c] \in Seq(Requests)
        /\ jobs[c] \in Seq(Requests) /\ taken[c] \in Nat /\ MaxHandle \in Nat
    BY ConstantsAssumption DEF TypeOK, SessionsOK
  <1>3. Len(submits[c]) - Len(awaiting[c]) \in Nat
    BY <1>1, <1>2, EndOfTail
  <1>4. Acked(c) \in Nat /\ Len(jobs[c]) \in Nat /\ Len(submits[c]) \in Nat
    BY <1>1, <1>2, <1>3
  <1>5. \A h \in 1 .. Acked(c) : /\ h \in 1 .. Len(jobs[c]) /\ h \in 1 .. MaxHandle
                                 /\ h \in 1 .. Len(submits[c])
    BY <1>1, <1>2, <1>4, ChainOfBounds, Zenon
  <1>6. \A h \in 1 .. Len(submits[c]) : submits[c][h] \in Requests
    BY <1>2
  <1> QED BY <1>1, <1>2, <1>4, <1>5, <1>6 DEF Handles, Elems

\* A session no step touches stays as it was.
LEMMA UntouchedNumbering ==
    ASSUME TypeOK, Submissions, NEW c \in Conns, Wired(c), FiledAll(c),
           connected'[c] = connected[c], awaiting'[c] = awaiting[c],
           registered'[c] = registered[c], submits'[c] = submits[c],
           taken'[c] = taken[c], asked'[c] = asked[c], inbound'[c] = inbound[c],
           jobs'[c] = jobs[c], finished'[c] = finished[c],
           \A q \in Requests : conn[q] = c =>
               /\ state'[q] = state[q] /\ handle'[q] = handle[q] /\ held'[q] = held[q]
    PROVE  Wired(c)' /\ FiledAll(c)' /\ Acked(c)' = Acked(c)
  <1>1. Acked(c)' = Acked(c)
    BY DEF Acked
  <1>2. Wired(c)'
    BY <1>1 DEF Wired
  <1>3. FiledAll(c)'
    <2> SUFFICES ASSUME connected[c] PROVE FiledAll(c)'
      BY DEF FiledAll
    <2>1. ASSUME NEW h \in 1 .. Acked(c) PROVE Filed(c, h)'
      <3>1. submits[c][h] \in Requests /\ conn[submits[c][h]] = c
        BY WiredFacts DEF Submissions, SubmittedOnce
      <3>2. Filed(c, h)
        BY DEF FiledAll
      <3> QED BY <3>1, <3>2 DEF Filed
    <2> QED BY <1>1, <2>1 DEF FiledAll
  <1> QED BY <1>1, <1>2, <1>3

LEMMA SendNumbering ==
    ASSUME TypeOK, Submissions, Numbering,
           NEW r \in Requests, NEW c \in Conns, SendJobRequest(r, c)
    PROVE  Numbering'
  <1>1. /\ state[r] = "UNKNOWN" /\ state'[r] = "PENDING" /\ conn'[r] = c
        /\ UNCHANGED <<handle, held, closings>>
        /\ \A q \in Requests : q # r => state'[q] = state[q] /\ conn'[q] = conn[q]
    <2>1. MarkSubmitted(r, c)
      BY DEF SendJobRequest, SendOnOpenConnection, SendOnNewConnection
    <2> QED BY <2>1 DEF SendJobRequest, MarkSubmitted, TypeOK, RequestsOK, boundVars
  <1>2. \A d \in Conns \ {c} :
            /\ connected'[d] = connected[d] /\ awaiting'[d] = awaiting[d]
            /\ registered'[d] = registered[d] /\ submits'[d] = submits[d]
            /\ taken'[d] = taken[d] /\ asked'[d] = asked[d] /\ inbound'[d] = inbound[d]
            /\ jobs'[d] = jobs[d] /\ finished'[d] = finished[d]
    BY DEF SendJobRequest, SendOnOpenConnection, SendOnNewConnection, TypeOK, SessionsOK,
           linkVars
  <1>3. \A d \in Conns : connected[d] => r \notin Elems(submits[d])
    BY <1>1 DEF Submissions, SubmittedOnce
  <1>4. ASSUME NEW d \in Conns, d # c
        PROVE  Wired(d)' /\ FiledAll(d)' /\ Acked(d)' = Acked(d)
    <2>1. /\ connected'[d] = connected[d] /\ awaiting'[d] = awaiting[d]
          /\ registered'[d] = registered[d] /\ submits'[d] = submits[d]
          /\ taken'[d] = taken[d] /\ asked'[d] = asked[d] /\ inbound'[d] = inbound[d]
          /\ jobs'[d] = jobs[d] /\ finished'[d] = finished[d]
      BY <1>2, <1>4
    <2>2. Acked(d)' = Acked(d)
      BY <2>1 DEF Acked
    <2>3. Wired(d)'
      BY <2>1, <2>2 DEF Numbering, Wired
    <2>4. FiledAll(d)'
      <3> SUFFICES ASSUME connected[d] PROVE FiledAll(d)'
        BY <2>1 DEF FiledAll
      <3>1. ASSUME NEW h \in 1 .. Acked(d) PROVE Filed(d, h)'
        <4>1. submits[d][h] \in Requests /\ submits[d][h] # r
          BY <1>3, WiredFacts DEF Numbering
        <4> QED BY <1>1, <2>1, <4>1 DEF Numbering, FiledAll, Filed
      <3> QED BY <2>1, <2>2, <3>1 DEF Numbering, FiledAll
    <2> QED BY <2>2, <2>3, <2>4
  <1>5. CASE SendOnOpenConnection(r, c)
    <2>1. /\ connected[c] /\ connected'[c]
          /\ awaiting'[c] = Append(awaiting[c], r) /\ submits'[c] = Append(submits[c], r)
          /\ UNCHANGED <<connected, registered, taken, asked, inbound, jobs, finished>>
      BY <1>5 DEF SendOnOpenConnection, TypeOK, SessionsOK, linkVars
    <2>2. /\ EndOf(awaiting'[c], submits'[c]) /\ Acked(c)' = Acked(c)
          /\ Len(submits'[c]) = Len(submits[c]) + 1
          /\ \A h \in 1 .. Len(submits[c]) : submits'[c][h] = submits[c][h]
      <3>1. /\ awaiting[c] \in Seq(Requests) /\ submits[c] \in Seq(Requests)
            /\ EndOf(awaiting[c], submits[c])
        BY <2>1, ElemsType DEF Numbering, Wired
      <3>2. /\ EndOf(Append(awaiting[c], r), Append(submits[c], r))
            /\ Len(Append(submits[c], r)) - Len(Append(awaiting[c], r))
                 = Len(submits[c]) - Len(awaiting[c])
            /\ \A h \in 1 .. Len(submits[c]) : Append(submits[c], r)[h] = submits[c][h]
        BY <3>1, EndOfAppend, Zenon
      <3>3. Len(submits'[c]) = Len(submits[c]) + 1
        BY <2>1, <3>1, AppendFacts
      <3> QED BY <2>1, <3>2, <3>3 DEF Acked
    <2> DEFINE t == taken[c]
               k == Len(submits[c])
    <2>3. /\ t \in Nat /\ k \in Nat /\ t <= k
          /\ \A h \in 1 .. Acked(c) :
                h \in 1 .. k /\ submits[c][h] \in Requests /\ submits[c][h] \in Elems(submits[c])
      <3>1. Wired(c)
        BY DEF Numbering
      <3> QED BY <2>1, <3>1, WiredFacts
    <2>4. /\ Wired(c)' 
          /\ \A h \in 1 .. Acked(c) : submits'[c][h] = submits[c][h]
      <3>1. t <= k + 1
        BY <2>3
      <3> QED BY <2>1, <2>2, <2>3, <3>1 DEF Numbering, Wired
    <2> HIDE DEF t, k
    <2>5. ASSUME NEW h \in 1 .. Acked(c) PROVE Filed(c, h)'
      <3>1. submits[c][h] \in Requests /\ submits[c][h] # r /\ Filed(c, h)
        BY <1>3, <2>1, <2>3 DEF Numbering, FiledAll
      <3>2. submits'[c][h] = submits[c][h]
        BY <2>4
      <3> QED BY <1>1, <2>1, <3>1, <3>2 DEF Filed
    <2>6. FiledAll(c)'
      BY <2>1, <2>2, <2>4, <2>5 DEF Numbering, FiledAll
    <2>7. ASSUME NEW q \in Requests PROVE SettledHere(q)'
      <3>1. CASE q = r
        BY <1>1, <3>1 DEF SettledHere, Settled, Terminal
      <3>2. CASE q # r
        <4> SUFFICES ASSUME closings = 0, held[q], state[q] \in Settled
                     PROVE  SettledHere(q)'
          BY <1>1, <3>2 DEF SettledHere
        <4>1. PICK d \in Conns :
                  /\ conn[q] = d /\ connected[d]
                  /\ handle[q] \in 1 .. Acked(d) /\ submits[d][handle[q]] = q
          BY DEF Numbering, SettledHere
        <4>2. submits'[d][handle[q]] = q /\ Acked(d)' = Acked(d) /\ connected'[d]
          <5>1. CASE d = c
            BY <2>1, <2>2, <2>4, <4>1, <5>1
          <5>2. CASE d # c
            BY <1>2, <1>4, <4>1, <5>2
          <5> QED BY <5>1, <5>2
        <4> QED BY <1>1, <3>2, <4>1, <4>2 DEF SettledHere
      <3> QED BY <3>1, <3>2
    <2> QED BY <1>4, <2>4, <2>6, <2>7 DEF Numbering
  <1>6. CASE SendOnNewConnection(r, c)
    <2>1. /\ ~connected[c] /\ connected'[c] /\ awaiting'[c] = <<r>> /\ submits'[c] = <<r>>
          /\ registered'[c] = NoRequests /\ taken'[c] = 0 /\ asked'[c] = <<>>
          /\ inbound'[c] = <<>> /\ jobs'[c] = <<>> /\ finished'[c] = {}
      BY <1>6 DEF SendOnNewConnection, TypeOK, SessionsOK
    <2>2. Acked(c)' = 0
      BY <2>1 DEF Acked
    <2>3. Wired(c)'
      BY <2>1, <2>2, ConstantsAssumption DEF Wired, EndOf, CreatedBetween, Truthful
    <2>4. FiledAll(c)'
      BY <2>1, <2>2 DEF FiledAll, NoRequests
    <2>5. ASSUME NEW q \in Requests PROVE SettledHere(q)'
      <3>1. CASE q = r
        BY <1>1, <3>1 DEF SettledHere, Settled, Terminal
      <3>2. CASE q # r
        BY <1>1, <1>2, <1>4, <2>1, <3>2 DEF Numbering, SettledHere
      <3> QED BY <3>1, <3>2
    <2> QED BY <1>4, <2>3, <2>4, <2>5 DEF Numbering
  <1> QED BY <1>5, <1>6 DEF SendJobRequest

\* A request that is filed where it is already is asked after by a handle of the session.
LEMMA GetJobStatusNumbering ==
    ASSUME TypeOK, Submissions, Numbering, NEW r \in Requests, GetJobStatus(r), ~misfiled'
    PROVE  Numbering'
  <1> DEFINE c == conn[r]
             h == handle[r]
  <1>1. c \in Conns /\ h \in Keys /\ registered[c][h] = r
    BY SameRegistered
  <1>2. connected[c] => h \in 1 .. Acked(c)
    BY <1>1, ConstantsAssumption DEF Numbering, FiledAll
  <1>3. /\ registered' = registered /\ asked' = [asked EXCEPT ![c] = Append(@, h)]
        /\ UNCHANGED <<state, handle, conn, held, connected, awaiting, submits, inbound,
                       taken, jobs, finished, closings>>
    BY SameRegistered DEF GetJobStatus, serverVars, linkVars
  <1> HIDE DEF c, h
  <1>4. ASSUME NEW d \in Conns PROVE Wired(d)' /\ FiledAll(d)' /\ Acked(d)' = Acked(d)
    <2>1. Acked(d)' = Acked(d)
      BY <1>3 DEF Acked
    <2>2. Wired(d)'
      BY <1>3, <2>1 DEF Numbering, Wired
    <2>3. connected[d] => \A k \in 1 .. Acked(d) : Filed(d, k)'
      BY <1>3 DEF Numbering, FiledAll, Filed
    <2>4. connected[d] => \A i \in 1 .. Len(asked'[d]) : asked'[d][i] \in 1 .. Acked(d)
      <3>1. CASE d # c
        BY <1>1, <1>3, <3>1, SMTT(30) DEF Numbering, FiledAll, TypeOK, SessionsOK
      <3>2. ASSUME d = c, connected[c]
            PROVE  \A i \in 1 .. Len(asked'[c]) : asked'[c][i] \in 1 .. Acked(c)
        <4>1. asked[c] \in Seq(Keys) /\ asked'[c] = Append(asked[c], h)
          BY <1>1, <1>3 DEF TypeOK, SessionsOK
        <4>2. /\ Len(asked[c]) \in Nat /\ Len(asked'[c]) = Len(asked[c]) + 1
              /\ \A i \in 1 .. Len(asked[c]) : asked'[c][i] = asked[c][i]
              /\ asked'[c][Len(asked[c]) + 1] = h
          BY <1>1, <4>1, AppendFacts
        <4>3. \A i \in 1 .. Len(asked[c]) : asked[c][i] \in 1 .. Acked(c)
          BY <1>1, <3>2 DEF Numbering, FiledAll
        <4> QED BY <1>2, <3>2, <4>2, <4>3
      <3> QED BY <3>1, <3>2
    <2> QED BY <1>3, <2>1, <2>2, <2>3, <2>4 DEF Numbering, FiledAll
  <1>5. \A q \in Requests : SettledHere(q)'
    BY <1>3, <1>4 DEF Numbering, SettledHere
  <1> QED BY <1>4, <1>5 DEF Numbering

LEMMA ForgetNumbering ==
    ASSUME TypeOK, Submissions, Numbering, NEW r \in Requests, Forget(r)
    PROVE  Numbering'
  <1>1. /\ \A d \in Conns, h \in Keys :
               registered'[d][h] = IF registered[d][h] = r THEN None ELSE registered[d][h]
        /\ UNCHANGED <<state, handle, conn, connected, awaiting, submits, asked, inbound,
                       taken, jobs, finished, closings>>
        /\ ~held'[r] /\ \A q \in Requests : q # r => held'[q] = held[q]
    BY DEF Forget, serverVars, boundVars, linkVars, TypeOK, RequestsOK
  <1>2. ASSUME NEW d \in Conns PROVE Wired(d)' /\ FiledAll(d)' /\ Acked(d)' = Acked(d)
    <2>1. Acked(d)' = Acked(d)
      BY <1>1 DEF Acked
    <2>2. Wired(d)'
      BY <1>1, <2>1 DEF Numbering, Wired
    <2>3. ASSUME connected[d], NEW h \in 1 .. Acked(d) PROVE Filed(d, h)'
      <3>1. h \in Keys /\ submits[d][h] \in Requests /\ Filed(d, h)
        BY <2>3, WiredFacts DEF Numbering, FiledAll, Keys
      <3> QED BY <1>1, <3>1 DEF Filed
    <2> QED BY <1>1, <2>1, <2>2, <2>3 DEF Numbering, FiledAll
  <1>3. \A q \in Requests : SettledHere(q)'
    BY <1>1, <1>2 DEF Numbering, SettledHere
  <1> QED BY <1>2, <1>3 DEF Numbering

LEMMA CloseUntoldNumbering ==
    ASSUME TypeOK, Submissions, Numbering, NEW D, CloseUntold(D)
    PROVE  Numbering'
  <1>1. /\ closings' # 0
        /\ UNCHANGED <<state, handle, conn, held, awaiting, registered, submits, asked,
                       taken, jobs, finished>>
    BY DEF CloseUntold, TypeOK, BoundsOK, requestVars, serverVars
  <1>2. ASSUME NEW c \in Conns, c \in D PROVE Wired(c)' /\ FiledAll(c)'
    <2>1. ~connected'[c]
      BY <1>2 DEF CloseUntold
    <2> QED BY <2>1 DEF Wired, FiledAll
  <1>3. ASSUME NEW c \in Conns, c \notin D PROVE Wired(c)' /\ FiledAll(c)'
    <2>1. connected'[c] = connected[c] /\ inbound'[c] = inbound[c]
      BY <1>3 DEF CloseUntold, TypeOK, SessionsOK
    <2> QED BY <1>1, <2>1, UntouchedNumbering DEF Numbering
  <1> QED BY <1>1, <1>2, <1>3 DEF Numbering, SettledHere

\* The accepted request takes the next handle, which nobody has.
LEMMA RecvJobCreatedNumbering ==
    ASSUME TypeOK, Submissions, Numbering, NEW c \in Conns, RecvJobCreated(c)
    PROVE  Numbering'
  <1> DEFINE m == Head(inbound[c])
             r == Head(awaiting[c])
             a == Acked(c)
  <1>1. /\ connected[c] /\ inbound[c] # <<>> /\ awaiting[c] # <<>>
        /\ m.type = "JOB_CREATED"
        /\ inbound'[c] = Tail(inbound[c]) /\ awaiting'[c] = Tail(awaiting[c])
        /\ state' = [state EXCEPT ![r] = "CREATED"]
        /\ handle' = [handle EXCEPT ![r] = m.handle]
        /\ registered' = IF held[r] THEN [registered EXCEPT ![c][m.handle] = r]
                         ELSE registered
        /\ UNCHANGED <<conn, held, connected, submits, asked, taken, jobs, finished,
                       closings>>
    BY DEF RecvJobCreated, Fetch, Accepts, TypeOK, SessionsOK, serverVars, boundVars,
           linkVars, WorkTypes, UpdateTypes, FinalTypes
  <1>2. \A d \in Conns \ {c} :
            /\ awaiting'[d] = awaiting[d] /\ inbound'[d] = inbound[d]
            /\ registered'[d] = registered[d]
    BY DEF RecvJobCreated, Fetch, TypeOK, SessionsOK
  <1>3. Wired(c) /\ a \in Nat /\ inbound[c] \in Seq(Replies) /\ Len(jobs[c]) \in Nat
    BY <1>1, WiredFacts, SessionLengths DEF Numbering
  <1>4. /\ m.handle = a + 1 /\ a + 1 \in 1 .. Len(jobs[c])
        /\ CreatedBetween(inbound'[c], a + 1, Len(jobs[c]))
    BY <1>1, <1>3, CreatedTail DEF Wired
  <1>5. /\ EndOf(awaiting'[c], submits[c]) /\ Acked(c)' = a + 1
        /\ r = submits[c][a + 1]
    <2>1. /\ awaiting[c] \in Seq(Requests) /\ submits[c] \in Seq(Requests)
          /\ EndOf(awaiting[c], submits[c]) /\ a = Len(submits[c]) - Len(awaiting[c])
      BY <1>1, <1>3, ElemsType DEF Wired, Acked
    <2>2. /\ EndOf(awaiting'[c], submits[c]) /\ r = submits[c][a + 1]
          /\ Len(submits[c]) - Len(awaiting'[c]) = a + 1
      BY <1>1, <2>1, EndOfTail
    <2> QED BY <1>1, <2>2 DEF Acked
  <1>6. /\ Truthful(inbound'[c], a + 1, jobs[c], finished[c])
        /\ \A h : Silent(inbound[c], h) => Silent(inbound'[c], h)
    <2>1. Truthful(inbound[c], a, jobs[c], finished[c]) /\ a + 1 \in Nat
      BY <1>1, <1>3 DEF Wired
    <2>2. jobs[c] \in Seq(Requests)
      BY SessionLengths
    <2> QED BY <1>1, <1>3, <1>4, <2>1, <2>2, TruthfulTail
  <1>7. Wired(c)'
    <2>1. a + 1 <= Len(jobs[c])
      BY <1>4
    <2> QED BY <1>1, <1>3, <1>4, <1>5, <1>6, <2>1 DEF Wired
  <1>8. /\ r \in Requests /\ r \in Elems(awaiting[c])
        /\ state[r] = "PENDING" /\ conn[r] = c
    BY <1>1, ElemsType, TailDistinct DEF Submissions, AwaitedOnce
  <1>9. /\ state'[r] = "CREATED" /\ handle'[r] = a + 1
        /\ \A q \in Requests : q # r => state'[q] = state[q] /\ handle'[q] = handle[q]
    BY <1>1, <1>4, <1>8 DEF TypeOK, RequestsOK
  <1>10. a + 1 \in Keys
    <2>1. Len(jobs[c]) <= MaxHandle /\ MaxHandle \in Nat
      BY <1>1, <1>3, ConstantsAssumption DEF Wired
    <2> QED BY <1>3, <1>4, <2>1 DEF Handles, Keys
  <1>11. /\ registered'[c][a + 1] = IF held[r] THEN r ELSE registered[c][a + 1]
         /\ \A h \in Keys : h # a + 1 => registered'[c][h] = registered[c][h]
    BY <1>1, <1>4, <1>10 DEF TypeOK, SessionsOK
  <1>12. \A h \in 1 .. a : h # a + 1
    BY <1>3
  <1>13. ASSUME NEW h \in 1 .. a PROVE Filed(c, h)'
    <2>1. h \in Keys /\ submits[c][h] \in Requests /\ Filed(c, h)
      BY <1>1, WiredFacts DEF Numbering, FiledAll, Keys
    <2>2. submits[c][h] # r
      BY <1>8, <2>1 DEF Filed, Settled, Terminal
    <2> QED BY <1>1, <1>6, <1>9, <1>11, <1>12, <2>1, <2>2 DEF Filed
  <1>14. ASSUME NEW h \in 1 .. a + 1, h = a + 1 PROVE Filed(c, h)'
    <2>1. /\ submits'[c][h] = r /\ held'[r] = held[r]
          /\ "CREATED" \in Settled /\ "CREATED" \notin Terminal
      BY <1>1, <1>5, <1>14 DEF Settled, Terminal
    <2>2. held'[r] => registered'[c][h] = r
      BY <1>11, <1>14, <2>1
    <2>3. state'[r] = "CREATED" /\ handle'[r] = h
      BY <1>9, <1>14
    <2> QED BY <2>1, <2>2, <2>3 DEF Filed
  <1>15. FiledAll(c)'
    <2>1. \A h \in 1 .. a + 1 : h \in 1 .. a \/ h = a + 1
      BY <1>3
    <2>2. \A h \in 1 .. a : h \in 1 .. a + 1
      BY <1>3
    <2>3. ASSUME NEW h \in Keys, registered'[c][h] # None
          PROVE  h \in 1 .. a + 1 /\ registered'[c][h] = submits[c][h]
      <3>1. CASE h = a + 1 /\ held[r]
        BY <1>3, <1>5, <1>11, <3>1
      <3>2. CASE ~(h = a + 1 /\ held[r])
        <4>1. registered'[c][h] = registered[c][h]
          BY <1>11, <3>2
        <4> QED BY <1>1, <2>2, <2>3, <4>1 DEF Numbering, FiledAll
      <3> QED BY <3>1, <3>2
    <2>4. \A i \in 1 .. Len(asked[c]) : asked[c][i] \in 1 .. a + 1
      BY <1>1, <2>2 DEF Numbering, FiledAll
    <2>5. ASSUME NEW h \in 1 .. a + 1 PROVE Filed(c, h)'
      <3>1. CASE h \in 1 .. a
        BY <1>13, <3>1
      <3>2. CASE h = a + 1
        BY <1>14, <3>2
      <3> QED BY <2>1, <3>1, <3>2
    <2> QED BY <1>1, <1>5, <2>3, <2>4, <2>5 DEF FiledAll
  <1>16. ASSUME NEW d \in Conns, d # c
         PROVE  Wired(d)' /\ FiledAll(d)' /\ Acked(d)' = Acked(d)
    <2>1. \A q \in Requests : conn[q] = d => q # r
      BY <1>8, <1>16
    <2>2. /\ awaiting'[d] = awaiting[d] /\ inbound'[d] = inbound[d]
          /\ registered'[d] = registered[d]
      BY <1>2, <1>16
    <2> QED BY <1>1, <1>9, <2>1, <2>2, UntouchedNumbering DEF Numbering
  <1>17. ASSUME NEW q \in Requests PROVE SettledHere(q)'
    <2>1. CASE q = r
      BY <1>1, <1>3, <1>5, <1>8, <1>9, <2>1 DEF SettledHere
    <2>2. CASE q # r
      <3>1. \A h \in 1 .. a : h \in 1 .. a + 1
        BY <1>3
      <3> QED BY <1>1, <1>5, <1>9, <1>16, <2>2, <3>1 DEF Numbering, SettledHere
    <2> QED BY <2>1, <2>2
  <1> QED BY <1>7, <1>15, <1>16, <1>17 DEF Numbering

\* A JOB_CREATED at the head of the wire answers a request that waits for it.
LEMMA HeadIsAwaited ==
    ASSUME TypeOK, Submissions, NEW c \in Conns, Wired(c), connected[c],
           inbound[c] # <<>>, Head(inbound[c]).type = "JOB_CREATED"
    PROVE  awaiting[c] # <<>> /\ state[Head(awaiting[c])] = "PENDING"
  <1>1. /\ Acked(c) \in Nat /\ Len(jobs[c]) \in Nat /\ Len(submits[c]) \in Nat
        /\ taken[c] \in Nat /\ Len(jobs[c]) <= taken[c] /\ taken[c] <= Len(submits[c])
        /\ Acked(c) = Len(submits[c]) - Len(awaiting[c])
        /\ EndOf(awaiting[c], submits[c])
    BY WiredFacts
  <1>2. Acked(c) + 1 \in 1 .. Len(jobs[c])
    <2>1. /\ inbound[c] \in Seq(Replies)
          /\ CreatedBetween(inbound[c], Acked(c), Len(jobs[c]))
      BY DEF TypeOK, SessionsOK, Wired
    <2> QED BY <1>1, <2>1, CreatedTail
  <1>3. Acked(c) < Len(submits[c])
    <2> DEFINE a == Acked(c)
               n == Len(jobs[c])
               t == taken[c]
               k == Len(submits[c])
    <2>1. /\ a \in Nat /\ n \in Nat /\ t \in Nat /\ k \in Nat
          /\ a + 1 \in 1 .. n /\ n <= t /\ t <= k
      BY <1>1, <1>2
    <2> HIDE DEF a, n, t, k
    <2>2. a < k
      BY <2>1
    <2> QED BY <2>2 DEF a, k
  <1>4. awaiting[c] # <<>>
    <2>1. awaiting[c] \in Seq(Requests) /\ submits[c] \in Seq(Requests)
      BY ElemsType
    <2>2. Len(submits[c]) - Len(awaiting[c]) < Len(submits[c])
      BY <1>1, <1>3
    <2> QED BY <1>1, <2>1, <2>2, EndOfTail
  <1> QED BY <1>4, ElemsType, TailDistinct DEF Submissions, AwaitedOnce

\* Reading a command that answers no submission: what it ends, the wire is silent of.
LEMMA FetchNumbering ==
    ASSUME TypeOK, Submissions, Numbering, NEW c \in Conns,
           connected[c], inbound[c] # <<>>, Head(inbound[c]).type # "JOB_CREATED",
           inbound' = [inbound EXCEPT ![c] = Tail(@)],
           UNCHANGED <<handle, conn, held, connected, awaiting, registered, submits,
                       asked, taken, jobs, finished, closings>>,
           \A q \in Requests :
               \/ state'[q] = state[q]
               \/ /\ state[q] = "CREATED" /\ state'[q] \in Terminal
                  /\ Head(inbound[c]).type \in FinalTypes
                  /\ Head(inbound[c]).handle \in Keys
                  /\ q = registered[c][Head(inbound[c]).handle]
    PROVE  Numbering'
  <1> DEFINE m == Head(inbound[c])
  <1>1. /\ inbound'[c] = Tail(inbound[c]) /\ inbound[c] \in Seq(Replies)
        /\ \A d \in Conns \ {c} : inbound'[d] = inbound[d]
        /\ Wired(c) /\ FiledAll(c)
    BY DEF TypeOK, SessionsOK, Numbering
  <1>2. /\ CreatedBetween(inbound[c], Acked(c), Len(jobs[c]))
        /\ Truthful(inbound[c], Acked(c), jobs[c], finished[c])
        /\ Acked(c) \in Nat /\ Len(jobs[c]) \in Nat /\ jobs[c] \in Seq(Requests)
    BY <1>1, WiredFacts, SessionLengths DEF Wired
  <1>3. CreatedBetween(inbound'[c], Acked(c), Len(jobs[c]))
    BY <1>1, <1>2, CreatedTail
  <1>4. /\ Truthful(inbound'[c], Acked(c), jobs[c], finished[c])
        /\ \A h : Silent(inbound[c], h) => Silent(inbound'[c], h)
        /\ m.type \in FinalTypes => m.handle \in finished[c] /\ Silent(inbound'[c], m.handle)
    BY <1>1, <1>2, TruthfulTail
  <1>5. \A d \in Conns : Acked(d)' = Acked(d)
    BY DEF Acked
  <1>6. Wired(c)'
    BY <1>1, <1>3, <1>4, <1>5 DEF Wired
  <1>7. ASSUME NEW h \in 1 .. Acked(c) PROVE Filed(c, h)'
    <2> DEFINE r == submits[c][h]
    <2>1. r \in Requests /\ Filed(c, h) /\ h \in Handles
      BY <1>1, WiredFacts DEF FiledAll
    <2>2. CASE state'[r] = state[r]
      BY <1>4, <2>1, <2>2 DEF Filed
    <2>3. CASE state'[r] # state[r]
      <3>1. /\ state'[r] \in Terminal /\ m.type \in FinalTypes
            /\ m.handle \in Keys /\ r = registered[c][m.handle]
        BY <2>1, <2>3
      <3>2. m.handle \in 1 .. Acked(c) /\ registered[c][m.handle] = submits[c][m.handle]
        BY <1>1, <2>1, <3>1, ConstantsAssumption DEF FiledAll
      <3>3. handle[r] = m.handle /\ handle[r] = h
        BY <1>1, <2>1, <3>1, <3>2 DEF FiledAll, Filed
      <3> QED BY <1>4, <2>1, <3>1, <3>3 DEF Filed, Settled
    <2> QED BY <2>2, <2>3
  <1>8. FiledAll(c)'
    BY <1>1, <1>5, <1>7 DEF FiledAll
  <1>9. ASSUME NEW d \in Conns, d # c PROVE Wired(d)' /\ FiledAll(d)'
    <2>1. ASSUME NEW q \in Requests, conn[q] = d PROVE state'[q] = state[q]
      BY <1>9, <2>1, ConstantsAssumption DEF Submissions, RegisteredSettled
    <2> QED BY <1>1, <1>9, <2>1, UntouchedNumbering DEF Numbering
  <1>10. ASSUME NEW q \in Requests PROVE SettledHere(q)'
    <2>1. SettledHere(q) /\ (state'[q] \in Settled => state[q] \in Settled)
      BY DEF Numbering, Settled
    <2> QED BY <1>5, <2>1 DEF SettledHere
  <1> QED BY <1>6, <1>8, <1>9, <1>10 DEF Numbering

LEMMA RecvWorkNumbering ==
    ASSUME TypeOK, Submissions, Numbering, NEW c \in Conns,
           RecvWorkUpdate(c) \/ RecvWorkComplete(c) \/ RecvWorkFail(c) \/ RecvStatusRes(c)
    PROVE  Numbering'
  <1> DEFINE m == Head(inbound[c])
  <1>1. PICK type \in WorkTypes \cup {"STATUS_RES"} : Fetch(c, type)
    BY DEF RecvWorkUpdate, RecvWorkComplete, RecvWorkFail, RecvStatusRes, WorkTypes,
           UpdateTypes, FinalTypes
  <1>2. m.type # "JOB_CREATED" /\ m.handle \in Keys
    BY <1>1, RequestType DEF TypeOK, Keys, WorkTypes, UpdateTypes, FinalTypes
  <1>3. /\ connected[c] /\ inbound[c] # <<>> /\ inbound' = [inbound EXCEPT ![c] = Tail(@)]
    BY <1>1 DEF Fetch
  <1> QED BY <1>2, <1>3, FetchNumbering, RecvWorkState
         DEF RequestOf, serverVars, boundVars, linkVars

\* No submission's answer raises, so a callback that does changes nothing else.
LEMMA RecvOtherNumbering ==
    ASSUME TypeOK, Submissions, Numbering, NEW c \in Conns, RecvError(c) \/ RecvRaises(c)
    PROVE  Numbering'
  <1>1. /\ connected[c] /\ inbound[c] # <<>> /\ inbound' = [inbound EXCEPT ![c] = Tail(@)]
        /\ UNCHANGED <<requestVars, connected, registered, submits, asked, serverVars,
                       boundVars>>
    BY DEF RecvError, RecvRaises, Fetch, linkVars
  <1>2. Head(inbound[c]).type # "JOB_CREATED"
    <2>1. CASE RecvError(c)
      BY <2>1 DEF RecvError, Fetch
    <2>2. CASE RecvRaises(c)
      BY <1>1, <2>2, HeadIsAwaited DEF RecvRaises, Accepts, Numbering
    <2> QED BY <2>1, <2>2
  <1>3. awaiting' = awaiting
    BY <1>2 DEF RecvError, RecvRaises
  <1> QED BY <1>1, <1>2, <1>3, FetchNumbering DEF requestVars, serverVars, boundVars

\* A request the application refers to is found by handle_error.
LEMMA HandleErrorNumbering ==
    ASSUME TypeOK, Submissions, Numbering, NEW c \in Conns, HandleError(c)
    PROVE  Numbering'
  <1>1. /\ connected[c] /\ ~connected'[c]
        /\ UNCHANGED <<handle, conn, held, closings>>
        /\ \A d \in Conns \ {c} :
               /\ connected'[d] = connected[d] /\ awaiting'[d] = awaiting[d]
               /\ registered'[d] = registered[d] /\ submits'[d] = submits[d]
               /\ taken'[d] = taken[d] /\ asked'[d] = asked[d]
               /\ inbound'[d] = inbound[d] /\ jobs'[d] = jobs[d]
               /\ finished'[d] = finished[d]
        /\ \A q \in Requests :
               state'[q] = IF q \in Tracked(c) THEN "UNKNOWN" ELSE state[q]
    BY DEF HandleError, TypeOK, SessionsOK, boundVars
  <1>2. \A q \in Tracked(c) : conn[q] = c
    BY ElemsType DEF Submissions, AwaitedOnce, RegisteredSettled
  <1>3. Wired(c)' /\ FiledAll(c)'
    BY <1>1 DEF Wired, FiledAll
  <1>4. ASSUME NEW d \in Conns, d # c
        PROVE  Wired(d)' /\ FiledAll(d)' /\ Acked(d)' = Acked(d)
    <2>1. \A q \in Requests : conn[q] = d => state'[q] = state[q]
      BY <1>1, <1>2, <1>4
    <2> QED BY <1>1, <1>4, <2>1, UntouchedNumbering DEF Numbering
  <1>5. ASSUME NEW q \in Requests PROVE SettledHere(q)'
    <2> SUFFICES ASSUME closings = 0, held[q], state'[q] \in Settled
                 PROVE  SettledHere(q)'
      BY <1>1 DEF SettledHere
    <2>1. q \notin Tracked(c) /\ state[q] \in Settled
      BY <1>1 DEF Settled, Terminal
    <2>2. PICK d \in Conns : /\ conn[q] = d /\ connected[d]
                             /\ handle[q] \in 1 .. Acked(d) /\ submits[d][handle[q]] = q
      BY <2>1 DEF Numbering, SettledHere
    <2>3. d # c
      <3>1. handle[q] \in Keys /\ registered[d][handle[q]] = q
        BY <2>2, WiredFacts DEF Numbering, FiledAll, Filed, Keys
      <3> QED BY <2>1, <3>1, ConstantsAssumption DEF Tracked
    <2>4. connected'[d] /\ submits'[d] = submits[d] /\ Acked(d)' = Acked(d)
      BY <1>1, <1>4, <2>2, <2>3
    <2> QED BY <1>1, <2>2, <2>4 DEF SettledHere
  <1> QED BY <1>3, <1>4, <1>5 DEF Numbering

\* What is not a JOB_CREATED leaves the jobs as they are.
LEMMA AnswerAppend ==
    ASSUME NEW q \in Seq(Replies), NEW m \in Replies, NEW a \in Nat,
           NEW js \in Seq(Requests), NEW fin, NEW gin,
           CreatedBetween(q, a, Len(js)), Truthful(q, a, js, fin), fin \subseteq gin,
           m.type # "JOB_CREATED",
           m.type # "ERROR" => m.handle \in 1 .. Len(js) /\ m.data = js[m.handle],
           m.type \in FinalTypes => m.handle \in gin,
           m.type \in WorkTypes => m.handle \notin fin
    PROVE  /\ CreatedBetween(Append(q, m), a, Len(js))
           /\ Truthful(Append(q, m), a, js, gin)
  <1>1. Len(js) \in Nat /\ Len(js) <= Len(js)
    OBVIOUS
  <1>2. CreatedBetween(Append(q, m), a, Len(js))
    BY <1>1, CreatedAppend
  <1>3. m.type \notin {"ERROR", "JOB_CREATED"} /\ m.handle > a =>
            \E i \in 1 .. Len(q) : Created(q, i) /\ q[i].handle = m.handle
    BY DEF CreatedBetween
  <1>4. \A h \in 1 .. Len(js) : js[h] = js[h]
    OBVIOUS
  <1>5. Truthful(Append(q, m), a, js, gin)
    BY <1>1, <1>3, <1>4, TruthfulAppend
  <1> QED BY <1>2, <1>5

LEMMA SilentAppend ==
    ASSUME NEW q \in Seq(Replies), NEW m \in Replies, NEW h, Silent(q, h),
           m.type \in WorkTypes => m.handle # h
    PROVE  Silent(Append(q, m), h)
  <1>1. /\ Len(q) \in Nat /\ Len(Append(q, m)) = Len(q) + 1
        /\ \A i \in 1 .. Len(q) : Append(q, m)[i] = q[i]
        /\ Append(q, m)[Len(q) + 1] = m
    BY AppendFacts
  <1>2. \A i \in 1 .. Len(q) + 1 : i \in 1 .. Len(q) \/ i = Len(q) + 1
    BY <1>1
  <1> QED BY <1>1, <1>2 DEF Silent

\* What a server adds to the wire, of a job it has not ended.
LEMMA ReplyNumbering ==
    ASSUME TypeOK, Submissions, Numbering, NEW c \in Conns, NEW m \in Replies,
           connected[c], Reply(c, m),
           UNCHANGED <<requestVars, connected, awaiting, registered, submits, closings>>,
           \A d \in Conns \ {c} :
               /\ asked'[d] = asked[d] /\ taken'[d] = taken[d]
               /\ jobs'[d] = jobs[d] /\ finished'[d] = finished[d],
           Acked(c) <= Len(jobs'[c]), Len(jobs'[c]) <= taken'[c],
           taken'[c] <= Len(submits[c]), Len(jobs'[c]) <= MaxHandle,
           CreatedBetween(Append(inbound[c], m), Acked(c), Len(jobs'[c])),
           Truthful(Append(inbound[c], m), Acked(c), jobs'[c], finished'[c]),
           finished[c] \subseteq finished'[c],
           m.type \in WorkTypes => m.handle \notin finished[c],
           \A i \in 1 .. Len(asked'[c]) : asked'[c][i] \in 1 .. Acked(c)
    PROVE  Numbering'
  <1>1. /\ inbound'[c] = Append(inbound[c], m) /\ inbound[c] \in Seq(Replies)
        /\ \A d \in Conns \ {c} : inbound'[d] = inbound[d]
        /\ UNCHANGED <<state, handle, conn, held>>
    BY DEF Reply, TypeOK, SessionsOK, requestVars
  <1>2. \A d \in Conns : Acked(d)' = Acked(d)
    BY DEF Acked
  <1>3. Wired(c)'
    BY <1>1, <1>2 DEF Numbering, Wired
  <1>4. ASSUME NEW h \in 1 .. Acked(c) PROVE Filed(c, h)'
    <2>1. Filed(c, h)
      BY DEF Numbering, FiledAll
    <2>2. state[submits[c][h]] \in Terminal =>
              h \in finished'[c] /\ Silent(inbound'[c], h)
      BY <1>1, <2>1, SilentAppend DEF Filed
    <2> QED BY <1>1, <2>1, <2>2 DEF Filed
  <1>5. FiledAll(c)'
    BY <1>2, <1>4 DEF Numbering, FiledAll
  <1>6. ASSUME NEW d \in Conns, d # c PROVE Wired(d)' /\ FiledAll(d)'
    BY <1>1, <1>6, UntouchedNumbering DEF Numbering
  <1>7. \A q \in Requests : SettledHere(q)'
    BY <1>1, <1>2 DEF Numbering, SettledHere
  <1> QED BY <1>3, <1>5, <1>6, <1>7 DEF Numbering

\* Jobs are numbered in the order of submission, with or without refusals between.
LEMMA ServerNumbering ==
    ASSUME TypeOK, Submissions, Numbering, NEW c \in Conns, Server(c)
    PROVE  Numbering'
  <1> DEFINE q == inbound[c]
             a == Acked(c)
             n == Len(jobs[c])
             t == taken[c]
             k == Len(submits[c])
  <1>1. connected[c] /\ Wired(c) /\ FiledAll(c)
    BY DEF Server, ServerCreatesJob, ServerRejectsJob, ServerUpdates, ServerFinishes,
           ServerAnswersStatus, Numbering
  <1>2. /\ q \in Seq(Replies) /\ a \in Nat /\ n \in Nat /\ t \in Nat /\ k \in Nat
        /\ jobs[c] \in Seq(Requests) /\ MaxHandle \in Nat
        /\ \A i \in 1 .. Len(asked[c]) : asked[c][i] \in 1 .. a
    BY <1>1, WiredFacts, SessionLengths, ConstantsAssumption DEF FiledAll
  <1>3. /\ a <= n /\ n <= t /\ t <= k /\ n <= MaxHandle
        /\ CreatedBetween(q, a, n) /\ Truthful(q, a, jobs[c], finished[c])
    BY <1>1 DEF Wired
  <1> HIDE DEF q, a, n, t, k
  <1>5. CASE ServerCreatesJob(c)
    <2> DEFINE r == submits[c][t + 1]
               h == n + 1
               m == [type |-> "JOB_CREATED", handle |-> h, data |-> r, known |-> TRUE]
    <2>1. /\ t < k /\ h \in Handles /\ Reply(c, m)
          /\ taken' = [taken EXCEPT ![c] = t + 1]
          /\ jobs' = [jobs EXCEPT ![c] = Append(jobs[c], r)]
          /\ UNCHANGED <<requestVars, connected, awaiting, registered, submits, asked,
                         finished, closings>>
      BY <1>5 DEF ServerCreatesJob, IsSent, boundVars, linkVars, t, k, n
    <2>2. r \in Requests
      <3>1. submits[c] \in Seq(Requests) /\ t + 1 \in 1 .. k
        BY <1>2, <2>1 DEF TypeOK, SessionsOK
      <3> QED BY <3>1 DEF k
    <2>3. m \in Replies
      BY <2>1, <2>2 DEF Replies, ReplyTypes
    <2>4. /\ jobs'[c] = Append(jobs[c], r) /\ taken'[c] = t + 1
          /\ \A d \in Conns \ {c} : jobs'[d] = jobs[d] /\ taken'[d] = taken[d]
      BY <2>1 DEF TypeOK, SessionsOK
    <2>5. /\ jobs'[c] \in Seq(Requests) /\ Len(jobs'[c]) = n + 1 /\ jobs'[c][h] = r
          /\ \A i \in 1 .. n : jobs'[c][i] = jobs[c][i]
      BY <1>2, <2>2, <2>4, AppendFacts DEF n
    <2>6. /\ a <= n + 1 /\ n + 1 <= t + 1 /\ t + 1 <= k /\ n + 1 <= MaxHandle
          /\ n <= n + 1 /\ h \in 1 .. n + 1
      BY <1>2, <1>3, <2>1 DEF Handles
    <2>7. /\ m.type = "JOB_CREATED" /\ m.handle = n + 1 /\ m.data = r
          /\ m.type \notin FinalTypes /\ m.type \notin WorkTypes
      BY DEF WorkTypes, UpdateTypes, FinalTypes
    <2> HIDE DEF h, r, m
    <2>8. CreatedBetween(Append(q, m), a, n + 1)
      BY <1>2, <1>3, <2>3, <2>7, CreatedAppend
    <2>9. Truthful(Append(q, m), a, jobs'[c], finished[c])
      BY <1>2, <1>3, <2>3, <2>5, <2>6, <2>7, TruthfulAppend DEF n, h
    <2> QED
      BY <1>1, <1>2, <2>1, <2>3, <2>4, <2>5, <2>6, <2>7, <2>8, <2>9, ReplyNumbering
      DEF q, a, k
  <1>6. CASE ServerRejectsJob(c)
    <2> DEFINE m == ErrorReply
    <2>1. /\ t < k /\ Reply(c, m) /\ taken' = [taken EXCEPT ![c] = t + 1]
          /\ UNCHANGED <<requestVars, connected, awaiting, registered, submits, asked,
                         jobs, finished, closings>>
      BY <1>6 DEF ServerRejectsJob, IsSent, linkVars, t, k
    <2>2. m \in Replies /\ m.type = "ERROR"
      BY DEF Replies, ErrorReply
    <2>3. taken'[c] = t + 1 /\ \A d \in Conns \ {c} : taken'[d] = taken[d]
      BY <2>1 DEF TypeOK, SessionsOK
    <2>4. n <= t + 1 /\ t + 1 <= k
      BY <1>2, <1>3, <2>1
    <2>5. m.type \notin FinalTypes /\ m.type \notin WorkTypes /\ m.type # "JOB_CREATED"
      BY <2>2 DEF WorkTypes, UpdateTypes, FinalTypes
    <2> HIDE DEF m
    <2>6. /\ CreatedBetween(Append(q, m), a, n)
          /\ Truthful(Append(q, m), a, jobs[c], finished[c])
      BY <1>2, <1>3, <2>2, <2>5, AnswerAppend DEF n
    <2> QED
      BY <1>1, <1>2, <1>3, <2>1, <2>2, <2>3, <2>4, <2>5, <2>6, ReplyNumbering
      DEF q, a, n, k
  <1>7. ASSUME NEW h \in Handles, NEW type \in UpdateTypes, ServerUpdates(c, h, type)
        PROVE  Numbering'
    <2> DEFINE m == [type |-> type, handle |-> h, data |-> jobs[c][h], known |-> TRUE]
    <2>1. /\ h \in 1 .. n /\ h \notin finished[c] /\ Reply(c, m)
          /\ UNCHANGED <<requestVars, connected, awaiting, registered, submits, taken,
                         asked, jobs, finished, closings>>
      BY <1>2, <1>7 DEF ServerUpdates, linkVars, n
    <2>2. m \in Replies
      BY <1>2, <2>1 DEF Replies, ReplyTypes, WorkTypes, n
    <2>3. /\ m.type \notin FinalTypes /\ m.type # "JOB_CREATED"
          /\ m.handle = h /\ m.data = jobs[c][h]
      BY DEF UpdateTypes, FinalTypes
    <2> HIDE DEF m
    <2>4. /\ CreatedBetween(Append(q, m), a, n)
          /\ Truthful(Append(q, m), a, jobs[c], finished[c])
      BY <1>2, <1>3, <2>1, <2>2, <2>3, AnswerAppend DEF n
    <2> QED
      BY <1>1, <1>2, <1>3, <2>1, <2>2, <2>3, <2>4, ReplyNumbering DEF q, a, n, t, k
  <1>8. ASSUME NEW h \in Handles, NEW type \in FinalTypes, ServerFinishes(c, h, type)
        PROVE  Numbering'
    <2> DEFINE m == [type |-> type, handle |-> h, data |-> jobs[c][h], known |-> FALSE]
    <2>1. /\ h \in 1 .. n /\ h \notin finished[c] /\ Reply(c, m)
          /\ finished' = [finished EXCEPT ![c] = @ \cup {h}]
          /\ UNCHANGED <<requestVars, connected, awaiting, registered, submits, taken,
                         asked, jobs, closings>>
      BY <1>2, <1>8 DEF ServerFinishes, boundVars, linkVars, n
    <2>2. m \in Replies
      BY <1>2, <2>1 DEF Replies, ReplyTypes, WorkTypes, n
    <2>3. /\ m.type # "JOB_CREATED" /\ m.handle = h /\ m.data = jobs[c][h]
      BY DEF FinalTypes
    <2>4. /\ h \in finished'[c] /\ finished[c] \subseteq finished'[c]
          /\ \A d \in Conns \ {c} : finished'[d] = finished[d]
      BY <2>1 DEF TypeOK, SessionsOK
    <2> HIDE DEF m
    <2>5. /\ CreatedBetween(Append(q, m), a, n)
          /\ Truthful(Append(q, m), a, jobs[c], finished'[c])
      BY <1>2, <1>3, <2>1, <2>2, <2>3, <2>4, AnswerAppend DEF n
    <2> QED
      BY <1>1, <1>2, <1>3, <2>1, <2>2, <2>3, <2>4, <2>5, ReplyNumbering
      DEF q, a, n, t, k
  <1>9. CASE ServerAnswersStatus(c)
    <2> DEFINE h == Head(asked[c])
               m == [type |-> "STATUS_RES", handle |-> h, data |-> jobs[c][h],
                     known |-> h \notin finished[c]]
    <2>0. /\ asked[c] # <<>> /\ asked[c] \in Seq(Keys)
          /\ h \in 1 .. n /\ h \in DOMAIN jobs[c] /\ h \in Handles
      <3>1. asked[c] # <<>> /\ asked[c] \in Seq(Keys)
        BY <1>9 DEF ServerAnswersStatus, TypeOK, SessionsOK
      <3>2. h = asked[c][1] /\ 1 \in 1 .. Len(asked[c])
        BY <3>1, TailFacts
      <3>3. h \in 1 .. a
        BY <1>2, <3>2
      <3>4. h \in 1 .. n /\ h \in 1 .. MaxHandle
        BY <1>2, <1>3, <3>3
      <3>5. DOMAIN jobs[c] = 1 .. n
        BY <1>2 DEF n
      <3> QED BY <3>1, <3>4, <3>5 DEF Handles
    <2>1. /\ Reply(c, m)
          /\ asked' = [asked EXCEPT ![c] = Tail(@)]
          /\ UNCHANGED <<requestVars, connected, awaiting, registered, submits, taken,
                         jobs, finished, closings>>
      <3>1. m = [type |-> "STATUS_RES", handle |-> h,
                 data |-> IF h \in DOMAIN jobs[c] THEN jobs[c][h] ELSE None,
                 known |-> h \in DOMAIN jobs[c] /\ h \notin finished[c]]
        BY <2>0
      <3> QED BY <1>9, <3>1 DEF ServerAnswersStatus, serverVars, boundVars, linkVars
    <2>2. m \in Replies
      <3>1. h \in Handles /\ jobs[c][h] \in Requests
        BY <1>2, <2>0 DEF n
      <3> QED BY <3>1 DEF Replies, ReplyTypes
    <2>3. /\ m.type \notin FinalTypes /\ m.type \notin WorkTypes /\ m.type # "JOB_CREATED"
          /\ m.handle = h /\ m.data = jobs[c][h]
      BY DEF WorkTypes, UpdateTypes, FinalTypes
    <2> HIDE DEF m
    <2>4. /\ \A i \in 1 .. Len(asked'[c]) : asked'[c][i] \in 1 .. a
          /\ \A d \in Conns \ {c} : asked'[d] = asked[d]
      <3>1. /\ asked'[c] = Tail(asked[c]) /\ Len(asked[c]) \in Nat \ {0}
            /\ Len(Tail(asked[c])) = Len(asked[c]) - 1
            /\ \A i \in 1 .. Len(asked[c]) - 1 : Tail(asked[c])[i] = asked[c][i + 1]
            /\ \A d \in Conns \ {c} : asked'[d] = asked[d]
        BY <2>0, <2>1, TailFacts DEF TypeOK, SessionsOK
      <3>2. \A i \in 1 .. Len(asked[c]) - 1 : i + 1 \in 1 .. Len(asked[c])
        BY <3>1
      <3> QED BY <1>2, <3>1, <3>2
    <2>5. /\ CreatedBetween(Append(q, m), a, n)
          /\ Truthful(Append(q, m), a, jobs[c], finished[c])
      BY <1>2, <1>3, <2>0, <2>2, <2>3, AnswerAppend DEF n
    <2> QED
      BY <1>1, <1>2, <1>3, <2>1, <2>2, <2>3, <2>4, <2>5, ReplyNumbering
      DEF q, a, n, t, k
  <1> QED BY <1>5, <1>6, <1>7, <1>8, <1>9 DEF Server

LEMMA InitNumbering == Init => Numbering
    BY DEF Init, Numbering, Wired, FiledAll, SettledHere, Settled, Terminal

-----------------------------------------------------------------------------
(***************************************************************************)
(* What disturbs the order.  A request filed under an old handle, and a     *)
(* submission lost unsent, undo the numbering itself; a refused submission *)
(* leaves the numbering of the handler as it is, but not the server's.     *)
(***************************************************************************)

\* Unless a submission was refused, the h-th submission is the one of job h.
JobsInOrder(c) ==
    connected[c] => /\ Len(jobs[c]) = taken[c]
                    /\ \A h \in 1 .. Len(jobs[c]) : jobs[c][h] = submits[c][h]

Unmixed ==
    rejects = 0 => (\A c \in Conns : JobsInOrder(c)) /\ AnswersAreOwn

Ordered == ~misfiled /\ ~tossed => Numbering /\ Unmixed

LEMMA SameJobs ==
    ASSUME NEW c \in Conns, JobsInOrder(c), connected'[c] => connected[c],
           jobs'[c] = jobs[c], taken'[c] = taken[c], submits'[c] = submits[c]
    PROVE  JobsInOrder(c)'
    BY DEF JobsInOrder

LEMMA SameAnswers ==
    ASSUME AnswersAreOwn, UNCHANGED <<result, exception, data_updates, warning_updates>>,
           \A r \in Requests : status'[r].of = status[r].of
    PROVE  AnswersAreOwn'
    BY DEF AnswersAreOwn

LEMMA SendUnmixed ==
    ASSUME TypeOK, Submissions, Numbering, Unmixed,
           NEW r \in Requests, NEW c \in Conns, SendJobRequest(r, c)
    PROVE  Unmixed'
  <1> SUFFICES ASSUME rejects = 0 PROVE Unmixed'
    BY DEF Unmixed, SendJobRequest, boundVars
  <1>1. AnswersAreOwn'
    BY SameAnswers DEF Unmixed, SendJobRequest, answerVars
  <1>2. ASSUME NEW d \in Conns, d # c PROVE JobsInOrder(d)'
    <2>1. /\ connected'[d] = connected[d] /\ submits'[d] = submits[d]
          /\ taken'[d] = taken[d] /\ jobs'[d] = jobs[d]
      BY <1>2
      DEF SendJobRequest, SendOnOpenConnection, SendOnNewConnection, TypeOK, SessionsOK,
          linkVars
    <2> QED BY <2>1, SameJobs DEF Unmixed
  <1>3. CASE SendOnOpenConnection(r, c)
    <2>1. /\ connected[c] /\ jobs' = jobs /\ taken' = taken
          /\ submits'[c] = Append(submits[c], r) /\ submits[c] \in Seq(Requests)
      BY <1>3 DEF SendOnOpenConnection, TypeOK, SessionsOK
    <2>2. /\ Len(jobs[c]) = taken[c]
          /\ \A h \in 1 .. Len(jobs[c]) : jobs[c][h] = submits[c][h]
      BY <2>1 DEF Unmixed, JobsInOrder
    <2>3. \A h \in 1 .. Len(submits[c]) : submits'[c][h] = submits[c][h]
      BY <2>1, AppendFacts
    <2>4. \A h \in 1 .. Len(jobs[c]) : h \in 1 .. Len(submits[c])
      <3>1. /\ Len(jobs[c]) \in Nat /\ Len(submits[c]) \in Nat /\ taken[c] \in Nat
            /\ taken[c] <= Len(submits[c])
        BY <2>1, WiredFacts DEF Numbering
      <3> QED BY <2>2, <3>1
    <2>5. JobsInOrder(c)'
      BY <2>1, <2>2, <2>3, <2>4 DEF JobsInOrder
    <2> QED BY <1>1, <1>2, <2>5 DEF Unmixed
  <1>4. CASE SendOnNewConnection(r, c)
    <2>1. jobs'[c] = <<>> /\ taken'[c] = 0
      BY <1>4 DEF SendOnNewConnection, TypeOK, SessionsOK
    <2>2. JobsInOrder(c)'
      BY <2>1 DEF JobsInOrder
    <2> QED BY <1>1, <1>2, <2>2 DEF Unmixed
  <1> QED BY <1>3, <1>4 DEF SendJobRequest

\* The application's other calls leave all answers and jobs as they are.
LEMMA OtherAppUnmixed ==
    ASSUME TypeOK, Unmixed,
           \/ \E r \in Requests : GetJobStatus(r) \/ GetStatusOfLost(r) \/ Forget(r)
           \/ \E D : CloseUntold(D)
    PROVE  Unmixed'
  <1>1. /\ UNCHANGED <<result, exception, data_updates, warning_updates, jobs, taken,
                       submits, rejects>>
        /\ \A c \in Conns : connected'[c] => connected[c]
        /\ \A r \in Requests : status'[r].of = status[r].of
    <2>1. ASSUME NEW r \in Requests, GetJobStatus(r) \/ GetStatusOfLost(r)
          PROVE  \A q \in Requests : status'[q].of = status[q].of
      <3>1. status[r] \in Statuses /\ status' = [status EXCEPT ![r].fresh = FALSE]
        BY <2>1 DEF GetJobStatus, GetStatusOfLost, TypeOK, RequestsOK
      <3>2. [status[r] EXCEPT !.fresh = FALSE].of = status[r].of
        BY <3>1 DEF Statuses
      <3>3. \A q \in Requests :
                status'[q] = IF q = r THEN [status[r] EXCEPT !.fresh = FALSE] ELSE status[q]
        BY <3>1 DEF TypeOK, RequestsOK
      <3> QED BY <3>2, <3>3
    <2>2. ASSUME NEW r \in Requests, GetJobStatus(r) \/ GetStatusOfLost(r) \/ Forget(r)
          PROVE  UNCHANGED <<result, exception, data_updates, warning_updates, jobs, taken,
                             submits, rejects, connected>>
      BY <2>2 DEF GetJobStatus, GetStatusOfLost, Forget, answerVars, serverVars, sessionVars,
                  boundVars, linkVars
    <2>3. ASSUME NEW r \in Requests, Forget(r) PROVE status' = status
      BY <2>3 DEF Forget, answerVars
    <2>4. ASSUME NEW D, CloseUntold(D)
          PROVE  /\ UNCHANGED <<result, exception, data_updates, warning_updates, jobs,
                                taken, submits, rejects, status>>
                 /\ \A c \in Conns : connected'[c] => connected[c]
      BY <2>4 DEF CloseUntold, requestVars, serverVars
    <2> QED BY <2>1, <2>2, <2>3, <2>4
  <1> QED BY <1>1, SameJobs, SameAnswers DEF Unmixed

LEMMA RecvJobCreatedUnmixed ==
    ASSUME Unmixed, NEW c \in Conns, RecvJobCreated(c) \/ RecvError(c) \/ RecvRaises(c)
    PROVE  Unmixed'
  <1>1. UNCHANGED <<answerVars, jobs, taken, submits, rejects, connected>>
    BY DEF RecvJobCreated, RecvError, RecvRaises, requestVars, answerVars, serverVars,
           boundVars, linkVars
  <1> QED BY <1>1, SameJobs, SameAnswers DEF Unmixed, answerVars

LEMMA HandleErrorUnmixed ==
    ASSUME TypeOK, Unmixed, NEW c \in Conns, HandleError(c)
    PROVE  Unmixed'
  <1>1. /\ UNCHANGED <<answerVars, rejects>> /\ ~connected'[c]
        /\ \A d \in Conns \ {c} :
               /\ connected'[d] = connected[d] /\ submits'[d] = submits[d]
               /\ taken'[d] = taken[d] /\ jobs'[d] = jobs[d]
    BY DEF HandleError, TypeOK, SessionsOK, boundVars
  <1>2. JobsInOrder(c)'
    BY <1>1 DEF JobsInOrder
  <1>3. \A d \in Conns \ {c} : rejects = 0 => JobsInOrder(d)'
    BY <1>1, SameJobs DEF Unmixed
  <1> QED BY <1>1, <1>2, <1>3, SameAnswers DEF Unmixed, answerVars

\* A server that refuses nothing numbers its jobs as they were submitted.
LEMMA ServerUnmixed ==
    ASSUME TypeOK, Numbering, Unmixed, NEW c \in Conns, Server(c)
    PROVE  Unmixed'
  <1>1. CASE ServerCreatesJob(c)
    <2> SUFFICES ASSUME rejects = 0 PROVE Unmixed'
      BY <1>1 DEF Unmixed, ServerCreatesJob, boundVars
    <2> DEFINE n == Len(jobs[c])
               r == submits[c][taken[c] + 1]
    <2>1. /\ connected[c] /\ UNCHANGED <<requestVars, connected, submits, rejects>>
          /\ jobs' = [jobs EXCEPT ![c] = Append(jobs[c], r)]
          /\ taken' = [taken EXCEPT ![c] = taken[c] + 1] /\ taken[c] < Len(submits[c])
      BY <1>1 DEF ServerCreatesJob, IsSent, boundVars, linkVars
    <2>2. /\ n = taken[c] /\ \A h \in 1 .. n : jobs[c][h] = submits[c][h]
      BY <2>1 DEF Unmixed, JobsInOrder
    <2>3. /\ jobs'[c] = Append(jobs[c], r) /\ taken'[c] = n + 1 /\ submits' = submits
          /\ \A d \in Conns \ {c} : jobs'[d] = jobs[d] /\ taken'[d] = taken[d]
      BY <2>1, <2>2 DEF TypeOK, SessionsOK
    <2>4. /\ jobs[c] \in Seq(Requests) /\ r \in Requests /\ r = submits[c][n + 1]
      <3>1. /\ submits[c] \in Seq(Requests) /\ jobs[c] \in Seq(Requests) /\ taken[c] \in Nat
        BY DEF TypeOK, SessionsOK
      <3>2. taken[c] + 1 \in 1 .. Len(submits[c])
        BY <2>1, <3>1
      <3> QED BY <2>2, <3>1, <3>2
    <2>5. /\ n \in Nat /\ Len(jobs'[c]) = n + 1 /\ jobs'[c][n + 1] = r
          /\ \A h \in 1 .. n : jobs'[c][h] = jobs[c][h]
      BY <2>3, <2>4, AppendFacts
    <2> HIDE DEF n, r
    <2>6. \A h \in 1 .. n + 1 : h \in 1 .. n \/ h = n + 1
      BY <2>5
    <2>7. JobsInOrder(c)'
      BY <2>2, <2>3, <2>4, <2>5, <2>6 DEF JobsInOrder
    <2>8. \A d \in Conns \ {c} : JobsInOrder(d)'
      BY <2>1, <2>3, SameJobs DEF Unmixed
    <2>9. AnswersAreOwn'
      BY <2>1, SameAnswers DEF Unmixed, requestVars
    <2> QED BY <2>7, <2>8, <2>9 DEF Unmixed
  <1>2. CASE ServerRejectsJob(c)
    <2>1. rejects' # 0
      BY <1>2 DEF ServerRejectsJob, TypeOK, BoundsOK
    <2> QED BY <2>1 DEF Unmixed
  <1>3. CASE \/ \E h \in Handles : \/ \E type \in UpdateTypes : ServerUpdates(c, h, type)
                                   \/ \E type \in FinalTypes : ServerFinishes(c, h, type)
             \/ ServerAnswersStatus(c)
    <2>1. UNCHANGED <<requestVars, jobs, taken, submits, rejects, connected>>
      BY <1>3 DEF ServerUpdates, ServerFinishes, ServerAnswersStatus, serverVars, boundVars,
                  linkVars
    <2> QED BY <2>1, SameJobs, SameAnswers DEF Unmixed, requestVars
  <1> QED BY <1>1, <1>2, <1>3 DEF Server

\* A command of a handle is delivered to the request the handle was given for.
LEMMA RecvWorkUnmixed ==
    ASSUME TypeOK, Numbering, Unmixed, NEW c \in Conns,
           RecvWorkUpdate(c) \/ RecvWorkComplete(c) \/ RecvWorkFail(c) \/ RecvStatusRes(c)
    PROVE  Unmixed'
  <1> DEFINE m == Head(inbound[c])
             r == RequestOf(c, m)
  <1>1. PICK type \in WorkTypes \cup {"STATUS_RES"} : Fetch(c, type)
    BY DEF RecvWorkUpdate, RecvWorkComplete, RecvWorkFail, RecvStatusRes, WorkTypes,
           UpdateTypes, FinalTypes
  <1>2. /\ r \in Requests /\ m.handle \in Keys
        /\ connected[c] /\ inbound[c] # <<>>
        /\ m.type # "JOB_CREATED" /\ m.type # "ERROR"
    BY <1>1, RequestType DEF TypeOK, Fetch, Keys, WorkTypes, UpdateTypes, FinalTypes
  <1>3. UNCHANGED <<connected, submits, serverVars, boundVars>>
    BY RecvWorkState DEF linkVars
  <1>4. \A d \in Conns : rejects = 0 => JobsInOrder(d)'
    BY <1>3, SameJobs DEF Unmixed, serverVars
  <1>5. r = submits[c][m.handle]
    BY <1>2, ConstantsAssumption DEF Numbering, FiledAll, RequestOf
  <1>6. m.handle \in 1 .. Len(jobs[c]) /\ m.data = jobs[c][m.handle]
    <2>1. /\ inbound[c] \in Seq(Replies) /\ jobs[c] \in Seq(Requests) /\ Acked(c) \in Nat
          /\ Truthful(inbound[c], Acked(c), jobs[c], finished[c])
      BY <1>2, SessionLengths, WiredFacts DEF Numbering, Wired
    <2> QED BY <1>2, <2>1, TruthfulTail
  <1>7. ASSUME rejects = 0 PROVE AnswersAreOwn'
    <2>1. m.data = r
      BY <1>2, <1>5, <1>6, <1>7 DEF Unmixed, JobsInOrder
    <2> QED BY <1>2, <1>7, <2>1, OwnAnswers DEF Unmixed
  <1> QED BY <1>3, <1>4, <1>7 DEF Unmixed, boundVars

\* Numbering speaks of these variables only.
LEMMA QuietNumbering ==
    ASSUME Numbering, UNCHANGED <<state, handle, conn, held, sessionVars, closings>>
    PROVE  Numbering'
  <1>1. \A c \in Conns : Acked(c)' = Acked(c)
    BY DEF Acked, sessionVars
  <1>2. \A c \in Conns : Wired(c)'
    BY <1>1 DEF Numbering, Wired, sessionVars
  <1>3. ASSUME NEW c \in Conns, connected[c], NEW h \in 1 .. Acked(c) PROVE Filed(c, h)'
    BY <1>3 DEF Numbering, FiledAll, Filed, sessionVars
  <1>4. \A c \in Conns : FiledAll(c)'
    BY <1>1, <1>3 DEF Numbering, FiledAll, sessionVars
  <1>5. \A r \in Requests : SettledHere(r)'
    BY <1>1 DEF Numbering, SettledHere, sessionVars
  <1> QED BY <1>2, <1>4, <1>5 DEF Numbering

LEMMA InitOrdered == Init => Ordered
  <1> SUFFICES ASSUME Init PROVE Ordered
    OBVIOUS
  <1>1. \A r \in Requests :
            /\ result[r] = None /\ exception[r] = None /\ status[r].of = None
            /\ data_updates[r] = <<>> /\ warning_updates[r] = <<>>
    BY DEF Init, NoStatus
  <1>2. AnswersAreOwn
    <2>1. \A i : i \notin DOMAIN <<>>
      OBVIOUS
    <2> QED BY <1>1, <2>1, Zenon DEF AnswersAreOwn
  <1>3. \A c \in Conns : JobsInOrder(c)
    BY DEF Init, JobsInOrder
  <1> QED BY <1>2, <1>3, InitNumbering DEF Ordered, Unmixed

LEMMA NextOrdered ==
    ASSUME TypeOK, Submissions, Numbering, Unmixed, Next, ~misfiled', ~tossed'
    PROVE  Numbering' /\ Unmixed'
  <1>1. ASSUME NEW r \in Requests, NEW c \in Conns, SendJobRequest(r, c)
        PROVE  Numbering' /\ Unmixed'
    BY <1>1, SendNumbering, SendUnmixed
  <1>2. ASSUME NEW r \in Requests, GetJobStatus(r) PROVE Numbering' /\ Unmixed'
    BY <1>2, GetJobStatusNumbering, OtherAppUnmixed
  <1>3. ASSUME NEW r \in Requests, GetStatusOfLost(r) PROVE Numbering' /\ Unmixed'
    <2>1. UNCHANGED <<state, handle, conn, held, sessionVars, boundVars>>
      BY <1>3 DEF GetStatusOfLost
    <2>2. Numbering'
      BY <2>1, QuietNumbering DEF boundVars
    <2> QED BY <1>3, <2>2, OtherAppUnmixed
  <1>4. ASSUME NEW r \in Requests, Forget(r) PROVE Numbering' /\ Unmixed'
    BY <1>4, ForgetNumbering, OtherAppUnmixed
  <1>5. ASSUME NEW c \in Conns, Receive(c) PROVE Numbering' /\ Unmixed'
    <2>1. CASE RecvJobCreated(c)
      BY <2>1, RecvJobCreatedNumbering, RecvJobCreatedUnmixed
    <2>2. CASE RecvWorkUpdate(c) \/ RecvWorkComplete(c) \/ RecvWorkFail(c) \/ RecvStatusRes(c)
      BY <2>2, RecvWorkNumbering, RecvWorkUnmixed
    <2>3. CASE RecvError(c) \/ RecvRaises(c)
      BY <2>3, RecvOtherNumbering, RecvJobCreatedUnmixed
    <2> QED BY <1>5, <2>1, <2>2, <2>3 DEF Receive
  <1>6. ASSUME NEW c \in Conns, HandleError(c) PROVE Numbering' /\ Unmixed'
    BY <1>6, HandleErrorNumbering, HandleErrorUnmixed
  <1>7. ASSUME NEW c \in Conns, PackFails(c) PROVE FALSE
    BY <1>7 DEF PackFails
  <1>8. ASSUME NEW c \in Conns, Server(c) PROVE Numbering' /\ Unmixed'
    BY <1>8, ServerNumbering, ServerUnmixed
  <1>9. ASSUME NEW D, CloseUntold(D) PROVE Numbering' /\ Unmixed'
    BY <1>9, CloseUntoldNumbering, OtherAppUnmixed
  <1> QED
    BY <1>1, <1>2, <1>3, <1>4, <1>5, <1>6, <1>7, <1>8, <1>9 DEF Next, Shutdown, Abandon

\* Until get_job_status files a request under a key its session has not given it, or
\* commands are lost as one cannot be packed, handle h is the h-th submission's; and
\* unless a submission was refused, so is job h, and every answer is of the request
\* that shows it.
THEOREM OrderedHolds == Spec => []Ordered
  <1>1. ASSUME TypeOK, ~misfiled => Submissions, Ordered, Next PROVE Ordered'
    BY <1>1, NextOrdered, DisturbancesStay DEF Ordered
  <1>2. ASSUME TypeOK, Ordered, UNCHANGED vars PROVE Ordered'
    <2>1. UNCHANGED <<requestVars, sessionVars, boundVars>>
      BY <1>2 DEF vars
    <2>2. (Numbering => Numbering') /\ UNCHANGED <<misfiled, tossed>>
      BY <2>1, QuietNumbering DEF requestVars, boundVars
    <2>3. Unmixed => Unmixed'
      <3>1. UNCHANGED <<answerVars, connected, submits, taken, jobs, rejects>>
        BY <2>1 DEF requestVars, answerVars, sessionVars, boundVars
      <3> QED BY <3>1, SameJobs, SameAnswers DEF Unmixed, answerVars
    <2> QED BY <1>2, <2>2, <2>3 DEF Ordered
  <1> QED BY <1>1, <1>2, InitOrdered, TypeCorrect, SubmissionsHold, PTL DEF Spec

\* Whatever connections are lost or closed, whatever is refused, and in any order:
\* KeyError and InvalidClientState leave the poll loop only for the handle of a request
\* that the application let go, until it files one under an old handle.  Proved until a
\* submission is lost unsent: handles and submissions are no longer in step then.
THEOREM OnlyForgottenAlwaysRaise == Spec => [](~tossed => OnlyForgottenRaise)
  <1>1. TypeOK /\ (~misfiled => Submissions) /\ Ordered => (~tossed => OnlyForgottenRaise)
    <2> SUFFICES ASSUME TypeOK, Submissions, Numbering, NEW c \in Conns, connected[c],
                        inbound[c] # <<>>, ~Accepts(c, Head(inbound[c]))
                 PROVE  /\ Head(inbound[c]).type \in WorkTypes \cup {"STATUS_RES"}
                        /\ \E r \in Requests : /\ ~held[r] /\ conn[r] = c
                                               /\ handle[r] = Head(inbound[c]).handle
      BY DEF OnlyForgottenRaise, Ordered
    <2> DEFINE m == Head(inbound[c])
               r == submits[c][m.handle]
    <2>1. /\ Wired(c) /\ FiledAll(c)
          /\ inbound[c] \in Seq(Replies) /\ jobs[c] \in Seq(Requests)
      BY SessionLengths DEF Numbering
    <2>2. m \in Replies
      BY <2>1, TailFacts
    <2>3. m.type \in WorkTypes \cup {"STATUS_RES"}
      BY <2>1, <2>2, ReplyHandles, HeadIsAwaited DEF Accepts, ReplyTypes
    <2>4. m.type # "ERROR" /\ m.type # "JOB_CREATED"
      BY <2>3 DEF WorkTypes, UpdateTypes, FinalTypes
    <2>5. m.handle \in 1 .. Acked(c)
      <3>1. /\ Acked(c) \in Nat /\ Truthful(inbound[c], Acked(c), jobs[c], finished[c])
        BY <2>1, WiredFacts DEF Wired
      <3>2. m.handle \in 1 .. Len(jobs[c]) /\ m.handle <= Acked(c)
        BY <2>1, <2>4, <3>1, TruthfulTail
      <3> QED BY <3>1, <3>2
    <2>6. m.type \in WorkTypes => ~Silent(inbound[c], m.handle)
      <3>1. Len(inbound[c]) \in Nat /\ m = inbound[c][1] /\ 1 \in 1 .. Len(inbound[c])
        BY <2>1, TailFacts
      <3> QED BY <3>1 DEF Silent
    <2>7. /\ r \in Requests /\ conn[r] = c /\ m.handle \in Handles /\ Filed(c, m.handle)
      <3>1. /\ r \in Requests /\ r \in Elems(submits[c]) /\ m.handle \in Handles
        BY <2>1, <2>5, WiredFacts
      <3> QED BY <2>1, <2>5, <3>1 DEF FiledAll, Submissions, SubmittedOnce
    <2>8. ~held[r]
      <3> SUFFICES ASSUME held[r] PROVE FALSE
        OBVIOUS
      <3>1. RequestOf(c, m) = r /\ r # None
        BY <2>7, ConstantsAssumption DEF Filed, RequestOf
      <3>2. m.type \in WorkTypes => state[r] = "CREATED"
        BY <2>6, <2>7 DEF Filed, Settled
      <3> QED BY <2>3, <3>1, <3>2 DEF Accepts
    <2> QED BY <2>3, <2>7, <2>8 DEF Filed
  <1> QED BY <1>1, TypeCorrect, SubmissionsHold, OrderedHolds, PTL

\* Only a refused submission, one lost unsent, or a status asked for by an old handle
\* ever gives a request what was said of another's job.
THEOREM AnswersAlwaysUnmixed == Spec => []AnswersUnmixed
  <1>1. Ordered => AnswersUnmixed
    BY DEF Ordered, Undisturbed, Unmixed, AnswersUnmixed
  <1> QED BY <1>1, OrderedHolds, PTL

-----------------------------------------------------------------------------
(***************************************************************************)
(* The matching by order.                                                  *)
(***************************************************************************)

\* What Numbering and Unmixed say of one live session whose server refused nothing.
LEMMA SessionCorrelated ==
    ASSUME TypeOK, Numbering, NEW c \in Conns, JobsInOrder(c), connected[c]
    PROVE  /\ Correlated(c)
           /\ \A h \in Keys : registered[c][h] # None =>
                 h \in 1 .. taken[c] /\ jobs[c][h] = registered[c][h]
  <1>1. /\ EndOf(awaiting[c], submits[c])
        /\ Acked(c) \in Nat /\ Acked(c) = Len(submits[c]) - Len(awaiting[c])
        /\ Len(jobs[c]) \in Nat /\ taken[c] <= Len(submits[c]) /\ Acked(c) <= Len(jobs[c])
        /\ Len(jobs[c]) <= MaxHandle
        /\ CreatedBetween(inbound[c], Acked(c), Len(jobs[c]))
        /\ Truthful(inbound[c], Acked(c), jobs[c], finished[c])
        /\ FiledAll(c)
    BY WiredFacts DEF Numbering, Wired
  <1>2. /\ Len(jobs[c]) = taken[c]
        /\ \A h \in 1 .. taken[c] : jobs[c][h] = submits[c][h]
    BY DEF JobsInOrder
  <1>3. \A h \in 1 .. Acked(c) : h \in 1 .. taken[c]
    <2>1. Acked(c) \in Nat /\ taken[c] \in Nat /\ Acked(c) <= taken[c]
      BY <1>1, <1>2
    <2> QED BY <2>1
  <1>4. QueueIsUnacked(c)
    BY <1>1 DEF QueueIsUnacked, EndOf
  <1>5. JobsAreSubmitted(c)
    BY <1>1, <1>2 DEF JobsAreSubmitted
  <1>6. CreatedInOrder(c)
    BY <1>1, <1>2 DEF CreatedInOrder, IsCreated, CreatedBetween, Created
  <1>7. WireIsTruthful(c)
    BY <1>1, <1>2, <1>3 DEF WireIsTruthful, Truthful, Tells, FiledAll
  <1>8. \A h \in Keys : registered[c][h] # None =>
            h \in 1 .. taken[c] /\ jobs[c][h] = registered[c][h]
    BY <1>1, <1>2, <1>3 DEF FiledAll
  <1> QED BY <1>4, <1>5, <1>6, <1>7, <1>8 DEF Correlated

\* While no submission is refused or lost unsent and no request filed under an old
\* handle, every handle in handle_to_request_map names the job that the server
\* created for the request it maps to: over any loss of connections, closing,
\* forgetting and resubmission.
THEOREM HandlesAlwaysMatch == Spec => []HandlesMatch
  <1>1. TypeOK /\ Ordered => HandlesMatch
    <2> SUFFICES ASSUME TypeOK, Numbering, Unmixed, rejects = 0,
                        NEW c \in Conns, NEW h \in Keys,
                        connected[c], registered[c][h] # None
                 PROVE  h \in DOMAIN jobs[c] /\ jobs[c][h] = registered[c][h]
      BY DEF Ordered, Undisturbed, HandlesMatch, HandlesInOrder
    <2>1. JobsInOrder(c)
      BY DEF Unmixed
    <2>2. h \in 1 .. taken[c] /\ jobs[c][h] = registered[c][h]
      BY <2>1, SessionCorrelated
    <2>3. DOMAIN jobs[c] = 1 .. taken[c]
      BY <2>1, SessionLengths DEF JobsInOrder
    <2> QED BY <2>2, <2>3
  <1> QED BY <1>1, TypeCorrect, OrderedHolds, PTL

\* Why the matching by order is right: while nothing mixes requests up and every loss
\* of a connection is told to its handler, the queue is the unanswered end of what the
\* session submitted, the jobs are its beginning, and the wire carries the JOB_CREATEDs
\* between the two.
THEOREM Correlation == Spec => []CorrelationInv
  <1>1. TypeOK /\ (~misfiled => Submissions) /\ Ordered => CorrelationInv
    <2> SUFFICES ASSUME TypeOK, Submissions, Numbering, Unmixed, rejects = 0, closings = 0
                 PROVE  /\ \A c \in Conns : Correlated(c) /\ RegisteredHere(c) /\ AwaitedHere(c)
                        /\ \A r \in Requests : SettledIsRegistered(r)
                        /\ AnswersAreOwn
      BY DEF Ordered, Undisturbed, CorrelationInv
    <2>1. AnswersAreOwn /\ \A c \in Conns : JobsInOrder(c)
      BY DEF Unmixed
    <2>2. ASSUME NEW c \in Conns PROVE Correlated(c)
      BY <2>1, SessionCorrelated DEF Correlated
    <2>3. ASSUME NEW c \in Conns PROVE RegisteredHere(c)
      <3> SUFFICES ASSUME NEW h \in Keys, registered[c][h] # None
                   PROVE  /\ connected[c]
                          /\ h \in 1 .. taken[c] /\ jobs[c][h] = registered[c][h]
                          /\ conn[registered[c][h]] = c
                          /\ state[registered[c][h]] \in Settled
        BY DEF RegisteredHere
      <3>1. /\ conn[registered[c][h]] = c /\ state[registered[c][h]] \in Settled
            /\ connected[c]
        BY DEF Submissions, RegisteredSettled
      <3> QED BY <2>1, <3>1, SessionCorrelated
    <2>4. ASSUME NEW c \in Conns PROVE AwaitedHere(c)
      BY DEF AwaitedHere, Submissions, AwaitedOnce, Elems, Distinct
    <2>5. ASSUME NEW r \in Requests PROVE SettledIsRegistered(r)
      <3> SUFFICES ASSUME held[r], state[r] \in Settled
                   PROVE  /\ conn[r] \in Conns /\ handle[r] \in Handles
                          /\ registered[conn[r]][handle[r]] = r
        BY DEF SettledIsRegistered
      <3>1. PICK c \in Conns : /\ conn[r] = c /\ connected[c]
                               /\ handle[r] \in 1 .. Acked(c) /\ submits[c][handle[r]] = r
        BY DEF Numbering, SettledHere
      <3>2. handle[r] \in Handles /\ Filed(c, handle[r])
        BY <3>1, WiredFacts DEF Numbering, FiledAll
      <3> QED BY <3>1, <3>2 DEF Filed
    <2> QED BY <2>1, <2>2, <2>3, <2>4, <2>5
  <1> QED BY <1>1, TypeCorrect, SubmissionsHold, OrderedHolds, PTL
=============================================================================
