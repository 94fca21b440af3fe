---------------------------- MODULE ClientHandler ----------------------------
(***************************************************************************)
(* The client's request state machine: GearmanClientCommandHandler         *)
(* (client_handler.py), the part of GearmanClient and                      *)
(* GearmanConnectionManager that feeds it (send_job_request,               *)
(* establish_connection, handle_error, shutdown, get_job_statuses), what   *)
(* becomes of queued commands in GearmanConnection when one cannot be      *)
(* packed, and a job server at the far end of every connection.            *)
(*                                                                         *)
(* A request is submitted on a connection, waits in requests_awaiting_     *)
(* handles for its JOB_CREATED, is then registered under the handle the    *)
(* server chose, and receives everything the server says of that handle.   *)
(* Nothing in a SUBMIT_JOB is echoed in JOB_CREATED: the handler matches   *)
(* the two by order alone.                                                 *)
(*                                                                         *)
(* One session is the life of one handler object, from connect() to the    *)
(* next connect() of the same connection.  Handles are numbered from 1 in  *)
(* every session, as by a server that restarts its count, so that an       *)
(* answer of an old session would be mistaken for one of the new if the    *)
(* code let it through.  The payload of an answer is the request its job   *)
(* was created for.                                                        *)
(***************************************************************************)
EXTENDS Naturals, Sequences

CONSTANTS
    Requests,       \* GearmanJobRequest objects of the application
    Conns,          \* GearmanConnection objects, one per job server
    None,           \* "no request", "no connection", Python's None
    MaxAttempts,    \* max_connection_attempts of every request
    MaxHandle,      \* bound: jobs a server creates in one session
    MaxUpdates,     \* bound: WORK_DATA/WARNING/STATUS/EXCEPTION in all
    MaxStatus,      \* bound: get_job_status calls
    MaxRejects,     \* bound: submissions a server answers with ERROR
    MaxClosings,    \* bound: connections closed without telling the handler
    Unpackable,     \* the requests whose SUBMIT_JOB cannot be packed
    MayForget,      \* does the application drop request objects early?
    Py3             \* Python 3: the wire yields bytes, which equal no str

ASSUME ConstantsAssumption ==
    /\ None \notin Requests
    /\ None \notin Conns
    /\ None \notin Nat
    /\ MaxAttempts \in Nat
    /\ MaxHandle \in Nat
    /\ MaxUpdates \in Nat
    /\ MaxStatus \in Nat
    /\ MaxRejects \in Nat
    /\ MaxClosings \in Nat
    /\ Unpackable \subseteq Requests
    /\ MayForget \in BOOLEAN
    /\ Py3 \in BOOLEAN

JobStates == {"UNKNOWN", "PENDING", "CREATED", "FAILED", "COMPLETE"}
Terminal  == {"FAILED", "COMPLETE"}
Handles   == 1 .. MaxHandle

\* What handle_to_request_map may be keyed by: job.handle is None at first.
Keys == Handles \cup {None}

UpdateTypes == {"WORK_DATA", "WORK_WARNING", "WORK_STATUS", "WORK_EXCEPTION"}
FinalTypes  == {"WORK_COMPLETE", "WORK_FAIL"}
WorkTypes   == UpdateTypes \cup FinalTypes
ReplyTypes  == WorkTypes \cup {"JOB_CREATED", "STATUS_RES"}

\* A command from the server: the handle it is about, the request whose job it
\* speaks of, and what STATUS_RES says in its known field.  ERROR has none, and
\* of a handle the server did not give STATUS_RES speaks of no job.
ErrorReply == [type |-> "ERROR", handle |-> 0, data |-> None, known |-> FALSE]
Replies == [type : ReplyTypes, handle : Handles, data : Requests, known : BOOLEAN]
             \cup [type : {"STATUS_RES"}, handle : Handles, data : {None}, known : {FALSE}]
             \cup {ErrorReply}

NoStatus == [fresh |-> FALSE, known |-> FALSE, of |-> None]
Statuses == [fresh : BOOLEAN, known : BOOLEAN, of : Requests \cup {None}]

VARIABLES
    \* GearmanJobRequest
    state,            \* [Requests -> JobStates]
    attempts,         \* connection_attempts
    handle,           \* job.handle
    conn,             \* job.connection
    result,           \* result, as the request it is the result of
    exception,        \* exception, likewise
    data_updates,     \* data_updates, likewise
    warning_updates,  \* warning_updates, likewise
    status,           \* status; fresh: received since the last get_job_status
    held,             \* the application still refers to the request
    \* GearmanConnection and GearmanClientCommandHandler
    connected,        \* connected
    mapped,           \* the keys of connection_to_handler_map
    awaiting,         \* requests_awaiting_handles of the connection's handler
    registered,       \* handle_to_request_map of the connection's handler
    stalled,          \* all that arrived was read, and fetch_commands left some of it
    \* the two directions of the connection, and the server behind it
    submits,          \* the SUBMIT_JOBs of the session but for those tossed
    taken,            \* how many of them the server has answered
    asked,            \* the handles of GET_STATUS not yet answered or tossed
    inbound,          \* commands sent by the server, not yet handled
    jobs,             \* the request each job of the session was created for
    finished,         \* the jobs the server has reported the end of
    \* the bounds
    updates, statusCalls, rejects, closings,
    \* history variables: no action reads them
    misfiled,         \* get_job_status has filed a request under a key that its
                      \* session had not given it
    tossed            \* commands were popped and lost as one could not be packed

requestVars == <<state, attempts, handle, conn, result, exception,
                 data_updates, warning_updates, status, held>>
sessionVars == <<connected, mapped, awaiting, registered, stalled, submits, taken,
                 asked, inbound, jobs, finished>>
boundVars   == <<updates, statusCalls, rejects, closings, misfiled, tossed>>
vars        == <<requestVars, sessionVars, boundVars>>

answerVars  == <<result, exception, data_updates, warning_updates, status>>
serverVars  == <<taken, jobs, finished>>
linkVars    == <<connected, mapped>>

NoRequests == [h \in Keys |-> None]

RequestsOK ==
    /\ state \in [Requests -> JobStates]
    /\ attempts \in [Requests -> Nat]
    /\ handle \in [Requests -> Keys]
    /\ conn \in [Requests -> Conns \cup {None}]
    /\ result \in [Requests -> Requests \cup {None}]
    /\ exception \in [Requests -> Requests \cup {None}]
    /\ data_updates \in [Requests -> Seq(Requests)]
    /\ warning_updates \in [Requests -> Seq(Requests)]
    /\ status \in [Requests -> Statuses]
    /\ held \in [Requests -> BOOLEAN]

SessionsOK ==
    /\ connected \in [Conns -> BOOLEAN]
    /\ mapped \in SUBSET Conns
    /\ awaiting \in [Conns -> Seq(Requests)]
    /\ registered \in [Conns -> [Keys -> Requests \cup {None}]]
    /\ stalled \in [Conns -> BOOLEAN]
    /\ submits \in [Conns -> Seq(Requests)]
    /\ taken \in [Conns -> Nat]
    /\ asked \in [Conns -> Seq(Keys)]
    /\ inbound \in [Conns -> Seq(Replies)]
    /\ jobs \in [Conns -> Seq(Requests)]
    /\ finished \in [Conns -> SUBSET Handles]

BoundsOK ==
    /\ updates \in Nat /\ statusCalls \in Nat
    /\ rejects \in Nat /\ closings \in Nat
    /\ misfiled \in BOOLEAN /\ tossed \in BOOLEAN

\* Every variable holds values of its kind; in particular no request receives
\* data of a command that carries none.
TypeOK == RequestsOK /\ SessionsOK /\ BoundsOK

Init ==
    /\ state = [r \in Requests |-> "UNKNOWN"]
    /\ attempts = [r \in Requests |-> 0]
    /\ handle = [r \in Requests |-> None]
    /\ conn = [r \in Requests |-> None]
    /\ result = [r \in Requests |-> None]
    /\ exception = [r \in Requests |-> None]
    /\ data_updates = [r \in Requests |-> <<>>]
    /\ warning_updates = [r \in Requests |-> <<>>]
    /\ status = [r \in Requests |-> NoStatus]
    /\ held = [r \in Requests |-> TRUE]
    /\ connected = [c \in Conns |-> FALSE]
    /\ mapped = {}
    /\ awaiting = [c \in Conns |-> <<>>]
    /\ registered = [c \in Conns |-> NoRequests]
    /\ stalled = [c \in Conns |-> FALSE]
    /\ submits = [c \in Conns |-> <<>>]
    /\ taken = [c \in Conns |-> 0]
    /\ asked = [c \in Conns |-> <<>>]
    /\ inbound = [c \in Conns |-> <<>>]
    /\ jobs = [c \in Conns |-> <<>>]
    /\ finished = [c \in Conns |-> {}]
    /\ updates = 0 /\ statusCalls = 0 /\ rejects = 0 /\ closings = 0
    /\ misfiled = FALSE /\ tossed = FALSE

-----------------------------------------------------------------------------
(***************************************************************************)
(* Calls of the application.                                               *)
(***************************************************************************)

\* current_request.state = JOB_PENDING, after the queue and the command.
MarkSubmitted(r, c) ==
    /\ state' = [state EXCEPT ![r] = "PENDING"]
    /\ attempts' = [attempts EXCEPT ![r] = @ + 1]
    /\ conn' = [conn EXCEPT ![r] = c]

\* GearmanClient.send_job_request on a connection that is already up.
SendOnOpenConnection(r, c) ==
    /\ connected[c]
    /\ MarkSubmitted(r, c)
    /\ awaiting' = [awaiting EXCEPT ![c] = Append(@, r)]
    /\ submits' = [submits EXCEPT ![c] = Append(@, r)]
    /\ UNCHANGED <<linkVars, registered, stalled, taken, asked, inbound, jobs, finished>>

\* A mistake to catch: a reconnected connection keeps its old handler.
SendOnOldHandler(r, c) ==
    /\ ~connected[c]
    /\ MarkSubmitted(r, c)
    /\ connected' = [connected EXCEPT ![c] = TRUE]
    /\ mapped' = mapped \cup {c}
    /\ stalled' = [stalled EXCEPT ![c] = FALSE]
    /\ awaiting' = [awaiting EXCEPT ![c] = Append(@, r)]
    /\ submits' = [submits EXCEPT ![c] = <<r>>]
    /\ taken' = [taken EXCEPT ![c] = 0]
    /\ asked' = [asked EXCEPT ![c] = <<>>]
    /\ inbound' = [inbound EXCEPT ![c] = <<>>]
    /\ jobs' = [jobs EXCEPT ![c] = <<>>]
    /\ finished' = [finished EXCEPT ![c] = {}]
    /\ UNCHANGED registered

\* GearmanClient.send_job_request on a connection that establish_connection has
\* to connect first: connect() resets the buffers, a new handler takes over.
SendOnNewConnection(r, c) ==
    /\ ~connected[c]
    /\ MarkSubmitted(r, c)
    /\ connected' = [connected EXCEPT ![c] = TRUE]
    /\ mapped' = mapped \cup {c}
    /\ stalled' = [stalled EXCEPT ![c] = FALSE]
    /\ awaiting' = [awaiting EXCEPT ![c] = <<r>>]
    /\ registered' = [registered EXCEPT ![c] = NoRequests]
    /\ submits' = [submits EXCEPT ![c] = <<r>>]
    /\ taken' = [taken EXCEPT ![c] = 0]
    /\ asked' = [asked EXCEPT ![c] = <<>>]
    /\ inbound' = [inbound EXCEPT ![c] = <<>>]
    /\ jobs' = [jobs EXCEPT ![c] = <<>>]
    /\ finished' = [finished EXCEPT ![c] = {}]

\* A mistake to catch: no assertion that the request is not in flight.
SendAnyRequest(r, c) ==
    /\ held[r]
    /\ attempts[r] < MaxAttempts
    /\ SendOnOpenConnection(r, c) \/ SendOnNewConnection(r, c)
    /\ UNCHANGED <<handle, answerVars, held, boundVars>>

\* Which connection takes the request is the rotation's choice; ClientPoll
\* models the rotation.  Refusals (no attempts left, no server reachable) raise
\* before they change anything.
SendJobRequest(r, c) ==
    /\ held[r]
    /\ state[r] = "UNKNOWN"
    /\ attempts[r] < MaxAttempts
    /\ SendOnOpenConnection(r, c) \/ SendOnNewConnection(r, c)
    /\ UNCHANGED <<handle, answerVars, held, boundVars>>

\* get_job_statuses for one request: whatever its state and its handle, it is filed
\* under that handle in the handler of the connection it was last submitted on,
\* and a GET_STATUS is queued there, even on a connection that is closed.
GetJobStatus(r) ==
    LET c == conn[r] IN
    /\ held[r]
    /\ c \in mapped
    /\ statusCalls < MaxStatus
    /\ statusCalls' = statusCalls + 1
    /\ status' = [status EXCEPT ![r].fresh = FALSE]
    /\ registered' = [registered EXCEPT ![c][handle[r]] = r]
    /\ asked' = [asked EXCEPT ![c] = Append(@, handle[r])]
    /\ misfiled' = (misfiled \/ registered[c][handle[r]] # r)
    /\ UNCHANGED <<state, attempts, handle, conn, result, exception, data_updates,
                   warning_updates, held, linkVars, awaiting, stalled, submits,
                   inbound, serverVars, updates, rejects, closings, tossed>>

\* ... or, if handle_error dropped that handler or the request was never submitted,
\* the look-up of it raises KeyError when last_time_received is already set.
GetStatusOfLost(r) ==
    /\ held[r]
    /\ conn[r] \notin mapped
    /\ status' = [status EXCEPT ![r].fresh = FALSE]
    /\ UNCHANGED <<state, attempts, handle, conn, result, exception,
                   data_updates, warning_updates, held, sessionVars, boundVars>>

\* The application drops its last reference.  handle_to_request_map is a
\* WeakValueDictionary: its entries for r go at once; requests_awaiting_handles
\* is not weak and keeps r.
Forget(r) ==
    /\ MayForget
    /\ held[r]
    /\ state[r] # "UNKNOWN"
    /\ held' = [held EXCEPT ![r] = FALSE]
    /\ registered' = [c \in Conns |-> [h \in Keys |->
                        IF registered[c][h] = r THEN None ELSE registered[c][h]]]
    /\ UNCHANGED <<state, attempts, handle, conn, answerVars, linkVars, awaiting,
                   stalled, submits, asked, inbound, serverVars, boundVars>>

\* close() of the connections of D.  Their handlers are not told and stay in
\* connection_to_handler_map: what they track stays as it is, for good, since the
\* next connect() of the connection puts a new handler in their place.
CloseUntold(D) ==
    /\ closings < MaxClosings
    /\ closings' = closings + 1
    /\ connected' = [c \in Conns |-> connected[c] /\ c \notin D]
    /\ inbound' = [c \in Conns |-> IF c \in D THEN <<>> ELSE inbound[c]]
    /\ stalled' = [c \in Conns |-> stalled[c] /\ c \notin D]
    /\ UNCHANGED <<requestVars, mapped, awaiting, registered, submits, asked,
                   serverVars, updates, statusCalls, rejects, misfiled, tossed>>

\* GearmanConnectionManager.shutdown.
Shutdown ==
    /\ \E c \in Conns : connected[c]
    /\ CloseUntold(Conns)

-----------------------------------------------------------------------------
(***************************************************************************)
(* Commands from the server: one recv_* callback each.                     *)
(***************************************************************************)

\* handle_to_request_map[job_handle]
RequestOf(c, m) == registered[c][m.handle]

\* Would the callback for m return, or raise KeyError or InvalidClientState?
Accepts(c, m) ==
    \/ m.type = "ERROR"
    \/ /\ m.type = "JOB_CREATED"
       /\ awaiting[c] # <<>>
       /\ state[Head(awaiting[c])] = "PENDING"
    \/ /\ m.type = "STATUS_RES"
       /\ RequestOf(c, m) # None
    \/ /\ m.type \in WorkTypes
       /\ RequestOf(c, m) # None
       /\ state[RequestOf(c, m)] = "CREATED"

\* fetch_commands takes the next command, of the given type, and accepts it.
Fetch(c, type) ==
    /\ connected[c]
    /\ inbound[c] # <<>> /\ ~stalled[c]
    /\ Head(inbound[c]).type = type
    /\ Accepts(c, Head(inbound[c]))
    /\ inbound' = [inbound EXCEPT ![c] = Tail(@)]

\* A mistake to catch: the newest submission is taken to be the answered one.
RecvJobCreatedNewest(c) ==
    LET m == Head(inbound[c])
        n == Len(awaiting[c])
        r == awaiting[c][n]
    IN  /\ Fetch(c, "JOB_CREATED")
        /\ awaiting' = [awaiting EXCEPT ![c] = SubSeq(@, 1, n - 1)]
        /\ handle' = [handle EXCEPT ![r] = m.handle]
        /\ state' = [state EXCEPT ![r] = "CREATED"]
        /\ registered' = IF held[r]
                         THEN [registered EXCEPT ![c][m.handle] = r]
                         ELSE registered
        /\ UNCHANGED <<attempts, conn, answerVars, held, linkVars, stalled,
                       submits, asked, serverVars, boundVars>>

\* A mistake to catch: the accepted request is not registered.
RecvJobCreatedUnregistered(c) ==
    LET r == Head(awaiting[c])
    IN  /\ Fetch(c, "JOB_CREATED")
        /\ awaiting' = [awaiting EXCEPT ![c] = Tail(@)]
        /\ handle' = [handle EXCEPT ![r] = Head(inbound[c]).handle]
        /\ state' = [state EXCEPT ![r] = "CREATED"]
        /\ UNCHANGED <<attempts, conn, answerVars, held, linkVars, stalled,
                       submits, registered, asked, serverVars, boundVars>>

RecvJobCreated(c) ==
    LET m == Head(inbound[c])
        r == Head(awaiting[c])
    IN  /\ Fetch(c, "JOB_CREATED")
        /\ awaiting' = [awaiting EXCEPT ![c] = Tail(@)]
        /\ handle' = [handle EXCEPT ![r] = m.handle]
        /\ state' = [state EXCEPT ![r] = "CREATED"]
        /\ registered' = IF held[r]
                         THEN [registered EXCEPT ![c][m.handle] = r]
                         ELSE registered
        /\ UNCHANGED <<attempts, conn, answerVars, held, linkVars, stalled,
                       submits, asked, serverVars, boundVars>>

\* recv_work_data, recv_work_warning, recv_work_status, recv_work_exception:
\* what the request has received changes, its state does not.
RecvWorkUpdate(c) ==
    LET m == Head(inbound[c])
        r == RequestOf(c, m)
    IN  /\ \/ /\ Fetch(c, "WORK_DATA")
              /\ data_updates' = [data_updates EXCEPT ![r] = Append(@, m.data)]
              /\ UNCHANGED <<exception, warning_updates, status>>
           \/ /\ Fetch(c, "WORK_WARNING")
              /\ warning_updates' = [warning_updates EXCEPT ![r] = Append(@, m.data)]
              /\ UNCHANGED <<exception, data_updates, status>>
           \/ /\ Fetch(c, "WORK_STATUS")
              /\ status' = [status EXCEPT
                              ![r] = [fresh |-> TRUE, known |-> TRUE, of |-> m.data]]
              /\ UNCHANGED <<exception, data_updates, warning_updates>>
           \/ /\ Fetch(c, "WORK_EXCEPTION")
              /\ exception' = [exception EXCEPT ![r] = m.data]
              /\ UNCHANGED <<data_updates, warning_updates, status>>
        /\ UNCHANGED <<state, attempts, handle, conn, result, held, linkVars, awaiting,
                       registered, stalled, submits, asked, serverVars, boundVars>>

\* A mistake to catch: a finished request leaves handle_to_request_map.
RecvWorkCompleteAndDrop(c) ==
    LET m == Head(inbound[c])
        r == RequestOf(c, m)
    IN  /\ Fetch(c, "WORK_COMPLETE")
        /\ result' = [result EXCEPT ![r] = m.data]
        /\ state' = [state EXCEPT ![r] = "COMPLETE"]
        /\ registered' = [registered EXCEPT ![c][m.handle] = None]
        /\ UNCHANGED <<attempts, handle, conn, exception, data_updates,
                       warning_updates, status, held, linkVars, awaiting, stalled,
                       submits, asked, serverVars, boundVars>>

RecvWorkComplete(c) ==
    LET m == Head(inbound[c])
        r == RequestOf(c, m)
    IN  /\ Fetch(c, "WORK_COMPLETE")
        /\ result' = [result EXCEPT ![r] = m.data]
        /\ state' = [state EXCEPT ![r] = "COMPLETE"]
        /\ UNCHANGED <<attempts, handle, conn, exception, data_updates,
                       warning_updates, status, held, linkVars, awaiting,
                       registered, stalled, submits, asked, serverVars, boundVars>>

\* A mistake to catch: WORK_FAIL is read and the request left as it is.
RecvWorkFailUnmarked(c) ==
    /\ Fetch(c, "WORK_FAIL")
    /\ UNCHANGED <<requestVars, linkVars, awaiting, registered, stalled, submits,
                   asked, serverVars, boundVars>>

RecvWorkFail(c) ==
    LET r == RequestOf(c, Head(inbound[c]))
    IN  /\ Fetch(c, "WORK_FAIL")
        /\ state' = [state EXCEPT ![r] = "FAILED"]
        /\ UNCHANGED <<attempts, handle, conn, answerVars, held, linkVars, awaiting,
                       registered, stalled, submits, asked, serverVars, boundVars>>

\* known == '1': true of the str Python 2 reads, never of Python 3's bytes.
DecodeKnown(b) == b /\ ~Py3

RecvStatusRes(c) ==
    LET m == Head(inbound[c])
        r == RequestOf(c, m)
    IN  /\ Fetch(c, "STATUS_RES")
        /\ status' = [status EXCEPT
                        ![r] = [fresh |-> TRUE, known |-> DecodeKnown(m.known),
                                of |-> m.data]]
        /\ UNCHANGED <<state, attempts, handle, conn, result, exception,
                       data_updates, warning_updates, held, linkVars, awaiting,
                       registered, stalled, submits, asked, serverVars, boundVars>>

\* fetch_commands stops before it has handled all that was read: the rest is left
\* until the connection is readable again, which it is at once if not all of what
\* arrived was read.
HoldUp(c) ==
    \E rest \in {FALSE, Len(inbound[c]) > 1} : stalled' = [stalled EXCEPT ![c] = rest]

\* recv_error and on_gearman_error: logged, and fetch_commands is told to stop.
RecvError(c) ==
    /\ Fetch(c, "ERROR")
    /\ HoldUp(c)
    /\ UNCHANGED <<requestVars, linkVars, awaiting, registered, submits, asked,
                   serverVars, boundVars>>

\* The callback raises out of fetch_commands.  The command is gone, and so is
\* the request that recv_job_created had already taken off its queue.
RecvRaises(c) ==
    LET m == Head(inbound[c])
    IN  /\ connected[c]
        /\ inbound[c] # <<>> /\ ~stalled[c]
        /\ ~Accepts(c, m)
        /\ inbound' = [inbound EXCEPT ![c] = Tail(@)]
        /\ HoldUp(c)
        /\ awaiting' = IF m.type = "JOB_CREATED" /\ awaiting[c] # <<>>
                       THEN [awaiting EXCEPT ![c] = Tail(@)]
                       ELSE awaiting
        /\ UNCHANGED <<requestVars, linkVars, registered, submits, asked,
                       serverVars, boundVars>>

\* Is a command queued that cannot be packed?
Unsendable(c) == \/ \E i \in taken[c] + 1 .. Len(submits[c]) : submits[c][i] \in Unpackable
                 \/ \E i \in 1 .. Len(asked[c]) : asked[c][i] = None

\* q without its elements i to j.
Cut(q, i, j) == SubSeq(q, 1, i - 1) \o SubSeq(q, j + 1, Len(q))

\* send_commands_to_buffer pops what was queued since the last write, the first m
\* SUBMIT_JOBs and n GET_STATUS being written already, up to the first command
\* that cannot be packed.  It raises, and all that it popped is gone.
PackFails(c) ==
    LET Bad(j)      == {i \in 1 .. j : submits[c][i] \in Unpackable}
        Nameless(k) == {i \in 1 .. k : asked[c][i] = None}
    IN  /\ connected[c]
        /\ \E j \in 0 .. Len(submits[c]), k \in 0 .. Len(asked[c]) :
           \E m \in taken[c] .. j, n \in 0 .. k :
              /\ \/ Bad(j) = {j} /\ m < j /\ Nameless(k) = {}
                 \/ Bad(j) = {} /\ Nameless(k) = {k} /\ n < k
              /\ submits' = [submits EXCEPT ![c] = Cut(@, m + 1, j)]
              /\ asked' = [asked EXCEPT ![c] = Cut(@, n + 1, k)]
        /\ tossed' = TRUE
        /\ UNCHANGED <<requestVars, linkVars, awaiting, registered, stalled, inbound,
                       serverVars, updates, statusCalls, rejects, closings, misfiled>>

\* Two mistakes to catch: on_io_error forgets the requests that await a handle,
\* or marks those of every connection.
TrackedRegistered(c) == {registered[c][h] : h \in Keys} \ {None}
TrackedAnywhere(c) ==
    {awaiting[c][i] : i \in DOMAIN awaiting[c]}
        \cup ({registered[d][h] : d \in Conns, h \in Keys} \ {None})

\* The requests on_io_error finds: those awaiting a handle and those registered.
Tracked(c) ==
    {awaiting[c][i] : i \in DOMAIN awaiting[c]}
        \cup ({registered[c][h] : h \in Keys} \ {None})

\* A mistake to catch: a lost request is left without a state.
HandleErrorUnset(c) ==
    /\ connected[c]
    /\ state' = [r \in Requests |-> IF r \in Tracked(c) THEN None ELSE state[r]]
    /\ connected' = [connected EXCEPT ![c] = FALSE]
    /\ mapped' = mapped \ {c}
    /\ stalled' = [stalled EXCEPT ![c] = FALSE]
    /\ awaiting' = [awaiting EXCEPT ![c] = <<>>]
    /\ registered' = [registered EXCEPT ![c] = NoRequests]
    /\ submits' = [submits EXCEPT ![c] = <<>>]
    /\ taken' = [taken EXCEPT ![c] = 0]
    /\ asked' = [asked EXCEPT ![c] = <<>>]
    /\ inbound' = [inbound EXCEPT ![c] = <<>>]
    /\ jobs' = [jobs EXCEPT ![c] = <<>>]
    /\ finished' = [finished EXCEPT ![c] = {}]
    /\ UNCHANGED <<attempts, handle, conn, answerVars, held, boundVars>>

\* handle_error: the handler is dropped from the maps, on_io_error marks every
\* request it tracks, and close() resets the connection.
HandleError(c) ==
    /\ connected[c]
    /\ state' = [r \in Requests |->
                    IF r \in Tracked(c) THEN "UNKNOWN" ELSE state[r]]
    /\ connected' = [connected EXCEPT ![c] = FALSE]
    /\ mapped' = mapped \ {c}
    /\ stalled' = [stalled EXCEPT ![c] = FALSE]
    /\ awaiting' = [awaiting EXCEPT ![c] = <<>>]
    /\ registered' = [registered EXCEPT ![c] = NoRequests]
    /\ submits' = [submits EXCEPT ![c] = <<>>]
    /\ taken' = [taken EXCEPT ![c] = 0]
    /\ asked' = [asked EXCEPT ![c] = <<>>]
    /\ inbound' = [inbound EXCEPT ![c] = <<>>]
    /\ jobs' = [jobs EXCEPT ![c] = <<>>]
    /\ finished' = [finished EXCEPT ![c] = {}]
    /\ UNCHANGED <<attempts, handle, conn, answerVars, held, boundVars>>

\* A connection dies in a poll round that some other exception ends: the round
\* catches ConnectionError only, and does not get to handle_error.
Abandon(c) ==
    /\ connected[c]
    /\ CloseUntold({c})

-----------------------------------------------------------------------------
(***************************************************************************)
(* The job server, external to the repository: it answers submissions in   *)
(* order, and speaks of a job only after JOB_CREATED and up to its end.    *)
(* It is sent nothing that cannot be packed.                               *)
(***************************************************************************)

Reply(c, m) ==
    /\ inbound' = [inbound EXCEPT ![c] = Append(@, m)]
    /\ stalled' = [stalled EXCEPT ![c] = FALSE]

IsSent(c) == taken[c] < Len(submits[c]) /\ submits[c][taken[c] + 1] \notin Unpackable

ServerCreatesJob(c) ==
    LET r == submits[c][taken[c] + 1]
        h == Len(jobs[c]) + 1
    IN  /\ connected[c]
        /\ IsSent(c)
        /\ h \in Handles
        /\ taken' = [taken EXCEPT ![c] = @ + 1]
        /\ jobs' = [jobs EXCEPT ![c] = Append(@, r)]
        /\ Reply(c, [type |-> "JOB_CREATED", handle |-> h, data |-> r, known |-> TRUE])
        /\ UNCHANGED <<requestVars, linkVars, awaiting, registered, submits,
                       asked, finished, boundVars>>

\* A full queue (send_maxqueue) is answered with ERROR in place of JOB_CREATED.
ServerRejectsJob(c) ==
    /\ connected[c]
    /\ IsSent(c)
    /\ rejects < MaxRejects
    /\ rejects' = rejects + 1
    /\ taken' = [taken EXCEPT ![c] = @ + 1]
    /\ Reply(c, ErrorReply)
    /\ UNCHANGED <<requestVars, linkVars, awaiting, registered, submits, asked,
                   jobs, finished, updates, statusCalls, closings, misfiled, tossed>>

ServerUpdates(c, h, type) ==
    /\ connected[c]
    /\ h \in DOMAIN jobs[c]
    /\ h \notin finished[c]
    /\ type \in UpdateTypes
    /\ updates < MaxUpdates
    /\ updates' = updates + 1
    /\ Reply(c, [type |-> type, handle |-> h, data |-> jobs[c][h], known |-> TRUE])
    /\ UNCHANGED <<requestVars, linkVars, awaiting, registered, submits, taken,
                   asked, jobs, finished, statusCalls, rejects, closings, misfiled,
                   tossed>>

ServerFinishes(c, h, type) ==
    /\ connected[c]
    /\ h \in DOMAIN jobs[c]
    /\ h \notin finished[c]
    /\ type \in FinalTypes
    /\ finished' = [finished EXCEPT ![c] = @ \cup {h}]
    /\ Reply(c, [type |-> type, handle |-> h, data |-> jobs[c][h], known |-> FALSE])
    /\ UNCHANGED <<requestVars, linkVars, awaiting, registered, submits, taken,
                   asked, jobs, boundVars>>

ServerAnswersStatus(c) ==
    LET h == Head(asked[c])
    IN  /\ connected[c]
        /\ asked[c] # <<>> /\ h # None
        /\ asked' = [asked EXCEPT ![c] = Tail(@)]
        /\ Reply(c, [type |-> "STATUS_RES", handle |-> h,
                     data |-> IF h \in DOMAIN jobs[c] THEN jobs[c][h] ELSE None,
                     known |-> h \in DOMAIN jobs[c] /\ h \notin finished[c]])
        /\ UNCHANGED <<requestVars, linkVars, awaiting, registered, submits,
                       serverVars, boundVars>>

-----------------------------------------------------------------------------
Receive(c) ==
    \/ RecvJobCreated(c) \/ RecvWorkUpdate(c) \/ RecvWorkComplete(c)
    \/ RecvWorkFail(c) \/ RecvStatusRes(c) \/ RecvError(c) \/ RecvRaises(c)

Server(c) ==
    \/ ServerCreatesJob(c) \/ ServerRejectsJob(c) \/ ServerAnswersStatus(c)
    \/ \E h \in Handles : \/ \E type \in UpdateTypes : ServerUpdates(c, h, type)
                          \/ \E type \in FinalTypes : ServerFinishes(c, h, type)

Next ==
    \/ \E r \in Requests : \/ \E c \in Conns : SendJobRequest(r, c)
                           \/ GetJobStatus(r) \/ GetStatusOfLost(r)
                           \/ Forget(r)
    \/ \E c \in Conns : Receive(c) \/ HandleError(c) \/ PackFails(c) \/ Abandon(c)
                          \/ Server(c)
    \/ Shutdown

Spec == Init /\ [][Next]_vars

\* The application stays in a wait (its poll loop reads what arrives and writes what
\* is queued) and every server answers submissions and ends jobs.
Fairness ==
    \A c \in Conns :
        /\ WF_vars(Receive(c))
        /\ WF_vars(PackFails(c))
        /\ WF_vars(ServerCreatesJob(c))
        /\ WF_vars(\E h \in Handles, type \in FinalTypes : ServerFinishes(c, h, type))

FairSpec == Spec /\ Fairness
-----------------------------------------------------------------------------
(***************************************************************************)
(* What the client promises.                                               *)
(***************************************************************************)

Awaited(c) == {awaiting[c][i] : i \in DOMAIN awaiting[c]}

\* Three things mix requests up, each unlike the losses, retries, shutdowns and
\* forgotten requests that do not: a submission is refused, or lost because a command
\* queued with it cannot be packed, so that a JOB_CREATED goes to another request
\* than it answers; or get_job_status files a request under a handle of an earlier
\* session, over the request that handle now belongs to.
Undisturbed == rejects = 0 /\ ~misfiled /\ ~tossed

\* client_handler.py: "these handles will be returned in the order of submission".
\* Every handle in handle_to_request_map names the job that the server created for
\* the very request it maps to.
HandlesInOrder ==
    \A c \in Conns, h \in Keys :
        connected[c] /\ registered[c][h] # None =>
            h \in DOMAIN jobs[c] /\ jobs[c][h] = registered[c][h]

\* Matching JOB_CREATED to submissions by order alone goes right over any loss of
\* connections and resubmission, until one of the three things happens.
HandlesMatch == Undisturbed => HandlesInOrder

\* Each request shows the result, exception, partial data, warnings and status of
\* its own job only.
AnswersAreOwn ==
    \A r \in Requests :
        /\ result[r] \in {None, r}
        /\ exception[r] \in {None, r}
        /\ status[r].of \in {None, r}
        /\ \A i \in DOMAIN data_updates[r] : data_updates[r][i] = r
        /\ \A i \in DOMAIN warning_updates[r] : warning_updates[r][i] = r

\* No request ever shows an answer of another request's job, whatever is lost,
\* resubmitted, shut down or dropped by the application, until one of the three
\* things happens.
AnswersUnmixed == Undisturbed => AnswersAreOwn

\* JOB_PENDING is never a lie: a request is pending exactly when it stands once
\* in the queue of the live handler it was last submitted to, so that on_io_error
\* will take it out of that state if no JOB_CREATED does.  Not so once a connection
\* was closed without telling its handler (shutdown(), or a round that raised), nor
\* once a request was filed under an old handle: on_io_error then marks it for the
\* loss of a connection it is no longer on.
PendingIsAwaited ==
    closings = 0 /\ ~misfiled =>
    /\ \A r \in Requests : state[r] = "PENDING" =>
            connected[conn[r]] /\ r \in Awaited(conn[r])
    /\ \A c \in Conns : \A i \in DOMAIN awaiting[c] :
            /\ state[awaiting[c][i]] = "PENDING"
            /\ conn[awaiting[c][i]] = c
            /\ \A j \in DOMAIN awaiting[c] :
                   awaiting[c][i] = awaiting[c][j] => i = j

\* KeyError and InvalidClientState escape the poll loop of every wait.  Until a
\* request is filed under an old handle, the callbacks raise them only for the handle
\* of a request the application let go; a refused submission, or one lost unsent,
\* shifts the handles that follow but makes none raise.
OnlyForgottenRaise ==
    \A c \in Conns :
        /\ connected[c] /\ inbound[c] # <<>> /\ ~misfiled
        /\ ~Accepts(c, Head(inbound[c]))
        =>
            /\ Head(inbound[c]).type \in WorkTypes \cup {"STATUS_RES"}
            /\ \E r \in Requests : /\ ~held[r] /\ conn[r] = c
                                   /\ handle[r] = Head(inbound[c]).handle

\* The attempts of a request are spent one at a time: it is submitted again only
\* after the session of its last attempt was lost, so no two live sessions ever
\* hold a submission of the same request, and none holds two.  Once a request was
\* filed under an old handle, the loss of that connection has it submitted again
\* though its job runs on another.
OneLiveSubmission ==
    ~misfiled =>
    \A r \in Requests : \A c, d \in Conns :
        \A i \in DOMAIN submits[c], j \in DOMAIN submits[d] :
            /\ connected[c] /\ connected[d]
            /\ submits[c][i] = r /\ submits[d][j] = r
            => c = d /\ i = j

\* A request that completed or failed leaves that state only by the loss of the
\* connection it ran on, and then as JOB_UNKNOWN; in particular no late or
\* repeated answer ever reopens it.  Again, one that was filed under an old handle
\* may be reopened by the loss of that connection.
TerminalIsStable ==
    [][\A r \in Requests :
          ~misfiled /\ state[r] \in Terminal /\ state'[r] # state[r] =>
              /\ state'[r] = "UNKNOWN"
              /\ connected[conn[r]] /\ ~connected'[conn[r]]]_vars

\* wait_until_jobs_accepted and wait_until_jobs_completed end: a pending request is
\* accepted or found lost, an accepted one completes, fails or is found lost.  Not
\* so of an accepted request the application let go of; nor while what was read
\* stays behind a command whose callback raised; nor once one of the three things
\* above happened or a connection was closed without telling its handler.
Over(r) == \/ state[r] \in Terminal \cup {"UNKNOWN"}
           \/ state[r] = "CREATED" /\ ~held[r]
RequestsEnd ==
    \A r \in Requests :
        ~Over(r) ~> \/ Over(r)
                    \/ stalled[conn[r]]
                    \/ ~Undisturbed \/ closings > 0

\* docs/job.rst on result: "Populated if and only if JOB_COMPLETE".
ResultIffComplete ==
    \A r \in Requests : result[r] # None <=> state[r] = "COMPLETE"

\* docs/job.rst on a status's known field: "Is the server aware of this request?"
\* A STATUS_RES in which the server says it knows the job is recorded so.
KnownIsReported ==
    [][\A c \in Conns :
          /\ RecvStatusRes(c)
          /\ Head(inbound[c]).known
          => status'[RequestOf(c, Head(inbound[c]))].known]_vars

-----------------------------------------------------------------------------
(***************************************************************************)
(* Why the matching by order is right: the inductive invariant.            *)
(***************************************************************************)

Settled == {"CREATED"} \cup Terminal

\* How many submissions of the session have had their JOB_CREATED handled.
Acked(c) == Len(submits[c]) - Len(awaiting[c])

IsCreated(c, i) == inbound[c][i].type = "JOB_CREATED"

\* The queue of the handler is what the session submitted and the handler has
\* not seen accepted, in the order of submission.
QueueIsUnacked(c) ==
    /\ Len(awaiting[c]) <= Len(submits[c])
    /\ \A i \in 1 .. Len(awaiting[c]) : awaiting[c][i] = submits[c][Acked(c) + i]

\* The server has given handles to a prefix of the submissions, in order.
JobsAreSubmitted(c) ==
    /\ Len(jobs[c]) = taken[c]
    /\ Acked(c) <= taken[c]
    /\ taken[c] <= Len(submits[c])
    /\ taken[c] <= MaxHandle
    /\ \A h \in 1 .. taken[c] : jobs[c][h] = submits[c][h]

\* The JOB_CREATEDs on the wire are those between the two, in order, each once.
CreatedInOrder(c) ==
    /\ \A i \in 1 .. Len(inbound[c]) : IsCreated(c, i) => inbound[c][i].handle > Acked(c)
    /\ \A i, j \in 1 .. Len(inbound[c]) :
           IsCreated(c, i) /\ IsCreated(c, j) /\ i < j
               => inbound[c][i].handle < inbound[c][j].handle
    /\ \A h \in 1 .. taken[c] : h > Acked(c) =>
           \E i \in 1 .. Len(inbound[c]) : IsCreated(c, i) /\ inbound[c][i].handle = h

\* Whatever is on the wire speaks of a job that exists, in that job's words, and
\* only such jobs are asked after.
WireIsTruthful(c) ==
    /\ \A i \in 1 .. Len(inbound[c]) : LET m == inbound[c][i] IN
           m.type # "ERROR" => m.handle \in 1 .. taken[c] /\ m.data = jobs[c][m.handle]
    /\ \A i \in 1 .. Len(asked[c]) : asked[c][i] \in 1 .. taken[c]

Correlated(c) ==
    connected[c] => /\ QueueIsUnacked(c) /\ JobsAreSubmitted(c)
                    /\ CreatedInOrder(c) /\ WireIsTruthful(c)

\* A registered request was accepted on this connection, under that handle.
RegisteredHere(c) ==
    \A h \in Keys : LET r == registered[c][h] IN
        r # None => /\ connected[c]
                    /\ h \in 1 .. taken[c] /\ jobs[c][h] = r
                    /\ conn[r] = c /\ state[r] \in Settled

AwaitedHere(c) ==
    \A i \in 1 .. Len(awaiting[c]) :
        /\ connected[c]
        /\ state[awaiting[c][i]] = "PENDING" /\ conn[awaiting[c][i]] = c
        /\ \A j \in 1 .. Len(awaiting[c]) : awaiting[c][i] = awaiting[c][j] => i = j

\* A request the application refers to stays registered from JOB_CREATED to the
\* loss of its connection.
SettledIsRegistered(r) ==
    held[r] /\ state[r] \in Settled =>
        /\ conn[r] \in Conns /\ handle[r] \in Handles
        /\ registered[conn[r]][handle[r]] = r

\* All of this holds while every loss of a connection is told to its handler and
\* none of the three things that mix requests up has happened.
CorrelationInv ==
    /\ TypeOK
    /\ Undisturbed /\ closings = 0 =>
        /\ \A c \in Conns : Correlated(c) /\ RegisteredHere(c) /\ AwaitedHere(c)
        /\ \A r \in Requests : SettledIsRegistered(r)
        /\ AnswersAreOwn
=============================================================================
