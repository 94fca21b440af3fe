----------------------------- MODULE ClientPoll -----------------------------
(***************************************************************************)
(* The waits of GearmanClient (client.py) and the poll loop they share     *)
(* (poll_connections_until_stopped in connection_manager.py), around the   *)
(* request state machine of ClientHandler: which connection a request is   *)
(* sent on, which connections a wait listens to, and how it ends.          *)
(*                                                                         *)
(* A wait runs its callback once, builds connection_map from file          *)
(* descriptors to the connections that are up, and then alternates between *)
(* poll rounds and the callback.  The callback of wait_until_jobs_accepted *)
(* sends every request that is JOB_UNKNOWN, so that it may connect when    *)
(* the map is already built.                                               *)
(*                                                                         *)
(* ClientHandler lets the application and the network act at any time.     *)
(* Here a request is sent, and anything received or found lost, only       *)
(* inside a wait, and a server answers only what was written.  The         *)
(* application keeps its requests and never calls shutdown(): these, and   *)
(* refused submissions, are ClientHandler's.  A connection is closed       *)
(* without its handler being told when it dies in a round that raises.     *)
(***************************************************************************)
EXTENDS ClientHandler, FiniteSets

CONSTANTS
    Background,     \* the requests submitted with background=True
    Fds,            \* file descriptors the process can be given
    MaxCalls,       \* bound: waits the application enters
    MayTimeOut      \* are the waits given a poll_timeout?

ASSUME PollAssumption ==
    /\ IsFiniteSet(Conns)
    /\ Background \subseteq Requests
    /\ None \notin Fds
    /\ MaxCalls \in Nat
    /\ MayTimeOut \in BOOLEAN

Waits  == {"accept", "complete", "status"}
Phases == {"idle", "first", "polling", "callback"}

\* KeyError is that of get_job_statuses; RoundRaised any exception that escapes
\* handle_connection_activity.
Errors == {"ServerUnavailable", "ExceededConnectionAttempts", "KeyError", "RoundRaised"}

\* Orders of connection_list, as random.shuffle may produce them.
Orders == {s \in [1 .. Cardinality(Conns) -> Conns] :
              \A i, j \in DOMAIN s : s[i] = s[j] => i = j}

VARIABLES
    phase,       \* outside a wait, its first callback, its poll, a later callback
    wait,        \* which wait, the last one when idle
    batch,       \* job_requests
    outcome,     \* how the last wait ended
    polled,      \* submitted_connections
    map,         \* connection_map
    fileno,      \* the file descriptor of a connection's last socket
    dirty,       \* the connection has commands that are not yet written
    rotation,    \* request_to_rotating_connection_queue
    timed_out,   \* timed_out of every request
    calls        \* the bound

waitVars == <<phase, wait, batch, outcome, polled, map, fileno, dirty, rotation,
              timed_out, calls>>
pollVars == <<vars, waitVars>>

PollTypeOK ==
    /\ phase \in Phases
    /\ wait \in Waits \cup {None}
    /\ batch \in SUBSET Requests
    /\ outcome \in {"none", "returned", "timeout"} \cup Errors
    /\ polled \in SUBSET Conns
    /\ map \in [Fds -> Conns \cup {None}]
    /\ fileno \in [Conns -> Fds \cup {None}]
    /\ dirty \in [Conns -> BOOLEAN]
    /\ rotation \in [Requests -> {<<>>} \cup Orders]
    /\ timed_out \in [Requests -> BOOLEAN]
    /\ calls \in Nat

PollInit ==
    /\ Init
    /\ phase = "idle"
    /\ wait = None
    /\ batch = {}
    /\ outcome = "none"
    /\ polled = {}
    /\ map = [f \in Fds |-> None]
    /\ fileno = [c \in Conns |-> None]
    /\ dirty = [c \in Conns |-> FALSE]
    /\ rotation = [r \in Requests |-> <<>>]
    /\ timed_out = [r \in Requests |-> FALSE]
    /\ calls = 0

-----------------------------------------------------------------------------
(***************************************************************************)
(* Entering a wait.                                                        *)
(***************************************************************************)

Enter(w, B) ==
    /\ phase = "idle"
    /\ calls < MaxCalls
    /\ B # {}
    /\ phase' = "first"
    /\ wait' = w
    /\ batch' = B
    /\ outcome' = "none"
    /\ polled' = Conns
    /\ map' = [f \in Fds |-> None]
    /\ calls' = calls + 1
    /\ UNCHANGED <<fileno, rotation, timed_out>>

\* wait_until_jobs_accepted, by itself or as submit_multiple_requests' first half;
\* wait_until_jobs_completed of submitted requests, by itself or as its second half.
Submit(B) ==
    /\ Enter("accept", B)
    /\ UNCHANGED <<vars, dirty>>

AwaitCompletion(B) ==
    /\ \A r \in B : attempts[r] > 0
    /\ Enter("complete", B)
    /\ UNCHANGED <<vars, dirty>>

\* get_job_status of a request whose connection has a handler.
AskStatus(r) ==
    /\ Enter("status", {r})
    /\ GetJobStatus(r)
    /\ dirty' = [dirty EXCEPT ![conn[r]] = TRUE]

\* get_job_status of a request whose connection has none, as handle_error dropped
\* it: the handler is looked up, with [], before anything is waited for.
AskStatusOfLost(r) ==
    /\ phase = "idle"
    /\ calls < MaxCalls
    /\ GetStatusOfLost(r)
    /\ calls' = calls + 1
    /\ wait' = "status"
    /\ batch' = {r}
    /\ outcome' = "KeyError"
    /\ UNCHANGED <<phase, polled, map, fileno, dirty, rotation, timed_out>>

\* An exception out of the callback or the loop ends the wait there and then.
Raise(error) ==
    /\ phase' = "idle"
    /\ outcome' = error
    /\ UNCHANGED <<wait, batch, polled, map, timed_out, calls>>

-----------------------------------------------------------------------------
(***************************************************************************)
(* The callbacks.                                                          *)
(***************************************************************************)

InCallback == phase \in {"first", "callback"}

\* A mistake to catch: a request that was lost is not sent again.
UnsentOnce ==
    IF wait = "accept" THEN {r \in batch : state[r] = "UNKNOWN" /\ attempts[r] = 0}
    ELSE {}

\* The requests continue_while_jobs_pending has still to send.
Unsent == IF wait = "accept" THEN {r \in batch : state[r] = "UNKNOWN"} ELSE {}

\* A mistake to catch: the rotation is not kept.
RotateNot(s, k) == s

\* A mistake to catch: the servers skipped once are never tried again.
RotateDropping(s, k) == SubSeq(s, k + 1, Len(s))

\* deque.rotate(-k)
Rotate(s, k) == SubSeq(s, k + 1, Len(s)) \o SubSeq(s, 1, k)

\* establish_request_connection: the connections before c in the request's order
\* are down and cannot be reached, c is up or can be.  A new socket gets any
\* descriptor that is free.
ChooseConnection(r, c) ==
    \E order \in (IF rotation[r] = <<>> THEN Orders ELSE {rotation[r]}) :
    \E k \in 0 .. Len(order) - 1 :
        /\ order[k + 1] = c
        /\ \A i \in 1 .. k : ~connected[order[i]]
        /\ rotation' = [rotation EXCEPT ![r] = Rotate(order, k)]
        /\ IF connected[c] THEN UNCHANGED fileno
           ELSE \E f \in Fds \ {fileno[d] : d \in {x \in Conns : connected[x]}} :
                    fileno' = [fileno EXCEPT ![c] = f]

\* send_job_request from the callback.
Send(r, c) ==
    /\ InCallback
    /\ r \in Unsent
    /\ SendJobRequest(r, c)
    /\ ChooseConnection(r, c)
    /\ dirty' = [dirty EXCEPT ![c] = TRUE]
    /\ timed_out' = [timed_out EXCEPT ![r] = FALSE]
    /\ UNCHANGED <<phase, wait, batch, outcome, polled, map, calls>>

\* send_job_request refuses: no attempts left, or nothing can be reached.  What
\* the callback sent before stays sent.
SendRefused(r) ==
    /\ InCallback
    /\ r \in Unsent
    /\ \/ /\ attempts[r] >= MaxAttempts
          /\ Raise("ExceededConnectionAttempts")
          /\ UNCHANGED rotation
       \/ /\ attempts[r] < MaxAttempts
          /\ \A c \in Conns : ~connected[c]
          /\ Raise("ServerUnavailable")
          /\ \E order \in (IF rotation[r] = <<>> THEN Orders ELSE {rotation[r]}) :
                rotation' = [rotation EXCEPT ![r] = order]
    /\ UNCHANGED <<vars, fileno, dirty>>

\* GearmanJobRequest.complete: nothing more is heard of a background job.
Complete(r) == IF r \in Background THEN state[r] = "CREATED"
               ELSE state[r] \in Terminal

\* What the callback returns: does the wait have to go on for request r?
GoesOn(r) ==
    CASE wait = "accept"   -> state[r] = "PENDING"
      [] wait = "complete" -> ~Complete(r) /\ state[r] # "UNKNOWN"
      [] wait = "status"   -> ~status[r].fresh /\ state[r] # "UNKNOWN"

CallbackOk   == \E r \in batch : GoesOn(r)
ConnectionOk == \E c \in polled : connected[c]

\* timed_out is computed when the loop is over, from the states alone.
MarkTimedOut ==
    timed_out' = [r \in Requests |->
        IF r \notin batch THEN timed_out[r]
        ELSE CASE wait = "accept"   -> state[r] = "PENDING"
               [] wait = "complete" -> ~Complete(r)
               [] wait = "status"   -> ~status[r].fresh]

\* The wait returns, and wait_until_jobs_completed forgets the rotations it has
\* no more use for.
Return(how) ==
    /\ phase' = "idle"
    /\ outcome' = how
    /\ MarkTimedOut
    /\ rotation' = [r \in Requests |->
          IF wait = "complete" /\ r \in batch /\ Complete(r) THEN <<>> ELSE rotation[r]]
    /\ UNCHANGED <<vars, wait, batch, polled, map, fileno, dirty, calls>>

\* A mistake to catch: connection_map is taken before the callback connects.
MapOfIdle(conns) ==
    [f \in Fds |-> IF \E c \in conns : fileno[c] = f /\ ~dirty[c]
                   THEN CHOOSE c \in conns : fileno[c] = f ELSE None]

\* connection_map, built once, after the first callback.
MapOf(conns) ==
    [f \in Fds |-> IF \E c \in conns : fileno[c] = f
                   THEN CHOOSE c \in conns : fileno[c] = f ELSE None]

\* The callback is through: poll again, or leave the loop.
CallbackContinues ==
    /\ InCallback /\ Unsent = {}
    /\ CallbackOk /\ ConnectionOk
    /\ phase' = "polling"
    /\ map' = IF phase = "first" THEN MapOf({c \in Conns : connected[c]}) ELSE map
    /\ UNCHANGED <<vars, wait, batch, outcome, polled, fileno, dirty, rotation,
                   timed_out, calls>>

\* ... unless time_remaining is 0.0 at the top of the loop.
CallbackTimesOut ==
    /\ MayTimeOut
    /\ InCallback /\ Unsent = {}
    /\ CallbackOk /\ ConnectionOk
    /\ Return("timeout")

CallbackStops ==
    /\ InCallback /\ Unsent = {}
    /\ ConnectionOk /\ ~CallbackOk
    /\ Return("returned")

CallbackFindsNoConnection ==
    /\ InCallback /\ Unsent = {}
    /\ ~ConnectionOk
    /\ Raise("ServerUnavailable")
    /\ UNCHANGED <<vars, fileno, dirty, rotation>>

-----------------------------------------------------------------------------
(***************************************************************************)
(* A poll round: events on the registered connections, each attributed by  *)
(* connection_map to the connection its descriptor belonged to when the    *)
(* wait began.                                                             *)
(***************************************************************************)

Registered(c) == phase = "polling" /\ c \in polled /\ connected[c]

Target(c) == map[fileno[c]]

\* handle_read of d, of a server that refuses nothing: a command is handled, or its
\* callback raises out of the round.
Read(d) ==
    \/ /\ \/ RecvJobCreated(d) \/ RecvWorkUpdate(d) \/ RecvWorkComplete(d)
          \/ RecvWorkFail(d) \/ RecvStatusRes(d)
       /\ UNCHANGED waitVars
    \/ /\ RecvRaises(d)
       /\ Raise("RoundRaised")
       /\ UNCHANGED <<fileno, dirty, rotation>>

\* handle_write of d: all is written, or a command cannot be packed, and what is
\* queued behind it is still to be written.
Write(d) ==
    /\ dirty[d]
    /\ \/ /\ ~Unsendable(d)
          /\ dirty' = [dirty EXCEPT ![d] = FALSE]
          /\ UNCHANGED <<vars, phase, wait, batch, outcome, polled, map, fileno,
                         rotation, timed_out, calls>>
       \/ /\ PackFails(d)
          /\ Raise("RoundRaised")
          /\ UNCHANGED <<fileno, dirty, rotation>>

PollRead(c) ==
    /\ Registered(c) /\ Target(c) = c
    /\ Read(c)

PollWrite(c) ==
    /\ Registered(c) /\ Target(c) = c
    /\ Write(c)

\* A connection of the round that raised was found dead in it, before or after,
\* and handle_error was not reached.
PollAbandons(c) ==
    /\ phase = "idle" /\ outcome = "RoundRaised"
    /\ c \in polled
    /\ Abandon(c)
    /\ dirty' = [dirty EXCEPT ![c] = FALSE]
    /\ UNCHANGED <<phase, wait, batch, outcome, polled, map, fileno, rotation,
                   timed_out, calls>>

\* A mistake to catch: the dead connection is closed, its handler not told.
LoseSilently(d) ==
    /\ connected' = [connected EXCEPT ![d] = FALSE]
    /\ inbound' = [inbound EXCEPT ![d] = <<>>]
    /\ UNCHANGED <<requestVars, mapped, awaiting, registered, stalled, submits, taken,
                   asked, jobs, finished, boundVars>>
    /\ polled' = polled \ {d}
    /\ dirty' = [dirty EXCEPT ![d] = FALSE]
    /\ UNCHANGED <<phase, wait, batch, outcome, map, fileno, rotation, timed_out,
                   calls>>

\* handle_error of d, which is not polled again in this wait.
Lose(d) ==
    /\ HandleError(d)
    /\ polled' = polled \ {d}
    /\ dirty' = [dirty EXCEPT ![d] = FALSE]
    /\ UNCHANGED <<phase, wait, batch, outcome, map, fileno, rotation, timed_out,
                   calls>>

PollLosesConnection(c) ==
    /\ Registered(c) /\ Target(c) = c
    /\ Lose(c)

\* An event on c is taken for one on d, whose old descriptor c was given.  If d is
\* down, its handler is not found for a read, and a write ends in the ConnectionError
\* of a connection that is not polled any more.  If d is up again, its own commands
\* are handled, its empty socket is an error to it, or its commands are written.
PollMistakes(c) ==
    LET d == Target(c) IN
    /\ Registered(c) /\ d \notin {c, None}
    /\ \/ /\ ~connected[d]
          /\ Raise("RoundRaised")
          /\ UNCHANGED <<vars, fileno, dirty, rotation>>
       \/ /\ connected[d]
          /\ Read(d) \/ (inbound[d] = <<>> /\ Lose(d)) \/ Write(d)

\* The round is over.  Events whose descriptor is not in the map were skipped.
RoundEnds ==
    /\ phase = "polling"
    /\ phase' = "callback"
    /\ UNCHANGED <<vars, wait, batch, outcome, polled, map, fileno, dirty, rotation,
                   timed_out, calls>>

-----------------------------------------------------------------------------
\* A server answers what it has been sent, and reports on foreground jobs.
Foreground(c) == {h \in Handles : h \in DOMAIN jobs[c] /\ jobs[c][h] \notin Background}

ServerActs(c) ==
    /\ ~dirty[c]
    /\ \/ ServerCreatesJob(c) \/ ServerAnswersStatus(c)
       \/ \E h \in Foreground(c) :
             \/ \E type \in UpdateTypes : ServerUpdates(c, h, type)
             \/ \E type \in FinalTypes : ServerFinishes(c, h, type)
    /\ UNCHANGED waitVars

Callback ==
    \/ \E r \in Requests : SendRefused(r) \/ \E c \in Conns : Send(r, c)
    \/ CallbackContinues \/ CallbackTimesOut \/ CallbackStops
    \/ CallbackFindsNoConnection

Poll ==
    \/ \E c \in Conns : \/ PollRead(c) \/ PollWrite(c)
                        \/ PollLosesConnection(c) \/ PollMistakes(c)
    \/ RoundEnds

PollNext ==
    \/ \E B \in SUBSET Requests : Submit(B) \/ AwaitCompletion(B)
    \/ \E r \in Requests : AskStatus(r) \/ AskStatusOfLost(r)
    \/ Callback
    \/ Poll
    \/ \E c \in Conns : PollAbandons(c) \/ ServerActs(c)

PollSpec == PollInit /\ [][PollNext]_pollVars

\* The loop runs, the poller reports every readable and writable descriptor that
\* is registered, and the servers answer and finish jobs.
PollFairness ==
    /\ WF_pollVars(Callback)
    /\ WF_pollVars(RoundEnds)
    /\ \A c \in Conns :
          /\ SF_pollVars(PollRead(c))
          /\ SF_pollVars(PollWrite(c))
          /\ WF_pollVars(~dirty[c] /\ ServerCreatesJob(c) /\ UNCHANGED waitVars)
          /\ WF_pollVars(~dirty[c] /\ ServerAnswersStatus(c) /\ UNCHANGED waitVars)
          /\ WF_pollVars(/\ ~dirty[c] /\ UNCHANGED waitVars
                         /\ \E h \in Foreground(c), type \in FinalTypes :
                               ServerFinishes(c, h, type))

PollFairSpec == PollSpec /\ PollFairness
-----------------------------------------------------------------------------
(***************************************************************************)
(* What the waits promise.                                                 *)
(***************************************************************************)

\* client.py: "If our connection fails while we're waiting for it to be accepted,
\* automatically retry right here".  A wait that goes on for a request listens to
\* the connection the request is on, under the descriptor that connection has, until
\* requests are mixed up or a round that raises closes a connection untold.
WaitedForIsPolled ==
    phase = "polling" /\ Undisturbed /\ closings = 0 =>
        \A r \in batch : GoesOn(r) =>
            Registered(conn[r]) /\ Target(conn[r]) = conn[r]

\* A request is always sent on the head of its rotation, so that the next attempt
\* tries the servers in the order they were last found to work.
SentOnHead ==
    \A r \in Requests : rotation[r] # <<>> /\ state[r] = "PENDING" =>
        Head(rotation[r]) = conn[r]

\* A wait_until_jobs_accepted that returns has an answer for every request of the
\* batch: accepted, or timed out and still pending, never left unsent or lost.
AcceptedOnReturn ==
    phase = "idle" /\ wait = "accept" /\ outcome \in {"returned", "timeout"} =>
        \A r \in batch :
            \/ state[r] \in Settled /\ ~timed_out[r]
            \/ state[r] = "PENDING" /\ timed_out[r] /\ outcome = "timeout"

\* Every wait ends, even without a poll_timeout, if the servers do their part: as it
\* should or with an exception.  Not so once requests were mixed up or a connection
\* was closed untold: the answer waited for may then never come, or be another's.
WaitsEnd == phase # "idle" ~> phase = "idle" \/ ~Undisturbed \/ closings > 0

\* docs/job.rst on timed_out: "Did the client hit its polling_timeout prior to a
\* job finishing?"
TimedOutMeansTimeout ==
    phase = "idle" /\ outcome = "returned" => \A r \in batch : ~timed_out[r]

\* docs/client.rst, "Recovering from failed connections": requests that are
\* JOB_UNKNOWN because their servers failed are given to submit_multiple_requests
\* again.  Submitting an unknown request is not refused for its past attempts.
LostIsResubmitted ==
    [][phase = "first" /\ wait = "accept" => outcome' # "ExceededConnectionAttempts"]_pollVars
=============================================================================
