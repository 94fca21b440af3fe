# A TLA+ development of python-gearman

`src/gearman` is a library for the three roles of the Gearman protocol that are
not the job server: a *client* submits jobs and waits for them, a *worker* asks
servers for jobs and runs them, an *admin client* asks a server about itself. All
three are single-threaded. What is hard in them comes from elsewhere: several
servers that are talked to at once over non-blocking sockets, connections that are
lost and made again, replies that do not say what they answer, poll loops that run
inside callbacks of poll loops, and application code that runs in between.

## The system

| component | state it keeps | operations | talks to |
|---|---|---|---|
| `GearmanJobRequest`, `GearmanJob` (`job.py`) | state, attempts, handle, result, data, status | none of its own | written by the client handler |
| `GearmanClientCommandHandler` (`client_handler.py`) | `requests_awaiting_handles`, weak `handle_to_request_map` | send a request, `recv_job_created`, `recv_work_*`, `recv_status_res`, `on_io_error` | connection, requests |
| `GearmanClient` (`client.py`) | rotation of servers per request | submit, wait for acceptance, completion, status | handlers, poll loop |
| `GearmanConnectionManager` (`connection_manager.py`) | connections, handlers, `connection_map` of a poll loop | establish, poll, `handle_read/write/error`, `shutdown` | the poller, every connection |
| `GearmanWorker`, its handler (`worker.py`, `worker_handler.py`) | job lock, abilities, per-handler initial state | `work`, register and unregister tasks, `recv_noop`, `recv_no_job`, `recv_job_assign_uniq`, job updates | as the client, and the application's callback |
| `GearmanConnection` (`connection.py`) | socket, two command queues, two byte buffers | connect, send, read, close, fail | the socket |
| protocol (`protocol.py`) | none | pack and parse binary and text commands | connection |
| `GearmanAdminClient`, its handler (`admin_client*.py`) | `_sent_commands`, `_recv_responses`, rows of a reply | one call per administrative command | one connection |
| `GearmanCommandHandler` (`command_handler.py`) | none | `fetch_commands`, dispatch, `recv_error` | all handlers |
| `_Select` (`io.py`, `util.select`) | sets of connections to read and to write | register, unregister, `poll` with its search for bad connections | the manager, `select` |
| `util.py`, `errors.py`, `compat.py`, `constants.py` | none | helpers | |

The calls go downwards (application, client or worker, manager, handler,
connection, socket) and come back as callbacks: the manager's `handle_read` calls
`fetch_commands`, which calls a `recv_*` method, which for a worker runs the
application's function, which may enter the poll loop again. Shared state is the
worker's one job lock, the handler maps of the manager, and the file descriptors
the system hands out anew.

What makes each part correct:

- *client handler*: a handle is given to the request its job was made for, an
  answer reaches its own request, a pending request is known to a live handler, a
  lost one is marked, nothing is submitted twice at once;
- *waits*: what a wait goes on for is polled, a wait ends, and what it says when it
  ends is so;
- *poll loop*: a connection found dead is closed and its handler told, whatever found
  it; nobody blocks in the poller without a connection that is up; what has arrived
  is read, whatever happens to other connections;
- *worker*: at most one job is asked for or run at a time, the lock never outlives
  its reason, no assigned job is dropped, no server is left without a way to wake
  the worker, and servers know the present abilities;
- *connection*: bytes are neither lost, repeated, reordered, nor carried over to a
  later session, whatever pieces the socket takes and gives; a command arrives with
  the arguments it was sent with, or is refused as a whole;
- *admin client*: a call returns the reply to its own request.

`PROJECT.json` lists the hazards, each at its line, with the properties that cover it.

## The modules

| module | models | state |
|---|---|---|
| `ClientHandler` | requests, client handlers, sessions, a server per connection | the request fields; `awaiting` = `requests_awaiting_handles`, `registered` = `handle_to_request_map`, `mapped` = the keys of `connection_to_handler_map`; the wire as `submits`, `asked`, `inbound`; `misfiled`, `tossed` are history |
| `ClientHandlerProofs` | theorems about it | |
| `ClientSubmissionProofs` | its safety, with refusals, lost commands, closed connections, old handles and dropped requests; extends `ClientHandlerProofs` | |
| `ClientPoll` | the waits and the poll loop; extends `ClientHandler` | `phase`, `batch`, `polled` = `submitted_connections`, `map` = `connection_map`, `fileno`, `rotation`, `timed_out` |
| `ClientPollProofs` | theorems about it; extends `ClientSubmissionProofs` | |
| `PollLoop` | the poll loop by itself, over epoll or `_Select`, with any callback and exceptions of any handler | `rd`, `wr`, `ex`, `dead` = what of a round is still to be dealt with; `read`, `write`, `candidates`, `errors` of `_Select`; `abandoned` is history |
| `PollLoopProofs` | theorems about it | |
| `Worker` | worker, worker handlers, job servers that wake and assign | `lock` = `command_handler_holding_job_lock`, `abilities`, `running` = the callback and the nested poll loop around its updates; `stage` of `work()`, `hadJob` = `had_job` |
| `WorkerProofs` | theorems about it | |
| `CommandChannel` | abstract: two FIFO channels of commands per session | `sent`, `heard`, `said`, `got` |
| `Connection` | one connection with its buffers, implementing it | the names of `connection.py`; `up`, `down` are bytes on the network |
| `ConnectionProofs` | theorems about it, and that it implements `CommandChannel` | |
| `Protocol` | `protocol.py` as operators on sequences of bytes | none |
| `Wire` | one session of a connection on real bytes, implementing `CommandChannel`; extends `Protocol` | the names of `connection.py`; `up`, `down`, `serverBuffer`; `lost` = what of `sent` went with a command that could not be packed |
| `AdminClient` | calls, response queues, one server | the names of `admin_client_handler.py`; `waiting`, `outcome`, `answer` of the current call |
| `AdminClientProofs` | theorems about it | |
| `SequenceLemmas` | lemmas on numbers and sequences for `AdminClientProofs` and `ConnectionProofs` | |
| `MC*` | constants and symmetry for the runs | |

One action is one handler or one step of a poll loop, with everything it calls:
`HandleError(c)` is `handle_error`, `on_io_error` and `close()` together;
`SendJobRequest(r, c)` is `establish_connection`, the handler's
`send_job_request` and the marking of the request; `HandleRead` of `Connection` is
the read, the cutting of the buffer and the `fetch_commands` loop.

### Composition and abstraction

- `ClientPoll` extends `ClientHandler` and takes its actions as the effect of what
  the poll loop does: every step of a wait is a step of `ClientHandler` or leaves its
  variables alone. So it is by construction, and no property; the lemma
  `WaitsAreHandlers` says it, so that what is proved of `ClientHandler` can be used of
  the waits.
- `Connection` implements `CommandChannel` (property `ChannelSpec`, theorem
  `ConnectionIsChannel`), which is what
  the other modules take a connection to be: commands arrive whole, in order, in
  their session or not at all.
- `Wire` implements it too (`WireSpec`), for commands with their arguments: the
  refinement maps what was sent to what it means (`Meaning`), so that what the server
  parses has to be that, and not only as long. `sent` is all that was sent, `lost` what
  of it the connection lost: the channel is given the rest (`Kept`), and `GetsThrough`
  says what may be lost.
- `Worker` has `work()` in rounds with a callback between them if `Rounds` is TRUE
  (run `worker_loop`). With FALSE (run `worker_core`) what is done in a round and what
  between two may come at any time: the weaker assumption on the loop, under which the
  properties of the lock and `QueuedIsServed` hold without fairness of the rounds.
- `PollLoop` stands between: the actions of the waits and of the worker that are
  named after the poll loop assume what it promises.

The abstractions, and why they keep what matters:

- *payloads* are the request, job or call they belong to: what can be wrong about
  an answer is whose it is.
- *bytes* are, in `Connection`, their place in a command: there the framing looks at
  lengths and newlines. In `Wire` they have values; magic numbers, codes, NUL
  separators and detection of text by the first byte are those of the code.
- in `PollLoop` a command is what its `recv_` method does, returns True, returns
  False or raises, and something to send packs or raises. All that is queued is
  written at once: partial writes are in `Connection`.
- *handles* are numbered anew in every session, as by a server that restarts: the
  worst case for answers that arrive in the wrong session.
- *servers* answer submissions in order, one `JOB_CREATED` or `ERROR` each, speak
  of a job from `JOB_CREATED` to its end, and a dropped worker's job is put back in
  the queue in the same step. In `ClientPoll` a server answers only what was
  written (`~dirty`).
- `RESET_ABILITIES` and the `CAN_DO`s after it are one message with the set.
- the *admin commands* are four kinds of reply: rows up to ".", one line, one line
  that must be `OK`, a binary echo.
- *get_job_status* is asked for one request at a time, in any state of it and of its
  connection: the request is filed under the handle it has (`None` before its first
  `JOB_CREATED`) in the handler its connection has, which may be one of a later
  session; if there is none (`GetStatusOfLost`), the look-up raises `KeyError`.
- *what cannot be packed* is a set of requests (`Unpackable`) and the handle `None`;
  `PackFails` drops the commands that `send_commands_to_buffer` popped before it. A
  data encoder that raises inside `send_job_request` is left out.
- `Forget` drops a request at any time after submission; CPython frees the entries
  of a weak dictionary at once.
- time is the clock of the cooldown only; a `poll_timeout` may run out at any point
  where the loop looks at it.

## The runs

Every run ends within minutes with two workers. `CHECK_DEADLOCK FALSE` throughout:
the bounds stop every model, and a client with nothing to do rests.

| run | bounds | shows |
|---|---|---|
| `client_core` | 2 requests, 2 servers, 2 attempts, 2 jobs a session, 1 update, 1 status call | types; `HandlesMatch`, `AnswersUnmixed`, `PendingIsAwaited`, `OneLiveSubmission`, `TerminalIsStable`; why they hold, `CorrelationInv` |
| `client_disturbed` | 1 server, 1 attempt; 1 update, 1 status call, 1 refusal, 1 `shutdown()` or abandoned connection, requests are dropped | `OnlyForgottenRaise`, `AnswersUnmixed`, and that requests leave `JOB_PENDING` and `JOB_CREATED` (`RequestsEnd`) |
| `poll_core` | 2 requests, one of them background, 2 servers, 2 descriptors, 2 waits, 1 status call, 1 abandoned connection, no retry, timeouts | `WaitedForIsPolled`, `AcceptedOnReturn`, `WaitsEnd` |
| `poll_retry` | 3 requests, one of them background and not packable, 2 servers, 2 descriptors, 2 waits, 2 attempts, 1 status call, no timeouts | `SentOnHead`, `OnlyForgottenRaise` |
| `worker_core` | 2 servers, 2 jobs, 2 sessions each, `shutdown()` | `OneGrab`, `LockIsOwed`, `AssignedIsHandled`, `NoLostWakeup`, `QueuedIsServed` |
| `worker_loop` | 2 servers, 1 job, 2 sessions each; of 1 change of abilities, 1 stop, 1 `shutdown()`, 1 update, 1 extra NOOP at most 3 (`MaxExtras`) | `AbilitiesInSync`, `StopAfterJobIsClean` |
| `conn_core` | 2 commands sent and 2 said in each of 2 sessions: a binary command of 3 bytes, a line of 2 that stops the handler, one that cannot be packed; every split | `NothingLost`, `ChannelSpec`, `AllHeard`, `AllGot` |
| `wire_core` | sessions with up to 2 commands sent or 2 said, of every form in `MCWire`: with and without arguments, NUL in the last or in an inner one, text and other objects, wrong names, lines; unreadable replies of every kind of error; every split | `WireSpec`, `GetsThrough` |
| `poll_loop` | 2 connections made 3 times, 2 commands said, 1 sent, `_Select` and epoll, Python 2 | `DeadAreTold`, `NeverPollsNone`, `ReadyIsServed` |
| `admin_core` | 4 calls of all kinds, timeouts, refusals, 1 lost connection | `AnswerIsOwn`, `CleanBetweenCalls`, `ReadAsSent`, `CallsEnd` |

Why the bounds are enough to meet the cases: two requests in one queue are what
matching by order can confuse; a third only repeats the confusion, but for a wait: there it is what is submitted next
to one that cannot be packed and one that can. Two servers let
one be lost, mis-heard or held by the lock while the other works. A second attempt,
or session, is what can meet the remains of the first. In `worker_loop` any
two of what may happen meet, with a third before or after. In `poll_loop` one
connection can be lost, raise or be made again while the other has something to be
read; two commands on one connection are one before and one after what raises.
`Wire` needs no second session (that is `Connection`'s) and one command on each side
of another: what goes wrong in parsing goes wrong at a boundary. Two descriptors for two
connections are what makes the system give one connection's to the other. A binary
command longer than its header, and a line, cover both framings; their bytes arrive
in every possible grouping. `client_core`, `worker_loop` and the waits' runs that check only safety
use symmetry; runs with liveness do not.

### Statements the code does not keep

| run | statement | what happens |
|---|---|---|
| `client_reject` | `client_handler.py:22`, "these handles will be returned in the order of submission" | `ERROR` in answer to a `SUBMIT_JOB` takes nothing off the queue: the next `JOB_CREATED` gives its handle to the refused request, and the results go with it |
| `poll_unpolled` | `client.py:102`, "automatically retry right here" | a retry made by the callback connects after `connection_map` was built, or to a connection that was dropped from the polled ones: the wait does not hear it, or hears it under another connection's name |

More were met. The modules state them, no configuration here runs them; each is
violated with the constants given, on top of the `.cfg` named.

| property | constants | statement and behaviour |
|---|---|---|
| `ResultIffComplete` | `MCClientHandler.cfg` | `docs/job.rst:66`, result is "Populated if and only if JOB_COMPLETE": a complete request whose connection is lost later becomes `JOB_UNKNOWN` and keeps its result |
| `KnownIsReported` | `MCClientHandler.cfg`, `Py3 = TRUE` | `docs/job.rst:105`, "Is the server aware of this request?": bytes never equal `'1'`, `known` is always false |
| `TimedOutMeansTimeout` | `MCClientPollUnpolled.cfg`, `MaxAttempts = 1`, `MayTimeOut = FALSE` | `docs/job.rst:82`: a lost request is marked `timed_out` by a wait that has no timeout |
| `LostIsResubmitted` | `MCClientPollUnpolled.cfg`, `MaxAttempts = 1` | `docs/client.rst:75`: the resubmission it shows raises `ExceededConnectionAttempts` |
| `LockHolderAwaits` | `MCWorkerRounds.cfg` | `worker_handler.py:15`, "Holding worker level job lock and awaiting a server response": `work()` stopped while a handler waits for a job closes the connections without `handle_error` (`worker.py:101`): the lock stays with the dead handler, and a later `work()` never gets a job |
| `NotifiedOnce` | `MCWorkerRounds.cfg` | `worker.py:132`, "completed the current job": `had_job` is not cleared when `after_job` is called, so it is called again after every round until a lock is taken; and after a `NO_JOB` or a lost connection, which complete no job. It is not called at all if another connection takes the lock in the round that released it |
| `CooldownKept` | `MCConnection.cfg` | `connection.py:106`, "attempted to connect before required cooldown": `connect()` sets `allowed_connect_time` and `_reset_connection()` clears it (`connection.py:67`): there is no cooldown |
| `ReadyIsServed` | `MCPollLoop.cfg`, `Py3 = TRUE` | `io.py:22`, "an object that mimics" epoll: closed connections are dropped from its sets by `map()`, which does nothing in Python 3. When one of two connections is lost, `poll()` goes round for ever and the other is not read. Under Python 2 `poll()` raises `ConnectionError` out of the wait instead (`SelectRaises`) |
| `GetsThrough` | `MCWire.cfg`, and the line `<<195, 169, 10>>` in `MCAdmin` of `MCWire` | `connection.py:242`, "I believe we're still okay to return bytes": a line that is not ASCII and is half sent when another is queued makes the decoding of the buffer raise, and its other half is never sent |
| `LoopsIndefinitely` | `MCWorkerRounds.cfg`, `MaxStops = 0` | `worker.py:72`: `work()` ends with `ServerUnavailable` or, from the nested poll, with one connection up |
| `AlwaysTransitions` | `MCWorkerRounds.cfg` | `worker_handler.py:124`: a task unregistered between `GRAB_JOB` and `JOB_ASSIGN` fails an assertion, with the lock held |
| `EachCallSatisfied` | `MCAdminClient.cfg` | `admin_client.py:29`: the call after one that timed out, or after a refused maxqueue, ends on a reply that is not its own |
| `PingSucceeds` | `MCAdminClient.cfg`, `Py3 = TRUE` | `tests/test_admin_client.py:69`: the echo is compared as bytes with a `str` |

Three more things mix requests up; they are no statement's counterexample, and the
properties of the client say with which of them they hold no more:

- a submission is *refused* (`rejects`), as in `client_reject`;
- a submission is *lost unsent* (`tossed`): packing one command raises
  (`connection.py:236`), and those popped with it are gone, while the handler still
  awaits their `JOB_CREATED`s, and gives it the next one;
- `get_job_status` files a request under an *old handle* (`misfiled`): it asks no more
  than that the connection has a handler (`client.py:157`), and registers the request
  there under the handle of its last session, or `None` (`client_handler.py:47`). If
  that handle is now another request's, that one is no longer in the map: its `WORK_*`
  reach the wrong request or raise `InvalidClientState`, and the loss of the connection
  does not mark it.

`Undisturbed` is that none has happened. `HandlesMatch` and `AnswersUnmixed` exempt all
three; `OnlyForgottenRaise`, `OneLiveSubmission`, `TerminalIsStable` and
`PendingIsAwaited` the last only, as the others give answers to the wrong request but
make nothing raise. The
exemptions are narrow: `misfiled` is not set when the key was the request's own, nor
`tossed` when commands go with a connection that is lost; and TLC violates each of the
six properties when one of its exemptions is taken out. `PendingIsAwaited` and the
liveness properties also exempt a connection that was closed without telling its handler
(`closings`): by `shutdown()`, or abandoned, see below.

### Fairness

Liveness needs that the loops run and that servers answer, and nothing else:

- `ClientHandler!Fairness`: what has arrived is handled, what is queued is written
  (`PackFails`, if it cannot be), every submission gets its answer and every job its
  end: the application stays in a wait, whose poller reports every readable
  descriptor. Commands that `fetch_commands` left behind, as a callback raised or
  returned False, are not handled until more arrives (`stalled`).
- `PollFairness`: the callback runs, a round ends, and (strongly, since a round may
  end first) a descriptor that is ready again and again is served. `poll()` and
  `select` report all that is ready, so no descriptor is passed over for ever. The
  loss of a connection is never assumed.
- `Worker!Fairness`: the same of the worker's loop, callbacks return, servers read
  and wake sleepers. A server may still drop the worker, and another worker may
  take the job.
- `PollLoop!FairSpec`: the loop runs, `LoopStep`; within a round the order is the
  code's, so no connection can be passed over. Nothing is assumed of the server, of
  `Leave` or of the application.
- `Wire!FairSpec`: `HandleWrite`, `WriteRaises` and `HandleRead` happen when they can,
  that is, the application polls again after an exception; and the server reads.
- `Connection!FairSpec` and `AdminClient!FairSpec`: the loop writes, reads, pops,
  and the server reads or answers.

The liveness properties make an exception of what the code cannot help, and of what it
does not deal with: in `RequestsEnd` a request let go of, one whose answer was left
behind (`stalled`), the three things above and connections closed untold; in `WaitsEnd`
the last two; in `QueuedIsServed` the end of work or of the connection; in `AllGot` a
`recv_` method that returns False and leaves the commands read with it until more
arrives; in `GetsThrough` a server that says what cannot be parsed, as from there on
nothing on that connection is heard and it is not closed, and what is sent together
with a command that cannot be packed. Of that it says (`LostTogether`) that nothing
else is lost.

`DeadAreTold` has an exception that the code could help. `handle_connection_activity`
catches `ConnectionError` only: when a `recv_` method or packing raises anything else,
connections found dead before it in the round are neither closed nor told. They are
`abandoned`: marked as down, with their handlers. When one is connected again
`establish_connection` puts a new handler in the place of the old, without
`on_io_error`: the requests of the old one stay pending for good. `Abandon` of
`ClientHandler` and `PollAbandons` of `ClientPoll` do this to requests and waits. epoll
goes on to report their hang-up, and no wait looks at it.

## What is proved

Every invariant of the passing runs, the action property `TerminalIsStable` and the
refinement `ChannelSpec` are proved, for any finite or infinite sets
the runs give small ones for (`PollLoop` and `ClientPoll` need finitely many
connections) and any values of the bounds. The assumptions on the constants are those
of the modules: that `None` is none of the values it stands beside in a variable, that
bounds are numbers, that a frame has a byte at least and a binary one its header.
Where a theorem assumes more it is said below, and so is why.

Each module has an inductive invariant, one lemma per action that says the action
keeps it, and theorems that put the lemmas together with `PTL`. TLC was also run on
every inductive invariant, with the constants of the component's runs.

**`ClientHandlerProofs`**

- `TypeCorrect`: `Spec => []TypeOK`.

and lemmas on sequences and on what actions leave alone, for the next module.

**`ClientSubmissionProofs`**: the same component, for any values of the bounds. There
are two inductive invariants, and nothing is assumed of the constants: what a property
exempts is an event of the behaviour, not a bound.

- `SubmissionsHold`: `Submissions`, as long as no request was filed under a key that
  its session had not given it. What awaits a handle is pending, was last sent here and
  stands there once (`AwaitedOnce`); what is registered is accepted
  (`RegisteredSettled`); a live session has each request once (`SubmittedOnce`); and
  until a connection is closed untold a pending request is in the queue of a live one
  (`PendingTracked`). Then a request that is filed again is filed where it was.
- `PendingAlwaysAwaited`: `PendingIsAwaited`, `OneLiveSubmissionAlways`:
  `OneLiveSubmission`, and `TerminalAlwaysStable`: `TerminalIsStable`, from that.
- `OrderedHolds`: `Ordered`. Until a request is filed so, or a submission lost unsent,
  handle `h` of a session is that of its `h`-th submission, refused ones counted
  (`Numbering`), and if none was refused so is job `h` (`Unmixed`). `recv_error` leaves
  the refused request in the queue, so that the next `JOB_CREATED` goes to it: handles
  stay in step with submissions when jobs no longer do.
- `OnlyForgottenAlwaysRaise`: `OnlyForgottenRaise` as long as no submission was lost
  unsent, from `Numbering`, which says no more after that (the property itself is
  checked with such losses in `poll_retry`);
  `AnswersAlwaysUnmixed`: `AnswersUnmixed`, and `HandlesAlwaysMatch`: `HandlesMatch`,
  from `Unmixed` as well.
- `Correlation`: `CorrelationInv`, from both invariants.

`HandlesMatch` is not inductive: it says nothing of the queue or the wire, and
`JOB_CREATED` names no request. `CorrelationInv` says why it holds, for a connection
that is up (`Correlated`):

1. the queue is the part of the session's submissions after the first `Acked(c)`
   (`QueueIsUnacked`);
2. the server's jobs are a prefix of the submissions at least that long
   (`JobsAreSubmitted`);
3. the `JOB_CREATED`s on the wire are exactly those in between, in order, each once
   (`CreatedInOrder`): so the first of them is for the head of the queue;
4. what else is on the wire speaks truly of a job that exists (`WireIsTruthful`);

and for requests that a registered one is past `JOB_PENDING` and belongs to this
connection (`RegisteredHere`), an awaited one is pending, here, and stands once in
the queue (`AwaitedHere`), and a request the application holds on to stays
registered from acceptance to loss (`SettledIsRegistered`). A refusal breaks 2 and 3, a
submission lost unsent 1, an old handle the parts about requests, and so does a
connection closed untold.

**`ClientPollProofs`**

- `PollTypeCorrect`: `PollSpec => []PollTypeOK`.
- `AlwaysSentOnHead`: `SentOnHead`, `AlwaysAcceptedOnReturn`: `AcceptedOnReturn`.
- `WaitedForAlwaysPolled`: `WaitedForIsPolled`, if requests are sent but once
  (`MaxAttempts <= 1`), and in any case in the waits other than
  `wait_until_jobs_accepted`. Run `poll_unpolled` is a counterexample to the rest. The
  inductive invariant `Attending` has that in such a wait every connection that is up
  is polled, and found under its descriptor.
- `WaitsAnswerOwn`: until a request is filed under an old handle or lost unsent, no
  answer makes a handler raise out of a wait, as nothing is dropped there
  (`NothingRaises`), and what a request has received came from its own job, as nothing
  is refused.

**`WorkerProofs`**

- `TypeCorrect`: `TypeOK`, and `WorkerHolds`: `Inductive`, for any stops, changes of
  abilities and `shutdown()`s. It has, for each connection: what is left of a
  closed one (`Closed`); that who asks for a job, is answered or runs one holds
  the lock, and does one of these, once (`Grabbing`); that who is not busy is asleep or
  on the way there or back (`Wakeable`); that the last abilities on the way to the
  server are the worker's (`InSync`). And for each job that it is on its way, runs,
  has its verdict on the way back, or was given up with the lock kept (`Assigned`).
- `NeverTwoJobs`: `OneGrab`, `AbilitiesAlwaysInSync`: `AbilitiesInSync`,
  `StopAfterJobAlwaysClean`: `StopAfterJobIsClean`, from that.
- `LockAlwaysOwed`: `LockIsOwed`, `AssignedAlwaysHandled`: `AssignedIsHandled`, and
  `WakeupNeverLost`: `NoLostWakeup`, if `MaxStops = 0` and `MaxChanges = 0`, as in run
  `worker_core`. `Steady` adds that a lock that is held is owed an answer or a verdict
  (`Owed`), and that servers know of no tasks but the worker's (`Suited`). Each
  theorem needs both assumptions: with one stop, or one change of abilities, TLC
  violates all three invariants. A `work()` that is told to stop closes its connections
  and leaves the lock with a handler of a session that is over; a job for a task
  unregistered meanwhile is given up with the lock kept.

**`PollLoopProofs`**, over either poller and either Python:

- `LoopTypeCorrect`: `Spec => []LoopTypeOK`, which says beyond types that a connection
  that is up has its socket and its handler, and that no round leaves work behind.
- `DeadAlwaysTold`: `DeadAreTold`, and `AlwaysSomebodyPolled`: `NeverPollsNone`.

`DeadAreTold` speaks of the time between rounds and is broken and mended within each.
The inductive invariant `LoopInv` has `DeadAreKnown` in its place: at any time a
connection that is down and still has its socket is among those `handle_error` is to
be called with, or was abandoned by an exception. A round ends when the former are
none (`LoopTypeOK`), which gives `DeadAreTold`. `NeverPollsNone` is preserved because
connections go down only in a round or a callback, and the loop asks `connection_ok`
after both.

**`AdminClientProofs`**, with timeouts, refusals and losses:

- `AdminTypeCorrect`: `TypeOK`; `AnswersAlwaysOwn`: `AnswerIsOwn`;
  `AlwaysCleanBetween`: `CleanBetweenCalls`; `AlwaysReadAsSent`: `ReadAsSent`.

A line from the server does not name its call, so the inductive invariant is about all
lines no call has used yet, wherever they are: in the response, among the rows so far,
in the queue or on the wire. Until a read raises they come in blocks, one for each
command that is answered and not popped, in the order of the commands (`InBlocks`):
each line belongs to such a command (`Owned`), they are in order (`InOrder`), what is
no row ends its block (`Ended`), every block has such an end (`Whole`). A handler that
takes lines off the front takes them from the block of the first command not popped.
If nothing went wrong in the session that command is the one waited for (`Alone`).

**`ConnectionProofs`**

- `ConnTypeCorrect`: `ConnTypeOK`; `NothingEverLost`: `NothingLost`.
- `ConnectionIsChannel`: `Spec => ChannelSpec`. `Connect` is `Reopen`, `SendCommand` is
  `Send`, `ServerSays` is `Say`, a command that cannot be packed is withdrawn with
  those packed with it (`PackFails` is `Withdraw`), and reads are `Hear` or `Get` of
  the commands they complete, or stutter.

Between two commands the buffers hold parts of frames, of which `NothingLost` says
nothing. The inductive invariant says which commands are under way: what was sent is
what was heard, they, and what is queued; and the bytes on the network and in the
buffers of both ends, put together, are exactly their frames (`Outbound`, and `Inbound`
for the other direction). Lemma `CutIsRight` says of the function that cuts a buffer
that, given the first bytes of the frames of some commands, it returns the first of
these commands and keeps the bytes of the others, for any buffer in either framing.

**`SequenceLemmas`** has what the last two rest on. Induction is stated there for sets
of numbers (`Smallest`, `Induction`), not for operators, and so can be used with what
is proved about recursive functions, as `CutIsRight` is. `Cat` is `\o` under a name of
its own, to be used by its lemmas and not expanded.

What is model-checked only:

- liveness: `RequestsEnd`, `WaitsEnd`, `QueuedIsServed`, `AllHeard`, `AllGot`,
  `GetsThrough`, `ReadyIsServed`, `CallsEnd`. It needs `ENABLED` and fairness, which the
  prover does not handle;
- `WireSpec`: `Wire` reads a buffer with a `RECURSIVE` operator, of which nothing can
  be proved. That framing loses nothing is proved of `Connection`, that the bytes mean
  what was said is checked of `Wire`.

## What is not modelled, and why

- `SSL` read and write retries (`connection.py`): loops around the socket that end
  in the same result or spin; listed as a hazard.
- `set_client_id`, priorities, unique ids, data encoders: passed on and read by
  nothing in the library.
- Stopwatch and host parsing: a timeout may end a wait whenever the loop looks at it,
  and which event comes first is left open everywhere. `_Select.modify` is called by
  nothing.
- A nested poll loop over `_Select`: each loop makes its own poller.
- `reset()` of a request: nothing calls it.
- `tools/`, `docs/conf.py`, `setup.py`: release tooling.

## Plan

The order in which the project grows; the core above comes first because the matching
of answers to requests is what every user of the client relies on.

1. Done: client handler and waits, worker, connection, admin client; then `Protocol`
   and `Wire`, `PollLoop` with its proofs, the rounds of `Worker`.
2. Done: every safety property of the passing runs, and the refinement `ChannelSpec`,
   as theorems. Left: `WireSpec`, for which `Wire` has to read its buffer with a
   recursive function.
3. Done: what cannot be packed, abandoned connections and old handles, in
   `ClientHandler` and `ClientPoll`.
4. Left: a lines run of `Wire` with what is not ASCII under the rule for what may be
   lost, and the SSL retries of `Connection`.
