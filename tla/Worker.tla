------------------------------- MODULE Worker -------------------------------
(***************************************************************************)
(* GearmanWorker (worker.py) and its command handlers (worker_handler.py): *)
(* one process that listens to several job servers, holds at most one job  *)
(* at a time, and runs the job's callback in the middle of a read.         *)
(*                                                                         *)
(* A server sends a sleeping worker NOOP when there is work.  The worker   *)
(* answers GRAB_JOB_UNIQ, if no other connection is busy with a job, and   *)
(* is assigned a job or told NO_JOB.  The job lock, command_handler_       *)
(* holding_job_lock, is what keeps it from asking two servers at once.     *)
(*                                                                         *)
(* Everything runs on one thread, but on_job_execute does not come back    *)
(* until the callback has returned and its result is written: while the    *)
(* callback sends an update or the result, a nested poll loop reads and    *)
(* writes the job's own connection, and may find it dead.                  *)
(*                                                                         *)
(* Between two rounds of the poll loop work() calls after_poll and, when   *)
(* the job lock has been given back, after_job, which "is useful for       *)
(* accomplishing work or stopping the GearmanWorker in between jobs".      *)
(*                                                                         *)
(* Unwritten and written commands are two queues.  Connection models the   *)
(* bytes between them.                                                     *)
(***************************************************************************)
EXTENDS Naturals, Sequences

CONSTANTS
    Conns,          \* GearmanConnection objects, one per job server
    Jobs,           \* jobs clients submit to the servers
    Tasks,          \* task names
    None,           \* Python's None
    Rounds,         \* whether the rounds of work() are told apart; if not, what is
                    \* done in a round and what is done between two may come any time
    MaxSessions,    \* bound: handlers created for one connection
    MaxUpdates,     \* bound: WORK_STATUS and the like, over all jobs
    MaxChanges,     \* bound: calls of register_task and unregister_task
    MaxStops,       \* bound: ways out of work() that leave the lock alone
    MaxShutdowns,   \* bound: calls of shutdown()
    MaxNoops,       \* bound: NOOPs a server repeats to one that is awake
    MaxExtras       \* bound: of the last five together, in one behaviour

\* Where the execution of a job stands: in the callback, in the nested poll loop
\* that writes an update, or in the one that writes the result.
Steps == {"callback", "update", "result"}

ASSUME ConstantsAssumption ==
    /\ None \notin Conns \cup Jobs \cup Tasks
    /\ None \notin Conns \X Nat
    /\ None \notin [conn : Conns, job : Jobs, step : Steps]
    /\ Rounds \in BOOLEAN
    /\ MaxSessions \in Nat /\ MaxUpdates \in Nat /\ MaxChanges \in Nat
    /\ MaxStops \in Nat /\ MaxShutdowns \in Nat /\ MaxNoops \in Nat
    /\ MaxExtras \in Nat

Handlers == Conns \X (1 .. MaxSessions)

\* Commands to the server.  One CAN_DO stands for RESET_ABILITIES and the
\* CAN_DOs that follow it, one WORK_STATUS for any command that reports on a job
\* without ending it.
CanDo(tasks)   == [cmd |-> "CAN_DO", tasks |-> tasks]
Plain(cmd)     == [cmd |-> cmd]
AboutJob(cmd, j) == [cmd |-> cmd, job |-> j]

Verdicts == {"WORK_COMPLETE", "WORK_FAIL"}
Outbound == {CanDo(A) : A \in SUBSET Tasks}
              \cup {Plain(cmd) : cmd \in {"PRE_SLEEP", "GRAB_JOB_UNIQ", "WORK_STATUS"}}
              \cup {AboutJob(cmd, j) : cmd \in Verdicts, j \in Jobs}
Inbound  == {Plain(cmd) : cmd \in {"NOOP", "NO_JOB"}}
              \cup {AboutJob("JOB_ASSIGN_UNIQ", j) : j \in Jobs}

VARIABLES
    \* GearmanWorker
    working,     \* inside work()
    running,     \* the job being executed, and on which connection
    lock,        \* command_handler_holding_job_lock
    abilities,   \* the keys of worker_abilities
    stage,       \* of work(): "callback" between two rounds, and out of work(), or
                 \* "round"; "any" without Rounds
    hadJob,      \* had_job
    \* per connection
    connected,
    handlerOf,   \* connection_to_handler_map: the session number, 0 if absent
    sessions,    \* how many handlers the connection has had
    known,       \* handlers that handler_to_connection_map maps to it
    outgoing,    \* commands not yet written to the socket
    wire,        \* commands written, not yet read by the server
    inbound,     \* commands sent by the server, not yet handled
    \* the job servers, one per connection, and the jobs
    srv,         \* "gone", "awake", "asleep" or "woken": asleep with a NOOP sent
    srvAbil,     \* the tasks the server thinks this worker can do
    job,         \* state, server and task of every job
    \* the bounds
    updates, changes, stops, shutdowns, noops

workerVars  == <<working, running, lock, abilities, stage, hadJob>>
loopVars    == <<stage, hadJob>>
sessionVars == <<connected, handlerOf, sessions, known>>
serverVars  == <<srv, srvAbil, job>>
boundVars   == <<updates, changes, stops, shutdowns, noops>>
vars == <<workerVars, sessionVars, outgoing, wire, inbound, serverVars, boundVars>>

JobRecords == [state : {"new", "queued", "assigned", "elsewhere", "done", "failed"},
               server : Conns \cup {None},
               task : Tasks \cup {None}]

TypeOK ==
    /\ working \in BOOLEAN
    /\ running \in {None} \cup [conn : Conns, job : Jobs, step : Steps]
    /\ lock \in {None} \cup Handlers
    /\ abilities \in SUBSET Tasks
    /\ stage \in (IF Rounds THEN {"callback", "round"} ELSE {"any"})
    /\ hadJob \in BOOLEAN
    /\ ~working => hadJob = FALSE /\ stage # "round"
    /\ connected \in [Conns -> BOOLEAN]
    /\ handlerOf \in [Conns -> Nat]
    /\ sessions \in [Conns -> Nat]
    /\ known \in [Conns -> Nat]
    /\ outgoing \in [Conns -> Seq(Outbound)]
    /\ wire \in [Conns -> Seq(Outbound)]
    /\ inbound \in [Conns -> Seq(Inbound)]
    /\ srv \in [Conns -> {"gone", "awake", "asleep", "woken"}]
    /\ srvAbil \in [Conns -> SUBSET Tasks]
    /\ job \in [Jobs -> JobRecords]
    /\ <<updates, changes, stops, shutdowns, noops>> \in Nat \X Nat \X Nat \X Nat \X Nat

OutOfRounds == IF Rounds THEN "callback" ELSE "any"

\* A worker whose abilities are registered and whose work() is not yet called.
Init ==
    /\ working = FALSE
    /\ running = None
    /\ lock = None
    /\ abilities \in (SUBSET Tasks) \ {{}}
    /\ stage = OutOfRounds
    /\ hadJob = FALSE
    /\ connected = [c \in Conns |-> FALSE]
    /\ handlerOf = [c \in Conns |-> 0]
    /\ sessions = [c \in Conns |-> 0]
    /\ known = [c \in Conns |-> 0]
    /\ outgoing = [c \in Conns |-> <<>>]
    /\ wire = [c \in Conns |-> <<>>]
    /\ inbound = [c \in Conns |-> <<>>]
    /\ srv = [c \in Conns |-> "gone"]
    /\ srvAbil = [c \in Conns |-> {}]
    /\ job = [j \in Jobs |-> [state |-> "new", server |-> None, task |-> None]]
    /\ updates = 0 /\ changes = 0 /\ stops = 0 /\ shutdowns = 0 /\ noops = 0

\* The bound on all that is bounded.
ExtrasLeft == updates + changes + stops + shutdowns + noops < MaxExtras

\* The handler that connection_to_handler_map gives for c.
Handler(c) == <<c, handlerOf[c]>>

Send(c, cmd) == outgoing' = [outgoing EXCEPT ![c] = Append(@, cmd)]

-----------------------------------------------------------------------------
(***************************************************************************)
(* The job lock: set_job_lock and check_job_lock.                          *)
(***************************************************************************)

HoldsLock(c) == lock = Handler(c)

\* A mistake to catch: whoever asks releases the lock.
ReleasedByAnyone(c) == None

\* set_job_lock(handler, lock=False): fails, without effect, for anybody else.
Released(c) == IF HoldsLock(c) THEN None ELSE lock

\* Each session's end at the server: what was assigned over it is queued again.
Requeued(S) ==
    [j \in Jobs |-> IF job[j].state = "assigned" /\ job[j].server \in S
                    THEN [job[j] EXCEPT !.state = "queued"] ELSE job[j]]

\* close() of the connections in S; a server that is still there drops them too.
\* What was not read or written is gone.
Close(S) ==
    /\ connected' = [c \in Conns |-> connected[c] /\ c \notin S]
    /\ outgoing' = [c \in Conns |-> IF c \in S THEN <<>> ELSE outgoing[c]]
    /\ wire' = [c \in Conns |-> IF c \in S THEN <<>> ELSE wire[c]]
    /\ inbound' = [c \in Conns |-> IF c \in S THEN <<>> ELSE inbound[c]]
    /\ srv' = [c \in Conns |-> IF c \in S THEN "gone" ELSE srv[c]]
    /\ srvAbil' = [c \in Conns |-> IF c \in S THEN {} ELSE srvAbil[c]]
    /\ job' = Requeued(S)

\* A mistake to catch: the lock is not released with the connection.
HandleErrorLocked(c) ==
    /\ handlerOf' = [handlerOf EXCEPT ![c] = 0]
    /\ known' = [known EXCEPT ![c] = IF handlerOf[c] = 0 THEN @ ELSE @ - 1]
    /\ Close({c})
    /\ UNCHANGED <<lock, abilities, sessions, boundVars>>

\* GearmanWorker.handle_error: release the lock, drop the handler, close().
HandleError(c) ==
    /\ lock' = Released(c)
    /\ handlerOf' = [handlerOf EXCEPT ![c] = 0]
    /\ known' = [known EXCEPT ![c] = IF handlerOf[c] = 0 THEN @ ELSE @ - 1]
    /\ Close({c})
    /\ UNCHANGED <<abilities, sessions, boundVars>>

-----------------------------------------------------------------------------
(***************************************************************************)
(* work(): the outer loop.                                                 *)
(***************************************************************************)

\* No job runs, and the poll loop of work() is in a round, or between two.
Polling == working /\ running = None /\ stage # "callback"
Between == working /\ running = None /\ stage # "round"

\* Application code runs: out of work(), between two rounds, or in a job's callback.
MayCall == IF running = None THEN stage # "round" ELSE running.step = "callback"

\* had_job once the callback has run.  The branch that calls after_job leaves it.
HadJob == hadJob \/ lock # None

\* continue_while_connections_alive calls after_job: there was a job, and nobody has
\* the lock.
AfterJob == Between /\ hadJob /\ lock = None

\* work() is left, or not yet in.
LeaveLoop == stage' = OutOfRounds /\ hadJob' = FALSE

Dead == {c \in Conns : ~connected[c]}

\* establish_worker_connections: S are the dead connections that can be reached.
\* establish_connection gives each a new handler, whose initial_state announces
\* the abilities and goes to sleep.
Establish(S) ==
    /\ \A c \in S : sessions[c] < MaxSessions
    /\ connected' = [c \in Conns |-> connected[c] \/ c \in S]
    /\ sessions' = [c \in Conns |-> IF c \in S THEN sessions[c] + 1 ELSE sessions[c]]
    /\ handlerOf' = [c \in Conns |-> IF c \in S THEN sessions[c] + 1 ELSE handlerOf[c]]
    /\ known' = [c \in Conns |-> IF c \in S THEN known[c] + 1 ELSE known[c]]
    /\ outgoing' = [c \in Conns |-> IF c \in S
                                    THEN <<CanDo(abilities), Plain("PRE_SLEEP")>>
                                    ELSE outgoing[c]]
    /\ srv' = [c \in Conns |-> IF c \in S THEN "awake" ELSE srv[c]]
    /\ UNCHANGED <<running, lock, abilities, wire, inbound, srvAbil, job, boundVars>>

StartWork ==
    /\ ~working
    /\ working' = TRUE
    /\ \E S \in SUBSET Dead : Establish(S)
    /\ UNCHANGED loopVars

\* The callback, which had_job is kept for, returns True: a round begins.
CallbackGoesOn ==
    /\ Rounds /\ Between
    /\ \E c \in Conns : connected[c]
    /\ stage' = "round"
    /\ hadJob' = HadJob
    /\ UNCHANGED <<working, running, lock, abilities, sessionVars, outgoing, wire, inbound,
                   serverVars, boundVars>>

RoundEnds ==
    /\ Rounds /\ Polling
    /\ stage' = "callback"
    /\ UNCHANGED <<working, running, lock, abilities, hadJob, sessionVars, outgoing, wire,
                   inbound, serverVars, boundVars>>

\* It returns True, and the poll timeout is over before the next round: the loop of
\* work() comes round, and its next poll loop begins with the callback.
Reestablish ==
    /\ Between
    /\ \E c \in Conns : connected[c]
    /\ \E S \in (SUBSET Dead) \ {{}} : Establish(S)
    /\ hadJob' = (Rounds /\ HadJob)
    /\ UNCHANGED <<working, stage>>

\* poll_connections_until_stopped raises ServerUnavailable out of work().
NoConnections ==
    /\ Between
    /\ \A c \in Conns : ~connected[c]
    /\ working' = FALSE
    /\ LeaveLoop
    /\ UNCHANGED <<running, lock, abilities, sessionVars, outgoing, wire, inbound,
                   serverVars, boundVars>>

\* after_poll or after_job returned False: work() closes its connections, with
\* close() and not handle_error, and returns.
StopWork ==
    /\ Between
    /\ \E c \in Conns : connected[c]
    /\ stops < MaxStops /\ ExtrasLeft
    /\ stops' = stops + 1
    /\ working' = FALSE
    /\ LeaveLoop
    /\ Close(Conns)
    /\ UNCHANGED <<running, lock, abilities, handlerOf, sessions, known,
                   updates, changes, shutdowns, noops>>

\* shutdown(), by the application, by after_poll or by a job's callback.
Shutdown ==
    /\ shutdowns < MaxShutdowns /\ ExtrasLeft
    /\ MayCall
    /\ \E c \in Conns : connected[c]
    /\ shutdowns' = shutdowns + 1
    /\ lock' = None
    /\ Close(Conns)
    /\ UNCHANGED <<working, running, abilities, loopVars, handlerOf, sessions, known,
                   updates, changes, stops, noops>>

\* A mistake to catch: no announcement is made while a job runs.
SetAbilitiesQuietly(A) ==
    /\ changes < MaxChanges /\ ExtrasLeft
    /\ MayCall
    /\ A # abilities
    /\ changes' = changes + 1
    /\ abilities' = A
    /\ outgoing' = [c \in Conns |-> IF connected[c] /\ running = None
                       THEN outgoing[c] \o [i \in 1 .. known[c] |-> CanDo(A)]
                       ELSE outgoing[c]]
    /\ UNCHANGED <<working, running, lock, loopVars, sessionVars, wire, inbound, serverVars,
                   updates, stops, shutdowns, noops>>

\* register_task and unregister_task: every known handler tells its connection,
\* those of earlier sessions of the connection included.
SetAbilities(A) ==
    /\ changes < MaxChanges /\ ExtrasLeft
    /\ MayCall
    /\ A # abilities
    /\ changes' = changes + 1
    /\ abilities' = A
    /\ outgoing' = [c \in Conns |-> IF connected[c]
                       THEN outgoing[c] \o [i \in 1 .. known[c] |-> CanDo(A)]
                       ELSE outgoing[c]]
    /\ UNCHANGED <<working, running, lock, loopVars, sessionVars, wire, inbound, serverVars,
                   updates, stops, shutdowns, noops>>

-----------------------------------------------------------------------------
(***************************************************************************)
(* Activity on a connection.  The outer poll loop serves every connection, *)
(* the nested one of a running job only the job's own.                     *)
(***************************************************************************)

Served(c) ==
    /\ working
    /\ stage # "callback"
    /\ connected[c]
    /\ running # None => running.conn = c /\ running.step # "callback"

\* handle_write: some of the queued commands get to the socket.
HandleWrite(c) ==
    /\ Served(c)
    /\ srv[c] # "gone"
    /\ \E n \in 1 .. Len(outgoing[c]) :
          /\ wire' = [wire EXCEPT ![c] = @ \o SubSeq(outgoing[c], 1, n)]
          /\ outgoing' = [outgoing EXCEPT ![c] = SubSeq(@, n + 1, Len(@))]
    /\ UNCHANGED <<workerVars, sessionVars, inbound, serverVars, boundVars>>

\* handle_read takes the next command off the connection.
Fetch(c, cmd) ==
    /\ Served(c)
    /\ inbound[c] # <<>>
    /\ Head(inbound[c]).cmd = cmd
    /\ inbound' = [inbound EXCEPT ![c] = Tail(@)]

\* Two mistakes to catch: a handler that cannot take the lock does not go back to
\* sleep, and the connection in place of the handler is recorded as the holder.
RecvNoopSilent(c) ==
    /\ Fetch(c, "NOOP")
    /\ \/ lock # None /\ UNCHANGED <<lock, outgoing>>
       \/ lock = None /\ lock' = Handler(c) /\ Send(c, Plain("GRAB_JOB_UNIQ"))
    /\ UNCHANGED <<working, running, abilities, loopVars, sessionVars, wire, serverVars,
                   boundVars>>
RecvNoopConnection(c) ==
    /\ Fetch(c, "NOOP")
    /\ \/ lock # None /\ Send(c, Plain("PRE_SLEEP")) /\ UNCHANGED lock
       \/ lock = None /\ lock' = c /\ Send(c, Plain("GRAB_JOB_UNIQ"))
    /\ UNCHANGED <<working, running, abilities, loopVars, sessionVars, wire, serverVars,
                   boundVars>>

\* recv_noop: ask for a job if the lock can be had, else go back to sleep.
RecvNoop(c) ==
    /\ Fetch(c, "NOOP")
    /\ \/ /\ HoldsLock(c)
          /\ UNCHANGED <<lock, outgoing>>
       \/ /\ ~HoldsLock(c) /\ lock = None
          /\ lock' = Handler(c)
          /\ Send(c, Plain("GRAB_JOB_UNIQ"))
       \/ /\ ~HoldsLock(c) /\ lock # None
          /\ Send(c, Plain("PRE_SLEEP"))
          /\ UNCHANGED lock
    /\ UNCHANGED <<working, running, abilities, loopVars, sessionVars, wire, serverVars,
                   boundVars>>

\* A mistake to catch: the handler sleeps and keeps the lock.
RecvNoJobLocked(c) ==
    /\ Fetch(c, "NO_JOB")
    /\ HoldsLock(c)
    /\ Send(c, Plain("PRE_SLEEP"))
    /\ UNCHANGED <<working, running, lock, abilities, loopVars, sessionVars, wire, serverVars,
                   boundVars>>

RecvNoJob(c) ==
    /\ Fetch(c, "NO_JOB")
    /\ HoldsLock(c)
    /\ lock' = None
    /\ Send(c, Plain("PRE_SLEEP"))
    /\ UNCHANGED <<working, running, abilities, loopVars, sessionVars, wire, serverVars,
                   boundVars>>

\* recv_job_assign_uniq up to the call of the callback.
RecvJobAssign(c) ==
    LET j == Head(inbound[c]).job
    IN  /\ Fetch(c, "JOB_ASSIGN_UNIQ")
        /\ running = None
        /\ job[j].task \in abilities
        /\ HoldsLock(c)
        /\ running' = [conn |-> c, job |-> j, step |-> "callback"]
        /\ UNCHANGED <<working, lock, abilities, loopVars, sessionVars, outgoing, wire,
                       serverVars, boundVars>>

\* The AssertionError of an unknown task, or InvalidWorkerState: out of work().
RecvRaises(c) ==
    /\ \/ /\ Fetch(c, "JOB_ASSIGN_UNIQ")
          /\ job[Head(inbound[c]).job].task \notin abilities \/ ~HoldsLock(c)
       \/ Fetch(c, "NO_JOB") /\ ~HoldsLock(c)
    /\ running = None
    /\ working' = FALSE
    /\ LeaveLoop
    /\ UNCHANGED <<running, lock, abilities, sessionVars, outgoing, wire,
                   serverVars, boundVars>>

\* The poll loop of work() finds the connection dead.
ConnectionDies(c) ==
    /\ Polling
    /\ connected[c] /\ srv[c] = "gone"
    /\ HandleError(c)
    /\ UNCHANGED <<working, running, loopVars>>

-----------------------------------------------------------------------------
(***************************************************************************)
(* The execution of a job.                                                 *)
(***************************************************************************)

InCallback == running # None /\ running.step = "callback"
InWait     == running # None /\ running.step # "callback"

\* send_job_status, _data or _warning from the callback.  On a connection that is
\* not up it raises in the callback and changes nothing that lasts.
JobUpdate ==
    /\ InCallback
    /\ updates < MaxUpdates /\ ExtrasLeft
    /\ connected[running.conn]
    /\ updates' = updates + 1
    /\ Send(running.conn, Plain("WORK_STATUS"))
    /\ running' = [running EXCEPT !.step = "update"]
    /\ UNCHANGED <<working, lock, abilities, loopVars, sessionVars, wire, inbound, serverVars,
                   changes, stops, shutdowns, noops>>

\* A mistake to catch: nothing is sent of a job that raised.
JobReturnsOnSuccess(verdict) ==
    /\ InCallback
    /\ connected[running.conn]
    /\ IF verdict = "WORK_FAIL" THEN UNCHANGED outgoing
       ELSE Send(running.conn, AboutJob(verdict, running.job))
    /\ running' = [running EXCEPT !.step = "result"]
    /\ UNCHANGED <<working, lock, abilities, loopVars, sessionVars, wire, inbound, serverVars,
                   boundVars>>

\* The callback returns (on_job_complete) or raises (on_job_exception): the
\* verdict is queued and wait_until_updates_sent entered.
JobReturns(verdict) ==
    /\ InCallback
    /\ connected[running.conn]
    /\ Send(running.conn, AboutJob(verdict, running.job))
    /\ running' = [running EXCEPT !.step = "result"]
    /\ UNCHANGED <<working, lock, abilities, loopVars, sessionVars, wire, inbound, serverVars,
                   boundVars>>

\* The callback ends with its connection closed.  KeyError (handle_error dropped
\* the handler) or ServerUnavailable (shutdown() left it) gets out of work().
JobReturnsInVain ==
    /\ InCallback
    /\ ~connected[running.conn]
    /\ running' = None
    /\ working' = FALSE
    /\ LeaveLoop
    /\ UNCHANGED <<lock, abilities, sessionVars, outgoing, wire, inbound, serverVars,
                   boundVars>>

\* KeyboardInterrupt or SystemExit in the callback passes "except Exception".
JobInterrupted ==
    /\ InCallback
    /\ stops < MaxStops /\ ExtrasLeft
    /\ stops' = stops + 1
    /\ running' = None
    /\ working' = FALSE
    /\ LeaveLoop
    /\ UNCHANGED <<lock, abilities, sessionVars, outgoing, wire, inbound, serverVars,
                   updates, changes, shutdowns, noops>>

\* wait_until_updates_sent is over.  After the verdict recv_job_assign_uniq goes
\* on: the lock is released and the handler sleeps.
UpdateSent ==
    /\ InWait /\ running.step = "update"
    /\ outgoing[running.conn] = <<>>
    /\ running' = [running EXCEPT !.step = "callback"]
    /\ UNCHANGED <<working, lock, abilities, loopVars, sessionVars, outgoing, wire, inbound,
                   serverVars, boundVars>>

ResultSent ==
    /\ InWait /\ running.step = "result"
    /\ outgoing[running.conn] = <<>>
    /\ HoldsLock(running.conn)
    /\ lock' = None
    /\ Send(running.conn, Plain("PRE_SLEEP"))
    /\ running' = None
    /\ UNCHANGED <<working, abilities, loopVars, sessionVars, wire, inbound, serverVars,
                   boundVars>>

\* The nested poll loop finds the connection dead and raises ServerUnavailable:
\* into the callback, or past it and out of work().
ConnectionDiesInWait ==
    /\ InWait
    /\ connected[running.conn] /\ srv[running.conn] = "gone"
    /\ HandleError(running.conn)
    /\ \/ /\ running.step = "update"
          /\ running' = [running EXCEPT !.step = "callback"]
          /\ UNCHANGED <<working, loopVars>>
       \/ /\ running.step = "result"
          /\ running' = None
          /\ working' = FALSE
          /\ LeaveLoop

-----------------------------------------------------------------------------
(***************************************************************************)
(* The job servers and the clients, external to the worker.                *)
(***************************************************************************)

\* The jobs server c would give this worker.
Doable(c) == {j \in Jobs : /\ job[j].state = "queued" /\ job[j].server = c
                           /\ job[j].task \in srvAbil[c]}

ClientSubmits(j, c, t) ==
    /\ job[j].state = "new"
    /\ job' = [job EXCEPT ![j] = [state |-> "queued", server |-> c, task |-> t]]
    /\ UNCHANGED <<workerVars, sessionVars, outgoing, wire, inbound, srv, srvAbil,
                   boundVars>>

OtherWorkerTakes(j) ==
    /\ job[j].state = "queued"
    /\ job' = [job EXCEPT ![j].state = "elsewhere"]
    /\ UNCHANGED <<workerVars, sessionVars, outgoing, wire, inbound, srv, srvAbil,
                   boundVars>>

ServerSends(c, cmd) == inbound' = [inbound EXCEPT ![c] = Append(@, cmd)]

\* A sleeping worker is woken when there is work for it, some servers do so more
\* than once.
ServerWakes(c) ==
    /\ Doable(c) # {}
    /\ \/ srv[c] = "asleep" /\ UNCHANGED noops
       \/ srv[c] = "woken" /\ noops < MaxNoops /\ ExtrasLeft /\ noops' = noops + 1
    /\ srv' = [srv EXCEPT ![c] = "woken"]
    /\ ServerSends(c, Plain("NOOP"))
    /\ UNCHANGED <<workerVars, sessionVars, outgoing, wire, srvAbil, job,
                   updates, changes, stops, shutdowns>>

ServerGrants(c) ==
    /\ Head(wire[c]).cmd = "GRAB_JOB_UNIQ"
    /\ srv' = [srv EXCEPT ![c] = "awake"]
    /\ \/ /\ Doable(c) = {}
          /\ ServerSends(c, Plain("NO_JOB"))
          /\ UNCHANGED job
       \/ \E j \in Doable(c) :
             /\ ServerSends(c, AboutJob("JOB_ASSIGN_UNIQ", j))
             /\ job' = [job EXCEPT ![j].state = "assigned"]
    /\ UNCHANGED srvAbil

ServerNotes(c) ==
    LET m == Head(wire[c])
    IN  /\ \/ /\ m.cmd = "CAN_DO"
              /\ srvAbil' = [srvAbil EXCEPT ![c] = m.tasks]
              /\ UNCHANGED <<srv, job>>
           \/ /\ m.cmd = "PRE_SLEEP"
              /\ srv' = [srv EXCEPT ![c] = "asleep"]
              /\ UNCHANGED <<srvAbil, job>>
           \/ /\ m.cmd = "WORK_STATUS"
              /\ UNCHANGED <<srv, srvAbil, job>>
           \/ /\ m.cmd \in Verdicts
              /\ job' = [job EXCEPT ![m.job].state =
                            IF m.cmd = "WORK_COMPLETE" THEN "done" ELSE "failed"]
              /\ UNCHANGED <<srv, srvAbil>>
        /\ UNCHANGED inbound

ServerReads(c) ==
    /\ srv[c] # "gone"
    /\ wire[c] # <<>>
    /\ ServerGrants(c) \/ ServerNotes(c)
    /\ wire' = [wire EXCEPT ![c] = Tail(@)]
    /\ UNCHANGED <<workerVars, sessionVars, outgoing, boundVars>>

\* The server, or the network, gives the connection up.  The worker can still
\* read what had been sent.
ServerDrops(c) ==
    /\ srv[c] # "gone"
    /\ srv' = [srv EXCEPT ![c] = "gone"]
    /\ srvAbil' = [srvAbil EXCEPT ![c] = {}]
    /\ wire' = [wire EXCEPT ![c] = <<>>]
    /\ job' = Requeued({c})
    /\ UNCHANGED <<workerVars, sessionVars, outgoing, inbound, boundVars>>

-----------------------------------------------------------------------------
Receive(c) == RecvNoop(c) \/ RecvNoJob(c) \/ RecvJobAssign(c) \/ RecvRaises(c)

Execute ==
    \/ JobUpdate \/ JobReturnsInVain \/ JobInterrupted
    \/ UpdateSent \/ ResultSent \/ ConnectionDiesInWait
    \/ \E verdict \in Verdicts : JobReturns(verdict)

Server(c) == ServerWakes(c) \/ ServerReads(c) \/ ServerDrops(c)

Next ==
    \/ StartWork \/ CallbackGoesOn \/ RoundEnds \/ Reestablish \/ NoConnections
    \/ StopWork \/ Shutdown
    \/ \E A \in SUBSET Tasks : SetAbilities(A)
    \/ \E c \in Conns : HandleWrite(c) \/ Receive(c) \/ ConnectionDies(c) \/ Server(c)
    \/ Execute
    \/ \E j \in Jobs : \/ \E c \in Conns, t \in Tasks : ClientSubmits(j, c, t)
                       \/ OtherWorkerTakes(j)

Spec == Init /\ [][Next]_vars

\* The poll loops serve every connection that has something for them, callbacks
\* return, and servers read, wake sleeping workers.
Fairness ==
    /\ \A c \in Conns :
          /\ WF_vars(HandleWrite(c))
          /\ WF_vars(Receive(c))
          /\ WF_vars(ConnectionDies(c))
          /\ WF_vars(ServerWakes(c))
          /\ WF_vars(ServerReads(c))
    /\ WF_vars(Execute)

FairSpec == Spec /\ Fairness
-----------------------------------------------------------------------------
(***************************************************************************)
(* What the worker promises.                                               *)
(***************************************************************************)

Live(c) == connected[c] /\ srv[c] # "gone"

\* What c has said to the server and the server has not yet read.
Said(c) == wire[c] \o outgoing[c]

Saying(c, cmds) == {i \in DOMAIN Said(c) : Said(c)[i].cmd \in cmds}
Hearing(c, cmds) == {i \in DOMAIN inbound[c] : inbound[c][i].cmd \in cmds}

\* Every way in which c is busy with a job or with asking for one.
Grabs(c) ==
    IF ~connected[c] THEN {} ELSE
        {<<"said", i>> : i \in Saying(c, {"GRAB_JOB_UNIQ"})}
          \cup {<<"heard", i>> : i \in Hearing(c, {"JOB_ASSIGN_UNIQ", "NO_JOB"})}
          \cup (IF running # None /\ running.conn = c THEN {<<"running", 0>>} ELSE {})

\* set_job_lock: "so we don't try to hold onto 2 jobs at anytime".  Over all
\* connections there is at most one request for a job, answer to one, or job.
OneGrab ==
    \A c, d \in Conns : \A g \in Grabs(c), h \in Grabs(d) : c = d /\ g = h

\* Whoever holds the lock is on the way to releasing it: it is the live handler
\* of a connection that is up and waits for an answer, or runs a job, or the
\* connection's death is still to be noticed.  Otherwise no connection of this
\* worker could ever take a job again.
LockIsOwed ==
    lock # None => LET c == lock[1] IN
        /\ lock = Handler(c)
        /\ connected[c]
        /\ Grabs(c) # {} \/ srv[c] = "gone"

\* worker_handler.py: "AWAITING_JOB -> Holding worker level job lock and awaiting
\* a server response".  In work(), a held lock is so held, whatever came before.
LockHolderAwaits == working => LockIsOwed

\* A job a server believes this worker has is on its way to the callback, in it,
\* or its verdict is on the way back: the worker never drops one and stays
\* connected, which would leave the job undone for as long as it lives.
AssignedIsHandled ==
    \A j \in Jobs : job[j].state = "assigned" => LET c == job[j].server IN
        \/ \E i \in Hearing(c, {"JOB_ASSIGN_UNIQ"}) : inbound[c][i].job = j
        \/ running # None /\ running.job = j /\ running.conn = c
              /\ running.step # "result"
        \/ \E i \in Saying(c, Verdicts) : Said(c)[i].job = j

\* A connection that is not busy is asleep, about to sleep, or about to be woken:
\* a server that has work for this worker will be able to say so.
NoLostWakeup ==
    \A c \in Conns : Live(c) =>
        \/ Grabs(c) # {}
        \/ srv[c] = "asleep"
        \/ Saying(c, {"PRE_SLEEP"}) # {}
        \/ Hearing(c, {"NOOP"}) # {}

\* What a live server will believe this worker can do, once it has read what has
\* been said, is what is registered with the worker now.
AbilitiesInSync ==
    \A c \in Conns : Live(c) =>
        LET said == Saying(c, {"CAN_DO"}) IN
            IF said = {} THEN srvAbil[c] = abilities
            ELSE \E i \in said : /\ \A k \in said : k <= i
                                 /\ Said(c)[i].tasks = abilities

\* worker.py, after_job: "stopping the GearmanWorker in between jobs".  When it is
\* called, however the lock came to be free, no connection has asked for a job, is
\* assigned one or runs one, and every job a server believes this worker to have
\* has its verdict on the wire: closing the connections undoes and repeats no job.
StopAfterJobIsClean ==
    AfterJob =>
        /\ \A c \in Conns : Grabs(c) = {}
        /\ \A j \in Jobs : job[j].state = "assigned" =>
              LET c == job[j].server IN
              \E i \in DOMAIN wire[c] : wire[c][i] \in {AboutJob(v, j) : v \in Verdicts}

\* A job that waits at a server for a task this worker does leaves it in the end, to
\* be done or fail here, or to go to another worker: as long as the worker works and
\* its connection to that server lasts.  That its other connections come and go, and
\* hold the job lock meanwhile, may delay it.
Attended(j) == LET c == job[j].server IN
    working /\ Live(c) /\ job[j].task \in abilities
Pending(j) == job[j].state \in {"queued", "assigned"}
QueuedIsServed ==
    \A j \in Jobs : Pending(j) /\ Attended(j) ~> ~Pending(j) \/ ~Attended(j)

\* worker.py, work(): "Loop indefinitely, complete tasks from all connections."
\* Unless it is told to stop, work() goes on while some connection is up.
LoopsIndefinitely ==
    [][working /\ ~working' /\ stops' = stops => \A c \in Conns : ~connected'[c]]_vars

\* worker.py, after_job: "Callback to notify any outside listeners that a
\* GearmanWorker has completed the current job."  A job whose lock was given back is
\* notified once: after_job is not due again before another lock was taken.
NotifiedOnce ==
    [][AfterJob /\ CallbackGoesOn => ~HadJob]_vars

\* worker_handler.py, recv_job_assign_uniq: "AWAITING_JOB -> EXECUTE_JOB ->
\* SLEEP :: Always transition once we're given a job".
AlwaysTransitions ==
    [][\A c \in Conns : RecvRaises(c) => Head(inbound[c]).cmd # "JOB_ASSIGN_UNIQ"]_vars
=============================================================================
