------------------------------ MODULE PollLoop ------------------------------
(***************************************************************************)
(* poll_connections_until_stopped (connection_manager.py) as a round of    *)
(* steps, over epoll or over io.py's _Select where there is no epoll.      *)
(*                                                                         *)
(* A round reads from every connection that is ready, then writes, then    *)
(* deals with those the poller or the reads and writes found dead.  Only   *)
(* ConnectionError is caught on the way: any other exception, of a recv_   *)
(* method or of packing, leaves the loop there and then.                   *)
(*                                                                         *)
(* ClientPoll and Worker model what the waits and work() do with the loop, *)
(* nested loops and connections made in a callback among it; here the      *)
(* callback is any callback that does neither, and a command is what its   *)
(* recv_ method does: it returns True, returns False or raises.            *)
(***************************************************************************)
EXTENDS Naturals, Sequences, FiniteSets

CONSTANTS
    Conns,          \* GearmanConnection objects
    Pollers,        \* of "epoll" and "_Select", the ones to look at
    Py3,            \* map() is lazy, as from Python 3
    MaxSaid,        \* bound: commands the servers say
    MaxSent,        \* bound: commands given to send_command
    MaxSessions     \* bound: connections made

ASSUME LoopAssumption ==
    /\ IsFiniteSet(Conns)
    /\ Pollers \subseteq {"epoll", "_Select"}
    /\ Py3 \in BOOLEAN
    /\ {MaxSaid, MaxSent, MaxSessions} \subseteq Nat

RecvKinds == {"true", "false", "raises"}
SendKinds == {"packs", "raises"}

VARIABLES
    poller,         \* what get_connection_poller returns
    \* per connection
    connected, socket, handled,
    peer,           \* whether the server still holds the other end
    arrived,        \* commands said and not yet read
    incoming,       \* _incoming_commands
    outgoing,       \* _outgoing_commands
    \* the loop
    phase,          \* "idle", "callback", "poll", "select" or "round"
    submitted,      \* submitted_connections
    map,            \* the connections of connection_map
    rd, wr, ex,     \* read_, write_ and ex_connections not yet dealt with
    dead,           \* dead_connections not yet dealt with
    failed,         \* those handle_error was called with in this round
    \* _Select
    read, write,    \* self.read and self.write
    candidates,     \* connections, in poll()
    errors,         \* errors, in poll()
    \* history and bounds
    abandoned,      \* found dead in a round that an exception ended
    said, sends, sessions

connVars   == <<connected, socket, handled, peer, arrived, incoming, outgoing>>
roundVars  == <<rd, wr, ex, dead, failed>>
loopVars   == <<phase, submitted, map, roundVars>>
selectVars == <<read, write, candidates, errors>>
boundVars  == <<said, sends, sessions>>
vars == <<poller, connVars, loopVars, selectVars, abandoned, boundVars>>

LoopTypeOK ==
    /\ poller \in {"epoll", "_Select"}
    /\ {connected, socket, handled} \subseteq [Conns -> BOOLEAN]
    /\ \A c \in Conns : connected[c] => socket[c] /\ handled[c]
    /\ peer \in [Conns -> {"open", "closed"}]
    /\ {arrived, incoming} \subseteq [Conns -> Seq(RecvKinds)]
    /\ outgoing \in [Conns -> Seq(SendKinds)]
    /\ phase \in {"idle", "callback", "poll", "select", "round"}
    /\ {submitted, map, rd, wr, ex, dead, failed, read, write, candidates, errors,
        abandoned} \subseteq SUBSET Conns
    /\ phase # "round" => rd = {} /\ wr = {} /\ ex = {} /\ dead = {} /\ failed = {}
    /\ {said, sends, sessions} \subseteq Nat

Init ==
    /\ poller \in Pollers
    /\ connected = [c \in Conns |-> FALSE]
    /\ socket = [c \in Conns |-> FALSE]
    /\ handled = [c \in Conns |-> FALSE]
    /\ peer = [c \in Conns |-> "closed"]
    /\ arrived = [c \in Conns |-> <<>>]
    /\ incoming = [c \in Conns |-> <<>>]
    /\ outgoing = [c \in Conns |-> <<>>]
    /\ phase = "idle"
    /\ submitted = {} /\ map = {}
    /\ rd = {} /\ wr = {} /\ ex = {} /\ dead = {} /\ failed = {}
    /\ read = {} /\ write = {} /\ candidates = {} /\ errors = {}
    /\ abandoned = {}
    /\ said = 0 /\ sends = 0 /\ sessions = 0

-----------------------------------------------------------------------------
(***************************************************************************)
(* Outside the loop.                                                       *)
(***************************************************************************)

\* establish_connection, with a new handler.
Establish(c) ==
    /\ phase = "idle"
    /\ ~connected[c]
    /\ sessions < MaxSessions
    /\ sessions' = sessions + 1
    /\ connected' = [connected EXCEPT ![c] = TRUE]
    /\ socket' = [socket EXCEPT ![c] = TRUE]
    /\ handled' = [handled EXCEPT ![c] = TRUE]
    /\ peer' = [peer EXCEPT ![c] = "open"]
    /\ arrived' = [arrived EXCEPT ![c] = <<>>]
    /\ incoming' = [incoming EXCEPT ![c] = <<>>]
    /\ outgoing' = [outgoing EXCEPT ![c] = <<>>]
    /\ abandoned' = abandoned \ {c}
    /\ UNCHANGED <<poller, loopVars, selectVars, said, sends>>

\* The application, or a callback, gives a handler something to send.
SendCommand(c, kind) ==
    /\ phase \in {"idle", "callback"}
    /\ handled[c]
    /\ sends < MaxSent
    /\ sends' = sends + 1
    /\ outgoing' = [outgoing EXCEPT ![c] = Append(@, kind)]
    /\ UNCHANGED <<poller, connected, socket, handled, peer, arrived, incoming, loopVars,
                   selectVars, abandoned, said, sessions>>

ServerSays(c, kind) ==
    /\ peer[c] = "open"
    /\ said < MaxSaid
    /\ said' = said + 1
    /\ arrived' = [arrived EXCEPT ![c] = Append(@, kind)]
    /\ UNCHANGED <<poller, connected, socket, handled, peer, incoming, outgoing, loopVars,
                   selectVars, abandoned, sends, sessions>>

PeerCloses(c) ==
    /\ peer[c] = "open"
    /\ peer' = [peer EXCEPT ![c] = "closed"]
    /\ UNCHANGED <<poller, connected, socket, handled, arrived, incoming, outgoing,
                   loopVars, selectVars, abandoned, boundVars>>

\* poll_connections_until_stopped is called, with connections of the manager, up or
\* not.  It begins with the callback.
StartLoop(S) ==
    /\ phase = "idle"
    /\ phase' = "callback"
    /\ submitted' = S
    /\ map' = {}
    /\ read' = {} /\ write' = {} /\ candidates' = {} /\ errors' = {}
    /\ UNCHANGED <<poller, connVars, roundVars, abandoned, boundVars>>

-----------------------------------------------------------------------------
(***************************************************************************)
(* The callback and the registration.                                      *)
(***************************************************************************)

\* A mistake to catch: a connection nobody waits for keeps the loop going.
ConnectionOkAnywhere(conn) == \E c \in Conns : conn[c]

\* connection_ok, when conn tells which connections are up.
ConnectionOk(conn) == \E c \in submitted : conn[c]

Readable(c) == connected[c]
Writable(c) == connected[c] /\ outgoing[c] # <<>>

\* What the poller is given: every submitted connection that has a socket is
\* registered anew.  _Select keeps those that have lost theirs; epoll has forgotten
\* them when they were closed.
Open == {c \in submitted : socket[c]}
Registered(set, due) == (set \ Open) \cup {c \in Open : due[c]}
Register ==
    /\ read' = Registered(read, [c \in Conns |-> Readable(c)])
    /\ write' = Registered(write, [c \in Conns |-> Writable(c)])

\* The loop goes on, or raises ServerUnavailable without anybody to poll.
Continue(conn) ==
    phase' = IF ConnectionOk(conn) THEN "poll" ELSE "idle"

\* The callback returns True.  The connections that are up before the first round
\* make connection_map.
CallbackGoesOn ==
    /\ phase = "callback"
    /\ Continue(connected)
    /\ map' = IF map = {} THEN {c \in submitted : connected[c]} ELSE map
    /\ UNCHANGED <<poller, connVars, submitted, roundVars, selectVars, abandoned, boundVars>>

\* The callback, as a job's or after_poll may, calls shutdown(): close() of every
\* connection, which leaves the handlers as they are.
CallbackShutsDown ==
    /\ phase = "callback"
    /\ \E c \in Conns : socket[c]
    /\ connected' = [c \in Conns |-> FALSE]
    /\ socket' = [c \in Conns |-> FALSE]
    /\ peer' = [c \in Conns |-> "closed"]
    /\ arrived' = [c \in Conns |-> <<>>]
    /\ incoming' = [c \in Conns |-> <<>>]
    /\ outgoing' = [c \in Conns |-> <<>>]
    /\ abandoned' = {}
    /\ Continue(connected')
    /\ UNCHANGED <<poller, handled, submitted, map, roundVars, selectVars, boundVars>>

\* select() asks every connection for its descriptor; one that has no socket raises.
SelectWorks == \A c \in read \cup write : socket[c]

\* The callback returns False, or the time is up; with connections that have no socket
\* still to be reported, poll() then ends with an exception.
Leave ==
    /\ \/ phase \in {"callback", "poll"}
       \/ phase = "select" /\ SelectWorks
    /\ phase' = "idle"
    /\ UNCHANGED <<poller, connVars, submitted, map, roundVars, selectVars, abandoned,
                   boundVars>>

-----------------------------------------------------------------------------
(***************************************************************************)
(* Polling.                                                                *)
(***************************************************************************)

Ready(c) == socket[c] /\ (arrived[c] # <<>> \/ peer[c] = "closed")

\* A round with what the poller reports: all that is ready to be read, some of what
\* may be written, some of the closed connections as errors.
Round(watched, writable, closed) ==
    /\ phase' = "round"
    /\ rd' = {c \in watched : Ready(c)}
    /\ wr' \in SUBSET writable
    /\ ex' \in SUBSET closed
    /\ rd' \cup wr' \cup ex' # {}
    /\ UNCHANGED <<dead, failed>>

\* epoll.  An event of a descriptor that is not in connection_map is passed over.
PollEpoll ==
    /\ phase = "poll" /\ poller = "epoll"
    /\ Register
    /\ LET known == map \cap Open IN
       Round(read' \cap known, write' \cap known,
             {c \in known : peer[c] = "closed"})
    /\ UNCHANGED <<poller, connVars, submitted, map, candidates, errors, abandoned,
                   boundVars>>

\* _Select.poll begins.
StartSelect ==
    /\ phase = "poll" /\ poller = "_Select"
    /\ phase' = "select"
    /\ Register
    /\ candidates' = read' \cup write'
    /\ errors' = {}
    /\ UNCHANGED <<poller, connVars, submitted, map, roundVars, abandoned, boundVars>>

\* A mistake to catch: what is bad stays in the set, whatever the Python.
DiscardNone(set, bad) == set

\* map(set.discard, bad), which does nothing in Python 3.
Discard(set, bad) == IF Py3 THEN set ELSE set \ bad

\* _find_bad_connections: each is given to select() alone.
Bad(connections) == {c \in connections : ~socket[c]}

\* Connections without a socket are looked for among the candidates and dropped.
SelectFails ==
    /\ phase = "select" /\ candidates # {}
    /\ ~SelectWorks
    /\ candidates' = candidates \ errors
    /\ LET bad == Bad(candidates') IN
       /\ errors' = errors \cup bad
       /\ read' = Discard(read, bad)
       /\ write' = Discard(write, bad)
    /\ UNCHANGED <<poller, connVars, loopVars, abandoned, boundVars>>

SelectReturns ==
    /\ phase = "select" /\ candidates # {}
    /\ SelectWorks /\ errors = {}
    /\ candidates' = {}
    /\ Round(read \cap map, write \cap map, {})
    /\ UNCHANGED <<poller, connVars, submitted, map, read, write, errors, abandoned,
                   boundVars>>

\* A connection without a socket is reported by its descriptor, which raises
\* ConnectionError, out of the loop.
SelectRaises ==
    /\ phase = "select" /\ errors # {}
    /\ \/ candidates = {}
       \/ SelectWorks /\ (write # {} \/ \E c \in read : Ready(c))
    /\ phase' = "idle"
    /\ UNCHANGED <<poller, connVars, submitted, map, roundVars, selectVars, abandoned,
                   boundVars>>

-----------------------------------------------------------------------------
(***************************************************************************)
(* The round.                                                              *)
(***************************************************************************)

\* An exception other than ConnectionError ends the round and the loop.
Escape ==
    /\ phase' = "idle"
    /\ rd' = {} /\ wr' = {} /\ ex' = {} /\ dead' = {} /\ failed' = {}
    /\ abandoned' = abandoned \cup dead \cup {c \in ex : ~connected[c]}
    /\ UNCHANGED <<submitted, map>>

\* A mistake to catch: the exception is caught and forgotten.
LostQuietly(c) ==
    /\ connected' = [connected EXCEPT ![c] = FALSE]
    /\ UNCHANGED dead

\* throw_exception, and the except clause.
Lost(c) ==
    /\ connected' = [connected EXCEPT ![c] = FALSE]
    /\ dead' = dead \cup {c}

Drop(s, n) == SubSeq(s, n + 1, Len(s))

\* fetch_commands takes that many off the queue: up to the first whose recv_ method
\* does not return True.
Fetched(queue, taken) ==
    /\ \A i \in 1 .. taken - 1 : queue[i] = "true"
    /\ queue[taken] # "true" \/ taken = Len(queue)

\* handle_read of a connection that has something to read ...
HandleRead(c) ==
    /\ phase = "round" /\ c \in rd
    /\ connected[c] /\ arrived[c] # <<>>
    /\ \E n \in 1 .. Len(arrived[c]) :
          LET queue == incoming[c] \o SubSeq(arrived[c], 1, n) IN
          \E taken \in DOMAIN queue :
             /\ Fetched(queue, taken)
             /\ arrived' = [arrived EXCEPT ![c] = Drop(@, n)]
             /\ incoming' = [incoming EXCEPT ![c] = Drop(queue, taken)]
             /\ \/ queue[taken] = "raises" /\ Escape
                \/ /\ queue[taken] # "raises"
                   /\ rd' = rd \ {c}
                   /\ UNCHANGED <<phase, submitted, map, wr, ex, dead, failed, abandoned>>
    /\ UNCHANGED <<poller, connected, socket, handled, peer, outgoing, selectVars,
                   boundVars>>

\* ... and of one whose peer has closed it, or that is not up.
HandleReadDead(c) ==
    /\ phase = "round" /\ c \in rd
    /\ connected[c] => arrived[c] = <<>> /\ peer[c] = "closed"
    /\ rd' = rd \ {c}
    /\ Lost(c)
    /\ UNCHANGED <<poller, socket, handled, peer, arrived, incoming, outgoing, phase,
                   submitted, map, wr, ex, failed, selectVars, abandoned, boundVars>>

ReadsDone == phase = "round" /\ rd = {}

Packs(queue) == \A i \in DOMAIN queue : queue[i] = "packs"

\* Packing raises at the n-th command, which is off the queue with those before it.
PackingRaises(queue, n) ==
    queue[n] = "raises" /\ \A i \in 1 .. n - 1 : queue[i] = "packs"

\* handle_write: everything is packed first, and packing may raise.
HandleWriteRaises(c) ==
    /\ ReadsDone /\ c \in wr
    /\ \E n \in DOMAIN outgoing[c] :
          /\ PackingRaises(outgoing[c], n)
          /\ outgoing' = [outgoing EXCEPT ![c] = Drop(@, n)]
    /\ Escape
    /\ UNCHANGED <<poller, connected, socket, handled, peer, arrived, incoming, selectVars,
                   boundVars>>

HandleWrite(c) ==
    /\ ReadsDone /\ c \in wr
    /\ Packs(outgoing[c])
    /\ wr' = wr \ {c}
    /\ outgoing' = [outgoing EXCEPT ![c] = <<>>]
    /\ \/ connected[c] /\ UNCHANGED <<connected, dead>>
       \/ (connected[c] => peer[c] = "closed") /\ Lost(c)
    /\ UNCHANGED <<poller, socket, handled, peer, arrived, incoming, phase, submitted, map,
                   rd, ex, failed, selectVars, abandoned, boundVars>>

\* A mistake to catch: what the poller reports is closed, and not marked as down.
CloseUnmarked(c) ==
    /\ handled' = [handled EXCEPT ![c] = FALSE]
    /\ socket' = [socket EXCEPT ![c] = FALSE]
    /\ UNCHANGED <<connected, peer, arrived, incoming, outgoing>>

\* handle_error: the handler is told and dropped, the connection closed.
CloseAndTell(c) ==
    /\ handled' = [handled EXCEPT ![c] = FALSE]
    /\ connected' = [connected EXCEPT ![c] = FALSE]
    /\ socket' = [socket EXCEPT ![c] = FALSE]
    /\ peer' = [peer EXCEPT ![c] = "closed"]
    /\ arrived' = [arrived EXCEPT ![c] = <<>>]
    /\ incoming' = [incoming EXCEPT ![c] = <<>>]
    /\ outgoing' = [outgoing EXCEPT ![c] = <<>>]

\* It may come twice for a connection, once for the poller's report.
HandleError(c) ==
    /\ ReadsDone /\ wr = {}
    /\ \/ c \in ex /\ ex' = ex \ {c} /\ UNCHANGED dead
       \/ ex = {} /\ c \in dead /\ dead' = dead \ {c} /\ UNCHANGED ex
    /\ failed' = failed \cup {c}
    /\ CloseAndTell(c)
    /\ UNCHANGED <<poller, phase, submitted, map, rd, wr, selectVars, abandoned, boundVars>>

RoundEnds ==
    /\ ReadsDone /\ wr = {} /\ ex = {} /\ dead = {}
    /\ phase' = "callback"
    /\ submitted' = submitted \ failed
    /\ failed' = {}
    /\ UNCHANGED <<poller, connVars, map, rd, wr, ex, dead, selectVars, abandoned,
                   boundVars>>

-----------------------------------------------------------------------------
LoopStep ==
    \/ CallbackGoesOn \/ PollEpoll
    \/ StartSelect \/ SelectFails \/ SelectReturns \/ SelectRaises
    \/ \E c \in Conns : \/ HandleRead(c) \/ HandleReadDead(c)
                        \/ HandleWrite(c) \/ HandleWriteRaises(c) \/ HandleError(c)
    \/ RoundEnds

Next ==
    \/ LoopStep \/ CallbackShutsDown \/ Leave
    \/ \E S \in (SUBSET Conns) : StartLoop(S)
    \/ \E c \in Conns : \/ Establish(c) \/ PeerCloses(c)
                        \/ \E kind \in SendKinds : SendCommand(c, kind)
                        \/ \E kind \in RecvKinds : ServerSays(c, kind)

Spec == Init /\ [][Next]_vars

\* The loop runs: a callback returns, a poller reports what is ready.
FairSpec == Spec /\ WF_vars(LoopStep)

-----------------------------------------------------------------------------
(***************************************************************************)
(* What the loop promises.                                                 *)
(***************************************************************************)

\* connection_manager.py: "Handle reads and writes and close all of the dead
\* connections".  Between rounds, whichever of read, write and poller found it, and
\* however often, a connection found dead is closed and its handler told; but for
\* those found in a round that an exception of another connection's ended.
DeadAreTold ==
    \A c \in Conns : socket[c] /\ ~connected[c] /\ phase # "round" => c \in abandoned

\* connection_manager.py: "don't go into a select polling loop with no connections".
\* Whatever the round and the callback did, who blocks in the poller listens to a
\* connection that is up.
NeverPollsNone ==
    phase \in {"poll", "select"} => \E c \in submitted : connected[c]

\* What has arrived on a connection that is up and waited for is read, whatever happens
\* to the others, as long as the loop lasts.
Polled(c) == phase # "idle" /\ c \in submitted /\ connected[c]
ReadyIsServed ==
    \A c \in Conns : Polled(c) /\ arrived[c] # <<>> ~> ~Polled(c) \/ arrived[c] = <<>>
=============================================================================
