---------------------------- MODULE AdminClient -----------------------------
(***************************************************************************)
(* GearmanAdminClient (admin_client.py) and its command handler            *)
(* (admin_client_handler.py): blocking calls over one connection, whose    *)
(* answers carry nothing that tells which call they answer.  A reply is    *)
(* read under the oldest command in _sent_commands, and the next reply     *)
(* goes to the caller that is waiting.                                     *)
(*                                                                         *)
(* The commands differ in how their reply is read:                         *)
(*   status   "status", "workers", "show jobs", "show unique jobs": lines  *)
(*            until a "."                                                  *)
(*   version  "version", "getpid", "shutdown", "cancel job": one line      *)
(*   maxqueue one line, that must be "OK"                                  *)
(*   echo     a binary ECHO_RES                                            *)
(* A line is modelled by its kind and the call whose reply it belongs to.  *)
(***************************************************************************)
EXTENDS Naturals, Sequences, SequencesExt

CONSTANTS
    None,
    MayTimeOut,     \* does poll_timeout run out?
    MayRefuse,      \* does the server answer maxqueue with an error?
    Py3,            \* Python 3: what is received is bytes, the literals are not
    MaxRows,        \* bound: lines of a status reply before its "."
    MaxCalls,       \* bound: calls of the application
    MaxLosses       \* bound: connections lost

Types    == {"status", "version", "maxqueue", "echo"}

ASSUME AdminAssumption ==
    /\ {MayTimeOut, MayRefuse, Py3} \subseteq BOOLEAN
    /\ {MaxRows, MaxCalls, MaxLosses} \subseteq Nat
    /\ None \notin [call : Nat, type : Types]

Kinds    == {"row", "end", "text", "OK", "ERR", "echo"}
Outcomes == {"none", "answered", "timeout", "unexpected", "mismatch", "protocol",
             "unavailable"}

VARIABLES
    connected,      \* connected of the one connection
    sentCommands,   \* _sent_commands of the current handler
    partial,        \* _status_response, _workers_response: rows so far
    recvResponses,  \* _recv_responses
    incoming,       \* _incoming_commands of the connection
    outgoing,       \* its commands that are not yet written
    serverQueue,    \* requests the server has yet to answer
    inbound,        \* replies on their way
    waiting,        \* the call in wait_until_server_responds, or None
    outcome,        \* how the last call ended
    answer,         \* what it returned
    mishaps,        \* the calls of this session that ended so: timeout, protocol
    calls, losses   \* the bounds

handlerVars == <<sentCommands, partial, recvResponses>>
wireVars    == <<incoming, outgoing, serverQueue, inbound>>
callVars    == <<waiting, outcome, answer, mishaps>>
vars == <<connected, handlerVars, wireVars, callVars, calls, losses>>

Commands == [call : Nat, type : Types]
Lines    == [call : Nat, kind : Kinds]

TypeOK ==
    /\ connected \in BOOLEAN
    /\ {sentCommands, outgoing, serverQueue} \subseteq Seq(Commands)
    /\ {partial, incoming, inbound} \subseteq Seq(Lines)
    /\ recvResponses \in Seq(Seq(Lines))
    /\ waiting \in Commands \cup {None}
    /\ outcome \in Outcomes
    /\ answer \in Seq(Lines)
    /\ mishaps \subseteq {"timeout", "protocol"}
    /\ calls \in Nat /\ losses \in Nat

Init ==
    /\ connected = FALSE
    /\ sentCommands = <<>> /\ partial = <<>> /\ recvResponses = <<>>
    /\ incoming = <<>> /\ outgoing = <<>> /\ serverQueue = <<>> /\ inbound = <<>>
    /\ waiting = None /\ outcome = "none" /\ answer = <<>>
    /\ mishaps = {}
    /\ calls = 0 /\ losses = 0

-----------------------------------------------------------------------------
(***************************************************************************)
(* A call: establish_admin_connection, the handler's send_text_command or  *)
(* send_echo_request, and wait_until_server_responds.                      *)
(***************************************************************************)

\* The call is over.
Ends(how, what) ==
    /\ waiting' = None /\ outcome' = how /\ answer' = what
    /\ mishaps' = mishaps \cup ({how} \cap {"timeout", "protocol"})

\* On a new connection a new handler starts, with empty queues.
Call(type) ==
    LET cmd == [call |-> calls + 1, type |-> type] IN
    /\ waiting = None
    /\ calls < MaxCalls
    /\ calls' = calls + 1
    /\ connected' = TRUE
    /\ sentCommands' = IF connected THEN Append(sentCommands, cmd) ELSE <<cmd>>
    /\ outgoing' = IF connected THEN Append(outgoing, cmd) ELSE <<cmd>>
    /\ IF connected
       THEN UNCHANGED <<partial, recvResponses, incoming, serverQueue, inbound>>
       ELSE /\ partial' = <<>> /\ recvResponses' = <<>>
            /\ incoming' = <<>> /\ serverQueue' = <<>> /\ inbound' = <<>>
    /\ waiting' = cmd /\ outcome' = "none" /\ answer' = <<>>
    /\ mishaps' = IF connected THEN mishaps ELSE {}
    /\ UNCHANGED losses

\* The server cannot be reached.
CallFails ==
    /\ waiting = None
    /\ calls < MaxCalls
    /\ ~connected
    /\ calls' = calls + 1
    /\ Ends("unavailable", <<>>)
    /\ UNCHANGED <<connected, handlerVars, wireVars, losses>>

\* continue_while_no_response: the wait goes on while no response is ready.
Polling == waiting # None /\ recvResponses = <<>>

HandleWrite ==
    /\ Polling
    /\ outgoing # <<>>
    /\ serverQueue' = serverQueue \o outgoing
    /\ outgoing' = <<>>
    /\ UNCHANGED <<connected, handlerVars, incoming, inbound, callVars, calls, losses>>

-----------------------------------------------------------------------------
(***************************************************************************)
(* Reading: recv_echo_res, recv_text_command and the recv_server_* methods *)
(* it chooses from.                                                        *)
(***************************************************************************)

Oldest == sentCommands[1].type

\* What recv_text_command's callback, chosen by the oldest command, does with line m:
\* it collects a row, completes a response, or raises.
Reads(m) ==
    CASE m.kind = "echo" -> "response"
      [] m.kind # "echo" /\ sentCommands = <<>> -> "raises"
      [] m.kind # "echo" /\ sentCommands # <<>> ->
           CASE Oldest = "version"  -> "response"
             [] Oldest = "status"   -> IF Py3 THEN "raises"
                                       ELSE IF m.kind = "row" THEN "row"
                                       ELSE IF m.kind = "end" THEN "response" ELSE "raises"
             [] Oldest = "maxqueue" -> IF m.kind = "OK" /\ ~Py3 THEN "response"
                                       ELSE "raises"
             [] Oldest = "echo"     -> "raises"

\* A mistake to catch: a row stops the handler as a response does.
StopsAtRows(queue) == DOMAIN queue

\* The callbacks return False when they have a response.
Stops(queue) == {i \in DOMAIN queue : Reads(queue[i]) # "row"}

\* A mistake to catch: that there is a response is noted, the response is not.
ResponsesUnset(rows, last) == IF Reads(last) # "response" THEN <<>> ELSE <<None>>

\* What the last line taken off the queue adds to _recv_responses.
Responses(rows, last) ==
    IF Reads(last) # "response" THEN <<>>
    ELSE IF last.kind = "end" /\ Oldest = "status" THEN <<Append(rows, last)>>
    ELSE << <<last>> >>

\* A mistake to catch: the rows are not forgotten when the response is made.
RowsKept(rows, last) == rows

\* What is left in _status_response: the "." that ends a status resets it.
RowsAfter(rows, last) ==
    IF last.kind = "end" /\ Reads(last) = "response" /\ Oldest = "status" THEN <<>>
    ELSE rows

\* fetch_commands takes lines off the queue up to one that stops it.
Fetch(queue) ==
    LET stops == Stops(queue)
        n     == IF stops = {} THEN Len(queue)
                 ELSE CHOOSE i \in stops : \A j \in stops : i <= j
        rows  == partial \o SubSeq(queue, 1, IF stops = {} THEN n ELSE n - 1)
    IN [left      |-> SubSeq(queue, n + 1, Len(queue)),
        partial   |-> RowsAfter(rows, queue[n]),
        responses |-> Responses(rows, queue[n]),
        raised    |-> Reads(queue[n]) = "raises"]

\* handle_read.
HandleRead ==
    /\ Polling
    /\ connected
    /\ \E k \in 1 .. Len(inbound) :
          LET f == Fetch(incoming \o SubSeq(inbound, 1, k)) IN
          /\ inbound' = SubSeq(inbound, k + 1, Len(inbound))
          /\ incoming' = f.left
          /\ partial' = f.partial
          /\ recvResponses' = recvResponses \o f.responses
          /\ IF f.raised THEN Ends("protocol", <<>>) ELSE UNCHANGED callVars
    /\ UNCHANGED <<connected, sentCommands, outgoing, serverQueue, calls, losses>>

\* A mistake to catch: the response is popped, the command it answers is not.
PoppedAlone ==
    /\ waiting # None
    /\ recvResponses # <<>>
    /\ recvResponses' = Tail(recvResponses)
    /\ UNCHANGED sentCommands
    /\ IF Oldest # waiting.type THEN Ends("unexpected", <<>>)
       ELSE IF Oldest = "echo" /\ (Py3 \/ Head(recvResponses)[1].kind # "echo")
       THEN Ends("mismatch", <<>>)
       ELSE Ends("answered", Head(recvResponses))
    /\ UNCHANGED <<connected, partial, wireVars, calls, losses>>

\* pop_response, the check of its type, and ping_server's check of the echo.
Popped ==
    /\ waiting # None
    /\ recvResponses # <<>>
    /\ sentCommands' = Tail(sentCommands)
    /\ recvResponses' = Tail(recvResponses)
    /\ IF Oldest # waiting.type THEN Ends("unexpected", <<>>)
       ELSE IF Oldest = "echo" /\ (Py3 \/ Head(recvResponses)[1].kind # "echo")
       THEN Ends("mismatch", <<>>)
       ELSE Ends("answered", Head(recvResponses))
    /\ UNCHANGED <<connected, partial, wireVars, calls, losses>>

\* A mistake to catch: a call that times out takes its command along.
TimesOutAndForgets ==
    /\ MayTimeOut
    /\ Polling
    /\ sentCommands' = Front(sentCommands)
    /\ Ends("timeout", <<>>)
    /\ UNCHANGED <<connected, partial, recvResponses, wireVars, calls, losses>>

\* poll_timeout has passed and nothing is ready.  What was sent stays sent.
TimesOut ==
    /\ MayTimeOut
    /\ Polling
    /\ Ends("timeout", <<>>)
    /\ UNCHANGED <<connected, handlerVars, wireVars, calls, losses>>

\* handle_error of the only connection, after which the poll loop raises.
LosesConnection ==
    /\ Polling
    /\ connected
    /\ losses < MaxLosses
    /\ losses' = losses + 1
    /\ connected' = FALSE
    /\ incoming' = <<>> /\ outgoing' = <<>>
    /\ serverQueue' = <<>> /\ inbound' = <<>>
    /\ Ends("unavailable", <<>>)
    /\ UNCHANGED <<handlerVars, calls>>

-----------------------------------------------------------------------------
\* The server answers its requests in order.
Reply(cmd) ==
    LET Line(kind) == [call |-> cmd.call, kind |-> kind] IN
    CASE cmd.type = "status"   -> {[i \in 1 .. n + 1 |-> Line(IF i <= n THEN "row" ELSE "end")]
                                      : n \in 0 .. MaxRows}
      [] cmd.type = "version"  -> {<<Line("text")>>}
      [] cmd.type = "maxqueue" -> {<<Line("OK")>>}
                                  \cup (IF MayRefuse THEN {<<Line("ERR")>>} ELSE {})
      [] cmd.type = "echo"     -> {<<Line("echo")>>}

ServerReplies ==
    /\ serverQueue # <<>>
    /\ serverQueue' = Tail(serverQueue)
    /\ \E reply \in Reply(Head(serverQueue)) : inbound' = inbound \o reply
    /\ UNCHANGED <<connected, handlerVars, incoming, outgoing, callVars, calls, losses>>

Next ==
    \/ \E type \in Types : Call(type)
    \/ CallFails
    \/ HandleWrite \/ HandleRead \/ Popped \/ TimesOut \/ LosesConnection
    \/ ServerReplies

Spec == Init /\ [][Next]_vars

\* The poll loop runs, and the server answers.
FairSpec ==
    /\ Spec
    /\ WF_vars(HandleWrite) /\ WF_vars(HandleRead) /\ WF_vars(Popped)
    /\ WF_vars(ServerReplies)

-----------------------------------------------------------------------------
(***************************************************************************)
(* What the calls promise.                                                 *)
(***************************************************************************)

\* A call that returns, returns the reply to its own request, as long as no call
\* of the session has timed out or raised.
AnswerIsOwn ==
    outcome = "answered" /\ mishaps = {} =>
        \A i \in DOMAIN answer : answer[i].call = calls

\* With the same exceptions, nothing of an old call is left between calls to be
\* taken for the answer to the next: every command sent has been answered and
\* every answer used.
CleanBetweenCalls ==
    connected /\ waiting = None /\ mishaps = {} =>
        /\ sentCommands = <<>> /\ recvResponses = <<>> /\ partial = <<>>
        /\ incoming = <<>> /\ inbound = <<>> /\ outgoing = <<>> /\ serverQueue = <<>>

\* However many replies are late, a reply is read as what it is, until one raises:
\* the lines not yet popped belong, in order, to the commands not yet popped, the
\* first of them to the command they are read under.
ReadAsSent ==
    connected /\ "protocol" \notin mishaps =>
        LET lines  == FlattenSeq(recvResponses) \o partial \o incoming \o inbound
            owners == [i \in DOMAIN sentCommands |-> sentCommands[i].call]
            owed   == serverQueue \o outgoing
        IN /\ \A i \in DOMAIN lines : lines[i].call \in ToSet(owners)
           /\ \A i, j \in DOMAIN lines : i < j => lines[i].call <= lines[j].call
           /\ IsSuffix(owed, sentCommands)
           /\ lines # <<>> => lines[1].call = sentCommands[1].call

\* A call ends, even without a poll_timeout, if the server answers.
CallsEnd == waiting # None ~> waiting = None

\* admin_client.py: "This client acts as a BLOCKING client and each call will poll
\* until it receives a satisfactory server response".  A call does not end on the
\* response to another call, or on its own read under another's command.
EachCallSatisfied ==
    /\ outcome # "unexpected"
    /\ outcome = "protocol" => Head(sentCommands).call = calls

\* admin_client.py, ping_server: "Sends off a debugging string to execute an
\* application ping on the Gearman server".  The echo of a server is not refused.
PingSucceeds == outcome # "mismatch"
=============================================================================
