----------------------------- MODULE Connection -----------------------------
(***************************************************************************)
(* One GearmanConnection (connection.py), the part of its connection       *)
(* manager that drives it, and the server at the other end.                *)
(*                                                                         *)
(* A command given to send_command is queued, packed into the outgoing     *)
(* buffer, sent as many bytes at a time as the socket takes, and read by   *)
(* the other side in pieces of any size; what is read is cut into commands *)
(* again, as the binary and the text framings of protocol.py cut it.       *)
(*                                                                         *)
(* A byte is modelled by the command it belongs to and its place there:    *)
(* of its value only what the framing looks at matters.  The first         *)
(* HeaderSize bytes of a binary command tell its length, the last byte of  *)
(* a text command is its newline.                                          *)
(***************************************************************************)
EXTENDS Naturals, Sequences, SequencesExt

CONSTANTS
    Commands,       \* the commands exchanged
    Text,           \* those in the text protocol of the administrative commands
    Stopping,       \* those whose recv_ method returns False, such as ERROR
    Unpackable,     \* those pack_binary_command raises a ProtocolError for
    Size,           \* the number of bytes of every command
    HeaderSize,     \* COMMAND_HEADER_SIZE
    Cooldown,       \* connect_cooldown_seconds
    None,           \* what is cut out of a misaligned buffer
    MaxSent,        \* bound: commands the handler sends in a session
    MaxSaid,        \* bound: commands the server sends in a session
    MaxSessions,    \* bound: sessions
    MaxTime         \* bound: the clock

ASSUME ConnectionAssumption ==
    /\ Text \subseteq Commands /\ Stopping \subseteq Commands
    /\ Unpackable \subseteq Commands
    /\ None \notin Commands
    /\ HeaderSize \in Nat \ {0}
    /\ Size \in [Commands -> Nat \ {0}]
    /\ \A c \in Commands \ Text : Size[c] >= HeaderSize
    /\ Cooldown \in Nat
    /\ {MaxSent, MaxSaid, MaxSessions, MaxTime} \subseteq Nat

VARIABLES
    connected,          \* connected
    socket,             \* gearman_socket is set
    allowed,            \* allowed_connect_time
    outgoingCommands,   \* _outgoing_commands
    outgoingBuffer,     \* _outgoing_buffer
    incomingBuffer,     \* _incoming_buffer
    incomingCommands,   \* _incoming_commands
    handled,            \* a handler is mapped to the connection
    up,                 \* bytes on their way to the server
    down,               \* bytes on their way from the server
    serverBuffer,       \* bytes the server has read and not yet understood
    sent, heard, said, got,     \* the commands of this session: see CommandChannel
    sessions, sends,    \* the bounds: sessions, send_commands of this one
    now,                \* the clock
    lastConnect         \* when connect() last tried to open a socket, 0 if never

bufferVars  == <<outgoingCommands, outgoingBuffer, incomingBuffer, incomingCommands>>
stateVars   == <<connected, socket, allowed, handled>>
networkVars == <<up, down, serverBuffer>>
channelVars == <<sent, heard, said, got>>
clockVars   == <<sessions, sends, now, lastConnect>>
vars == <<bufferVars, stateVars, networkVars, channelVars, clockVars>>

Bytes == [cmd : Commands, at : Nat \ {0}]

ConnTypeOK ==
    /\ connected \in BOOLEAN /\ socket \in BOOLEAN /\ handled \in BOOLEAN
    /\ connected => socket /\ handled
    /\ allowed \in Nat
    /\ {outgoingCommands, sent, said} \subseteq Seq(Commands)
    /\ {incomingCommands, heard, got} \subseteq Seq(Commands \cup {None})
    /\ {outgoingBuffer, incomingBuffer, up, down, serverBuffer} \subseteq Seq(Bytes)
    /\ sessions \in Nat /\ sends \in Nat /\ now \in Nat /\ lastConnect \in Nat

-----------------------------------------------------------------------------
(***************************************************************************)
(* Packing and cutting.                                                    *)
(***************************************************************************)

Frame(c) == [i \in 1 .. Size[c] |-> [cmd |-> c, at |-> i]]

\* What a sequence of commands is on the wire.
Frames(cmds) == FlattenSeq([i \in DOMAIN cmds |-> Frame(cmds[i])])

IsNewline(b) == b.cmd \in Text /\ b.at = Size[b.cmd]

\* A mistake to catch: the header is taken for the whole command.
CutAtHeader(buf) ==
    IF buf = <<>> THEN 0
    ELSE IF Len(buf) >= HeaderSize THEN HeaderSize ELSE 0

\* How many bytes the command at the head of the buffer takes, 0 if they are not
\* all there: parse_text_command looks for a newline, parse_binary_command for a
\* header and then for as many bytes as it says.
CutAt(buf) ==
    IF buf = <<>> THEN 0
    ELSE IF buf[1].cmd \in Text
    THEN LET ends == {i \in DOMAIN buf : IsNewline(buf[i])} IN
         IF ends = {} THEN 0 ELSE CHOOSE i \in ends : \A j \in ends : i <= j
    ELSE IF Len(buf) >= HeaderSize /\ Len(buf) >= Size[buf[1].cmd]
    THEN Size[buf[1].cmd] ELSE 0

\* The command a cut-out piece of the buffer stands for.
Meant(piece) == IF \E c \in Commands : piece = Frame(c) THEN piece[1].cmd ELSE None

\* A mistake to catch: one command is read off the buffer, not all.
CutOne(buf) ==
    LET n == CutAt(buf) IN
    IF n = 0 THEN [cmds |-> <<>>, rest |-> buf]
    ELSE [cmds |-> <<Meant(SubSeq(buf, 1, n))>>, rest |-> SubSeq(buf, n + 1, Len(buf))]

\* read_commands_from_buffer: the commands the buffer holds, and what is left.
Cut(buf) ==
    LET cut[i \in 0 .. Len(buf)] ==
            LET rest == SubSeq(buf, i + 1, Len(buf))
                n    == CutAt(rest)
            IN IF n = 0 THEN [cmds |-> <<>>, rest |-> rest]
               ELSE [cut[i + n] EXCEPT !.cmds = <<Meant(SubSeq(rest, 1, n))>> \o @]
    IN cut[0]

Drop(s, n) == SubSeq(s, n + 1, Len(s))

-----------------------------------------------------------------------------
(***************************************************************************)
(* The connection's states.                                                *)
(***************************************************************************)

Init ==
    /\ connected = FALSE /\ socket = FALSE /\ handled = FALSE
    /\ allowed = 0
    /\ outgoingCommands = <<>> /\ outgoingBuffer = <<>>
    /\ incomingBuffer = <<>> /\ incomingCommands = <<>>
    /\ up = <<>> /\ down = <<>> /\ serverBuffer = <<>>
    /\ sent = <<>> /\ heard = <<>> /\ said = <<>> /\ got = <<>>
    /\ sessions = 0 /\ sends = 0 /\ now = 1 /\ lastConnect = 0

\* A mistake to catch: a reset that keeps what was read.
ResetKeepsIncoming ==
    /\ allowed' = 0
    /\ outgoingCommands' = <<>> /\ outgoingBuffer' = <<>>
    /\ UNCHANGED <<incomingBuffer, incomingCommands>>

\* _reset_connection, but for connected and gearman_socket.
Reset ==
    /\ allowed' = 0
    /\ outgoingCommands' = <<>> /\ outgoingBuffer' = <<>>
    /\ incomingBuffer' = <<>> /\ incomingCommands' = <<>>

\* establish_connection: connect() and a new handler.  The cooldown connect() sets
\* is reset with everything else before the socket is made.
Connect ==
    /\ ~connected
    /\ now >= allowed
    /\ sessions < MaxSessions
    /\ Reset
    /\ connected' = TRUE /\ socket' = TRUE /\ handled' = TRUE
    /\ up' = <<>> /\ down' = <<>> /\ serverBuffer' = <<>>
    /\ sent' = <<>> /\ heard' = <<>> /\ said' = <<>> /\ got' = <<>>
    /\ sessions' = sessions + 1 /\ sends' = 0
    /\ lastConnect' = now
    /\ UNCHANGED now

\* The server cannot be reached.  What an old handler was given to send is gone.
ConnectFails ==
    /\ ~connected
    /\ now >= allowed
    /\ Reset
    /\ connected' = FALSE /\ socket' = FALSE
    /\ lastConnect' = now
    /\ UNCHANGED <<handled, networkVars, channelVars, sessions, sends, now>>

\* throw_exception in read_data_from_socket or send_data_to_socket: the peer has
\* closed, or the network failed.  Nothing is reset yet.
Throw ==
    /\ connected
    /\ connected' = FALSE
    /\ UNCHANGED <<bufferVars, socket, allowed, handled, networkVars, channelVars,
                   clockVars>>

\* handle_error, after Throw or when the poller reports an error.  It does not come
\* if another connection's handler has raised in the same round.
HandleError ==
    /\ socket
    /\ handled' = FALSE
    /\ connected' = FALSE /\ socket' = FALSE
    /\ Reset
    /\ UNCHANGED <<networkVars, channelVars, clockVars>>

\* A mistake to catch: the socket is closed, the connection not marked.
ShutdownUnmarked ==
    /\ socket' = FALSE
    /\ Reset
    /\ UNCHANGED <<connected, handled, networkVars, channelVars, clockVars>>

\* shutdown(): close() alone.  The handler stays mapped.
Shutdown ==
    /\ connected' = FALSE /\ socket' = FALSE
    /\ Reset
    /\ UNCHANGED <<handled, networkVars, channelVars, clockVars>>

Tick ==
    /\ now < MaxTime
    /\ now' = now + 1
    /\ UNCHANGED <<bufferVars, stateVars, networkVars, channelVars, sessions, sends,
                   lastConnect>>

-----------------------------------------------------------------------------
(***************************************************************************)
(* Sending and receiving.                                                  *)
(***************************************************************************)

\* A command handler's send_command.  It only asks for the handler to be mapped.
SendCommand(c) ==
    /\ handled
    /\ sends < MaxSent
    /\ sends' = sends + 1
    /\ outgoingCommands' = Append(outgoingCommands, c)
    /\ sent' = Append(sent, c)
    /\ UNCHANGED <<outgoingBuffer, incomingBuffer, incomingCommands, stateVars,
                   networkVars, heard, said, got, sessions, now, lastConnect>>

\* A mistake to catch: what is left of a partly sent buffer is forgotten.
WritableQueued == connected /\ outgoingCommands # <<>>

Writable == connected /\ (outgoingCommands # <<>> \/ outgoingBuffer # <<>>)

FirstUnpackable ==
    CHOOSE i \in DOMAIN outgoingCommands :
        /\ outgoingCommands[i] \in Unpackable
        /\ \A j \in 1 .. i - 1 : outgoingCommands[j] \notin Unpackable

\* handle_write: every queued command is packed, and the socket takes some bytes.
HandleWrite ==
    /\ Writable
    /\ \A i \in DOMAIN outgoingCommands : outgoingCommands[i] \notin Unpackable
    /\ LET packed == outgoingBuffer \o Frames(outgoingCommands) IN
       \E n \in 1 .. Len(packed) :
          /\ up' = up \o SubSeq(packed, 1, n)
          /\ outgoingBuffer' = Drop(packed, n)
    /\ outgoingCommands' = <<>>
    /\ UNCHANGED <<incomingBuffer, incomingCommands, stateVars, down, serverBuffer,
                   channelVars, clockVars>>

\* ... but packing one raises: those before it are off the queue and not yet in the
\* buffer, and with the one itself they are withdrawn from what was sent.  The
\* exception leaves the poll loop.
PackFails ==
    /\ Writable
    /\ \E i \in DOMAIN outgoingCommands : outgoingCommands[i] \in Unpackable
    /\ outgoingCommands' = Drop(outgoingCommands, FirstUnpackable)
    /\ sent' = SubSeq(sent, 1, Len(sent) - Len(outgoingCommands)) \o outgoingCommands'
    /\ UNCHANGED <<outgoingBuffer, incomingBuffer, incomingCommands, stateVars,
                   networkVars, heard, said, got, clockVars>>

\* fetch_commands: how many of the commands the handler is called with.
Fetched(cmds) ==
    LET stops == {i \in DOMAIN cmds : cmds[i] \in Stopping} IN
    IF stops = {} THEN Len(cmds) ELSE CHOOSE i \in stops : \A j \in stops : i <= j

\* handle_read: some bytes are read, cut into commands, and the handler is called.
HandleRead ==
    /\ connected
    /\ \E n \in 1 .. Len(down) :
          LET cut   == Cut(incomingBuffer \o SubSeq(down, 1, n))
              queue == incomingCommands \o cut.cmds
          IN /\ down' = Drop(down, n)
             /\ incomingBuffer' = cut.rest
             /\ incomingCommands' = Drop(queue, Fetched(queue))
             /\ got' = got \o SubSeq(queue, 1, Fetched(queue))
    /\ UNCHANGED <<outgoingCommands, outgoingBuffer, stateVars, up, serverBuffer, sent,
                   heard, said, clockVars>>

-----------------------------------------------------------------------------
(***************************************************************************)
(* The server, which is still there while the connection is.               *)
(***************************************************************************)

ServerSays(c) ==
    /\ connected
    /\ Len(said) < MaxSaid
    /\ said' = Append(said, c)
    /\ down' = down \o Frame(c)
    /\ UNCHANGED <<bufferVars, stateVars, up, serverBuffer, sent, heard, got, clockVars>>

ServerReads ==
    /\ \E n \in 1 .. Len(up) :
          LET cut == Cut(serverBuffer \o SubSeq(up, 1, n)) IN
          /\ up' = Drop(up, n)
          /\ serverBuffer' = cut.rest
          /\ heard' = heard \o cut.cmds
    /\ UNCHANGED <<bufferVars, stateVars, down, sent, said, got, clockVars>>

-----------------------------------------------------------------------------
Next ==
    \/ Connect \/ ConnectFails \/ Throw \/ HandleError \/ Shutdown
    \/ \E c \in Commands : SendCommand(c)
    \/ \E c \in Commands \ Unpackable : ServerSays(c)
    \/ HandleWrite \/ PackFails \/ HandleRead \/ ServerReads
    \/ Tick

Spec == Init /\ [][Next]_vars

\* A poll loop runs, the poller reports what is ready, and the server reads.
FairSpec ==
    /\ Spec
    /\ WF_vars(HandleWrite) /\ WF_vars(PackFails)
    /\ WF_vars(HandleRead) /\ WF_vars(ServerReads)

-----------------------------------------------------------------------------
(***************************************************************************)
(* What the connection promises.                                           *)
(***************************************************************************)

\* The sockets, buffers and framings amount to two FIFO channels of commands.
Channel == INSTANCE CommandChannel WITH
    Commands <- Commands, sent <- sent, heard <- heard, said <- said, got <- got
ChannelSpec == Channel!Spec

\* While connected, every byte of every command of this session, and of no other,
\* is in one place, in order: understood, half understood by the server, on its
\* way, in the buffer, or still queued; and the same of what the server said.
NothingLost ==
    connected =>
        /\ None \notin ToSet(heard) \cup ToSet(got)
        /\ Frames(heard) \o serverBuffer \o up \o outgoingBuffer
               \o Frames(outgoingCommands) = Frames(sent)
        /\ Frames(got) \o Frames(incomingCommands) \o incomingBuffer \o down
               = Frames(said)

\* While the session lasts, all that is said in it gets through, in pieces of any
\* size; a command whose recv_ method returns False holds up those read with it.
AllHeard == (connected /\ sent # heard) ~> (sent = heard \/ ~connected)
HeldUp   == got # <<>> /\ Last(got) \in Stopping
AllGot   == (connected /\ said # got) ~> (said = got \/ HeldUp \/ ~connected)

\* connection.py: "attempted to connect before required cooldown".  Two attempts
\* to connect are connect_cooldown_seconds apart.
CooldownKept ==
    [][Connect \/ ConnectFails =>
           lastConnect = 0 \/ now >= lastConnect + Cooldown]_vars
=============================================================================
