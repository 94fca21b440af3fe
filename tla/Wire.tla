-------------------------------- MODULE Wire --------------------------------
(***************************************************************************)
(* One session of a GearmanConnection, byte by byte: what it does with     *)
(* commands it cannot pack and with bytes it cannot parse.  Connection     *)
(* models the same buffers over several sessions, for bytes that are well  *)
(* formed; here the bytes have values and go through Protocol, and the     *)
(* connection stays up.  Python 3, where a line to be sent is text and     *)
(* what is packed is bytes.                                                *)
(***************************************************************************)
EXTENDS Protocol

CONSTANTS
    Roles,          \* for each kind of handler, the commands it may be given to send
    Replies,        \* commands the server may say, well formed
    Unreadable,     \* byte sequences it may say that do not parse
    Budgets         \* bound: the numbers of commands sent and said in one session

ASSUME WireAssumption ==
    /\ Roles # {} /\ Replies # {}
    /\ Budgets \subseteq Nat \X Nat

VARIABLES
    outgoingCommands,   \* _outgoing_commands
    outgoingBuffer,     \* _outgoing_buffer
    isText,             \* ... which has become a str
    up,                 \* bytes on their way to the server
    serverBuffer,       \* bytes it has read and not yet understood
    sent,               \* all that the handler has given to send_command
    lost,               \* the places in it of what was taken off the queue for good
    heard,              \* see CommandChannel
    down,               \* bytes on their way from the server
    incomingBuffer,     \* _incoming_buffer
    incomingCommands,   \* _incoming_commands
    said, got

sendingVars   == <<outgoingCommands, outgoingBuffer, isText, up, serverBuffer, sent,
                   lost, heard>>
receivingVars == <<down, incomingBuffer, incomingCommands, said, got>>
vars == <<sendingVars, receivingVars>>

Requests == UNION Roles
Within == UNION {(0 .. b[1]) \X (0 .. b[2]) : b \in Budgets}

\* What the server says and the connection cannot read, as an element of said.
Garbage(bytes) == [type |-> "UNREADABLE", args |-> Args(<<"bytes">>, <<bytes>>)]

\* What a command to be packed says: bytes, and a line without its end.
Meaning(command) ==
    [type |-> command.type,
     args |-> [param \in DOMAIN command.args |->
                  SelectSeq(command.args[param].bytes,
                            LAMBDA b : command.type = "TEXT_COMMAND" => b # NEWLINE)]]
Meanings(commands) == [i \in DOMAIN commands |-> Meaning(commands[i])]

\* What a reply looks like on the wire.
AsBytes(command) == [type |-> command.type,
                     args |-> [param \in DOMAIN command.args |->
                                  [kind |-> "bytes", bytes |-> command.args[param]]]]
Bytes(reply) ==
    CASE reply.type = "UNREADABLE"   -> reply.args["bytes"]
      [] reply.type = "TEXT_COMMAND" -> Append(reply.args["raw_text"], NEWLINE)
      [] OTHER -> pack_binary_command(AsBytes(reply), TRUE)

Init ==
    /\ outgoingCommands = <<>> /\ outgoingBuffer = <<>> /\ isText = FALSE
    /\ up = <<>> /\ serverBuffer = <<>> /\ sent = <<>> /\ lost = {} /\ heard = <<>>
    /\ down = <<>> /\ incomingBuffer = <<>> /\ incomingCommands = <<>>
    /\ said = <<>> /\ got = <<>>

-----------------------------------------------------------------------------
(***************************************************************************)
(* Sending.                                                                *)
(***************************************************************************)

\* The handler has one role.
SendCommand(c) ==
    /\ \E role \in Roles : c \in role /\ ToSet(sent) \subseteq role
    /\ <<Len(sent) + 1, Len(said)>> \in Within
    /\ outgoingCommands' = Append(outgoingCommands, c)
    /\ sent' = Append(sent, c)
    /\ UNCHANGED <<outgoingBuffer, isText, up, serverBuffer, lost, heard, receivingVars>>

IsText(c) == c.type = "TEXT_COMMAND"

\* _pack_command.
PackOk(c) == IsText(c) \/ Packable(c)
Pack(c)   == IF IsText(c) THEN pack_text_command(c) ELSE pack_binary_command(c, FALSE)

\* bytes.decode("utf-8") succeeds: after a leading byte as many others as it says.
DecodesUtf8(bytes) ==
    LET Next8(due, b) ==
            CASE due = 0 /\ b < 128           -> 0
              [] due = 0 /\ b \in 194 .. 223  -> 1
              [] due = 0 /\ b \in 224 .. 239  -> 2
              [] due = 0 /\ b \in 240 .. 244  -> 3
              [] due \in 1 .. 3 /\ b \in 128 .. 191 -> due - 1
              [] OTHER -> 4
    IN FoldLeft(Next8, 0, bytes) = 0

\* The buffer and what is queued, each packed, as send_commands_to_buffer joins them.
Pieces ==
    <<[text |-> isText, bytes |-> outgoingBuffer]>>
      \o [i \in DOMAIN outgoingCommands |->
             [text |-> IsText(outgoingCommands[i]), bytes |-> Pack(outgoingCommands[i])]]
Joined(pieces) == FlattenSeq([i \in DOMAIN pieces |-> pieces[i].bytes])

\* Bytes and text do not join: then all that is bytes is decoded, and encoded again.
Undecodable(pieces) ==
    IF \A i \in DOMAIN pieces : ~pieces[i].text THEN {}
    ELSE {i \in DOMAIN pieces : ~pieces[i].text /\ ~DecodesUtf8(pieces[i].bytes)}

Writable == outgoingCommands # <<>> \/ outgoingBuffer # <<>>
AllPack  == \A i \in DOMAIN outgoingCommands : PackOk(outgoingCommands[i])

\* handle_write: every queued command is packed, and the socket takes some bytes.
\* It takes no str: one that is left in the buffer waits for the next command.
HandleWrite ==
    /\ Writable
    /\ AllPack /\ Undecodable(Pieces) = {}
    /\ ~(isText /\ outgoingCommands = <<>>)
    /\ outgoingCommands' = <<>>
    /\ isText' = FALSE
    /\ \E packed \in {Joined(Pieces)} : \E n \in 1 .. Len(packed) :
          /\ up' = up \o SubSeq(packed, 1, n)
          /\ outgoingBuffer' = Drop(packed, n)
    /\ UNCHANGED <<serverBuffer, sent, lost, heard, receivingVars>>

\* The first so many of what is queued vanish.
LoseQueued(n) ==
    /\ outgoingCommands' = Drop(outgoingCommands, n)
    /\ lost' = lost \cup {Len(sent) - Len(outgoingCommands) + i : i \in 1 .. n}

\* send_commands_to_buffer raises, out of the poll loop.  It has taken off all up to
\* the first command that cannot be packed, and none of them is in the buffer; or
\* all, and when decoding one fails, only those before it are in the buffer, as a str.
WriteRaises ==
    /\ \/ /\ ~AllPack
          /\ LoseQueued(Min({i \in DOMAIN outgoingCommands : ~PackOk(outgoingCommands[i])}))
          /\ UNCHANGED <<outgoingBuffer, isText>>
       \/ /\ AllPack /\ Undecodable(Pieces) # {}
          /\ LoseQueued(Len(outgoingCommands))
          /\ outgoingBuffer' = Joined(SubSeq(Pieces, 1, Min(Undecodable(Pieces)) - 1))
          /\ isText' = TRUE
    /\ UNCHANGED <<up, serverBuffer, sent, heard, receivingVars>>

-----------------------------------------------------------------------------
(***************************************************************************)
(* Receiving.                                                              *)
(***************************************************************************)

\* _unpack_command.  The buffer of a connection is an array of signed bytes, and packing
\* one that is negative into an unsigned byte raises struct.error.
Unpack(buf, is_response) ==
    IF buf = <<>> THEN Incomplete
    ELSE IF is_response /\ buf[1] >= 128 THEN ProtocolError
    ELSE IF buf[1] = NULL_CHAR THEN parse_binary_command(buf, is_response)
    ELSE parse_text_command(buf)

\* read_commands_from_buffer: the commands that go on the queue, what is left in the
\* buffer, and whether the last attempt to unpack raised.
RECURSIVE Read(_, _)
Read(buf, is_response) ==
    LET next == Unpack(buf, is_response) IN
    IF next.outcome = "command"
    THEN [Read(Drop(buf, next.len), is_response)
             EXCEPT !.commands = <<next.command>> \o @]
    ELSE [commands |-> <<>>, rest |-> buf, raises |-> next.outcome = "raises"]

\* handle_read: some bytes are read and unpacked, and the handler is called with what
\* is queued, unless unpacking raised.  Then the bytes stay at the head of the buffer,
\* the commands before them on the queue, and the connection is not closed.
HandleRead ==
    /\ \E n \in 1 .. Len(down) :
          /\ down' = Drop(down, n)
          /\ \E read \in {Read(incomingBuffer \o SubSeq(down, 1, n), TRUE)} :
                LET queue == incomingCommands \o read.commands IN
                /\ incomingBuffer' = read.rest
                /\ incomingCommands' = IF read.raises THEN queue ELSE <<>>
                /\ got' = IF read.raises THEN got ELSE got \o queue
    /\ UNCHANGED <<said, sendingVars>>

-----------------------------------------------------------------------------
(***************************************************************************)
(* The server.  It reads requests as parse_binary_command reads them.      *)
(***************************************************************************)

ServerSays(reply) ==
    /\ <<Len(sent), Len(said) + 1>> \in Within
    /\ said' = Append(said, reply)
    /\ down' = down \o Bytes(reply)
    /\ UNCHANGED <<incomingBuffer, incomingCommands, got, sendingVars>>

ServerReads ==
    /\ \E n \in 1 .. Len(up) :
          /\ up' = Drop(up, n)
          /\ \E read \in {Read(serverBuffer \o SubSeq(up, 1, n), FALSE)} :
                /\ serverBuffer' = read.rest
                /\ heard' = heard \o read.commands
    /\ UNCHANGED <<outgoingCommands, outgoingBuffer, isText, sent, lost, receivingVars>>

Said == Replies \cup {Garbage(bytes) : bytes \in Unreadable}

Next ==
    \/ \E c \in Requests : SendCommand(c)
    \/ \E reply \in Said : ServerSays(reply)
    \/ HandleWrite \/ WriteRaises \/ HandleRead \/ ServerReads

Spec == Init /\ [][Next]_vars

\* The application polls again after an exception, and the server reads.
FairSpec ==
    /\ Spec
    /\ WF_vars(HandleWrite) /\ WF_vars(WriteRaises)
    /\ WF_vars(HandleRead) /\ WF_vars(ServerReads)

-----------------------------------------------------------------------------
(***************************************************************************)
(* What a session promises.                                                *)
(***************************************************************************)

\* What was sent and not lost.
Kept == LET kept == SetToSortSeq(DOMAIN sent \ lost, <)
        IN [i \in DOMAIN kept |-> sent[kept[i]]]

\* Whatever was packed, cut and parsed, command for command and argument for
\* argument it is what the other side meant, in order; what cannot be packed is not
\* heard in part, and what cannot be read is neither handed on nor skipped.
Meant == {Meaning(c) : c \in Requests} \cup Said
Channel == INSTANCE CommandChannel WITH
    Commands <- Meant,
    sent <- Meanings(Kept), heard <- heard, said <- said, got <- got
WireSpec == Channel!Spec

\* As long as the server says only what is well formed, however the bytes are
\* grouped, no read raises for good and all that is said is handed to the handler.
\* Of what is sent all gets to the server but the commands send_commands_to_buffer
\* loses: one that cannot be packed, and those that it takes off the queue before it.
NoneUnreadable == said \in Seq(Replies)
LostTogether ==
    \A i \in lost : \E j \in lost : i .. j \subseteq lost /\ j >= i /\ ~PackOk(sent[j])
GetsThrough ==
    /\ said # got ~> said = got \/ ~NoneUnreadable
    /\ Meanings(Kept) # heard ~> Meanings(Kept) = heard
    /\ []LostTogether
=============================================================================
