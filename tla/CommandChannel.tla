--------------------------- MODULE CommandChannel ---------------------------
(***************************************************************************)
(* What connection.py promises its command handlers: between two           *)
(* reconnections, a pair of FIFO channels of whole commands.  A command    *)
(* given to send_command is heard by the server after those given before   *)
(* it, or not at all; so are the server's commands by the handler.         *)
(* Connection implements it over several sessions, Wire byte by byte.      *)
(***************************************************************************)
EXTENDS Naturals, Sequences, SequencesExt

CONSTANT Commands

VARIABLES
    sent,   \* what this session's handler has given to send_command, less what
            \* could not be packed and was withdrawn
    heard,  \* what the server has understood of it
    said,   \* what the server has said in this session
    got     \* what the handler has been called with

chan == <<sent, heard, said, got>>

Init == sent = <<>> /\ heard = <<>> /\ said = <<>> /\ got = <<>>

\* A new session starts with nothing of the last one.
Reopen == sent' = <<>> /\ heard' = <<>> /\ said' = <<>> /\ got' = <<>>

Send(c) == sent' = Append(sent, c) /\ UNCHANGED <<heard, said, got>>

\* Commands that follow one another vanish before the server has heard of them.
Withdraw ==
    \E i, j \in Len(heard) + 1 .. Len(sent) :
        /\ i <= j
        /\ sent' = SubSeq(sent, 1, i - 1) \o SubSeq(sent, j + 1, Len(sent))
        /\ UNCHANGED <<heard, said, got>>

Say(c) == said' = Append(said, c) /\ UNCHANGED <<sent, heard, got>>

\* From everything said so far the listener comes to have more, in order.
Extends(old, new, whole) == IsStrictPrefix(old, new) /\ IsPrefix(new, whole)

Hear == \E n \in 0 .. Len(sent) :
            /\ heard' = SubSeq(sent, 1, n)
            /\ Extends(heard, heard', sent)
            /\ UNCHANGED <<sent, said, got>>

Get == \E n \in 0 .. Len(said) :
            /\ got' = SubSeq(said, 1, n)
            /\ Extends(got, got', said)
            /\ UNCHANGED <<sent, heard, said>>

Next ==
    \/ Reopen \/ Withdraw \/ Hear \/ Get
    \/ \E c \in Commands : Send(c) \/ Say(c)

Spec == Init /\ [][Next]_chan
=============================================================================
