------------------------------- MODULE MCWire -------------------------------
(* Constants of the model-checking run of Wire. *)
EXTENDS Wire

Given(cmd_type, kind, values) ==
    [type |-> cmd_type,
     args |-> Args(Params(cmd_type),
                   [i \in DOMAIN values |-> [kind |-> kind, bytes |-> values[i]]])]
Reply(cmd_type, values) == [type |-> cmd_type, args |-> Args(Params(cmd_type), values)]
Line(kind, bytes) == [type |-> "TEXT_COMMAND",
                      args |-> Args(<<"raw_text">>, <<[kind |-> kind, bytes |-> bytes]>>)]

\* A client: a job whose data holds a NUL and a byte over 127, one whose name holds
\* a NUL, a status request for the handle None.
MCClient == {
    Given("SUBMIT_JOB", "bytes", << <<97>>, <<>>, <<0, 195>> >>),
    Given("SUBMIT_JOB", "text", << <<97, 0>>, <<>>, <<>> >>),
    Given("GET_STATUS", "object", << <<>> >>) }

\* A worker: a command without arguments, one with an argument too many.
MCWorker == {
    Given("PRE_SLEEP", "bytes", <<>>),
    [Given("CAN_DO", "bytes", << <<97>> >>) EXCEPT !.type = "PRE_SLEEP"] }

\* An admin client: lines and an echo.
MCAdmin == {
    Line("text", <<97, 10>>),
    Line("text", <<97, 32, 98, 10>>),
    Given("ECHO_REQ", "text", << <<98>> >>) }

MCRoles == {MCClient, MCWorker, MCAdmin}

\* Data that holds the separator and the newline, or nothing; a line.
MCReplies == {
    Reply("WORK_COMPLETE", << <<72>>, <<0, 10>> >>),
    Reply("ECHO_RES", << <<>> >>),
    Reply("NOOP", <<>>),
    [type |-> "TEXT_COMMAND", args |-> Args(<<"raw_text">>, << <<79, 75>> >>)] }

\* A request for a reply, an unknown command, a payload where there is none, an
\* argument too few, a line with a NUL, a line that begins with a letter of two bytes.
MCUnreadable == {
    MAGIC_REQ_STRING \o Uint32(6) \o Uint32(0),
    MAGIC_RES_STRING \o Uint32(99) \o Uint32(0),
    MAGIC_RES_STRING \o Uint32(6) \o Uint32(1) \o <<97>>,
    MAGIC_RES_STRING \o Uint32(13) \o Uint32(1) \o <<97>>,
    <<79, 0, 10>>,
    <<195, 169, 10>> }

\* The two directions share nothing: two commands in one of them at a time.
MCBudgets == {<<2, 0>>, <<0, 2>>}
=============================================================================
