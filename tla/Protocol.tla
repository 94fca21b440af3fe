------------------------------ MODULE Protocol ------------------------------
(***************************************************************************)
(* Packing and parsing, as protocol.py does them: what bytes a command     *)
(* becomes, and what command, if any, stands at the head of a buffer.      *)
(*                                                                         *)
(* A command is its type and its arguments by name.  An argument's value   *)
(* is a sequence of bytes; the one given to be packed also says what kind  *)
(* of Python object it comes as.                                           *)
(***************************************************************************)
EXTENDS Naturals, Sequences, FiniteSetsExt, SequencesExt, TLC

NULL_CHAR == 0
NEWLINE   == 10
COMMAND_HEADER_SIZE == 12

\* "\0RES" and "\0REQ".
MAGIC_RES_STRING == <<0, 82, 69, 83>>
MAGIC_REQ_STRING == <<0, 82, 69, 81>>
Magic(is_response) == IF is_response THEN MAGIC_RES_STRING ELSE MAGIC_REQ_STRING

\* Each binary command at the place of its code; there is no command 5.
CommandNames == <<
    "CAN_DO", "CANT_DO", "RESET_ABILITIES", "PRE_SLEEP", "", "NOOP", "SUBMIT_JOB",
    "JOB_CREATED", "GRAB_JOB", "NO_JOB", "JOB_ASSIGN", "WORK_STATUS", "WORK_COMPLETE",
    "WORK_FAIL", "GET_STATUS", "ECHO_REQ", "ECHO_RES", "SUBMIT_JOB_BG", "ERROR",
    "STATUS_RES", "SUBMIT_JOB_HIGH", "SET_CLIENT_ID", "CAN_DO_TIMEOUT", "ALL_YOURS",
    "WORK_EXCEPTION", "OPTION_REQ", "OPTION_RES", "WORK_DATA", "WORK_WARNING",
    "GRAB_JOB_UNIQ", "JOB_ASSIGN_UNIQ", "SUBMIT_JOB_HIGH_BG", "SUBMIT_JOB_LOW",
    "SUBMIT_JOB_LOW_BG" >>

Code(cmd_type) == CHOOSE n \in DOMAIN CommandNames : CommandNames[n] = cmd_type

Taking(names, params) == [cmd_type \in names |-> params]

\* The names and the order of every command's arguments, TEXT_COMMAND apart.
GEARMAN_PARAMS_FOR_COMMAND ==
       Taking({"RESET_ABILITIES", "PRE_SLEEP", "NOOP", "GRAB_JOB", "NO_JOB",
               "ALL_YOURS", "GRAB_JOB_UNIQ"}, <<>>)
    @@ Taking({"CAN_DO", "CANT_DO"}, <<"task">>)
    @@ Taking({"SUBMIT_JOB", "SUBMIT_JOB_BG", "SUBMIT_JOB_HIGH", "SUBMIT_JOB_HIGH_BG",
               "SUBMIT_JOB_LOW", "SUBMIT_JOB_LOW_BG"}, <<"task", "unique", "data">>)
    @@ Taking({"JOB_CREATED", "WORK_FAIL", "GET_STATUS"}, <<"job_handle">>)
    @@ Taking({"WORK_COMPLETE", "WORK_EXCEPTION", "WORK_DATA", "WORK_WARNING"},
              <<"job_handle", "data">>)
    @@ Taking({"ECHO_REQ", "ECHO_RES"}, <<"data">>)
    @@ Taking({"OPTION_REQ", "OPTION_RES"}, <<"option_name">>)
    @@ Taking({"JOB_ASSIGN"}, <<"job_handle", "task", "data">>)
    @@ Taking({"JOB_ASSIGN_UNIQ"}, <<"job_handle", "task", "unique", "data">>)
    @@ Taking({"WORK_STATUS"}, <<"job_handle", "numerator", "denominator">>)
    @@ Taking({"STATUS_RES"}, <<"job_handle", "known", "running", "numerator",
                                "denominator">>)
    @@ Taking({"ERROR"}, <<"error_code", "error_text">>)
    @@ Taking({"SET_CLIENT_ID"}, <<"client_id">>)
    @@ Taking({"CAN_DO_TIMEOUT"}, <<"task", "timeout">>)

Params(cmd_type) == GEARMAN_PARAMS_FOR_COMMAND[cmd_type]

\* zip(params, values) as a dictionary.
Args(params, values) ==
    [param \in ToSet(params) |->
        values[CHOOSE i \in DOMAIN params : params[i] = param]]

-----------------------------------------------------------------------------
(***************************************************************************)
(* Bytes.                                                                  *)
(***************************************************************************)

\* struct's "!I", and back.
Uint32(n) == [i \in 1 .. 4 |-> (n \div 256^(4 - i)) % 256]
FromUint32(b) == b[1] * 256^3 + b[2] * 256^2 + b[3] * 256 + b[4]

Drop(s, n) == SubSeq(s, n + 1, Len(s))

\* A mistake to catch: it is cut at every separator, those in the last argument too.
SplitAll(bytes, most) ==
    LET nulls == SetToSortSeq({i \in DOMAIN bytes : bytes[i] = NULL_CHAR}, <)
        cuts  == <<0>> \o nulls \o <<Len(bytes) + 1>>
    IN [i \in 1 .. Len(cuts) - 1 |-> SubSeq(bytes, cuts[i] + 1, cuts[i + 1] - 1)]

\* bytes.split(NULL_CHAR, most): cut at the first separators, at most so many.
Split(bytes, most) ==
    LET nulls == SetToSortSeq({i \in DOMAIN bytes : bytes[i] = NULL_CHAR}, <)
        cuts  == <<0>> \o SubSeq(nulls, 1, Min({most, Len(nulls)})) \o <<Len(bytes) + 1>>
    IN [i \in 1 .. Len(cuts) - 1 |-> SubSeq(bytes, cuts[i] + 1, cuts[i + 1] - 1)]

\* NULL_CHAR.join(items)
Join(items) ==
    FlattenSeq([i \in DOMAIN items |->
                   IF i = 1 THEN items[i] ELSE <<NULL_CHAR>> \o items[i]])

-----------------------------------------------------------------------------
(***************************************************************************)
(* Packing.  Values come as "bytes", as "text", which is encoded, or as    *)
(* some other object.                                                      *)
(***************************************************************************)

\* A mistake to catch: the arguments before the last are not looked at.
PackableAnyNull(command) ==
    /\ command.type \in DOMAIN GEARMAN_PARAMS_FOR_COMMAND
    /\ DOMAIN command.args = ToSet(Params(command.type))
    /\ \A param \in DOMAIN command.args :
          command.args[param].kind \in {"bytes", "text"}

\* pack_binary_command raises no ProtocolError.
Packable(command) ==
    /\ command.type \in DOMAIN GEARMAN_PARAMS_FOR_COMMAND
    /\ LET params == Params(command.type) IN
       /\ DOMAIN command.args = ToSet(params)
       /\ \A param \in DOMAIN command.args :
             command.args[param].kind \in {"bytes", "text"}
       /\ \A i \in 1 .. Len(params) - 1 :
             NULL_CHAR \notin ToSet(command.args[params[i]].bytes)

pack_binary_command(command, is_response) ==
    LET params  == Params(command.type)
        payload == Join([i \in DOMAIN params |-> command.args[params[i]].bytes])
    IN Magic(is_response) \o Uint32(Code(command.type)) \o Uint32(Len(payload)) \o payload

\* The caller has ended the line.
pack_text_command(command) == command.args["raw_text"].bytes

-----------------------------------------------------------------------------
(***************************************************************************)
(* Parsing.                                                                *)
(***************************************************************************)

Incomplete    == [outcome |-> "incomplete"]
ProtocolError == [outcome |-> "raises"]
Parsed(cmd_type, cmd_args, cmd_len) ==
    [outcome |-> "command", len |-> cmd_len,
     command |-> [type |-> cmd_type, args |-> cmd_args]]

parse_binary_command(buf, is_response) ==
    IF Len(buf) < COMMAND_HEADER_SIZE THEN Incomplete
    ELSE LET code == FromUint32(SubSeq(buf, 5, 8))
             size == COMMAND_HEADER_SIZE + FromUint32(SubSeq(buf, 9, 12))
         IN
         IF \/ SubSeq(buf, 1, 4) # Magic(is_response)
            \/ code \notin DOMAIN CommandNames
            \/ CommandNames[code] \notin DOMAIN GEARMAN_PARAMS_FOR_COMMAND
         THEN ProtocolError
         ELSE IF Len(buf) < size THEN Incomplete
         ELSE LET params  == Params(CommandNames[code])
                  payload == SubSeq(buf, COMMAND_HEADER_SIZE + 1, size)
                  values  == IF params = <<>> THEN <<>>
                             ELSE Split(payload, Len(params) - 1)
              IN IF \/ params = <<>> /\ payload # <<>>
                    \/ Len(values) # Len(params)
                 THEN ProtocolError
                 ELSE Parsed(CommandNames[code], Args(params, values), size)

\* One line; the newline is not part of the text.
parse_text_command(buf) ==
    LET ends == {i \in DOMAIN buf : buf[i] = NEWLINE} IN
    IF ends = {} THEN Incomplete
    ELSE LET line == SubSeq(buf, 1, Min(ends) - 1) IN
         IF NULL_CHAR \in ToSet(line) THEN ProtocolError
         ELSE Parsed("TEXT_COMMAND", Args(<<"raw_text">>, <<line>>), Min(ends))
=============================================================================
