----------------------------- MODULE MCPollLoop -----------------------------
(* Constants of the model-checking run of PollLoop. *)
EXTENDS PollLoop
=============================================================================
