---------------------------- MODULE MCConnection ----------------------------
(* Constants of the model-checking runs of Connection. *)
EXTENDS Connection

CONSTANT request

\* A command with a payload; one that cannot be packed, and a line of one letter.
Sizes == [c \in Commands |-> IF c = request THEN 3 ELSE 2]
=============================================================================
