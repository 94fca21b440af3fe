---------------------------- MODULE MCClientPoll ----------------------------
(* Constants of the model-checking runs of ClientPoll. *)
EXTENDS ClientPoll, TLC

\* Connections, and requests of the same kind, are interchangeable: safety runs only.
Symmetry == Permutations(Background) \cup Permutations(Requests \ Background)
              \cup Permutations(Conns)
=============================================================================
