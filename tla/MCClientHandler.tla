---------------------------- MODULE MCClientHandler ----------------------------
(* Constants of the model-checking runs of ClientHandler. *)
EXTENDS ClientHandler, TLC

\* Requests, and connections, are interchangeable: safety runs only.
Symmetry == Permutations(Requests) \cup Permutations(Conns)
=============================================================================
