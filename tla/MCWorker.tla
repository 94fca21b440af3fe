------------------------------ MODULE MCWorker ------------------------------
(* Constants of the model-checking runs of Worker. *)
EXTENDS Worker, TLC

\* Servers, jobs and tasks are interchangeable: safety runs only.
Symmetry == Permutations(Conns) \cup Permutations(Jobs) \cup Permutations(Tasks)
=============================================================================
