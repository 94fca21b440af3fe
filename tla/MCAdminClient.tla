--------------------------- MODULE MCAdminClient ----------------------------
(* The model-checking runs of AdminClient: the constants are in the .cfg files. *)
EXTENDS AdminClient
=============================================================================
