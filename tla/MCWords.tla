------------------------------- MODULE MCWords -------------------------------
(* The bits at the borders of the fields, and one above the 32 that are used. *)
EXTENDS IpcWords

BorderIds == SUBSET {0, 1, 23, 24, 25, 26, 27, 28, 29, 30, 31, 32}
=============================================================================
