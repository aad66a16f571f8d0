------------------------------ MODULE MCTransfer ------------------------------
(* Who moves files: fm's two handlers, with the daemon, or with everybody. *)
EXTENDS Transfer

Handlers    == {"backup", "transfer"}
FmAndDaemon == Handlers \cup {"client"}
Everybody   == FmAndDaemon \cup {"manual"}
=============================================================================
