--------------------------- MODULE MCSupervision ----------------------------
(***************************************************************************)
(* Values of the constants for TLC: what may go wrong, and what an unset   *)
(* word may hold.                                                          *)
(***************************************************************************)
EXTENDS Supervision

\* Faults of running processes, clients and calls.
RunFaults == {"crash", "slow", "timer", "term", "client", "syscall", "watch",
              "signalfd"}

\* Also the start-up failures a helper reports by PANIC.
AllFaults == RunFaults \cup {"logfile", "inotify"}

\* An unset word may be no command, the last answer, or a PANIC by chance.
AnyGarbage == {"junk", "ACK", "PANIC"}
NoCommand  == {"junk"}
=============================================================================
