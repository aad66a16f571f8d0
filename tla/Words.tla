-------------------------------- MODULE Words --------------------------------
(***************************************************************************)
(* The unsigned longs reportmand and its helpers send each other, by kind. *)
(* IpcWords relates them to their bits.                                    *)
(***************************************************************************)

\* BT and TT are the two timer ids fm reports; junk is a word that is neither a
\* command nor an encoded unsigned long.
Word == {"ACK", "PROBE", "PANIC", "BT", "TT", "junk"}

\* ipc_is_command, ipc_is_ack and ipc_is_ulong are bit tests, not comparisons:
\* HEALTH_PROBE has the bits of ACK, and every command has those of a ulong.
IsCommand(w) == w \in {"ACK", "PROBE", "PANIC"}
IsAck(w)     == w \in {"ACK", "PROBE"}
IsUlong(w)   == w # "junk"
=============================================================================
