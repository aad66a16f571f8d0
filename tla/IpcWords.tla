------------------------------ MODULE IpcWords ------------------------------
(***************************************************************************)
(* The encoding of what goes through a pipe: commands and unsigned longs   *)
(* share one word, told apart by the ipc_is_* bit tests. A word is the set *)
(* of its one bits, so a bit test is an inclusion.                         *)
(*                                                                         *)
(* One exchange at a time: a sender writes, a reader that may expect any   *)
(* kind reads.                                                             *)
(***************************************************************************)
EXTENDS Naturals, Words

CONSTANT Ids        \* the unsigned longs that ipc_send_ulong is called with

Bit == 0 .. 63

ASSUME IdsAssumption == Ids \subseteq SUBSET Bit

R_IPC_VALUE_UINT_FLAG == 28 .. 31                              \* 0xF0000000
R_IPC_COMMAND_FLAG    == 24 .. 31                              \* 0xFF000000
R_IPC_COMMAND_YES     == R_IPC_COMMAND_FLAG \cup {0}
R_IPC_COMMAND_ACK     == R_IPC_COMMAND_FLAG \cup {1}
R_IPC_COMMAND_HEALTH_PROBE == R_IPC_COMMAND_FLAG \cup {0, 1}
R_IPC_COMMAND_PANIC   == R_IPC_COMMAND_FLAG \cup 8 .. 15       \* 0xFFACFFAC
                           \cup {2, 3, 5, 7, 18, 19, 21, 23}

\* The commands the programs send.
Command == {R_IPC_COMMAND_ACK, R_IPC_COMMAND_HEALTH_PROBE, R_IPC_COMMAND_PANIC}

IsCommandByUintFlag(msg) == R_IPC_VALUE_UINT_FLAG \subseteq msg
IsAckExactly(msg)        == msg = R_IPC_COMMAND_ACK

ipc_is_command(msg) == R_IPC_COMMAND_FLAG \subseteq msg
ipc_is_ack(msg)     == R_IPC_COMMAND_ACK \subseteq msg
ipc_is_ulong(msg)   == R_IPC_VALUE_UINT_FLAG \subseteq msg

\* ipc_send_ulong() refuses what exceeds R_IPC_VALUE_UINT_MAX, 0xEFFFFFFF.
TooLarge(value) == (\E b \in value : b > 31) \/ R_IPC_VALUE_UINT_FLAG \subseteq value
Encode(value)   == R_IPC_VALUE_UINT_FLAG \cup value

\* msg & ~R_IPC_VALUE_UINT_FLAG: the constant is an unsigned int, so that the
\* upper half of the word goes with the flag.
DecodeByShift(msg) == msg \cap 0 .. 23
Decode(msg)        == msg \cap 0 .. 27

\* The cast to IPC_COMMANDS, an unsigned int.
AsCommand(msg) == msg \cap 0 .. 31

VARIABLES
    sent,   \* what the sender meant: kind idle, command, ulong, or refused
    wire,   \* the word in the pipe
    got     \* what the reader made of it

wordVars == <<sent, wire, got>>

Unread == [by |-> "nobody", ok |-> FALSE, bits |-> {}]

WordsInit ==
    /\ sent = [kind |-> "idle", bits |-> {}]
    /\ wire = {}
    /\ got = Unread

\* ipc_send_ack(), ipc_send_health_probe(), ipc_send_command()
SendCommand ==
    /\ sent.kind = "idle"
    /\ \E command \in Command :
          sent' = [kind |-> "command", bits |-> command] /\ wire' = command
    /\ UNCHANGED got

SendUlong ==
    /\ sent.kind = "idle"
    /\ \E value \in Ids :
          IF TooLarge(value)
          THEN sent' = [kind |-> "refused", bits |-> value] /\ UNCHANGED wire
          ELSE sent' = [kind |-> "ulong", bits |-> value] /\ wire' = Encode(value)
    /\ UNCHANGED got

Readable == sent.kind \in {"command", "ulong"} /\ got = Unread

\* The command is stored only if the word passes for one.
ipc_get_command ==
    /\ Readable
    /\ got' = [by |-> "command", ok |-> ipc_is_command(wire),
               bits |-> IF ipc_is_command(wire) THEN AsCommand(wire) ELSE {}]
    /\ UNCHANGED <<sent, wire>>

ipc_get_ack ==
    /\ Readable
    /\ got' = [by |-> "ack", ok |-> ipc_is_ack(wire), bits |-> {}]
    /\ UNCHANGED <<sent, wire>>

\* The error is the flag itself, which the caller compares the result with.
ipc_get_ulong ==
    LET value == IF ipc_is_ulong(wire) THEN Decode(wire) ELSE R_IPC_VALUE_UINT_FLAG IN
    /\ Readable
    /\ got' = [by |-> "ulong", ok |-> value # R_IPC_VALUE_UINT_FLAG, bits |-> value]
    /\ UNCHANGED <<sent, wire>>

\* The next exchange.
NextWord ==
    /\ sent.kind = "refused" \/ got # Unread
    /\ sent' = [kind |-> "idle", bits |-> {}]
    /\ wire' = {}
    /\ got' = Unread

WordsNext ==
    SendCommand \/ SendUlong \/ ipc_get_command \/ ipc_get_ack \/ ipc_get_ulong \/ NextWord

WordsSpec == WordsInit /\ [][WordsNext]_wordVars

-----------------------------------------------------------------------------
WordsTypeOK ==
    /\ sent \in [kind : {"idle", "command", "ulong", "refused"}, bits : SUBSET Bit]
    /\ wire \in SUBSET Bit
    /\ got \in [by : {"nobody", "command", "ack", "ulong"}, ok : BOOLEAN, bits : SUBSET Bit]

\* An unsigned long below 2^28 is accepted and comes back as it was sent, and a
\* reader of unsigned longs never takes one for the error value.
SmallUlongsArrive ==
    /\ sent.kind = "refused" => ~(sent.bits \subseteq 0 .. 27)
    /\ sent.kind = "ulong" /\ got.by = "ulong" => got.ok
    /\ sent.kind = "ulong" /\ got.by = "ulong" /\ sent.bits \subseteq 0 .. 27
       => got.bits = sent.bits

\* A command read as a command is the one that was sent; a timer id below
\* 0x0F000000 passes neither for a command nor for an ACK.
KindsStayApart ==
    /\ sent.kind = "command" /\ got.by = "command" => got.ok /\ got.bits = sent.bits
    /\ sent.kind = "ulong" /\ got.by \in {"command", "ack"} /\ ~(24 .. 27 \subseteq sent.bits)
       => ~got.ok

\* The word of the supervision model that stands for a word of the pipe.
Abstract(msg) ==
    CASE msg = R_IPC_COMMAND_ACK          -> "ACK"
      [] msg = R_IPC_COMMAND_HEALTH_PROBE -> "PROBE"
      [] msg = R_IPC_COMMAND_PANIC        -> "PANIC"
      [] OTHER                            -> "BT"

\* The tests of the supervision model are those of the code, confusions
\* included, on every word the programs send with ids below 0x0F000000.
WordsImplemented ==
    sent.kind = "command" \/ (sent.kind = "ulong" /\ ~(24 .. 27 \subseteq sent.bits)) =>
        /\ got.by = "command" => got.ok = IsCommand(Abstract(wire))
        /\ got.by = "ack"     => got.ok = IsAck(Abstract(wire))
        /\ got.by = "ulong"   => got.ok = IsUlong(Abstract(wire))
=============================================================================
