---------------------------- MODULE IpcWordsProofs ----------------------------
(***************************************************************************)
(* Proofs about the encoding of words, for every set of unsigned longs.    *)
(***************************************************************************)
EXTENDS IpcWords, TLAPS

\* The word in the pipe is what the sender's call made of it, and what was read
\* is what the reader's call makes of the word.
WireInv ==
    /\ sent.kind = "ulong"   => wire = Encode(sent.bits) /\ ~TooLarge(sent.bits)
    /\ sent.kind = "command" => wire = sent.bits /\ wire \in Command
    /\ sent.kind = "refused" => TooLarge(sent.bits)
    /\ got.by = "command" =>
         /\ got.ok <=> ipc_is_command(wire)
         /\ got.ok => got.bits = AsCommand(wire)
    /\ got.by = "ack"   => (got.ok <=> ipc_is_ack(wire))
    /\ got.by = "ulong" =>
         IF ipc_is_ulong(wire) THEN got.ok /\ got.bits = Decode(wire)
                               ELSE ~got.ok
    /\ sent.kind \in {"idle", "refused"} => got = Unread

WInv == WordsTypeOK /\ WireInv

\* A word with the flag decodes to something else than the flag, which is the
\* error value of ipc_get_ulong().
LEMMA ErrorIsNoValue ==
    ASSUME NEW msg
    PROVE  Decode(msg) # R_IPC_VALUE_UINT_FLAG
  <1>1. 28 \in R_IPC_VALUE_UINT_FLAG /\ 28 \notin Decode(msg)
    BY DEF Decode, R_IPC_VALUE_UINT_FLAG
  <1> QED
    BY <1>1

\* Encoding and decoding an unsigned long below 2^28 gives it back.
LEMMA SmallUlongRoundTrip ==
    ASSUME NEW value \in SUBSET (0 .. 27)
    PROVE  /\ ~TooLarge(value)
           /\ ipc_is_ulong(Encode(value))
           /\ Decode(Encode(value)) = value
  <1>1. ~TooLarge(value)
    <2>1. 28 \in R_IPC_VALUE_UINT_FLAG /\ 28 \notin value
      BY DEF R_IPC_VALUE_UINT_FLAG
    <2>2. \A b \in value : b <= 27 /\ b \in Nat
      OBVIOUS
    <2> QED
      BY <2>1, <2>2 DEF TooLarge
  <1>2. ipc_is_ulong(Encode(value))
    BY DEF ipc_is_ulong, Encode
  <1>3. Decode(Encode(value)) = value
    <2>1. R_IPC_VALUE_UINT_FLAG \cap 0 .. 27 = {}
      BY DEF R_IPC_VALUE_UINT_FLAG
    <2>2. value \subseteq 0 .. 27
      OBVIOUS
    <2> QED
      BY <2>1, <2>2, Zenon DEF Decode, Encode
  <1> QED
    BY <1>1, <1>2, <1>3

\* An unsigned long that leaves one of the bits 24 to 27 clear passes neither
\* for a command nor for an ACK.
LEMMA UlongIsNoCommand ==
    ASSUME NEW value, ~(24 .. 27 \subseteq value)
    PROVE  ~ipc_is_command(Encode(value)) /\ ~ipc_is_ack(Encode(value))
  BY DEF ipc_is_command, ipc_is_ack, Encode, R_IPC_VALUE_UINT_FLAG, R_IPC_COMMAND_FLAG,
         R_IPC_COMMAND_ACK

\* A command passes for itself.
LEMMA CommandIsCommand ==
    ASSUME NEW command \in Command
    PROVE  ipc_is_command(command) /\ AsCommand(command) = command
  BY DEF Command, ipc_is_command, AsCommand, R_IPC_COMMAND_FLAG, R_IPC_COMMAND_ACK,
         R_IPC_COMMAND_HEALTH_PROBE, R_IPC_COMMAND_PANIC

\* Everything written or read is a word of 64 bits.
LEMMA WordTypes ==
    /\ R_IPC_VALUE_UINT_FLAG \in SUBSET Bit
    /\ Command \subseteq SUBSET Bit
    /\ \A msg \in SUBSET Bit : /\ Encode(msg) \in SUBSET Bit
                               /\ Decode(msg) \in SUBSET Bit
                               /\ AsCommand(msg) \in SUBSET Bit
  BY DEF Bit, Command, Encode, Decode, AsCommand, R_IPC_VALUE_UINT_FLAG, R_IPC_COMMAND_FLAG,
         R_IPC_COMMAND_ACK, R_IPC_COMMAND_HEALTH_PROBE, R_IPC_COMMAND_PANIC

\* Every send and every read keeps the invariant.
LEMMA WordsStep == WInv /\ [WordsNext]_wordVars => WInv'
  <1> SUFFICES ASSUME WInv, [WordsNext]_wordVars PROVE WInv'
    OBVIOUS
  <1> USE WordTypes DEF WInv, WordsTypeOK, WireInv, Unread
  <1>1. CASE SendCommand
    BY <1>1 DEF SendCommand
  <1>2. CASE SendUlong
    <2>1. PICK value \in Ids :
            IF TooLarge(value)
            THEN sent' = [kind |-> "refused", bits |-> value] /\ UNCHANGED wire
            ELSE sent' = [kind |-> "ulong", bits |-> value] /\ wire' = Encode(value)
      BY <1>2 DEF SendUlong
    <2>2. value \in SUBSET Bit
      BY IdsAssumption
    <2> QED
      BY <1>2, <2>1, <2>2 DEF SendUlong
  <1>3. CASE ipc_get_command
    <2>1. ipc_is_command(wire) \in BOOLEAN
      BY DEF ipc_is_command
    <2>2. {} \in SUBSET Bit /\ AsCommand(wire) \in SUBSET Bit
      OBVIOUS
    <2>3. /\ got'.by = "command" /\ (got'.ok <=> ipc_is_command(wire))
          /\ got'.ok => got'.bits = AsCommand(wire)
          /\ got' \in [by : {"nobody", "command", "ack", "ulong"}, ok : BOOLEAN,
                       bits : SUBSET Bit]
      BY <1>3, <2>1, <2>2 DEF ipc_get_command
    <2> QED
      BY <1>3, <2>3 DEF ipc_get_command, Readable
  <1>4. CASE ipc_get_ack
    <2>1. ipc_is_ack(wire) \in BOOLEAN
      BY DEF ipc_is_ack
    <2>2. /\ got'.by = "ack" /\ (got'.ok <=> ipc_is_ack(wire))
          /\ got' \in [by : {"nobody", "command", "ack", "ulong"}, ok : BOOLEAN,
                       bits : SUBSET Bit]
      BY <1>4, <2>1 DEF ipc_get_ack
    <2> QED
      BY <1>4, <2>2 DEF ipc_get_ack, Readable
  <1>5. CASE ipc_get_ulong
    BY <1>5, ErrorIsNoValue DEF ipc_get_ulong, Readable
  <1>6. CASE NextWord
    BY <1>6 DEF NextWord
  <1>7. CASE UNCHANGED wordVars
    BY <1>7 DEF wordVars
  <1> QED
    BY <1>1, <1>2, <1>3, <1>4, <1>5, <1>6, <1>7 DEF WordsNext

\* Whatever was sent and read, the invariant holds.
THEOREM WordsInvariant == WordsSpec => []WInv
  <1>1. WordsInit => WInv
    BY DEF WordsInit, WInv, WordsTypeOK, WireInv, Unread, Bit
  <1> QED
    BY <1>1, WordsStep, PTL DEF WordsSpec

\* ipc_send_ulong() and ipc_get_ulong() carry every unsigned long below 2^28,
\* and no accepted one is ever mistaken for an error.
THEOREM UlongsArrive == WordsSpec => []SmallUlongsArrive
  <1>1. WInv => SmallUlongsArrive
    <2> SUFFICES ASSUME WInv PROVE SmallUlongsArrive
      OBVIOUS
    <2>1. sent.kind = "ulong" => ipc_is_ulong(wire)
      BY DEF WInv, WireInv, ipc_is_ulong, Encode
    <2> QED
      BY <2>1, SmallUlongRoundTrip DEF WInv, WireInv, SmallUlongsArrive
  <1> QED
    BY <1>1, WordsInvariant, PTL

\* Commands read as commands are those that were sent, and a small timer id is
\* never taken for a command or an acknowledgement.
THEOREM CommandsAndIdsStayApart == WordsSpec => []KindsStayApart
  <1>1. WInv => KindsStayApart
    BY UlongIsNoCommand, CommandIsCommand DEF WInv, WireInv, KindsStayApart
  <1> QED
    BY <1>1, WordsInvariant, PTL

\* The commands are three words, and an unsigned long that leaves one of the bits
\* 24 to 27 clear is none of them.
LEMMA AbstractWords ==
    /\ Abstract(R_IPC_COMMAND_ACK) = "ACK" /\ Abstract(R_IPC_COMMAND_HEALTH_PROBE) = "PROBE"
    /\ Abstract(R_IPC_COMMAND_PANIC) = "PANIC"
    /\ \A value : ~(24 .. 27 \subseteq value) => Abstract(Encode(value)) = "BT"
  <1>1. /\ 0 \notin R_IPC_COMMAND_ACK /\ 1 \in R_IPC_COMMAND_ACK
        /\ 0 \in R_IPC_COMMAND_HEALTH_PROBE /\ 1 \in R_IPC_COMMAND_HEALTH_PROBE
        /\ 0 \notin R_IPC_COMMAND_PANIC /\ 1 \notin R_IPC_COMMAND_PANIC
    BY DEF R_IPC_COMMAND_ACK, R_IPC_COMMAND_HEALTH_PROBE, R_IPC_COMMAND_PANIC, R_IPC_COMMAND_FLAG
  <1>2. /\ R_IPC_COMMAND_ACK # R_IPC_COMMAND_HEALTH_PROBE /\ R_IPC_COMMAND_ACK # R_IPC_COMMAND_PANIC
        /\ R_IPC_COMMAND_HEALTH_PROBE # R_IPC_COMMAND_PANIC
    BY <1>1
  <1>3. ASSUME NEW value, ~(24 .. 27 \subseteq value) PROVE Encode(value) \notin Command
    BY <1>3, UlongIsNoCommand, CommandIsCommand
  <1> QED
    BY <1>2, <1>3 DEF Abstract, Command

\* The predicates on kinds of words that the model of the supervision uses are
\* the bit tests of the code, on every word the programs send with small ids.
THEOREM KindsAreBits == WordsSpec => []WordsImplemented
  <1>1. ASSUME WInv PROVE WordsImplemented
    <2>0. got.ok \in BOOLEAN
      BY <1>1 DEF WInv, WordsTypeOK
    <2>1. CASE sent.kind = "command"
      <3>1. wire \in {R_IPC_COMMAND_ACK, R_IPC_COMMAND_HEALTH_PROBE, R_IPC_COMMAND_PANIC}
        BY <1>1, <2>1 DEF WInv, WireInv, Command
      <3>2. ipc_is_command(wire) /\ ipc_is_ulong(wire)
        BY <3>1, CommandIsCommand
           DEF Command, ipc_is_command, ipc_is_ulong, R_IPC_COMMAND_FLAG, R_IPC_VALUE_UINT_FLAG
      <3>3. ipc_is_ack(wire) <=> wire # R_IPC_COMMAND_PANIC
        BY <3>1 DEF ipc_is_ack, R_IPC_COMMAND_ACK, R_IPC_COMMAND_HEALTH_PROBE, R_IPC_COMMAND_PANIC,
                    R_IPC_COMMAND_FLAG
      <3>4. /\ IsCommand(Abstract(wire)) /\ IsUlong(Abstract(wire))
            /\ IsAck(Abstract(wire)) <=> wire # R_IPC_COMMAND_PANIC
        <4>1. R_IPC_COMMAND_ACK # R_IPC_COMMAND_PANIC /\ R_IPC_COMMAND_HEALTH_PROBE # R_IPC_COMMAND_PANIC
          BY AbstractWords
        <4> QED
          BY <3>1, <4>1, AbstractWords DEF IsCommand, IsUlong, IsAck
      <3> QED
        BY <1>1, <2>0, <3>2, <3>3, <3>4 DEF WInv, WireInv, WordsImplemented, IsCommand, IsAck, IsUlong
    <2>2. CASE sent.kind = "ulong" /\ ~(24 .. 27 \subseteq sent.bits)
      <3>1. wire = Encode(sent.bits)
        BY <1>1, <2>2 DEF WInv, WireInv
      <3>2. Abstract(wire) = "BT" /\ ~ipc_is_command(wire) /\ ~ipc_is_ack(wire) /\ ipc_is_ulong(wire)
        BY <2>2, <3>1, AbstractWords, UlongIsNoCommand DEF ipc_is_ulong, Encode
      <3> QED
        BY <1>1, <2>0, <3>2 DEF WInv, WireInv, WordsImplemented, IsCommand, IsAck, IsUlong
    <2> QED
      BY <2>1, <2>2 DEF WordsImplemented
  <1> QED
    BY <1>1, WordsInvariant, PTL
=============================================================================
