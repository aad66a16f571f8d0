----------------------------- MODULE PortProofs -----------------------------
(***************************************************************************)
(* Proofs about the singleton port and the sessions of its clients, for    *)
(* any number of reportmands and reportmancs, any scripts and options, any *)
(* backlog and any number of faults.                                       *)
(***************************************************************************)
EXTENDS Port, SequenceTheorems, TLAPS

Command == Known \cup {"unknown"}
InSession == {"select", "read", "reply", "bye", "hangup"}

\* What a reportmand does with a client, and all else that it does or that comes
\* to it.
Talks(s) == Session(s) \/ (SelectFails(s) /\ UNCHANGED daemonVars)
OwnStep(s) ==
    StarterStep(s) \/ Bind(s) \/ Stop(s) \/ GiveUp(s) \/ Panic(s) \/ Deafen(s) \/ ProbeHangs(s)

\* The types of the whole state: TypeOK, what is under way on the connections,
\* and what a session has.
WireTypeOK ==
    /\ PortTypeOK
    /\ toD \in [Client -> Seq(Command)]
    /\ toC \in [Client -> Seq(Reply)]

TypeInv ==
    /\ WireTypeOK /\ SessionTypeOK /\ SingletonTypeOK
    /\ mode \in [Starter -> Mode]
    /\ \A s \in Starter :
        /\ pc[s] = "reply" => reply[s] \in Reply
        /\ pc[s] \in InSession => serving[s] \in Client

USE StarterAssumption, BacklogAssumption, FaultAssumption, CasesAssumption

-----------------------------------------------------------------------------
(* The calls on sockets keep the types.                                    *)

LEMMA ListenType ==
    ASSUME WireTypeOK, NEW s \in Starter, Listen(s)
    PROVE  WireTypeOK'
  BY DEF WireTypeOK, PortTypeOK, Listen

LEMMA ConnectType ==
    ASSUME WireTypeOK, NEW c \in Client, Connect(c)
    PROVE  WireTypeOK'
  BY DEF WireTypeOK, PortTypeOK, Connect, Link

LEMMA ClientSendsType ==
    ASSUME WireTypeOK, NEW c \in Client, NEW m \in Command, ClientSends(c, m)
    PROVE  WireTypeOK'
  <1>1. Append(toD[c], m) \in Seq(Command)
    BY DEF WireTypeOK
  <1> QED
    <2>1. CASE eof[c] = "no"
      <3>1. toD' \in [Client -> Seq(Command)]
        BY <1>1, <2>1 DEF WireTypeOK, ClientSends
      <3> QED
        BY <2>1, <3>1 DEF WireTypeOK, PortTypeOK, ClientSends
    <2>2. CASE eof[c] # "no"
      BY <2>2 DEF WireTypeOK, PortTypeOK, ClientSends, Link
    <2> QED
      BY <2>1, <2>2

LEMMA ClientClosesType ==
    ASSUME WireTypeOK, NEW c \in Client, ClientCloses(c)
    PROVE  WireTypeOK'
  BY DEF WireTypeOK, PortTypeOK, ClientCloses, Link

LEMMA AcceptType ==
    ASSUME WireTypeOK, AcceptFirst
    PROVE  WireTypeOK' /\ Head(backlog) \in Client
  BY DEF WireTypeOK, PortTypeOK, AcceptFirst, Link

LEMMA DaemonReadsType ==
    ASSUME WireTypeOK, NEW c \in Client, DaemonReads(c)
    PROVE  WireTypeOK'
  BY DEF WireTypeOK, PortTypeOK, DaemonReads

LEMMA DaemonSendsType ==
    ASSUME WireTypeOK, NEW c \in Client, NEW m \in Reply, DaemonSends(c, m)
    PROVE  WireTypeOK'
  <1>1. Append(toC[c], m) \in Seq(Reply)
    BY DEF WireTypeOK
  <1>2. CASE cend[c] = "open"
    <2>1. toC' = [toC EXCEPT ![c] = Append(@, m)] /\ UNCHANGED reset
      BY <1>2 DEF DaemonSends
    <2>2. toC' \in [Client -> Seq(Reply)]
      BY <1>1, <2>1 DEF WireTypeOK
    <2> QED
      BY <2>1, <2>2 DEF WireTypeOK, PortTypeOK, DaemonSends
  <1>3. CASE cend[c] # "open"
    <2>1. reset' \in [Client -> BOOLEAN]
      BY <1>3 DEF WireTypeOK, PortTypeOK, DaemonSends
    <2> QED
      BY <1>3, <2>1 DEF WireTypeOK, PortTypeOK, DaemonSends
  <1> QED
    BY <1>2, <1>3

LEMMA LeftBehindType ==
    ASSUME WireTypeOK, NEW c \in Client
    PROVE  /\ LeftBehind(c)[1] \in {"closed", "lingers"}
           /\ LeftBehind(c)[2] \in {"no", "fin", "rst", "broken"}
  BY DEF WireTypeOK, PortTypeOK, LeftBehind

LEMMA DaemonClosesType ==
    ASSUME WireTypeOK, NEW C, DaemonCloses(C)
    PROVE  WireTypeOK'
  BY LeftBehindType DEF WireTypeOK, PortTypeOK, DaemonCloses, Link

LEMMA StopsListeningType ==
    ASSUME WireTypeOK, NEW s \in Starter, NEW C, StopsListening(s, C)
    PROVE  WireTypeOK'
  <1> DEFINE Q == IF listener = s THEN {c \in Client : link[c] = "queued"} ELSE {}
  <1>1. /\ link' = [c \in Client |-> CASE c \in Q -> "closed" [] c \in C -> LeftBehind(c)[1]
                                       [] OTHER -> link[c]]
        /\ eof' = [c \in Client |-> CASE c \in Q -> "rst" [] c \in C -> LeftBehind(c)[2]
                                      [] OTHER -> eof[c]]
        /\ toD' = [c \in Client |-> IF c \in C \cup Q THEN <<>> ELSE toD[c]]
        /\ UNCHANGED <<cend, toC, reset>>
    BY DEF StopsListening
  <1>2. /\ listener' \in Starter \cup {"nobody"}
        /\ backlog' \in Seq(Client) /\ Len(backlog') <= Backlog + 1
    BY DEF StopsListening, WireTypeOK, PortTypeOK
  <1> HIDE DEF Q
  <1>3. link' \in [Client -> Link]
    BY <1>1, LeftBehindType DEF WireTypeOK, PortTypeOK, Link
  <1>4. eof' \in [Client -> {"no", "fin", "rst", "broken"}]
    BY <1>1, LeftBehindType DEF WireTypeOK, PortTypeOK
  <1>5. toD' \in [Client -> Seq(Command)]
    BY <1>1 DEF WireTypeOK
  <1> QED
    BY <1>1, <1>2, <1>3, <1>4, <1>5 DEF WireTypeOK, PortTypeOK

LEMMA LingerEndsType ==
    ASSUME WireTypeOK, NEW c \in Client, LingerEnds(c)
    PROVE  WireTypeOK'
  BY DEF WireTypeOK, PortTypeOK, LingerEnds, Link

-----------------------------------------------------------------------------
(* Each action keeps the types.                                            *)

\* What reportmanc does touches no reportmand.
LEMMA ClientStepType ==
    ASSUME TypeInv, NEW c \in Client, ClientStep(c) \/ ConnectToDaemon(c) \/ Interrupt(c),
           UNCHANGED daemonVars
    PROVE  TypeInv'
  <1> USE DEF TypeInv, sessionVars, daemonVars, helperVars
  <1>0. /\ UNCHANGED <<pc, sessionVars, daemonVars, script>>
        /\ faults' \in 0 .. MaxFaults
    BY DEF ClientStep, WriteCommand, ReadReply, CloseAndExit, ConnectToDaemon, Interrupt,
           SessionTypeOK, Fault
  <1> SUFFICES /\ WireTypeOK' /\ printed' \in [Client -> Seq(Seq(Reply))]
               /\ cpc' \in [Client -> {"idle", "write", "read", "done", "failed", "killed"}]
               /\ sent' \in [Client -> Nat] /\ \A d \in Client : sent'[d] <= Len(script[d])
    BY <1>0 DEF SessionTypeOK, SingletonTypeOK
  <1> HIDE DEF sessionVars, daemonVars, helperVars
  <1>1. ASSUME WriteCommand(c), ClientSends(c, script[c][sent[c] + 1]),
               sent' = [sent EXCEPT ![c] = @ + 1], cpc' = [cpc EXCEPT ![c] = "read"]
        PROVE  /\ WireTypeOK' /\ cpc' \in [Client -> {"idle", "write", "read", "done", "failed", "killed"}]
               /\ sent' \in [Client -> Nat] /\ \A d \in Client : sent'[d] <= Len(script[d])
    <2>1. script[c] \in Seq(Command) /\ sent[c] \in Nat /\ sent[c] < Len(script[c])
      BY <1>1 DEF WriteCommand, SessionTypeOK, Command
    <2>2. script[c][sent[c] + 1] \in Command
      BY <2>1
    <2> QED
      BY <1>1, <2>1, <2>2, ClientSendsType DEF SessionTypeOK
  <1>2. ASSUME NEW how \in {"done", "failed", "killed"}, ClientEnds(c, how)
        PROVE  /\ WireTypeOK' /\ cpc' \in [Client -> {"idle", "write", "read", "done", "failed", "killed"}]
    BY <1>2, ClientClosesType DEF ClientEnds, SessionTypeOK
  <1>3. CASE WriteCommand(c)
    BY <1>1, <1>2, <1>3 DEF WriteCommand, SessionTypeOK
  <1>4. CASE ReadReply(c)
    <2>1. CASE ClientEnds(c, "failed") /\ UNCHANGED printed
      BY <1>2, <1>4, <2>1 DEF ReadReply, SessionTypeOK
    <2>2. CASE /\ printed' = [printed EXCEPT ![c] = Append(@, BufferRead(c))]
               /\ toC' = [toC EXCEPT ![c] = <<>>]
               /\ cpc' = [cpc EXCEPT ![c] = "write"]
               /\ UNCHANGED <<listener, backlog, link, cend, toD, reset, eof>>
      <3>1. Append(printed[c], BufferRead(c)) \in Seq(Seq(Reply))
        BY DEF BufferRead, SessionTypeOK, WireTypeOK
      <3>2. printed' \in [Client -> Seq(Seq(Reply))]
        BY <2>2, <3>1 DEF SessionTypeOK
      <3>3. WireTypeOK'
        BY <2>2 DEF WireTypeOK, PortTypeOK
      <3> QED
        BY <1>4, <2>2, <3>2, <3>3 DEF SessionTypeOK, ReadReply
    <2> QED
      BY <1>4, <2>1, <2>2 DEF ReadReply
  <1>5. CASE CloseAndExit(c) \/ Interrupt(c)
    BY <1>2, <1>5 DEF CloseAndExit, Interrupt, SessionTypeOK
  <1>6. CASE ConnectToDaemon(c)
    <2>1. WireTypeOK'
      <3>1. CASE UNCHANGED portVars
        BY <3>1 DEF WireTypeOK, PortTypeOK, portVars
      <3> QED
        BY <1>6, <3>1, ConnectType DEF ConnectToDaemon
    <2> QED
      BY <1>6, <2>1 DEF ConnectToDaemon, SessionTypeOK
  <1> QED
    BY <1>3, <1>4, <1>5, <1>6 DEF ClientStep

\* Writing to a client, or the SIGPIPE that comes instead.
LEMMA WriteToType ==
    ASSUME TypeInv, NEW s \in Starter, NEW m \in Reply, NEW next \in Pc,
           serving[s] \in Client, WriteTo(s, m, next)
    PROVE  /\ WireTypeOK'
           /\ pipe' \subseteq Client
           /\ pc' \in [Starter -> Pc]
           /\ pc'[s] \in {next, "dying"} /\ \A q \in Starter \ {s} : pc'[q] = pc[q]
  <1>0. WireTypeOK /\ pc \in [Starter -> Pc] /\ pipe \subseteq Client /\ "dying" \in Pc
    BY DEF TypeInv, SessionTypeOK, SingletonTypeOK, Pc
  <1>1. CASE Broken(serving[s])
    <2>1. /\ pipe' = pipe \cup {serving[s]} /\ UNCHANGED portVars
          /\ \E then \in {next, "dying"} : pc' = [pc EXCEPT ![s] = then]
      BY <1>1 DEF WriteTo
    <2>2. WireTypeOK'
      BY <1>0, <2>1 DEF WireTypeOK, PortTypeOK, portVars
    <2> QED
      BY <1>0, <2>1, <2>2
  <1>2. CASE ~Broken(serving[s])
    <2>1. DaemonSends(serving[s], m) /\ pc' = [pc EXCEPT ![s] = next] /\ UNCHANGED pipe
      BY <1>2 DEF WriteTo
    <2> QED
      BY <1>0, <2>1, DaemonSendsType
  <1> QED
    BY <1>1, <1>2

LEMMA AnswerType ==
    ASSUME NEW commands \in Seq(Command)
    PROVE  Answer(commands) \in Reply
  BY DEF Answer, Reply, Known, Command

\* The session of one reportmand.
LEMMA SessionType ==
    ASSUME TypeInv, NEW s \in Starter, Talks(s)
    PROVE  TypeInv'
  <1> USE DEF TypeInv, daemonVars, helperVars, clientVars, InSession, Loop
  <1>0. /\ UNCHANGED <<mode, gen, found, term, helperVars, clientVars>>
        /\ why' \in [Starter -> Cause] /\ faults' \in 0 .. MaxFaults
    <2>1. UNCHANGED clientVars /\ faults' \in 0 .. MaxFaults
      BY DEF Talks, Session, SessionStep, AcceptClient, HandleCommand, WriteReply, NothingMore,
             WriteBye, ReadEnds, HangUp, SelectFails, SessionTypeOK, Fault
    <2>2. UNCHANGED <<mode, gen, found, term, helperVars>> /\ why' \in [Starter -> Cause]
      BY DEF Talks, Session, SingletonTypeOK, Cause
    <2> QED
      BY <2>1, <2>2
  <1>1. ASSUME WireTypeOK', pc' \in [Starter -> Pc], serving' \in [Starter -> Client \cup {"nobody"}],
               reply' \in [Starter -> Reply \cup {"none"}], close' \in [Starter -> BOOLEAN],
               pipe' \subseteq Client,
               \A q \in Starter \ {s} : pc'[q] = pc[q] /\ reply'[q] = reply[q] /\ serving'[q] = serving[q],
               pc'[s] = "reply" => reply'[s] \in Reply,
               pc'[s] \in InSession => serving'[s] \in Client
        PROVE  TypeInv'
    BY <1>0, <1>1 DEF SessionTypeOK, SingletonTypeOK
  <1>2. pc[s] \in Pc /\ InSession \cup {"closing", "poll"} \subseteq Pc
    BY DEF SingletonTypeOK, Pc
  <1>3. CASE AcceptClient(s)
    BY <1>1, <1>2, <1>3, AcceptType DEF AcceptClient, SessionTypeOK, SingletonTypeOK
  <1>4. CASE HandleCommand(s)
    <2>1. serving[s] \in Client /\ toD[serving[s]] \in Seq(Command)
      BY <1>4 DEF HandleCommand, WireTypeOK
    <2>2. Answer(toD[serving[s]]) \in Reply
      BY <2>1, AnswerType
    <2>3. WireTypeOK'
      BY <1>4, <2>1, DaemonReadsType DEF HandleCommand
    <2>4. reply' = [reply EXCEPT ![s] = Answer(toD[serving[s]])]
          /\ pc' = [pc EXCEPT ![s] = "reply"] /\ UNCHANGED <<serving, pipe>>
      BY <1>4 DEF HandleCommand
    <2>5. close' \in [Starter -> BOOLEAN]
      BY <1>4 DEF HandleCommand, SessionTypeOK
    <2> HIDE DEF Reply
    <2> QED
      BY <1>1, <1>2, <2>1, <2>2, <2>3, <2>4, <2>5 DEF SessionTypeOK, SingletonTypeOK
  <1>5. CASE WriteReply(s)
    <2>1. serving[s] \in Client /\ reply[s] \in Reply /\ WriteTo(s, reply[s], "select")
      BY <1>5 DEF WriteReply
    <2>2. /\ WireTypeOK' /\ pipe' \subseteq Client /\ pc' \in [Starter -> Pc]
          /\ pc'[s] \in {"select", "dying"} /\ \A q \in Starter \ {s} : pc'[q] = pc[q]
      BY <1>2, <2>1, WriteToType
    <2>3. reply' = [reply EXCEPT ![s] = "none"] /\ UNCHANGED <<serving, close>>
      BY <1>5 DEF WriteReply
    <2> QED
      BY <1>1, <2>1, <2>2, <2>3 DEF SessionTypeOK
  <1>6. CASE WriteBye(s)
    <2>1. serving[s] \in Client /\ Bye \in Reply /\ WriteTo(s, Bye, "hangup")
      BY <1>6 DEF WriteBye, Reply
    <2>2. /\ WireTypeOK' /\ pipe' \subseteq Client /\ pc' \in [Starter -> Pc]
          /\ pc'[s] \in {"hangup", "dying"} /\ \A q \in Starter \ {s} : pc'[q] = pc[q]
      BY <1>2, <2>1, WriteToType
    <2>3. UNCHANGED <<serving, reply, close>>
      BY <1>6 DEF WriteBye
    <2> QED
      BY <1>1, <2>1, <2>2, <2>3 DEF SessionTypeOK
  <1>7. CASE NothingMore(s) \/ SelectFails(s) \/ ReadEnds(s)
    <2>1. WireTypeOK'
      BY <1>7 DEF NothingMore, SelectFails, ReadEnds, WireTypeOK, PortTypeOK, portVars
    <2>2. serving[s] \in Client /\ UNCHANGED <<serving, reply, close, pipe>>
      BY <1>7 DEF NothingMore, SelectFails, ReadEnds, sessionVars
    <2>3. \E next \in {"bye", "read", "select", "hangup"} : pc' = [pc EXCEPT ![s] = next]
      BY <1>7 DEF NothingMore, SelectFails, ReadEnds
    <2> QED
      BY <1>1, <1>2, <2>1, <2>2, <2>3 DEF SessionTypeOK, SingletonTypeOK
  <1>8. CASE HangUp(s)
    BY <1>1, <1>2, <1>8, DaemonClosesType DEF HangUp, SessionTypeOK, SingletonTypeOK
  <1> QED
    BY <1>3, <1>4, <1>5, <1>6, <1>7, <1>8 DEF Talks, Session, SessionStep

\* Telling a process to end marks it, and leaves why it ended in the range of why.
LEMMA SignalledType ==
    ASSUME TypeInv, NEW p \in Starter, Signalled(p)
    PROVE  term' \in [Starter -> BOOLEAN] /\ why' \in [Starter -> Cause]
  BY DEF Signalled, TypeInv, SingletonTypeOK, Cause

\* __kill_pid() strikes one process or none, and s goes on or ends.
LEMMA KillType ==
    ASSUME TypeInv, NEW s \in Starter, NEW pid, NEW next \in Pc, Kill(s, pid, next)
    PROVE  /\ WireTypeOK' /\ pc' \in [Starter -> Pc]
           /\ pc'[s] \in {next, "dying"}
           /\ \A q \in Starter \ {s} : pc'[q] \in {pc[q], "dying"}
           /\ cpc' \in [Client -> {"idle", "write", "read", "done", "failed", "killed"}]
           /\ term' \in [Starter -> BOOLEAN] /\ why' \in [Starter -> Cause]
  <1>0. /\ WireTypeOK /\ pc \in [Starter -> Pc] /\ "dying" \in Pc
        /\ term \in [Starter -> BOOLEAN] /\ why \in [Starter -> Cause]
        /\ cpc \in [Client -> {"idle", "write", "read", "done", "failed", "killed"}]
    BY DEF TypeInv, SingletonTypeOK, SessionTypeOK, Pc
  <1>1. UNCHANGED portVars => WireTypeOK'
    BY <1>0 DEF WireTypeOK, PortTypeOK, portVars
  <1>2. ASSUME NEW p \in Starter \ {s}, Signalled(p), UNCHANGED <<portVars, cpc>>,
               pc' = [pc EXCEPT ![s] = next,
                                ![p] = IF @ \in Loop \cup {"dying", "exited"} THEN @ ELSE "dying"]
        PROVE  /\ WireTypeOK' /\ pc' \in [Starter -> Pc] /\ pc'[s] \in {next, "dying"}
               /\ \A q \in Starter \ {s} : pc'[q] \in {pc[q], "dying"}
               /\ cpc' \in [Client -> {"idle", "write", "read", "done", "failed", "killed"}]
               /\ term' \in [Starter -> BOOLEAN] /\ why' \in [Starter -> Cause]
    BY <1>0, <1>1, <1>2, SignalledType
  <1>3. ASSUME NEW c \in Client, ClientEnds(c, "killed"), Goes(s, next), UNCHANGED <<term, why>>
        PROVE  /\ WireTypeOK' /\ pc' \in [Starter -> Pc] /\ pc'[s] \in {next, "dying"}
               /\ \A q \in Starter \ {s} : pc'[q] \in {pc[q], "dying"}
               /\ cpc' \in [Client -> {"idle", "write", "read", "done", "failed", "killed"}]
               /\ term' \in [Starter -> BOOLEAN] /\ why' \in [Starter -> Cause]
    BY <1>0, <1>3, ClientClosesType DEF ClientEnds, Goes
  <1>4. ASSUME \/ Goes(s, next) /\ UNCHANGED why
               \/ Dies(s, "refused"),
               UNCHANGED <<portVars, cpc, term>>
        PROVE  /\ WireTypeOK' /\ pc' \in [Starter -> Pc] /\ pc'[s] \in {next, "dying"}
               /\ \A q \in Starter \ {s} : pc'[q] \in {pc[q], "dying"}
               /\ cpc' \in [Client -> {"idle", "write", "read", "done", "failed", "killed"}]
               /\ term' \in [Starter -> BOOLEAN] /\ why' \in [Starter -> Cause]
    BY <1>0, <1>1, <1>4 DEF Goes, Dies, Cause
  <1> QED
    BY <1>2, <1>3, <1>4 DEF Kill

\* waitpid(0) takes helpers away.
LEMMA WaitType ==
    ASSUME left \in [Starter -> 0 .. 2], NEW s \in Starter, WaitForChild(s)
    PROVE  left' \in [Starter -> 0 .. 2]
  BY DEF WaitForChild

\* What one of the other processes does to a reportmand's session: nothing, but
\* for the end of a process that had not got as far as the loop.
LEMMA StarterType ==
    ASSUME TypeInv, NEW s \in Starter, OwnStep(s)
    PROVE  TypeInv'
  <1> USE DEF TypeInv
  <1>0. /\ pc \in [Starter -> Pc] /\ why \in [Starter -> Cause] /\ gen \in [Starter -> 0 .. 2]
        /\ found \in [Starter -> Pid \cup {BIND_FAILED, IS_SINGLETON, POPEN_FAILED}]
        /\ term \in [Starter -> BOOLEAN] /\ helpers \in [Starter -> {"none", "running", "told"}]
        /\ left \in [Starter -> 0 .. 2] /\ deaf \in [Starter -> 0 .. 2]
        /\ serving \in [Starter -> Client \cup {"nobody"}]
        /\ {"lsof", "decide", "rebind", "acquired", "boot", "dying", "exited", "poll", "probe", "told",
             "closing", "reap", "release"} \subseteq Pc \ InSession
        /\ {"signal", "client", "panic", "fault", "refused"} \subseteq Cause
    BY DEF SingletonTypeOK, SessionTypeOK, Pc, InSession, Loop, Cause
  <1>1. ASSUME WireTypeOK', pc' \in [Starter -> Pc], serving' \in [Starter -> Client \cup {"nobody"}],
               cpc' \in [Client -> {"idle", "write", "read", "done", "failed", "killed"}],
               gen' \in [Starter -> 0 .. 2],
               found' \in [Starter -> Pid \cup {BIND_FAILED, IS_SINGLETON, POPEN_FAILED}],
               term' \in [Starter -> BOOLEAN],
               helpers' \in [Starter -> {"none", "running", "told"}],
               left' \in [Starter -> 0 .. 2], deaf' \in [Starter -> 0 .. 2],
               why' \in [Starter -> Cause], faults' \in 0 .. MaxFaults,
               UNCHANGED <<reply, close, script, sent, printed, pipe, mode>>,
               \A q \in Starter : pc'[q] \in InSession => pc'[q] = pc[q] /\ serving'[q] = serving[q]
        PROVE  TypeInv'
    BY <1>1 DEF SessionTypeOK, SingletonTypeOK, InSession
  <1>2. UNCHANGED portVars => WireTypeOK'
    BY DEF WireTypeOK, PortTypeOK, portVars
  <1>3. faults \in 0 .. MaxFaults /\ (Fault => faults' \in 0 .. MaxFaults)
        /\ cpc \in [Client -> {"idle", "write", "read", "done", "failed", "killed"}]
    BY DEF SessionTypeOK, Fault
  <1> HIDE DEF TypeInv
  <1> USE DEF Goes, Dies, sessionVars, clientVars, helperVars
  <1>4. CASE Bind(s)
    <2>1. WireTypeOK'
      BY <1>2, <1>4, ListenType DEF Bind, TypeInv
    <2> QED
      BY <1>0, <1>1, <1>3, <1>4, <2>1 DEF Bind
  <1>5. CASE Lsof(s)
    <2>1. Users \subseteq Pid
      BY <1>0 DEF Users, Pid
    <2>2. WireTypeOK'
      BY <1>2, <1>5 DEF Lsof
    <2> QED
      BY <1>0, <1>1, <1>3, <1>5, <2>1, <2>2 DEF Lsof
  <1>6. CASE DecideClose(s) \/ Decide(s)
    <2>1. ASSUME NEW next \in {"dying", "rebind"}, Kill(s, found[s], next)
          PROVE  TypeInv'
      <3>1. UNCHANGED <<serving, reply, close, script, sent, printed, pipe, mode, faults, gen, found, helperVars>>
        BY <1>6 DEF DecideClose, Decide
      <3>2. \A q \in Starter : pc'[q] \in InSession => pc'[q] = pc[q]
        BY <1>0, <2>1, KillType
      <3> QED
        BY <1>0, <1>1, <1>3, <2>1, <3>1, <3>2, KillType
    <2>2. CASE UNCHANGED portVars /\ (Goes(s, "dying") \/ Goes(s, "acquired"))
               /\ UNCHANGED <<cpc, term>> /\ (UNCHANGED why \/ Dies(s, "refused"))
      <3>1. UNCHANGED <<serving, reply, close, script, sent, printed, pipe, mode, faults, gen, found, helperVars>>
        BY <1>6 DEF DecideClose, Decide
      <3> QED
        BY <1>0, <1>1, <1>2, <1>3, <2>2, <3>1
    <2> QED
      BY <1>6, <2>1, <2>2 DEF DecideClose, Decide
  <1>7. CASE Retry(s)
    <2>1. WireTypeOK'
      BY <1>2, <1>7, ListenType DEF Retry, TypeInv
    <2> QED
      BY <1>0, <1>1, <1>3, <1>7, <2>1 DEF Retry
  <1>8. CASE Fork(s)
    BY <1>0, <1>1, <1>2, <1>3, <1>8 DEF Fork
  <1>9. CASE SpawnHelpers(s)
    BY <1>0, <1>1, <1>2, <1>3, <1>9 DEF SpawnHelpers
  <1>10. CASE EnterLoop(s) \/ ProbeHangs(s)
    BY <1>0, <1>1, <1>2, <1>3, <1>10 DEF EnterLoop, ProbeHangs, daemonVars
  <1>11. CASE HandleSignal(s)
    <2>1. WaitForChild(s) => left' \in [Starter -> 0 .. 2]
      BY <1>0, WaitType
    <2> QED
      BY <1>0, <1>1, <1>2, <1>3, <1>11, <2>1 DEF HandleSignal, TellChildren
  <1>12. CASE CleanClose(s)
    <2>1. WireTypeOK'
      BY <1>2, <1>12, StopsListeningType DEF CleanClose, TypeInv
    <2>2. WaitForChild(s) => left' \in [Starter -> 0 .. 2]
      BY <1>0, WaitType
    <2> QED
      BY <1>0, <1>1, <1>3, <1>12, <2>1, <2>2 DEF CleanClose, TellChildren
  <1>13. CASE Exit(s)
    BY <1>0, <1>1, <1>3, <1>13, StopsListeningType DEF Exit, daemonVars, TypeInv
  <1>14. CASE Stop(s)
    <2>1. term' \in [Starter -> BOOLEAN] /\ why' \in [Starter -> Cause]
      BY <1>14, SignalledType DEF Stop
    <2> QED
      BY <1>0, <1>1, <1>2, <1>3, <1>14, <2>1 DEF Stop
  <1>15. CASE GiveUp(s) \/ Panic(s)
    BY <1>0, <1>1, <1>2, <1>3, <1>15 DEF GiveUp, Panic
  <1>16. CASE Deafen(s)
    BY <1>0, <1>1, <1>2, <1>3, <1>16 DEF Deafen
  <1> QED
    BY <1>4, <1>5, <1>6, <1>7, <1>8, <1>9, <1>10, <1>11, <1>12, <1>13, <1>14, <1>15, <1>16
       DEF OwnStep, StarterStep

\* The four kinds of steps.
LEMMA StepKinds ==
    ASSUME [Next]_vars
    PROVE  \/ \E s \in Starter : Talks(s)
           \/ \E s \in Starter : OwnStep(s)
           \/ \E c \in Client : /\ ClientStep(c) \/ ConnectToDaemon(c) \/ Interrupt(c)
                                /\ UNCHANGED daemonVars
           \/ Minute
           \/ UNCHANGED vars
  BY DEF Next, Reportmand, Reportmanc, Outside, AtRest, Talks, OwnStep

LEMMA TypeInit == Init => TypeInv
  <1> SUFFICES ASSUME Init PROVE TypeInv
    OBVIOUS
  <1>1. PICK case \in Cases : mode = case.mode /\ script = case.script
    BY DEF Init
  <1>2. mode \in [Starter -> Mode] /\ script \in [Client -> Seq(Command)]
    BY <1>1 DEF Command
  <1>3. WireTypeOK
    BY DEF Init, PortInit, WireTypeOK, PortTypeOK, Link
  <1>4. SessionTypeOK
    BY <1>2 DEF Init, SessionInit, SessionTypeOK, Command
  <1>5. SingletonTypeOK
    BY DEF Init, SingletonInit, SingletonTypeOK, Pc, Cause
  <1> QED
    BY <1>2, <1>3, <1>4, <1>5 DEF TypeInv, Init, SingletonInit, InSession

LEMMA TypeStep == TypeInv /\ [Next]_vars => TypeInv'
  <1> SUFFICES ASSUME TypeInv, [Next]_vars PROVE TypeInv'
    OBVIOUS
  <1>1. CASE Minute
    <2>1. WireTypeOK'
      BY <1>1, LingerEndsType DEF Minute, TypeInv
    <2> QED
      BY <1>1, <2>1
         DEF Minute, TypeInv, SessionTypeOK, SingletonTypeOK, sessionVars, clientVars, daemonVars,
             helperVars
  <1>2. CASE UNCHANGED vars
    BY <1>2 DEF vars, TypeInv, WireTypeOK, PortTypeOK, SessionTypeOK, SingletonTypeOK, portVars,
                sessionVars, clientVars, daemonVars, helperVars
  <1> QED
    BY <1>1, <1>2, StepKinds, SessionType, StarterType, ClientStepType

\* Every variable of the port, its clients and its reportmands holds what the
\* code can put there: the backlog stays within listen()'s bound, nobody forks
\* more than twice, and a client writes no more than it was given.
THEOREM PortTypes == Spec => []TypeOK
  <1>1. Spec => []TypeInv
    BY TypeInit, TypeStep, PTL DEF Spec
  <1>2. TypeInv => TypeOK
    BY DEF TypeInv, WireTypeOK, TypeOK
  <1> QED
    BY <1>1, <1>2, PTL

-----------------------------------------------------------------------------
(* Who has the port, and how it is handed over.                            *)

\* Who is past d_acquire_singleton(), or has been told that it is the singleton.
Holds(s) ==
    \/ pc[s] \in Loop \cup {"acquired", "boot"}
    \/ pc[s] = "decide" /\ found[s] = IS_SINGLETON

\* The port is taken by a bind that succeeded and given back on the way out
\* only, so it can be relied on from d_acquire_singleton() to __clean_close().
HoldInv == \A s \in Starter : Holds(s) => listener = s \/ found[s] = POPEN_FAILED

\* A daemon ends in its foreground or after two forks, and the way out it takes
\* over a signal, a close or a PANIC is __clean_close(): the helpers are told
\* before the last wait, and each wait before the port is given back has taken
\* one of them, or both where SIGCHLD is ignored.
Orderly == {"signal", "client", "panic"}

LeftAfter(s) == IF why[s] # "signal" /\ gen[s] = 0 THEN 1 ELSE 0

WayOut(s) ==
    /\ pc[s] \in Loop \cup {"boot"} => gen[s] \in {0, 2}
    /\ why[s] \in Orderly =>
          /\ gen[s] \in {0, 2}
          /\ pc[s] \in {"told", "closing", "reap", "release", "dying", "exited"}
          /\ pc[s] \in {"reap", "release", "dying", "exited"} => helpers[s] = "told"
          /\ why[s] = "signal" /\ pc[s] \in {"closing", "reap"} =>
                left[s] <= (IF gen[s] = 2 THEN 0 ELSE 1)
          /\ pc[s] \in {"release", "dying", "exited"} => left[s] <= LeftAfter(s)

WayOutInv == \A s \in Starter : WayOut(s)

\* Nobody but the listener itself takes the port away from it.
LEMMA ListenerStays ==
    ASSUME TypeInv, NEW s \in Starter, listener = s, [Next]_vars, listener' # s
    PROVE  pc[s] \in {"release", "dying"} /\ pc'[s] \in {"dying", "exited"}
  <1>0. s # "nobody" /\ pc \in [Starter -> Pc]
    BY DEF TypeInv, SingletonTypeOK
  <1> USE DEF Listen, StopsListening, PortFree, portVars
  <1>1. CASE \E q \in Starter : Talks(q)
    BY <1>1 DEF Talks, Session, SessionStep, AcceptClient, AcceptFirst, HandleCommand, DaemonReads, WriteReply,
                WriteTo, DaemonSends, NothingMore, WriteBye, ReadEnds, HangUp,
                DaemonCloses, SelectFails
  <1>2. ASSUME NEW c \in Client, ClientStep(c) \/ ConnectToDaemon(c) \/ Interrupt(c) PROVE FALSE
    BY <1>2 DEF ClientStep, WriteCommand, ReadReply, CloseAndExit, ConnectToDaemon, Interrupt,
                ClientEnds, ClientCloses, ClientSends, Connect
  <1>3. CASE Minute
    BY <1>3 DEF Minute, LingerEnds
  <1>4. CASE UNCHANGED vars
    BY <1>4 DEF vars
  <1>5. ASSUME NEW q \in Starter, OwnStep(q)
        PROVE  /\ q = s /\ pc[s] \in {"release", "dying"} /\ pc'[s] \in {"dying", "exited"}
    <2>1. CASE CleanClose(q) \/ Exit(q)
      BY <1>0, <2>1 DEF CleanClose, Exit, Goes
    <2>2. CASE Bind(q) \/ Retry(q) \/ Lsof(q)
      BY <1>0, <2>2 DEF Bind, Retry, Lsof
    <2>3. CASE DecideClose(q) \/ Decide(q)
      BY <2>3 DEF DecideClose, Decide, Kill, ClientEnds, ClientCloses
    <2>4. CASE Fork(q) \/ SpawnHelpers(q) \/ EnterLoop(q) \/ HandleSignal(q)
      BY <2>4 DEF Fork, SpawnHelpers, EnterLoop, HandleSignal
    <2>5. CASE Stop(q) \/ GiveUp(q) \/ Panic(q) \/ Deafen(q) \/ ProbeHangs(q)
      BY <2>5 DEF Stop, GiveUp, Panic, Deafen, ProbeHangs
    <2> QED
      BY <1>5, <2>1, <2>2, <2>3, <2>4, <2>5 DEF OwnStep, StarterStep
  <1> QED
    BY <1>1, <1>2, <1>3, <1>4, <1>5, StepKinds

\* A reportmand comes to hold the port by holding it before, by binding it, or
\* over a popen() that failed.
LEMMA HoldStep == TypeInv /\ HoldInv /\ [Next]_vars => HoldInv'
  <1> SUFFICES ASSUME TypeInv, HoldInv, [Next]_vars, NEW s \in Starter, Holds(s)'
               PROVE  listener' = s \/ found'[s] = POPEN_FAILED
    BY DEF HoldInv
  <1>0. pc \in [Starter -> Pc] /\ found \in [Starter -> Pid \cup {BIND_FAILED, IS_SINGLETON, POPEN_FAILED}]
    BY DEF TypeInv, SingletonTypeOK
  <1>1. CASE Holds(s) /\ found'[s] = found[s]
    <2>1. listener = s => listener' = s
      BY <1>1, ListenerStays DEF Holds, Loop
    <2> QED
      BY <1>1, <2>1 DEF HoldInv
  <1>2. CASE ~(Holds(s) /\ found'[s] = found[s])
    <2> USE <1>0, <1>2 DEF Holds, Loop, Goes, Dies, Listen
    <2>1. CASE \E q \in Starter : Talks(q)
      BY <2>1 DEF Talks, Session, SessionStep, AcceptClient, HandleCommand, WriteReply, WriteTo,
                  NothingMore, WriteBye, ReadEnds, HangUp, SelectFails, daemonVars
    <2>2. CASE \E c \in Client : /\ ClientStep(c) \/ ConnectToDaemon(c) \/ Interrupt(c)
                                 /\ UNCHANGED daemonVars
      BY <2>2 DEF ClientStep, WriteCommand, ReadReply, CloseAndExit, ConnectToDaemon, Interrupt,
                  daemonVars
    <2>3. CASE Minute \/ UNCHANGED vars
      BY <2>3 DEF Minute, vars, daemonVars
    <2>4. ASSUME NEW q \in Starter, OwnStep(q)
          PROVE  listener' = s \/ found'[s] = POPEN_FAILED
      <3>1. CASE Bind(q) \/ Retry(q)
        BY <3>1 DEF Bind, Retry, BIND_FAILED, IS_SINGLETON
      <3>2. CASE Lsof(q)
        <4>1. Users \subseteq Pid /\ IS_SINGLETON \notin Pid \cup {BIND_FAILED, POPEN_FAILED}
          BY DEF Users, Pid, IS_SINGLETON, BIND_FAILED, POPEN_FAILED, DaemonPid, ClientPid, TypeInv, SingletonTypeOK
        <4> QED
          BY <3>2, <4>1 DEF Lsof
      <3>3. CASE DecideClose(q) \/ Decide(q)
        <4>1. \A p \in Starter \ {q} : pc'[p] \in {pc[p], "dying"}
          BY <3>3, KillType DEF DecideClose, Decide, Pc
        <4>2. UNCHANGED found /\ (q = s => pc'[s] \in {"dying", "rebind"} \/ (Acquired(found[s]) /\ pc[s] = "decide"))
          BY <3>3, KillType DEF DecideClose, Decide, Pc
        <4> QED
          BY <4>1, <4>2 DEF Acquired
      <3>4. CASE Fork(q) \/ SpawnHelpers(q) \/ EnterLoop(q) \/ HandleSignal(q)
        BY <3>4 DEF Fork, SpawnHelpers, EnterLoop, HandleSignal, daemonVars
      <3>5. CASE CleanClose(q) \/ Exit(q) \/ Stop(q) \/ GiveUp(q)
        BY <3>5 DEF CleanClose, Exit, Stop, GiveUp, daemonVars
      <3>6. CASE Panic(q) \/ Deafen(q) \/ ProbeHangs(q)
        BY <3>6 DEF Panic, Deafen, ProbeHangs, daemonVars
      <3> QED
        BY <2>4, <3>1, <3>2, <3>3, <3>4, <3>5, <3>6 DEF OwnStep, StarterStep
    <2> QED
      BY <2>1, <2>2, <2>3, <2>4, StepKinds
  <1> QED
    BY <1>1, <1>2

\* Who is not on the way out, or stays where it is, keeps to it.
LEMMA WayOutKept ==
    ASSUME NEW s \in Starter, WayOut(s), gen'[s] = gen[s],
           \/ UNCHANGED <<pc[s], why[s], helpers[s], left[s]>>
           \/ /\ why'[s] \notin Orderly
              /\ pc'[s] \in Loop \cup {"boot"} => pc[s] \in Loop \cup {"boot"}
    PROVE  WayOut(s)'
  BY DEF WayOut, LeftAfter

LEMMA WayOutStep == TypeInv /\ WayOutInv /\ [Next]_vars => WayOutInv'
  <1> SUFFICES ASSUME TypeInv, WayOutInv, [Next]_vars, NEW s \in Starter
               PROVE  WayOut(s)'
    BY DEF WayOutInv
  <1>0. /\ pc \in [Starter -> Pc] /\ why \in [Starter -> Cause] /\ gen \in [Starter -> 0 .. 2]
        /\ helpers \in [Starter -> {"none", "running", "told"}]
        /\ left \in [Starter -> 0 .. 2] /\ WayOut(s)
    BY DEF TypeInv, SingletonTypeOK, WayOutInv
  <1> USE <1>0 DEF Goes, Dies
  <1>1. ASSUME NEW q \in Starter, Talks(q) PROVE WayOut(s)'
    <2>1. UNCHANGED <<gen, helpers, left>> /\ \A p \in Starter \ {q} : pc'[p] = pc[p] /\ why'[p] = why[p]
      BY <1>1 DEF Talks, Session, SessionStep, AcceptClient, HandleCommand, WriteReply, WriteTo,
                  NothingMore, WriteBye, ReadEnds, HangUp, SelectFails, daemonVars, helperVars
    <2>2. /\ pc[q] \in InSession \cup {"poll"}
          /\ pc'[q] \in InSession \cup {"poll", "closing", "dying"}
          /\ \/ pc'[q] = "closing" /\ why'[q] = "client"
             \/ pc'[q] # "closing" /\ why'[q] = why[q]
      BY <1>1 DEF Talks, Session, SessionStep, AcceptClient, HandleCommand, WriteReply, WriteTo,
                  NothingMore, WriteBye, ReadEnds, HangUp, SelectFails, daemonVars, InSession
    <2>3. CASE s = q
      BY <2>1, <2>2, <2>3 DEF WayOut, LeftAfter, Orderly, Loop, InSession
    <2>4. CASE s # q
      BY <2>1, <2>4, WayOutKept
    <2> QED
      BY <2>3, <2>4
  <1>2. ASSUME UNCHANGED <<pc, why, helpers, left, gen>> PROVE WayOut(s)'
    BY <1>2, WayOutKept
  <1>3. CASE \/ \E c \in Client : /\ ClientStep(c) \/ ConnectToDaemon(c) \/ Interrupt(c)
                                  /\ UNCHANGED daemonVars
             \/ Minute
             \/ UNCHANGED vars
    BY <1>2, <1>3 DEF ClientStep, WriteCommand, ReadReply, CloseAndExit, ConnectToDaemon, Interrupt,
                      Minute, vars, daemonVars, helperVars
  <1>4. ASSUME NEW q \in Starter, OwnStep(q)
        PROVE  WayOut(s)'
    <2>1. CASE Bind(q) \/ Lsof(q) \/ Retry(q)
      <3>1. UNCHANGED <<gen, helpers, left>> /\ \A p \in Starter \ {q} : pc'[p] = pc[p] /\ why'[p] = why[p]
        BY <2>1 DEF Bind, Lsof, Retry, helperVars
      <3>2. /\ pc[q] \in {"bind", "lsof", "rebind"} /\ pc'[q] \notin Loop \cup {"boot"}
            /\ why'[q] \in {why[q], "fault", "refused"}
        BY <2>1 DEF Bind, Lsof, Retry, Loop
      <3>3. why[q] \in Orderly => q # s
        BY <3>2 DEF WayOut
      <3> QED
        BY <3>1, <3>2, <3>3, WayOutKept DEF Orderly
    <2>2. CASE DecideClose(q) \/ Decide(q)
      <3>1. UNCHANGED <<gen, helpers, left>> /\ pc[q] = "decide"
        BY <2>2 DEF DecideClose, Decide, helperVars
      <3>2. /\ pc'[q] \in {"dying", "rebind", "acquired"}
            /\ \A p \in Starter \ {q} : pc'[p] \in {pc[p], "dying"}
        BY <2>2, KillType DEF DecideClose, Decide, Pc
      <3>3. /\ why'[q] \in {why[q], "refused"}
            /\ \A p \in Starter \ {q} :
                  \/ why'[p] = "stopped"
                  \/ why'[p] = why[p] /\ pc'[p] = pc[p]
        BY <2>2 DEF DecideClose, Decide, Kill, Signalled
      <3>4. CASE s = q
        <4>1. why'[s] \notin Orderly
          BY <3>1, <3>3, <3>4 DEF WayOut, Orderly
        <4> QED
          BY <3>1, <3>2, <3>4, <4>1, WayOutKept DEF Loop
      <3>5. CASE s # q
        <4>1. pc'[s] \in Loop \cup {"boot"} => pc[s] \in Loop \cup {"boot"}
          BY <3>2, <3>5 DEF Loop
        <4> QED
          BY <3>1, <3>3, <3>5, <4>1, WayOutKept DEF Orderly
      <3> QED
        BY <3>4, <3>5
    <2>3. CASE Fork(q) \/ SpawnHelpers(q)
      <3>1. /\ pc[q] = "acquired" /\ UNCHANGED why
            /\ \A p \in Starter \ {q} : UNCHANGED <<pc[p], gen[p], helpers[p], left[p]>>
            /\ \/ pc'[q] = "acquired"
               \/ pc'[q] = "boot" /\ gen'[q] \in {0, 2}
        BY <2>3 DEF Fork, SpawnHelpers, helperVars
      <3>2. CASE s = q
        BY <3>1, <3>2 DEF WayOut, Loop
      <3>3. CASE s # q
        BY <3>1, <3>3, WayOutKept
      <3> QED
        BY <3>2, <3>3
    <2>4. CASE EnterLoop(q) \/ ProbeHangs(q) \/ Deafen(q)
      <3>1. /\ UNCHANGED <<why, gen, helpers, left>>
            /\ \A p \in Starter \ {q} : pc'[p] = pc[p]
            /\ \/ pc'[q] = pc[q]
               \/ pc[q] \in {"boot", "poll"} /\ pc'[q] \in {"poll", "probe"}
        BY <2>4 DEF EnterLoop, ProbeHangs, Deafen, daemonVars, helperVars
      <3>2. pc[s] \in {"boot", "poll"} => why[s] \notin Orderly
        BY DEF WayOut
      <3> QED
        BY <3>1, <3>2, WayOutKept DEF Loop
    <2>5. CASE HandleSignal(q) \/ CleanClose(q)
      <3>1. CASE s # q
        <4>1. UNCHANGED <<pc[s], why[s], gen[s], helpers[s], left[s]>>
          BY <2>5, <3>1 DEF HandleSignal, CleanClose, TellChildren, WaitForChild, helperVars
        <4> QED
          BY <4>1, WayOutKept
      <3>2. CASE s = q
        <4>1. gen'[s] = gen[s] /\ gen[s] \in {0, 2}
          BY <2>5, <3>2 DEF HandleSignal, CleanClose, WayOut, Loop
        <4>2. WaitForChild(s) => /\ left'[s] \in 0 .. 1
                                 /\ gen[s] = 2 \/ left[s] <= 1 => left'[s] = 0
          BY DEF WaitForChild
        <4>3. CASE HandleSignal(s)
          <5>1. CASE pc[s] = "poll"
            BY <4>1, <4>3, <5>1 DEF HandleSignal, WayOut, LeftAfter, Orderly
          <5>2. CASE pc[s] = "told"
            <6>1. pc'[s] = "closing" /\ helpers' = helpers /\ why' = why /\ WaitForChild(s)
              BY <4>3, <5>2 DEF HandleSignal
            <6> QED
              BY <4>1, <4>2, <5>2, <6>1 DEF WayOut, LeftAfter, Orderly
          <5> QED
            BY <4>3, <5>1, <5>2 DEF HandleSignal
        <4>4. CASE CleanClose(s)
          <5>0. why' = why
            BY <4>4 DEF CleanClose
          <5>1. CASE pc[s] = "closing"
            <6>1. pc'[s] = "reap" /\ helpers'[s] = "told" /\ left' = left
              BY <4>4, <5>1 DEF CleanClose, TellChildren
            <6> QED
              BY <4>1, <5>0, <5>1, <6>1 DEF WayOut, LeftAfter, Orderly
          <5>2. CASE pc[s] = "reap"
            <6>1. pc'[s] = "release" /\ helpers' = helpers /\ WaitForChild(s)
              BY <4>4, <5>2 DEF CleanClose
            <6>2. why[s] \in Orderly => left'[s] <= LeftAfter(s)
              BY <4>1, <4>2, <5>2, <6>1 DEF WayOut, LeftAfter, Orderly
            <6>3. LeftAfter(s)' = LeftAfter(s) /\ (pc[s] \in Loop /\ pc'[s] \in Loop)
              BY <4>1, <5>0, <5>2, <6>1 DEF LeftAfter, Loop
            <6> QED
              BY <4>1, <5>0, <5>2, <6>1, <6>2, <6>3 DEF WayOut, Orderly
          <5>3. CASE pc[s] = "release"
            <6>1. pc'[s] = "dying" /\ helpers' = helpers /\ left' = left
              BY <4>4, <5>3 DEF CleanClose, helperVars
            <6> QED
              BY <4>1, <5>0, <5>3, <6>1 DEF WayOut, LeftAfter, Orderly, Loop
          <5> QED
            BY <4>4, <5>1, <5>2, <5>3 DEF CleanClose
        <4> QED
          BY <2>5, <3>2, <4>3, <4>4
      <3> QED
        BY <3>1, <3>2
    <2>6. CASE Exit(q)
      <3>1. /\ UNCHANGED <<why, gen, helpers, left>>
            /\ \A p \in Starter \ {q} : pc'[p] = pc[p]
            /\ pc[q] = "dying" /\ pc'[q] = "exited"
        BY <2>6 DEF Exit, daemonVars, helperVars
      <3> QED
        BY <3>1 DEF WayOut, LeftAfter, Orderly, Loop
    <2>7. CASE Stop(q) \/ GiveUp(q) \/ Panic(q)
      <3>1. /\ UNCHANGED <<gen, helpers, left>>
            /\ \A p \in Starter \ {q} : pc'[p] = pc[p] /\ why'[p] = why[p]
            /\ \/ pc'[q] = pc[q] /\ why'[q] = why[q]
               \/ pc'[q] = "dying" /\ why'[q] \in {"stopped", "fault"}
               \/ pc[q] = "poll" /\ pc'[q] = "closing" /\ why'[q] = "panic"
        BY <2>7 DEF Stop, GiveUp, Panic, Signalled, helperVars
      <3> QED
        BY <3>1 DEF WayOut, LeftAfter, Orderly, Loop
    <2> QED
      BY <1>4, <2>1, <2>2, <2>3, <2>4, <2>5, <2>6, <2>7 DEF OwnStep, StarterStep
  <1> QED
    BY <1>1, <1>3, <1>4, StepKinds

DaemonInv == TypeInv /\ HoldInv /\ WayOutInv

LEMMA DaemonInvariant == Spec => []DaemonInv
  <1>1. Init => DaemonInv
    BY TypeInit DEF DaemonInv, Init, SingletonInit, HoldInv, Holds, WayOutInv, WayOut, Orderly,
                     Loop
  <1>2. DaemonInv /\ [Next]_vars => DaemonInv'
    BY TypeStep, HoldStep, WayOutStep DEF DaemonInv
  <1> QED
    BY <1>1, <1>2, PTL DEF Spec

\* A reportmand that is in its loop has the port, or popen() failed for it.
THEOREM WorkersHavePort == Spec => []LoopHasPort
  <1>1. DaemonInv => LoopHasPort
    BY DEF DaemonInv, HoldInv, Holds, LoopHasPort
  <1> QED
    BY <1>1, DaemonInvariant, PTL

\* The port of a daemon that ends over a signal, a client's close or a PANIC is
\* another's only after its helpers were told and waited for: while it waits it
\* has the port, and it gives it back with one of them left at the most, and
\* that only where its one wait was for one child.
THEOREM HandoverIsOrderly == Spec => []OrderlyHandover
  <1>1. ASSUME DaemonInv, NEW q \in Starter,
               listener \in Starter \ {q}, found[q] # POPEN_FAILED, why[q] \in Orderly
        PROVE  helpers[q] = "told" /\ left[q] <= LeftAfter(q)
    <2>1. pc[q] \notin Loop
      BY <1>1 DEF DaemonInv, HoldInv, Holds
    <2>2. pc[q] \in {"dying", "exited"}
      BY <1>1, <2>1 DEF DaemonInv, WayOutInv, WayOut, Loop
    <2> QED
      BY <1>1, <2>2 DEF DaemonInv, WayOutInv, WayOut
  <1>2. DaemonInv => OrderlyHandover
    BY <1>1 DEF OrderlyHandover, Orderly, LeftAfter
  <1> QED
    BY <1>2, DaemonInvariant, PTL

-----------------------------------------------------------------------------
(* The conversation of a client and the daemon that serves it.             *)

Full(c, i)     == printed[c][i] = <<Answer(<<script[c][i]>>)>>
AllFull(c)     == \A i \in DOMAIN printed[c] : Full(c, i)
Outstanding(c) == Len(printed[c]) < sent[c]
AnswerDue(c)   == Answer(<<script[c][sent[c]]>>)

\* AnsweredInTurn of one client.
InTurn(c) ==
    \A i \in DOMAIN printed[c] :
        /\ Full(c, i) \/ printed[c][i] \in {<<>>, <<Bye>>, <<Answer(<<script[c][i]>>), Bye>>}
        /\ ~Full(c, i) => \A j \in DOMAIN printed[c] : j > i => printed[c][j] = <<>>

\* One command, one read: what a client has written, printed and been sent, at
\* any time. Something to read that is not the answer ends what it will ever
\* read, so nothing but answers has been printed before.
ClientInv(c) ==
    /\ cpc[c] = "idle" =>
          /\ link[c] = "none" /\ cend[c] = "none" /\ eof[c] = "no" /\ ~reset[c]
          /\ toD[c] = <<>> /\ toC[c] = <<>> /\ sent[c] = 0 /\ printed[c] = <<>>
    /\ cpc[c] = "read" => sent[c] = Len(printed[c]) + 1
    /\ cpc[c] \in {"write", "done"} => sent[c] = Len(printed[c])
    /\ cpc[c] \in {"write", "read"} <=> cend[c] = "open"
    /\ cend[c] = "none" => cpc[c] \in {"idle", "failed"}
    /\ reset[c] => cend[c] = "closed"
    /\ toC[c] # <<>> =>
          /\ AllFull(c)
          /\ \/ cpc[c] \in {"write", "read"} /\ toC[c] = <<Bye>>
             \/ cpc[c] = "read" /\ toC[c] \in {<<AnswerDue(c)>>, <<AnswerDue(c), Bye>>}
    /\ InTurn(c)
    /\ link[c] \in {"queued", "open"} => eof[c] = "no" /\ cpc[c] \notin {"idle", "failed"}

\* A client whose session is to come or goes on: every answer it got it has
\* printed, and there is a command, an answer or neither under way. Whatever
\* is, or has broken the pipe, belongs to a command without a printed answer.
PreInv(c) ==
    /\ AllFull(c)
    /\ toC[c] # <<>> => Outstanding(c) /\ toD[c] = <<>> /\ toC[c] = <<AnswerDue(c)>>
    /\ toD[c] # <<>> => Outstanding(c) /\ toD[c] = <<script[c][sent[c]]>>
    /\ reset[c] => Outstanding(c)

\* The backlog holds clients that wait, each once.
QueueInv ==
    /\ \A i \in DOMAIN backlog : link[backlog[i]] = "queued"
    /\ \A i, j \in DOMAIN backlog : backlog[i] = backlog[j] => i = j
    /\ \A c \in Client : link[c] = "queued" => PreInv(c)

\* A reportmand serves one client, no two serve the same, and between a command
\* and its reply nothing else is under way.
ServeInv ==
    \A s \in Starter :
        /\ serving[s] # "nobody" =>
              /\ pc[s] \in InSession \cup {"dying"}
              /\ link[serving[s]] = "open"
              /\ \A q \in Starter : serving[q] = serving[s] => q = s
        /\ pc[s] \in {"select", "read", "reply", "bye"} => PreInv(serving[s])
        /\ pc[s] = "reply" =>
              /\ toD[serving[s]] = <<>> /\ toC[serving[s]] = <<>>
              /\ Outstanding(serving[s]) /\ reply[s] = AnswerDue(serving[s])

ClientsInv == \A c \in Client : ClientInv(c)

TalkInv == ClientsInv /\ QueueInv /\ ServeInv

\* A step that leaves a client and its connection alone.
Untouched(c) ==
    /\ link'[c] = link[c] /\ cend'[c] = cend[c] /\ reset'[c] = reset[c] /\ eof'[c] = eof[c]
    /\ toD'[c] = toD[c] /\ toC'[c] = toC[c]
    /\ cpc'[c] = cpc[c] /\ sent'[c] = sent[c] /\ printed'[c] = printed[c]

LEMMA UntouchedKeeps ==
    ASSUME NEW c \in Client, Untouched(c), UNCHANGED script
    PROVE  /\ ClientInv(c)' = ClientInv(c) /\ PreInv(c)' = PreInv(c)
           /\ Outstanding(c)' = Outstanding(c) /\ AnswerDue(c)' = AnswerDue(c)
  BY DEF Untouched, ClientInv, PreInv, AllFull, Full, InTurn, Outstanding, AnswerDue

\* A reportmand that serves nobody may go anywhere but into a session.
CalmServers ==
    \A q \in Starter : pc'[q] \in InSession \/ serving[q] # "nobody" => pc'[q] = pc[q]

-----------------------------------------------------------------------------
(* What a client does keeps the conversation in order.                     *)

\* A client moves: its own part and what is said of it by the daemon that serves
\* it, or will, are all there is to show.
LEMMA ClientMoves ==
    ASSUME TypeInv, TalkInv, NEW c \in Client, ClientInv(c)',
           \A d \in Client \ {c} : Untouched(d),
           UNCHANGED <<script, serving, reply, backlog>>, CalmServers,
           link[c] \in {"queued", "open"} \/ link'[c] \in {"queued", "open"} => link'[c] = link[c],
           link[c] \in {"queued", "open"} /\ PreInv(c) => PreInv(c)',
           /\ link[c] = "open" /\ toD[c] = <<>> /\ toC[c] = <<>> /\ Outstanding(c)
           => /\ toD'[c] = <<>> /\ toC'[c] = <<>> /\ Outstanding(c)'
              /\ AnswerDue(c)' = AnswerDue(c)
    PROVE  TalkInv'
  <1>0. backlog \in Seq(Client) /\ \A s \in Starter : pc[s] \in InSession => serving[s] \in Client
    BY DEF TypeInv, WireTypeOK, PortTypeOK
  <1>1. ClientsInv'
    BY UntouchedKeeps DEF ClientsInv, TalkInv
  <1>2. \A d \in Client : link[d] \in {"queued", "open"} \/ link'[d] \in {"queued", "open"} => link'[d] = link[d]
    BY DEF Untouched
  <1>3. \A d \in Client : link[d] \in {"queued", "open"} /\ PreInv(d) => PreInv(d)'
    BY UntouchedKeeps
  <1>4. QueueInv'
    BY <1>0, <1>2, <1>3 DEF QueueInv, TalkInv
  <1>5. ServeInv'
    <2> SUFFICES ASSUME NEW s \in Starter
                 PROVE  /\ serving[s] # "nobody" =>
                              /\ pc'[s] \in InSession \cup {"dying"}
                              /\ link'[serving[s]] = "open"
                              /\ \A q \in Starter : serving[q] = serving[s] => q = s
                        /\ pc'[s] \in {"select", "read", "reply", "bye"} => PreInv(serving[s])'
                        /\ pc'[s] = "reply" =>
                              /\ toD'[serving[s]] = <<>> /\ toC'[serving[s]] = <<>>
                              /\ Outstanding(serving[s])' /\ reply[s] = AnswerDue(serving[s])'
      BY DEF ServeInv
    <2>0. serving[s] \in Client \cup {"nobody"} /\ "nobody" \notin Client
      BY DEF TypeInv, SessionTypeOK
    <2>1. serving[s] # "nobody" =>
              /\ pc[s] \in InSession \cup {"dying"} /\ link[serving[s]] = "open" /\ pc'[s] = pc[s]
              /\ \A q \in Starter : serving[q] = serving[s] => q = s
      BY DEF ServeInv, TalkInv, CalmServers
    <2>2. pc'[s] \in InSession => pc'[s] = pc[s] /\ serving[s] \in Client
      BY <1>0 DEF CalmServers
    <2>3. pc'[s] \in {"select", "read", "reply", "bye"} => PreInv(serving[s])'
      BY <1>3, <2>0, <2>1, <2>2 DEF ServeInv, TalkInv, InSession
    <2>4. pc'[s] = "reply" =>
              /\ toD'[serving[s]] = <<>> /\ toC'[serving[s]] = <<>>
              /\ Outstanding(serving[s])' /\ reply[s] = AnswerDue(serving[s])'
      <3> SUFFICES ASSUME pc'[s] = "reply"
                   PROVE  /\ toD'[serving[s]] = <<>> /\ toC'[serving[s]] = <<>>
                          /\ Outstanding(serving[s])' /\ reply[s] = AnswerDue(serving[s])'
        OBVIOUS
      <3>1. pc[s] = "reply" /\ serving[s] \in Client /\ link[serving[s]] = "open"
        BY <2>0, <2>1, <2>2 DEF InSession
      <3>2. /\ toD[serving[s]] = <<>> /\ toC[serving[s]] = <<>>
            /\ Outstanding(serving[s]) /\ reply[s] = AnswerDue(serving[s])
        BY <3>1 DEF ServeInv, TalkInv
      <3>3. CASE serving[s] = c
        BY <3>1, <3>2, <3>3
      <3>4. CASE serving[s] # c
        BY <3>1, <3>2, <3>4, UntouchedKeeps DEF Untouched
      <3> QED
        BY <3>3, <3>4
    <2> QED
      BY <1>2, <2>0, <2>1, <2>3, <2>4
  <1> QED
    BY <1>1, <1>4, <1>5 DEF TalkInv

\* The end of a client: nothing it was owed is lost but what it had not read.
LEMMA ClientEndsInOrder ==
    ASSUME TypeInv, TalkInv, NEW c \in Client, NEW how, ClientEnds(c, how),
           cpc[c] \in {"write", "read"},
           \/ how = "killed"
           \/ how = "done" /\ cpc[c] = "write"
           \/ how = "failed" /\ eof[c] # "no",
           UNCHANGED <<script, sent, printed, serving, reply>>, CalmServers
    PROVE  TalkInv'
  <1>0. /\ link \in [Client -> Link] /\ cend \in [Client -> {"none", "open", "closed"}]
        /\ reset \in [Client -> BOOLEAN] /\ toC \in [Client -> Seq(Reply)]
        /\ cpc \in [Client -> {"idle", "write", "read", "done", "failed", "killed"}]
    BY DEF TypeInv, WireTypeOK, PortTypeOK, SessionTypeOK
  <1>1. /\ cend'[c] = "closed" /\ toC'[c] = <<>> /\ reset'[c] = (reset[c] \/ toC[c] # <<>>)
        /\ link'[c] = (IF link[c] = "lingers" /\ toC[c] # <<>> THEN "closed" ELSE link[c])
        /\ cpc'[c] = how
        /\ UNCHANGED <<backlog, toD, eof>>
    BY <1>0 DEF ClientEnds, ClientCloses
  <1>2. \A d \in Client \ {c} : Untouched(d)
    BY <1>0 DEF ClientEnds, ClientCloses, Untouched
  <1>3. ClientInv(c)
    BY DEF TalkInv, ClientsInv
  <1>4. ClientInv(c)'
    BY <1>1, <1>3 DEF ClientInv, InTurn, Full
  <1>5. link[c] \in {"queued", "open"} \/ link'[c] \in {"queued", "open"} => link'[c] = link[c]
    BY <1>1
  <1>6. link[c] \in {"queued", "open"} /\ PreInv(c) => PreInv(c)'
    <2>1. AllFull(c)' = AllFull(c) /\ Outstanding(c)' = Outstanding(c)
      BY DEF AllFull, Full, Outstanding
    <2> QED
      BY <1>1, <1>3, <2>1 DEF PreInv, AnswerDue
  <1>7. /\ link[c] = "open" /\ toD[c] = <<>> /\ toC[c] = <<>> /\ Outstanding(c)
        => /\ toD'[c] = <<>> /\ toC'[c] = <<>> /\ Outstanding(c)'
           /\ AnswerDue(c)' = AnswerDue(c)
    BY <1>1 DEF Outstanding, AnswerDue
  <1> QED
    BY <1>1, <1>2, <1>4, <1>5, <1>6, <1>7, ClientMoves

\* A command is written when all that were before it have been answered.
LEMMA WriteInOrder ==
    ASSUME TypeInv, TalkInv, NEW c \in Client, WriteCommand(c), CalmServers
    PROVE  TalkInv'
  <1>0. /\ link \in [Client -> Link] /\ eof \in [Client -> {"no", "fin", "rst", "broken"}]
        /\ toD \in [Client -> Seq(Command)] /\ toC \in [Client -> Seq(Reply)]
        /\ cpc \in [Client -> {"idle", "write", "read", "done", "failed", "killed"}]
        /\ printed \in [Client -> Seq(Seq(Reply))]
        /\ sent \in [Client -> Nat] /\ cpc[c] = "write" /\ sent[c] < Len(script[c])
        /\ UNCHANGED <<script, printed, serving, reply>>
    BY DEF TypeInv, WireTypeOK, PortTypeOK, SessionTypeOK, WriteCommand, sessionVars
  <1>1. ClientInv(c)
    BY DEF TalkInv, ClientsInv
  <1>2. CASE eof[c] \in {"rst", "broken"} /\ ClientEnds(c, "failed") /\ UNCHANGED sent
    BY <1>0, <1>2, ClientEndsInOrder
  <1>3. CASE /\ ClientSends(c, script[c][sent[c] + 1])
             /\ sent' = [sent EXCEPT ![c] = @ + 1]
             /\ cpc' = [cpc EXCEPT ![c] = "read"]
    <2> DEFINE m == script[c][sent[c] + 1]
    <2>1. /\ cpc'[c] = "read" /\ m = script[c][sent'[c]]
          /\ sent'[c] = sent[c] + 1
          /\ UNCHANGED <<backlog, cend, toC, reset>>
          /\ \/ eof[c] = "no" /\ UNCHANGED <<link, eof>> /\ toD' = [toD EXCEPT ![c] = Append(@, m)]
             \/ eof[c] = "fin" /\ UNCHANGED toD /\ link'[c] = "closed" /\ eof'[c] = "broken"
      BY <1>0, <1>3 DEF ClientSends
    <2>2. \A d \in Client \ {c} : Untouched(d)
      BY <1>0, <1>3 DEF ClientSends, Untouched
    <2> HIDE DEF m
    <2>3. sent[c] = Len(printed[c]) /\ (toC[c] # <<>> => toC[c] = <<Bye>>) /\ ~reset[c] /\ cend[c] = "open"
      BY <1>0, <1>1 DEF ClientInv
    <2>4. ClientInv(c)'
      BY <1>0, <1>1, <2>1, <2>3 DEF ClientInv, InTurn, AllFull, Full
    <2>5. link[c] \in {"queued", "open"} \/ link'[c] \in {"queued", "open"} => link'[c] = link[c]
      BY <1>1, <2>1 DEF ClientInv
    <2>6. ~Outstanding(c)
      BY <2>3 DEF Outstanding
    <2>7. link[c] \in {"queued", "open"} /\ PreInv(c) => PreInv(c)'
      <3> SUFFICES ASSUME link[c] \in {"queued", "open"}, PreInv(c)
                   PROVE  PreInv(c)'
        OBVIOUS
      <3>1. toD[c] = <<>> /\ toC[c] = <<>> /\ AllFull(c)
        BY <2>6 DEF PreInv
      <3>2. eof[c] = "no" /\ toD' = [toD EXCEPT ![c] = Append(@, m)]
        BY <1>1, <2>1 DEF ClientInv
      <3>3. toD'[c] = <<script[c][sent'[c]]>>
        BY <1>0, <2>1, <3>1, <3>2
      <3>4. AllFull(c)'
        BY <1>0, <3>1 DEF AllFull, Full
      <3>5. Outstanding(c)'
        <4>1. Len(printed[c]) \in Nat
          BY <1>0
        <4> QED
          BY <1>0, <2>1, <2>3, <4>1 DEF Outstanding
      <3> QED
        BY <1>0, <2>1, <2>3, <3>1, <3>3, <3>4, <3>5 DEF PreInv
    <2> QED
      BY <1>0, <2>1, <2>2, <2>4, <2>5, <2>6, <2>7, ClientMoves
  <1> QED
    BY <1>2, <1>3 DEF WriteCommand

\* A read that brings the answer leaves the client with all its answers; one
\* that brings anything else is the last that brings something.
LEMMA PrintInTurn ==
    ASSUME TypeInv, NEW c \in Client, ClientInv(c), UNCHANGED script,
           cpc[c] = "read", printed' = [printed EXCEPT ![c] = Append(@, toC[c])]
    PROVE  /\ InTurn(c)'
           /\ Len(printed'[c]) = Len(printed[c]) + 1
           /\ AllFull(c) /\ toC[c] = <<AnswerDue(c)>> => AllFull(c)'
  <1>0. printed \in [Client -> Seq(Seq(Reply))] /\ toC[c] \in Seq(Reply)
    BY DEF TypeInv, SessionTypeOK, WireTypeOK
  <1> PICK n \in Nat : n = Len(printed[c])
    BY <1>0
  <1>1. sent[c] = n + 1 /\ DOMAIN printed[c] = 1 .. n
    BY <1>0 DEF ClientInv
  <1>2. /\ DOMAIN printed'[c] = 1 .. n + 1 /\ Len(printed'[c]) = n + 1
        /\ \A i \in 1 .. n : printed'[c][i] = printed[c][i]
        /\ printed'[c][n + 1] = toC[c]
    BY <1>0
  <1>3. \A i \in 1 .. n : Full(c, i)' = Full(c, i)
    BY <1>2 DEF Full
  <1>4. Full(c, n + 1)' <=> toC[c] = <<AnswerDue(c)>>
    BY <1>1, <1>2 DEF Full, AnswerDue
  <1>5. AllFull(c) /\ toC[c] = <<AnswerDue(c)>> => AllFull(c)'
    BY <1>1, <1>2, <1>3, <1>4 DEF AllFull
  <1>6. \/ toC[c] = <<>>
        \/ AllFull(c) /\ toC[c] \in {<<Bye>>, <<AnswerDue(c)>>, <<AnswerDue(c), Bye>>}
    BY DEF ClientInv
  <1>7. InTurn(c)
    BY DEF ClientInv
  <1>8. ASSUME NEW i \in 1 .. n + 1
        PROVE  /\ Full(c, i)' \/ printed'[c][i] \in {<<>>, <<Bye>>, <<Answer(<<script[c][i]>>), Bye>>}
               /\ ~Full(c, i)' => \A j \in 1 .. n + 1 : j > i => printed'[c][j] = <<>>
    <2>1. CASE i = n + 1
      BY <1>1, <1>2, <1>4, <1>6, <2>1 DEF AnswerDue
    <2>2. CASE i \in 1 .. n
      <3>1. Full(c, i)' \/ printed'[c][i] \in {<<>>, <<Bye>>, <<Answer(<<script[c][i]>>), Bye>>}
        BY <1>1, <1>2, <1>3, <1>7, <2>2 DEF InTurn
      <3>2. ASSUME ~Full(c, i)', NEW j \in 1 .. n + 1, j > i
            PROVE  printed'[c][j] = <<>>
        <4>1. ~Full(c, i) /\ ~AllFull(c)
          BY <1>1, <1>3, <2>2, <3>2 DEF AllFull
        <4>2. CASE j \in 1 .. n
          BY <1>1, <1>2, <1>7, <2>2, <3>2, <4>1, <4>2 DEF InTurn
        <4>3. CASE j = n + 1
          BY <1>2, <1>6, <4>1, <4>3
        <4> QED
          BY <1>1, <4>2, <4>3
      <3> QED
        BY <3>1, <3>2
    <2> QED
      BY <1>1, <2>1, <2>2
  <1>9. InTurn(c)'
    BY <1>2, <1>8 DEF InTurn
  <1> QED
    BY <1>2, <1>5, <1>9

\* A command is read for, once.
LEMMA ReadInOrder ==
    ASSUME TypeInv, TalkInv, NEW c \in Client, ReadReply(c), CalmServers
    PROVE  TalkInv'
  <1>0. /\ link \in [Client -> Link] /\ eof \in [Client -> {"no", "fin", "rst", "broken"}]
        /\ toD \in [Client -> Seq(Command)] /\ toC \in [Client -> Seq(Reply)]
        /\ cpc \in [Client -> {"idle", "write", "read", "done", "failed", "killed"}]
        /\ printed \in [Client -> Seq(Seq(Reply))] /\ sent \in [Client -> Nat]
        /\ cpc[c] = "read" /\ UNCHANGED <<script, sent, serving, reply>>
    BY DEF TypeInv, WireTypeOK, PortTypeOK, SessionTypeOK, ReadReply, sessionVars
  <1>1. ClientInv(c)
    BY DEF TalkInv, ClientsInv
  <1>2. CASE toC[c] = <<>> /\ eof[c] = "rst" /\ ClientEnds(c, "failed") /\ UNCHANGED printed
    BY <1>0, <1>2, ClientEndsInOrder
  <1>3. CASE /\ toC[c] # <<>> \/ eof[c] \in {"fin", "broken"}
             /\ printed' = [printed EXCEPT ![c] = Append(@, toC[c])]
             /\ toC' = [toC EXCEPT ![c] = <<>>]
             /\ cpc' = [cpc EXCEPT ![c] = "write"]
             /\ UNCHANGED <<listener, backlog, link, cend, toD, reset, eof>>
    <2>1. \A d \in Client \ {c} : Untouched(d)
      BY <1>0, <1>3 DEF Untouched
    <2>2. /\ InTurn(c)' /\ Len(printed'[c]) = Len(printed[c]) + 1
          /\ AllFull(c) /\ toC[c] = <<AnswerDue(c)>> => AllFull(c)'
      BY <1>0, <1>1, <1>3, PrintInTurn
    <2>3. toC'[c] = <<>> /\ cpc'[c] = "write"
      BY <1>0, <1>3
    <2>4. /\ sent[c] = Len(printed[c]) + 1 /\ cend[c] = "open" /\ ~reset[c]
          /\ link[c] \in {"queued", "open"} => toC[c] # <<>>
      BY <1>0, <1>1, <1>3 DEF ClientInv
    <2>5. ClientInv(c)'
      BY <1>0, <1>1, <1>3, <2>2, <2>3, <2>4 DEF ClientInv
    <2>6. link[c] \in {"queued", "open"} /\ PreInv(c) => PreInv(c)'
      BY <1>3, <2>2, <2>3, <2>4 DEF PreInv
    <2>7. link[c] = "open" => toC[c] # <<>>
      BY <2>4
    <2> QED
      BY <1>0, <1>3, <2>1, <2>5, <2>6, <2>7, ClientMoves
  <1> QED
    BY <1>2, <1>3 DEF ReadReply, BufferRead

\* A client that comes has a clean connection, at the end of the queue.
LEMMA ConnectInOrder ==
    ASSUME TypeInv, TalkInv, NEW c \in Client, ConnectToDaemon(c), UNCHANGED daemonVars
    PROVE  TalkInv'
  <1>0. /\ link \in [Client -> Link] /\ cend \in [Client -> {"none", "open", "closed"}]
        /\ cpc \in [Client -> {"idle", "write", "read", "done", "failed", "killed"}]
        /\ backlog \in Seq(Client)
        /\ cpc[c] = "idle" /\ UNCHANGED <<script, sent, printed, serving, reply, pc>>
    BY DEF TypeInv, WireTypeOK, PortTypeOK, SessionTypeOK, ConnectToDaemon, sessionVars
  <1>1. /\ ClientInv(c) /\ link[c] = "none" /\ cend[c] = "none" /\ eof[c] = "no" /\ ~reset[c]
        /\ toD[c] = <<>> /\ toC[c] = <<>> /\ sent[c] = 0 /\ printed[c] = <<>>
    BY <1>0 DEF TalkInv, ClientsInv, ClientInv
  <1>2. CASE UNCHANGED portVars /\ cpc' = [cpc EXCEPT ![c] = "failed"]
    <2>1. \A d \in Client \ {c} : Untouched(d)
      BY <1>0, <1>2 DEF Untouched, portVars
    <2>2. ClientInv(c)'
      BY <1>0, <1>1, <1>2 DEF ClientInv, InTurn, Full, portVars
    <2> QED
      BY <1>0, <1>1, <1>2, <2>1, <2>2, ClientMoves DEF portVars, CalmServers
  <1>3. CASE Connect(c) /\ cpc' = [cpc EXCEPT ![c] = "write"]
    <2>1. /\ backlog' = Append(backlog, c) /\ link'[c] = "queued" /\ cend'[c] = "open" /\ cpc'[c] = "write"
          /\ UNCHANGED <<toD, toC, reset, eof>>
      BY <1>0, <1>3 DEF Connect
    <2>2. \A d \in Client \ {c} : Untouched(d)
      BY <1>0, <1>3 DEF Untouched, Connect
    <2>3. AllFull(c)' /\ InTurn(c)' /\ Len(printed[c]) = 0
      BY <1>0, <1>1 DEF AllFull, InTurn
    <2>4. ClientInv(c)'
      BY <1>0, <1>1, <2>1, <2>3 DEF ClientInv
    <2>5. ClientsInv'
      BY <1>0, <2>2, <2>4, UntouchedKeeps DEF ClientsInv, TalkInv
    <2>6. QueueInv'
      <3>1. \A i \in DOMAIN backlog : backlog[i] \in Client /\ backlog[i] # c
        BY <1>0, <1>1 DEF TalkInv, QueueInv
      <3>2. /\ DOMAIN backlog' = 1 .. Len(backlog) + 1 /\ DOMAIN backlog = 1 .. Len(backlog)
            /\ \A i \in DOMAIN backlog : backlog'[i] = backlog[i]
            /\ backlog'[Len(backlog) + 1] = c /\ Len(backlog) \in Nat
        BY <1>0, <2>1
      <3>3. \A i \in DOMAIN backlog' : link'[backlog'[i]] = "queued"
        BY <2>1, <2>2, <3>1, <3>2 DEF TalkInv, QueueInv, Untouched
      <3>4. \A i, j \in DOMAIN backlog' : backlog'[i] = backlog'[j] => i = j
        BY <3>1, <3>2 DEF TalkInv, QueueInv
      <3>5. PreInv(c)'
        BY <1>0, <1>1, <2>1, <2>3 DEF PreInv
      <3>6. ASSUME NEW d \in Client, link'[d] = "queued" PROVE PreInv(d)'
        BY <1>0, <2>2, <3>5, <3>6, UntouchedKeeps DEF TalkInv, QueueInv, Untouched
      <3> QED
        BY <3>3, <3>4, <3>6 DEF QueueInv
    <2>7. ServeInv'
      <3>1. \A s \in Starter : serving[s] # "nobody" => serving[s] \in Client \ {c}
        BY <1>1 DEF TalkInv, ServeInv, TypeInv, SessionTypeOK
      <3>2. \A s \in Starter : pc[s] \in InSession => serving[s] \in Client \ {c}
        BY <3>1 DEF TypeInv
      <3>3. \A d \in Client \ {c} : /\ link'[d] = link[d] /\ toD'[d] = toD[d] /\ toC'[d] = toC[d]
                                    /\ PreInv(d)' = PreInv(d) /\ Outstanding(d)' = Outstanding(d)
                                    /\ AnswerDue(d)' = AnswerDue(d)
        BY <1>0, <2>2, UntouchedKeeps DEF Untouched
      <3> QED
        BY <1>0, <3>1, <3>2, <3>3 DEF TalkInv, ServeInv, InSession
    <2> QED
      BY <2>5, <2>6, <2>7 DEF TalkInv
  <1> QED
    BY <1>2, <1>3 DEF ConnectToDaemon

LEMMA ClientInOrder ==
    ASSUME TypeInv, TalkInv, NEW c \in Client, ClientStep(c) \/ ConnectToDaemon(c) \/ Interrupt(c),
           UNCHANGED daemonVars
    PROVE  TalkInv'
  <1>1. CASE ConnectToDaemon(c)
    BY <1>1, ConnectInOrder
  <1>2. CASE WriteCommand(c) \/ ReadReply(c)
    BY <1>2, WriteInOrder, ReadInOrder DEF WriteCommand, ReadReply, CalmServers
  <1>3. CASE CloseAndExit(c) \/ Interrupt(c)
    BY <1>3, ClientEndsInOrder DEF CloseAndExit, Interrupt, CalmServers, sessionVars
  <1> QED
    BY <1>1, <1>2, <1>3 DEF ClientStep

-----------------------------------------------------------------------------
(* What a reportmand does keeps the conversation in order.                 *)

\* s goes on with the session of c, or dies in it.
LEMMA ServerMoves ==
    ASSUME TypeInv, TalkInv, NEW s \in Starter, NEW c \in Client, serving[s] = c,
           \A d \in Client \ {c} : Untouched(d),
           \A q \in Starter \ {s} : pc'[q] = pc[q] /\ reply'[q] = reply[q],
           UNCHANGED <<script, serving, backlog>>, link'[c] = link[c],
           ClientInv(c)',
           pc'[s] \in InSession \cup {"dying"},
           pc'[s] \in {"select", "read", "reply", "bye"} => PreInv(c)',
           pc'[s] = "reply" => /\ toD'[c] = <<>> /\ toC'[c] = <<>>
                               /\ Outstanding(c)' /\ reply'[s] = AnswerDue(c)'
    PROVE  TalkInv'
  <1>0. /\ link[c] = "open" /\ \A q \in Starter \ {s} : serving[q] # c
        /\ backlog \in Seq(Client)
        /\ \A q \in Starter : /\ serving[q] \in Client \cup {"nobody"}
                              /\ pc[q] \in InSession => serving[q] \in Client
    <2>1. serving[s] # "nobody"
      OBVIOUS
    <2>2. link[c] = "open" /\ \A q \in Starter \ {s} : serving[q] # c
      BY <2>1 DEF TalkInv, ServeInv
    <2> QED
      BY <2>2 DEF TypeInv, SessionTypeOK, WireTypeOK, PortTypeOK
  <1>1. ClientsInv'
    BY UntouchedKeeps DEF ClientsInv, TalkInv
  <1>2. \A d \in Client : link'[d] = link[d]
    BY DEF Untouched
  <1>3. \A d \in Client \ {c} : /\ toD'[d] = toD[d] /\ toC'[d] = toC[d]
                                /\ PreInv(d)' = PreInv(d) /\ Outstanding(d)' = Outstanding(d)
                                /\ AnswerDue(d)' = AnswerDue(d)
    BY UntouchedKeeps DEF Untouched
  <1>4. QueueInv'
    BY <1>0, <1>2, <1>3 DEF QueueInv, TalkInv
  <1>5. ServeInv'
    <2>1. \A q \in Starter : pc[q] \in InSession => serving[q] # "nobody"
      BY <1>0
    <2>2. ASSUME NEW q \in Starter, serving[q] # "nobody"
          PROVE  /\ pc'[q] \in InSession \cup {"dying"} /\ link'[serving[q]] = "open"
                 /\ \A r \in Starter : serving[r] = serving[q] => r = q
      BY <1>0, <1>2, <2>2 DEF TalkInv, ServeInv
    <2>3. ASSUME NEW q \in Starter, q # s
          PROVE  /\ pc'[q] \in {"select", "read", "reply", "bye"} => PreInv(serving[q])'
                 /\ pc'[q] = "reply" =>
                       /\ toD'[serving[q]] = <<>> /\ toC'[serving[q]] = <<>>
                       /\ Outstanding(serving[q])' /\ reply'[q] = AnswerDue(serving[q])'
      <3>1. pc'[q] = pc[q] /\ reply'[q] = reply[q] /\ serving[q] # c
        BY <1>0, <2>3
      <3>2. pc[q] \in InSession => serving[q] \in Client \ {c}
        BY <1>0, <3>1
      <3> QED
        BY <1>3, <3>1, <3>2 DEF TalkInv, ServeInv, InSession
    <2> QED
      BY <2>2, <2>3 DEF ServeInv
  <1> QED
    BY <1>1, <1>4, <1>5 DEF TalkInv

\* Writing over a connection that is open: it gets there, or the client's end is
\* closed and a command of it goes without its answer.
LEMMA BrokenIsDeserted ==
    ASSUME TypeInv, NEW c \in Client, ClientInv(c), PreInv(c), link[c] = "open", Broken(c)
    PROVE  cpc[c] = "killed" /\ Outstanding(c)
  <1>1. cpc[c] \in {"idle", "write", "read", "done", "failed", "killed"}
    BY DEF TypeInv, SessionTypeOK
  <1>2. sent[c] \in Nat /\ Len(printed[c]) \in Nat
    BY DEF TypeInv, SessionTypeOK
  <1> QED
    BY <1>1, <1>2 DEF ClientInv, PreInv, Broken, Outstanding

LEMMA AppendToOne ==
    ASSUME NEW S, NEW a \in S, NEW b \in S
    PROVE  Append(<<a>>, b) = <<a, b>>
  <1>1. <<a>> \in Seq(S) /\ <<a, b>> \in Seq(S) /\ Append(<<a>>, b) \in Seq(S)
    OBVIOUS
  <1>2. Len(Append(<<a>>, b)) = 2 /\ Len(<<a, b>>) = 2
    OBVIOUS
  <1>3. \A i \in 1 .. 2 : Append(<<a>>, b)[i] = <<a, b>>[i]
    OBVIOUS
  <1> QED
    BY <1>1, <1>2, <1>3, SeqEqual

LEMMA SessionInOrder ==
    ASSUME TypeInv, TalkInv, NEW s \in Starter, NEW c \in Client, serving[s] = c,
           HandleCommand(s) \/ WriteReply(s) \/ NothingMore(s) \/ WriteBye(s) \/ ReadEnds(s)
           \/ SelectFails(s)
    PROVE  TalkInv'
  <1>0. /\ cend \in [Client -> {"none", "open", "closed"}] /\ reset \in [Client -> BOOLEAN]
        /\ toD \in [Client -> Seq(Command)] /\ toC \in [Client -> Seq(Reply)]
        /\ pc \in [Starter -> Pc] /\ reply \in [Starter -> Reply \cup {"none"}]
        /\ sent[c] \in Nat /\ Len(printed[c]) \in Nat
        /\ cpc[c] \in {"idle", "write", "read", "done", "failed", "killed"}
    BY DEF TypeInv, WireTypeOK, PortTypeOK, SessionTypeOK, SingletonTypeOK
  <1>1. /\ ClientInv(c) /\ link[c] = "open"
        /\ pc[s] \in {"select", "read", "reply", "bye"} => PreInv(c)
        /\ pc[s] = "reply" => /\ toD[c] = <<>> /\ toC[c] = <<>> /\ Outstanding(c)
                              /\ reply[s] = AnswerDue(c)
    BY DEF TalkInv, ClientsInv, ServeInv
  <1>2. UNCHANGED <<script, serving, backlog, link>>
    BY DEF HandleCommand, WriteReply, NothingMore, WriteBye, ReadEnds, SelectFails, WriteTo, DaemonSends,
           DaemonReads, portVars, sessionVars, clientVars
  <1>3. \A q \in Starter \ {s} : pc'[q] = pc[q] /\ reply'[q] = reply[q]
    BY <1>0 DEF HandleCommand, WriteReply, NothingMore, WriteBye, ReadEnds, SelectFails, WriteTo, sessionVars
  <1>4. \A d \in Client \ {c} : Untouched(d)
    BY <1>0 DEF HandleCommand, WriteReply, NothingMore, WriteBye, ReadEnds, SelectFails, WriteTo, DaemonSends,
           DaemonReads, portVars, sessionVars, clientVars, Untouched
  <1>5. UNCHANGED <<script, cpc, sent, printed, cend, eof>>
        /\ (AllFull(c)' <=> AllFull(c)) /\ (InTurn(c)' <=> InTurn(c))
        /\ (Outstanding(c)' <=> Outstanding(c)) /\ AnswerDue(c)' = AnswerDue(c)
    <2>1. UNCHANGED <<script, cpc, sent, printed, cend, eof>>
      BY DEF HandleCommand, WriteReply, NothingMore, WriteBye, ReadEnds, SelectFails, WriteTo, DaemonSends,
             DaemonReads, portVars, sessionVars, clientVars
    <2> QED
      BY <2>1 DEF AllFull, InTurn, Full, Outstanding, AnswerDue
  <1>6. CASE UNCHANGED portVars /\ pc'[s] \in {"bye", "hangup", "select", "read", "dying"} /\ PreInv(c)
    <2>1. ClientInv(c)' /\ PreInv(c)'
      BY <1>1, <1>5, <1>6 DEF ClientInv, PreInv, portVars
    <2> QED
      BY <1>2, <1>3, <1>4, <1>6, <2>1, ServerMoves DEF InSession
  <1>7. CASE NothingMore(s) \/ ReadEnds(s) \/ SelectFails(s)
    BY <1>0, <1>1, <1>6, <1>7 DEF NothingMore, ReadEnds, SelectFails
  <1>8. CASE HandleCommand(s)
    <2>1. /\ pc[s] \in {"select", "read"} /\ toD[c] # <<>> /\ toD' = [toD EXCEPT ![c] = <<>>]
          /\ pc' = [pc EXCEPT ![s] = "reply"] /\ reply' = [reply EXCEPT ![s] = Answer(toD[c])]
          /\ UNCHANGED <<toC, reset, link>>
      BY <1>8 DEF HandleCommand, DaemonReads
    <2>2. Outstanding(c) /\ toC[c] = <<>> /\ toD[c] = <<script[c][sent[c]]>>
      BY <1>1, <2>1 DEF PreInv
    <2>3. reply'[s] = AnswerDue(c) /\ toD'[c] = <<>> /\ pc'[s] = "reply"
      BY <1>0, <2>1, <2>2 DEF AnswerDue
    <2>4. ClientInv(c)'
      BY <1>1, <1>5, <2>1, <2>2, <2>3 DEF ClientInv
    <2>5. PreInv(c)'
      BY <1>1, <1>5, <2>1, <2>2, <2>3 DEF PreInv
    <2> QED
      BY <1>2, <1>3, <1>4, <1>5, <2>1, <2>2, <2>3, <2>4, <2>5, ServerMoves DEF InSession
  <1>9. ASSUME cend[c] = "closed" \/ cend[c] = "open"
        PROVE  /\ cend[c] = "open" => cpc[c] \in {"write", "read"}
               /\ Outstanding(c) /\ cend[c] = "open" => cpc[c] = "read"
    BY <1>0, <1>1 DEF ClientInv, Outstanding
  <1>10. cend[c] \in {"open", "closed"}
    BY <1>0, <1>1 DEF ClientInv
  <1>11. CASE WriteReply(s) \/ WriteBye(s)
    <2>0. PreInv(c)
      BY <1>1, <1>11 DEF WriteReply, WriteBye
    <2>1. CASE Broken(c)
      <3>1. UNCHANGED portVars /\ pc'[s] \in {"select", "hangup", "dying"}
        BY <1>0, <1>11, <2>1 DEF WriteReply, WriteBye, WriteTo
      <3> QED
        BY <1>6, <2>0, <3>1
    <2>2. CASE ~Broken(c)
      <3> PICK m \in Reply, next \in {"select", "hangup"} :
              /\ DaemonSends(c, m) /\ pc'[s] = next
              /\ \/ pc[s] = "reply" /\ m = reply[s] /\ next = "select"
                 \/ pc[s] = "bye" /\ m = Bye /\ next = "hangup"
        BY <1>0, <1>11, <2>2 DEF WriteReply, WriteBye, WriteTo, Reply, TypeInv
      <3>1. UNCHANGED toD /\ \/ cend[c] = "open" /\ toC'[c] = Append(toC[c], m) /\ UNCHANGED reset
                             \/ cend[c] # "open" /\ reset'[c] /\ UNCHANGED toC
        BY <1>0 DEF DaemonSends
      <3>2. toC[c] = <<>> => Append(toC[c], m) = <<m>>
        BY <1>0
      <3>3. ASSUME NEW a \in Reply, toC[c] = <<a>> PROVE Append(toC[c], m) = <<a, m>>
        BY <3>3, AppendToOne
      <3>4. CASE pc[s] = "reply"
        <4>1. m = AnswerDue(c) /\ Outstanding(c) /\ toD[c] = <<>> /\ toC[c] = <<>>
          BY <1>1, <3>4
        <4>2. PreInv(c)'
          BY <1>2, <1>5, <2>0, <3>1, <3>2, <4>1 DEF PreInv
        <4>3. ClientInv(c)'
          BY <1>1, <1>2, <1>5, <1>9, <1>10, <2>0, <3>1, <3>2, <4>1 DEF ClientInv, PreInv
        <4> QED
          BY <1>2, <1>3, <1>4, <3>4, <4>2, <4>3, ServerMoves DEF InSession
      <3>5. CASE pc[s] = "bye"
        <4>1. toC[c] = <<>> \/ (Outstanding(c) /\ toC[c] = <<AnswerDue(c)>>)
          BY <2>0 DEF PreInv
        <4>2. toC[c] = <<AnswerDue(c)>> => AnswerDue(c) \in Reply
          <5>1. toC[c] \in Seq(Reply)
            BY <1>0
          <5> HIDE DEF Reply
          <5>2. ASSUME NEW a, <<a>> \in Seq(Reply) PROVE a \in Reply
            <6>1. <<a>>[1] = a /\ 1 \in DOMAIN <<a>>
              OBVIOUS
            <6> QED
              BY <5>2, <6>1
          <5> QED
            BY <5>1, <5>2
        <4>3. toC'[c] # <<>> =>
                 /\ AllFull(c)
                 /\ \/ cpc[c] \in {"write", "read"} /\ toC'[c] = <<Bye>>
                    \/ cpc[c] = "read" /\ toC'[c] \in {<<AnswerDue(c)>>, <<AnswerDue(c), Bye>>}
          <5>1. CASE cend[c] = "open"
            <6>1. CASE toC[c] = <<>>
              BY <1>9, <2>0, <3>1, <3>2, <3>5, <5>1, <6>1 DEF PreInv
            <6>2. CASE toC[c] = <<AnswerDue(c)>> /\ Outstanding(c)
              BY <1>9, <2>0, <3>1, <3>3, <3>5, <4>2, <5>1, <6>2 DEF PreInv
            <6> QED
              BY <4>1, <6>1, <6>2
          <5>2. CASE cend[c] = "closed"
            BY <1>1, <3>1, <5>2 DEF ClientInv
          <5> QED
            BY <1>10, <5>1, <5>2
        <4>4. cpc[c] # "idle" /\ (reset'[c] => cend[c] = "closed")
          BY <1>1, <1>10, <3>1 DEF ClientInv
        <4>6. ClientInv(c)'
          BY <1>1, <1>2, <1>5, <4>3, <4>4 DEF ClientInv
        <4> QED
          BY <1>2, <1>3, <1>4, <3>5, <4>6, ServerMoves DEF InSession
      <3> QED
        BY <3>4, <3>5
    <2> QED
      BY <2>1, <2>2
  <1> QED
    BY <1>7, <1>8, <1>11

\* The oldest connection becomes the session.
LEMMA AcceptInOrder ==
    ASSUME TypeInv, TalkInv, NEW s \in Starter, AcceptClient(s)
    PROVE  TalkInv'
  <1> DEFINE c == Head(backlog)
  <1>0. /\ link \in [Client -> Link] /\ pc \in [Starter -> Pc]
        /\ serving \in [Starter -> Client \cup {"nobody"}]
        /\ backlog \in Seq(Client) /\ backlog # <<>>
        /\ backlog' = Tail(backlog)
        /\ link' = [link EXCEPT ![Head(backlog)] = "open"]
        /\ serving' = [serving EXCEPT ![s] = Head(backlog)]
        /\ pc[s] = "poll" /\ pc' = [pc EXCEPT ![s] = "select"]
        /\ UNCHANGED <<cend, toD, toC, reset, eof, reply, script, cpc, sent, printed>>
    BY DEF TypeInv, WireTypeOK, PortTypeOK, SessionTypeOK, SingletonTypeOK, AcceptClient, AcceptFirst,
           clientVars
  <1>1. /\ c = backlog[1] /\ c \in Client /\ DOMAIN backlog = 1 .. Len(backlog) /\ Len(backlog) \in Nat \ {0}
        /\ DOMAIN backlog' = 1 .. Len(backlog) - 1
        /\ \A i \in 1 .. Len(backlog) - 1 : backlog'[i] = backlog[i + 1]
    BY <1>0
  <1>2. link[c] = "queued" /\ PreInv(c) /\ \A i \in DOMAIN backlog : backlog[i] = c => i = 1
    BY <1>1 DEF TalkInv, QueueInv
  <1> PICK d \in Client : d = c
    BY <1>1
  <1>3. \A e \in Client \ {d} : Untouched(e) /\ link'[e] = link[e]
    BY <1>0 DEF Untouched
  <1>4. link'[d] = "open" /\ serving'[s] = d /\ pc'[s] = "select"
    BY <1>0
  <1> HIDE DEF c
  <1>5. \A e \in Client : PreInv(e)' = PreInv(e) /\ Outstanding(e)' = Outstanding(e)
                          /\ AnswerDue(e)' = AnswerDue(e)
    BY <1>0 DEF PreInv, AllFull, Full, Outstanding, AnswerDue
  <1>6. ClientInv(d)'
    <2>1. ClientInv(d) /\ AllFull(d)' = AllFull(d) /\ InTurn(d)' = InTurn(d)
      BY <1>0 DEF TalkInv, ClientsInv, AllFull, InTurn, Full
    <2> QED
      BY <1>0, <1>2, <1>4, <1>5, <2>1 DEF ClientInv
  <1>7. ClientsInv'
    BY <1>0, <1>3, <1>6, UntouchedKeeps DEF ClientsInv, TalkInv
  <1>8. QueueInv'
    <2>1. ASSUME NEW i \in DOMAIN backlog' PROVE link'[backlog'[i]] = "queued"
      <3>1. i + 1 \in DOMAIN backlog /\ backlog'[i] = backlog[i + 1] /\ i + 1 # 1
        BY <1>1, <2>1
      <3>2. backlog'[i] \in Client \ {d} /\ link[backlog'[i]] = "queued"
        BY <1>0, <1>2, <3>1 DEF TalkInv, QueueInv
      <3> QED
        BY <1>3, <3>2
    <2>2. ASSUME NEW i \in DOMAIN backlog', NEW j \in DOMAIN backlog', backlog'[i] = backlog'[j]
          PROVE  i = j
      <3>1. /\ i + 1 \in DOMAIN backlog /\ backlog'[i] = backlog[i + 1]
            /\ j + 1 \in DOMAIN backlog /\ backlog'[j] = backlog[j + 1]
            /\ i \in Nat /\ j \in Nat
        BY <1>1, <2>2
      <3>2. i + 1 = j + 1
        BY <2>2, <3>1 DEF TalkInv, QueueInv
      <3> QED
        BY <3>1, <3>2
    <2>3. \A e \in Client : link'[e] = "queued" => PreInv(e)'
      BY <1>3, <1>4, <1>5 DEF TalkInv, QueueInv
    <2> QED
      BY <2>1, <2>2, <2>3 DEF QueueInv
  <1>9. ServeInv'
    <2>1. \A q \in Starter \ {s} : /\ pc'[q] = pc[q] /\ serving'[q] = serving[q]
                                   /\ serving[q] # "nobody" => serving[q] \in Client \ {d}
                                   /\ pc[q] \in InSession => serving[q] \in Client \ {d}
      BY <1>0, <1>2 DEF TalkInv, ServeInv, TypeInv
    <2>2. ASSUME NEW q \in Starter
          PROVE  serving'[q] # "nobody" =>
                    /\ pc'[q] \in InSession \cup {"dying"} /\ link'[serving'[q]] = "open"
                    /\ \A r \in Starter : serving'[r] = serving'[q] => r = q
      <3>1. CASE q = s
        BY <1>4, <2>1, <3>1 DEF InSession
      <3>2. CASE q # s
        BY <1>3, <1>4, <2>1, <3>2 DEF TalkInv, ServeInv
      <3> QED
        BY <3>1, <3>2
    <2>3. ASSUME NEW q \in Starter
          PROVE  /\ pc'[q] \in {"select", "read", "reply", "bye"} => PreInv(serving[q])'
                 /\ pc'[q] = "reply" =>
                       /\ toD'[serving'[q]] = <<>> /\ toC'[serving'[q]] = <<>>
                       /\ Outstanding(serving[q])' /\ reply'[q] = AnswerDue(serving[q])'
      <3>1. CASE q = s
        BY <1>2, <1>4, <1>5, <3>1
      <3>2. CASE q # s
        BY <1>0, <1>5, <2>1, <3>2 DEF TalkInv, ServeInv, InSession
      <3> QED
        BY <3>1, <3>2
    <2> QED
      BY <2>2, <2>3 DEF ServeInv
  <1> QED
    BY <1>7, <1>8, <1>9 DEF TalkInv

\* The connection of a client that waited or was served is gone: it has its part
\* of the conversation yet, and gets no more of it.
LEMMA CutOff ==
    ASSUME NEW c \in Client, ClientInv(c), link[c] \in {"queued", "open"},
           link'[c] \in {"closed", "lingers"},
           UNCHANGED <<cend, toC, reset, script, cpc, sent, printed>>
    PROVE  ClientInv(c)'
  <1>1. AllFull(c)' = AllFull(c) /\ InTurn(c)' = InTurn(c) /\ AnswerDue(c)' = AnswerDue(c)
    BY DEF AllFull, InTurn, Full, AnswerDue
  <1> QED
    BY <1>1 DEF ClientInv

\* Some clients are cut off, or none; who served them serves nobody any more.
LEMMA CutInOrder ==
    ASSUME TypeInv, TalkInv, NEW C \in SUBSET Client,
           \A c \in C : link[c] \in {"queued", "open"} /\ link'[c] \in {"closed", "lingers"},
           \A c \in Client \ C : Untouched(c),
           UNCHANGED script,
           C # {} => UNCHANGED <<cend, toC, reset, cpc, sent, printed>>,
           \/ backlog' = <<>>
           \/ backlog' = backlog /\ \A i \in DOMAIN backlog : backlog[i] \notin C,
           \A s \in Starter :
                /\ serving'[s] # "nobody" =>
                      serving'[s] = serving[s] /\ serving[s] \notin C /\ pc'[s] = pc[s]
                /\ pc'[s] \in InSession =>
                      serving'[s] = serving[s] /\ pc'[s] = pc[s] /\ reply'[s] = reply[s]
    PROVE  TalkInv'
  <1>0. /\ backlog \in Seq(Client)
        /\ \A s \in Starter : /\ serving[s] \in Client \cup {"nobody"}
                              /\ pc[s] \in InSession => serving[s] \in Client
    BY DEF TypeInv, SessionTypeOK, WireTypeOK, PortTypeOK
  <1>1. ClientsInv'
    <2> SUFFICES ASSUME NEW c \in Client PROVE ClientInv(c)'
      BY DEF ClientsInv
    <2>1. ClientInv(c)
      BY DEF TalkInv, ClientsInv
    <2>2. CASE c \in C
      BY <2>1, <2>2, CutOff
    <2>3. CASE c \notin C
      BY <2>1, <2>3, UntouchedKeeps
    <2> QED
      BY <2>2, <2>3
  <1>2. \A c \in Client \ C : /\ link'[c] = link[c] /\ toD'[c] = toD[c] /\ toC'[c] = toC[c]
                              /\ PreInv(c)' = PreInv(c) /\ Outstanding(c)' = Outstanding(c)
                              /\ AnswerDue(c)' = AnswerDue(c)
    BY UntouchedKeeps DEF Untouched
  <1>3. QueueInv'
    <2>1. \A c \in Client : link'[c] = "queued" => PreInv(c)'
      BY <1>2 DEF TalkInv, QueueInv
    <2>2. CASE backlog' = <<>>
      BY <2>1, <2>2 DEF QueueInv
    <2>3. CASE backlog' = backlog /\ \A i \in DOMAIN backlog : backlog[i] \notin C
      BY <1>0, <1>2, <2>1, <2>3 DEF TalkInv, QueueInv
    <2> QED
      BY <2>2, <2>3
  <1>4. ServeInv'
    <2>1. ASSUME NEW s \in Starter, serving'[s] # "nobody"
          PROVE  /\ pc'[s] \in InSession \cup {"dying"} /\ link'[serving'[s]] = "open"
                 /\ \A q \in Starter : serving'[q] = serving'[s] => q = s
      <3>1. serving'[s] = serving[s] /\ serving[s] \in Client \ C /\ pc'[s] = pc[s]
        BY <1>0, <2>1
      <3>2. /\ pc[s] \in InSession \cup {"dying"} /\ link[serving[s]] = "open"
            /\ \A q \in Starter : serving[q] = serving[s] => q = s
        BY <3>1 DEF TalkInv, ServeInv
      <3> QED
        BY <1>2, <2>1, <3>1, <3>2
    <2>2. ASSUME NEW s \in Starter
          PROVE  /\ pc'[s] \in {"select", "read", "reply", "bye"} => PreInv(serving[s])'
                 /\ pc'[s] = "reply" =>
                       /\ toD'[serving'[s]] = <<>> /\ toC'[serving'[s]] = <<>>
                       /\ Outstanding(serving[s])' /\ reply'[s] = AnswerDue(serving[s])'
      <3> SUFFICES ASSUME pc'[s] \in InSession
                   PROVE  /\ pc'[s] \in {"select", "read", "reply", "bye"} => PreInv(serving[s])'
                          /\ pc'[s] = "reply" =>
                                /\ toD'[serving'[s]] = <<>> /\ toC'[serving'[s]] = <<>>
                                /\ Outstanding(serving[s])' /\ reply'[s] = AnswerDue(serving[s])'
        BY DEF InSession
      <3>1. /\ serving'[s] = serving[s] /\ pc'[s] = pc[s] /\ reply'[s] = reply[s]
            /\ serving[s] \in Client \ C
        BY <1>0
      <3> QED
        BY <1>2, <3>1 DEF TalkInv, ServeInv
    <2> QED
      BY <2>1, <2>2 DEF ServeInv
  <1> QED
    BY <1>1, <1>3, <1>4 DEF TalkInv

\* A reportmand that is not in a session serves nobody.
LEMMA ServesInSession ==
    ASSUME TypeInv, TalkInv, NEW s \in Starter, pc[s] \notin InSession \cup {"dying"}
    PROVE  serving[s] = "nobody"
  BY DEF TalkInv, ServeInv

LEMMA HangUpInOrder ==
    ASSUME TypeInv, TalkInv, NEW s \in Starter, HangUp(s)
    PROVE  TalkInv'
  <1>0. /\ pc \in [Starter -> Pc] /\ serving \in [Starter -> Client \cup {"nobody"}]
        /\ pc[s] = "hangup" /\ serving[s] \in Client /\ DaemonCloses({serving[s]})
        /\ serving' = [serving EXCEPT ![s] = "nobody"]
        /\ pc' = [pc EXCEPT ![s] = IF close[s] THEN "closing" ELSE "poll"]
        /\ UNCHANGED <<reply, script, cpc, sent, printed, backlog, cend, toC, reset>>
    BY DEF TypeInv, SessionTypeOK, SingletonTypeOK, HangUp, DaemonCloses, clientVars, InSession
  <1> PICK c \in Client : c = serving[s]
    BY <1>0
  <1>1. link[c] = "open" /\ \A q \in Starter : serving[q] = c => q = s
    BY <1>0 DEF TalkInv, ServeInv
  <1>2. link'[c] \in {"closed", "lingers"} /\ \A d \in Client \ {c} : Untouched(d)
    BY <1>0, LeftBehindType DEF DaemonCloses, Untouched, TypeInv
  <1>3. \A i \in DOMAIN backlog : backlog[i] \notin {c}
    BY <1>1 DEF TalkInv, QueueInv
  <1>4. \A q \in Starter :
            /\ serving'[q] # "nobody" =>
                  serving'[q] = serving[q] /\ serving[q] \notin {c} /\ pc'[q] = pc[q]
            /\ pc'[q] \in InSession =>
                  serving'[q] = serving[q] /\ pc'[q] = pc[q] /\ reply'[q] = reply[q]
    BY <1>0, <1>1 DEF InSession
  <1>5. UNCHANGED <<script, cend, toC, reset, cpc, sent, printed, backlog>>
    BY <1>0
  <1> QED
    BY <1>1, <1>2, <1>3, <1>4, <1>5, CutInOrder

\* The listening socket is closed, by s or by its end.
LEMMA StopInOrder ==
    ASSUME TypeInv, TalkInv, NEW s \in Starter, (CleanClose(s) /\ pc[s] = "release") \/ Exit(s)
    PROVE  TalkInv'
  <1> DEFINE Q == IF listener = s THEN {c \in Client : link[c] = "queued"} ELSE {}
             C == Q \cup ({serving[s]} \cap Client)
  <1>0. /\ pc \in [Starter -> Pc] /\ serving \in [Starter -> Client \cup {"nobody"}]
        /\ "nobody" \notin Client
    BY DEF TypeInv, SessionTypeOK, SingletonTypeOK
  <1>1. /\ UNCHANGED <<reply, script, cpc, sent, printed, cend, toC, reset>>
        /\ StopsListening(s, {serving[s]} \cap Client)
        /\ pc'[s] \in {"dying", "exited"} /\ serving'[s] = "nobody"
        /\ \A q \in Starter \ {s} : pc'[q] = pc[q] /\ serving'[q] = serving[q]
    <2>1. CASE CleanClose(s) /\ pc[s] = "release"
      <3>1. serving[s] = "nobody"
        BY <2>1, ServesInSession DEF InSession
      <3>2. {serving[s]} \cap Client = {}
        BY <1>0, <3>1
      <3> QED
        BY <1>0, <2>1, <3>1, <3>2
           DEF CleanClose, Goes, StopsListening, sessionVars, clientVars
    <2>2. CASE Exit(s)
      BY <1>0, <2>2 DEF Exit, Goes, StopsListening, sessionVars, clientVars
    <2> QED
      BY <2>1, <2>2
  <1>2. \A c \in C : c \in Client /\ link[c] \in {"queued", "open"}
    BY <1>0 DEF TalkInv, ServeInv
  <1>3. /\ \A c \in C : link'[c] \in {"closed", "lingers"}
        /\ \A c \in Client \ C : link'[c] = link[c] /\ eof'[c] = eof[c] /\ toD'[c] = toD[c]
        /\ backlog' = IF listener = s THEN <<>> ELSE backlog
    BY <1>1, LeftBehindType DEF StopsListening, TypeInv
  <1>4. \A c \in Client \ C : Untouched(c)
    BY <1>1, <1>3 DEF Untouched
  <1>5. \/ backlog' = <<>>
        \/ backlog' = backlog /\ \A i \in DOMAIN backlog : backlog[i] \notin C
    <2>1. CASE listener = s
      BY <1>3, <2>1
    <2>2. CASE listener # s
      <3>1. \A c \in C : link[c] = "open"
        BY <1>0, <2>2 DEF TalkInv, ServeInv
      <3> QED
        BY <1>3, <2>2, <3>1 DEF TalkInv, QueueInv
    <2> QED
      BY <2>1, <2>2
  <1>6. ASSUME NEW q \in Starter
        PROVE  /\ serving'[q] # "nobody" =>
                     serving'[q] = serving[q] /\ serving[q] \notin C /\ pc'[q] = pc[q]
               /\ pc'[q] \in InSession =>
                     serving'[q] = serving[q] /\ pc'[q] = pc[q] /\ reply'[q] = reply[q]
    <2>1. CASE q = s
      BY <1>1, <2>1 DEF InSession
    <2>2. CASE q # s
      <3>1. serving'[q] # "nobody" => link[serving[q]] = "open" /\ serving[s] # serving[q]
        BY <1>1, <2>2 DEF TalkInv, ServeInv
      <3> QED
        BY <1>1, <2>2, <3>1
    <2> QED
      BY <2>1, <2>2
  <1>7. C \in SUBSET Client
    BY <1>2
  <1> HIDE DEF C
  <1> QED
    BY <1>1, <1>2, <1>3, <1>4, <1>5, <1>6, <1>7, CutInOrder

\* A step on the way to the loop, or of its body without a client, has nothing to
\* do with anybody's session.
LEMMA CalmInOrder ==
    ASSUME TypeInv, TalkInv, \A c \in Client : Untouched(c),
           UNCHANGED <<script, serving, reply, backlog>>, CalmServers
    PROVE  TalkInv'
  <1> DEFINE C == {}
  <1>1. /\ C \in SUBSET Client /\ \A c \in C : FALSE
        /\ \A i \in DOMAIN backlog : backlog[i] \notin C
    OBVIOUS
  <1>2. /\ \A c \in Client \ C : Untouched(c)
        /\ \A s \in Starter :
                /\ serving'[s] # "nobody" =>
                      serving'[s] = serving[s] /\ serving[s] \notin C /\ pc'[s] = pc[s]
                /\ pc'[s] \in InSession =>
                      serving'[s] = serving[s] /\ pc'[s] = pc[s] /\ reply'[s] = reply[s]
    BY DEF CalmServers
  <1>3. C = {}
    OBVIOUS
  <1> HIDE DEF C
  <1> QED
    BY <1>1, <1>2, <1>3, CutInOrder

LEMMA KillInOrder ==
    ASSUME TypeInv, TalkInv, NEW s \in Starter, NEW pid, NEW next \in Pc \ InSession, Kill(s, pid, next),
           serving[s] = "nobody", UNCHANGED <<script, serving, reply, sent, printed>>
    PROVE  TalkInv'
  <1>0. /\ pc \in [Starter -> Pc]
        /\ \A q \in Starter : serving[q] # "nobody" => pc[q] \in InSession \cup {"dying"}
    BY DEF TypeInv, SingletonTypeOK, TalkInv, ServeInv
  <1>1. ASSUME NEW p \in Starter \ {s}, UNCHANGED <<portVars, cpc>>,
               pc' = [pc EXCEPT ![s] = next,
                                ![p] = IF @ \in Loop \cup {"dying", "exited"} THEN @ ELSE "dying"]
        PROVE  TalkInv'
    <2>1. CalmServers
      BY <1>0, <1>1 DEF CalmServers, InSession, Loop
    <2>2. \A c \in Client : Untouched(c)
      BY <1>1 DEF Untouched, portVars
    <2> QED
      BY <1>1, <2>1, <2>2, CalmInOrder DEF portVars
  <1>2. ASSUME Goes(s, next) \/ Goes(s, "dying") PROVE CalmServers
    BY <1>0, <1>2 DEF Goes, CalmServers, InSession
  <1>3. ASSUME NEW c \in Client, cpc[c] \in {"write", "read"}, ClientEnds(c, "killed"), Goes(s, next)
        PROVE  TalkInv'
    BY <1>2, <1>3, ClientEndsInOrder
  <1>4. ASSUME UNCHANGED <<portVars, cpc>>, Goes(s, next) \/ Dies(s, "refused") PROVE TalkInv'
    <2>1. \A c \in Client : Untouched(c)
      BY <1>4 DEF Untouched, portVars
    <2> QED
      BY <1>2, <1>4, <2>1, CalmInOrder DEF Dies, portVars
  <1> QED
    BY <1>1, <1>3, <1>4 DEF Kill

LEMMA StarterInOrder ==
    ASSUME TypeInv, TalkInv, NEW s \in Starter, OwnStep(s)
    PROVE  TalkInv'
  <1>0. /\ pc \in [Starter -> Pc]
        /\ \A q \in Starter : serving[q] # "nobody" => pc[q] \in InSession \cup {"dying"}
    BY DEF TypeInv, SingletonTypeOK, TalkInv, ServeInv
  <1>1. ASSUME NEW next \in Pc \ InSession, Goes(s, next), pc[s] \notin InSession \cup {"dying"}
        PROVE  CalmServers
    BY <1>0, <1>1 DEF Goes, CalmServers
  <1>2. {"lsof", "decide", "rebind", "acquired", "boot", "dying", "poll", "probe", "told", "closing",
         "reap", "release"} \subseteq Pc \ InSession
    BY DEF Pc, InSession, Loop
  <1>3. ASSUME CalmServers, UNCHANGED <<backlog, link, cend, toD, toC, reset, eof>>,
               UNCHANGED <<sessionVars, clientVars>>
        PROVE  TalkInv'
    <2>1. \A c \in Client : Untouched(c)
      BY <1>3 DEF Untouched, clientVars
    <2> QED
      BY <1>3, <2>1, CalmInOrder DEF sessionVars, clientVars
  <1>4. CASE Bind(s) \/ Lsof(s) \/ Retry(s)
    <2>1. UNCHANGED <<backlog, link, cend, toD, toC, reset, eof>>
      BY <1>4 DEF Bind, Lsof, Retry, Listen, portVars
    <2>2. pc[s] \in {"bind", "lsof", "rebind"}
          /\ \E next \in {"lsof", "decide", "dying", "acquired"} : Goes(s, next)
      BY <1>4 DEF Bind, Lsof, Retry, Dies
    <2>3. CalmServers
      BY <1>1, <1>2, <2>2 DEF InSession
    <2> QED
      BY <1>3, <1>4, <2>1, <2>3 DEF Bind, Lsof, Retry
  <1>5. CASE DecideClose(s) \/ Decide(s)
    <2>1. serving[s] = "nobody" /\ UNCHANGED <<script, serving, reply, sent, printed>> /\ pc[s] = "decide"
      BY <1>0, <1>5 DEF DecideClose, Decide, sessionVars, InSession
    <2>2. ASSUME NEW next \in {"dying", "rebind"}, Kill(s, found[s], next) PROVE TalkInv'
      BY <1>2, <2>1, <2>2, KillInOrder
    <2>3. ASSUME NEW next \in {"dying", "acquired"}, Goes(s, next), UNCHANGED <<portVars, cpc>>
          PROVE  TalkInv'
      <3>1. CalmServers
        BY <1>1, <1>2, <2>1, <2>3 DEF InSession
      <3>2. \A c \in Client : Untouched(c)
        BY <2>1, <2>3 DEF Untouched, portVars
      <3> QED
        BY <2>1, <2>3, <3>1, <3>2, CalmInOrder DEF portVars
    <2> QED
      BY <1>5, <2>2, <2>3 DEF DecideClose, Decide, Dies
  <1>6. CASE Fork(s) \/ Deafen(s) \/ (Stop(s) /\ pc[s] \in Loop)
    <2>1. pc' = pc
      BY <1>0, <1>6 DEF Fork, Deafen, Stop, Goes
    <2> QED
      BY <1>3, <1>6, <2>1 DEF Fork, Deafen, Stop, CalmServers, portVars
  <1>7. CASE \/ SpawnHelpers(s) \/ EnterLoop(s) \/ HandleSignal(s) \/ GiveUp(s) \/ Panic(s) \/ ProbeHangs(s)
             \/ CleanClose(s) /\ pc[s] # "release"
             \/ Stop(s) /\ pc[s] \notin Loop
    <2>1. pc[s] \in {"acquired", "boot", "poll", "told", "closing", "reap"}
          /\ \E next \in {"boot", "poll", "probe", "told", "closing", "reap", "release", "dying"} :
                Goes(s, next)
      BY <1>7 DEF SpawnHelpers, EnterLoop, HandleSignal, CleanClose, GiveUp, Panic, ProbeHangs, Stop, Dies
    <2>2. CalmServers
      BY <1>1, <1>2, <2>1 DEF InSession
    <2>3. UNCHANGED <<portVars, sessionVars, clientVars>>
      BY <1>7 DEF SpawnHelpers, EnterLoop, HandleSignal, CleanClose, GiveUp, Panic, ProbeHangs, Stop
    <2> QED
      BY <1>3, <2>2, <2>3 DEF portVars
  <1>8. CASE (CleanClose(s) /\ pc[s] = "release") \/ Exit(s)
    BY <1>8, StopInOrder
  <1> QED
    BY <1>4, <1>5, <1>6, <1>7, <1>8 DEF OwnStep, StarterStep

LEMMA MinuteInOrder ==
    ASSUME TypeInv, TalkInv, Minute
    PROVE  TalkInv'
  <1> PICK c \in Client : LingerEnds(c)
    BY DEF Minute
  <1>0. /\ link \in [Client -> Link] /\ link[c] = "lingers" /\ link' = [link EXCEPT ![c] = "closed"]
        /\ UNCHANGED <<backlog, cend, toD, toC, reset, eof, cpc, sent, printed, script, serving, reply, pc>>
    BY DEF TypeInv, WireTypeOK, PortTypeOK, LingerEnds, Minute, sessionVars, clientVars
  <1>1. \A d \in Client \ {c} : Untouched(d)
    BY <1>0 DEF Untouched
  <1>2. ClientInv(c)'
    <2>1. ClientInv(c) /\ AllFull(c)' = AllFull(c) /\ InTurn(c)' = InTurn(c) /\ AnswerDue(c)' = AnswerDue(c)
      BY <1>0 DEF TalkInv, ClientsInv, AllFull, InTurn, Full, AnswerDue
    <2> QED
      BY <1>0, <2>1 DEF ClientInv
  <1>3. link[c] \notin {"queued", "open"} /\ link'[c] \notin {"queued", "open"}
    BY <1>0
  <1> QED
    BY <1>0, <1>1, <1>2, <1>3, ClientMoves DEF CalmServers

-----------------------------------------------------------------------------
(* What a client is told, and what becomes of the one that does not listen. *)

LEMMA TalkInit == Init => TalkInv
  <1> SUFFICES ASSUME Init PROVE TalkInv
    OBVIOUS
  <1> USE DEF Init, PortInit, SessionInit, SingletonInit
  <1>1. ClientsInv
    BY DEF ClientsInv, ClientInv, InTurn
  <1>2. QueueInv
    BY DEF QueueInv
  <1>3. ServeInv
    BY DEF ServeInv, InSession
  <1> QED
    BY <1>1, <1>2, <1>3 DEF TalkInv

LEMMA TalkStep == TypeInv /\ TalkInv /\ [Next]_vars => TalkInv'
  <1> SUFFICES ASSUME TypeInv, TalkInv, [Next]_vars PROVE TalkInv'
    OBVIOUS
  <1>1. ASSUME NEW s \in Starter, Talks(s) PROVE TalkInv'
    <2>1. CASE AcceptClient(s)
      BY <2>1, AcceptInOrder
    <2>2. CASE HangUp(s)
      BY <2>2, HangUpInOrder
    <2>3. CASE HandleCommand(s) \/ WriteReply(s) \/ NothingMore(s) \/ WriteBye(s) \/ ReadEnds(s)
           \/ SelectFails(s)
      <3>1. serving[s] \in Client
        BY <2>3 DEF HandleCommand, WriteReply, NothingMore, WriteBye, ReadEnds, SelectFails, TypeInv, InSession
      <3> QED
        BY <2>3, <3>1, SessionInOrder
    <2> QED
      BY <1>1, <2>1, <2>2, <2>3 DEF Talks, Session, SessionStep
  <1>2. CASE UNCHANGED vars
    <2>1. \A c \in Client : Untouched(c)
      BY <1>2 DEF vars, portVars, clientVars, Untouched
    <2> QED
      BY <1>2, <2>1, CalmInOrder DEF vars, portVars, sessionVars, clientVars, CalmServers
  <1> QED
    BY <1>1, <1>2, StepKinds, StarterInOrder, ClientInOrder, MinuteInOrder

\* A client that was killed stays as it was.
LEMMA KilledStays ==
    ASSUME TypeInv, NEW c \in Client, cpc[c] = "killed", [Next]_vars
    PROVE  cpc'[c] = "killed" /\ sent'[c] = sent[c] /\ printed'[c] = printed[c]
  <1>0. /\ cpc \in [Client -> {"idle", "write", "read", "done", "failed", "killed"}]
        /\ sent \in [Client -> Nat] /\ printed \in [Client -> Seq(Seq(Reply))]
    BY DEF TypeInv, SessionTypeOK
  <1>1. CASE \E s \in Starter : Talks(s)
    BY <1>1 DEF Talks, Session, SessionStep, AcceptClient, HandleCommand, WriteReply, NothingMore, WriteBye,
                ReadEnds, HangUp, SelectFails, clientVars
  <1>2. ASSUME NEW d \in Client, ClientStep(d) \/ ConnectToDaemon(d) \/ Interrupt(d)
        PROVE  cpc'[c] = "killed" /\ sent'[c] = sent[c] /\ printed'[c] = printed[c]
    BY <1>0, <1>2 DEF ClientStep, WriteCommand, ReadReply, CloseAndExit, ConnectToDaemon, Interrupt,
                      ClientEnds
  <1>3. ASSUME NEW s \in Starter, OwnStep(s)
        PROVE  cpc'[c] = "killed" /\ sent'[c] = sent[c] /\ printed'[c] = printed[c]
    <2>1. CASE DecideClose(s) \/ Decide(s)
      <3>1. UNCHANGED <<sent, printed>>
        BY <2>1 DEF DecideClose, Decide
      <3>2. cpc'[c] = "killed"
        BY <1>0, <2>1 DEF DecideClose, Decide, Kill, ClientEnds, Dies
      <3> QED
        BY <3>1, <3>2
    <2>2. CASE ~(DecideClose(s) \/ Decide(s))
      BY <1>3, <2>2 DEF OwnStep, StarterStep, Lsof, Retry, Fork, SpawnHelpers, EnterLoop, HandleSignal,
                        CleanClose, Exit, Bind, Stop, GiveUp, Panic, Deafen, ProbeHangs, clientVars
    <2> QED
      BY <2>1, <2>2
  <1>4. CASE Minute \/ UNCHANGED vars
    BY <1>4 DEF Minute, vars, clientVars
  <1> QED
    BY <1>1, <1>2, <1>3, <1>4, StepKinds

\* SIGPIPE comes in a session only, over a pipe that is broken.
LEMMA PipeGrows ==
    ASSUME [Next]_vars, NEW c \in Client, c \in pipe', c \notin pipe
    PROVE  \E s \in Starter : pc[s] \in {"reply", "bye"} /\ serving[s] = c /\ Broken(c)
  <1>1. ASSUME NEW s \in Starter, Talks(s)
        PROVE  pc[s] \in {"reply", "bye"} /\ serving[s] = c /\ Broken(c)
    BY <1>1 DEF Talks, Session, SessionStep, AcceptClient, HandleCommand, WriteReply, NothingMore, WriteBye,
                ReadEnds, HangUp, SelectFails, WriteTo, sessionVars
  <1>2. ASSUME NEW d \in Client, ClientStep(d) \/ ConnectToDaemon(d) \/ Interrupt(d) PROVE FALSE
    BY <1>2 DEF ClientStep, WriteCommand, ReadReply, CloseAndExit, ConnectToDaemon, Interrupt, sessionVars
  <1>3. ASSUME NEW s \in Starter, OwnStep(s) PROVE FALSE
    BY <1>3 DEF OwnStep, StarterStep, Lsof, DecideClose, Decide, Retry, Fork, SpawnHelpers, EnterLoop,
                HandleSignal, CleanClose, Exit, Bind, Stop, GiveUp, Panic, Deafen, ProbeHangs, sessionVars
  <1>4. CASE Minute \/ UNCHANGED vars
    BY <1>4 DEF Minute, vars, sessionVars
  <1> QED
    BY <1>1, <1>2, <1>3, <1>4, StepKinds

LEMMA PipeStep == TypeInv /\ TalkInv /\ OnlyDesertedPipesBreak /\ [Next]_vars => OnlyDesertedPipesBreak'
  <1> SUFFICES ASSUME TypeInv, TalkInv, OnlyDesertedPipesBreak, [Next]_vars, NEW c \in pipe'
               PROVE  cpc'[c] = "killed" /\ Len(printed'[c]) < sent'[c]
    BY DEF OnlyDesertedPipesBreak
  <1>1. c \in Client
    BY TypeStep DEF TypeInv, SessionTypeOK
  <1>2. cpc[c] = "killed" /\ Len(printed[c]) < sent[c]
    <2>1. CASE c \in pipe
      BY <2>1 DEF OnlyDesertedPipesBreak
    <2>2. CASE c \notin pipe
      <3>1. PICK s \in Starter : pc[s] \in {"reply", "bye"} /\ serving[s] = c /\ Broken(c)
        BY <1>1, <2>2, PipeGrows
      <3>2. PreInv(c) /\ link[c] = "open" /\ ClientInv(c)
        BY <1>1, <3>1 DEF TalkInv, ServeInv, ClientsInv
      <3> QED
        BY <1>1, <3>1, <3>2, BrokenIsDeserted DEF Outstanding
    <2> QED
      BY <2>1, <2>2
  <1> QED
    BY <1>1, <1>2, KilledStays

LEMMA TalkInvariant == Spec => [](TypeInv /\ TalkInv)
  <1>1. Init => TypeInv /\ TalkInv
    BY TypeInit, TalkInit
  <1>2. TypeInv /\ TalkInv /\ [Next]_vars => (TypeInv /\ TalkInv)'
    BY TypeStep, TalkStep
  <1> QED
    BY <1>1, <1>2, PTL DEF Spec

\* What reportmanc prints for its n-th command is the answer to that command, or
\* the end of the conversation, whoever is killed, however daemons follow each
\* other, and however the ten seconds fall.
THEOREM AnswersInTurn == Spec => []AnsweredInTurn
  <1>1. TypeInv /\ TalkInv => AnsweredInTurn
    BY DEF TalkInv, ClientsInv, ClientInv, InTurn, Full, AnsweredInTurn
  <1> QED
    BY <1>1, TalkInvariant, PTL

\* Only a client that is killed with an answer outstanding makes the daemon write
\* into a broken pipe.
THEOREM PipesBreakDeserted == Spec => []OnlyDesertedPipesBreak
  <1>1. Init => OnlyDesertedPipesBreak
    BY DEF Init, SessionInit, OnlyDesertedPipesBreak
  <1> QED
    BY <1>1, PipeStep, TalkInvariant, PTL DEF Spec
=============================================================================
