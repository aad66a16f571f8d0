------------------------- MODULE SupervisionProofs --------------------------
(***************************************************************************)
(* Proofs about the supervision of the helpers, for every max_retries, any *)
(* set of faults, any number of events and either treatment of SIGCHLD.    *)
(***************************************************************************)
EXTENDS Supervision, TLAPS

\* Where the daemon may be before and inside the loop, and for which helper.
\* Whatever __health_probe_child_process() is doing, __current_process is the
\* child it does it for.
PhaseInv ==
    /\ ~looping => dpc \in {"fork", "ack", "timer_b", "timer_t", "enter", "exited"}
    /\ looping => dpc # "enter"
    /\ dpc \in {"timer_b", "timer_t", "enter", "poll", "dispatch", "session"} => who = "fm"
    /\ looping /\ dpc \in {"answer", "unfit", "reap", "retry", "fork", "ack",
                           "timer_b", "timer_t"} => curProc = who

\* retries counts the incarnations, one behind but for the moment between the
\* count and the fork it allows; while fm is first started there is no mon.
CountInv ==
    /\ \A c \in Child :
        /\ \/ cur[c] = retries[c] + 1 /\ ~(dpc = "fork" /\ who = c)
           \/ cur[c] = retries[c] /\ dpc \in {"fork", "exited"} /\ who = c
           \/ cur[c] = 0 /\ retries[c] = 0 /\ c = "mon" /\ who = "fm"
              /\ ~looping /\ dpc # "enter"
        /\ dpc # "exited" => retries[c] <= MaxRetries + 1
    /\ ~looping /\ who = "fm" /\ dpc \notin {"enter", "exited"} => cur["mon"] = 0

GaveUpInv ==
    cause = "retries" => dpc = "exited" /\ \E c \in Child : cur[c] = MaxRetries + 2

\* Incarnations to come have no process, past ones are reaped, and the present
\* one is reaped by the time its successor is forked.
RosterInv ==
    \A p \in Proc :
        /\ p[2] > cur[p[1]] => pc[p] = "none"
        /\ p[2] < cur[p[1]] => pc[p] = "gone"
        /\ p[2] = cur[p[1]] => pc[p] # "none"
        /\ p = Now(who) /\ dpc \in {"retry", "fork"} => pc[p] = "gone"

IInv == TypeOK /\ PhaseInv /\ CountInv /\ GaveUpInv /\ RosterInv

\* No step but a fork makes a process, what is reaped stays so, what has exited
\* does not run again, and with SIGCHLD ignored nothing becomes a zombie.
Settled ==
    \A p \in Proc : /\ (pc'[p] = "none") <=> (pc[p] = "none")
                    /\ pc[p] = "gone" => pc'[p] = "gone"
                    /\ pc'[p] \in RunningPc => pc[p] \in RunningPc
                    /\ SigchldIgnored /\ pc[p] # "zombie" => pc'[p] # "zombie"

USE RetriesAssumption, SigchldAssumption, EventsAssumption, GarbageAssumption

-----------------------------------------------------------------------------
(* The operators of the kernel.                                            *)

\* Reading from a pipe leaves sequences of words, whoever reads.
LEMMA ReadUpType ==
    ASSUME up \in [Proc -> Seq(Word)], NEW p \in Proc, NEW w, ReadUp(p, w)
    PROVE  up' \in [Proc -> Seq(Word)]
  <1>1. up[p] \in Seq(Word)
    OBVIOUS
  <1>2. CASE up[p] # <<>> /\ up' = [up EXCEPT ![p] = Tail(@)]
    <2>1. Tail(up[p]) \in Seq(Word)
      BY <1>1, <1>2
    <2> QED
      BY <1>2, <2>1
  <1>3. CASE UNCHANGED up
    BY <1>3
  <1> QED
    BY <1>2, <1>3 DEF ReadUp

\* kill() on any set of processes neither makes one nor revives one.
LEMMA SigTermType ==
    ASSUME KernelTypeOK, NEW S, SigTerm(S)
    PROVE  /\ pc' \in [Proc -> ChildPc]
           /\ term' \in [Proc -> BOOLEAN]
           /\ Settled
  BY DEF SigTerm, KernelTypeOK, Settled, Corpse, Live, RunningPc, ChildPc

\* Nor does an exit.
LEMMA ExitsType ==
    ASSUME pc \in [Proc -> ChildPc], NEW p \in Proc, Live(p), Exits(p)
    PROVE  pc' \in [Proc -> ChildPc] /\ Settled
  BY DEF Exits, Settled, Corpse, Live, RunningPc, ChildPc

\* Nor does a wait, which turns a zombie into a reaped process or does nothing.
LEMMA WaitAnyType ==
    ASSUME pc \in [Proc -> ChildPc], WaitAny
    PROVE  pc' \in [Proc -> ChildPc] /\ Settled
  BY DEF WaitAny, Settled, ChildPc, RunningPc

\* A helper's write to the daemon, or the SIGPIPE it gets instead.
LEMMA SendType ==
    ASSUME KernelTypeOK, NEW p \in Proc, Live(p),
           NEW w \in Word, NEW next \in RunningPc, Send(p, w, next)
    PROVE  pc' \in [Proc -> ChildPc] /\ up' \in [Proc -> Seq(Word)] /\ Settled
  <1>1. CASE DaemonHungUp /\ Exits(p) /\ UNCHANGED up
    BY <1>1, ExitsType DEF KernelTypeOK
  <1>2. CASE up' = [up EXCEPT ![p] = Append(@, w)] /\ pc' = [pc EXCEPT ![p] = next]
    BY <1>2 DEF KernelTypeOK, Settled, Live, RunningPc, ChildPc
  <1> QED
    BY <1>1, <1>2 DEF Send

-----------------------------------------------------------------------------
(* Steps of the helpers.                                                   *)

\* Nothing a helper does, and nothing that happens to one, touches the daemon
\* or the roster of processes.
LEMMA HelperSettled ==
    ASSUME TypeOK, NEW p \in Proc, Helper(p)
    PROVE  KernelTypeOK' /\ Settled /\ UNCHANGED <<dpc, term>>
  <1> USE DEF TypeOK
  <1>1. CASE SendAck(p)
    BY <1>1, SendType DEF SendAck, KernelTypeOK, Word, RunningPc, Live
  <1>2. CASE GetAck(p)
    <2>1. down' \in [Proc -> Seq(Word)]
      <3>1. CASE down[p] # <<>> /\ down' = [down EXCEPT ![p] = Tail(@)]
        <4>1. down[p] \in Seq(Word)
          BY DEF KernelTypeOK
        <4>2. Tail(down[p]) \in Seq(Word)
          BY <3>1, <4>1
        <4> QED
          BY <3>1, <4>2 DEF KernelTypeOK
      <3>2. CASE UNCHANGED down
        BY <3>2 DEF KernelTypeOK
      <3> QED
        BY <1>2, <3>1, <3>2 DEF GetAck
    <2>2. events' \in 0 .. MaxEvents
      BY <1>2 DEF GetAck, Happens, KernelTypeOK
    <2> QED
      BY <1>2, <2>1, <2>2 DEF GetAck, Acknowledged, KernelTypeOK, RunningPc, ChildPc, Settled
  <1>3. CASE ReportBackupTimer(p)
    BY <1>3, SendType DEF ReportBackupTimer, KernelTypeOK, Word, RunningPc, Live
  <1>4. CASE ReportTransferTimer(p)
    BY <1>4, SendType DEF ReportTransferTimer, KernelTypeOK, Word, RunningPc, Live
  <1>5. CASE OpenLog(p)
    <2>1. CASE pc' = [pc EXCEPT ![p] = "signals"] /\ UNCHANGED <<up, events>>
      BY <1>5, <2>1 DEF OpenLog, KernelTypeOK, RunningPc, ChildPc, Settled
    <2>2. CASE Happens("logfile") /\ Send(p, "PANIC", "signals")
      BY <1>5, <2>2, SendType DEF OpenLog, KernelTypeOK, Word, RunningPc, Live, Happens
    <2> QED
      BY <1>5, <2>1, <2>2 DEF OpenLog
  <1>6. CASE InitializeSignals(p)
    <2>1. AfterSignals(p) \in RunningPc
      BY DEF AfterSignals, RunningPc
    <2>2. CASE /\ mask' = [mask EXCEPT ![p] = "signalfd"]
               /\ pc' = [pc EXCEPT ![p] = AfterSignals(p)]
               /\ UNCHANGED <<up, events>>
      BY <1>6, <2>1, <2>2 DEF InitializeSignals, KernelTypeOK, RunningPc, ChildPc, Settled
    <2>3. CASE /\ Happens("signalfd")
               /\ mask' = [mask EXCEPT ![p] = "blocked"]
               /\ Send(p, "PANIC", AfterSignals(p))
      <3>1. Live(p)
        BY <1>6 DEF InitializeSignals, Live, RunningPc
      <3> QED
        BY <1>6, <2>1, <2>3, <3>1, SendType DEF InitializeSignals, KernelTypeOK, Word, Happens
    <2> QED
      BY <1>6, <2>2, <2>3 DEF InitializeSignals
  <1>7. CASE InitializeInotify(p)
    <2>1. Live(p) /\ "loop" \in RunningPc
      BY <1>7 DEF InitializeInotify, Live, RunningPc
    <2>2. CASE pc' = [pc EXCEPT ![p] = "loop"] /\ UNCHANGED <<up, events>>
      BY <1>7, <2>2 DEF InitializeInotify, KernelTypeOK, RunningPc, ChildPc, Settled
    <2>3. CASE Happens("inotify") /\ Send(p, "PANIC", "loop")
      BY <1>7, <2>1, <2>3, SendType DEF InitializeInotify, KernelTypeOK, Word, Happens
    <2>4. CASE Happens("watch") /\ Exits(p) /\ UNCHANGED up
      BY <1>7, <2>1, <2>4, ExitsType DEF InitializeInotify, KernelTypeOK, Happens
    <2> QED
      BY <1>7, <2>2, <2>3, <2>4 DEF InitializeInotify
  <1>8. CASE ServeDaemon(p)
    <2>1. Live(p) /\ "loop" \in RunningPc /\ down' \in [Proc -> Seq(Word)]
      BY <1>8 DEF ServeDaemon, Live, RunningPc, KernelTypeOK
    <2>2. CASE Send(p, "ACK", "loop")
      BY <1>8, <2>1, <2>2, SendType DEF ServeDaemon, KernelTypeOK, Word
    <2>3. CASE Exits(p) /\ UNCHANGED up
      BY <1>8, <2>1, <2>3, ExitsType DEF ServeDaemon, KernelTypeOK
    <2>4. CASE UNCHANGED <<pc, up>>
      BY <1>8, <2>1, <2>4 DEF ServeDaemon, KernelTypeOK, Settled
    <2> QED
      BY <1>8, <2>2, <2>3, <2>4 DEF ServeDaemon
  <1>9. CASE TakeSigTerm(p)
    BY <1>9, ExitsType DEF TakeSigTerm, Live, RunningPc, KernelTypeOK
  <1>10. CASE HandlerReturns(p)
    <2>1. Live(p)
      BY <1>10 DEF HandlerReturns, Live, RunningPc
    <2>2. CASE Exits(p)
      BY <1>10, <2>1, <2>2, ExitsType DEF HandlerReturns, KernelTypeOK
    <2>3. CASE pc' = [pc EXCEPT ![p] = "loop"]
      BY <1>10, <2>3 DEF HandlerReturns, KernelTypeOK, RunningPc, ChildPc, Settled
    <2> QED
      BY <1>10, <2>2, <2>3 DEF HandlerReturns
  <1>11. CASE TimerFires(p)
    BY <1>11 DEF TimerFires, KernelTypeOK, RunningPc, ChildPc, Settled, Happens
  <1>12. CASE Crash(p)
    BY <1>12, ExitsType DEF Crash, KernelTypeOK, Happens
  <1> QED
    BY <1>1, <1>2, <1>3, <1>4, <1>5, <1>6, <1>7, <1>8, <1>9, <1>10, <1>11, <1>12
       DEF Helper, ChildStep, ChildEvent

-----------------------------------------------------------------------------
(* Steps of the daemon: types.                                             *)

\* The helper the daemon is dealing with is one it has forked.
LEMMA NowType ==
    ASSUME TypeOK, PhaseInv, CountInv, NEW c \in Child,
           dpc \notin {"fork", "exited"}, looping \/ c = who
    PROVE  Now(c) \in Proc /\ cur[c] = retries[c] + 1 /\ retries[c] <= MaxRetries + 1
  <1>1. cur[c] = retries[c] + 1 /\ retries[c] <= MaxRetries + 1
    BY DEF TypeOK, DaemonTypeOK, CountInv, Child
  <1>2. retries[c] \in Nat /\ cur[c] \in 1 .. (MaxRetries + 2)
    BY <1>1 DEF TypeOK, DaemonTypeOK, RetriesAssumption
  <1> QED
    BY <1>1, <1>2 DEF Now, Proc, Inc

\* The helper about to be forked has an incarnation left.
LEMMA ForkType ==
    ASSUME TypeOK, PhaseInv, CountInv, dpc = "fork"
    PROVE  /\ cur[who] = retries[who]
           /\ cur[who] + 1 \in Inc
           /\ <<who, cur[who] + 1>> \in Proc
  <1>1. who \in Child /\ cur[who] = retries[who] /\ retries[who] <= MaxRetries + 1
    BY DEF TypeOK, DaemonTypeOK, CountInv, Child
  <1>2. retries[who] \in Nat
    BY <1>1 DEF TypeOK, DaemonTypeOK
  <1> QED
    BY <1>1, <1>2 DEF Proc, Inc, RetriesAssumption

\* Both reads of the loop keep the types of what they touch.
LEMMA IpcGetCommandType ==
    ASSUME TypeOK, NEW p \in Proc, IpcGetCommand(p)
    PROVE  up' \in [Proc -> Seq(Word)] /\ command' \in Word \cup {"unset"}
  <1>1. CASE \E w \in Word : ReadUp(p, w) /\ command' = IF IsCommand(w) THEN w ELSE command
    BY <1>1, ReadUpType DEF TypeOK, KernelTypeOK, DaemonTypeOK
  <1>2. CASE UNCHANGED <<up, command>>
    BY <1>2 DEF TypeOK, KernelTypeOK, DaemonTypeOK
  <1> QED
    BY <1>1, <1>2 DEF IpcGetCommand

LEMMA ResumeType ==
    ASSUME TypeOK, Resume
    PROVE  who' \in Child /\ dpc' \in DaemonPc
  BY DEF Resume, TypeOK, DaemonTypeOK, Child, DaemonPc

\* A start of a helper keeps the types.
LEMMA StartType ==
    ASSUME TypeOK, PhaseInv, CountInv,
           ChildSpawn \/ AcknowledgeClient \/ ReadBackupTimer \/ ReadTransferTimer
             \/ HandshakeTimeout \/ EnterLoop
    PROVE  TypeOK'
  <1> USE DEF TypeOK, KernelTypeOK, DaemonTypeOK, loopVars, rosterVars, timerVars, endVars,
              kernelVars
  <1>1. CASE ChildSpawn
    <2>1. cur[who] + 1 \in 0 .. (MaxRetries + 2)
      BY <1>1, ForkType DEF ChildSpawn, Inc
    <2> QED
      BY <1>1, <2>1 DEF ChildSpawn, ChildPc, RunningPc, DaemonPc
  <1>2. CASE AcknowledgeClient
    <2>1. Now(who) \in Proc
      BY <1>2, NowType DEF AcknowledgeClient
    <2>2. up' \in [Proc -> Seq(Word)]
      BY <1>2, <2>1, ReadUpType DEF AcknowledgeClient
    <2>3. down' \in [Proc -> Seq(Word)]
      <3>1. CASE down' = [down EXCEPT ![Now(who)] = Append(@, "ACK")]
        <4>1. Append(down[Now(who)], "ACK") \in Seq(Word)
          BY <2>1 DEF Word
        <4> QED
          BY <3>1, <4>1
      <3>2. CASE UNCHANGED down
        BY <3>2
      <3> QED
        BY <1>2, <3>1, <3>2 DEF AcknowledgeClient
    <2>4. who' \in Child /\ dpc' \in DaemonPc /\ curProc' \in Child \cup {"none"}
          /\ cause' \in Cause
      BY <1>2, ResumeType DEF AcknowledgeClient, Started, Ends, BrokenPipe, DaemonPc, Cause
    <2> QED
      BY <1>2, <2>2, <2>3, <2>4 DEF AcknowledgeClient
  <1>3. CASE ReadBackupTimer
    <2>1. Now(who) \in Proc
      BY <1>3, NowType DEF ReadBackupTimer
    <2>2. up' \in [Proc -> Seq(Word)]
      BY <1>3, <2>1, ReadUpType DEF ReadBackupTimer
    <2> QED
      BY <1>3, <2>2 DEF ReadBackupTimer, Ends, DaemonPc, Cause
  <1>4. CASE ReadTransferTimer
    <2>1. Now(who) \in Proc
      BY <1>4, NowType DEF ReadTransferTimer
    <2>2. up' \in [Proc -> Seq(Word)]
      BY <1>4, <2>1, ReadUpType DEF ReadTransferTimer
    <2> QED
      BY <1>4, <2>2, ResumeType DEF ReadTransferTimer, Started, Ends, DaemonPc, Cause
  <1>5. CASE HandshakeTimeout
    BY <1>5 DEF HandshakeTimeout, Happens, Ends, DaemonPc, Cause
  <1>6. CASE EnterLoop
    BY <1>6 DEF EnterLoop, DaemonPc
  <1> QED
    BY <1>1, <1>2, <1>3, <1>4, <1>5, <1>6

\* So does the loop.
LEMMA LoopType ==
    ASSUME TypeOK, PhaseInv, CountInv,
           \/ DaemonPoll \/ HandleSignal \/ AcceptClient \/ HandleTick \/ Drain
           \/ \E c \in Child : HandleChild(c)
           \/ \E close, gone \in BOOLEAN : EndSession(close, gone)
    PROVE  TypeOK'
  <1> USE DEF TypeOK, KernelTypeOK, DaemonTypeOK, loopVars, rosterVars, timerVars, endVars,
              kernelVars
  <1>1. CASE DaemonPoll
    <2>1. PICK outside \in SUBSET {"client", "tick"} : Poll(outside)
      BY <1>1 DEF DaemonPoll
    <2>2. rev' \subseteq Source
      BY <2>1 DEF Poll, Ready, Source, Child
    <2>3. events' \in 0 .. MaxEvents
      BY <2>1 DEF Poll, Happens
    <2> QED
      BY <2>1, <2>2, <2>3 DEF Poll, DaemonPc
  <1>2. CASE HandleSignal
    BY <1>2, SigTermType DEF HandleSignal, KillGroup, DaemonPc, Cause
  <1>3. CASE AcceptClient
    BY <1>3 DEF AcceptClient, Happens, DaemonPc
  <1>4. CASE HandleTick
    BY <1>4 DEF HandleTick, DaemonPc
  <1>5. CASE Drain
    <2>1. Now(who) \in Proc
      BY <1>5, NowType DEF Drain
    <2>2. up' \in [Proc -> Seq(Word)] /\ command' \in Word \cup {"unset"}
      BY <1>5, <2>1, IpcGetCommandType DEF Drain
    <2>3. dpc' \in DaemonPc /\ who' \in Child /\ rev' \subseteq Source /\ cause' \in Cause
      BY <1>5 DEF Drain, UnlessPanic, DaemonPc, Child, Cause
    <2> QED
      BY <1>5, <2>2, <2>3 DEF Drain
  <1>6. ASSUME NEW c \in Child, HandleChild(c) PROVE TypeOK'
    <2>1. looping /\ Now(c) \in Proc
      BY <1>6, NowType DEF HandleChild, Turn, PhaseInv
    <2>2. up' \in [Proc -> Seq(Word)] /\ command' \in Word \cup {"unset"}
      BY <1>6, <2>1, IpcGetCommandType DEF HandleChild
    <2>3. dpc' \in DaemonPc /\ who' \in Child /\ rev' \subseteq Source /\ cause' \in Cause
      BY <1>6 DEF HandleChild, UnlessPanic, Handled, DaemonPc, Cause
    <2> QED
      BY <1>6, <2>2, <2>3 DEF HandleChild
  <1>7. ASSUME NEW close \in BOOLEAN, NEW gone \in BOOLEAN, EndSession(close, gone)
        PROVE  TypeOK'
    <2>1. dpc' \in DaemonPc /\ cause' \in Cause
      BY <1>7 DEF EndSession, BrokenPipe, Ends, DaemonPc, Cause
    <2> QED
      BY <1>7, <2>1 DEF EndSession
  <1> QED
    BY <1>1, <1>2, <1>3, <1>4, <1>5, <1>6, <1>7

\* So do the probe, the restart and every way to end.
LEMMA ProbeType ==
    ASSUME TypeOK, PhaseInv, CountInv,
           SendProbe \/ GetAnswer \/ AnswerTimeout \/ KillUnfit \/ ReapUnfit \/ CountRetry
    PROVE  TypeOK'
  <1> USE DEF TypeOK, KernelTypeOK, DaemonTypeOK, loopVars, rosterVars, timerVars, endVars,
              kernelVars
  <1>1. CASE SendProbe
    <2>1. Now(who) \in Proc
      BY <1>1, NowType DEF SendProbe, PhaseInv
    <2>2. down' \in [Proc -> Seq(Word)]
      <3>1. CASE down' = [down EXCEPT ![Now(who)] = Append(@, "PROBE")]
        <4>1. Append(down[Now(who)], "PROBE") \in Seq(Word)
          BY <2>1 DEF Word
        <4> QED
          BY <3>1, <4>1
      <3>2. CASE UNCHANGED down
        BY <3>2
      <3> QED
        BY <1>1, <3>1, <3>2 DEF SendProbe
    <2>3. dpc' \in DaemonPc /\ cause' \in Cause /\ curProc' \in Child \cup {"none"}
      BY <1>1 DEF SendProbe, CurrentSet, BrokenPipe, Ends, DaemonPc, Cause
    <2> QED
      BY <1>1, <2>2, <2>3 DEF SendProbe
  <1>2. CASE GetAnswer
    <2>1. Now(who) \in Proc
      BY <1>2, NowType DEF GetAnswer, AnswerFrom
    <2>2. up' \in [Proc -> Seq(Word)]
      BY <1>2, <2>1, ReadUpType DEF GetAnswer, AnswerFrom
    <2>3. dpc' \in DaemonPc /\ who' \in Child
      BY <1>2, ResumeType DEF GetAnswer, AnswerFrom, DaemonPc
    <2> QED
      BY <1>2, <2>2, <2>3 DEF GetAnswer, AnswerFrom
  <1>3. CASE AnswerTimeout
    BY <1>3 DEF AnswerTimeout, TimeoutIsUnfit, Happens, DaemonPc
  <1>4. CASE KillUnfit
    BY <1>4, SigTermType DEF KillUnfit, DaemonPc
  <1>5. CASE ReapUnfit
    BY <1>5 DEF ReapUnfit, WaitFor, ChildPc, DaemonPc
  <1>6. CASE CountRetry
    <2>1. retries[who] + 1 \in 0 .. (MaxRetries + 2)
      BY <1>6, NowType DEF CountRetry, RetriesAssumption
    <2> QED
      BY <1>6, <2>1 DEF CountRetry, Ends, DaemonPc, Cause
  <1> QED
    BY <1>1, <1>2, <1>3, <1>4, <1>5, <1>6

LEMMA EndType ==
    ASSUME TypeOK,
           \/ SignalWait \/ CleanClose \/ CloseWait \/ PollFails \/ SyscallFails
           \/ \E group \in BOOLEAN : TermArrives(group)
    PROVE  TypeOK'
  <1> USE DEF TypeOK, KernelTypeOK, DaemonTypeOK, loopVars, rosterVars, timerVars, endVars,
              kernelVars
  <1>1. CASE SignalWait
    BY <1>1, WaitAnyType DEF SignalWait, WaitFirst, DaemonPc
  <1>2. CASE CleanClose
    BY <1>2, SigTermType DEF CleanClose, KillGroup, DaemonPc
  <1>3. CASE CloseWait
    BY <1>3, WaitAnyType DEF CloseWait, DaemonPc
  <1>4. CASE PollFails
    BY <1>4, SigTermType DEF PollFails, KillGroup, Happens, DaemonPc, Cause
  <1>5. CASE SyscallFails
    BY <1>5 DEF SyscallFails, Ends, Happens, DaemonPc, Cause
  <1>6. ASSUME NEW group \in BOOLEAN, TermArrives(group) PROVE TypeOK'
    <2>1. pc' \in [Proc -> ChildPc] /\ term' \in [Proc -> BOOLEAN]
      BY <1>6, SigTermType DEF TermArrives
    <2>2. events' \in 0 .. MaxEvents
      BY <1>6 DEF TermArrives, Happens
    <2>3. dpc' \in DaemonPc /\ cause' \in Cause /\ dterm' \in BOOLEAN
      BY <1>6 DEF TermArrives, Ends, DaemonPc, Cause
    <2>4. UNCHANGED <<mask, up, down, rosterVars, loopVars, timerVars>>
      BY <1>6 DEF TermArrives
    <2> QED
      BY <2>1, <2>2, <2>3, <2>4
  <1> QED
    BY <1>1, <1>2, <1>3, <1>4, <1>5, <1>6

\* Every step of the system keeps the types.
LEMMA TypeStep ==
    ASSUME TypeOK, PhaseInv, CountInv, [Next]_vars
    PROVE  TypeOK'
  <1>1. CASE \E p \in Proc : Helper(p)
    <2>1. KernelTypeOK'
      BY <1>1, HelperSettled
    <2>2. DaemonTypeOK'
      BY <1>1 DEF Helper, TypeOK, DaemonTypeOK, loopVars, rosterVars, timerVars, endVars
    <2> QED
      BY <2>1, <2>2 DEF TypeOK
  <1>2. CASE Daemon
    BY <1>2, StartType, LoopType, ProbeType, EndType DEF Daemon, DaemonStep, DaemonEvent
  <1>3. CASE UNCHANGED vars
    BY <1>3 DEF vars, kernelVars, daemonVars, loopVars, rosterVars, timerVars, endVars,
                TypeOK, KernelTypeOK, DaemonTypeOK
  <1> QED
    BY <1>1, <1>2, <1>3 DEF Next, Terminated

-----------------------------------------------------------------------------
(* Steps of the daemon: where it is, and what retries counts.              *)

\* Every step keeps the order of start-up, loop and probe.
LEMMA PhaseStep ==
    ASSUME TypeOK, PhaseInv, [Next]_vars
    PROVE  PhaseInv'
  <1> USE DEF PhaseInv, TypeOK, DaemonTypeOK, KernelTypeOK, Child,
              loopVars, rosterVars, timerVars, endVars, kernelVars
  <1>1. CASE \E p \in Proc : Helper(p)
    BY <1>1, HelperSettled DEF Helper
  <1>2. CASE ChildSpawn
    BY <1>2 DEF ChildSpawn
  <1>3. CASE AcknowledgeClient
    BY <1>3 DEF AcknowledgeClient, HasPostLaunch, Started, Resume, Ends, BrokenPipe
  <1>4. CASE ReadBackupTimer
    BY <1>4 DEF ReadBackupTimer, Ends
  <1>5. CASE ReadTransferTimer
    BY <1>5 DEF ReadTransferTimer, Started, Resume, Ends
  <1>6. CASE EnterLoop \/ HandshakeTimeout
    BY <1>6 DEF EnterLoop, HandshakeTimeout, Ends
  <1>7. CASE DaemonPoll \/ HandleSignal \/ AcceptClient \/ HandleTick
    BY <1>7 DEF DaemonPoll, Poll, HandleSignal, AcceptClient, HandleTick, Turn
  <1>8. CASE Drain
    BY <1>8 DEF Drain, UnlessPanic
  <1>9. CASE \E c \in Child : HandleChild(c)
    BY <1>9 DEF HandleChild, UnlessPanic, Handled, Turn
  <1>10. CASE \E close, gone \in BOOLEAN : EndSession(close, gone)
    BY <1>10 DEF EndSession, BrokenPipe, Ends
  <1>11. CASE SendProbe
    BY <1>11 DEF SendProbe, CurrentSet, BrokenPipe, Ends
  <1>12. CASE GetAnswer
    BY <1>12 DEF GetAnswer, AnswerFrom, Resume
  <1>13. CASE AnswerTimeout \/ KillUnfit \/ ReapUnfit
    BY <1>13 DEF AnswerTimeout, TimeoutIsUnfit, KillUnfit, ReapUnfit
  <1>14. CASE CountRetry
    BY <1>14 DEF CountRetry, Ends
  <1>15. CASE SignalWait \/ CleanClose \/ CloseWait
    BY <1>15 DEF SignalWait, CleanClose, CloseWait
  <1>16. CASE PollFails \/ SyscallFails
    BY <1>16 DEF PollFails, SyscallFails, Turn, Ends
  <1>17. CASE \E group \in BOOLEAN : TermArrives(group)
    BY <1>17 DEF TermArrives, Ends
  <1>18. CASE UNCHANGED vars
    BY <1>18 DEF vars, daemonVars
  <1> QED
    BY <1>1, <1>2, <1>3, <1>4, <1>5, <1>6, <1>7, <1>8, <1>9, <1>10, <1>11, <1>12,
       <1>13, <1>14, <1>15, <1>16, <1>17, <1>18
       DEF Next, Daemon, DaemonStep, DaemonEvent, Terminated

\* Every step keeps retries in step with the incarnations.
LEMMA CountStep ==
    ASSUME TypeOK, PhaseInv, CountInv, [Next]_vars
    PROVE  CountInv'
  <1> USE DEF PhaseInv, CountInv, TypeOK, DaemonTypeOK, Child,
              loopVars, rosterVars, timerVars, endVars, kernelVars
  <1>1. CASE \E p \in Proc : Helper(p)
    BY <1>1, HelperSettled DEF Helper
  <1>2. CASE ChildSpawn
    <2>1. who \in Child /\ cur[who] = retries[who] /\ retries[who] <= MaxRetries + 1
      BY <1>2, ForkType DEF ChildSpawn
    <2>2. cur' = [cur EXCEPT ![who] = @ + 1] /\ UNCHANGED <<retries, who, looping>>
          /\ dpc' = "ack" /\ dpc = "fork"
      BY <1>2 DEF ChildSpawn
    <2> QED
      BY <2>1, <2>2, RetriesAssumption
  <1>3. CASE AcknowledgeClient
    BY <1>3 DEF AcknowledgeClient, HasPostLaunch, Started, Resume, Ends, BrokenPipe
  <1>4. CASE ReadBackupTimer
    BY <1>4 DEF ReadBackupTimer, Ends
  <1>5. CASE ReadTransferTimer
    BY <1>5 DEF ReadTransferTimer, Started, Resume, Ends
  <1>6. CASE EnterLoop \/ HandshakeTimeout
    BY <1>6 DEF EnterLoop, HandshakeTimeout, Ends
  <1>7. CASE DaemonPoll \/ HandleSignal \/ AcceptClient \/ HandleTick
    BY <1>7 DEF DaemonPoll, Poll, HandleSignal, AcceptClient, HandleTick, Turn
  <1>8. CASE Drain
    BY <1>8 DEF Drain, UnlessPanic
  <1>9. CASE \E c \in Child : HandleChild(c)
    BY <1>9 DEF HandleChild, UnlessPanic, Handled, Turn
  <1>10. CASE \E close, gone \in BOOLEAN : EndSession(close, gone)
    BY <1>10 DEF EndSession, BrokenPipe, Ends
  <1>11. CASE SendProbe
    BY <1>11 DEF SendProbe, CurrentSet, BrokenPipe, Ends
  <1>12. CASE GetAnswer
    BY <1>12 DEF GetAnswer, AnswerFrom, Resume
  <1>13. CASE AnswerTimeout \/ KillUnfit \/ ReapUnfit
    BY <1>13 DEF AnswerTimeout, TimeoutIsUnfit, KillUnfit, ReapUnfit
  <1>14. CASE CountRetry
    <2>1. who \in Child /\ retries[who] \in Nat /\ cur[who] = retries[who] + 1
          /\ retries[who] <= MaxRetries + 1
      BY <1>14, NowType DEF CountRetry
    <2>2. retries' = [retries EXCEPT ![who] = @ + 1] /\ UNCHANGED <<cur, who>>
          /\ dpc' \in {"fork", "exited"} /\ looping
      BY <1>14 DEF CountRetry, Ends
    <2>3. dpc' # "exited" => retries[who] <= MaxRetries
      BY <1>14, <2>1 DEF CountRetry, Exhausted, Ends, RetriesAssumption
    <2> QED
      BY <2>1, <2>2, <2>3, <1>14 DEF CountRetry, RetriesAssumption
  <1>15. CASE SignalWait \/ CleanClose \/ CloseWait
    BY <1>15 DEF SignalWait, CleanClose, CloseWait
  <1>16. CASE PollFails \/ SyscallFails
    BY <1>16 DEF PollFails, SyscallFails, Turn, Ends
  <1>17. CASE \E group \in BOOLEAN : TermArrives(group)
    BY <1>17 DEF TermArrives, Ends
  <1>18. CASE UNCHANGED vars
    BY <1>18 DEF vars, daemonVars
  <1> QED
    BY <1>1, <1>2, <1>3, <1>4, <1>5, <1>6, <1>7, <1>8, <1>9, <1>10, <1>11, <1>12,
       <1>13, <1>14, <1>15, <1>16, <1>17, <1>18
       DEF Next, Daemon, DaemonStep, DaemonEvent, Terminated

\* The daemon gives up in one place only, and then for good.
LEMMA GaveUpStep ==
    ASSUME TypeOK, PhaseInv, CountInv, GaveUpInv, [Next]_vars
    PROVE  GaveUpInv'
  <1> USE DEF PhaseInv, GaveUpInv, TypeOK, DaemonTypeOK, Child,
              loopVars, rosterVars, timerVars, endVars, kernelVars
  <1>1. CASE CountRetry
    <2>1. who \in Child /\ retries[who] \in Nat /\ cur[who] = retries[who] + 1
          /\ retries[who] <= MaxRetries + 1
      BY <1>1, NowType DEF CountRetry
    <2>2. Exhausted(who) => cur[who] = MaxRetries + 2
      BY <2>1 DEF Exhausted, RetriesAssumption
    <2> QED
      BY <1>1, <2>1, <2>2 DEF CountRetry, Ends
  <1>2. CASE \E p \in Proc : Helper(p)
    BY <1>2, HelperSettled DEF Helper
  <1>3. CASE ChildSpawn \/ AcknowledgeClient \/ ReadBackupTimer \/ ReadTransferTimer
    BY <1>3 DEF ChildSpawn, AcknowledgeClient, ReadBackupTimer, ReadTransferTimer,
                Started, BrokenPipe, Ends
  <1>4. CASE EnterLoop \/ HandshakeTimeout
    BY <1>4 DEF EnterLoop, HandshakeTimeout, Ends
  <1>5. CASE DaemonPoll \/ HandleSignal \/ AcceptClient \/ HandleTick
    BY <1>5 DEF DaemonPoll, Poll, HandleSignal, AcceptClient, HandleTick, Turn
  <1>6. CASE Drain \/ \E c \in Child : HandleChild(c)
    BY <1>6 DEF Drain, HandleChild, UnlessPanic, Turn
  <1>7. CASE \E close, gone \in BOOLEAN : EndSession(close, gone)
    BY <1>7 DEF EndSession, BrokenPipe, Ends
  <1>8. CASE SendProbe \/ GetAnswer \/ AnswerTimeout \/ KillUnfit \/ ReapUnfit
    BY <1>8 DEF SendProbe, BrokenPipe, Ends, GetAnswer, AnswerFrom, AnswerTimeout,
                KillUnfit, ReapUnfit
  <1>9. CASE SignalWait \/ CleanClose \/ CloseWait
    BY <1>9 DEF SignalWait, CleanClose, CloseWait
  <1>10. CASE PollFails \/ SyscallFails
    BY <1>10 DEF PollFails, SyscallFails, Turn, Ends
  <1>11. CASE \E group \in BOOLEAN : TermArrives(group)
    BY <1>11 DEF TermArrives, Ends
  <1>12. CASE UNCHANGED vars
    BY <1>12 DEF vars, daemonVars
  <1> QED
    BY <1>1, <1>2, <1>3, <1>4, <1>5, <1>6, <1>7, <1>8, <1>9, <1>10, <1>11, <1>12
       DEF Next, Daemon, DaemonStep, DaemonEvent, Terminated

-----------------------------------------------------------------------------
(* Steps of the daemon: the roster of processes.                           *)

\* A step that forks nothing and revives nothing keeps the roster, if the
\* helper it is about to replace has been reaped.
LEMMA RosterKept ==
    ASSUME TypeOK, RosterInv, Settled, cur' = cur,
           dpc' \in {"retry", "fork"} =>
               \A p \in Proc : p = <<who', cur[who']>> => pc'[p] = "gone"
    PROVE  RosterInv'
  BY DEF RosterInv, Settled, Now, Proc

\* The daemon replaces a helper only when its process is gone.
LEMMA RosterStep ==
    ASSUME IInv, [Next]_vars
    PROVE  RosterInv'
  <1> USE DEF IInv, PhaseInv, TypeOK, DaemonTypeOK, KernelTypeOK,
              loopVars, rosterVars, timerVars, endVars, kernelVars
  <1> DEFINE Reaped == dpc' \in {"retry", "fork"} =>
                           \A p \in Proc : p = <<who', cur[who']>> => pc'[p] = "gone"
  <1>1. UNCHANGED pc => Settled
    BY DEF Settled
  <1>2. CASE \E p \in Proc : Helper(p)
    <2>1. Settled /\ UNCHANGED <<dpc, cur, who>>
      BY <1>2, HelperSettled DEF Helper
    <2>2. Reaped
      BY <2>1 DEF RosterInv, Settled, Now
    <2> QED
      BY <2>1, <2>2, RosterKept
  <1>3. CASE ChildSpawn
    <2> DEFINE q == <<who, cur[who] + 1>>
    <2>1. q \in Proc /\ who \in Child /\ cur[who] \in Nat
      BY <1>3, ForkType DEF ChildSpawn
    <2>2. /\ cur' = [cur EXCEPT ![who] = @ + 1] /\ pc' = [pc EXCEPT ![q] = "boot"]
          /\ dpc' = "ack" /\ dpc = "fork"
      BY <1>3 DEF ChildSpawn
    <2>3. ASSUME NEW p \in Proc
          PROVE  /\ p[2] > cur'[p[1]] => pc'[p] = "none"
                 /\ p[2] < cur'[p[1]] => pc'[p] = "gone"
                 /\ p[2] = cur'[p[1]] => pc'[p] # "none"
      <3>1. p = <<p[1], p[2]>> /\ p[1] \in Child /\ p[2] \in Nat /\ cur[p[1]] \in Nat
        BY DEF Proc, Inc
      <3>2. CASE p[1] = who
        <4>1. cur'[p[1]] = cur[who] + 1
          BY <2>1, <2>2, <3>2
        <4>2. CASE p[2] = cur[who] + 1
          BY <2>1, <2>2, <3>1, <3>2, <4>1, <4>2
        <4>3. CASE p[2] # cur[who] + 1
          <5>1. pc'[p] = pc[p]
            BY <2>1, <2>2, <3>1, <4>3
          <5>2. p[2] = cur[who] => pc[p] = "gone"
            BY <2>2, <3>1, <3>2 DEF RosterInv, Now
          <5>3. /\ p[2] > cur[who] => pc[p] = "none"
                /\ p[2] < cur[who] => pc[p] = "gone"
            BY <3>2 DEF RosterInv
          <5> QED
            BY <2>1, <3>1, <4>1, <4>3, <5>1, <5>2, <5>3
        <4> QED
          BY <4>2, <4>3
      <3>3. CASE p[1] # who
        <4>1. cur'[p[1]] = cur[p[1]] /\ pc'[p] = pc[p]
          BY <2>1, <2>2, <3>1, <3>3
        <4> QED
          BY <4>1 DEF RosterInv
      <3> QED
        BY <3>2, <3>3
    <2> QED
      BY <2>2, <2>3 DEF RosterInv
  <1>4. CASE AcknowledgeClient \/ ReadBackupTimer
    <2>1. UNCHANGED <<pc, cur>> /\ dpc' \notin {"retry", "fork"}
      BY <1>4 DEF AcknowledgeClient, ReadBackupTimer, HasPostLaunch, Started, Resume,
                  BrokenPipe, Ends, Child
    <2> QED
      BY <1>1, <2>1, RosterKept
  <1>5. CASE ReadTransferTimer
    <2>1. UNCHANGED <<pc, cur>>
      BY <1>5 DEF ReadTransferTimer
    <2>2. dpc' \in {"retry", "fork"} => who' = "mon" /\ cur["mon"] = 0
      BY <1>5 DEF ReadTransferTimer, Started, Resume, Ends, CountInv
    <2>3. Reaped
      BY <2>2 DEF Proc, Inc
    <2> QED
      BY <1>1, <2>1, <2>3, RosterKept
  <1>6. CASE EnterLoop \/ HandshakeTimeout
    <2>1. UNCHANGED <<pc, cur>> /\ dpc' \notin {"retry", "fork"}
      BY <1>6 DEF EnterLoop, HandshakeTimeout, Ends
    <2> QED
      BY <1>1, <2>1, RosterKept
  <1>7. CASE DaemonPoll \/ AcceptClient \/ HandleTick \/ Drain
    <2>1. UNCHANGED <<pc, cur>> /\ dpc' \notin {"retry", "fork"}
      BY <1>7 DEF DaemonPoll, Poll, AcceptClient, HandleTick, Drain, UnlessPanic
    <2> QED
      BY <1>1, <2>1, RosterKept
  <1>8. CASE \E c \in Child : HandleChild(c)
    <2>1. UNCHANGED <<pc, cur>> /\ dpc' \notin {"retry", "fork"}
      BY <1>8 DEF HandleChild, UnlessPanic, Handled
    <2> QED
      BY <1>1, <2>1, RosterKept
  <1>9. CASE \E close, gone \in BOOLEAN : EndSession(close, gone)
    <2>1. UNCHANGED <<pc, cur>> /\ dpc' \notin {"retry", "fork"}
      BY <1>9 DEF EndSession, BrokenPipe, Ends
    <2> QED
      BY <1>1, <2>1, RosterKept
  <1>10. CASE SendProbe
    <2>1. Now(who) \in Proc /\ UNCHANGED <<pc, cur, who>>
      BY <1>10, NowType DEF SendProbe
    <2>2. pc[Now(who)] # "none"
      BY <2>1 DEF RosterInv, Now
    <2>3. dpc' \in {"retry", "fork"} => pc[Now(who)] = "gone"
      BY <1>10, <2>2 DEF SendProbe, CurrentSet, PidExists, BrokenPipe, Ends
    <2>4. Reaped
      BY <2>1, <2>3 DEF Now
    <2> QED
      BY <1>1, <2>1, <2>4, RosterKept
  <1>11. CASE GetAnswer \/ AnswerTimeout
    <2>1. UNCHANGED <<pc, cur>> /\ dpc' \notin {"retry", "fork"}
      BY <1>11 DEF GetAnswer, AnswerFrom, Resume, AnswerTimeout, TimeoutIsUnfit
    <2> QED
      BY <1>1, <2>1, RosterKept
  <1>12. CASE ReapUnfit
    <2>1. Now(who) \in Proc /\ UNCHANGED <<cur, who>>
      BY <1>12, NowType DEF ReapUnfit
    <2>2. pc' = [pc EXCEPT ![Now(who)] = "gone"] /\ pc[Now(who)] # "none"
      BY <1>12, <2>1 DEF ReapUnfit, WaitFor, RosterInv, Now
    <2>3. Settled
      BY <2>1, <2>2 DEF Settled, RunningPc
    <2>4. Reaped
      BY <2>1, <2>2 DEF Now
    <2> QED
      BY <2>1, <2>3, <2>4, RosterKept
  <1>13. CASE CountRetry
    <2>1. UNCHANGED <<pc, cur, who>> /\ dpc = "retry"
      BY <1>13 DEF CountRetry
    <2>2. Reaped
      BY <2>1 DEF RosterInv, Now
    <2> QED
      BY <1>1, <2>1, <2>2, RosterKept
  <1>14. CASE HandleSignal \/ KillUnfit \/ CleanClose \/ PollFails
    <2>1. Settled
      BY <1>14, SigTermType DEF HandleSignal, KillUnfit, CleanClose, PollFails, KillGroup
    <2>2. UNCHANGED cur /\ dpc' \notin {"retry", "fork"}
      BY <1>14 DEF HandleSignal, KillUnfit, CleanClose, PollFails
    <2> QED
      BY <2>1, <2>2, RosterKept
  <1>15. CASE SignalWait \/ CloseWait
    <2>1. Settled
      BY <1>15, WaitAnyType DEF SignalWait, WaitFirst, CloseWait
    <2>2. UNCHANGED cur /\ dpc' \notin {"retry", "fork"}
      BY <1>15 DEF SignalWait, CloseWait
    <2> QED
      BY <2>1, <2>2, RosterKept
  <1>16. CASE SyscallFails
    <2>1. UNCHANGED <<pc, cur>> /\ dpc' \notin {"retry", "fork"}
      BY <1>16 DEF SyscallFails, Ends
    <2> QED
      BY <1>1, <2>1, RosterKept
  <1>17. CASE \E group \in BOOLEAN : TermArrives(group)
    <2>1. PICK group \in BOOLEAN : TermArrives(group)
      BY <1>17
    <2>2. Settled
      BY <1>1, <2>1, SigTermType DEF TermArrives
    <2>3. UNCHANGED <<cur, who>> /\ (dpc' = dpc \/ dpc' = "exited")
      BY <2>1 DEF TermArrives, Ends
    <2>4. Reaped
      BY <2>2, <2>3 DEF RosterInv, Settled, Now
    <2> QED
      BY <2>2, <2>3, <2>4, RosterKept
  <1>18. CASE UNCHANGED vars
    <2>1. UNCHANGED <<pc, cur, who, dpc>>
      BY <1>18 DEF vars, daemonVars
    <2>2. Reaped
      BY <2>1 DEF RosterInv, Now
    <2> QED
      BY <1>1, <2>1, <2>2, RosterKept
  <1> QED
    BY <1>2, <1>3, <1>4, <1>5, <1>6, <1>7, <1>8, <1>9, <1>10, <1>11, <1>12,
       <1>13, <1>14, <1>15, <1>16, <1>17, <1>18
       DEF Next, Daemon, DaemonStep, DaemonEvent, Terminated

-----------------------------------------------------------------------------
(* Theorems.                                                               *)

\* The invariant holds when main() starts ...
LEMMA InvInit == Init => IInv
  <1> SUFFICES ASSUME Init PROVE IInv
    OBVIOUS
  <1> USE DEF Init, KernelInit, DaemonInit
  <1>1. TypeOK
    <2>1. <<>> \in Seq(Word) /\ "none" \in ChildPc /\ "fork" \in DaemonPc
      BY DEF ChildPc, DaemonPc
    <2>2. KernelTypeOK
      BY <2>1 DEF KernelTypeOK
    <2>3. NoTimer \in [word : Word, inc : 0 .. (MaxRetries + 2)]
      BY DEF NoTimer, Word
    <2>4. 0 \in 0 .. (MaxRetries + 2) /\ {} \subseteq Source
      BY RetriesAssumption
    <2>5. "fm" \in Child /\ "none" \in Cause
      BY DEF Child, Cause
    <2>6. DaemonTypeOK
      BY <2>3, <2>4, <2>5 DEF DaemonTypeOK
    <2> QED
      BY <2>2, <2>6 DEF TypeOK
  <1>2. PhaseInv /\ GaveUpInv
    BY DEF PhaseInv, GaveUpInv
  <1>3. CountInv
    BY DEF CountInv, Child
  <1>4. RosterInv
    BY DEF RosterInv, Now, Proc, Inc, Child
  <1> QED
    BY <1>1, <1>2, <1>3, <1>4 DEF IInv

\* ... and every step of the daemon, its helpers and their environment keeps it.
LEMMA InvStep == IInv /\ [Next]_vars => IInv'
  BY TypeStep, PhaseStep, CountStep, GaveUpStep, RosterStep DEF IInv

\* The inductive invariant: the daemon's place in start-up, loop and probe,
\* the count of restarts and the roster of processes always fit together.
THEOREM Invariant == Spec => []IInv
  BY InvInit, InvStep, PTL DEF Spec

\* No incarnation beyond the max_retries + 2 that child_process_t allows is
\* ever forked, and every variable keeps its type, for every max_retries.
THEOREM TypeCorrect == Spec => []TypeOK
  <1>1. IInv => TypeOK
    BY DEF IInv
  <1> QED
    BY <1>1, Invariant, PTL

\* kill, waitpid and fork in __health_probe_child_process() never leave two
\* copies of a helper running, nor a zombie of a replaced one.
THEOREM RolesAreSole == Spec => []SoleLive
  <1>1. IInv => SoleLive
    <2> SUFFICES ASSUME IInv, NEW p \in Proc
                 PROVE  /\ Live(p) => p[2] = cur[p[1]]
                        /\ p[2] < cur[p[1]] => pc[p] = "gone"
      BY DEF SoleLive
    <2>1. p[2] \in Nat /\ cur[p[1]] \in Nat
      BY DEF IInv, TypeOK, DaemonTypeOK, Proc, Inc
    <2>2. /\ p[2] > cur[p[1]] => pc[p] = "none"
          /\ p[2] < cur[p[1]] => pc[p] = "gone"
      BY DEF IInv, RosterInv
    <2> QED
      BY <2>1, <2>2 DEF Live, RunningPc
  <1> QED
    BY <1>1, Invariant, PTL

\* retries follows the forks of each helper, and exit() over too many retries
\* happens only after max_retries + 1 restarts.
THEOREM RestartsAreBudgeted == Spec => []RestartBudget
  <1>1. IInv => RestartBudget
    BY DEF IInv, CountInv, GaveUpInv, RestartBudget
  <1> QED
    BY <1>1, Invariant, PTL

\* __handle_sigpipe() finds __current_process set whenever it was a write to a
\* helper that failed: the daemon crashes in a client's session or never.
THEOREM HelperNeverCrashes == Spec => HelperNeverCrashesDaemon
  <1>1. IInv /\ [Next]_vars =>
          [cause' = "segv" => cause = "segv" \/ dpc = "session"]_vars
    <2> SUFFICES ASSUME IInv, Next, cause' = "segv", cause # "segv", dpc # "session"
                 PROVE  FALSE
      OBVIOUS
    <2> USE DEF loopVars, rosterVars, timerVars, endVars, kernelVars
    <2>1. CASE \E p \in Proc : Helper(p)
      BY <2>1 DEF Helper
    <2>2. CASE AcknowledgeClient
      <3>1. looping => curProc # "none"
        BY <2>2 DEF AcknowledgeClient, IInv, PhaseInv, TypeOK, DaemonTypeOK, Child
      <3> QED
        BY <2>2, <3>1 DEF AcknowledgeClient, Started, BrokenPipe, Ends
    <2>3. CASE SendProbe
      BY <2>3 DEF SendProbe, CurrentSet, BrokenPipe, Ends, IInv, TypeOK, DaemonTypeOK, Child
    <2>4. CASE \E close, gone \in BOOLEAN : EndSession(close, gone)
      BY <2>4 DEF EndSession
    <2>5. CASE ChildSpawn \/ ReadBackupTimer \/ ReadTransferTimer \/ EnterLoop
      BY <2>5 DEF ChildSpawn, ReadBackupTimer, ReadTransferTimer, EnterLoop, Started, Ends
    <2>6. CASE DaemonPoll \/ HandleSignal \/ AcceptClient \/ HandleTick
      BY <2>6 DEF DaemonPoll, Poll, HandleSignal, AcceptClient, HandleTick
    <2>7. CASE Drain \/ \E c \in Child : HandleChild(c)
      BY <2>7 DEF Drain, HandleChild, UnlessPanic
    <2>8. CASE GetAnswer \/ AnswerTimeout \/ KillUnfit \/ ReapUnfit \/ CountRetry
      BY <2>8 DEF GetAnswer, AnswerFrom, AnswerTimeout, KillUnfit, ReapUnfit, CountRetry, Ends
    <2>9. CASE SignalWait \/ CleanClose \/ CloseWait
      BY <2>9 DEF SignalWait, CleanClose, CloseWait
    <2>10. CASE DaemonEvent
      BY <2>10 DEF DaemonEvent, HandshakeTimeout, PollFails, SyscallFails, TermArrives, Ends
    <2>11. CASE UNCHANGED vars
      BY <2>11 DEF vars, daemonVars
    <2> QED
      BY <2>1, <2>2, <2>3, <2>4, <2>5, <2>6, <2>7, <2>8, <2>9, <2>10, <2>11
         DEF Next, Daemon, DaemonStep, Terminated
  <1> QED
    BY <1>1, Invariant, PTL DEF Spec, HelperNeverCrashesDaemon
=============================================================================
