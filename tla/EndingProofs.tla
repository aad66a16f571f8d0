----------------------------- MODULE EndingProofs -----------------------------
(***************************************************************************)
(* Proofs about the ways reportmand ends: whom it has told to terminate    *)
(* and whom it has waited for by then; and that until it ends it keeps the *)
(* roster of its two helpers.                                              *)
(***************************************************************************)
EXTENDS SupervisionProofs

Orderly == {"signal", "client", "panic"}

\* Every helper that still runs has a SIGTERM waiting for it.
Told == \A p \in Proc : Live(p) => term[p]

\* One of the two helpers has left nothing behind; neither has.
HalfReaped == \E c \in Child : \A p \in Proc : p[1] = c => ~PidExists(p)
AllReaped  == \A p \in Proc : ~PidExists(p)

\* The daemon tells everybody in __kill_children() and nobody starts after that.
ToldInv ==
    /\ cause \in Orderly => dpc \in Ending
    /\ dpc = "close_wait" => Told
    /\ dpc = "exited" /\ cause \in Orderly => Told

\* Each of the two waits of a daemon that ends by a signal accounts for one
\* helper, or for both when SIGCHLD is ignored.
ReapedInv ==
    /\ SigchldIgnored => \A p \in Proc : pc[p] # "zombie"
    /\ cause = "signal" /\ dpc \in {"close", "close_wait"} => HalfReaped
    /\ cause = "signal" /\ dpc = "exited" => AllReaped

EInv == IInv /\ ToldInv /\ ReapedInv

-----------------------------------------------------------------------------
\* Only a fork makes a process.
LEMMA StepSettled ==
    ASSUME IInv, [Next]_vars, ~ChildSpawn
    PROVE  Settled
  <1> USE DEF IInv, TypeOK, KernelTypeOK, kernelVars
  <1>1. UNCHANGED pc => Settled
    BY DEF Settled
  <1>2. CASE \E p \in Proc : Helper(p)
    BY <1>2, HelperSettled
  <1>3. CASE ReapUnfit
    <2>1. Now(who) \in Proc
      BY <1>3, NowType DEF ReapUnfit, DaemonTypeOK
    <2>2. pc' = [pc EXCEPT ![Now(who)] = "gone"] /\ pc[Now(who)] # "none"
      BY <1>3, <2>1 DEF ReapUnfit, WaitFor, RosterInv, Now
    <2> QED
      BY <2>1, <2>2 DEF Settled, RunningPc
  <1>4. CASE HandleSignal \/ KillUnfit \/ CleanClose \/ PollFails
    BY <1>4, SigTermType DEF HandleSignal, KillUnfit, CleanClose, PollFails, KillGroup
  <1>5. CASE SignalWait \/ CloseWait
    BY <1>5, WaitAnyType DEF SignalWait, WaitFirst, CloseWait
  <1>6. CASE \E group \in BOOLEAN : TermArrives(group)
    BY <1>1, <1>6, SigTermType DEF TermArrives
  <1>7. CASE AcknowledgeClient \/ ReadBackupTimer \/ ReadTransferTimer \/ EnterLoop
    BY <1>1, <1>7 DEF AcknowledgeClient, ReadBackupTimer, ReadTransferTimer, EnterLoop
  <1>8. CASE DaemonPoll \/ AcceptClient \/ HandleTick \/ Drain
               \/ (\E c \in Child : HandleChild(c))
    BY <1>1, <1>8 DEF DaemonPoll, Poll, AcceptClient, HandleTick, Drain, HandleChild
  <1>9. CASE \E close, gone \in BOOLEAN : EndSession(close, gone)
    BY <1>1, <1>9 DEF EndSession
  <1>10. CASE SendProbe \/ GetAnswer \/ AnswerTimeout \/ CountRetry
    BY <1>1, <1>10 DEF SendProbe, GetAnswer, AnswerFrom, AnswerTimeout, CountRetry
  <1>11. CASE HandshakeTimeout \/ SyscallFails
    BY <1>1, <1>11 DEF HandshakeTimeout, SyscallFails
  <1>12. CASE UNCHANGED vars
    BY <1>1, <1>12 DEF vars
  <1> QED
    BY <1>2, <1>3, <1>4, <1>5, <1>6, <1>7, <1>8, <1>9, <1>10, <1>11, <1>12
       DEF Next, Daemon, DaemonStep, DaemonEvent, Terminated

\* kill(0, SIGTERM) reaches everybody who lives on.
LEMMA GroupTold ==
    ASSUME TypeOK, SigTerm(Proc)
    PROVE  Told'
  BY DEF TypeOK, KernelTypeOK, SigTerm, Told, Live, Corpse, RunningPc

\* Who has been told stays told, whatever else happens.
LEMMA ToldKept ==
    ASSUME Told, Settled, \A p \in Proc : term[p] => term'[p]
    PROVE  Told'
  BY DEF Told, Settled, Live

\* What has been reaped stays reaped.
LEMMA ReapedKept ==
    ASSUME Settled
    PROVE  /\ AllReaped => AllReaped'
           /\ HalfReaped => HalfReaped'
  BY DEF Settled, AllReaped, HalfReaped, PidExists

\* One wait reaps one helper, a second one the other.
LEMMA WaitReaps ==
    ASSUME IInv, SigchldIgnored => \A p \in Proc : pc[p] # "zombie",
           WaitAny
    PROVE  HalfReaped' /\ (HalfReaped => AllReaped')
  <1>1. CASE SigchldIgnored
    <2>1. \A p \in Proc : ~PidExists(p)'
      BY <1>1 DEF WaitAny, PidExists, Live, IInv, TypeOK, KernelTypeOK, ChildPc
    <2> QED
      BY <2>1 DEF AllReaped, HalfReaped, Child
  <1>2. CASE ~SigchldIgnored /\ (\A p \in Proc : ~PidExists(p)) /\ UNCHANGED pc
    BY <1>2 DEF AllReaped, HalfReaped, PidExists, Child
  <1>3. CASE ~SigchldIgnored /\ \E p \in Proc : pc[p] = "zombie"
                                               /\ pc' = [pc EXCEPT ![p] = "gone"]
    <2>1. PICK p \in Proc : pc[p] = "zombie" /\ pc' = [pc EXCEPT ![p] = "gone"]
      BY <1>3
    <2>2. ASSUME NEW q \in Proc, q[1] = p[1]
          PROVE  ~PidExists(q)'
      <3>1. CASE q = p
        BY <2>1, <3>1 DEF PidExists, IInv, TypeOK, KernelTypeOK
      <3>2. CASE q # p
        <4>1. q[2] # p[2] /\ q[2] \in Nat /\ p[2] \in Nat /\ cur[p[1]] \in Nat
          BY <2>2, <3>2 DEF Proc, Inc, IInv, TypeOK, DaemonTypeOK
        <4>2. p[2] = cur[p[1]]
          BY <2>1, <4>1 DEF IInv, RosterInv
        <4>3. pc[q] \in {"none", "gone"}
          BY <2>2, <4>1, <4>2 DEF IInv, RosterInv
        <4> QED
          BY <2>1, <3>2, <4>3 DEF PidExists, IInv, TypeOK, KernelTypeOK
      <3> QED
        BY <3>1, <3>2
    <2>3. p[1] \in Child
      BY DEF Proc
    <2>4. HalfReaped'
      BY <2>2, <2>3 DEF HalfReaped
    <2>5. ASSUME HalfReaped PROVE AllReaped'
      <3>1. PICK c \in Child : \A q \in Proc : q[1] = c => ~PidExists(q)
        BY <2>5 DEF HalfReaped
      <3>2. c # p[1]
        BY <2>1, <3>1 DEF PidExists
      <3>3. ASSUME NEW q \in Proc PROVE ~PidExists(q)'
        <4>1. q[1] \in Child /\ (q[1] = c \/ q[1] = p[1])
          BY <2>3, <3>2 DEF Proc, Child
        <4>2. CASE q[1] = p[1]
          BY <2>2, <4>2
        <4>3. CASE q[1] = c
          BY <2>1, <3>1, <3>2, <4>3 DEF PidExists, IInv, TypeOK, KernelTypeOK
        <4> QED
          BY <4>1, <4>2, <4>3
      <3> QED
        BY <3>3 DEF AllReaped
    <2> QED
      BY <2>4, <2>5
  <1> QED
    BY <1>1, <1>2, <1>3 DEF WaitAny

-----------------------------------------------------------------------------
\* Every step keeps both invariants: the four that signal or wait, the three
\* that begin an end, those that exit at once, and all others.
LEMMA EndingStep ==
    ASSUME EInv, [Next]_vars
    PROVE  ToldInv' /\ ReapedInv'
  <1> USE DEF EInv, ToldInv, ReapedInv, Orderly, Ending
  <1>1. CASE ChildSpawn
    <2>1. dpc' = "ack" /\ UNCHANGED cause /\ dpc = "fork"
      BY <1>1 DEF ChildSpawn, endVars
    <2>2. <<who, cur[who] + 1>> \in Proc
      BY <2>1, ForkType DEF IInv
    <2>3. SigchldIgnored => \A p \in Proc : pc'[p] # "zombie"
      BY <1>1, <2>2 DEF ChildSpawn, IInv, TypeOK, KernelTypeOK
    <2> QED
      BY <2>1, <2>3
  <1>2. CASE ~ChildSpawn
    <2>1. Settled
      BY <1>2, StepSettled
    <2>2. SigchldIgnored => \A p \in Proc : pc'[p] # "zombie"
      BY <2>1 DEF Settled
    <2>3. CASE UNCHANGED <<dpc, cause, term>>
      BY <2>1, <2>2, <2>3, ToldKept, ReapedKept
    <2>4. CASE dpc' \notin Ending /\ cause' = cause /\ dpc \notin Ending
      BY <2>2, <2>4
    <2>5. CASE dpc' \in {"exited", "signalled", "close"} /\ dpc \notin Ending
               /\ cause' \notin {"signal", "client", "panic"}
      BY <2>2, <2>5
    <2>6. CASE dpc' = "close" /\ cause' \in {"client", "panic"}
      BY <2>2, <2>6
    <2>7. CASE HandleSignal
      BY <2>2, <2>7 DEF HandleSignal
    <2>8. CASE SignalWait
      <3>1. HalfReaped'
        BY <2>8, WaitReaps DEF SignalWait, WaitFirst
      <3> QED
        BY <2>2, <2>8, <3>1 DEF SignalWait, endVars
    <2>9. CASE CleanClose
      <3>1. Told' /\ (HalfReaped => HalfReaped')
        BY <2>1, <2>9, GroupTold, ReapedKept DEF CleanClose, KillGroup, IInv
      <3> QED
        BY <2>2, <2>9, <3>1 DEF CleanClose
    <2>10. CASE CloseWait
      <3>1. HalfReaped => AllReaped'
        BY <2>10, WaitReaps DEF CloseWait
      <3>2. Told'
        BY <2>1, <2>10, ToldKept DEF CloseWait
      <3> QED
        BY <2>2, <2>10, <3>1, <3>2 DEF CloseWait, endVars
    <2>11. CASE PollFails
      <3>1. Told'
        BY <2>11, GroupTold DEF PollFails, KillGroup, IInv
      <3> QED
        BY <2>2, <2>11, <3>1 DEF PollFails
    <2>12. ASSUME NEW group \in BOOLEAN, TermArrives(group)
           PROVE  ToldInv' /\ ReapedInv'
      <3>1. \A p \in Proc : term[p] => term'[p]
        BY <2>12 DEF TermArrives, SigTerm, IInv, TypeOK, KernelTypeOK
      <3>2. CASE looping
        BY <2>1, <2>2, <2>12, <3>1, <3>2, ToldKept, ReapedKept DEF TermArrives
      <3>3. CASE ~looping
        BY <2>2, <2>12, <3>3 DEF TermArrives, Ends
      <3> QED
        BY <3>2, <3>3
    <2>13. CASE \E p \in Proc : Helper(p)
      <3>1. UNCHANGED <<dpc, term, cause>>
        BY <2>13, HelperSettled DEF Helper, endVars, IInv
      <3> QED
        BY <2>3, <3>1
    <2>14. CASE AcknowledgeClient
      BY <2>4, <2>5, <2>14 DEF AcknowledgeClient, HasPostLaunch, Started, Resume, BrokenPipe, Ends
    <2>15. CASE ReadBackupTimer \/ ReadTransferTimer
      BY <2>4, <2>5, <2>15 DEF ReadBackupTimer, ReadTransferTimer, Started, Resume, Ends
    <2>16. CASE HandshakeTimeout \/ SyscallFails
      BY <2>5, <2>16 DEF HandshakeTimeout, SyscallFails, Turn, Ends
    <2>17. CASE EnterLoop \/ DaemonPoll \/ AcceptClient \/ HandleTick
      BY <2>4, <2>17 DEF EnterLoop, DaemonPoll, Poll, AcceptClient, HandleTick, Turn, endVars
    <2>18. CASE Drain
      BY <2>4, <2>6, <2>18 DEF Drain, UnlessPanic
    <2>19. CASE \E c \in Child : HandleChild(c)
      BY <2>4, <2>6, <2>19 DEF HandleChild, UnlessPanic, Handled, Turn
    <2>20. CASE \E close, gone \in BOOLEAN : EndSession(close, gone)
      BY <2>4, <2>5, <2>6, <2>20 DEF EndSession, BrokenPipe, Ends
    <2>21. CASE SendProbe
      BY <2>4, <2>5, <2>21 DEF SendProbe, BrokenPipe, Ends
    <2>22. CASE GetAnswer \/ AnswerTimeout
      BY <2>4, <2>22 DEF GetAnswer, AnswerFrom, Resume, AnswerTimeout, TimeoutIsUnfit, endVars
    <2>23. CASE KillUnfit \/ ReapUnfit
      BY <2>4, <2>23 DEF KillUnfit, ReapUnfit, endVars
    <2>24. CASE CountRetry
      BY <2>4, <2>5, <2>24 DEF CountRetry, Ends
    <2>25. CASE UNCHANGED vars
      BY <2>3, <2>25 DEF vars, kernelVars, daemonVars, endVars
    <2> QED
      BY <1>2, <2>7, <2>8, <2>9, <2>10, <2>11, <2>12, <2>13, <2>14, <2>15, <2>16, <2>17,
         <2>18, <2>19, <2>20, <2>21, <2>22, <2>23, <2>24, <2>25
         DEF Next, Daemon, DaemonStep, DaemonEvent, Terminated
  <1> QED
    BY <1>1, <1>2

\* Both invariants hold from the start to the end.
LEMMA EndingInvariant == Spec => []EInv
  <1>1. Init => EInv
    <2> SUFFICES ASSUME Init PROVE EInv
      OBVIOUS
    <2>1. IInv
      BY InvInit
    <2> QED
      BY <2>1 DEF EInv, ToldInv, ReapedInv, Orderly, Init, KernelInit, DaemonInit
  <1>2. EInv /\ [Next]_vars => EInv'
    BY InvStep, EndingStep DEF EInv
  <1> QED
    BY <1>1, <1>2, PTL DEF Spec

\* Whenever __clean_close() has run, every helper still running has a SIGTERM
\* pending, whatever failed on the way and however many helpers were restarted.
THEOREM OrderlyExitsSignal == Spec => []OrderlyExitSignalsAll
  <1>1. EInv => OrderlyExitSignalsAll
    BY DEF EInv, ToldInv, Told, Orderly, OrderlyExitSignalsAll
  <1> QED
    BY <1>1, EndingInvariant, PTL

\* The two waitpid(0) of a daemon that is sent SIGTERM leave no helper behind,
\* neither running nor as a zombie, in either mode of SIGCHLD.
THEOREM SignalExitsReap == Spec => []SignalExitReapsAll
  <1>1. EInv => SignalExitReapsAll
    BY DEF EInv, ReapedInv, AllReaped, SignalExitReapsAll
  <1> QED
    BY <1>1, EndingInvariant, PTL

-----------------------------------------------------------------------------
(***************************************************************************)
(* Supervision implements Roster: the initial states map to its initial    *)
(* states, forks to Fill, and every other step to Lose or to a stutter.    *)
(***************************************************************************)

\* No step but a fork changes who is behind a role, and the way out is final.
LEMMA RolesKept ==
    ASSUME IInv, [Next]_vars, ~ChildSpawn
    PROVE  cur' = cur /\ (Over => Over')
  <1> USE DEF Over, Ending, loopVars, rosterVars, timerVars, endVars, kernelVars
  <1>1. CASE \E p \in Proc : Helper(p)
    BY <1>1, HelperSettled DEF Helper, IInv
  <1>2. CASE AcknowledgeClient \/ ReadBackupTimer \/ ReadTransferTimer
    BY <1>2 DEF AcknowledgeClient, ReadBackupTimer, ReadTransferTimer
  <1>3. CASE EnterLoop \/ HandshakeTimeout
    BY <1>3 DEF EnterLoop, HandshakeTimeout
  <1>4. CASE DaemonPoll \/ HandleSignal \/ AcceptClient \/ HandleTick \/ Drain
    BY <1>4 DEF DaemonPoll, Poll, HandleSignal, AcceptClient, HandleTick, Drain, Turn
  <1>5. CASE \E c \in Child : HandleChild(c)
    BY <1>5 DEF HandleChild, Turn
  <1>6. CASE \E close, gone \in BOOLEAN : EndSession(close, gone)
    BY <1>6 DEF EndSession
  <1>7. CASE SendProbe \/ GetAnswer \/ AnswerTimeout
    BY <1>7 DEF SendProbe, GetAnswer, AnswerFrom, AnswerTimeout
  <1>8. CASE KillUnfit \/ ReapUnfit \/ CountRetry
    BY <1>8 DEF KillUnfit, ReapUnfit, CountRetry
  <1>9. CASE SignalWait \/ CleanClose \/ CloseWait
    BY <1>9 DEF SignalWait, CleanClose, CloseWait
  <1>10. CASE PollFails \/ SyscallFails
    BY <1>10 DEF PollFails, SyscallFails, Turn
  <1>11. CASE \E group \in BOOLEAN : TermArrives(group)
    BY <1>11 DEF TermArrives, Ends
  <1>12. CASE UNCHANGED vars
    BY <1>12 DEF vars, daemonVars
  <1> QED
    BY <1>1, <1>2, <1>3, <1>4, <1>5, <1>6, <1>7, <1>8, <1>9, <1>10, <1>11, <1>12
       DEF Next, Daemon, DaemonStep, DaemonEvent, Terminated

\* A process that is behind a role is one of the process table.
LEMMA NowIsProc ==
    ASSUME TypeOK, NEW c \in Child, cur[c] # 0
    PROVE  Now(c) \in Proc
  BY DEF TypeOK, DaemonTypeOK, Now, Proc, Inc

\* start_child_process() fills a role that nobody is in, within its budget, and
\* mon only after fm.
LEMMA ForkFills ==
    ASSUME IInv, ChildSpawn
    PROVE  Promised!Fill(who)
  <1> DEFINE q == <<who, cur[who] + 1>>
  <1>1. q \in Proc /\ who \in Child /\ cur[who] \in Nat /\ cur[who] + 1 \in Inc
    <2>1. TypeOK /\ PhaseInv /\ CountInv /\ dpc = "fork"
      BY DEF IInv, ChildSpawn
    <2>2. who \in Child /\ cur[who] \in Nat
      BY <2>1 DEF TypeOK, DaemonTypeOK
    <2> QED
      BY <2>1, <2>2, ForkType
  <1>2. /\ cur' = [cur EXCEPT ![who] = @ + 1] /\ pc' = [pc EXCEPT ![q] = "boot"]
        /\ dpc' = "ack" /\ dpc = "fork"
    BY DEF ChildSpawn
  <1>3. pc \in [Proc -> ChildPc] /\ cur \in [Child -> 0 .. (MaxRetries + 2)]
    BY DEF IInv, TypeOK, KernelTypeOK, DaemonTypeOK
  <1>4. RoleState[who] # "running"
    <2>1. CASE cur[who] = 0
      BY <1>1, <2>1 DEF RoleState
    <2>2. CASE cur[who] # 0
      <3>1. Now(who) \in Proc
        BY <1>1, <2>2, NowIsProc DEF IInv
      <3>2. pc[Now(who)] = "gone"
        BY <1>2, <3>1 DEF IInv, RosterInv
      <3> QED
        BY <1>1, <2>2, <3>2 DEF RoleState, Running, Live, RunningPc
    <2> QED
      BY <2>1, <2>2
  <1>5. cur[who] < MaxRetries + 2
    BY <1>1, RetriesAssumption DEF Inc
  <1>6. who # "fm" => cur["fm"] > 0
    BY <1>1, <1>2, <1>3, RetriesAssumption DEF IInv, CountInv, PhaseInv, TypeOK, DaemonTypeOK, Child
  <1>7. ~Over /\ ~Over'
    BY <1>2 DEF Over, Ending
  <1>8. RoleState' = [RoleState EXCEPT ![who] = "running"]
    <2>1. RoleState'[who] = "running"
      <3>1. cur'[who] = cur[who] + 1 /\ cur'[who] # 0 /\ pc'[q] = "boot"
        BY <1>1, <1>2, <1>3
      <3> QED
        BY <1>1, <3>1 DEF RoleState, Running, Live, Now, RunningPc
    <2>2. ASSUME NEW c \in Child, c # who PROVE RoleState'[c] = RoleState[c]
      <3>1. cur'[c] = cur[c]
        BY <1>2, <1>3, <2>2
      <3>2. cur[c] # 0 => pc'[Now(c)] = pc[Now(c)]
        <4> SUFFICES ASSUME cur[c] # 0 PROVE pc'[Now(c)] = pc[Now(c)]
          OBVIOUS
        <4>1. Now(c) \in Proc /\ Now(c) # q
          BY <2>2, NowIsProc DEF IInv, Now
        <4> QED
          BY <1>2, <1>3, <4>1
      <3> QED
        BY <3>1, <3>2 DEF RoleState, Running, Live, Now
    <2> QED
      BY <1>1, <2>1, <2>2 DEF RoleState
  <1>9. cur' = [cur EXCEPT ![who] = @ + 1]
    BY <1>2
  <1> QED
    BY <1>4, <1>5, <1>6, <1>7, <1>8, <1>9 DEF Promised!Fill, RoleState, Over

\* Everything else can only cost roles their processes: nothing comes alive
\* again, and the daemon does not turn back on its way out.
LEMMA OthersLose ==
    ASSUME IInv, [Next]_vars, ~ChildSpawn
    PROVE  \E S \in SUBSET {c \in Child : RoleState[c] = "running"} : Promised!Lose(S)
  <1> DEFINE S == {c \in Child : RoleState[c] = "running" /\ RoleState'[c] # "running"}
  <1>1. cur' = cur /\ (Over => Over') /\ Settled
    BY RolesKept, StepSettled
  <1>2. ASSUME NEW c \in Child
        PROVE  RoleState'[c] = IF c \in S THEN "dead" ELSE RoleState[c]
    <2>1. CASE cur[c] = 0
      BY <1>1, <2>1 DEF RoleState
    <2>2. CASE cur[c] # 0
      <3>1. Now(c) \in Proc /\ Now(c)' = Now(c)
        BY <1>1, <2>2, NowIsProc DEF IInv, Now
      <3>2. Running(c)' => Running(c)
        BY <1>1, <2>2, <3>1 DEF Settled, Running, Live, IInv, TypeOK, DaemonTypeOK, Now
      <3>3. RoleState[c] = IF Running(c) THEN "running" ELSE "dead"
        BY <2>2 DEF RoleState
      <3>4. RoleState'[c] = IF Running(c)' THEN "running" ELSE "dead"
        BY <1>1, <2>2 DEF RoleState
      <3> QED
        BY <3>2, <3>3, <3>4
    <2> QED
      BY <2>1, <2>2
  <1>3. RoleState' = [c \in Child |-> IF c \in S THEN "dead" ELSE RoleState[c]]
    BY <1>2 DEF RoleState
  <1>4. Over' \in {Over, TRUE}
    <2>1. Over \in BOOLEAN /\ Over' \in BOOLEAN
      BY DEF Over
    <2> QED
      BY <1>1, <2>1, Zenon
  <1>5. Promised!Lose(S)
    BY <1>1, <1>3, <1>4 DEF Promised!Lose, RoleState, Over
  <1>6. S \in SUBSET {c \in Child : RoleState[c] = "running"}
    OBVIOUS
  <1> HIDE DEF S
  <1> QED
    BY <1>5, <1>6

\* At first no role has been filled and nothing has ended.
LEMMA RosterStarts == Init => Promised!Init
  BY DEF Init, KernelInit, DaemonInit, Promised!Init, RoleState, Over, Ending

\* The daemon keeps what Roster promises, for every max_retries, any faults and
\* any number of them: a role is filled when its last process is dead, at most
\* max_retries + 2 times, mon after fm, and never on the way out.
THEOREM SupervisionKeepsRoster == Spec => KeepsRoster
  <1>1. IInv /\ [Next]_vars => [Promised!Next]_(Promised!rosterState)
    <2> SUFFICES ASSUME IInv, [Next]_vars PROVE Promised!Next
      OBVIOUS
    <2>1. CASE ChildSpawn
      <3>1. who \in Child
        BY DEF IInv, TypeOK, DaemonTypeOK
      <3> QED
        BY <2>1, <3>1, ForkFills DEF Promised!Next
    <2>2. CASE ~ChildSpawn
      BY <2>2, OthersLose DEF Promised!Next, RoleState
    <2> QED
      BY <2>1, <2>2
  <1> QED
    BY <1>1, RosterStarts, Invariant, PTL DEF Spec, KeepsRoster, Promised!Spec
=============================================================================
