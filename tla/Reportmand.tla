----------------------------- MODULE Reportmand -----------------------------
(***************************************************************************)
(* reportmand itself: start-up of the two helpers, the poll loop of        *)
(* __listen_to_clients(), the health probes, restarts, and every way the   *)
(* daemon ends.                                                            *)
(*                                                                         *)
(* The daemon is one thread. A value of dpc stands before each call that   *)
(* can block or fail, so that the helpers run between any two of them.     *)
(***************************************************************************)
EXTENDS Kernel

VARIABLES
    who,             \* the child being started, drained or probed
    looping,         \* main() has reached the loop of __listen_to_clients()
    rev,             \* revents of the last poll() still to be looked at
    command,         \* the loop's IPC_COMMANDS command, unset before a first read
    curProc,         \* __current_process, none for NULL
    retries,         \* child_process_t.retries
    cur,             \* the incarnation behind child_process_t.pid and .pipes
    fds,             \* the incarnation whose pipe is in the poll set
    backup_timer,    \* __backup_timer: the word read and whose word it was
    transfer_timer,  \* __transfer_timer
    dterm,           \* SIGTERM is pending for the daemon
    cause            \* why the daemon is ending, none while it is not

loopVars  == <<rev, command, fds, looping>>
rosterVars == <<who, curProc, retries, cur>>
timerVars == <<backup_timer, transfer_timer>>
endVars   == <<dterm, cause>>
daemonVars == <<dpc, loopVars, rosterVars, timerVars, endVars>>

Now(c) == <<c, cur[c]>>

Source == {"sig", "client", "fm", "mon", "tick"}

\* The order in which the body of the loop looks at revents.
Rank == [s \in Source |-> CASE s = "sig" -> 1 [] s = "client" -> 2
                            [] s = "fm" -> 3 [] s = "mon" -> 4 [] s = "tick" -> 5]

Turn(s) == dpc = "dispatch" /\ s \in rev /\ \A t \in rev : Rank[s] <= Rank[t]

\* The loop goes on to the next of the revents, or back to poll().
Handled(s) ==
    /\ rev' = rev \ {s}
    /\ dpc' = IF rev = {s} THEN "poll" ELSE "dispatch"

NoTimer == [word |-> "junk", inc |-> 0]
Cause == {"none", "signal", "client", "panic", "syscall", "handshake",
          "retries", "sigpipe", "segv", "killed"}

DaemonTypeOK ==
    /\ who \in Child
    /\ looping \in BOOLEAN
    /\ rev \subseteq Source
    /\ command \in Word \cup {"unset"}
    /\ curProc \in Child \cup {"none"}
    /\ retries \in [Child -> 0 .. (MaxRetries + 2)]
    /\ cur \in [Child -> 0 .. (MaxRetries + 2)]
    /\ fds \in [Child -> 0 .. (MaxRetries + 2)]
    /\ backup_timer \in [word : Word, inc : 0 .. (MaxRetries + 2)]
    /\ transfer_timer \in [word : Word, inc : 0 .. (MaxRetries + 2)]
    /\ dterm \in BOOLEAN
    /\ cause \in Cause

DaemonInit ==
    /\ who = "fm"
    /\ looping = FALSE
    /\ rev = {}
    /\ command = "unset"
    /\ curProc = "none"
    /\ retries = [c \in Child |-> 0]
    /\ cur = [c \in Child |-> 0]
    /\ fds = [c \in Child |-> 0]
    /\ backup_timer = NoTimer
    /\ transfer_timer = NoTimer
    /\ dterm = FALSE
    /\ cause = "none"

Ends(why) == dpc' = "exited" /\ cause' = why

\* The daemon writes to a pipe or socket nobody reads. Before the loop SIGPIPE
\* has its default action; then __handle_sigpipe() runs, which looks up the
\* executable of __current_process and crashes when that is NULL.
BrokenPipe(otherwise) ==
    IF ~looping THEN Ends("sigpipe")
    ELSE IF curProc' = "none" THEN Ends("segv")
    ELSE otherwise

\* What follows a completed start or a healthy answer: fm is followed by mon,
\* mon by the loop. who is fm again whenever nothing is going on.
Resume ==
    /\ who' = IF who = "fm" THEN "mon" ELSE "fm"
    /\ dpc' = IF who = "fm" THEN (IF looping THEN "probe" ELSE "fork")
                            ELSE (IF looping THEN "poll" ELSE "enter")

-----------------------------------------------------------------------------
(* Starting a helper: __child_spawn() and what main() and the probe add.   *)

\* start_child_process(). Outside the loop SIGTERM is not blocked yet, inside
\* it the child inherits the daemon's blocked mask.
ChildSpawn ==
    LET p == <<who, cur[who] + 1>> IN
    /\ dpc = "fork"
    /\ cur' = [cur EXCEPT ![who] = @ + 1]
    /\ pc' = [pc EXCEPT ![p] = "boot"]
    /\ mask' = [mask EXCEPT ![p] = IF looping THEN "blocked" ELSE "default"]
    /\ dpc' = "ack"
    /\ UNCHANGED <<term, up, down, events, who, curProc, retries, loopVars,
                   timerVars, endVars>>

\* A process that has finished its start-up is no longer __current_process.
Started ==
    /\ Resume
    /\ curProc' = "none"
    /\ UNCHANGED cause

\* Only fm has a post_proc_launch: its timer ids are read after every start.
LaunchOnceOnly(c) == c = "fm" /\ ~looping
HasPostLaunch(c)  == c = "fm"

\* acknowledge_client(): the child's ACK is read and answered.
AcknowledgeClient ==
    LET p == Now(who) IN
    /\ dpc = "ack"
    /\ \E w \in Word :
        /\ ReadUp(p, w)
        /\ \/ /\ ~IsAck(w)
              /\ Ends("handshake")
              /\ UNCHANGED <<down, who, curProc>>
           \/ /\ IsAck(w)
              /\ Live(p)
              /\ down' = [down EXCEPT ![p] = Append(@, "ACK")]
              /\ IF HasPostLaunch(who)
                 THEN dpc' = "timer_b" /\ UNCHANGED <<who, curProc, cause>>
                 ELSE Started
           \/ /\ IsAck(w)
              /\ ~Live(p)
              /\ UNCHANGED <<down, who, curProc>>
              /\ BrokenPipe(Ends("handshake"))
    /\ UNCHANGED <<pc, mask, term, events, retries, cur, loopVars, timerVars, dterm>>

\* __reportman_fm_get_timers(): the first id read is the backup timer ...
ReadBackupTimer ==
    LET p == Now(who) IN
    /\ dpc = "timer_b"
    /\ \E w \in Word :
        /\ ReadUp(p, w)
        /\ IF IsUlong(w)
           THEN /\ backup_timer' = [word |-> w, inc |-> cur[who]]
                /\ dpc' = "timer_t"
                /\ UNCHANGED cause
           ELSE Ends("handshake") /\ UNCHANGED backup_timer
    /\ UNCHANGED <<pc, mask, term, down, events, rosterVars, loopVars,
                   transfer_timer, dterm>>

\* ... and the second, read without a timeout, is the transfer timer.
ReadTransferTimer ==
    LET p == Now(who) IN
    /\ dpc = "timer_t"
    /\ \E w \in Word :
        /\ ReadUp(p, w)
        /\ IF IsUlong(w)
           THEN /\ transfer_timer' = [word |-> w, inc |-> cur[who]]
                /\ Started
           ELSE Ends("handshake") /\ UNCHANGED <<transfer_timer, who, curProc>>
    /\ UNCHANGED <<pc, mask, term, down, events, retries, cur, loopVars,
                   backup_timer, dterm>>

\* The 10 s of acknowledge_client() or __reportman_fm_get_timers() run out.
HandshakeTimeout ==
    /\ dpc \in {"ack", "timer_b"}
    /\ NothingToRead(Now(who))
    /\ Happens("slow")
    /\ Ends("handshake")
    /\ UNCHANGED <<kernelVars, rosterVars, loopVars, timerVars, dterm>>

\* __listen_to_clients() up to its loop: SIGTERM and SIGPIPE are handled from
\* here on, and the poll set is filled in once with the pipes there are now.
EnterLoop ==
    /\ dpc = "enter"
    /\ looping' = TRUE
    /\ fds' = cur
    /\ dpc' = "poll"
    /\ UNCHANGED <<kernelVars, events, rosterVars, rev, command, timerVars, endVars>>

-----------------------------------------------------------------------------
(* The loop of __listen_to_clients().                                      *)

\* What poll() finds readable of the things this model keeps. A polled pipe
\* that only hung up is not POLLIN: the loop then turns over with nothing done.
Ready == (IF dterm THEN {"sig"} ELSE {})
         \cup {c \in Child : fds[c] > 0 /\ up[<<c, fds[c]>>] # <<>>}

\* poll() returns. A client may have connected and the health timer may have
\* expired by then; both keep until somebody looks.
Poll(outside) ==
    /\ dpc = "poll"
    /\ rev' = Ready \cup outside
    /\ rev' # {}
    /\ dpc' = "dispatch"
    /\ IF "client" \in outside THEN Happens("client") ELSE UNCHANGED events
    /\ UNCHANGED <<kernelVars, rosterVars, command, fds, looping, timerVars, endVars>>

\* kill(0, SIGTERM): the daemon signals its own process group, itself included.
KillNobody == UNCHANGED <<pc, term>> /\ dterm' = TRUE
KillGroup == SigTerm(Proc) /\ dterm' = TRUE

\* SIGTERM or SIGINT: the children are killed and waited for, then the daemon
\* leaves the loop for __clean_close(), which does both again.
HandleSignal ==
    /\ Turn("sig")
    /\ KillGroup
    /\ dpc' = "signalled"
    /\ cause' = "signal"
    /\ rev' = {}
    /\ UNCHANGED <<mask, up, down, events, rosterVars, command, fds, looping, timerVars>>

\* A connection is accepted; until the session is over the daemon does nothing
\* else. When accept() fails the rest of the revents is dropped.
AcceptClient ==
    /\ Turn("client")
    /\ \/ /\ dpc' = "session"
          /\ rev' = rev \ {"client"}
          /\ UNCHANGED events
       \/ /\ Happens("syscall")
          /\ dpc' = "poll"
          /\ rev' = {}
    /\ UNCHANGED <<kernelVars, rosterVars, command, fds, looping, timerVars, endVars>>

\* The session ends after any number of commands: close asked for or not, and
\* the client gone or not before the daemon's last two writes to it.
EndSession(close, gone) ==
    /\ dpc = "session"
    /\ UNCHANGED <<kernelVars, events, rosterVars, loopVars, timerVars, dterm>>
    /\ LET Over == IF close
                   THEN dpc' = "close" /\ cause' = "client"
                   ELSE dpc' = (IF rev = {} THEN "poll" ELSE "dispatch") /\ UNCHANGED cause
       IN  IF gone THEN BrokenPipe(Over) ELSE Over

\* ipc_get_command() into the loop's command, whose result the loop ignores: on
\* a timeout, or for a word that is no command, command keeps its old value.
IpcGetCommand(p) ==
    \/ \E w \in Word : ReadUp(p, w) /\ command' = IF IsCommand(w) THEN w ELSE command
    \/ NothingToRead(p) /\ UNCHANGED <<up, command>>

\* Variant: only what the poll set announced is looked at.
UnlessPanicPolled(calm) ==
    \/ /\ dpc = "dispatch"
       /\ command' = "PANIC"
       /\ dpc' = "close"
       /\ cause' = "panic"
       /\ rev' = {}
       /\ UNCHANGED who
    \/ (command' # "PANIC" \/ dpc = "drain") /\ calm /\ UNCHANGED cause

\* if (command == IPC_COMMAND_PANIC) __clean_close(EXIT_FAILURE); calm is what
\* the loop does otherwise. A command nobody has read into may equal anything.
UnlessPanic(calm) ==
    \/ /\ command' = "PANIC" \/ (command' = "unset" /\ "PANIC" \in Garbage)
       /\ dpc' = "close"
       /\ cause' = "panic"
       /\ rev' = {}
       /\ UNCHANGED who
    \/ command' # "PANIC" /\ calm /\ UNCHANGED cause

\* The pipe that is polled is fds[c]'s, the pipe that is read is cur[c]'s.
HandleChild(c) ==
    /\ Turn(c)
    /\ IpcGetCommand(Now(c))
    /\ UnlessPanic(Handled(c) /\ UNCHANGED who)
    /\ UNCHANGED <<pc, mask, term, down, events, curProc, retries, cur, fds,
                   looping, timerVars, dterm>>

\* The health timer has expired and is set again.
HandleTick ==
    /\ Turn("tick")
    /\ rev' = {}
    /\ dpc' = "drain"
    /\ UNCHANGED <<kernelVars, events, rosterVars, command, fds, looping,
                   timerVars, endVars>>

\* Before it probes the daemon reads at most one word of each child.
Drain ==
    /\ dpc = "drain"
    /\ IpcGetCommand(Now(who))
    /\ UnlessPanic(/\ dpc' = IF who = "fm" THEN "drain" ELSE "probe"
                   /\ who' = IF who = "fm" THEN "mon" ELSE "fm"
                   /\ UNCHANGED rev)
    /\ UNCHANGED <<pc, mask, term, down, events, curProc, retries, cur, fds,
                   looping, timerVars, dterm>>

-----------------------------------------------------------------------------
(* __health_probe_child_process(), fm first, then mon.                     *)

\* __current_process = child
CurrentForgotten == UNCHANGED curProc
CurrentSet       == curProc' = who

\* A pid that exists is sent a probe; a zombie's pid exists and its pipe is
\* broken. A pid that does not exist goes straight to the restart.
SendProbe ==
    LET p == Now(who) IN
    /\ dpc = "probe"
    /\ CurrentSet
    /\ IF ~PidExists(p) THEN dpc' = "retry" /\ UNCHANGED <<down, cause>>
       ELSE IF Live(p)
            THEN /\ down' = [down EXCEPT ![p] = Append(@, "PROBE")]
                 /\ dpc' = "answer"
                 /\ UNCHANGED cause
            ELSE /\ BrokenPipe(dpc' = "answer" /\ UNCHANGED cause)
                 /\ UNCHANGED down
    /\ UNCHANGED <<pc, mask, term, up, events, who, retries, cur, loopVars,
                   timerVars, dterm>>

\* Any command at all is taken for the answer; __current_process is left set.
\* After anything else the child is unfit.
AnswerFrom(p) ==
    /\ dpc = "answer"
    /\ \E w \in Word : /\ ReadUp(p, w)
                       /\ IF IsCommand(w) THEN Resume ELSE dpc' = "unfit" /\ UNCHANGED who
    /\ UNCHANGED <<pc, mask, term, down, events, curProc, retries, cur, loopVars,
                   timerVars, endVars>>
GetStaleAnswer == AnswerFrom(<<who, fds[who]>>)
GetAnswer      == AnswerFrom(Now(who))

\* The 5 s of R_IPC_TIMEOUT run out: not true, although not zero either.
TimeoutIsTruthy == Resume
TimeoutIsUnfit  == dpc' = "unfit" /\ UNCHANGED who
AnswerTimeout ==
    /\ dpc = "answer"
    /\ NothingToRead(Now(who))
    /\ Happens("slow")
    /\ TimeoutIsUnfit
    /\ UNCHANGED <<kernelVars, curProc, retries, cur, loopVars, timerVars, endVars>>

KillUnfit ==
    /\ dpc = "unfit"
    /\ SigTerm({Now(who)})
    /\ dpc' = "reap"
    /\ UNCHANGED <<mask, up, down, events, rosterVars, loopVars, timerVars, endVars>>

\* waitpid(child->pid): for as long as it takes.
NoWaitFor(p) == UNCHANGED pc
WaitFor(p)   == ~Live(p) /\ pc' = [pc EXCEPT ![p] = "gone"]
ReapUnfit ==
    /\ dpc = "reap"
    /\ WaitFor(Now(who))
    /\ dpc' = "retry"
    /\ UNCHANGED <<mask, term, up, down, events, rosterVars, loopVars, timerVars, endVars>>

\* retries++ > max_retries
OneMoreTry(c)  == retries[c] > MaxRetries + 1
OneTryLess(c)  == retries[c] >= MaxRetries
Exhausted(c)   == retries[c] > MaxRetries
CountRetry ==
    /\ dpc = "retry"
    /\ retries' = [retries EXCEPT ![who] = @ + 1]
    /\ IF Exhausted(who) THEN Ends("retries") ELSE dpc' = "fork" /\ UNCHANGED cause
    /\ UNCHANGED <<kernelVars, events, who, curProc, cur, loopVars, timerVars, dterm>>

-----------------------------------------------------------------------------
(* Ending.                                                                 *)

\* waitpid(0): with SIGCHLD ignored it returns once no child is left, else as
\* soon as there is one zombie to reap, or no child at all.
WaitAny ==
    IF SigchldIgnored THEN (\A p \in Proc : ~Live(p)) /\ UNCHANGED pc
    ELSE \/ \E p \in Proc : pc[p] = "zombie" /\ pc' = [pc EXCEPT ![p] = "gone"]
         \/ (\A p \in Proc : ~PidExists(p)) /\ UNCHANGED pc

DoNotWait == UNCHANGED pc
WaitFirst == WaitAny

\* The wait in the __kill_children() of the signal branch.
SignalWait ==
    /\ dpc = "signalled"
    /\ WaitFirst
    /\ dpc' = "close"
    /\ UNCHANGED <<mask, term, up, down, events, rosterVars, loopVars, timerVars, endVars>>

\* __clean_close() up to the kill in its __kill_children() ...
CleanClose ==
    /\ dpc = "close"
    /\ KillGroup
    /\ dpc' = "close_wait"
    /\ UNCHANGED <<mask, up, down, events, rosterVars, loopVars, timerVars, cause>>

\* ... and from its waitpid() to exit().
CloseWait ==
    /\ dpc = "close_wait"
    /\ WaitAny
    /\ dpc' = "exited"
    /\ UNCHANGED <<mask, term, up, down, events, rosterVars, loopVars, timerVars, endVars>>

\* poll() fails, or the signalfd is misread: __kill_children() and exit().
PollFails ==
    /\ dpc = "poll" \/ Turn("sig")
    /\ Happens("syscall")
    /\ KillGroup
    /\ dpc' = "close_wait"
    /\ cause' = "syscall"
    /\ UNCHANGED <<mask, up, down, rosterVars, loopVars, timerVars>>

\* fork(), the set-up of the loop, or setting the health timer again fails:
\* exit(EXIT_FAILURE) there and then.
SyscallFails ==
    /\ dpc \in {"fork", "enter"} \/ Turn("tick")
    /\ Happens("syscall")
    /\ Ends("syscall")
    /\ UNCHANGED <<kernelVars, rosterVars, loopVars, timerVars, dterm>>

\* Somebody sends SIGTERM to the daemon alone, or to its whole process group.
\* Before the loop its disposition is the default one.
TermArrives(group) ==
    /\ dpc # "exited"
    /\ Happens("term")
    /\ IF group THEN SigTerm(Proc) ELSE UNCHANGED <<pc, term>>
    /\ IF looping THEN dterm' = TRUE /\ UNCHANGED <<dpc, cause>>
                  ELSE Ends("killed") /\ UNCHANGED dterm
    /\ UNCHANGED <<mask, up, down, rosterVars, loopVars, timerVars>>

DaemonStep ==
    \/ ChildSpawn \/ AcknowledgeClient \/ ReadBackupTimer \/ ReadTransferTimer
    \/ EnterLoop
    \/ HandleSignal \/ AcceptClient \/ HandleTick \/ Drain
    \/ \E c \in Child : HandleChild(c)
    \/ \E close, gone \in BOOLEAN : EndSession(close, gone)
    \/ SendProbe \/ GetAnswer \/ AnswerTimeout \/ KillUnfit \/ ReapUnfit \/ CountRetry
    \/ SignalWait \/ CleanClose \/ CloseWait

DaemonEvent ==
    \/ HandshakeTimeout \/ PollFails \/ SyscallFails
    \/ \E group \in BOOLEAN : TermArrives(group)
=============================================================================
