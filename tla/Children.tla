------------------------------ MODULE Children ------------------------------
(***************************************************************************)
(* reportman_fm and reportman_mon as processes of the kernel's table: the  *)
(* handshake with the daemon, signal set-up, the poll loop that answers    *)
(* health probes and waits for SIGTERM, and the ways each can fail.        *)
(*                                                                         *)
(* A process that has reached "loop" sits in poll(); one turn of its loop  *)
(* is one action.                                                          *)
(***************************************************************************)
EXTENDS Kernel

\* The process stops running; what it had sent stays in its pipe.
Exits(p) == pc' = [pc EXCEPT ![p] = Corpse]

\* After __clean_close() or exit() of the daemon nobody may hold the other end
\* of the pipe; whether a sibling still does depends on who forked when.
DaemonHungUp == dpc \in {"close_wait", "exited"}

\* write() of w to the daemon, then on to pc = next; SIGPIPE is left at its
\* default in the helpers and ends them.
Send(p, w, next) ==
    \/ up' = [up EXCEPT ![p] = Append(@, w)] /\ pc' = [pc EXCEPT ![p] = next]
    \/ DaemonHungUp /\ Exits(p) /\ UNCHANGED up

-----------------------------------------------------------------------------
\* acknowledge_daemon(): first half, ipc_send_ack().
SendAck(p) ==
    /\ pc[p] = "boot"
    /\ Send(p, "ACK", "acked")
    /\ UNCHANGED <<mask, term, down, dpc, events>>

Acknowledged(p) ==
    pc' = [pc EXCEPT ![p] = IF p[1] = "fm" THEN "report_b" ELSE "log"]

\* acknowledge_daemon(): second half, a blocking read of whatever word comes.
\* Its failure is reported to syslog only. A timer signal that arrives during
\* the read ends it with EINTR and leaves the daemon's ACK in the pipe.
GetAck(p) ==
    /\ pc[p] = "acked"
    /\ \/ down[p] # <<>> /\ down' = [down EXCEPT ![p] = Tail(@)] /\ UNCHANGED events
       \/ down[p] = <<>> /\ dpc = "exited" /\ UNCHANGED <<down, events>>
       \/ p[1] = "fm" /\ Happens("timer") /\ UNCHANGED down
    /\ Acknowledged(p)
    /\ UNCHANGED <<mask, term, up, dpc>>

\* __report_to_daemon(): the backup timer id first, the transfer timer id next.
ReportBackupTimer(p) ==
    /\ pc[p] = "report_b"
    /\ Send(p, "BT", "report_t")
    /\ UNCHANGED <<mask, term, down, dpc, events>>

ReportTransferTimer(p) ==
    /\ pc[p] = "report_t"
    /\ Send(p, "TT", "signals")
    /\ UNCHANGED <<mask, term, down, dpc, events>>

\* __monitor_paths(): the log file is opened, or the daemon is sent a PANIC and
\* start-up goes on.
OpenLog(p) ==
    /\ pc[p] = "log"
    /\ \/ pc' = [pc EXCEPT ![p] = "signals"] /\ UNCHANGED <<up, events>>
       \/ Happens("logfile") /\ Send(p, "PANIC", "signals")
    /\ UNCHANGED <<mask, term, down, dpc>>

AfterSignals(p) == IF p[1] = "fm" THEN "loop" ELSE "watch"

\* r_initialize_signals(): SIGTERM is blocked, then read through a signalfd.
\* When signalfd() fails the block stays, the daemon is sent a PANIC, and the
\* process runs on with no way to see a SIGTERM.
InitializeSignals(p) ==
    /\ pc[p] = "signals"
    /\ \/ /\ mask' = [mask EXCEPT ![p] = "signalfd"]
          /\ pc' = [pc EXCEPT ![p] = AfterSignals(p)]
          /\ UNCHANGED <<up, events>>
       \/ /\ Happens("signalfd")
          /\ mask' = [mask EXCEPT ![p] = "blocked"]
          /\ Send(p, "PANIC", AfterSignals(p))
    /\ UNCHANGED <<term, down, dpc>>

\* mt_initialize_inotify(): no inotify instance is a PANIC; a directory that
\* cannot be watched ends the process.
InitializeInotify(p) ==
    /\ pc[p] = "watch"
    /\ \/ pc' = [pc EXCEPT ![p] = "loop"] /\ UNCHANGED <<up, events>>
       \/ Happens("inotify") /\ Send(p, "PANIC", "loop")
       \/ Happens("watch") /\ Exits(p) /\ UNCHANGED up
    /\ UNCHANGED <<mask, term, down, dpc>>

-----------------------------------------------------------------------------
\* The loop's turn for a word from the daemon: a health probe is answered, the
\* other words it may hold are logged and dropped.
ServeDaemon(p) ==
    /\ pc[p] = "loop"
    /\ down[p] # <<>>
    /\ down' = [down EXCEPT ![p] = Tail(@)]
    /\ CASE Head(down[p]) = "PROBE" -> Send(p, "ACK", "loop")
         [] Head(down[p]) = "PANIC" -> Exits(p) /\ UNCHANGED up
         [] OTHER                   -> UNCHANGED <<pc, up>>
    /\ UNCHANGED <<mask, term, dpc, events>>

\* The loop's turn for SIGTERM, only ever seen through the signalfd.
TakeSigTerm(p) ==
    /\ pc[p] = "loop"
    /\ term[p]
    /\ mask[p] = "signalfd"
    /\ Exits(p)
    /\ UNCHANGED <<mask, term, up, down, dpc, events>>

\* A scheduled backup or transfer falls due: its signal handler runs on top of
\* the poll loop for as long as the transfer takes.
TimerFires(p) ==
    /\ p[1] = "fm"
    /\ pc[p] = "loop"
    /\ Happens("timer")
    /\ pc' = [pc EXCEPT ![p] = "handler"]
    /\ UNCHANGED <<mask, term, up, down, dpc>>

\* The handler returns. If it interrupted poll() the loop sees EINTR and exits;
\* if it interrupted the work of a turn, that turn goes on.
HandlerReturns(p) ==
    /\ pc[p] = "handler"
    /\ \/ Exits(p)
       \/ pc' = [pc EXCEPT ![p] = "loop"]
    /\ UNCHANGED <<mask, term, up, down, dpc, events>>

\* The process dies: a fault of its own, SIGKILL, or execv() that fails.
Crash(p) ==
    /\ Live(p)
    /\ Happens("crash")
    /\ Exits(p)
    /\ UNCHANGED <<mask, term, up, down, dpc>>

\* What a helper process does of its own accord, in the order of its program.
ChildStep(p) ==
    \/ SendAck(p) \/ GetAck(p)
    \/ ReportBackupTimer(p) \/ ReportTransferTimer(p)
    \/ OpenLog(p) \/ InitializeSignals(p) \/ InitializeInotify(p)
    \/ ServeDaemon(p) \/ TakeSigTerm(p) \/ HandlerReturns(p)

\* What happens to it.
ChildEvent(p) == TimerFires(p) \/ Crash(p)
=============================================================================
