------------------------------- MODULE Kernel -------------------------------
(***************************************************************************)
(* The part of the operating system that reportmand and its two helper     *)
(* programs share: the process table, the SIGTERM state of every process   *)
(* and the two pipes between the daemon and each helper.                   *)
(*                                                                         *)
(* A helper is restarted with a new pid and new pipes, so a process is a   *)
(* pair <<c, i>>: the i-th incarnation of helper c.                        *)
(***************************************************************************)
EXTENDS Naturals, Sequences, Words

CONSTANTS
    MaxRetries,       \* child_process_t.max_retries (3 in the code)
    SigchldIgnored,   \* TRUE after become_daemon(), FALSE under systemd or -nd
    Faults,           \* the kinds of environment events that may happen
    MaxEvents,        \* bound: how many of them happen in one behaviour
    Garbage           \* what an unsigned long nobody wrote to may hold

ASSUME RetriesAssumption == MaxRetries \in Nat
ASSUME SigchldAssumption == SigchldIgnored \in BOOLEAN
ASSUME EventsAssumption  == MaxEvents \in Nat

FaultKind == {"crash", "slow", "timer", "term", "client", "syscall",
              "logfile", "signalfd", "inotify", "watch"}

ASSUME FaultsAssumption == Faults \subseteq FaultKind

Child == {"fm", "mon"}

\* retries++ > max_retries lets a helper be restarted MaxRetries + 1 times.
Inc  == 1 .. (MaxRetries + 2)
Proc == Child \X Inc

ASSUME GarbageAssumption == Garbage \subseteq Word

VARIABLES
    pc,      \* where each helper process is; none, zombie and gone are not running
    mask,    \* its SIGTERM disposition: default, blocked, or read from a signalfd
    term,    \* SIGTERM is pending
    up,      \* pipe helper -> daemon
    down,    \* pipe daemon -> helper
    dpc,     \* where the daemon is
    events   \* how many environment events have happened

kernelVars == <<pc, mask, term, up, down>>

RunningPc == {"boot", "acked", "report_b", "report_t", "log", "signals",
              "watch", "loop", "handler"}
ChildPc   == RunningPc \cup {"none", "zombie", "gone"}

DaemonPc  == {"fork", "ack", "timer_b", "timer_t", "enter", "poll", "dispatch",
              "session", "drain", "probe", "answer", "unfit", "reap", "retry",
              "signalled", "close", "close_wait", "exited"}

Live(p)      == pc[p] \in RunningPc

\* kill(pid, 0) == 0
PidAssumed(p) == pc[p] # "none"
PidExists(p)  == pc[p] \notin {"none", "gone"}

\* What is left of a process that exits: with SIGCHLD ignored the kernel reaps
\* it at once, otherwise it stays a zombie until somebody waits for it.
Corpse == IF SigchldIgnored THEN "gone" ELSE "zombie"

Happens(kind) == kind \in Faults /\ events < MaxEvents /\ events' = events + 1

\* kill(pid, SIGTERM) for every process of the set S.
SigTerm(S) ==
    /\ pc' = [p \in Proc |-> IF p \in S /\ Live(p) /\ mask[p] = "default"
                             THEN Corpse ELSE pc[p]]
    /\ term' = [p \in Proc |-> term[p] \/ (p \in S /\ Live(p) /\ mask[p] # "default")]

\* The daemon's read() of p's pipe returns w: a word, or end of file, which
\* leaves the caller's unsigned long as it was.
ReadUp(p, w) ==
    \/ up[p] # <<>> /\ w = Head(up[p]) /\ up' = [up EXCEPT ![p] = Tail(@)]
    \/ up[p] = <<>> /\ ~Live(p) /\ w \in Garbage /\ UNCHANGED up

\* Nobody can be writing to p's pipe any more, or nothing has been written yet.
NothingToRead(p) == up[p] = <<>> /\ Live(p)

KernelTypeOK ==
    /\ pc \in [Proc -> ChildPc]
    /\ mask \in [Proc -> {"default", "blocked", "signalfd"}]
    /\ term \in [Proc -> BOOLEAN]
    /\ up \in [Proc -> Seq(Word)]
    /\ down \in [Proc -> Seq(Word)]
    /\ dpc \in DaemonPc
    /\ events \in 0 .. MaxEvents

KernelInit ==
    /\ pc = [p \in Proc |-> "none"]
    /\ mask = [p \in Proc |-> "default"]
    /\ term = [p \in Proc |-> FALSE]
    /\ up = [p \in Proc |-> <<>>]
    /\ down = [p \in Proc |-> <<>>]
    /\ dpc = "fork"
    /\ events = 0
=============================================================================
