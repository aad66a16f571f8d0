---------------------------- MODULE Supervision -----------------------------
(***************************************************************************)
(* The daemon and its two helpers together, over the kernel they share.    *)
(***************************************************************************)
EXTENDS Reportmand, Children, FiniteSets

vars == <<kernelVars, events, daemonVars>>

Init == KernelInit /\ DaemonInit

\* The health timer expires again and again; clients come when they like.
DaemonPoll == \E outside \in SUBSET {"client", "tick"} : Poll(outside)

Daemon == DaemonPoll \/ DaemonStep \/ DaemonEvent

Helper(p) ==
    /\ ChildStep(p) \/ ChildEvent(p)
    /\ UNCHANGED <<loopVars, rosterVars, timerVars, endVars>>

\* A helper that runs on with SIGTERM blocked and no signalfd to read it from.
Deaf(p) == pc[p] \in {"watch", "loop", "handler"} /\ mask[p] = "blocked"

\* The daemon has told such a helper to end and waits for it.
WaitsForDeaf == dpc \in {"reap", "signalled", "close_wait"} /\ \E p \in Proc : Deaf(p)

\* The daemon has exited, whatever helpers remain, or waits in vain.
Terminated == (dpc = "exited" \/ WaitsForDeaf) /\ UNCHANGED vars

Next == Daemon \/ (\E p \in Proc : Helper(p)) \/ Terminated

\* Each process is scheduled: a step that stays possible is taken. The health
\* timer is periodic, so one of the polls finds it expired (strong fairness:
\* poll() is left and entered again). Nothing is assumed of the environment's
\* events, except that a client's session comes to its end.
HelperStep(p) == ChildStep(p) /\ UNCHANGED <<loopVars, rosterVars, timerVars, endVars>>

Fairness ==
    /\ WF_vars(DaemonPoll)
    /\ WF_vars(DaemonStep)
    /\ SF_vars(Poll({"tick"}))
    /\ \A p \in Proc : WF_vars(HelperStep(p))

Spec == Init /\ [][Next]_vars /\ Fairness

-----------------------------------------------------------------------------
(* Safety.                                                                 *)

\* Every variable holds what the code can put there: in particular no helper
\* is started more often than the incarnations max_retries allows.
TypeOK == KernelTypeOK /\ DaemonTypeOK

\* Two copies of a helper never run side by side, and whatever a helper is
\* replaced by, its predecessor has been waited for: kill, waitpid and fork in
\* __health_probe_child_process() leave neither a double nor a zombie behind.
SoleLive ==
    \A p \in Proc :
        /\ Live(p) => p[2] = cur[p[1]]
        /\ p[2] < cur[p[1]] => pc[p] = "gone"

\* retries follows the incarnations one to one, and the daemon gives up only
\* over a helper that has been restarted max_retries + 1 times.
RestartBudget ==
    /\ \A c \in Child :
        \/ cur[c] = retries[c] + 1
        \/ cur[c] = retries[c] /\ who = c /\ dpc \in {"fork", "exited"}
        \/ cur[c] = 0 /\ retries[c] = 0
    /\ cause = "retries" => \E c \in Child : cur[c] = MaxRetries + 2

\* One fault costs at most one restart; a SIGTERM to the group, which can take
\* both helpers while the daemon is still on its way to poll(), costs two.
RestartsArePaid ==
    retries["fm"] + retries["mon"] <= events + (IF dterm THEN 1 ELSE 0)

\* Whenever the loop may serve a client, the timer ids it would report were
\* read from the present fm, and if that one is running they are its backup id
\* and its transfer id, in this order (post_proc_launch after a restart).
TimersFresh ==
    dpc \in {"poll", "dispatch", "session", "drain"} =>
        /\ backup_timer.inc = cur["fm"] /\ transfer_timer.inc = cur["fm"]
        /\ Live(Now("fm")) => backup_timer.word = "BT" /\ transfer_timer.word = "TT"

Probes(p)  == {k \in DOMAIN down[p] : down[p][k] = "PROBE"}
Answers(p) == {k \in DOMAIN up[p] : up[p][k] = "ACK"}

Unanswered(p) == Cardinality(Probes(p)) + Cardinality(Answers(p))

\* Probes and answers stay paired: while the daemon waits for a running
\* helper's answer there is exactly one probe or answer under way, at any other
\* time in the loop there is none, so no answer counts for a later probe. (A
\* PANIC can pass for an answer: that of a helper whose signalfd() failed, which
\* is Deaf, and that of one whose log or inotify failed, which works on.)
ProbesPaired ==
    dpc \in {"poll", "dispatch", "session", "drain", "probe", "answer"} =>
        \A c \in Child : Live(Now(c)) /\ ~Deaf(Now(c)) =>
            Unanswered(Now(c)) = IF dpc = "answer" /\ who = c THEN 1 ELSE 0

\* After SIGTERM the daemon exits with no helper left, running or zombie, even
\* where each waitpid(0) reaps only one: both __kill_children() are needed.
SignalExitReapsAll ==
    dpc = "exited" /\ cause = "signal" => \A p \in Proc : ~PidExists(p)

\* Every end that goes through __clean_close() has told each helper that is
\* still running to terminate.
OrderlyExitSignalsAll ==
    dpc = "exited" /\ cause \in {"signal", "client", "panic"} =>
        \A p \in Proc : Live(p) => term[p]

\* A helper that dies under the daemon's hands never takes the daemon with it:
\* __current_process is set at every write to a helper that the loop makes, so
\* __handle_sigpipe() can only crash in a client's session.
HelperNeverCrashesDaemon ==
    [][cause' = "segv" => cause = "segv" \/ dpc = "session"]_vars

\* A PANIC that the loop itself reads, by whichever of its four reads and in
\* whatever order pipes, words and restarts come, makes the daemon close. Only
\* the answer to a probe is not looked at in this way: there it is lost.
PanicIsObeyed ==
    [][\A p \in Proc :
          /\ dpc # "answer"
          /\ up[p] # <<>> /\ Head(up[p]) = "PANIC"
          /\ Len(up'[p]) < Len(up[p])
          => cause' = "panic"]_vars

-----------------------------------------------------------------------------
(* Liveness.                                                               *)

\* SIGTERM ends the daemon, whatever it was doing and whatever its helpers do,
\* unless it comes to wait for a helper whose signalfd() has failed.
ShutdownCompletes == dterm ~> (dpc = "exited" \/ WaitsForDeaf)

Running(c) == cur[c] > 0 /\ Live(Now(c))

\* A helper that has died is replaced, or the daemon ends, or waits as above.
DeadChildReplaced ==
    \A c \in Child : (dpc = "poll" /\ ~Running(c))
                        ~> (Running(c) \/ dpc = "exited" \/ WaitsForDeaf)

-----------------------------------------------------------------------------
(* The daemon and its helpers do what Roster says.                         *)

Ending == {"signalled", "close", "close_wait", "exited"}

RoleState == [c \in Child |-> IF cur[c] = 0 THEN "vacant"
                              ELSE IF Running(c) THEN "running" ELSE "dead"]

Over == dpc \in Ending

Promised == INSTANCE Roster WITH
    Role   <- Child,
    First  <- "fm",
    Limit  <- MaxRetries + 2,
    state  <- RoleState,
    starts <- cur,
    over   <- Over

\* One process in each role, replaced only when dead, so many times and no more,
\* and none started on the way out: the spawns, probes, waits and retry counts
\* of reportmand.c step for step implement Roster.
KeepsRoster == Promised!Spec

-----------------------------------------------------------------------------
(* What the documentation says and the code does not do.                   *)

\* The daemon never ends with a helper running that it has not told to end.
NoHelperAbandoned ==
    dpc = "exited" => \A p \in Proc : Live(p) => term[p]
=============================================================================
