----------------------------- MODULE Singleton ------------------------------
(***************************************************************************)
(* How a reportmand becomes the daemon: it binds the port, or asks lsof    *)
(* who has it, and by its options gives up, kills that process, or kills   *)
(* it and takes its place; then it daemonizes, starts its helpers and      *)
(* enters the loop, until a signal or a client's close ends it.            *)
(***************************************************************************)
EXTENDS ClientSession

VARIABLES
    mode,     \* --close, --force or neither; absent if it is never run
    gen,      \* how often it has forked itself into the background
    found,    \* what d_acquire_singleton() returned
    term,     \* SIGTERM is pending
    helpers,  \* its reportman_fm and reportman_mon: whether they were told to end
    left,     \* how many of them it has not waited for
    deaf,     \* how many of those have no signalfd and never see a SIGTERM
    why       \* why it left its loop, or ended before

Mode == {"plain", "force", "close", "absent"}

helperVars == <<helpers, left, deaf>>
daemonVars == <<mode, gen, found, term, helperVars, why>>

Loop == {"poll", "probe", "select", "read", "reply", "bye", "hangup",
         "told", "closing", "reap", "release"}
Pc == {"bind", "lsof", "decide", "rebind", "acquired", "boot", "dying", "exited"} \cup Loop

\* BIND_FAILED, IS_SINGLETON, or the first pid lsof names. The code has the same
\* value for IS_SINGLETON and for a popen() that failed.
BIND_FAILED  == <<"failed">>
IS_SINGLETON == <<"singleton">>
POPEN_FAILED == <<"popen">>
DaemonPid(s, n) == <<"reportmand", s, n>>
ClientPid(c)    == <<"reportmanc", c>>
Pid == {DaemonPid(s, n) : s \in Starter, n \in 0 .. 2} \cup {ClientPid(c) : c \in Client}

Cause == {"none", "refused", "stopped", "signal", "client", "panic", "fault"}

SingletonTypeOK ==
    /\ pc \in [Starter -> Pc]
    /\ gen \in [Starter -> 0 .. 2]
    /\ found \in [Starter -> Pid \cup {BIND_FAILED, IS_SINGLETON, POPEN_FAILED}]
    /\ term \in [Starter -> BOOLEAN]
    /\ helpers \in [Starter -> {"none", "running", "told"}]
    /\ left \in [Starter -> 0 .. 2]
    /\ deaf \in [Starter -> 0 .. 2]
    /\ why \in [Starter -> Cause]

SingletonInit ==
    /\ pc = [s \in Starter |-> "bind"]
    /\ gen = [s \in Starter |-> 0]
    /\ found = [s \in Starter |-> BIND_FAILED]
    /\ term = [s \in Starter |-> FALSE]
    /\ helpers = [s \in Starter |-> "none"]
    /\ left = [s \in Starter |-> 0]
    /\ deaf = [s \in Starter |-> 0]
    /\ why = [s \in Starter |-> "none"]

Goes(s, next) == pc' = [pc EXCEPT ![s] = next]
Dies(s, cause) == Goes(s, "dying") /\ why' = [why EXCEPT ![s] = cause]

-----------------------------------------------------------------------------
(* d_acquire_singleton() and __get_other_pid().                            *)

\* 0, the value of IS_SINGLETON.
Acquired(result) == result \in {IS_SINGLETON, POPEN_FAILED}

\* bind() and listen(), some time after the options are read. If the port is
\* taken lsof is asked for the process.
Bind(s) ==
    /\ pc[s] = "bind"
    /\ mode[s] # "absent"
    /\ IF PortFree
       THEN Listen(s) /\ found' = [found EXCEPT ![s] = IS_SINGLETON] /\ Goes(s, "decide")
       ELSE Goes(s, "lsof") /\ UNCHANGED <<portVars, found>>
    /\ UNCHANGED <<sessionVars, clientVars, faults, mode, gen, term, helperVars, why>>

\* The processes with a socket on the port: the listener and connected clients.
Users == {DaemonPid(s, gen[s]) : s \in Starter \cap {listener}}
         \cup {ClientPid(c) : c \in {d \in Client : cend[d] = "open" /\ eof[d] \notin {"rst", "broken"}}}

\* lsof lists what it sees in the order of the pids, which is any; without it, or
\* when it finds nothing, pclose() returns no success. popen() may fail. The list
\* is grown from a pointer that was never set: realloc() takes it, or aborts.
Lsof(s) ==
    /\ pc[s] = "lsof"
    /\ \/ /\ \E pid \in Users : found' = [found EXCEPT ![s] = pid]
          /\ Goes(s, "decide")
          /\ UNCHANGED <<why, faults>>
       \/ /\ Users # {}
          /\ Dies(s, "fault")
          /\ UNCHANGED <<found, faults>>
       \/ /\ Users = {}
          /\ found' = [found EXCEPT ![s] = BIND_FAILED]
          /\ Goes(s, "decide")
          /\ UNCHANGED <<why, faults>>
       \/ /\ Fault
          /\ \E result \in {BIND_FAILED, POPEN_FAILED} : found' = [found EXCEPT ![s] = result]
          /\ Goes(s, "decide")
          /\ UNCHANGED why
    /\ UNCHANGED <<portVars, sessionVars, clientVars, mode, gen, term, helperVars>>

-----------------------------------------------------------------------------
(* __acquire_singleton() and __force_singleton().                          *)

\* SIGTERM: blocked and pending in the loop, deadly before it.
Signalled(p) ==
    /\ term' = [term EXCEPT ![p] = TRUE]
    /\ IF pc[p] \in Loop \cup {"dying", "exited"} THEN UNCHANGED why
       ELSE why' = [why EXCEPT ![p] = "stopped"]

\* __kill_pid(): s goes on to next, and what is left of pc after that is rest.
\* A process that has forked itself away or ended since may be a zombie, which
\* is killed with success, or not be there (ESRCH), or somebody else's (EPERM);
\* either is fatal to s.
Kill(s, pid, next) ==
    LET Struck(p) == pc' = [pc EXCEPT ![s] = next,
                                      ![p] = IF @ \in Loop \cup {"dying", "exited"}
                                             THEN @ ELSE "dying"]
    IN
    \/ \E p \in Starter \ {s} :
        /\ pid = DaemonPid(p, gen[p]) /\ pc[p] # "exited"
        /\ Struck(p) /\ Signalled(p)
        /\ UNCHANGED <<portVars, cpc>>
    \/ \E c \in Client :
        /\ pid = ClientPid(c) /\ cpc[c] \in {"write", "read"}
        /\ ClientEnds(c, "killed")
        /\ Goes(s, next)
        /\ UNCHANGED <<term, why>>
    \/ /\ \A p \in Starter \ {s} : pid = DaemonPid(p, gen[p]) => pc[p] = "exited"
       /\ \A c \in Client : pid = ClientPid(c) => cpc[c] \notin {"write", "read"}
       /\ Goes(s, next)
       /\ UNCHANGED <<portVars, cpc, term, why>>
    \/ Dies(s, "refused") /\ UNCHANGED <<portVars, cpc, term>>

\* --close: whoever was found is told to end, and that is all.
DecideClose(s) ==
    /\ pc[s] = "decide"
    /\ mode[s] = "close"
    /\ IF found[s] \in Pid THEN Kill(s, found[s], "dying")
       ELSE Goes(s, "dying") /\ UNCHANGED <<portVars, cpc, term, why>>
    /\ UNCHANGED <<sessionVars, script, sent, printed, faults, mode, gen, found, helperVars>>

\* The first, the one that is refused, and the one that is told to use force.
Decide(s) ==
    /\ pc[s] = "decide"
    /\ mode[s] # "close"
    /\ \/ /\ Acquired(found[s])
          /\ Goes(s, "acquired")
          /\ UNCHANGED <<portVars, cpc, term, why>>
       \/ /\ found[s] = BIND_FAILED \/ (found[s] \in Pid /\ mode[s] = "plain")
          /\ Dies(s, "refused")
          /\ UNCHANGED <<portVars, cpc, term>>
       \/ /\ found[s] \in Pid
          /\ mode[s] = "force"
          /\ Kill(s, found[s], "rebind")
    /\ UNCHANGED <<sessionVars, script, sent, printed, faults, mode, gen, found, helperVars>>

\* Variant: the second try is not looked at.
RetryUnchecked(s) ==
    /\ pc[s] = "rebind"
    /\ IF PortFree THEN Listen(s) ELSE UNCHANGED portVars
    /\ found' = [found EXCEPT ![s] = IS_SINGLETON]
    /\ Goes(s, "acquired")
    /\ UNCHANGED <<sessionVars, clientVars, faults, mode, gen, term, helperVars, why>>

\* sleep(1), in which the others may do much or little, and one more try. lsof is
\* asked again if that fails, but only whether popen() did counts now.
Retry(s) ==
    /\ pc[s] = "rebind"
    /\ \/ /\ Listen(s)
          /\ found' = [found EXCEPT ![s] = IS_SINGLETON]
          /\ Goes(s, "acquired")
          /\ UNCHANGED <<faults, why>>
       \/ /\ ~PortFree
          /\ Dies(s, "refused")
          /\ UNCHANGED <<portVars, faults, found>>
       \/ /\ ~PortFree
          /\ Fault
          /\ found' = [found EXCEPT ![s] = POPEN_FAILED]
          /\ Goes(s, "acquired")
          /\ UNCHANGED <<portVars, why>>
    /\ UNCHANGED <<sessionVars, clientVars, mode, gen, term, helperVars>>

-----------------------------------------------------------------------------
(* From the launcher to the loop, and out of it.                           *)

\* Variant: one fork more.
ForkAgain(s) ==
    /\ pc[s] = "acquired"
    /\ gen[s] <= 2
    /\ gen' = [gen EXCEPT ![s] = @ + 1]
    /\ UNCHANGED <<pc, portVars, sessionVars, clientVars, faults, mode, found, term,
                   helperVars, why>>

\* become_daemon(): twice, the parent exits and the child goes on.
Fork(s) ==
    /\ pc[s] = "acquired"
    /\ gen[s] < 2
    /\ gen' = [gen EXCEPT ![s] = @ + 1]
    /\ UNCHANGED <<pc, portVars, sessionVars, clientVars, faults, mode, found, term,
                   helperVars, why>>

\* In the background, or in the foreground if so asked, the helpers start.
SpawnHelpers(s) ==
    /\ pc[s] = "acquired"
    /\ gen[s] \in {0, 2}
    /\ helpers' = [helpers EXCEPT ![s] = "running"]
    /\ left' = [left EXCEPT ![s] = 2]
    /\ Goes(s, "boot")
    /\ UNCHANGED <<portVars, sessionVars, clientVars, faults, mode, gen, found, term, deaf, why>>

\* r_initialize_signals() of a helper: SIGTERM is blocked, then signalfd() fails.
Deafen(s) ==
    /\ pc[s] \in {"boot", "poll"}
    /\ deaf[s] < left[s]
    /\ Fault
    /\ deaf' = [deaf EXCEPT ![s] = @ + 1]
    /\ UNCHANGED <<pc, portVars, sessionVars, clientVars, mode, gen, found, term, helpers, left, why>>

EnterLoop(s) ==
    /\ pc[s] = "boot"
    /\ Goes(s, "poll")
    /\ UNCHANGED <<portVars, sessionVars, clientVars, faults, daemonVars>>

\* A deaf helper that misses a probe is killed and waited for, by its pid.
ProbeHangs(s) ==
    /\ pc[s] = "poll"
    /\ deaf[s] > 0
    /\ Goes(s, "probe")
    /\ UNCHANGED <<portVars, sessionVars, clientVars, faults, daemonVars>>

\* kill(0, SIGTERM)
TellChildren(s) == helpers' = [helpers EXCEPT ![s] = "told"]

\* A wait that no child will end. With SIGCHLD ignored, as become_daemon() has
\* it, waitpid(0) returns when there is no child any more; else for each one.
WaitsForDeaf(s) ==
    /\ deaf[s] > 0
    /\ \/ pc[s] = "probe"
       \/ pc[s] \in {"told", "reap"} /\ (gen[s] = 2 \/ left[s] = deaf[s])

\* waitpid(0)
WaitForChild(s) ==
    /\ ~WaitsForDeaf(s)
    /\ left' = [left EXCEPT ![s] = IF gen[s] = 2 \/ @ = 0 THEN 0 ELSE @ - 1]

\* The signal is the first thing the loop looks at; __kill_children() is called
\* here and once more by __clean_close().
HandleSignal(s) ==
    /\ \/ /\ pc[s] = "poll" /\ term[s]
          /\ TellChildren(s)
          /\ why' = [why EXCEPT ![s] = "signal"]
          /\ Goes(s, "told")
          /\ UNCHANGED left
       \/ /\ pc[s] = "told"
          /\ WaitForChild(s)
          /\ Goes(s, "closing")
          /\ UNCHANGED <<helpers, why>>
    /\ UNCHANGED <<portVars, sessionVars, clientVars, faults, mode, gen, found, term, deaf>>

\* Variant: the port is given back first.
SocketFirst(s) ==
    /\ \/ pc[s] = "closing" /\ StopsListening(s, {}) /\ Goes(s, "release") /\ UNCHANGED helperVars
       \/ pc[s] = "release" /\ TellChildren(s) /\ Goes(s, "reap") /\ UNCHANGED <<portVars, left, deaf>>
       \/ pc[s] = "reap" /\ WaitForChild(s) /\ Goes(s, "dying") /\ UNCHANGED <<portVars, helpers, deaf>>
    /\ UNCHANGED <<sessionVars, clientVars, faults, mode, gen, found, term, why>>

\* The children are told to end, one wait for them, and the port is given back.
CleanClose(s) ==
    /\ \/ pc[s] = "closing" /\ TellChildren(s) /\ Goes(s, "reap") /\ UNCHANGED <<portVars, left, deaf>>
       \/ pc[s] = "reap" /\ WaitForChild(s) /\ Goes(s, "release") /\ UNCHANGED <<portVars, helpers, deaf>>
       \/ pc[s] = "release" /\ StopsListening(s, {}) /\ Goes(s, "dying") /\ UNCHANGED helperVars
    /\ UNCHANGED <<sessionVars, clientVars, faults, mode, gen, found, term, why>>

\* The end of a process closes its sockets; its helpers do not have them.
Exit(s) ==
    /\ pc[s] = "dying"
    /\ StopsListening(s, {serving[s]} \cap Client)
    /\ serving' = [serving EXCEPT ![s] = "nobody"]
    /\ Goes(s, "exited")
    /\ UNCHANGED <<reply, close, pipe, clientVars, faults, daemonVars>>

\* From outside: somebody signals the daemon; or it gives up on a helper, or on
\* a call that failed.
Stop(s) ==
    /\ pc[s] \in Loop \cup {"acquired", "boot"}
    /\ Fault
    /\ Signalled(s)
    /\ Goes(s, IF pc[s] \in Loop THEN pc[s] ELSE "dying")
    /\ UNCHANGED <<portVars, sessionVars, clientVars, mode, gen, found, helperVars>>

GiveUp(s) ==
    /\ pc[s] \in {"acquired", "boot", "poll"}
    /\ Fault
    /\ Dies(s, "fault")
    /\ UNCHANGED <<portVars, sessionVars, clientVars, mode, gen, found, term, helperVars>>

\* A helper that could not open its log, its signals or inotify says so.
Panic(s) ==
    /\ pc[s] = "poll"
    /\ \/ deaf[s] > 0 /\ UNCHANGED faults
       \/ Fault
    /\ why' = [why EXCEPT ![s] = "panic"]
    /\ Goes(s, "closing")
    /\ UNCHANGED <<portVars, sessionVars, clientVars, mode, gen, found, term, helperVars>>

StarterStep(s) ==
    Lsof(s) \/ DecideClose(s) \/ Decide(s) \/ Retry(s)
    \/ Fork(s) \/ SpawnHelpers(s) \/ EnterLoop(s) \/ HandleSignal(s)
    \/ CleanClose(s) \/ Exit(s)
=============================================================================
