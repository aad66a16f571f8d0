------------------------------ MODULE Schedule ------------------------------
(***************************************************************************)
(* The daily schedule of reportman_fm: get_hh_mm_str() turns HH:MM into a  *)
(* time, transfer_at_time() starts a timer for it, the handlers run on top *)
(* of the program, and a poll() they interrupt ends fm, which the daemon   *)
(* starts again.                                                           *)
(*                                                                         *)
(* Time is local time of day, in instants (the seconds of the code). A     *)
(* time_t is kept as its distance from now, so that a behaviour goes on    *)
(* from day to day for ever.                                               *)
(***************************************************************************)
EXTENDS Integers, Sequences

CONSTANTS
    Day,         \* instants of a day
    At,          \* HH:MM of each method, as an instant
    MaxLag,      \* bound: instants between get_hh_mm_str() and timer_settime()
    MaxRetries,  \* child_process_t.max_retries (3 in the code)
    Shifts,      \* by how much local time may be moved (daylight saving)
    MaxEvents    \* bound: crashes and shifts in one behaviour

Method == {"backup", "transfer"}

ASSUME DayAssumption   == Day \in Nat \ {0}
ASSUME AtAssumption    == At \in [Method -> 0 .. (Day - 1)]
ASSUME LagAssumption   == MaxLag \in 0 .. (Day - 1)
ASSUME LimitAssumption == MaxRetries \in Nat /\ MaxEvents \in Nat
ASSUME ShiftAssumption == Shifts \subseteq (1 - Day) .. (Day - 1)

VARIABLES
    tod,      \* the local time of day
    pc,       \* where fm is; down when it has no process, ended with the daemon
    left,     \* how long until the time found for a method, or its next expiry
    armed,    \* the methods whose timer runs
    pending,  \* the methods whose signal has yet to be delivered
    stack,    \* the handlers that run, the innermost first
    retries,  \* child_process_t.retries
    events,   \* how many crashes and shifts have happened
    fired,    \* history: expiries of timers not moved, since the method's time last came
    renewed,  \* history: times found for the method at that very instant
    moved     \* history: local time was moved since the method's time was found

clockVars   == <<tod, left>>
processVars == <<pc, armed, pending, stack>>
historyVars == <<fired, renewed, moved>>
vars == <<clockVars, processVars, retries, events, historyVars>>

Pc == {"down", "find_b", "find_t", "arm_b", "arm_t", "start", "poll", "ended"}

\* The methods whose handler has started and not returned.
Running == {stack[i] : i \in DOMAIN stack}

TypeOK ==
    /\ tod \in 0 .. (Day - 1)
    /\ pc \in Pc
    /\ left \in [Method -> (- MaxLag) .. Day]
    /\ armed \subseteq Method
    /\ pending \subseteq Method
    /\ stack \in Seq(Method) /\ \A i, j \in DOMAIN stack : stack[i] = stack[j] => i = j
    /\ retries \in 0 .. (MaxRetries + 1)
    /\ events \in 0 .. MaxEvents
    /\ fired \in [Method -> Nat]
    /\ renewed \in [Method -> Nat]
    /\ moved \in [Method -> BOOLEAN]

Init ==
    /\ tod \in 0 .. (Day - 1)
    /\ pc = "find_b"
    /\ left = [m \in Method |-> 0]
    /\ armed = {}
    /\ pending = {}
    /\ stack = <<>>
    /\ retries = 0
    /\ events = 0
    /\ fired = [m \in Method |-> 0]
    /\ renewed = [m \in Method |-> 0]
    /\ moved = [m \in Method |-> FALSE]

-----------------------------------------------------------------------------
(* Start-up of fm.                                                         *)

\* Variants: today's time even if it is over; tomorrow's if it is now.
NextTimeToday(m) == At[m] - tod
NextTimeLater(m) == IF At[m] <= tod THEN At[m] - tod + Day ELSE At[m] - tod

\* get_hh_mm_str(): today's HH:MM, or tomorrow's when that lies behind; the
\* present instant counts as ahead. mktime() normalises the second time with
\* the offset of the first, so tomorrow is one Day on, also across a shift.
NextTime(m) == IF At[m] < tod THEN At[m] - tod + Day ELSE At[m] - tod

FindTime(m, from, to) ==
    /\ pc = from
    /\ stack = <<>>
    /\ left' = [left EXCEPT ![m] = NextTime(m)]
    /\ moved' = [moved EXCEPT ![m] = FALSE]
    /\ renewed' = [renewed EXCEPT ![m] = IF tod = At[m] THEN @ + 1 ELSE @]
    /\ pc' = to
    /\ UNCHANGED <<tod, armed, pending, stack, retries, events, fired>>

\* transfer_at_time(): handler, timer_create() and timer_settime(). A time that
\* has passed meanwhile expires at once.
Arm(m, from, to) ==
    /\ pc = from
    /\ stack = <<>>
    /\ armed' = armed \cup {m}
    /\ pc' = to
    /\ UNCHANGED <<clockVars, pending, stack, retries, events, historyVars>>

\* The handshake and the set-up of the poll loop.
EnterLoop ==
    /\ pc = "start"
    /\ stack = <<>>
    /\ pc' = "poll"
    /\ UNCHANGED <<clockVars, armed, pending, stack, retries, events, historyVars>>

StartUp ==
    \/ FindTime("backup", "find_b", "find_t")
    \/ FindTime("transfer", "find_t", "arm_b")
    \/ Arm("backup", "arm_b", "arm_t")
    \/ Arm("transfer", "arm_t", "start")
    \/ EnterLoop

-----------------------------------------------------------------------------
(* The timers and their handlers.                                          *)

Found == CASE pc \in {"down", "find_b", "ended"} -> {}
           [] pc = "find_t"                      -> {"backup"}
           [] OTHER                              -> Method

\* An instant passes. The kernel does not let it pass over a timer that is due,
\* and no more than MaxLag of them pass between finding a time and arming it.
Tick ==
    LET now == (tod + 1) % Day IN
    /\ pc # "ended"
    /\ \A m \in Found : left[m] > IF m \in armed THEN 0 ELSE - MaxLag
    /\ tod' = now
    /\ left' = [m \in Method |-> IF m \in Found THEN left[m] - 1 ELSE left[m]]
    /\ fired' = [m \in Method |-> IF At[m] = now THEN 0 ELSE fired[m]]
    /\ renewed' = [m \in Method |-> IF At[m] = now THEN 0 ELSE renewed[m]]
    /\ UNCHANGED <<processVars, retries, events, moved>>

\* Variant: twice a day.
HalfDay == Day \div 2

\* D_INTERVAL: the timer goes on from the time it was set for.
Interval == Day

\* Variant: the timer is not periodic.
ExpireOnce(m) ==
    /\ m \in armed
    /\ left[m] <= 0
    /\ armed' = armed \ {m}
    /\ pending' = pending \cup {m}
    /\ fired' = [fired EXCEPT ![m] = IF moved[m] THEN @ ELSE @ + 1]
    /\ UNCHANGED <<tod, left, pc, stack, retries, events, renewed, moved>>

\* A timer expires: its signal becomes pending and the timer runs on.
Expire(m) ==
    /\ m \in armed
    /\ left[m] <= 0
    /\ left' = [left EXCEPT ![m] = @ + Interval]
    /\ pending' = pending \cup {m}
    /\ fired' = [fired EXCEPT ![m] = IF moved[m] THEN @ ELSE @ + 1]
    /\ UNCHANGED <<tod, pc, armed, stack, retries, events, renewed, moved>>

\* The handler starts, on top of the program or of the other handler. Its own
\* signal waits until it has returned (no SA_NODEFER, empty sa_mask).
Deliver(m) ==
    /\ m \in pending
    /\ m \notin Running
    /\ pending' = pending \ {m}
    /\ stack' = <<m>> \o stack
    /\ UNCHANGED <<clockVars, pc, armed, retries, events, historyVars>>

NoProcess(next) ==
    /\ pc' = next
    /\ left' = [m \in Method |-> 0]
    /\ armed' = {}
    /\ pending' = {}
    /\ stack' = <<>>

\* The handler returns. If it interrupted poll(), that fails with EINTR and fm
\* exits, but for signals that are delivered first; if it interrupted the work
\* of a turn, or the start-up, that goes on.
HandlerReturns ==
    /\ stack # <<>>
    /\ \/ /\ stack' = Tail(stack)
          /\ UNCHANGED <<left, pc, armed, pending>>
       \/ /\ pc = "poll"
          /\ Len(stack) = 1
          /\ pending = {}
          /\ NoProcess("down")
    /\ UNCHANGED <<tod, retries, events, historyVars>>

-----------------------------------------------------------------------------
(* The daemon and the environment.                                         *)

\* __health_probe_child_process() finds fm gone: it is started again, or the
\* daemon ends when retries++ > max_retries.
Restart ==
    /\ pc = "down"
    /\ IF retries > MaxRetries
       THEN pc' = "ended" /\ UNCHANGED retries
       ELSE pc' = "find_b" /\ retries' = retries + 1
    /\ UNCHANGED <<clockVars, armed, pending, stack, events, historyVars>>

\* fm dies, or is killed for a probe it did not answer in time.
Crash ==
    /\ pc \notin {"down", "ended"}
    /\ events < MaxEvents
    /\ events' = events + 1
    /\ NoProcess("down")
    /\ UNCHANGED <<tod, retries, historyVars>>

\* Local time is moved. Timers run on CLOCK_REALTIME and do not follow.
Shift(d) ==
    /\ pc # "ended"
    /\ events < MaxEvents
    /\ events' = events + 1
    /\ tod' = (tod + d) % Day
    /\ moved' = [m \in Method |-> TRUE]
    /\ UNCHANGED <<left, processVars, retries, fired, renewed>>

\* The daemon has given up and taken the schedule with it.
Ended == pc = "ended" /\ UNCHANGED vars

Fm == StartUp \/ HandlerReturns \/ \E m \in Method : Deliver(m)

Next ==
    \/ Fm
    \/ \E m \in Method : Expire(m)
    \/ Tick
    \/ Restart
    \/ Crash
    \/ \E d \in Shifts : Shift(d)
    \/ Ended

\* Time passes, due timers expire, fm is scheduled, a handler returns and the
\* periodic health probe comes. Nothing is assumed of crashes and shifts.
Fairness ==
    /\ WF_vars(Tick)
    /\ WF_vars(StartUp)
    /\ WF_vars(HandlerReturns)
    /\ WF_vars(Restart)
    /\ \A m \in Method : WF_vars(Expire(m)) /\ WF_vars(Deliver(m))

Spec == Init /\ [][Next]_vars /\ Fairness

-----------------------------------------------------------------------------
(* Safety.                                                                 *)

\* A running timer is set for its method's time of day, today or tomorrow,
\* whatever restarts came between and however late it was started; only
\* moving local time under it (daylight saving) puts it off. This relates
\* get_hh_mm_str() to the interval of transfer_at_time().
ArmedForItsTime ==
    \A m \in armed :
        moved[m] \/ tod + left[m] \in {At[m] - Day, At[m], At[m] + Day}

\* A transfer runs once for each time of day that comes, and again only for
\* every fm that was started within that very instant, for which
\* get_hh_mm_str() takes the present instant for the next one.
OncePerTime ==
    \A m \in Method : fired[m] <= 1 + renewed[m]

\* No time of day passes over a running timer: when the instant ends, the
\* timer that runs has expired in it or in the hands of an earlier fm. What
\* is missed is only what comes while fm has no timer.
NoTimeMissed ==
    [][\A m \in armed :
          tod = At[m] /\ tod' # tod /\ ~moved[m] /\ ~moved'[m] => fired[m] > 0]_vars

-----------------------------------------------------------------------------
(* Liveness.                                                               *)

\* Backups and transfers come again and again for as long as the daemon has
\* not given up on fm.
ComesAgain ==
    \A m \in Method : (pc # "ended") ~> (m \in Running \/ pc = "ended")

-----------------------------------------------------------------------------
(* What the documentation says and the code does not do.                   *)

\* The schedule has no end: fm is to handle transfers and backups every day.
ScheduleGoesOn == \A m \in Method : []<>(m \in Running)
=============================================================================
