--------------------------- MODULE ScheduleProofs ---------------------------
(***************************************************************************)
(* Proofs about the daily schedule, for every length of the day, any times *)
(* of day, any lag shorter than a day, any shifts of local time, and any   *)
(* number of crashes and restarts.                                         *)
(***************************************************************************)
EXTENDS Schedule, TLAPS

\* A timer runs only for a method whose time this fm has found.
ArmedInv == armed \subseteq Found

\* The time found for a method is its time of day, whether its timer has been
\* started yet or not: ArmedForItsTime from the moment get_hh_mm_str() returns.
TimeInv ==
    \A m \in Found :
        moved[m] \/ tod + left[m] \in {At[m] - Day, At[m], At[m] + Day}

\* The timer of a method has an expiry to come that belongs to the time of day
\* that came last.
Due(m) == m \in Found /\ ~moved[m] /\ left[m] <= 0

\* Each expiry of a time of day is accounted for before it happens: the one of
\* the timer that ran through to it, and one for each time found at the instant.
OnceInv ==
    \A m \in Method :
        /\ fired[m] <= 1 + renewed[m]
        /\ Due(m) => fired[m] <= renewed[m]

\* A timer that has a whole day to go at its method's time has just expired.
ServedInv ==
    \A m \in Found :
        ~moved[m] /\ tod = At[m] /\ left[m] = Day => fired[m] > 0

SInv == TypeOK /\ ArmedInv /\ TimeInv /\ OnceInv /\ ServedInv

USE DayAssumption, AtAssumption, LagAssumption, LimitAssumption, ShiftAssumption

-----------------------------------------------------------------------------
(* Lemmas about local time and the handlers on the stack.                  *)

\* Time of day wraps at the end of the day.
LEMMA Wraps ==
    ASSUME NEW t \in 0 .. (Day - 1)
    PROVE  (t + 1) % Day = IF t + 1 = Day THEN 0 ELSE t + 1
  OBVIOUS

LEMMA Wrapped ==
    ASSUME NEW t \in Int
    PROVE  t % Day \in 0 .. (Day - 1)
  OBVIOUS

\* get_hh_mm_str() finds a time ahead, less than a day away, and the present
\* instant only when it is the time of day asked for.
LEMMA NextTimeAhead ==
    ASSUME TypeOK, NEW m \in Method
    PROVE  /\ NextTime(m) \in 0 .. (Day - 1)
           /\ NextTime(m) = 0 <=> tod = At[m]
           /\ tod + NextTime(m) \in {At[m], At[m] + Day}
  BY DEF TypeOK, NextTime

\* Nothing but methods is ever found.
LEMMA FoundMethods == Found \subseteq Method
  BY DEF Found, Method

\* A handler is started when it does not run yet.
LEMMA PushKeeps ==
    ASSUME NEW m \in Method, stack \in Seq(Method), m \notin Running,
           \A i, j \in DOMAIN stack : stack[i] = stack[j] => i = j
    PROVE  LET s == <<m>> \o stack IN
           s \in Seq(Method) /\ \A i, j \in DOMAIN s : s[i] = s[j] => i = j
  BY DEF Running

LEMMA PopKeeps ==
    ASSUME stack \in Seq(Method), stack # <<>>,
           \A i, j \in DOMAIN stack : stack[i] = stack[j] => i = j
    PROVE  LET s == Tail(stack) IN
           s \in Seq(Method) /\ \A i, j \in DOMAIN s : s[i] = s[j] => i = j
  OBVIOUS

-----------------------------------------------------------------------------
(* Each action, one part of the invariant after the other.                 *)

LEMMA FindTimeKeeps ==
    ASSUME SInv, NEW m \in Method, NEW from \in Pc, NEW to \in Pc,
           FindTime(m, from, to), m = "backup" => from = "find_b" /\ to = "find_t",
           m = "transfer" => from = "find_t" /\ to = "arm_b"
    PROVE  SInv'
  <1> USE DEF SInv, TypeOK, FindTime
  <1>0. Found \subseteq Method
    BY FoundMethods
  <1>1. left' = [left EXCEPT ![m] = NextTime(m)] /\ NextTime(m) \in 0 .. (Day - 1)
        /\ (NextTime(m) = 0 <=> tod = At[m]) /\ tod + NextTime(m) \in {At[m], At[m] + Day}
    BY NextTimeAhead
  <1>2. Found' = Found \cup {m} /\ m \notin armed
    BY DEF Found, Method, Pc, ArmedInv
  <1>3. TypeOK'
    BY <1>1
  <1>4. ArmedInv'
    BY <1>2 DEF ArmedInv
  <1>5. TimeInv'
    BY <1>0, <1>1, <1>2 DEF TimeInv
  <1>6. OnceInv'
    BY <1>0, <1>1, <1>2 DEF OnceInv, Due
  <1>7. ServedInv'
    BY <1>0, <1>1, <1>2 DEF ServedInv
  <1> QED
    BY <1>3, <1>4, <1>5, <1>6, <1>7

LEMMA TickKeeps ==
    ASSUME SInv, Tick
    PROVE  SInv'
  <1> USE DEF SInv, TypeOK, Tick
  <1> DEFINE now == (tod + 1) % Day
  <1>1. now = (IF tod + 1 = Day THEN 0 ELSE tod + 1) /\ now \in 0 .. (Day - 1)
    BY Wraps
  <1>2. Found' = Found /\ Found \subseteq Method
    BY FoundMethods DEF Found, processVars
  <1>3. \A m \in Method : left'[m] = IF m \in Found THEN left[m] - 1 ELSE left[m]
    OBVIOUS
  <1>4. TypeOK'
    <2>1. left' \in [Method -> (- MaxLag) .. Day]
      <3>1. ASSUME NEW m \in Method PROVE left'[m] \in (- MaxLag) .. Day
        <4>1. left[m] \in (- MaxLag) .. Day
          OBVIOUS
        <4>2. m \in Found => left[m] > IF m \in armed THEN 0 ELSE - MaxLag
          OBVIOUS
        <4> QED
          BY <1>3, <4>1, <4>2
      <3> QED
        BY <3>1
    <2> QED
      BY <1>1, <2>1 DEF processVars
  <1>5. ArmedInv'
    BY <1>2 DEF ArmedInv, processVars
  <1>6. TimeInv'
    <2> SUFFICES ASSUME NEW m \in Found, ~moved[m]
                 PROVE  tod' + left'[m] \in {At[m] - Day, At[m], At[m] + Day}
      BY <1>2 DEF TimeInv
    <2>1. tod + left[m] \in {At[m] - Day, At[m], At[m] + Day}
      BY DEF TimeInv
    <2>2. left[m] \in Int /\ left[m] >= 1 - Day /\ left'[m] = left[m] - 1
      BY <1>2, <1>3
    <2>3. At[m] \in 0 .. (Day - 1) /\ tod \in 0 .. (Day - 1) /\ tod' = now
      BY <1>2
    <2> HIDE DEF SInv, TypeOK, Tick, now
    <2> QED
      BY <1>1, <2>1, <2>2, <2>3
  <1>7. OnceInv'
    <2> SUFFICES ASSUME NEW m \in Method
                 PROVE  /\ fired'[m] <= 1 + renewed'[m]
                        /\ Due(m)' => fired'[m] <= renewed'[m]
      BY DEF OnceInv
    <2>1. CASE At[m] = now
      BY <2>1
    <2>2. CASE At[m] # now
      <3>1. Due(m)' => Due(m)
        <4> SUFFICES ASSUME m \in Found, ~moved[m], left'[m] <= 0 PROVE left[m] <= 0
          BY <1>2 DEF Due
        <4>1. tod' + left'[m] \in {At[m] - Day, At[m], At[m] + Day} /\ tod' = now
          BY <1>2, <1>6 DEF TimeInv
        <4>2. left[m] \in Int /\ left'[m] = left[m] - 1 /\ At[m] \in 0 .. (Day - 1)
          BY <1>3
        <4> HIDE DEF SInv, TypeOK, Tick, now
        <4> QED
          BY <1>1, <2>2, <4>1, <4>2
      <3>2. fired'[m] = fired[m] /\ renewed'[m] = renewed[m]
        BY <2>2
      <3> QED
        BY <3>1, <3>2 DEF OnceInv
    <2> QED
      BY <2>1, <2>2
  <1>8. ServedInv'
    BY <1>1, <1>2, <1>3 DEF ServedInv
  <1> QED
    BY <1>4, <1>5, <1>6, <1>7, <1>8

LEMMA ExpireKeeps ==
    ASSUME SInv, NEW m \in Method, Expire(m)
    PROVE  SInv'
  <1> USE DEF SInv, TypeOK, Expire, Interval
  <1>1. Found' = Found /\ m \in Found /\ Found \subseteq Method
    BY FoundMethods DEF Found, ArmedInv
  <1>2. left' = [left EXCEPT ![m] = @ + Day] /\ left[m] + Day \in 1 .. Day
    OBVIOUS
  <1>3. TypeOK'
    BY <1>2
  <1>4. ArmedInv'
    BY <1>1 DEF ArmedInv
  <1>5. TimeInv'
    <2> SUFFICES ASSUME NEW k \in Found, ~moved[k]
                 PROVE  tod + left'[k] \in {At[k] - Day, At[k], At[k] + Day}
      BY <1>1 DEF TimeInv
    <2>1. tod + left[k] \in {At[k] - Day, At[k], At[k] + Day}
      BY DEF TimeInv
    <2>2. left'[k] = IF k = m THEN left[k] + Day ELSE left[k]
      BY <1>1
    <2>3. left[k] \in Int /\ (k = m => left[k] <= 0) /\ At[k] \in 0 .. (Day - 1)
          /\ tod \in 0 .. (Day - 1)
      BY <1>1
    <2> HIDE DEF SInv, TypeOK, Expire
    <2> QED
      BY <2>1, <2>2, <2>3
  <1>6. OnceInv'
    BY <1>1, <1>2 DEF OnceInv, Due
  <1>7. ServedInv'
    BY <1>1, <1>2 DEF ServedInv
  <1> QED
    BY <1>3, <1>4, <1>5, <1>6, <1>7

\* Without a process there is no timer.
LEMMA NoProcessKeeps ==
    ASSUME SInv, NoProcess("down"), UNCHANGED <<tod, retries, historyVars>>,
           events' \in 0 .. MaxEvents
    PROVE  SInv'
  <1> USE DEF SInv, TypeOK, NoProcess, historyVars
  <1>1. Found' = {} /\ armed' = {}
    BY DEF Found
  <1>2. TypeOK'
    BY DEF Pc
  <1>3. OnceInv'
    BY <1>1 DEF OnceInv, Due
  <1> QED
    BY <1>1, <1>2, <1>3 DEF ArmedInv, TimeInv, ServedInv

\* Nothing below touches a timer, and Found only changes with a restart.
LEMMA OthersKeep ==
    ASSUME SInv, TypeOK', ArmedInv', UNCHANGED <<clockVars, historyVars>>,
           Found' = Found
    PROVE  SInv'
  BY DEF SInv, TimeInv, OnceInv, ServedInv, Due, clockVars, historyVars

LEMMA StepKeeps == SInv /\ [Next]_vars => SInv'
  <1> SUFFICES ASSUME SInv, [Next]_vars PROVE SInv'
    OBVIOUS
  <1>0. TypeOK /\ ArmedInv
    BY DEF SInv
  <1>1. CASE FindTime("backup", "find_b", "find_t")
    BY <1>1, FindTimeKeeps DEF Method, Pc
  <1>2. CASE FindTime("transfer", "find_t", "arm_b")
    BY <1>2, FindTimeKeeps DEF Method, Pc
  <1>3. CASE Arm("backup", "arm_b", "arm_t") \/ Arm("transfer", "arm_t", "start") \/ EnterLoop
    <2>1. TypeOK' /\ ArmedInv' /\ Found' = Found /\ UNCHANGED <<clockVars, historyVars>>
      BY <1>0, <1>3 DEF Arm, EnterLoop, TypeOK, ArmedInv, Found, Method, Pc, clockVars, historyVars
    <2> QED
      BY <2>1, OthersKeep
  <1>4. CASE Tick
    BY <1>4, TickKeeps
  <1>5. ASSUME NEW m \in Method, Expire(m) PROVE SInv'
    BY <1>5, ExpireKeeps
  <1>6. ASSUME NEW m \in Method, Deliver(m) PROVE SInv'
    <2>1. stack' \in Seq(Method) /\ \A i, j \in DOMAIN stack' : stack'[i] = stack'[j] => i = j
      BY <1>0, <1>6, PushKeeps DEF Deliver, TypeOK
    <2>2. TypeOK' /\ ArmedInv' /\ Found' = Found /\ UNCHANGED <<clockVars, historyVars>>
      BY <1>0, <1>6, <2>1 DEF Deliver, TypeOK, ArmedInv, Found, clockVars, historyVars
    <2> QED
      BY <2>2, OthersKeep
  <1>7. CASE HandlerReturns
    <2>1. CASE NoProcess("down")
      BY <1>0, <1>7, <2>1, NoProcessKeeps DEF HandlerReturns, TypeOK
    <2>2. CASE stack' = Tail(stack) /\ UNCHANGED <<left, pc, armed, pending>>
      <3>1. stack' \in Seq(Method) /\ \A i, j \in DOMAIN stack' : stack'[i] = stack'[j] => i = j
        BY <1>0, <1>7, <2>2, PopKeeps DEF HandlerReturns, TypeOK
      <3>2. TypeOK' /\ ArmedInv' /\ Found' = Found /\ UNCHANGED <<clockVars, historyVars>>
        BY <1>0, <1>7, <2>2, <3>1
           DEF HandlerReturns, TypeOK, ArmedInv, Found, clockVars, historyVars
      <3> QED
        BY <3>2, OthersKeep
    <2> QED
      BY <1>7, <2>1, <2>2 DEF HandlerReturns
  <1>8. CASE Restart
    <2>1. TypeOK' /\ ArmedInv' /\ Found' = Found /\ UNCHANGED <<clockVars, historyVars>>
      BY <1>0, <1>8 DEF Restart, TypeOK, ArmedInv, Found, Pc, clockVars, historyVars
    <2> QED
      BY <2>1, OthersKeep
  <1>9. CASE Crash
    BY <1>0, <1>9, NoProcessKeeps DEF Crash, TypeOK
  <1>10. ASSUME NEW d \in Shifts, Shift(d) PROVE SInv'
    <2>1. /\ tod' \in 0 .. (Day - 1) /\ Found' = Found /\ Found \subseteq Method
          /\ \A m \in Method : moved'[m]
      BY <1>0, <1>10, Wrapped, FoundMethods DEF Shift, TypeOK, Found, processVars
    <2>2. TypeOK' /\ ArmedInv'
      BY <1>0, <1>10, <2>1 DEF Shift, TypeOK, ArmedInv, processVars
    <2>3. OnceInv'
      BY <1>10, <2>1 DEF SInv, TypeOK, OnceInv, Due, Shift
    <2> QED
      BY <2>1, <2>2, <2>3 DEF SInv, TimeInv, ServedInv
  <1>11. CASE UNCHANGED vars
    <2>1. TypeOK' /\ ArmedInv' /\ Found' = Found /\ UNCHANGED <<clockVars, historyVars>>
      BY <1>0, <1>11 DEF vars, TypeOK, ArmedInv, Found, clockVars, historyVars, processVars
    <2> QED
      BY <2>1, OthersKeep
  <1> QED
    BY <1>1, <1>2, <1>3, <1>4, <1>5, <1>6, <1>7, <1>8, <1>9, <1>10, <1>11
       DEF Next, Fm, StartUp, Ended

LEMMA ScheduleInvariant == Spec => []SInv
  <1>1. Init => SInv
    BY DEF Init, SInv, TypeOK, ArmedInv, TimeInv, OnceInv, ServedInv, Found, Due, Pc
  <1> QED
    BY <1>1, StepKeeps, PTL DEF Spec

-----------------------------------------------------------------------------
(* What follows.                                                           *)

\* Every variable of the schedule holds what the code can put there, however
\* long the daemon runs: no timer is more than a day ahead or MaxLag late, and
\* no handler runs inside itself.
THEOREM ScheduleTypes == Spec => []TypeOK
  <1>1. SInv => TypeOK
    BY DEF SInv
  <1> QED
    BY <1>1, ScheduleInvariant, PTL

\* A running timer of fm is set for the time of day it was asked for.
THEOREM TimersKeepTime == Spec => []ArmedForItsTime
  <1>1. SInv => ArmedForItsTime
    BY DEF SInv, ArmedInv, TimeInv, ArmedForItsTime
  <1> QED
    BY <1>1, ScheduleInvariant, PTL

\* A transfer runs once for a time of day, and once more for each fm started
\* in that instant.
THEOREM FiresOncePerTime == Spec => []OncePerTime
  <1>1. SInv => OncePerTime
    BY DEF SInv, TypeOK, OnceInv, OncePerTime
  <1> QED
    BY <1>1, ScheduleInvariant, PTL

\* The instant of a time of day does not end before the timer that runs for it
\* has expired.
THEOREM NoTimePasses == Spec => NoTimeMissed
  <1>1. SInv /\ [Next]_vars =>
          [\A m \in armed :
              tod = At[m] /\ tod' # tod /\ ~moved[m] /\ ~moved'[m] => fired[m] > 0]_vars
    <2> SUFFICES ASSUME SInv, [Next]_vars, NEW m \in armed, tod = At[m], tod' # tod,
                        ~moved[m], ~moved'[m]
                 PROVE  fired[m] > 0
      OBVIOUS
    <2>1. m \in Found /\ m \in Method
      BY DEF SInv, ArmedInv, TypeOK
    <2>2. CASE Tick
      <3>1. left[m] > 0
        BY <2>1, <2>2 DEF Tick
      <3>2. tod + left[m] \in {At[m] - Day, At[m], At[m] + Day}
        BY <2>1 DEF SInv, TimeInv
      <3>3. left[m] \in Int /\ left[m] <= Day /\ At[m] \in Int
        BY <2>1 DEF SInv, TypeOK
      <3>4. left[m] = Day
        BY <3>1, <3>2, <3>3
      <3> QED
        BY <2>1, <3>4 DEF SInv, ServedInv
    <2>3. CASE \E d \in Shifts : Shift(d)
      BY <2>1, <2>3 DEF Shift
    <2>4. CASE ~Tick /\ ~(\E d \in Shifts : Shift(d))
      BY <2>4 DEF Next, Fm, StartUp, FindTime, Arm, EnterLoop, Deliver, HandlerReturns, Expire,
                  Restart, Crash, Ended, vars, clockVars
    <2> QED
      BY <2>2, <2>3, <2>4
  <1> QED
    BY <1>1, ScheduleInvariant, PTL DEF Spec, NoTimeMissed
=============================================================================
