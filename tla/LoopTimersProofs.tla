-------------------------- MODULE LoopTimersProofs --------------------------
(***************************************************************************)
(* Proofs about LoopTimers, for seconds of any length, any number of       *)
(* connections and any dates.  The first of the timers is found by a loop, *)
(* so the inductive invariant says what the loop knows after each entry;   *)
(* what follows from the first date is two lemmas on the relative delay.   *)
(***************************************************************************)
EXTENDS LoopTimers, TLAPS

\* The latest date the loop considers.
Horizon == [tv_sec |-> currentTime.tv_sec + HORIZON, tv_usec |-> 0]

\* timeOut is the first of the dates of the entries up to n, or the horizon.
FirstOf(n) ==
  /\ timeOut # infinite
  /\ timeOut = Horizon \/ \E m \in 1 .. n : timeOut = nextTimeout[m]
  /\ \A m \in 1 .. n : nextTimeout[m] # infinite => InOrder(timeOut, nextTimeout[m])

TimersInv ==
  /\ TypeOK
  /\ stage = "prepare" => currentTime = now /\ FirstOf(i - 1)
  /\ stage = "select" =>
       /\ FirstOf(NMux)
       /\ wakeUp = After(currentTime, relative(timeOut, currentTime))

-----------------------------------------------------------------------------
(* Dates *)

\* addUSec keeps the microseconds of a date within a second.
LEMMA AddUSecType ==
  ASSUME NEW a \in Timeval, NEW t \in Nat
  PROVE  addUSec(a, t) \in Timeval
<1> DEFINE usec == a.tv_usec + t
<1> USE TimerAssumption
<1>1. usec \in Nat /\ a.tv_sec \in Nat
  BY DEF Timeval
<1>2. CASE usec <= USEC
  BY <1>1, <1>2 DEF addUSec, Timeval
<1>3. CASE ~(usec <= USEC)
  <2>1. (usec - 1) \div USEC \in Nat /\ (usec - 1) % USEC \in 0 .. USEC - 1
    BY <1>1, <1>3
  <2> QED
    BY <1>1, <1>3, <2>1 DEF addUSec, Timeval
<1> QED
  BY <1>2, <1>3

\* A date counted from 0.0 has microseconds: the carry leaves a whole second as it is.
LEMMA IdleDateHasUSec ==
  ASSUME NEW t \in Nat \ {0}
  PROVE  addUSec(infinite, t).tv_usec > 0
<1> USE TimerAssumption
<1>1. CASE t <= USEC
  BY <1>1 DEF addUSec, infinite
<1>2. CASE ~(t <= USEC)
  <2>1. (t - 1) % USEC \in 0 .. USEC - 1
    BY <1>2
  <2> QED
    BY <1>2, <2>1 DEF addUSec, infinite
<1> QED
  BY <1>1, <1>2

\* A clock that goes on, by a tick or by the delay of a select(), remains one.
LEMMA TickType ==
  ASSUME NEW t \in Clock
  PROVE  Tick(t) \in Clock
BY TimerAssumption DEF Tick, Clock

\* The delay is at most a second of microseconds, as select() takes it.
LEMMA RelativeType ==
  ASSUME NEW date \in Timeval, NEW current \in Clock
  PROVE  relative(date, current) \in Timeval
BY TimerAssumption DEF relative, Timeval, Clock

LEMMA AfterType ==
  ASSUME NEW t \in Clock, NEW delay \in Timeval
  PROVE  After(t, delay) \in Clock
BY TimerAssumption DEF After, Timeval, Clock

\* The delay never ends before the date it was computed from.
LEMMA NeverEarly ==
  ASSUME NEW date \in Timeval, NEW current \in Clock
  PROVE  InOrder(date, After(current, relative(date, current)))
BY TimerAssumption DEF InOrder, After, relative, Timeval, Clock

\* It ends at most a second after that date, or after the sleep began.
LEMMA LateByASecond ==
  ASSUME NEW date \in Timeval, NEW current \in Clock
  PROVE  LET wake == After(current, relative(date, current))
         IN  \/ InOrder(wake, OneSecondAfter(date))
             \/ InOrder(wake, OneSecondAfter(current))
BY TimerAssumption DEF InOrder, OneSecondAfter, After, relative, Timeval, Clock

\* There is a delay when the date is of a later second, or has microseconds.
LEMMA DelayPositive ==
  ASSUME NEW date \in Timeval, NEW current \in Clock,
         date.tv_sec > current.tv_sec \/ date.tv_usec > 0
  PROVE  After(current, relative(date, current)) # current
<1> DEFINE wake == After(current, relative(date, current))
<1> USE TimerAssumption
<1>1. wake.tv_sec # current.tv_sec \/ wake.tv_usec # current.tv_usec
  BY DEF After, relative, Timeval, Clock
<1> QED
  BY <1>1

LEMMA InOrderTransitive ==
  ASSUME NEW a \in Timeval, NEW b \in Timeval, NEW c \in Timeval,
         InOrder(a, b), InOrder(b, c)
  PROVE  InOrder(a, c)
BY DEF InOrder, Timeval

-----------------------------------------------------------------------------
(* The inductive invariant *)

LEMMA ClockIsDate == Clock \subseteq Timeval
BY TimerAssumption DEF Clock, Timeval

LEMMA InfiniteType == infinite \in Timeval
BY TimerAssumption DEF infinite, Timeval

LEMMA InitInv == Init => TimersInv
BY TimerAssumption, InfiniteType DEF Init, TimersInv, TypeOK, Clock

\* One comparison more, and the date found is the first of one entry more.
LEMMA CompareFirst ==
  ASSUME TimersInv, Compare
  PROVE  FirstOf(i - 1)' /\ timeOut' \in Timeval
<1> USE TimerAssumption DEF Compare
<1>1. /\ FirstOf(i - 1) /\ i \in 1 .. NMux /\ i' - 1 = i
      /\ timeOut \in Timeval /\ nextTimeout \in [Mux -> Timeval]
  BY DEF TimersInv, TypeOK
<1>2. nextTimeout[i] \in Timeval /\ \A m \in 1 .. i : nextTimeout[m] \in Timeval
  BY <1>1 DEF Mux
<1> SUFFICES /\ timeOut' \in Timeval /\ timeOut' # infinite
             /\ timeOut' = Horizon \/ \E m \in 1 .. i : timeOut' = nextTimeout[m]
             /\ \A m \in 1 .. i : nextTimeout[m] # infinite => InOrder(timeOut', nextTimeout[m])
  BY <1>1 DEF FirstOf, Horizon
<1>3. CASE isSooner(nextTimeout[i], timeOut)
  <2>1. timeOut' = nextTimeout[i] /\ timeOut' # infinite /\ InOrder(nextTimeout[i], timeOut)
    BY <1>1, <1>3 DEF isSooner, InOrder, FirstOf
  <2>2. ASSUME NEW m \in 1 .. i, nextTimeout[m] # infinite
        PROVE  InOrder(timeOut', nextTimeout[m])
    <3>1. CASE m = i
      BY <1>2, <2>1, <3>1 DEF InOrder, Timeval
    <3>2. CASE m # i
      <4>1. InOrder(timeOut, nextTimeout[m])
        BY <1>1, <2>2, <3>2 DEF FirstOf
      <4> QED
        BY <1>1, <1>2, <2>1, <4>1, InOrderTransitive
    <3> QED
      BY <3>1, <3>2
  <2> QED
    BY <1>1, <1>2, <2>1, <2>2 DEF FirstOf
<1>4. CASE ~isSooner(nextTimeout[i], timeOut)
  <2>1. timeOut' = timeOut
    BY <1>4
  <2>2. nextTimeout[i] # infinite => InOrder(timeOut, nextTimeout[i])
    BY <1>1, <1>2, <1>4 DEF isSooner, InOrder, Timeval
  <2>3. \A m \in 1 .. i : nextTimeout[m] # infinite => InOrder(timeOut, nextTimeout[m])
    BY <1>1, <2>2 DEF FirstOf
  <2> QED
    BY <1>1, <2>1, <2>3 DEF FirstOf
<1> QED
  BY <1>3, <1>4

\* Every step keeps the invariant.
LEMMA NextInv == TimersInv /\ [Next]_vars => TimersInv'
<1> SUFFICES ASSUME TimersInv, [Next]_vars
             PROVE  TimersInv'
  OBVIOUS
<1> USE TimerAssumption
<1>1. TypeOK
  BY DEF TimersInv
<1>2. CASE Prepare
  <2>1. timeOut' \in Timeval /\ timeOut' # infinite /\ timeOut' = Horizon'
    BY <1>1, <1>2 DEF Prepare, TypeOK, Timeval, Clock, infinite, Horizon
  <2>2. FirstOf(i - 1)'
    BY <1>2, <2>1 DEF Prepare, FirstOf
  <2> QED
    BY <1>1, <1>2, <2>1, <2>2 DEF Prepare, TimersInv, TypeOK
<1>3. CASE Compare
  <2>1. FirstOf(i - 1)' /\ timeOut' \in Timeval
    BY <1>3, CompareFirst
  <2>2. stage' = "prepare" /\ currentTime' = now' /\ i' \in 1 .. NMux + 1
    BY <1>1, <1>3 DEF Compare, TimersInv, TypeOK
  <2> QED
    BY <1>1, <1>3, <2>1, <2>2 DEF Compare, TimersInv, TypeOK
<1>4. CASE EnterSelect
  <2>1. currentTime = now /\ i - 1 = NMux /\ FirstOf(NMux)
    BY <1>1, <1>4 DEF EnterSelect, TimersInv, TypeOK
  <2>2. wakeUp' \in Clock
    BY <1>1, <1>4, RelativeType, AfterType DEF EnterSelect, TypeOK
  <2>3. FirstOf(NMux)'
    BY <1>4, <2>1 DEF EnterSelect, FirstOf, Horizon
  <2> QED
    BY <1>1, <1>4, <2>1, <2>2, <2>3 DEF EnterSelect, TimersInv, TypeOK
<1>5. CASE Pass
  <2>1. now' \in Clock
    BY <1>1, <1>5, TickType DEF Pass, TypeOK
  <2>2. stage = "select" => FirstOf(NMux)'
    BY <1>5 DEF Pass, TimersInv, FirstOf, Horizon
  <2> QED
    BY <1>1, <1>5, <2>1, <2>2 DEF Pass, TimersInv, TypeOK
<1>6. CASE LeaveSelect
  BY <1>1, <1>6 DEF LeaveSelect, TimersInv, TypeOK
<1>7. CASE Serve
  <2>1. \A date \in DatesAfterTimeOut : date \in Timeval
    BY <1>1, AddUSecType, ClockIsDate, InfiniteType DEF DatesAfterTimeOut, TypeOK
  <2>2. nextTimeout' \in [Mux -> Timeval]
    BY <1>1, <1>7, <2>1 DEF Serve, TypeOK
  <2>3. i' \in 1 .. NMux + 1
    BY <1>1, <1>7 DEF Serve, TypeOK
  <2> QED
    BY <1>1, <1>7, <2>2, <2>3 DEF Serve, TimersInv, TypeOK
<1>8. CASE EndServe
  BY <1>1, <1>8 DEF EndServe, TimersInv, TypeOK
<1>9. CASE SetTimer
  <2>1. PICK m \in Mux, date \in { addUSec(now, t) : t \in Timeouts } \cup {infinite} :
          nextTimeout' = [nextTimeout EXCEPT ![m] = date]
    BY <1>9 DEF SetTimer
  <2>2. date \in Timeval
    BY <1>1, AddUSecType, ClockIsDate, InfiniteType DEF TypeOK
  <2>3. nextTimeout' \in [Mux -> Timeval]
    BY <1>1, <2>1, <2>2 DEF TypeOK
  <2> QED
    BY <1>1, <1>9, <2>3 DEF SetTimer, TimersInv, TypeOK
<1>10. CASE UNCHANGED vars
  BY <1>10 DEF vars, TimersInv, TypeOK, FirstOf, Horizon
<1> QED
  BY <1>2, <1>3, <1>4, <1>5, <1>6, <1>7, <1>8, <1>9, <1>10 DEF Next

\* The loop knows the first date at every moment.
THEOREM TimersInvHolds == Spec => []TimersInv
BY InitInv, NextInv, PTL DEF Spec

-----------------------------------------------------------------------------
(* What follows from it *)

\* Every variable keeps its type.
THEOREM TypeOKHolds == Spec => []TypeOK
<1>1. TimersInv => TypeOK
  BY DEF TimersInv
<1> QED
  BY <1>1, TimersInvHolds, PTL

\* The loop sleeps through no timer for more than a second: the first date is before
\* every other, and the sleep ends a second after it at most.
THEOREM SleepsPastNoTimerHolds == Spec => []SleepsPastNoTimer
<1>1. TimersInv => SleepsPastNoTimer
  <2> SUFFICES ASSUME TimersInv, stage = "select",
                      NEW m \in Mux, nextTimeout[m] # infinite
               PROVE  \/ InOrder(wakeUp, OneSecondAfter(nextTimeout[m]))
                      \/ InOrder(wakeUp, OneSecondAfter(currentTime))
    BY DEF SleepsPastNoTimer
  <2>1. /\ InOrder(timeOut, nextTimeout[m]) /\ timeOut \in Timeval /\ nextTimeout[m] \in Timeval
        /\ currentTime \in Clock /\ wakeUp \in Clock
        /\ wakeUp = After(currentTime, relative(timeOut, currentTime))
    BY DEF TimersInv, TypeOK, FirstOf, Mux
  <2>2. \/ InOrder(wakeUp, OneSecondAfter(timeOut))
        \/ InOrder(wakeUp, OneSecondAfter(currentTime))
    BY <2>1, LateByASecond
  <2>3. InOrder(wakeUp, OneSecondAfter(timeOut)) => InOrder(wakeUp, OneSecondAfter(nextTimeout[m]))
    BY <2>1 DEF InOrder, OneSecondAfter, Timeval, Clock
  <2> QED
    BY <2>2, <2>3
<1> QED
  BY <1>1, TimersInvHolds, PTL

\* A sleep that is not cut short ends with a timer to serve: it ends no sooner than the
\* first date.
THEOREM WakesForATimerHolds == Spec => []WakesForATimer
<1>1. TimersInv => WakesForATimer
  <2> SUFFICES ASSUME TimersInv, stage = "select", now = wakeUp
               PROVE  \/ \E m \in Mux : isSooner(nextTimeout[m], now)
                      \/ InOrder(Horizon, now)
    BY DEF WakesForATimer, Horizon
  <2>1. /\ timeOut \in Timeval /\ currentTime \in Clock /\ now \in Clock
        /\ wakeUp = After(currentTime, relative(timeOut, currentTime))
        /\ timeOut # infinite
    BY DEF TimersInv, TypeOK, FirstOf
  <2>2. InOrder(timeOut, now)
    BY <2>1, NeverEarly
  <2>3. CASE timeOut = Horizon
    BY <2>2, <2>3
  <2>4. CASE \E m \in 1 .. NMux : timeOut = nextTimeout[m]
    <3>1. isSooner(timeOut, now)
      BY <2>1, <2>2 DEF isSooner, InOrder
    <3> QED
      BY <2>4, <3>1 DEF Mux
  <2> QED
    BY <2>3, <2>4 DEF TimersInv, FirstOf
<1> QED
  BY <1>1, TimersInvHolds, PTL

\* With nothing outstanding the loop does not spin: the dates set then are never whole
\* seconds.
THEOREM IdleLoopSleepsHolds == Spec => []IdleLoopSleeps
<1>1. TimersInv => IdleLoopSleeps
  <2> DEFINE idle == { addUSec(infinite, t) : t \in IdleTimeouts }
  <2> SUFFICES ASSUME TimersInv, stage = "select",
                      \A m \in Mux : nextTimeout[m] \in {infinite} \cup idle
               PROVE  wakeUp # currentTime
    BY DEF IdleLoopSleeps
  <2>1. /\ timeOut \in Timeval /\ currentTime \in Clock
        /\ wakeUp = After(currentTime, relative(timeOut, currentTime))
        /\ timeOut # infinite
    BY DEF TimersInv, TypeOK, FirstOf
  <2>2. CASE timeOut = Horizon
    <3>1. timeOut.tv_sec > currentTime.tv_sec
      BY <2>1, <2>2, TimerAssumption DEF Horizon, Clock
    <3> QED
      BY <2>1, <3>1, DelayPositive
  <2>3. CASE \E m \in 1 .. NMux : timeOut = nextTimeout[m]
    <3>1. timeOut \in idle
      BY <2>1, <2>3 DEF Mux
    <3>2. timeOut.tv_usec > 0
      BY <3>1, IdleDateHasUSec, TimerAssumption
    <3> QED
      BY <2>1, <3>2, DelayPositive
  <2> QED
    BY <2>2, <2>3 DEF TimersInv, FirstOf
<1> QED
  BY <1>1, TimersInvHolds, PTL

=============================================================================
