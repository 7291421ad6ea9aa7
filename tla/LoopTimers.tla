----------------------------- MODULE LoopTimers -----------------------------
(***************************************************************************)
(* How infiniteWaitLoop sleeps: the dates of the encoders' timers, the     *)
(* search for the first of them, the relative delay given to select() and  *)
(* the pass that serves the timers that are due.                           *)
(*                                                                         *)
(* A date is a struct timeval; 0.0 stands for no date at all.  The two     *)
(* loops over the table are taken one entry at a time.  Time passes while  *)
(* the loop sleeps or handles packets, not while it computes the delay.    *)
(***************************************************************************)
EXTENDS Integers

CONSTANTS
  USEC,          \* microseconds in a second: 1000000
  HORIZON,       \* the longest sleep, in seconds: 10000000
  NMux,          \* connections in the table
  Timeouts,      \* what a timer is set to, in microseconds from now
  IdleTimeouts,  \* what one with nothing outstanding is set to, from 0.0
  StartTime,     \* the second in which the program starts
  MaxTime        \* bound: the last second of a behaviour

ASSUME TimerAssumption ==
  /\ USEC \in Nat \ {0} /\ HORIZON \in Nat \ {0} /\ NMux \in Nat
  /\ Timeouts \subseteq Nat /\ IdleTimeouts \subseteq Nat \ {0}
  /\ StartTime \in Nat /\ MaxTime \in Nat

Mux == 1 .. NMux

\* tv_usec may be USEC: addUSec carries only what is more.
Timeval == [tv_sec : Nat, tv_usec : 0 .. USEC]

\* A reading of the clock.
Clock == [tv_sec : Nat, tv_usec : 0 .. USEC - 1]

infinite == [tv_sec |-> 0, tv_usec |-> 0]

VARIABLES
  now,          \* the clock
  nextTimeout,  \* of each encoder
  stage,        \* "prepare", "select", "serve" or "handle"
  i,            \* the entry a pass is at
  currentTime,  \* the loop's reading of the clock
  timeOut,      \* the first date found so far
  wakeUp        \* when select() returns if nothing arrives

vars == <<now, nextTimeout, stage, i, currentTime, timeOut, wakeUp>>

-----------------------------------------------------------------------------
(* utils.c *)

\* True of equal dates as well.
isSooner(a, b) ==
  /\ a # infinite
  /\ \/ b = infinite
     \/ a.tv_sec < b.tv_sec
     \/ a.tv_sec = b.tv_sec /\ a.tv_usec <= b.tv_usec

\* Mutated: no second is carried.
addUSecUncarried(a, t) == [a EXCEPT !.tv_usec = @ + t]

\* Mutated: a whole second is carried too.
addUSecNormalised(a, t) ==
  [tv_sec |-> a.tv_sec + (a.tv_usec + t) \div USEC, tv_usec |-> (a.tv_usec + t) % USEC]

addUSec(a, t) ==
  LET usec == a.tv_usec + t
  IN  IF usec <= USEC THEN [a EXCEPT !.tv_usec = usec]
      ELSE [tv_sec |-> a.tv_sec + (usec - 1) \div USEC,
            tv_usec |-> ((usec - 1) % USEC) + 1]

-----------------------------------------------------------------------------
(* The clock and select() *)

Tick(t) ==
  IF t.tv_usec + 1 = USEC THEN [tv_sec |-> t.tv_sec + 1, tv_usec |-> 0]
  ELSE [t EXCEPT !.tv_usec = @ + 1]

\* The clock once delay has passed.
After(t, delay) ==
  LET usec == t.tv_usec + delay.tv_usec
  IN  IF usec < USEC THEN [tv_sec |-> t.tv_sec + delay.tv_sec, tv_usec |-> usec]
      ELSE [tv_sec |-> t.tv_sec + delay.tv_sec + 1, tv_usec |-> usec - USEC]

\* Mutated: the microseconds of the difference are left out.
relativeOfSeconds(date, current) ==
  [tv_sec |-> IF date.tv_sec > current.tv_sec THEN date.tv_sec - current.tv_sec ELSE 0,
   tv_usec |-> 0]

\* Mutated: the seconds stay absolute.
relativeUnsubtracted(date, current) ==
  IF date.tv_sec - current.tv_sec > 0 THEN date ELSE [date EXCEPT !.tv_sec = 0]

\* "Process the relative delay instead of absolute times": no second is borrowed
\* for the microseconds, and those of a date of this second, or of a past one, are
\* kept as they are.
relative(date, current) ==
  IF date.tv_sec - current.tv_sec > 0
  THEN [tv_sec |-> date.tv_sec - current.tv_sec,
        tv_usec |-> IF date.tv_usec > current.tv_usec
                    THEN date.tv_usec - current.tv_usec ELSE 0]
  ELSE [date EXCEPT !.tv_sec = 0]

-----------------------------------------------------------------------------

\* encoderStateInit sets no date.
Init ==
  /\ now = [tv_sec |-> StartTime, tv_usec |-> 0]
  /\ nextTimeout = [m \in Mux |-> infinite]
  /\ stage = "handle"
  /\ i = 1
  /\ currentTime = now
  /\ timeOut = infinite
  /\ wakeUp = now

\* "Preparing select() arguments": the latest date considered.
Prepare ==
  /\ stage = "handle"
  /\ stage' = "prepare"
  /\ i' = 1
  /\ currentTime' = now
  /\ timeOut' = [tv_sec |-> now.tv_sec + HORIZON, tv_usec |-> 0]
  /\ UNCHANGED <<now, nextTimeout, wakeUp>>

\* "Get the first to timeout".
Compare ==
  /\ stage = "prepare"
  /\ i <= NMux
  /\ timeOut' = IF isSooner(nextTimeout[i], timeOut) THEN nextTimeout[i] ELSE timeOut
  /\ i' = i + 1
  /\ UNCHANGED <<now, nextTimeout, stage, currentTime, wakeUp>>

EnterSelect ==
  /\ stage = "prepare"
  /\ i > NMux
  /\ stage' = "select"
  /\ wakeUp' = After(now, relative(timeOut, currentTime))
  /\ UNCHANGED <<now, nextTimeout, i, currentTime, timeOut>>

\* Time passes, no further than a sleep lasts.
Pass ==
  /\ stage = "select" => now # wakeUp
  /\ stage \in {"select", "handle"}
  /\ Tick(now).tv_sec <= MaxTime
  /\ now' = Tick(now)
  /\ UNCHANGED <<nextTimeout, stage, i, currentTime, timeOut, wakeUp>>

\* select() returns: something arrived, or the delay is over.
LeaveSelect ==
  /\ stage = "select"
  /\ stage' = "serve"
  /\ i' = 1
  /\ currentTime' = now
  /\ UNCHANGED <<now, nextTimeout, timeOut, wakeUp>>

\* onTimeOut: the next date, with data outstanding and without.
DatesAfterTimeOut ==
  { addUSec(now, t) : t \in Timeouts } \cup { addUSec(infinite, t) : t \in IdleTimeouts }

\* "Check which encoders might be in timeOut".
Serve ==
  /\ stage = "serve"
  /\ i <= NMux
  /\ IF isSooner(nextTimeout[i], currentTime)
     THEN \E date \in DatesAfterTimeOut : nextTimeout' = [nextTimeout EXCEPT ![i] = date]
     ELSE UNCHANGED nextTimeout
  /\ i' = i + 1
  /\ UNCHANGED <<now, stage, currentTime, timeOut, wakeUp>>

EndServe ==
  /\ stage = "serve"
  /\ i > NMux
  /\ stage' = "handle"
  /\ UNCHANGED <<now, nextTimeout, i, currentTime, timeOut, wakeUp>>

\* The rest of the iteration: onAck, EMPTY and accept set a timer or stop it; an
\* entry that is removed makes room for one whose timer is not set.
SetTimer ==
  /\ stage = "handle"
  /\ \E m \in Mux, date \in { addUSec(now, t) : t \in Timeouts } \cup {infinite} :
       nextTimeout' = [nextTimeout EXCEPT ![m] = date]
  /\ UNCHANGED <<now, stage, i, currentTime, timeOut, wakeUp>>

Next ==
  \/ Prepare \/ Compare \/ EnterSelect \/ Pass \/ LeaveSelect
  \/ Serve \/ EndServe \/ SetTimer

Spec == Init /\ [][Next]_vars

-----------------------------------------------------------------------------
(* Properties *)

\* Every variable keeps its type; every date has at most a second of microseconds.
TypeOK ==
  /\ now \in Clock
  /\ nextTimeout \in [Mux -> Timeval]
  /\ stage \in {"prepare", "select", "serve", "handle"}
  /\ i \in 1 .. NMux + 1
  /\ currentTime \in Clock
  /\ timeOut \in Timeval
  /\ wakeUp \in Clock

InOrder(a, b) == a.tv_sec < b.tv_sec \/ (a.tv_sec = b.tv_sec /\ a.tv_usec <= b.tv_usec)

OneSecondAfter(t) == [t EXCEPT !.tv_sec = @ + 1]

\* The loop sleeps through no timer for more than a second, the date of the timer
\* and the time it went to sleep being equal or not, and whatever the date: a timer
\* that is overdue waits for the microseconds of its date.
SleepsPastNoTimer ==
  stage = "select" =>
    \A m \in Mux :
      nextTimeout[m] # infinite =>
        \/ InOrder(wakeUp, OneSecondAfter(nextTimeout[m]))
        \/ InOrder(wakeUp, OneSecondAfter(currentTime))

\* With nothing outstanding anywhere the loop does not spin, although the dates its
\* timers are set to then are long past: their microseconds, which are never zero,
\* are what it sleeps.
IdleLoopSleeps ==
  /\ stage = "select"
  /\ \A m \in Mux :
       nextTimeout[m] \in {infinite} \cup { addUSec(infinite, t) : t \in IdleTimeouts }
  => wakeUp # currentTime

\* A sleep that is not cut short ends with a timer to serve, unless none is set for
\* the whole of the longest sleep: the loop does not wake up in vain.
WakesForATimer ==
  stage = "select" /\ now = wakeUp =>
    \/ \E m \in Mux : isSooner(nextTimeout[m], now)
    \/ InOrder([tv_sec |-> currentTime.tv_sec + HORIZON, tv_usec |-> 0], now)

=============================================================================
