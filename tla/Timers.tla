------------------------------- MODULE Timers -------------------------------
(***************************************************************************)
(* timer_handler: the timers of a stack, stepped once per millisecond.     *)
(*                                                                         *)
(* A timer that is stopped or started again leaves its old entry in the    *)
(* queue of running timers; an entry counts only while the timer still has *)
(* the timeout it was queued with.  step_all is split at the callbacks,    *)
(* which may start, stop, create and release timers.  A slot beyond        *)
(* timer_list.size() is one that has never been active.                    *)
(***************************************************************************)
EXTENDS Integers, FiniteSets

CONSTANTS
    NOF_SLOTS,   \* bound: how many timers exist at once
    CLOCK,       \* values of uint32_t
    DURATIONS,   \* durations the users ask for
    LAST_TICK,   \* bound: the clock stops here (never, when beyond CLOCK)
    MAX_EQUAL,   \* bound: equal entries in the queue
    MAX_QUEUED   \* bound: different entries in the queue

MAX_TIMER_DURATION == (CLOCK - 1) \div 4
MAX_TIMER_VALUE    == (CLOCK - 1) \div 2

ASSUME TimersAssumption ==
    /\ NOF_SLOTS \in Nat \ {0} /\ CLOCK \in Nat /\ CLOCK >= 13
    /\ DURATIONS \subseteq Nat /\ LAST_TICK \in Nat
    /\ MAX_EQUAL \in Nat \ {0} /\ MAX_QUEUED \in Nat \ {0}

Slots   == 0 .. NOF_SLOTS - 1
Time    == 0 .. CLOCK - 1
Entries == [timer_id : Slots, timeout : Time]

VARIABLES
    duration, timeout, running, active,  \* timer_list
    running_timers,  \* how often each entry is in the priority queue
    cur_time,
    stepping,        \* is step_all on the stack
    firing,          \* entry whose callback step_all is running: {} or {e}
    life             \* history: what has become of a timer since it was created

timers == <<duration, timeout, running, active>>
vars   == <<timers, running_timers, cur_time, stepping, firing, life>>

UInt(x) == x % CLOCK

-----------------------------------------------------------------------------
is_running(t) == active[t] /\ running[t] /\ timeout[t] > 0
is_expired(t) == active[t] /\ ~running[t] /\ timeout[t] > 0 /\ timeout[t] <= cur_time
value(t)      == UInt(cur_time - (timeout[t] - duration[t]))

(***************************************************************************)
(* timer_run::operator<, read as "e comes after f".                        *)
(***************************************************************************)
After(e, f) ==
    IF e.timeout > f.timeout
    THEN e.timeout - f.timeout < MAX_TIMER_VALUE \div 2
    ELSE f.timeout - e.timeout > MAX_TIMER_VALUE \div 2

Queued == {e \in Entries : running_timers[e] > 0}
Tops   == {e \in Queued : \A f \in Queued : ~After(e, f)}

\* Entries step_all works off before it returns.
DueTops == {e \in Tops : cur_time >= e.timeout}

Popped(e) == [running_timers EXCEPT ![e] = @ - 1]

-----------------------------------------------------------------------------
Init ==
    /\ duration = [t \in Slots |-> 0]
    /\ timeout = [t \in Slots |-> 0]
    /\ running = [t \in Slots |-> FALSE]
    /\ active = [t \in Slots |-> FALSE]
    /\ running_timers = [e \in Entries |-> 0]
    /\ cur_time = 0
    /\ stepping = FALSE
    /\ firing = {}
    /\ life = [t \in Slots |-> "none"]

\* The stack thread runs its own code between two ticks, and callbacks in one.
UserCode == stepping => firing # {}

(***************************************************************************)
(* timer_impl::run with duration d.                                        *)
(***************************************************************************)
\* Mutant: the entry that is already queued is reused.
StartedUnlessRunning(t, d) ==
    LET e == [timer_id |-> t, timeout |-> UInt(cur_time + d)]
    IN  /\ timeout' = [timeout EXCEPT ![t] = e.timeout]
        /\ running' = [running EXCEPT ![t] = TRUE]
        /\ running_timers' = IF running[t] THEN running_timers
                             ELSE [running_timers EXCEPT ![e] = @ + 1]

Started(t, d) ==
    LET e == [timer_id |-> t, timeout |-> UInt(cur_time + d)]
    IN  /\ running_timers[e] < MAX_EQUAL /\ Cardinality(Queued \union {e}) <= MAX_QUEUED
        /\ timeout' = [timeout EXCEPT ![t] = e.timeout]
        /\ running' = [running EXCEPT ![t] = TRUE]
        /\ running_timers' = [running_timers EXCEPT ![e] = @ + 1]

Run(t) ==
    /\ UserCode /\ active[t]
    /\ Started(t, duration[t])
    /\ life' = [life EXCEPT ![t] = "started"]
    /\ UNCHANGED <<duration, active, cur_time, stepping, firing>>

(***************************************************************************)
(* set: a timer that is running starts again with the new duration.        *)
(***************************************************************************)
\* Mutant: it goes on with the old timeout.
RestartsNever(t) == FALSE

Restarts(t) == is_running(t)

\* Mutant: any duration is taken.
AllowedAlways(d) == TRUE

Allowed(d) == d <= MAX_TIMER_DURATION

Set(t, d) ==
    /\ UserCode /\ active[t]
    /\ Allowed(d)
    /\ duration' = [duration EXCEPT ![t] = d]
    /\ \/ /\ Restarts(t)
          /\ Started(t, d)
          /\ life' = [life EXCEPT ![t] = "started"]
       \/ ~Restarts(t) /\ UNCHANGED <<timeout, running, running_timers, life>>
    /\ UNCHANGED <<active, cur_time, stepping, firing>>

(***************************************************************************)
(* stop: a timer that has expired keeps its timeout, as a mark of that.    *)
(* is_expired is asked after running was cleared.                          *)
(***************************************************************************)
\* Mutant: the mark is not kept.
TimeoutIfStoppedZero(t) == 0

TimeoutIfStopped(t) ==
    IF active[t] /\ timeout[t] <= cur_time THEN timeout[t] ELSE 0

Stopped(t) ==
    /\ running' = [running EXCEPT ![t] = FALSE]
    /\ timeout' = [timeout EXCEPT ![t] = TimeoutIfStopped(t)]

Stop(t) ==
    /\ UserCode /\ active[t]
    /\ Stopped(t)
    /\ life' = IF is_running(t) THEN [life EXCEPT ![t] = "stopped"] ELSE life
    /\ UNCHANGED <<duration, active, running_timers, cur_time, stepping, firing>>

(***************************************************************************)
(* get_unique_timer takes the first slot that is free; the destructor and  *)
(* release of unique_timer clear it.                                       *)
(***************************************************************************)
GetUniqueTimer(t) ==
    /\ UserCode
    /\ ~active[t] /\ \A s \in 0 .. t - 1 : active[s]
    /\ active' = [active EXCEPT ![t] = TRUE]
    /\ life' = [life EXCEPT ![t] = "new"]
    /\ UNCHANGED <<duration, timeout, running, running_timers, cur_time, stepping, firing>>

Clear(t) ==
    /\ UserCode /\ active[t]
    /\ Stopped(t)
    /\ duration' = [duration EXCEPT ![t] = 0]
    /\ active' = [active EXCEPT ![t] = FALSE]
    /\ life' = [life EXCEPT ![t] = "none"]
    /\ UNCHANGED <<running_timers, cur_time, stepping, firing>>

(***************************************************************************)
(* step_all.                                                               *)
(***************************************************************************)
Step ==
    /\ ~stepping /\ cur_time < LAST_TICK
    /\ stepping' = TRUE
    /\ cur_time' = UInt(cur_time + 1)
    /\ UNCHANGED <<timers, running_timers, firing, life>>

\* Mutant: every entry of a running timer is taken for the one that counts.
CountsAlways(e) == is_running(e.timer_id)

Counts(e) == timeout[e.timer_id] = e.timeout /\ is_running(e.timer_id)

PopIgnored ==
    /\ stepping /\ firing = {}
    /\ \E e \in DueTops : ~Counts(e) /\ running_timers' = Popped(e)
    /\ UNCHANGED <<timers, cur_time, stepping, firing, life>>

Trigger ==
    /\ stepping /\ firing = {}
    /\ \E e \in DueTops :
          /\ Counts(e)
          /\ running' = [running EXCEPT ![e.timer_id] = FALSE]
          /\ firing' = {e}
          /\ life' = [life EXCEPT ![e.timer_id] = "fired"]
    /\ UNCHANGED <<duration, timeout, active, running_timers, cur_time, stepping>>

(***************************************************************************)
(* The callback is over and the top of the queue is popped: the entry of   *)
(* the callback, unless the callback has queued one that comes before it.  *)
(***************************************************************************)
CallbackReturns ==
    /\ \E e \in firing : \E top \in IF e \in Tops THEN {e} ELSE Tops :
          running_timers' = Popped(top)
    /\ firing' = {}
    /\ UNCHANGED <<timers, cur_time, stepping, life>>

StepEnds ==
    /\ stepping /\ firing = {}
    /\ DueTops = {}
    /\ stepping' = FALSE
    /\ UNCHANGED <<timers, running_timers, cur_time, firing, life>>

Next ==
    \/ \E t \in Slots :
          \/ Run(t) \/ Stop(t) \/ Clear(t) \/ GetUniqueTimer(t)
          \/ \E d \in DURATIONS : Set(t, d)
    \/ Step \/ PopIgnored \/ Trigger \/ CallbackReturns \/ StepEnds

Spec == Init /\ [][Next]_vars

-----------------------------------------------------------------------------
(***************************************************************************)
(* Properties.                                                             *)
(***************************************************************************)
Lives == {"none", "new", "started", "stopped", "fired"}

TypeOK ==
    /\ duration \in [Slots -> 0 .. MAX_TIMER_DURATION]
    /\ timeout \in [Slots -> Time]
    /\ running \in [Slots -> BOOLEAN] /\ active \in [Slots -> BOOLEAN]
    /\ running_timers \in [Entries -> Nat]
    /\ cur_time \in Time
    /\ stepping \in BOOLEAN
    /\ firing = {} \/ \E e \in Entries : firing = {e}
    /\ life \in [Slots -> Lives]

(***************************************************************************)
(* The entry that will fire a running timer is in the queue, whatever has  *)
(* been popped and however often the timer was stopped, started again or   *)
(* its slot reused: run() queues it and only trigger() or step_all after   *)
(* it take it out.                                                         *)
(***************************************************************************)
RunningIsQueued ==
    \A t \in Slots :
        is_running(t) => [timer_id |-> t, timeout |-> timeout[t]] \in Queued

(***************************************************************************)
(* value() of a running timer is the time since it was started, never a    *)
(* difference that went below zero: set() while running starts it again.   *)
(***************************************************************************)
ElapsedWithinDuration ==
    \A t \in Slots : is_running(t) => value(t) <= duration[t] \/ duration[t] = 0

(***************************************************************************)
(* stop() on a timer that has fired leaves it expired, until it is started *)
(* again or released (timers2_test2).                                      *)
(***************************************************************************)
FiredStaysExpired ==
    \A t \in Slots : life[t] = "fired" => is_expired(t)

(***************************************************************************)
(* The handler gives the service its users rely on, as long as the clock   *)
(* does not come near the end of uint32_t.                                 *)
(***************************************************************************)
Service == INSTANCE TimerService WITH
    Timer    <- Slots,
    Duration <- 0 .. MAX_TIMER_DURATION,
    left     <- [t \in {s \in Slots : is_running(s)} |-> timeout[t] - cur_time],
    calling  <- {e.timer_id : e \in firing},
    ticking  <- stepping

FiresOnTime == Service!Spec

\* The clock and the timeouts stay below CLOCK; operator< orders the timeouts.
NoWrap ==
    /\ LAST_TICK + MAX_TIMER_DURATION < CLOCK
    /\ \A d \in DURATIONS : Allowed(d) => d + 1 < MAX_TIMER_VALUE \div 2
=============================================================================
