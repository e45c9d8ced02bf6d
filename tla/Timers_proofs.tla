---------------------------- MODULE Timers_proofs ----------------------------
(***************************************************************************)
(* timer_handler implements TimerService for every number of timers and    *)
(* every clock, as long as the clock does not wrap.                        *)
(***************************************************************************)
EXTENDS Timers, TLAPS

Threshold == MAX_TIMER_VALUE \div 2

-----------------------------------------------------------------------------
(***************************************************************************)
(* Arithmetic of the constants and of times that do not wrap.              *)
(***************************************************************************)
LEMMA Constants ==
    /\ CLOCK \in Nat /\ CLOCK >= 13
    /\ MAX_TIMER_DURATION \in Nat
    /\ Threshold \in Nat /\ Threshold > 2
    /\ LAST_TICK \in Nat
    /\ DURATIONS \subseteq Nat
BY TimersAssumption, SMT DEF MAX_TIMER_DURATION, MAX_TIMER_VALUE, Threshold

LEMMA NoWrapFacts ==
    ASSUME NoWrap
    PROVE  /\ LAST_TICK + MAX_TIMER_DURATION < CLOCK
           /\ \A d \in DURATIONS : Allowed(d) => d + 1 < Threshold
BY DEF NoWrap, Threshold

LEMMA UIntSmall == ASSUME NEW x \in Time PROVE UInt(x) = x
<1>1. CLOCK \in Nat /\ CLOCK > 0 BY Constants, SMT
<1> QED BY <1>1, SMT DEF UInt, Time

\* Times that are close together are ordered as numbers.
LEMMA AfterIsLater ==
    ASSUME NEW e \in Entries, NEW f \in Entries,
           e.timeout - f.timeout < Threshold, f.timeout - e.timeout < Threshold
    PROVE  After(e, f) <=> e.timeout > f.timeout
<1>1. e.timeout \in Int /\ f.timeout \in Int BY Constants, SMT DEF Entries, Time
<1>2. Threshold \in Int BY Constants, SMT
<1> QED BY <1>1, <1>2, SMT DEF After, Threshold

-----------------------------------------------------------------------------
(***************************************************************************)
(* The inductive invariant.                                                *)
(***************************************************************************)
\* Durations are those the users asked for; a free slot does not run.
SlotsInUse ==
    \A t \in Slots :
        /\ duration[t] \in Nat /\ duration[t] + 1 < Threshold
        /\ running[t] => active[t]

\* The clock has not wrapped.
ClockInRange == cur_time \in 0 .. LAST_TICK

\* The queue holds entries of this tick and of ticks less than Threshold away.
Earliest == IF stepping THEN cur_time - 1 ELSE cur_time

QueueNear ==
    \A e \in Queued : e.timeout >= Earliest /\ e.timeout + 1 < cur_time + Threshold

\* The entry whose callback is running is due and still the first one.  If the
\* callback has queued an equal one, there are two of them.
FiringFirst ==
    \A e \in firing :
        /\ stepping
        /\ e \in Queued
        /\ e.timeout <= cur_time
        /\ \A f \in Queued : e.timeout <= f.timeout
        /\ Counts(e) => running_timers[e] >= 2

\* A timer's timeout is the time it was started at plus its duration.
StartedBefore ==
    \A t \in Slots : is_running(t) =>
        /\ timeout[t] - duration[t] <= cur_time
        /\ cur_time <= timeout[t] \/ duration[t] = 0
        /\ ~stepping => cur_time < timeout[t] \/ duration[t] = 0

\* Everything but what the history variable says.
Core ==
    /\ TypeOK
    /\ SlotsInUse
    /\ ClockInRange
    /\ QueueNear
    /\ RunningIsQueued
    /\ FiringFirst
    /\ StartedBefore

IInv == Core /\ FiredStaysExpired

-----------------------------------------------------------------------------
(***************************************************************************)
(* The queue.                                                              *)
(***************************************************************************)
LEMMA TypeFacts ==
    ASSUME TypeOK
    PROVE  /\ duration \in [Slots -> Nat] /\ timeout \in [Slots -> Nat]
           /\ running_timers \in [Entries -> Nat]
           /\ cur_time \in Nat
           /\ \A e \in Entries : e.timer_id \in Slots /\ e.timeout \in Time
           /\ Time \subseteq Nat
           /\ firing \subseteq Entries
<1>1. CLOCK \in Nat /\ MAX_TIMER_DURATION \in Nat BY Constants
<1>2. Time \subseteq Nat BY <1>1, SMT DEF Time
<1>3. 0 .. MAX_TIMER_DURATION \subseteq Nat BY <1>1, SMT
<1>a. ASSUME NEW S, NEW T, S \subseteq T, NEW f \in [Slots -> S] PROVE f \in [Slots -> T]
  BY <1>a, SMT
<1>4. duration \in [Slots -> Nat] BY <1>3, <1>a, Zenon DEF TypeOK
<1>5. timeout \in [Slots -> Nat] BY <1>2, <1>a, Zenon DEF TypeOK
<1>6. firing \subseteq Entries BY DEF TypeOK
<1>7. \A e \in Entries : e.timer_id \in Slots /\ e.timeout \in Time BY SMT DEF Entries
<1> QED BY <1>2, <1>4, <1>5, <1>6, <1>7 DEF TypeOK

LEMMA QueuedIsEntry == Queued \subseteq Entries BY DEF Queued

\* In a queue whose entries are near, nothing comes before the earliest ones.
LEMMA TopsAreEarliest ==
    ASSUME TypeOK, QueueNear, NEW e \in Queued
    PROVE  e \in Tops <=> \A f \in Queued : e.timeout <= f.timeout
<1>1. \A f \in Queued : After(e, f) <=> e.timeout > f.timeout
  <2> SUFFICES ASSUME NEW f \in Queued PROVE After(e, f) <=> e.timeout > f.timeout OBVIOUS
  <2>1. e \in Entries /\ f \in Entries BY QueuedIsEntry
  <2>2. cur_time \in Nat /\ e.timeout \in Nat /\ f.timeout \in Nat BY <2>1, TypeFacts, Zenon
  <2>3. Threshold \in Nat BY Constants
  <2>4. Earliest >= cur_time - 1 BY <2>2, SMT DEF Earliest
  <2>5. /\ e.timeout >= cur_time - 1 /\ e.timeout + 1 < cur_time + Threshold
        /\ f.timeout >= cur_time - 1 /\ f.timeout + 1 < cur_time + Threshold
    <3>1. Earliest \in Int BY <2>2, SMT DEF Earliest
    <3> QED BY <2>2, <2>3, <2>4, <3>1, SMT DEF QueueNear
  <2>6. e.timeout - f.timeout < Threshold /\ f.timeout - e.timeout < Threshold
    BY <2>2, <2>3, <2>5, SMT
  <2> QED BY <2>1, <2>6, AfterIsLater, Zenon
<1>2. \A f \in Queued : e.timeout \in Int /\ f.timeout \in Int
  BY QueuedIsEntry, TypeFacts, SMT
<1>3. \A f \in Queued : e.timeout > f.timeout <=> ~(e.timeout <= f.timeout) BY <1>2, SMT
<1>4. e \in Tops <=> \A f \in Queued : ~After(e, f) BY DEF Tops
<1> QED BY <1>1, <1>3, <1>4, Zenon

\* step_all does not return before every entry that is due has been popped.
LEMMA NothingDueLeft ==
    ASSUME TypeOK, QueueNear, stepping, DueTops = {}
    PROVE  \A e \in Queued : e.timeout > cur_time
<1> SUFFICES ASSUME NEW e \in Queued, ~(e.timeout > cur_time) PROVE FALSE OBVIOUS
<1>1. cur_time \in Nat /\ \A f \in Queued : f.timeout \in Nat
  BY QueuedIsEntry, TypeFacts, SMT
<1>2. \A f \in Queued : f.timeout >= cur_time - 1 BY DEF QueueNear, Earliest
<1>3. \A f \in Queued : f.timeout <= cur_time => ~(\A g \in Queued : f.timeout <= g.timeout)
  <2>1. \A f \in Queued : f.timeout <= cur_time <=> cur_time >= f.timeout BY <1>1, SMT
  <2> QED BY <2>1, TopsAreEarliest, Zenon DEF DueTops
<1>4. e.timeout <= cur_time BY <1>1, SMT
<1>5. PICK f \in Queued : ~(e.timeout <= f.timeout) BY <1>3, <1>4
<1>6. f.timeout = cur_time - 1 BY <1>1, <1>2, <1>4, <1>5, SMT
<1>7. \A g \in Queued : f.timeout <= g.timeout BY <1>1, <1>2, <1>6, SMT
<1>8. f.timeout <= cur_time BY <1>1, <1>6, SMT
<1> QED BY <1>3, <1>7, <1>8

-----------------------------------------------------------------------------
(***************************************************************************)
(* Starting a timer, by run() or by set() on a running one.                *)
(***************************************************************************)
Entry(t, x) == [timer_id |-> t, timeout |-> x]

LEMMA SameEntry ==
    ASSUME NEW e \in Entries
    PROVE  e = Entry(e.timer_id, e.timeout)
BY SMT DEF Entries, Entry

LEMMA StartKeepsCore ==
    ASSUME NoWrap, Core, life' \in [Slots -> Lives], UserCode,
           NEW t \in Slots, active[t], NEW d \in 0 .. MAX_TIMER_DURATION,
           d + 1 < Threshold,
           Started(t, d), duration' = [duration EXCEPT ![t] = d],
           UNCHANGED <<active, cur_time, stepping, firing>>
    PROVE  /\ Core'
           /\ timeout' = [timeout EXCEPT ![t] = cur_time + d]
           /\ running' = [running EXCEPT ![t] = TRUE]
<1> DEFINE e == Entry(t, cur_time + d)
<1>c. /\ CLOCK \in Nat /\ LAST_TICK \in Nat /\ MAX_TIMER_DURATION \in Nat /\ Threshold \in Nat
      /\ LAST_TICK + MAX_TIMER_DURATION < CLOCK
  BY Constants, NoWrapFacts
<1>t. TypeOK BY DEF Core
<1>n. /\ duration \in [Slots -> Nat] /\ timeout \in [Slots -> Nat]
      /\ running_timers \in [Entries -> Nat] /\ cur_time \in Nat
      /\ \A f \in Entries : f.timer_id \in Slots /\ f.timeout \in Nat
      /\ firing \subseteq Entries
  BY <1>t, TypeFacts, SMT
<1>1. cur_time + d \in Time /\ cur_time <= LAST_TICK
  BY <1>c, <1>n, SMT DEF Core, ClockInRange, Time
<1>2. UInt(cur_time + d) = cur_time + d BY <1>1, UIntSmall
<1>3. e \in Entries BY <1>1, SMT DEF Entries, Entry
<1>4. /\ timeout' = [timeout EXCEPT ![t] = cur_time + d]
      /\ running' = [running EXCEPT ![t] = TRUE]
      /\ running_timers' = [running_timers EXCEPT ![e] = @ + 1]
  BY <1>2, Zenon DEF Started, Entry
<1>5. Queued' = Queued \union {e} BY <1>3, <1>4, <1>n, SMT DEF Queued
<1>6. TypeOK'
  <2>1. duration' \in [Slots -> 0 .. MAX_TIMER_DURATION] BY <1>t, SMT DEF TypeOK
  <2>2. timeout' \in [Slots -> Time] BY <1>t, <1>1, <1>4, SMT DEF TypeOK
  <2>3. running' \in [Slots -> BOOLEAN] BY <1>t, <1>4, Zenon DEF TypeOK
  <2>4. running_timers' \in [Entries -> Nat] BY <1>n, <1>3, <1>4, SMT
  <2> QED BY <2>1, <2>2, <2>3, <2>4, <1>t, Zenon DEF TypeOK
<1>7. SlotsInUse'
  <2>1. \A s \in Slots : running'[s] => active'[s]
    BY <1>4, <1>t, Zenon DEF Core, SlotsInUse, TypeOK
  <2>2. \A s \in Slots : duration'[s] \in Nat /\ duration'[s] + 1 < Threshold
    BY <1>n, SMT DEF Core, SlotsInUse
  <2> QED BY <2>1, <2>2, Zenon DEF SlotsInUse
<1>8. ClockInRange' BY DEF Core, ClockInRange
<1>9. QueueNear'
  <2>1. Earliest' = Earliest BY DEF Earliest
  <2>2. e.timeout >= Earliest /\ e.timeout + 1 < cur_time + Threshold
    BY <1>c, <1>n, SMT DEF Earliest, Entry
  <2> QED BY <1>5, <2>1, <2>2, Zenon DEF Core, QueueNear
<1>10. RunningIsQueued'
  <2> SUFFICES ASSUME NEW s \in Slots, is_running(s)' PROVE Entry(s, timeout'[s]) \in Queued'
    BY DEF RunningIsQueued, Entry
  <2>1. CASE s = t BY <2>1, <1>4, <1>5, <1>n, Zenon
  <2>2. CASE s # t
    <3>1. timeout'[s] = timeout[s] /\ running'[s] = running[s]
      BY <2>2, <1>4, <1>n, <1>t, Zenon DEF TypeOK
    <3>2. is_running(s) BY <3>1, Zenon DEF is_running
    <3> QED BY <3>1, <3>2, <1>5, Zenon DEF Core, RunningIsQueued, Entry
  <2> QED BY <2>1, <2>2
<1>11. FiringFirst'
  <2> SUFFICES ASSUME NEW f \in firing
               PROVE  /\ stepping' /\ f \in Queued' /\ f.timeout <= cur_time'
                      /\ \A g \in Queued' : f.timeout <= g.timeout
                      /\ Counts(f)' => running_timers'[f] >= 2
    BY Zenon DEF FiringFirst
  <2>1. /\ stepping /\ f \in Queued /\ f.timeout <= cur_time
        /\ \A g \in Queued : f.timeout <= g.timeout
        /\ Counts(f) => running_timers[f] >= 2
    BY Zenon DEF Core, FiringFirst
  <2>2. f \in Entries BY <1>n
  <2>3. f.timeout <= e.timeout BY <2>1, <2>2, <1>n, SMT DEF Entry
  <2>4. Counts(f)' => running_timers'[f] >= 2
    <3> SUFFICES ASSUME Counts(f)' PROVE running_timers'[f] >= 2 OBVIOUS
    <3>1. CASE f = e
      <4>1. running_timers[e] >= 1 BY <2>1, <3>1, <1>3, <1>n, SMT DEF Queued
      <4> QED BY <4>1, <3>1, <1>3, <1>4, <1>n, SMT
    <3>2. CASE f # e
      <4>1. f.timer_id # t
        <5> SUFFICES ASSUME f.timer_id = t PROVE FALSE OBVIOUS
        <5>1. timeout'[t] = cur_time + d BY <1>4, <1>n, Zenon
        <5>2. f.timeout = cur_time + d BY <5>1, Zenon DEF Counts
        <5> QED BY <5>2, <2>2, <3>2, SameEntry, Zenon
      <4>2. timeout'[f.timer_id] = timeout[f.timer_id] /\ running'[f.timer_id] = running[f.timer_id]
        BY <4>1, <2>2, <1>4, <1>n, <1>t, Zenon DEF TypeOK
      <4>3. Counts(f) BY <4>2, Zenon DEF Counts, is_running
      <4>4. running_timers'[f] = running_timers[f] BY <2>2, <3>2, <1>4, <1>n, Zenon
      <4> QED BY <4>3, <4>4, <2>1
    <3> QED BY <3>1, <3>2
  <2> QED BY <2>1, <2>3, <2>4, <1>5, Zenon
<1>12. StartedBefore'
  <2> SUFFICES ASSUME NEW s \in Slots, is_running(s)'
               PROVE  /\ timeout'[s] - duration'[s] <= cur_time
                      /\ cur_time <= timeout'[s] \/ duration'[s] = 0
                      /\ ~stepping => cur_time < timeout'[s] \/ duration'[s] = 0
    BY Zenon DEF StartedBefore
  <2>1. CASE s = t
    <3>1. timeout'[s] = cur_time + d /\ duration'[s] = d BY <2>1, <1>4, <1>n, Zenon
    <3> QED BY <3>1, <1>n, SMT
  <2>2. CASE s # t
    <3>1. timeout'[s] = timeout[s] /\ running'[s] = running[s] /\ duration'[s] = duration[s]
      BY <2>2, <1>4, <1>n, <1>t, Zenon DEF TypeOK
    <3>2. is_running(s) BY <3>1, Zenon DEF is_running
    <3> QED BY <3>1, <3>2, Zenon DEF Core, StartedBefore
  <2> QED BY <2>1, <2>2
<1> QED BY <1>4, <1>6, <1>7, <1>8, <1>9, <1>10, <1>11, <1>12, Zenon DEF Core

-----------------------------------------------------------------------------
(***************************************************************************)
(* Steps that start no timer and leave the queue and the clock alone.      *)
(***************************************************************************)
LEMMA QuietKeepsCore ==
    ASSUME Core, TypeOK', SlotsInUse',
           UNCHANGED <<running_timers, cur_time, stepping, firing>>,
           \A s \in Slots : is_running(s)' =>
               is_running(s) /\ timeout'[s] = timeout[s] /\ duration'[s] = duration[s]
    PROVE  Core'
<1>1. Queued' = Queued BY DEF Queued
<1>2. ClockInRange' BY DEF Core, ClockInRange
<1>3. QueueNear' BY <1>1, Zenon DEF Core, QueueNear, Earliest
<1>4. RunningIsQueued' BY <1>1, Zenon DEF Core, RunningIsQueued
<1>5. FiringFirst'
  <2>1. \A e \in firing : Counts(e)' => Counts(e)
    <3> SUFFICES ASSUME NEW e \in firing, Counts(e)' PROVE Counts(e) OBVIOUS
    <3>1. e.timer_id \in Slots BY TypeFacts, Zenon DEF Core
    <3> QED BY <3>1, Zenon DEF Counts
  <2> QED BY <1>1, <2>1, Zenon DEF Core, FiringFirst
<1>6. StartedBefore' BY Zenon DEF Core, StartedBefore
<1> QED BY <1>2, <1>3, <1>4, <1>5, <1>6, Zenon DEF Core

LEMMA StopFacts ==
    ASSUME TypeOK, NEW t \in Slots, Stopped(t)
    PROVE  /\ timeout' \in [Slots -> Time] /\ running' \in [Slots -> BOOLEAN]
           /\ \A s \in Slots \ {t} : timeout'[s] = timeout[s] /\ running'[s] = running[s]
           /\ running'[t] = FALSE
           /\ active[t] /\ timeout[t] <= cur_time => timeout'[t] = timeout[t]
<1>1. 0 \in Time /\ timeout[t] \in Time BY Constants, SMT DEF TypeOK, Time
<1>2. TimeoutIfStopped(t) \in Time BY <1>1, Zenon DEF TimeoutIfStopped
<1>3. timeout' \in [Slots -> Time] BY <1>2, SMT DEF Stopped, TypeOK
<1>4. running' \in [Slots -> BOOLEAN] /\ running'[t] = FALSE BY Zenon DEF Stopped, TypeOK
<1>5. \A s \in Slots \ {t} : timeout'[s] = timeout[s] /\ running'[s] = running[s]
  BY Zenon DEF Stopped, TypeOK
<1>6. active[t] /\ timeout[t] <= cur_time => timeout'[t] = timeout[t]
  BY Zenon DEF Stopped, TypeOK, TimeoutIfStopped
<1> QED BY <1>3, <1>4, <1>5, <1>6

LEMMA InitInv == Init => IInv
<1> SUFFICES ASSUME Init PROVE IInv OBVIOUS
<1>1. /\ CLOCK \in Nat /\ CLOCK >= 13 /\ MAX_TIMER_DURATION \in Nat
      /\ Threshold \in Nat /\ Threshold > 2 /\ LAST_TICK \in Nat
  BY Constants
<1>2. TypeOK
  <2>1. 0 \in Time /\ 0 \in 0 .. MAX_TIMER_DURATION BY <1>1, SMT DEF Time
  <2>2. life \in [Slots -> Lives] BY Zenon DEF Init, Lives
  <2>3. duration \in [Slots -> 0 .. MAX_TIMER_DURATION] /\ timeout \in [Slots -> Time] /\ cur_time \in Time
    BY <2>1, Zenon DEF Init
  <2>4. running \in [Slots -> BOOLEAN] /\ active \in [Slots -> BOOLEAN] /\ stepping \in BOOLEAN
    BY Zenon DEF Init
  <2>5. running_timers \in [Entries -> Nat] BY SMT DEF Init
  <2> QED BY <2>2, <2>3, <2>4, <2>5, Zenon DEF Init, TypeOK
<1>3. \A t \in Slots : ~is_running(t) BY DEF Init, is_running
<1>4. SlotsInUse BY <1>1, SMT DEF Init, SlotsInUse
<1>5. ClockInRange BY <1>1, SMT DEF Init, ClockInRange
<1>6. Queued = {}
  <2>1. \A e \in Entries : running_timers[e] = 0 BY DEF Init
  <2> QED BY <2>1, SMT DEF Queued
<1>7. QueueNear /\ RunningIsQueued /\ StartedBefore
  BY <1>3, <1>6, Zenon DEF QueueNear, RunningIsQueued, StartedBefore
<1>8. FiringFirst BY Zenon DEF Init, FiringFirst
<1>9. FiredStaysExpired BY DEF Init, FiredStaysExpired
<1> QED BY <1>2, <1>4, <1>5, <1>7, <1>8, <1>9 DEF IInv, Core

-----------------------------------------------------------------------------
(***************************************************************************)
(* One lemma per operation of a timer.                                     *)
(***************************************************************************)
\* A timer that has fired stays expired through a step that leaves it alone.
LEMMA FiredKept ==
    ASSUME TypeOK, FiredStaysExpired, NEW S \in SUBSET Slots,
           cur_time' \in Nat, cur_time <= cur_time',
           \A s \in S : life'[s] = "fired" =>
               /\ life[s] = "fired"
               /\ active'[s] = active[s] /\ running'[s] = running[s] /\ timeout'[s] = timeout[s]
    PROVE  \A s \in S : life'[s] = "fired" => is_expired(s)'
<1> SUFFICES ASSUME NEW s \in S, life'[s] = "fired" PROVE is_expired(s)' OBVIOUS
<1>1. is_expired(s) BY Zenon DEF FiredStaysExpired
<1>2. timeout[s] \in Nat /\ cur_time \in Nat BY TypeFacts, SMT
<1>3. timeout[s] <= cur_time' BY <1>1, <1>2, SMT DEF is_expired
<1> QED BY <1>1, <1>3, Zenon DEF is_expired

LEMMA LifeType ==
    ASSUME TypeOK, NEW t \in Slots, NEW x \in Lives, life' = [life EXCEPT ![t] = x]
    PROVE  /\ life' \in [Slots -> Lives] /\ life'[t] = x
           /\ \A s \in Slots \ {t} : life'[s] = life[s]
BY Zenon DEF TypeOK

LEMMA RunInv == ASSUME NoWrap, IInv, NEW t \in Slots, Run(t) PROVE IInv'
<1>1. life' \in [Slots -> Lives] /\ life'[t] = "started" /\ \A s \in Slots \ {t} : life'[s] = life[s]
  BY LifeType, Zenon DEF Run, IInv, Core, Lives
<1>2. duration[t] \in 0 .. MAX_TIMER_DURATION /\ duration[t] + 1 < Threshold
      /\ duration' = [duration EXCEPT ![t] = duration[t]]
  BY Zenon DEF Run, IInv, Core, TypeOK, SlotsInUse
<1>3. /\ Core' /\ timeout' = [timeout EXCEPT ![t] = cur_time + duration[t]]
      /\ running' = [running EXCEPT ![t] = TRUE]
  <2> DEFINE d == duration[t]
  <2>1. d \in 0 .. MAX_TIMER_DURATION /\ d + 1 < Threshold /\ duration' = [duration EXCEPT ![t] = d]
    BY <1>2
  <2>2. Started(t, d) /\ UserCode /\ active[t] /\ UNCHANGED <<active, cur_time, stepping, firing>> BY DEF Run
  <2>3. Core BY DEF IInv
  <2> HIDE DEF d
  <2>4. /\ Core' /\ timeout' = [timeout EXCEPT ![t] = cur_time + d]
        /\ running' = [running EXCEPT ![t] = TRUE]
    BY <1>1, <2>1, <2>2, <2>3, StartKeepsCore, Zenon
  <2> QED BY <2>4 DEF d
<1>4. \A s \in Slots \ {t} : timeout'[s] = timeout[s] /\ running'[s] = running[s] /\ active'[s] = active[s]
  BY <1>3, Zenon DEF IInv, Core, TypeOK, Run
<1>5. cur_time \in Nat /\ cur_time' = cur_time BY TypeFacts DEF IInv, Core, Run
<1>6. \A s \in Slots \ {t} : life'[s] = "fired" => is_expired(s)'
  <2>1. Slots \ {t} \in SUBSET Slots /\ cur_time' \in Nat /\ cur_time <= cur_time' BY <1>5, SMT
  <2> QED BY <1>1, <1>4, <2>1, FiredKept, Zenon DEF IInv, Core
<1>7. FiredStaysExpired' BY <1>1, <1>6, Zenon DEF FiredStaysExpired
<1> QED BY <1>3, <1>7 DEF IInv

LEMMA SetInv == ASSUME NoWrap, IInv, NEW t \in Slots, NEW d \in DURATIONS, Set(t, d) PROVE IInv'
<1>c. d \in 0 .. MAX_TIMER_DURATION /\ d + 1 < Threshold
  BY Constants, NoWrapFacts, SMT DEF Set, Allowed
<1>t. TypeOK /\ Core BY DEF IInv, Core
<1>d. /\ duration' \in [Slots -> 0 .. MAX_TIMER_DURATION]
      /\ duration'[t] = d /\ \A s \in Slots \ {t} : duration'[s] = duration[s]
  BY <1>c, <1>t, Zenon DEF Set, TypeOK
<1>5. cur_time \in Nat /\ cur_time' = cur_time BY <1>t, TypeFacts DEF Set
<1>6. Slots \ {t} \in SUBSET Slots /\ cur_time' \in Nat /\ cur_time <= cur_time' BY <1>5, SMT
<1>1. CASE Restarts(t)
  <2>1. Started(t, d) /\ life' = [life EXCEPT ![t] = "started"] BY <1>1 DEF Set
  <2>2. life' \in [Slots -> Lives] /\ life'[t] = "started" /\ \A s \in Slots \ {t} : life'[s] = life[s]
    BY <2>1, <1>t, LifeType, Zenon DEF Lives
  <2>3. UserCode /\ active[t] /\ UNCHANGED <<active, cur_time, stepping, firing>> /\ duration' = [duration EXCEPT ![t] = d]
    BY DEF Set
  <2>4. /\ Core' /\ timeout' = [timeout EXCEPT ![t] = cur_time + d]
        /\ running' = [running EXCEPT ![t] = TRUE]
    BY <1>c, <1>t, <2>1, <2>2, <2>3, StartKeepsCore, Zenon
  <2>5. \A s \in Slots \ {t} : timeout'[s] = timeout[s] /\ running'[s] = running[s] /\ active'[s] = active[s]
    BY <2>3, <2>4, <1>t, Zenon DEF TypeOK
  <2>6. \A s \in Slots \ {t} : life'[s] = "fired" => is_expired(s)'
    BY <2>2, <2>5, <1>6, <1>t, FiredKept, Zenon DEF IInv
  <2>7. FiredStaysExpired' BY <2>2, <2>6, Zenon DEF FiredStaysExpired
  <2> QED BY <2>4, <2>7 DEF IInv
<1>2. CASE ~Restarts(t)
  <2>1. UNCHANGED <<timeout, running, running_timers, life, active, cur_time, stepping, firing>>
    BY <1>2 DEF Set
  <2>2. TypeOK' BY <2>1, <1>d, <1>t, Zenon DEF TypeOK
  <2>3. SlotsInUse'
    <3>1. d \in Nat BY Constants
    <3> QED BY <3>1, <2>1, <1>c, <1>d, Zenon DEF SlotsInUse, Core, IInv
  <2>4. \A s \in Slots : is_running(s)' =>
            is_running(s) /\ timeout'[s] = timeout[s] /\ duration'[s] = duration[s]
    <3>1. \A s \in Slots : is_running(s)' <=> is_running(s) BY <2>1, Zenon DEF is_running
    <3> QED BY <3>1, <2>1, <1>2, <1>d, Zenon DEF Restarts
  <2>5. Core' BY <2>1, <2>2, <2>3, <2>4, <1>t, QuietKeepsCore, Zenon
  <2>6. FiredStaysExpired' BY <2>1, Zenon DEF FiredStaysExpired, IInv, is_expired
  <2> QED BY <2>5, <2>6 DEF IInv
<1> QED BY <1>1, <1>2

LEMMA StopInv == ASSUME IInv, NEW t \in Slots, Stop(t) \/ Clear(t) PROVE IInv'
<1>t. TypeOK /\ Core BY DEF IInv, Core
<1>1. /\ Stopped(t) /\ active[t]
      /\ UNCHANGED <<running_timers, cur_time, stepping, firing>>
  BY DEF Stop, Clear
<1>2. /\ timeout' \in [Slots -> Time] /\ running' \in [Slots -> BOOLEAN]
      /\ \A s \in Slots \ {t} : timeout'[s] = timeout[s] /\ running'[s] = running[s]
      /\ running'[t] = FALSE
      /\ timeout[t] <= cur_time => timeout'[t] = timeout[t]
  BY <1>1, <1>t, StopFacts, Zenon
<1>3. /\ active' \in [Slots -> BOOLEAN] /\ \A s \in Slots \ {t} : active'[s] = active[s]
      /\ duration' \in [Slots -> 0 .. MAX_TIMER_DURATION]
      /\ \A s \in Slots \ {t} : duration'[s] = duration[s]
      /\ duration'[t] \in {0, duration[t]}
  <2>1. CASE Stop(t) BY <2>1, <1>t, Zenon DEF Stop, TypeOK
  <2>2. CASE Clear(t)
    <3>1. 0 \in 0 .. MAX_TIMER_DURATION BY Constants, SMT
    <3> QED BY <2>2, <3>1, <1>t, Zenon DEF Clear, TypeOK
  <2> QED BY <2>1, <2>2
<1>4. /\ life' \in [Slots -> Lives] /\ \A s \in Slots \ {t} : life'[s] = life[s]
      /\ life'[t] = "fired" => life[t] = "fired" /\ active' = active
  <2>1. CASE Clear(t)
    <3>1. life' = [life EXCEPT ![t] = "none"] BY <2>1 DEF Clear
    <3> QED BY <3>1, <1>t, LifeType, Zenon DEF Lives
  <2>2. CASE Stop(t) /\ is_running(t)
    <3>1. life' = [life EXCEPT ![t] = "stopped"] BY <2>2 DEF Stop
    <3> QED BY <3>1, <1>t, LifeType, Zenon DEF Lives
  <2>3. CASE Stop(t) /\ ~is_running(t) BY <2>3, <1>t, Zenon DEF Stop, TypeOK
  <2> QED BY <2>1, <2>2, <2>3
<1>5. TypeOK' BY <1>1, <1>2, <1>3, <1>4, <1>t, Zenon DEF TypeOK
<1>6. SlotsInUse'
  <2>1. 0 \in Nat /\ 0 + 1 < Threshold BY Constants, SMT
  <2>2. \A s \in Slots : duration'[s] \in Nat /\ duration'[s] + 1 < Threshold
    BY <2>1, <1>3, Zenon DEF SlotsInUse, Core, IInv
  <2>3. \A s \in Slots : running'[s] => active'[s]
    BY <1>2, <1>3, Zenon DEF SlotsInUse, Core, IInv
  <2> QED BY <2>2, <2>3, Zenon DEF SlotsInUse
<1>7. \A s \in Slots : is_running(s)' =>
          is_running(s) /\ timeout'[s] = timeout[s] /\ duration'[s] = duration[s]
  BY <1>2, <1>3, Zenon DEF is_running
<1>8. Core' BY <1>1, <1>5, <1>6, <1>7, <1>t, QuietKeepsCore, Zenon
<1>9. \A s \in Slots \ {t} : life'[s] = "fired" => is_expired(s)'
  <2>1. cur_time \in Nat /\ cur_time' = cur_time BY <1>t, <1>1, TypeFacts
  <2>2. Slots \ {t} \in SUBSET Slots /\ cur_time' \in Nat /\ cur_time <= cur_time' BY <2>1, SMT
  <2> QED BY <2>2, <1>2, <1>3, <1>4, <1>t, FiredKept, Zenon DEF IInv
<1>10. life'[t] = "fired" => is_expired(t)'
  BY <1>1, <1>2, <1>4, Zenon DEF IInv, FiredStaysExpired, is_expired
<1>11. FiredStaysExpired' BY <1>9, <1>10, Zenon DEF FiredStaysExpired
<1> QED BY <1>8, <1>11 DEF IInv

LEMMA GetInv == ASSUME IInv, NEW t \in Slots, GetUniqueTimer(t) PROVE IInv'
<1>t. TypeOK /\ Core BY DEF IInv, Core
<1>1. /\ UNCHANGED <<duration, timeout, running, running_timers, cur_time, stepping, firing>>
      /\ active' \in [Slots -> BOOLEAN] /\ \A s \in Slots \ {t} : active'[s] = active[s]
      /\ active'[t] = TRUE /\ ~active[t]
  BY <1>t, Zenon DEF GetUniqueTimer, TypeOK
<1>2. life' \in [Slots -> Lives] /\ life'[t] = "new" /\ \A s \in Slots \ {t} : life'[s] = life[s]
  BY <1>t, LifeType, Zenon DEF Lives, GetUniqueTimer
<1>3. TypeOK' BY <1>1, <1>2, <1>t, Zenon DEF TypeOK
<1>4. SlotsInUse' BY <1>1, Zenon DEF SlotsInUse, Core, IInv
<1>5. ~running[t] BY <1>1, Zenon DEF SlotsInUse, Core, IInv
<1>6. \A s \in Slots : is_running(s)' =>
          is_running(s) /\ timeout'[s] = timeout[s] /\ duration'[s] = duration[s]
  BY <1>1, <1>5, Zenon DEF is_running
<1>7. Core' BY <1>1, <1>3, <1>4, <1>6, <1>t, QuietKeepsCore, Zenon
<1>8. FiredStaysExpired' BY <1>1, <1>2, Zenon DEF FiredStaysExpired, IInv, is_expired
<1> QED BY <1>7, <1>8 DEF IInv

-----------------------------------------------------------------------------
(***************************************************************************)
(* The steps of step_all.                                                  *)
(***************************************************************************)
LEMMA StepInv == ASSUME NoWrap, IInv, Step PROVE IInv' /\ cur_time' = cur_time + 1
<1>t. TypeOK /\ Core BY DEF IInv, Core
<1>c. /\ CLOCK \in Nat /\ LAST_TICK \in Nat /\ MAX_TIMER_DURATION \in Nat /\ Threshold \in Nat
      /\ LAST_TICK + MAX_TIMER_DURATION < CLOCK
  BY Constants, NoWrapFacts
<1>n. /\ cur_time \in Nat /\ timeout \in [Slots -> Nat] /\ duration \in [Slots -> Nat]
      /\ \A e \in Entries : e.timeout \in Nat
  BY <1>t, TypeFacts, SMT
<1>1. /\ cur_time < LAST_TICK /\ ~stepping /\ stepping' = TRUE
      /\ UNCHANGED <<duration, timeout, running, active, running_timers, firing, life>>
  BY DEF Step, timers
<1>2. cur_time + 1 \in Time BY <1>1, <1>c, <1>n, SMT DEF Time
<1>3. cur_time' = cur_time + 1 BY <1>2, UIntSmall, Zenon DEF Step
<1>4. TypeOK' BY <1>1, <1>2, <1>3, <1>t, Zenon DEF TypeOK
<1>5. SlotsInUse' BY <1>1, Zenon DEF SlotsInUse, Core, IInv
<1>6. ClockInRange' BY <1>1, <1>3, <1>c, <1>n, SMT DEF ClockInRange
<1>7. Queued' = Queued /\ \A s \in Slots : is_running(s)' <=> is_running(s)
  BY <1>1, Zenon DEF Queued, is_running
<1>8. QueueNear'
  <2>1. Earliest' = Earliest BY <1>1, <1>3, <1>n, SMT DEF Earliest
  <2>2. \A e \in Queued : e.timeout \in Nat BY <1>n, QueuedIsEntry, Zenon
  <2>3. \A e \in Queued : e.timeout + 1 < cur_time' + Threshold
    BY <2>2, <1>3, <1>n, <1>c, <1>t, SMT DEF Core, QueueNear
  <2> QED BY <2>1, <2>3, <1>7, <1>t, Zenon DEF Core, QueueNear
<1>9. RunningIsQueued' BY <1>1, <1>7, <1>t, Zenon DEF Core, RunningIsQueued
<1>10. FiringFirst'
  <2>1. firing = {} BY <1>1, <1>t, Zenon DEF Core, FiringFirst
  <2> QED BY <2>1, <1>1, Zenon DEF FiringFirst
<1>11. StartedBefore'
  <2> SUFFICES ASSUME NEW s \in Slots, is_running(s)
               PROVE  /\ timeout[s] - duration[s] <= cur_time'
                      /\ cur_time' <= timeout[s] \/ duration[s] = 0
    BY <1>1, <1>7, Zenon DEF StartedBefore
  <2>1. /\ timeout[s] - duration[s] <= cur_time
        /\ cur_time < timeout[s] \/ duration[s] = 0
    BY <1>1, <1>t, Zenon DEF Core, StartedBefore
  <2> QED BY <2>1, <1>3, <1>n, SMT
<1>12. FiredStaysExpired'
  <2>1. Slots \in SUBSET Slots /\ cur_time' \in Nat /\ cur_time <= cur_time' BY <1>3, <1>n, SMT
  <2> QED BY <1>1, <2>1, <1>t, FiredKept, Zenon DEF IInv, FiredStaysExpired
<1> QED BY <1>3, <1>4, <1>5, <1>6, <1>8, <1>9, <1>10, <1>11, <1>12 DEF IInv, Core

\* Popping an entry that no running timer counts on.
LEMMA PopKeeps ==
    ASSUME TypeOK, NEW e \in Queued, running_timers' = Popped(e)
    PROVE  /\ running_timers' \in [Entries -> Nat]
           /\ Queued' \subseteq Queued
           /\ Queued \ {e} \subseteq Queued'
           /\ running_timers[e] >= 2 => e \in Queued'
<1>1. e \in Entries /\ running_timers \in [Entries -> Nat] BY QueuedIsEntry DEF TypeOK
<1>2. running_timers[e] > 0 BY DEF Queued
<1>3. /\ running_timers' \in [Entries -> Nat]
      /\ running_timers'[e] = running_timers[e] - 1
      /\ \A f \in Entries \ {e} : running_timers'[f] = running_timers[f]
  BY <1>1, <1>2, SMT DEF Popped
<1> QED BY <1>1, <1>2, <1>3, SMT DEF Queued

LEMMA PopInv ==
    ASSUME IInv, NEW e \in Queued, running_timers' = Popped(e), firing' = {},
           UNCHANGED <<duration, timeout, running, active, cur_time, stepping, life>>,
           Counts(e) => running_timers[e] >= 2
    PROVE  IInv'
<1>t. TypeOK /\ Core BY DEF IInv, Core
<1>1. /\ running_timers' \in [Entries -> Nat] /\ Queued' \subseteq Queued
      /\ Queued \ {e} \subseteq Queued'
      /\ running_timers[e] >= 2 => e \in Queued'
  BY <1>t, PopKeeps, Zenon
<1>2. TypeOK' BY <1>1, <1>t, Zenon DEF TypeOK
<1>3. SlotsInUse' /\ ClockInRange' /\ FiredStaysExpired' /\ StartedBefore'
  BY <1>t, Zenon DEF IInv, Core, SlotsInUse, ClockInRange, FiredStaysExpired, is_expired,
     StartedBefore, is_running
<1>4. QueueNear' BY <1>1, <1>t, Zenon DEF Core, QueueNear, Earliest
<1>5. RunningIsQueued'
  <2> SUFFICES ASSUME NEW s \in Slots, is_running(s) PROVE Entry(s, timeout[s]) \in Queued'
    BY Zenon DEF RunningIsQueued, is_running, Entry
  <2>1. Entry(s, timeout[s]) \in Queued BY <1>t, Zenon DEF Core, RunningIsQueued, Entry
  <2>2. CASE Entry(s, timeout[s]) = e
    <3>1. e.timer_id = s /\ e.timeout = timeout[s] BY <2>2, SMT DEF Entry
    <3>2. Counts(e) BY <3>1, Zenon DEF Counts
    <3>3. e \in Queued' BY <3>2, <1>1
    <3> QED BY <3>3, <2>2, Zenon
  <2>3. CASE Entry(s, timeout[s]) # e
    <3>1. Entry(s, timeout[s]) \in Queued \ {e} BY <2>1, <2>3, Zenon
    <3> QED BY <3>1, <1>1, Zenon
  <2> QED BY <2>2, <2>3
<1>6. FiringFirst' BY Zenon DEF FiringFirst
<1> QED BY <1>2, <1>3, <1>4, <1>5, <1>6 DEF IInv, Core

LEMMA PopIgnoredInv == ASSUME IInv, PopIgnored PROVE IInv'
<1>1. PICK e \in DueTops : ~Counts(e) /\ running_timers' = Popped(e) BY DEF PopIgnored
<1>2. e \in Queued BY DEF DueTops, Tops
<1>3. firing' = {} /\ UNCHANGED <<duration, timeout, running, active, cur_time, stepping, life>>
  BY DEF PopIgnored, timers
<1> QED BY <1>1, <1>2, <1>3, PopInv, Zenon

LEMMA CallbackReturnsInv == ASSUME IInv, CallbackReturns PROVE IInv'
<1>t. TypeOK /\ QueueNear /\ FiringFirst BY DEF IInv, Core
<1>1. PICK e \in firing : \E top \in (IF e \in Tops THEN {e} ELSE Tops) : running_timers' = Popped(top)
  BY DEF CallbackReturns
<1>2. e \in Queued /\ (Counts(e) => running_timers[e] >= 2) /\ \A f \in Queued : e.timeout <= f.timeout
  BY <1>t, Zenon DEF FiringFirst
<1>3. e \in Tops BY <1>t, <1>2, TopsAreEarliest, Zenon
<1>4. running_timers' = Popped(e) BY <1>1, <1>3
<1>5. firing' = {} /\ UNCHANGED <<duration, timeout, running, active, cur_time, stepping, life>>
  BY DEF CallbackReturns, timers
<1> QED BY <1>2, <1>4, <1>5, PopInv, Zenon

LEMMA TriggerInv == ASSUME IInv, Trigger PROVE IInv'
<1>t. TypeOK /\ Core BY DEF IInv, Core
<1>1. PICK e \in DueTops :
          /\ Counts(e) /\ firing' = {e}
          /\ running' = [running EXCEPT ![e.timer_id] = FALSE]
          /\ life' = [life EXCEPT ![e.timer_id] = "fired"]
  BY Zenon DEF Trigger
<1>2. /\ UNCHANGED <<duration, timeout, active, running_timers, cur_time, stepping>>
      /\ stepping /\ firing = {}
  BY DEF Trigger
<1> DEFINE t == e.timer_id
<1>3. /\ e \in Tops /\ e \in Queued /\ e \in Entries /\ cur_time >= e.timeout
  BY QueuedIsEntry, Zenon DEF DueTops, Tops
<1>n. t \in Slots /\ e.timeout \in Nat /\ cur_time \in Nat BY <1>3, <1>t, TypeFacts, SMT
<1>4. e.timeout <= cur_time /\ \A f \in Queued : e.timeout <= f.timeout
  BY <1>3, <1>n, <1>t, TopsAreEarliest, SMT DEF Core
<1>5. /\ running' \in [Slots -> BOOLEAN] /\ running'[t] = FALSE
      /\ \A s \in Slots \ {t} : running'[s] = running[s]
  BY <1>1, <1>n, <1>t, Zenon DEF TypeOK
<1>6. life' \in [Slots -> Lives] /\ \A s \in Slots \ {t} : life'[s] = life[s]
  BY <1>1, <1>n, <1>t, LifeType, Zenon DEF Lives
<1>7. TypeOK' BY <1>1, <1>2, <1>3, <1>5, <1>6, <1>t, Zenon DEF TypeOK
<1>8. SlotsInUse'
  <2>1. \A s \in Slots : running'[s] => running[s] BY <1>5, Zenon
  <2> QED BY <2>1, <1>2, <1>t, Zenon DEF SlotsInUse, Core
<1>9. ClockInRange' BY <1>2, <1>t, Zenon DEF ClockInRange, Core
<1>10. Queued' = Queued BY <1>2 DEF Queued
<1>11. QueueNear' BY <1>2, <1>10, <1>t, Zenon DEF Core, QueueNear, Earliest
<1>12. \A s \in Slots : is_running(s)' => is_running(s) BY <1>2, <1>5, Zenon DEF is_running
<1>13. RunningIsQueued' BY <1>2, <1>10, <1>12, <1>t, Zenon DEF Core, RunningIsQueued
<1>14. StartedBefore' BY <1>2, <1>12, <1>t, Zenon DEF Core, StartedBefore
<1>15. FiringFirst'
  <2>1. ~Counts(e)' BY <1>5, Zenon DEF Counts, is_running
  <2> QED BY <2>1, <1>1, <1>2, <1>3, <1>4, <1>10, Zenon DEF FiringFirst
<1>16. FiredStaysExpired'
  <2>1. Slots \ {t} \in SUBSET Slots /\ cur_time' \in Nat /\ cur_time <= cur_time'
    BY <1>2, <1>n, SMT
  <2>2. \A s \in Slots \ {t} : life'[s] = "fired" => is_expired(s)'
    BY <2>1, <1>2, <1>5, <1>6, <1>t, FiredKept, Zenon DEF IInv
  <2>3. is_expired(t)'
    BY <1>1, <1>2, <1>4, <1>5, Zenon DEF Counts, is_running, is_expired
  <2> QED BY <2>2, <2>3, Zenon DEF FiredStaysExpired
<1> QED BY <1>7, <1>8, <1>9, <1>11, <1>13, <1>14, <1>15, <1>16 DEF IInv, Core

LEMMA StepEndsInv == ASSUME IInv, StepEnds PROVE IInv' /\ \A e \in Queued : e.timeout > cur_time
<1>t. TypeOK /\ Core BY DEF IInv, Core
<1>1. /\ UNCHANGED <<duration, timeout, running, active, running_timers, cur_time, firing, life>>
      /\ stepping /\ stepping' = FALSE /\ firing = {}
  BY DEF StepEnds, timers
<1>2. \A e \in Queued : e.timeout > cur_time
  BY <1>1, <1>t, NothingDueLeft, Zenon DEF StepEnds, Core
<1>3. Queued' = Queued /\ \A s \in Slots : is_running(s)' <=> is_running(s)
  BY <1>1, Zenon DEF Queued, is_running
<1>n. cur_time \in Nat /\ \A e \in Queued : e.timeout \in Nat
  BY <1>t, TypeFacts, QueuedIsEntry, SMT
<1>4. TypeOK' /\ SlotsInUse' /\ ClockInRange' /\ FiredStaysExpired' /\ RunningIsQueued'
  BY <1>1, <1>3, <1>t, Zenon DEF IInv, Core, TypeOK, SlotsInUse, ClockInRange, FiredStaysExpired,
     is_expired, RunningIsQueued
<1>5. QueueNear'
  <2>1. Earliest' = cur_time BY <1>1, Zenon DEF Earliest
  <2>2. \A e \in Queued : e.timeout >= cur_time BY <1>2, <1>n, SMT
  <2> QED BY <2>1, <2>2, <1>1, <1>3, <1>t, Zenon DEF Core, QueueNear
<1>6. FiringFirst' BY <1>1, Zenon DEF FiringFirst
<1>7. StartedBefore'
  <2>1. \A s \in Slots : is_running(s) => cur_time < timeout[s]
    <3> SUFFICES ASSUME NEW s \in Slots, is_running(s) PROVE cur_time < timeout[s] OBVIOUS
    <3>1. Entry(s, timeout[s]) \in Queued BY <1>t, Zenon DEF Core, RunningIsQueued, Entry
    <3>2. Entry(s, timeout[s]).timeout = timeout[s] BY SMT DEF Entry
    <3>3. timeout[s] > cur_time /\ timeout[s] \in Nat BY <3>1, <3>2, <1>2, <1>n, Zenon
    <3> QED BY <3>3, <1>n, SMT
  <2> QED BY <2>1, <1>1, <1>3, <1>t, Zenon DEF Core, StartedBefore
<1> QED BY <1>2, <1>4, <1>5, <1>6, <1>7 DEF IInv, Core

-----------------------------------------------------------------------------
(***************************************************************************)
(* Invariance.                                                             *)
(***************************************************************************)
LEMMA NextInv == ASSUME NoWrap, IInv, [Next]_vars PROVE IInv'
<1>1. ASSUME NEW t \in Slots, Run(t) PROVE IInv' BY <1>1, RunInv
<1>2. ASSUME NEW t \in Slots, Stop(t) \/ Clear(t) PROVE IInv' BY <1>2, StopInv
<1>3. ASSUME NEW t \in Slots, GetUniqueTimer(t) PROVE IInv' BY <1>3, GetInv
<1>4. ASSUME NEW t \in Slots, NEW d \in DURATIONS, Set(t, d) PROVE IInv' BY <1>4, SetInv
<1>5. ASSUME Step PROVE IInv' BY <1>5, StepInv
<1>6. ASSUME PopIgnored PROVE IInv' BY <1>6, PopIgnoredInv
<1>7. ASSUME Trigger PROVE IInv' BY <1>7, TriggerInv
<1>8. ASSUME CallbackReturns PROVE IInv' BY <1>8, CallbackReturnsInv
<1>9. ASSUME StepEnds PROVE IInv' BY <1>9, StepEndsInv
<1>10. CASE UNCHANGED vars
  BY <1>10, Zenon DEF vars, timers, IInv, Core, TypeOK, SlotsInUse, ClockInRange, QueueNear, Queued,
     Earliest, RunningIsQueued, is_running, FiringFirst, Counts, StartedBefore, FiredStaysExpired,
     is_expired
<1> QED BY <1>1, <1>2, <1>3, <1>4, <1>5, <1>6, <1>7, <1>8, <1>9, <1>10, Zenon DEF Next

LEMMA Elapsed == ASSUME NoWrap, IInv PROVE ElapsedWithinDuration
<1> SUFFICES ASSUME NEW t \in Slots, is_running(t), duration[t] # 0
             PROVE  value(t) <= duration[t]
  BY Zenon DEF ElapsedWithinDuration
<1>1. cur_time \in Nat /\ timeout[t] \in Nat /\ duration[t] \in 0 .. MAX_TIMER_DURATION
  BY TypeFacts, SMT DEF IInv, Core, TypeOK
<1>2. timeout[t] - duration[t] <= cur_time /\ cur_time <= timeout[t]
  BY Zenon DEF IInv, Core, StartedBefore
<1> DEFINE x == cur_time - (timeout[t] - duration[t])
<1>3. x \in Nat /\ x <= duration[t] BY <1>1, <1>2, SMT
<1>4. x \in Time
  <2>1. MAX_TIMER_DURATION < CLOCK /\ CLOCK \in Nat /\ MAX_TIMER_DURATION \in Nat
    BY Constants, NoWrapFacts, SMT
  <2> QED BY <1>1, <1>3, <2>1, SMT DEF Time
<1>5. UInt(x) = x BY ONLY <1>4, UIntSmall, Zenon
<1> QED BY <1>3, <1>5 DEF value

LEMMA TimersInductive == ASSUME NoWrap PROVE Spec => []IInv
<1>1. IInv /\ [Next]_vars => IInv' BY NextInv
<1> QED BY <1>1, InitInv, PTL DEF Spec

(***************************************************************************)
(* Up to the wrap of the clock no duration, timeout or queue entry leaves  *)
(* its range, and step_all is never inside more than one callback.         *)
(***************************************************************************)
THEOREM TimersTypeCorrect == ASSUME NoWrap PROVE Spec => []TypeOK
<1>1. IInv => TypeOK BY DEF IInv, Core
<1> QED BY <1>1, TimersInductive, PTL

(***************************************************************************)
(* Up to the wrap of the clock a running timer has the entry that will     *)
(* fire it in the queue, whatever is stopped, started again or released by *)
(* callbacks while step_all works the queue off.                           *)
(***************************************************************************)
THEOREM TimersSafe == ASSUME NoWrap PROVE Spec => []RunningIsQueued
<1>1. IInv => RunningIsQueued BY DEF IInv, Core
<1> QED BY <1>1, TimersInductive, PTL

(***************************************************************************)
(* Up to the wrap of the clock value() of a running timer is the time      *)
(* since run(), never a difference that went below zero.                   *)
(***************************************************************************)
THEOREM ElapsedIsTime == ASSUME NoWrap PROVE Spec => []ElapsedWithinDuration
<1>1. ASSUME NoWrap PROVE IInv => ElapsedWithinDuration BY Elapsed
<1> QED BY <1>1, TimersInductive, PTL

(***************************************************************************)
(* Up to the wrap of the clock a timer that has fired stays expired,       *)
(* stop() included, until it is started again or released.                 *)
(***************************************************************************)
THEOREM ExpiryIsKept == ASSUME NoWrap PROVE Spec => []FiredStaysExpired
<1>1. IInv => FiredStaysExpired BY DEF IInv
<1> QED BY <1>1, TimersInductive, PTL

-----------------------------------------------------------------------------
(***************************************************************************)
(* The refinement.                                                         *)
(***************************************************************************)
On   == {s \in Slots : is_running(s)}
Left == [t \in On |-> timeout[t] - cur_time]
Calling == {e.timer_id : e \in firing}

LEMMA InitServes == Init => Service!Init
<1> SUFFICES ASSUME Init PROVE Service!Init OBVIOUS
<1>1. On = {} BY SMT DEF On, Init, is_running
<1>2. Left = << >> BY <1>1, SMT DEF Left
<1>3. Calling = {} BY SMT DEF Calling, Init
<1> QED BY <1>2, <1>3, Zenon DEF Service!Init, Init, Left, Calling, On

\* A step that changes neither what runs nor the callback is a stutter.
LEMMA Stutters ==
    ASSUME \A s \in Slots : is_running(s)' <=> is_running(s),
           \A s \in Slots : is_running(s) => timeout'[s] = timeout[s],
           UNCHANGED <<cur_time, firing, stepping>>
    PROVE  UNCHANGED <<Left, Calling, stepping>>
<1>1. On' = On BY Zenon DEF On
<1>2. \A s \in On : timeout'[s] = timeout[s] BY Zenon DEF On
<1>3. Left' = Left BY <1>1, <1>2, SMT DEF Left
<1> QED BY <1>3, SMT DEF Calling

LEMMA StartServes ==
    ASSUME TypeOK, NEW t \in Slots, NEW d \in 0 .. MAX_TIMER_DURATION, active[t],
           timeout' = [timeout EXCEPT ![t] = cur_time + d],
           running' = [running EXCEPT ![t] = TRUE],
           UNCHANGED <<active, cur_time, stepping, firing>>
    PROVE  Service!Start(t, d) \/ Service!Cancel(t)
<1>1. cur_time \in Nat /\ timeout \in [Slots -> Nat] /\ d \in Nat /\ MAX_TIMER_DURATION \in Nat
  BY TypeFacts, Constants, SMT
<1>2. \A s \in Slots \ {t} : timeout'[s] = timeout[s] /\ (is_running(s)' <=> is_running(s))
  BY <1>1, Zenon DEF TypeOK, is_running
<1>3. timeout'[t] = cur_time + d /\ running'[t] /\ active'[t]
  BY <1>1, Zenon DEF TypeOK
<1>4. Calling' = Calling BY SMT DEF Calling
<1>5. CASE cur_time + d > 0
  <2>1. On' = On \union {t} BY <1>2, <1>3, <1>5, SMTT(30) DEF On, is_running
  <2>2. \A s \in On \ {t} : timeout'[s] = timeout[s] BY <1>2, Zenon DEF On
  <2>3. timeout'[t] - cur_time = d BY <1>1, <1>3, SMT
  <2>4. Left' = [s \in On \union {t} |-> IF s = t THEN d ELSE Left[s]]
    BY <2>1, <2>2, <2>3, SMT DEF Left
  <2>5. DOMAIN Left = On BY Zenon DEF Left
  <2> QED BY <1>4, <2>4, <2>5, Zenon DEF Service!Start, Service!Armed, Left, Calling, On
<1>6. CASE ~(cur_time + d > 0)
  <2>1. On' = On \ {t} BY <1>2, <1>3, <1>6, ZenonT(30) DEF On, is_running
  <2>2. \A s \in On \ {t} : timeout'[s] = timeout[s] BY <1>2, Zenon DEF On
  <2>4. Left' = [s \in On \ {t} |-> Left[s]] BY <2>1, <2>2, SMT DEF Left
  <2>5. DOMAIN Left = On BY Zenon DEF Left
  <2> QED BY <1>4, <2>4, <2>5, Zenon DEF Service!Cancel, Service!Armed, Left, Calling, On
<1> QED BY <1>5, <1>6

LEMMA StopServes == ASSUME TypeOK, NEW t \in Slots, Stop(t) \/ Clear(t) PROVE Service!Cancel(t)
<1>1. /\ Stopped(t) /\ UNCHANGED <<cur_time, stepping, firing>>
      /\ \A s \in Slots \ {t} : active'[s] = active[s]
  BY Zenon DEF Stop, Clear, TypeOK
<1>2. /\ \A s \in Slots \ {t} : timeout'[s] = timeout[s] /\ running'[s] = running[s]
      /\ running'[t] = FALSE
  BY <1>1, StopFacts, Zenon
<1>3. On' = On \ {t} BY <1>1, <1>2, Zenon DEF On, is_running
<1>4. \A s \in On \ {t} : timeout'[s] = timeout[s] BY <1>2, Zenon DEF On
<1>5. Left' = [s \in On \ {t} |-> Left[s]] BY <1>1, <1>3, <1>4, SMT DEF Left
<1>6. DOMAIN Left = On BY Zenon DEF Left
<1>7. Calling' = Calling BY <1>1, SMT DEF Calling
<1> QED BY <1>1, <1>5, <1>6, <1>7, Zenon DEF Service!Cancel, Service!Armed, Left, Calling, On

LEMMA TickServes == ASSUME NoWrap, IInv, Step PROVE Service!Tick
<1>1. cur_time' = cur_time + 1 BY StepInv
<1>2. ~stepping /\ stepping' = TRUE /\ UNCHANGED <<timeout, running, active, firing>>
  BY DEF Step, timers
<1>n. cur_time \in Nat /\ timeout \in [Slots -> Nat] BY TypeFacts DEF IInv, Core
<1>3. On' = On BY <1>2, Zenon DEF On, is_running
<1>4. DOMAIN Left = On /\ \A s \in On : Left[s] = timeout[s] - cur_time BY SMT DEF Left
<1>5. \A s \in On : timeout'[s] - cur_time' = Left[s] - 1
  <2>1. \A s \in On : timeout[s] \in Nat BY <1>n, Zenon DEF On
  <2> QED BY <2>1, <1>n, <1>1, <1>2, <1>4, SMT
<1>6. Left' = [s \in On |-> Left[s] - 1] BY <1>3, <1>5, Zenon DEF Left
<1>7. Calling' = Calling BY <1>2, SMT DEF Calling
<1> QED BY <1>2, <1>4, <1>6, <1>7, Zenon DEF Service!Tick, Service!Armed, Left, Calling, On

LEMMA TriggerServes == ASSUME IInv, Trigger PROVE \E t \in Slots : Service!Call(t)
<1>t. TypeOK BY DEF IInv, Core
<1>1. PICK e \in DueTops :
          /\ Counts(e) /\ firing' = {e}
          /\ running' = [running EXCEPT ![e.timer_id] = FALSE]
  BY Zenon DEF Trigger
<1>2. /\ UNCHANGED <<timeout, active, cur_time, stepping>>
      /\ stepping /\ firing = {}
  BY DEF Trigger
<1> DEFINE t == e.timer_id
<1>3. e \in Entries /\ cur_time >= e.timeout BY QueuedIsEntry, Zenon DEF DueTops, Tops
<1>n. t \in Slots /\ e.timeout \in Nat /\ cur_time \in Nat BY <1>3, <1>t, TypeFacts, SMT
<1>4. timeout[t] = e.timeout /\ is_running(t) BY <1>1, Zenon DEF Counts
<1>5. running'[t] = FALSE /\ \A s \in Slots \ {t} : running'[s] = running[s]
  BY <1>1, <1>n, <1>t, Zenon DEF TypeOK
<1>6. On' = On \ {t} BY <1>2, <1>5, Zenon DEF On, is_running
<1>7. Left' = [s \in On \ {t} |-> Left[s]] BY <1>2, <1>6, SMT DEF Left
<1>8. DOMAIN Left = On BY Zenon DEF Left
<1>9. t \in On /\ Left[t] <= 0
  <2>1. t \in On BY <1>4, <1>n, Zenon DEF On
  <2>2. Left[t] = timeout[t] - cur_time BY <2>1, Zenon DEF Left
  <2>3. timeout[t] - cur_time <= 0 BY <1>3, <1>4, <1>n, SMT
  <2> QED BY <2>1, <2>2, <2>3
<1>10. Calling = {} /\ Calling' = {t}
  <2>1. Calling = {} BY <1>2, SMT DEF Calling
  <2>2. Calling' = {x.timer_id : x \in {e}} BY <1>1, Zenon DEF Calling
  <2> QED BY <2>1, <2>2, SMT
<1>11. Service!Call(t)
  BY <1>2, <1>7, <1>8, <1>9, <1>10, Zenon DEF Service!Call, Service!Armed, Left, Calling, On
<1> QED BY <1>11, <1>n

LEMMA ReturnServes == ASSUME IInv, CallbackReturns PROVE Service!Return
<1>1. /\ UNCHANGED <<timeout, running, active, cur_time, stepping>>
      /\ firing # {} /\ firing' = {}
  BY Zenon DEF CallbackReturns, timers
<1>2. On' = On BY <1>1, Zenon DEF On, is_running
<1>3. Left' = Left BY <1>1, <1>2, Zenon DEF Left
<1>4. Calling # {} /\ Calling' = {} BY <1>1, SMT DEF Calling
<1> QED BY <1>1, <1>3, <1>4, Zenon DEF Service!Return, Left, Calling, On

LEMMA EndServes == ASSUME IInv, StepEnds PROVE Service!EndTick
<1>t. TypeOK /\ Core BY DEF IInv, Core
<1>1. /\ UNCHANGED <<timeout, running, active, cur_time, firing>>
      /\ stepping /\ stepping' = FALSE /\ firing = {}
  BY DEF StepEnds, timers
<1>2. On' = On BY <1>1, Zenon DEF On, is_running
<1>3. Left' = Left BY <1>1, <1>2, Zenon DEF Left
<1>4. Calling = {} /\ Calling' = Calling BY <1>1, SMT DEF Calling
<1>5. DOMAIN Left = On BY Zenon DEF Left
<1>6. \A s \in On : Left[s] > 0
  <2> SUFFICES ASSUME NEW s \in On PROVE Left[s] > 0 OBVIOUS
  <2>1. s \in Slots /\ is_running(s) BY DEF On
  <2>2. Entry(s, timeout[s]) \in Queued BY <2>1, <1>t, Zenon DEF Core, RunningIsQueued, Entry
  <2>3. Entry(s, timeout[s]).timeout = timeout[s] BY SMT DEF Entry
  <2>4. timeout[s] > cur_time BY <2>2, <2>3, StepEndsInv, Zenon
  <2>5. timeout[s] \in Nat /\ cur_time \in Nat BY <2>1, <1>t, TypeFacts
  <2>6. Left[s] = timeout[s] - cur_time BY Zenon DEF Left
  <2> QED BY <2>4, <2>5, <2>6, SMT
<1> QED BY <1>1, <1>3, <1>4, <1>5, <1>6, Zenon DEF Service!EndTick, Service!Armed, Left, Calling, On

LEMMA NextServes ==
    ASSUME NoWrap, IInv, [Next]_vars
    PROVE  Service!Next \/ UNCHANGED <<Left, Calling, stepping>>
<1>t. TypeOK /\ Core BY DEF IInv, Core
<1> DEFINE D == 0 .. MAX_TIMER_DURATION
           Q == Service!Next \/ UNCHANGED <<Left, Calling, stepping>>
<1>0. \A t \in Slots, d \in D : Service!Start(t, d) \/ Service!Cancel(t) => Q
  BY Zenon DEF Service!Next
<1> HIDE DEF Q
<1>1. ASSUME NEW t \in Slots, Run(t) PROVE Q
  <2>1. duration[t] \in D BY <1>t, Zenon DEF TypeOK
  <2>2. /\ active[t] /\ timeout' = [timeout EXCEPT ![t] = UInt(cur_time + duration[t])]
        /\ running' = [running EXCEPT ![t] = TRUE]
        /\ UNCHANGED <<active, cur_time, stepping, firing>>
    BY <1>1, Zenon DEF Run, Started
  <2>3. cur_time + duration[t] \in Time
    BY <2>1, <1>t, Constants, NoWrapFacts, TypeFacts, SMT DEF Core, ClockInRange, Time
  <2>4. UInt(cur_time + duration[t]) = cur_time + duration[t] BY <2>3, UIntSmall
  <2>5. timeout' = [timeout EXCEPT ![t] = cur_time + duration[t]] BY <2>2, <2>4, Zenon
  <2>6. ASSUME NEW x \in D, x = duration[t] PROVE Q
    <3>1. timeout' = [timeout EXCEPT ![t] = cur_time + x] BY <2>5, <2>6, Zenon
    <3>2. x \in 0 .. MAX_TIMER_DURATION OBVIOUS
    <3>3. Service!Start(t, x) \/ Service!Cancel(t)
      BY <2>2, <3>1, <3>2, <1>t, StartServes, Zenon
    <3> QED BY <3>3, <1>0, Zenon
  <2> QED BY <2>1, <2>6, Zenon
<1>2. ASSUME NEW t \in Slots, NEW d \in DURATIONS, Set(t, d) PROVE Q
  <2>1. d \in D BY <1>2, Constants, SMT DEF Set, Allowed
  <2>2. CASE Restarts(t)
    <3>2. /\ active[t] /\ timeout' = [timeout EXCEPT ![t] = UInt(cur_time + d)]
          /\ running' = [running EXCEPT ![t] = TRUE]
          /\ UNCHANGED <<active, cur_time, stepping, firing>>
      BY <1>2, <2>2, Zenon DEF Set, Started
    <3>3. cur_time + d \in Time
      BY <2>1, <1>t, Constants, NoWrapFacts, TypeFacts, SMT DEF Core, ClockInRange, Time
    <3>4. UInt(cur_time + d) = cur_time + d BY <3>3, UIntSmall
    <3>5. timeout' = [timeout EXCEPT ![t] = cur_time + d] BY <3>2, <3>4, Zenon
    <3>7. Service!Start(t, d) \/ Service!Cancel(t) BY <2>1, <3>2, <3>5, <1>t, StartServes, Zenon
    <3> QED BY <2>1, <3>7, <1>0, Zenon
  <2>3. CASE ~Restarts(t)
    <3>1. UNCHANGED <<timeout, running, active, cur_time, stepping, firing>> BY <1>2, <2>3 DEF Set
    <3>2. \A s \in Slots : is_running(s)' <=> is_running(s) BY <3>1, Zenon DEF is_running
    <3> QED BY <3>1, <3>2, Stutters, Zenon DEF Q
  <2> QED BY <2>2, <2>3
<1>3. ASSUME NEW t \in Slots, Stop(t) \/ Clear(t) PROVE Q
  BY <1>3, <1>t, StopServes, Zenon DEF Q, Service!Next
<1>4. ASSUME NEW t \in Slots, GetUniqueTimer(t) PROVE Q
  <2>1. UNCHANGED <<timeout, running, cur_time, stepping, firing>> BY <1>4 DEF GetUniqueTimer
  <2>2. /\ \A s \in Slots \ {t} : active'[s] = active[s]
        /\ ~active[t]
    BY <1>4, <1>t, Zenon DEF GetUniqueTimer, TypeOK
  <2>3. ~running[t] BY <2>2, <1>t, Zenon DEF SlotsInUse, Core
  <2>4. \A s \in Slots : is_running(s)' <=> is_running(s) BY <2>1, <2>2, <2>3, Zenon DEF is_running
  <2> QED BY <2>1, <2>4, Stutters, Zenon DEF Q
<1>5. ASSUME Step PROVE Q BY <1>5, TickServes, Zenon DEF Q, Service!Next
<1>6. ASSUME PopIgnored PROVE Q
  <2>1. UNCHANGED <<timeout, running, active, cur_time, stepping, firing>>
    BY <1>6 DEF PopIgnored, timers
  <2>2. \A s \in Slots : is_running(s)' <=> is_running(s) BY <2>1, Zenon DEF is_running
  <2> QED BY <2>1, <2>2, Stutters, Zenon DEF Q
<1>7. ASSUME Trigger PROVE Q BY <1>7, TriggerServes, Zenon DEF Q, Service!Next
<1>8. ASSUME CallbackReturns PROVE Q BY <1>8, ReturnServes, Zenon DEF Q, Service!Next
<1>9. ASSUME StepEnds PROVE Q BY <1>9, EndServes, Zenon DEF Q, Service!Next
<1>10. ASSUME UNCHANGED vars PROVE Q
  <2>1. UNCHANGED <<timeout, running, active, cur_time, stepping, firing>>
    BY <1>10 DEF vars, timers
  <2>2. \A s \in Slots : is_running(s)' <=> is_running(s) BY <2>1, Zenon DEF is_running
  <2> QED BY <2>1, <2>2, Stutters, Zenon DEF Q
<1>11. Q BY <1>1, <1>2, <1>3, <1>4, <1>5, <1>6, <1>7, <1>8, <1>9, <1>10, Zenon DEF Next
<1> QED BY <1>11 DEF Q

(***************************************************************************)
(* timer_handler gives its users the service of TimerService for any       *)
(* number of timers, any interleaving of callbacks and any reuse of slots, *)
(* until the clock comes near the end of uint32_t.                         *)
(***************************************************************************)
THEOREM TimersServe == ASSUME NoWrap PROVE Spec => FiresOnTime
<1>1. Init => Service!Init BY InitServes
<1>2. Init => IInv BY InitInv
<1>3. IInv /\ [Next]_vars => IInv' BY NextInv
<1>4. IInv /\ [Next]_vars => [Service!Next]_<<Left, Calling, stepping>> BY NextServes
<1>5. Service!Spec <=> Service!Init /\ [][Service!Next]_<<Left, Calling, stepping>>
  BY DEF Service!Spec, Left, Calling, On
<1> QED BY <1>1, <1>2, <1>3, <1>4, <1>5, PTL DEF Spec, FiresOnTime
=============================================================================
