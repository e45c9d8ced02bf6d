---------------------------- MODULE TimerService ----------------------------
(***************************************************************************)
(* What the users of timer_handler rely on: a timer that is started with a *)
(* duration calls back once, in the tick in which the duration is over,    *)
(* unless it is stopped or started again before; and no tick ends with a   *)
(* timer that is due and has not called back.                              *)
(***************************************************************************)
EXTENDS Integers

CONSTANTS Timer, Duration

VARIABLES
    left,     \* ticks until each timer that is started is due
    calling,  \* the timer whose callback is running: {} or {t}
    ticking   \* is a tick being worked off

Init ==
    /\ left = << >>
    /\ calling = {}
    /\ ticking = FALSE

Armed == DOMAIN left

Start(t, d) ==
    /\ left' = [s \in Armed \union {t} |-> IF s = t THEN d ELSE left[s]]
    /\ UNCHANGED <<calling, ticking>>

Cancel(t) ==
    /\ left' = [s \in Armed \ {t} |-> left[s]]
    /\ UNCHANGED <<calling, ticking>>

Tick ==
    /\ ~ticking
    /\ ticking' = TRUE
    /\ left' = [s \in Armed |-> left[s] - 1]
    /\ UNCHANGED calling

Call(t) ==
    /\ ticking /\ calling = {}
    /\ t \in Armed /\ left[t] <= 0
    /\ left' = [s \in Armed \ {t} |-> left[s]]
    /\ calling' = {t}
    /\ UNCHANGED ticking

Return ==
    /\ calling # {}
    /\ calling' = {}
    /\ UNCHANGED <<left, ticking>>

EndTick ==
    /\ ticking /\ calling = {}
    /\ \A t \in Armed : left[t] > 0
    /\ ticking' = FALSE
    /\ UNCHANGED <<left, calling>>

Next ==
    \/ \E t \in Timer : Call(t) \/ Cancel(t) \/ \E d \in Duration : Start(t, d)
    \/ Tick
    \/ Return
    \/ EndTick

Spec == Init /\ [][Next]_<<left, calling, ticking>>
=============================================================================
