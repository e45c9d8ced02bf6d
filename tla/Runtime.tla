------------------------------ MODULE Runtime -------------------------------
(***************************************************************************)
(* What runs beside the AM bearers: the stack's timers (Timers), the       *)
(* queues between its threads (MultiQueue), and an unacknowledged bearer   *)
(* (RlcUm), checked in one run.                                            *)
(*                                                                         *)
(* The three share no state.  RlcUm's timer may expire whenever it runs    *)
(* and Timers takes any calls of its users, so none of them has to wait    *)
(* for another and interleaving them adds nothing; each behaviour here is  *)
(* one of one part with the others at rest.                                *)
(***************************************************************************)
EXTENDS RlcUm, Timers, MultiQueue

VARIABLE part

runtimeVars == <<part, umVars, vars, queueVars>>

RuntimeInit ==
    /\ part \in {"um", "timers", "queues"}
    /\ UmInit
    /\ Init
    /\ QueuesInit

RuntimeNext ==
    /\ UNCHANGED part
    /\ \/ part = "um" /\ UmNext /\ UNCHANGED <<vars, queueVars>>
       \/ part = "timers" /\ Next /\ UNCHANGED <<umVars, queueVars>>
       \/ part = "queues" /\ QueuesNext /\ UNCHANGED <<umVars, vars>>

\* The operating system runs every thread that can go on.  Nobody has to wake
\* without a notification, to erase a queue or to call reset.
ThreadsScheduled ==
    /\ \A p \in PUSHERS :
          WF_queueVars(part = "queues" /\ (PushWoken(p) \/ NotifyEmpty(p) \/ Push(p)))
    /\ \A t \in POPPERS : WF_queueVars(part = "queues" /\ PopperStep(t))
    /\ WF_queueVars(part = "queues" /\ ResetGoesOn)

RuntimeSpec == RuntimeInit /\ [][RuntimeNext]_runtimeVars /\ ThreadsScheduled
=============================================================================
