----------------------------- MODULE MultiQueue -----------------------------
(***************************************************************************)
(* multiqueue_handler: the queues through which the threads of an eNB or   *)
(* UE hand tasks to the stack thread.                                      *)
(*                                                                         *)
(* A step is what a thread does between taking the mutex and releasing it  *)
(* (or waiting on a condition variable); the notifications made after the  *)
(* unlock are steps of their own.  A thread that waits is "blocked" until  *)
(* a notification, or nothing at all, makes it "woken"; it then takes the  *)
(* mutex again.                                                            *)
(***************************************************************************)
EXTENDS Integers, Sequences, FiniteSets

CONSTANTS
    PUSHERS,     \* threads that push
    POPPERS,     \* threads that wait_pop: the stack thread
    NOF_QUEUES,
    CAPACITY,
    MAX_PUSHES,  \* bound: items a pusher pushes
    TARGET,      \* pusher -> queue it pushes to
    ERASED,      \* queues that the stack thread erases when it stops
    RESETS       \* does the owner call reset

Queues == 0 .. NOF_QUEUES - 1

\* Two pushers that share a queue, and one with a queue of its own.
SharedQueue == [p \in PUSHERS |-> IF p = "p3" THEN 1 ELSE 0]

ASSUME QueueAssumption ==
    /\ IsFiniteSet(PUSHERS) /\ IsFiniteSet(POPPERS) /\ PUSHERS \intersect POPPERS = {}
    /\ NOF_QUEUES \in Nat \ {0} /\ CAPACITY \in Nat \ {0} /\ MAX_PUSHES \in Nat
    /\ TARGET \in [PUSHERS -> Queues]
    /\ ERASED \subseteq Queues /\ RESETS \in BOOLEAN

VARIABLES
    queue,                \* queue -> items
    queue_active,
    queue_running,
    spin_idx,
    nof_threads_waiting,
    pc,                   \* thread -> where it is in its call
    reset_pc,             \* the same for the owner in reset()
    pushed,               \* pusher -> items it has tried to push
    accepted, taken,      \* history: pusher -> its items queued, and no longer queued
    passed_over,          \* history: queue -> pops from others since it was empty
    stranded              \* history: pushers that were blocked when their queue was erased

shared == <<queue, queue_active, queue_running, spin_idx, nof_threads_waiting>>
queueVars == <<shared, pc, reset_pc, pushed, accepted, taken, passed_over, stranded>>

Threads == PUSHERS \union POPPERS

At(t, where) == pc[t] = where
Goes(t, where) == pc' = [pc EXCEPT ![t] = where]

\* The threads waiting on cv_empty and on cv_full of a queue.
WaitEmpty   == {t \in POPPERS : At(t, "blocked")}
WaitFull(q) == {t \in PUSHERS : At(t, "blocked") /\ TARGET[t] = q}

\* notify_one wakes one of the waiting threads, if there is one; the thread
\* that notifies goes to "idle".
NotifiesOne(t, waiting) ==
    LET back == [pc EXCEPT ![t] = "idle"]
    IN  IF waiting = {} THEN pc' = back
        ELSE \E w \in waiting : pc' = [back EXCEPT ![w] = "woken"]

is_queue_active(q) == queue_running /\ queue_active[q]
Full(q) == Len(queue[q]) >= CAPACITY

\* nof_threads_waiting as a thread finds it that was waiting.
Counted(t) == IF At(t, "woken") THEN nof_threads_waiting - 1 ELSE nof_threads_waiting

-----------------------------------------------------------------------------
QueuesInit ==
    /\ queue = [q \in Queues |-> << >>]
    /\ queue_active = [q \in Queues |-> TRUE]
    /\ queue_running = TRUE
    /\ spin_idx = 0
    /\ nof_threads_waiting = 0
    /\ pc = [t \in Threads |-> "idle"]
    /\ reset_pc = "idle"
    /\ pushed = [p \in PUSHERS |-> 0]
    /\ accepted = [p \in PUSHERS |-> 0]
    /\ taken = [p \in PUSHERS |-> 0]
    /\ passed_over = [q \in Queues |-> 0]
    /\ stranded = {}

\* cv_exit has at most the owner waiting on it.
NotifiesExit == reset_pc' = IF reset_pc = "blocked" THEN "woken" ELSE reset_pc

(***************************************************************************)
(* push: one pass of the loop, for an item that is new or still waiting.   *)
(***************************************************************************)
\* The item is named by who pushed it and how many of his were queued before.
Enqueue(p) ==
    /\ queue' = [queue EXCEPT ![TARGET[p]] = Append(@, <<p, accepted[p] + 1>>)]
    /\ accepted' = [accepted EXCEPT ![p] = @ + 1]

\* Mutant: a full queue is not looked at again after the wait.
HasRoomOnceWoken(p) == At(p, "woken") \/ ~Full(TARGET[p])

HasRoom(p) == ~Full(TARGET[p])

PushPass(p) ==
    /\ \/ /\ ~is_queue_active(TARGET[p])
          /\ NotifiesExit
          /\ Goes(p, "idle")
          /\ nof_threads_waiting' = Counted(p)
          /\ UNCHANGED <<queue, accepted>>
       \/ /\ is_queue_active(TARGET[p]) /\ ~HasRoom(p)
          /\ Goes(p, "blocked")
          /\ nof_threads_waiting' = Counted(p) + 1
          /\ UNCHANGED <<queue, accepted, reset_pc>>
       \/ /\ is_queue_active(TARGET[p]) /\ HasRoom(p)
          /\ Enqueue(p)
          /\ Goes(p, "notify")
          /\ nof_threads_waiting' = Counted(p)
          /\ UNCHANGED reset_pc
    /\ stranded' = stranded \ {p}
    /\ UNCHANGED <<queue_active, queue_running, spin_idx, taken, passed_over>>

Push(p) ==
    /\ At(p, "idle") /\ pushed[p] < MAX_PUSHES
    /\ pushed' = [pushed EXCEPT ![p] = @ + 1]
    /\ PushPass(p)

PushWoken(p) ==
    /\ At(p, "woken")
    /\ PushPass(p)
    /\ UNCHANGED pushed

\* push and try_push notify cv_empty once they have released the mutex.
\* Mutant: only the push into an empty queue notifies.
NotifyEmptyIfFirst(p) ==
    /\ At(p, "notify")
    /\ NotifiesOne(p, IF Len(queue[TARGET[p]]) = 1 THEN WaitEmpty ELSE {})
    /\ UNCHANGED <<shared, reset_pc, pushed, accepted, taken, passed_over, stranded>>

NotifyEmpty(p) ==
    /\ At(p, "notify")
    /\ NotifiesOne(p, WaitEmpty)
    /\ UNCHANGED <<shared, reset_pc, pushed, accepted, taken, passed_over, stranded>>

TryPush(p) ==
    /\ At(p, "idle") /\ pushed[p] < MAX_PUSHES
    /\ pushed' = [pushed EXCEPT ![p] = @ + 1]
    /\ \/ /\ is_queue_active(TARGET[p]) /\ ~Full(TARGET[p])
          /\ Enqueue(p)
          /\ Goes(p, "notify")
       \/ /\ ~is_queue_active(TARGET[p]) \/ Full(TARGET[p])
          /\ UNCHANGED <<queue, accepted, pc>>
    /\ UNCHANGED <<queue_active, queue_running, spin_idx, nof_threads_waiting, reset_pc, taken,
                   passed_over, stranded>>

(***************************************************************************)
(* wait_pop looks at every queue once, from the one after spin_idx on.     *)
(* With threads waiting it notifies cv_full of the queue that spin_idx     *)
(* names after the unlock.                                                 *)
(***************************************************************************)
Ready == {q \in Queues : is_queue_active(q) /\ queue[q] # << >>}

\* Mutant: the search starts at the queue it ended with.
DistanceFromSame(q) == (q - spin_idx) % NOF_QUEUES

Distance(q) == (q - spin_idx - 1) % NOF_QUEUES

NextReady == {q \in Ready : \A r \in Ready : Distance(q) <= Distance(r)}

\* Mutant: cv_full is not notified.
AfterPopReturns(t) == "idle"

AfterPop(t) == IF Counted(t) > 0 THEN "notify" ELSE "idle"

PassedOver(q) ==
    [r \in Queues |-> IF r \in Ready \ {q} THEN passed_over[r] + 1 ELSE 0]

Pop(t, q) ==
    /\ spin_idx' = q
    /\ queue' = [queue EXCEPT ![q] = Tail(@)]
    /\ taken' = [taken EXCEPT ![Head(queue[q])[1]] = Head(queue[q])[2]]
    /\ passed_over' = PassedOver(q)
    /\ nof_threads_waiting' = Counted(t)
    /\ Goes(t, AfterPop(t))
    /\ UNCHANGED reset_pc

WaitPop(t) ==
    /\ At(t, "idle") \/ At(t, "woken")
    /\ \/ /\ ~queue_running
          /\ NotifiesExit
          /\ Goes(t, "gone")
          /\ nof_threads_waiting' = Counted(t)
          /\ UNCHANGED <<queue, spin_idx, taken, passed_over>>
       \/ queue_running /\ \E q \in NextReady : Pop(t, q)
       \/ /\ queue_running /\ Ready = {}
          /\ Goes(t, "blocked")
          /\ nof_threads_waiting' = Counted(t) + 1
          /\ UNCHANGED <<queue, spin_idx, taken, passed_over, reset_pc>>
    /\ UNCHANGED <<queue_active, queue_running, pushed, accepted, stranded>>

NotifyFull(t) ==
    /\ t \in POPPERS /\ At(t, "notify")
    /\ NotifiesOne(t, WaitFull(spin_idx))
    /\ UNCHANGED <<shared, reset_pc, pushed, accepted, taken, passed_over, stranded>>

\* A condition variable may wake a thread that nobody has notified.
WakesSpuriously ==
    /\ \/ \E t \in Threads : At(t, "blocked") /\ Goes(t, "woken") /\ UNCHANGED reset_pc
       \/ reset_pc = "blocked" /\ reset_pc' = "woken" /\ UNCHANGED pc
    /\ UNCHANGED <<shared, pushed, accepted, taken, passed_over, stranded>>

(***************************************************************************)
(* erase_queue, called by the stack thread in stop_impl, and add_queue,    *)
(* which uses the first queue that was erased.                             *)
(***************************************************************************)
\* Mutant: what is queued stays.
KeptAfterErase(q) == queue[q]

LeftAfterErase(q) == << >>

EraseQueue(t, q) ==
    /\ At(t, "idle") /\ q \in ERASED
    /\ is_queue_active(q)
    /\ queue_active' = [queue_active EXCEPT ![q] = FALSE]
    /\ queue' = [queue EXCEPT ![q] = LeftAfterErase(q)]
    /\ taken' = [p \in PUSHERS |-> IF TARGET[p] = q THEN accepted[p] ELSE taken[p]]
    /\ passed_over' = [passed_over EXCEPT ![q] = 0]
    /\ stranded' = stranded \union WaitFull(q)
    /\ UNCHANGED <<queue_running, spin_idx, nof_threads_waiting, pc, reset_pc, pushed, accepted>>

AddQueue(t) ==
    /\ At(t, "idle") /\ queue_running
    /\ \E q \in ERASED :
          /\ ~queue_active[q] /\ \A r \in 0 .. q - 1 : queue_active[r]
          /\ queue_active' = [queue_active EXCEPT ![q] = TRUE]
    /\ UNCHANGED <<queue, queue_running, spin_idx, nof_threads_waiting, pc, reset_pc, pushed,
                   accepted, taken, passed_over, stranded>>

(***************************************************************************)
(* reset, called by the owner and by the destructor.                       *)
(***************************************************************************)
ResetPass ==
    /\ queue_running' = FALSE
    /\ \/ nof_threads_waiting > 0 /\ reset_pc' = "notify empty" /\ UNCHANGED <<queue, taken>>
       \/ /\ nof_threads_waiting = 0 /\ reset_pc' = "done"
          /\ queue' = [q \in Queues |-> << >>] /\ taken' = accepted
    /\ UNCHANGED <<queue_active, spin_idx, nof_threads_waiting, pc, pushed, accepted, passed_over,
                   stranded>>

Reset == RESETS /\ reset_pc = "idle" /\ ResetPass

ResetNotifiesEmpty ==
    /\ reset_pc = "notify empty"
    /\ reset_pc' = "notify full"
    /\ IF WaitEmpty = {} THEN UNCHANGED pc ELSE \E w \in WaitEmpty : Goes(w, "woken")
    /\ UNCHANGED <<shared, pushed, accepted, taken, passed_over, stranded>>

\* Mutant: one thread of a queue is notified.
NotifiedOne == UNION {{CHOOSE t \in WaitFull(q) : TRUE} : q \in {q \in Queues : WaitFull(q) # {}}}

NotifiedFull == UNION {WaitFull(q) : q \in Queues}

ResetNotifiesFull ==
    /\ reset_pc = "notify full"
    /\ reset_pc' = "lock"
    /\ pc' = [t \in Threads |-> IF t \in NotifiedFull THEN "woken" ELSE pc[t]]
    /\ UNCHANGED <<shared, pushed, accepted, taken, passed_over, stranded>>

ResetWaits ==
    /\ reset_pc = "lock"
    /\ reset_pc' = "blocked"
    /\ UNCHANGED <<shared, pc, pushed, accepted, taken, passed_over, stranded>>

ResetWoken == reset_pc = "woken" /\ ResetPass

ResetGoesOn == ResetNotifiesEmpty \/ ResetNotifiesFull \/ ResetWaits \/ ResetWoken

OwnerStep == Reset \/ ResetGoesOn

PusherStep(p) == Push(p) \/ TryPush(p) \/ PushWoken(p) \/ NotifyEmpty(p)
PopperStep(t) == WaitPop(t) \/ NotifyFull(t)

QueuesNext ==
    \/ \E p \in PUSHERS : PusherStep(p)
    \/ \E t \in POPPERS : PopperStep(t) \/ AddQueue(t) \/ \E q \in ERASED : EraseQueue(t, q)
    \/ WakesSpuriously \/ OwnerStep

QueuesSpec == QueuesInit /\ [][QueuesNext]_queueVars

-----------------------------------------------------------------------------
(***************************************************************************)
(* Properties.                                                             *)
(***************************************************************************)
QueuesTypeOK ==
    /\ queue \in [Queues -> Seq(PUSHERS \X (1 .. MAX_PUSHES))]
    /\ queue_active \in [Queues -> BOOLEAN] /\ queue_running \in BOOLEAN
    /\ spin_idx \in Queues
    /\ nof_threads_waiting = Cardinality({t \in Threads : pc[t] \in {"blocked", "woken"}})
    /\ pc \in [Threads -> {"idle", "blocked", "woken", "notify", "gone"}]
    /\ reset_pc \in {"idle", "notify empty", "notify full", "lock", "blocked", "woken", "done"}
    /\ stranded \subseteq PUSHERS
    /\ \A q \in Queues : Len(queue[q]) <= CAPACITY

(***************************************************************************)
(* Nothing that push or try_push accepted is lost, doubled or overtaken by *)
(* an item of the same thread: what is queued of a thread is what wait_pop *)
(* has still to take of it, in the order of the calls.                     *)
(***************************************************************************)
ItemsInOrder ==
    \A p \in PUSHERS :
        LET items == queue[TARGET[p]]
            own   == {k \in DOMAIN items : items[k][1] = p}
        IN  /\ {items[k][2] : k \in own} = taken[p] + 1 .. accepted[p]
            /\ \A j, k \in own : j < k => items[j][2] < items[k][2]

(***************************************************************************)
(* cv_empty: while a stack thread sleeps in wait_pop, every queued item    *)
(* has somebody on the way to it: a pusher that will notify, or a stack    *)
(* thread that has been woken.                                             *)
(***************************************************************************)
NoItemForgotten ==
    queue_running /\ WaitEmpty # {} /\ Ready # {} =>
        \E t \in Threads : At(t, "notify") \/ (t \in POPPERS /\ At(t, "woken"))

(***************************************************************************)
(* cv_full: while pushers sleep on a queue, every free place in it has     *)
(* somebody on the way to it, although wait_pop notifies only after it has *)
(* released the mutex.  Pushers whose queue was erased under them are left *)
(* out: erase_queue notifies nobody.                                       *)
(***************************************************************************)
NoPlaceForgotten ==
    \A q \in Queues : is_queue_active(q) /\ ~(WaitFull(q) \subseteq stranded) =>
        CAPACITY - Len(queue[q]) <=
            Cardinality({p \in PUSHERS : TARGET[p] = q /\ At(p, "woken")}
                        \union {t \in POPPERS : At(t, "notify") /\ spin_idx = q})

(***************************************************************************)
(* Round robin: a queue with something in it is passed over at most once   *)
(* for every other queue.                                                  *)
(***************************************************************************)
RoundRobin == \A q \in Queues : passed_over[q] < NOF_QUEUES

(***************************************************************************)
(* Whatever push accepted reaches the stack thread or is erased, and as    *)
(* long as the stack thread goes on nobody stays blocked in push, except   *)
(* on a queue that was erased meanwhile.                                   *)
(***************************************************************************)
EverythingHandled ==
    <>[] \/ reset_pc # "idle"
         \/ \A p \in PUSHERS : taken[p] = accepted[p] /\ (At(p, "idle") \/ p \in stranded)

(***************************************************************************)
(* Whatever the threads are doing when reset() is called, none of them     *)
(* stays blocked (but reset itself may).                                   *)
(***************************************************************************)
ResetUnblocks == (reset_pc # "idle") ~> (\A t \in Threads : pc[t] \in {"idle", "gone"})
=============================================================================
