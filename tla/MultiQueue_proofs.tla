-------------------------- MODULE MultiQueue_proofs --------------------------
(***************************************************************************)
(* Proofs about the queues of a stack thread, for every number of pushing  *)
(* threads and queues and every capacity.                                  *)
(***************************************************************************)
EXTENDS MultiQueue, FiniteSetTheorems, TLAPS

-----------------------------------------------------------------------------
(***************************************************************************)
(* No item is forgotten.                                                   *)
(***************************************************************************)
Places == {"idle", "blocked", "woken", "notify", "gone"}

PcType == pc \in [Threads -> Places]

LEMMA PcStep ==
    ASSUME PcType, [QueuesNext]_queueVars
    PROVE  PcType'
<1> USE DEF PcType, Places
<1>1. CASE \E p \in PUSHERS : PusherStep(p)
  BY <1>1, SMT DEF PusherStep, Push, TryPush, PushWoken, PushPass, NotifyEmpty, NotifiesOne, Goes,
                   WaitEmpty, Threads
<1>2. CASE \E t \in POPPERS : PopperStep(t)
  BY <1>2, SMT DEF PopperStep, WaitPop, Pop, AfterPop, NotifyFull, NotifiesOne, Goes, WaitFull,
                   Threads
<1>3. CASE \E t \in POPPERS : AddQueue(t) \/ \E q \in ERASED : EraseQueue(t, q)
  BY <1>3, SMT DEF AddQueue, EraseQueue
<1>4. CASE WakesSpuriously
  BY <1>4, SMT DEF WakesSpuriously, Goes
<1>5. CASE OwnerStep
  <2>1. CASE ResetNotifiesEmpty
    <3>1. CASE UNCHANGED pc BY <3>1
    <3>2. CASE \E w \in WaitEmpty : Goes(w, "woken") BY <3>2 DEF Goes
    <3> QED BY <2>1, <3>1, <3>2 DEF ResetNotifiesEmpty
  <2>2. CASE ResetNotifiesFull
    BY <2>2 DEF ResetNotifiesFull
  <2>3. CASE UNCHANGED pc
    BY <2>3
  <2> QED BY <1>5, <2>1, <2>2, <2>3
          DEF OwnerStep, ResetGoesOn, Reset, ResetPass, ResetWaits, ResetWoken
<1>6. CASE UNCHANGED queueVars
  BY <1>6 DEF queueVars
<1> QED BY <1>1, <1>2, <1>3, <1>4, <1>5, <1>6 DEF QueuesNext

\* What NoItemForgotten says when s is the only thread that pops.
Noticed(s) ==
    queue_running /\ At(s, "blocked") /\ Ready # {} => \E p \in PUSHERS : At(p, "notify")

LEMMA SamePlace ==
    ASSUME NEW s, Noticed(s), pc' = pc, UNCHANGED Ready, UNCHANGED queue_running
    PROVE  Noticed(s)'
BY DEF Noticed, At

LEMMA NoticedByPusher ==
    ASSUME NEW s, POPPERS = {s}, s \notin PUSHERS, PcType, Noticed(s),
           NEW p \in PUSHERS, PusherStep(p)
    PROVE  Noticed(s)'
<1>1. p \in Threads /\ s \in Threads /\ p # s BY DEF Threads
<1>2. ASSUME PushPass(p), ~At(p, "notify") PROVE Noticed(s)'
  <2>1. CASE Goes(p, "notify")
    BY <1>1, <2>1 DEF PcType, Noticed, At, Goes
  <2>2. CASE UNCHANGED queue /\ \E where : Goes(p, where)
    <3>1. UNCHANGED Ready /\ UNCHANGED queue_running
      BY <1>2, <2>2 DEF PushPass, Ready, is_queue_active
    <3>2. \A t \in Threads \ {p} : pc'[t] = pc[t]
      BY <2>2 DEF Goes, PcType
    <3> QED BY <1>1, <1>2, <3>1, <3>2, SMT DEF Noticed, At, Threads
  <2> QED BY <1>2, <2>1, <2>2 DEF PushPass
<1>3. CASE Push(p) \/ PushWoken(p)
  BY <1>2, <1>3 DEF Push, PushWoken, At
<1>4. CASE TryPush(p)
  <2>1. CASE Goes(p, "notify")
    BY <1>1, <2>1 DEF PcType, Noticed, At, Goes
  <2>2. CASE UNCHANGED <<queue, pc>>
    BY <1>4, <2>2, SamePlace DEF TryPush, Ready, is_queue_active
  <2> QED BY <1>4, <2>1, <2>2 DEF TryPush
<1>5. CASE NotifyEmpty(p)
  <2>1. UNCHANGED Ready /\ UNCHANGED queue_running
    BY <1>5 DEF NotifyEmpty, shared, Ready, is_queue_active
  <2>2. CASE At(s, "blocked")
    <3>1. WaitEmpty = {s} BY <2>2 DEF WaitEmpty
    <3>2. pc'[s] = "woken"
      BY <1>1, <1>5, <3>1 DEF NotifyEmpty, NotifiesOne, PcType
    <3> QED BY <3>2 DEF Noticed, At
  <2>3. CASE ~At(s, "blocked")
    <3>1. WaitEmpty = {} BY <2>3 DEF WaitEmpty
    <3>2. pc'[s] = pc[s]
      BY <1>1, <1>5, <3>1 DEF NotifyEmpty, NotifiesOne, PcType
    <3> QED BY <2>3, <3>2 DEF Noticed, At
  <2> QED BY <2>2, <2>3
<1> QED BY <1>3, <1>4, <1>5 DEF PusherStep

LEMMA NoticedByPopper ==
    ASSUME NEW s, POPPERS = {s}, s \notin PUSHERS, PcType, PopperStep(s)
    PROVE  Noticed(s)'
<1>1. s \in Threads BY DEF Threads
<1>2. CASE WaitPop(s)
  <2>1. CASE Ready = {} /\ UNCHANGED queue
    <3>1. Ready' = {} BY <1>2, <2>1 DEF WaitPop, Ready, is_queue_active
    <3> QED BY <3>1 DEF Noticed
  <2>2. CASE \E where \in {"gone", "idle", "notify"} : Goes(s, where)
    BY <1>1, <2>2 DEF Goes, PcType, Noticed, At
  <2> QED BY <1>2, <2>1, <2>2 DEF WaitPop, Pop, AfterPop
<1>3. CASE NotifyFull(s)
  <2>1. \A q : s \notin WaitFull(q) BY DEF WaitFull
  <2>2. pc'[s] = "idle"
    BY <1>1, <1>3, <2>1 DEF NotifyFull, NotifiesOne, PcType
  <2> QED BY <2>2 DEF Noticed, At
<1> QED BY <1>2, <1>3 DEF PopperStep

LEMMA NoticedByOwner ==
    ASSUME NEW s, POPPERS = {s}, s \notin PUSHERS, PcType, Noticed(s), OwnerStep
    PROVE  Noticed(s)'
<1>1. s \in Threads BY DEF Threads
<1>2. CASE Reset \/ ResetWoken
  BY <1>2 DEF Reset, ResetWoken, ResetPass, Noticed
<1>3. CASE ResetNotifiesEmpty
  <2>1. CASE At(s, "blocked")
    BY <1>1, <1>3, <2>1 DEF ResetNotifiesEmpty, WaitEmpty, Goes, At, PcType, Noticed
  <2>2. CASE ~At(s, "blocked")
    BY <1>1, <1>3, <2>2 DEF ResetNotifiesEmpty, WaitEmpty, Goes, At, PcType, Noticed
  <2> QED BY <2>1, <2>2
<1>4. CASE ResetNotifiesFull
  <2>1. UNCHANGED Ready /\ UNCHANGED queue_running
    BY <1>4 DEF ResetNotifiesFull, shared, Ready, is_queue_active
  <2>2. \A t \in Threads : At(t, "notify") => pc'[t] = "notify"
    BY <1>4 DEF ResetNotifiesFull, NotifiedFull, WaitFull, At
  <2>3. s \notin NotifiedFull BY DEF NotifiedFull, WaitFull
  <2>4. pc'[s] = pc[s] BY <1>1, <1>4, <2>3 DEF ResetNotifiesFull
  <2> QED BY <2>1, <2>2, <2>4 DEF Noticed, At, Threads
<1>5. CASE ResetWaits
  BY <1>5, SamePlace DEF ResetWaits, shared, Ready, is_queue_active
<1> QED BY <1>2, <1>3, <1>4, <1>5 DEF OwnerStep, ResetGoesOn

LEMMA NoticedStep ==
    ASSUME NEW s, POPPERS = {s}, s \notin PUSHERS, PcType, Noticed(s), [QueuesNext]_queueVars
    PROVE  Noticed(s)'
<1>1. s \in Threads BY DEF Threads
<1>2. CASE \E p \in PUSHERS : PusherStep(p)
  BY <1>2, NoticedByPusher
<1>3. CASE \E t \in POPPERS : PopperStep(t)
  BY <1>3, NoticedByPopper
<1>4. CASE \E t \in POPPERS : AddQueue(t) \/ \E q \in ERASED : EraseQueue(t, q)
  BY <1>4 DEF AddQueue, EraseQueue, At, Noticed
<1>5. CASE WakesSpuriously
  <2>1. UNCHANGED Ready /\ UNCHANGED queue_running
    BY <1>5 DEF WakesSpuriously, shared, Ready, is_queue_active
  <2>2. \A t \in Threads : pc'[t] # pc[t] => At(t, "blocked") /\ pc'[t] = "woken"
    BY <1>5 DEF WakesSpuriously, Goes, At, PcType
  <2> QED BY <1>1, <2>1, <2>2 DEF Noticed, At, Threads
<1>6. CASE OwnerStep
  BY <1>6, NoticedByOwner
<1>7. CASE UNCHANGED queueVars
  BY <1>7, SamePlace DEF queueVars, shared, Ready, is_queue_active
<1> QED BY <1>2, <1>3, <1>4, <1>5, <1>6, <1>7 DEF QueuesNext

(***************************************************************************)
(* With one stack thread, as every stack has, an item that push or         *)
(* try_push has queued is never left lying while that thread sleeps in     *)
(* wait_pop with nobody on the way to wake it.                             *)
(***************************************************************************)
THEOREM ItemsNoticed ==
    ASSUME NEW s, POPPERS = {s}, s \notin PUSHERS
    PROVE  QueuesSpec => []NoItemForgotten
<1>1. QueuesInit => PcType /\ Noticed(s)
  BY DEF QueuesInit, PcType, Places, Noticed, Ready
<1>2. PcType /\ Noticed(s) /\ [QueuesNext]_queueVars => (PcType /\ Noticed(s))'
  BY PcStep, NoticedStep
<1>3. Noticed(s) => NoItemForgotten
  BY DEF Noticed, NoItemForgotten, WaitEmpty, Threads
<1> QED BY <1>1, <1>2, <1>3, PTL DEF QueuesSpec

-----------------------------------------------------------------------------
(***************************************************************************)
(* Round robin.                                                            *)
(***************************************************************************)
LEMMA Circle ==
    ASSUME NEW x \in Int, -NOF_QUEUES <= x, x < NOF_QUEUES
    PROVE  x % NOF_QUEUES = IF x < 0 THEN x + NOF_QUEUES ELSE x
<1>1. NOF_QUEUES \in Nat \ {0} BY QueueAssumption
<1>2. ASSUME NEW y \in 0 .. NOF_QUEUES - 1, NEW m \in Int
      PROVE  (m * NOF_QUEUES + y) % NOF_QUEUES = y
  BY <1>1, SMT
<1>3. CASE x < 0
  <2>1. /\ x + NOF_QUEUES \in 0 .. NOF_QUEUES - 1
        /\ x = (-1) * NOF_QUEUES + (x + NOF_QUEUES)
        /\ -1 \in Int
    BY <1>1, <1>3, SMT
  <2>2. ((-1) * NOF_QUEUES + (x + NOF_QUEUES)) % NOF_QUEUES = x + NOF_QUEUES
    BY ONLY <1>2, <2>1, Zenon
  <2> QED BY <1>3, <2>1, <2>2
<1>4. CASE 0 <= x
  <2>1. x \in 0 .. NOF_QUEUES - 1 BY <1>1, <1>4, SMT
  <2> QED BY <1>1, <1>4, <2>1, SMT
<1> QED BY <1>1, <1>3, <1>4, SMT

LEMMA DistanceIs ==
    ASSUME spin_idx \in Queues, NEW q \in Queues
    PROVE  Distance(q) = IF q > spin_idx THEN q - spin_idx - 1 ELSE q - spin_idx - 1 + NOF_QUEUES
<1>1. NOF_QUEUES \in Nat \ {0} BY QueueAssumption
<1>2. q - spin_idx - 1 \in Int /\ -NOF_QUEUES <= q - spin_idx - 1 /\ q - spin_idx - 1 < NOF_QUEUES
  BY <1>1, SMT DEF Queues
<1>3. (q - spin_idx - 1) % NOF_QUEUES =
        IF q - spin_idx - 1 < 0 THEN q - spin_idx - 1 + NOF_QUEUES ELSE q - spin_idx - 1
  BY <1>2, Circle
<1> QED BY <1>1, <1>3, SMT DEF Distance, Queues

(***************************************************************************)
(* A queue has been passed over at most as often as the search has moved   *)
(* towards it.                                                             *)
(***************************************************************************)
TurnComes ==
    /\ spin_idx \in Queues
    /\ passed_over \in [Queues -> Nat]
    /\ \A q \in Queues : passed_over[q] + Distance(q) < NOF_QUEUES

LEMMA TurnComesAtPop ==
    ASSUME TurnComes, NEW q \in NextReady, spin_idx' = q,
           passed_over' = PassedOver(q)
    PROVE  TurnComes'
<1>1. NOF_QUEUES \in Nat \ {0} BY QueueAssumption
<1>2. q \in Queues /\ q \in Ready BY DEF NextReady, Ready
<1>3. spin_idx' \in Queues BY <1>2
<1>4. passed_over' \in [Queues -> Nat] BY SMT DEF PassedOver, TurnComes
<1>5. ASSUME NEW r \in Queues PROVE passed_over'[r] + Distance(r)' < NOF_QUEUES
  <2>1. Distance(r)' = IF r > q THEN r - q - 1 ELSE r - q - 1 + NOF_QUEUES
    <3>1. (r - q - 1) % NOF_QUEUES =
            IF r - q - 1 < 0 THEN r - q - 1 + NOF_QUEUES ELSE r - q - 1
      <4>1. r - q - 1 \in Int /\ -NOF_QUEUES <= r - q - 1 /\ r - q - 1 < NOF_QUEUES
        BY <1>1, <1>2, SMT DEF Queues
      <4> QED BY <4>1, Circle
    <3>2. Distance(r)' = (r - q - 1) % NOF_QUEUES BY DEF Distance
    <3> QED BY <1>1, <1>2, <3>1, <3>2, SMT DEF Queues
  <2>2. CASE r \in Ready \ {q}
    <3>1. passed_over'[r] = passed_over[r] + 1 BY <2>2 DEF PassedOver
    <3>2. Distance(q) <= Distance(r) BY <2>2 DEF NextReady
    <3>3. /\ Distance(q) = IF q > spin_idx THEN q - spin_idx - 1 ELSE q - spin_idx - 1 + NOF_QUEUES
          /\ Distance(r) = IF r > spin_idx THEN r - spin_idx - 1 ELSE r - spin_idx - 1 + NOF_QUEUES
      BY <1>2, DistanceIs DEF TurnComes
    <3>4. passed_over[r] + Distance(r) < NOF_QUEUES /\ passed_over[r] \in Nat /\ spin_idx \in Queues
      BY DEF TurnComes
    <3> HIDE DEF Distance, TurnComes
    <3> QED BY <1>1, <1>2, <2>1, <2>2, <3>1, <3>2, <3>3, <3>4, SMT DEF Queues
  <2>3. CASE r \notin Ready \ {q}
    <3>1. passed_over'[r] = 0 BY <2>3 DEF PassedOver
    <3> QED BY <1>1, <1>2, <2>1, <3>1, SMT DEF Queues
  <2> QED BY <2>2, <2>3
<1> QED BY <1>3, <1>4, <1>5 DEF TurnComes

LEMMA TurnComesWhenErased ==
    ASSUME TurnComes, NEW t, NEW e, EraseQueue(t, e)
    PROVE  TurnComes'
<1>1. NOF_QUEUES \in Nat \ {0} BY QueueAssumption
<1>2. spin_idx' \in Queues /\ passed_over' \in [Queues -> Nat]
  <2>1. spin_idx' = spin_idx /\ passed_over' = [passed_over EXCEPT ![e] = 0] BY DEF EraseQueue
  <2>2. spin_idx \in Queues /\ passed_over \in [Queues -> Nat] BY DEF TurnComes
  <2>3. 0 \in Nat BY SMT
  <2> HIDE DEF TurnComes
  <2> QED BY <2>1, <2>2, <2>3, Zenon
<1>3. ASSUME NEW q \in Queues PROVE passed_over'[q] + Distance(q)' < NOF_QUEUES
  <2>1. Distance(q)' = Distance(q) BY DEF EraseQueue, Distance
  <2>2. passed_over'[q] = passed_over[q] \/ passed_over'[q] = 0 BY DEF EraseQueue, TurnComes
  <2>3. Distance(q) = IF q > spin_idx THEN q - spin_idx - 1 ELSE q - spin_idx - 1 + NOF_QUEUES
    BY DistanceIs DEF TurnComes
  <2>4. passed_over[q] + Distance(q) < NOF_QUEUES /\ passed_over[q] \in Nat BY DEF TurnComes
  <2>5. spin_idx \in Queues BY DEF TurnComes
  <2> QED BY <1>1, <2>1, <2>2, <2>3, <2>4, <2>5, SMT DEF Queues
<1> QED BY <1>2, <1>3 DEF TurnComes

LEMMA TurnComesStep ==
    ASSUME TurnComes, [QueuesNext]_queueVars
    PROVE  TurnComes'
<1>1. ASSUME UNCHANGED <<spin_idx, passed_over>> PROVE TurnComes'
  BY <1>1 DEF TurnComes, Distance
<1>2. CASE \E p \in PUSHERS : PusherStep(p)
  BY <1>1, <1>2 DEF PusherStep, Push, TryPush, PushWoken, PushPass, NotifyEmpty, shared
<1>3. ASSUME NEW t \in POPPERS, PopperStep(t) PROVE TurnComes'
  <2>1. CASE \E q \in NextReady : Pop(t, q)
    BY <2>1, TurnComesAtPop DEF Pop
  <2> QED BY <1>1, <1>3, <2>1 DEF PopperStep, WaitPop, NotifyFull, shared
<1>4. ASSUME NEW t \in POPPERS, AddQueue(t) \/ \E q \in ERASED : EraseQueue(t, q)
      PROVE  TurnComes'
  BY <1>1, <1>4, TurnComesWhenErased DEF AddQueue
<1>5. CASE WakesSpuriously
  BY <1>1, <1>5 DEF WakesSpuriously, shared
<1>6. CASE OwnerStep
  BY <1>1, <1>6 DEF OwnerStep, ResetGoesOn, Reset, ResetPass, ResetNotifiesEmpty,
                    ResetNotifiesFull, ResetWaits, ResetWoken, shared
<1>7. CASE UNCHANGED queueVars
  BY <1>1, <1>7 DEF queueVars, shared
<1> QED BY <1>2, <1>3, <1>4, <1>5, <1>6, <1>7 DEF QueuesNext

(***************************************************************************)
(* However busy the other queues are, wait_pop passes over a queue with    *)
(* something in it at most once for each of them.                          *)
(***************************************************************************)
THEOREM NoQueueStarves == QueuesSpec => []RoundRobin
<1>1. NOF_QUEUES \in Nat \ {0} BY QueueAssumption
<1>2. QueuesInit => TurnComes
  <2> SUFFICES ASSUME QueuesInit PROVE TurnComes
    OBVIOUS
  <2>1. spin_idx = 0 /\ spin_idx \in Queues BY <1>1, SMT DEF QueuesInit, Queues
  <2>2. passed_over \in [Queues -> Nat] /\ \A q \in Queues : passed_over[q] = 0
    BY DEF QueuesInit
  <2>3. \A q \in Queues : Distance(q) = IF q > 0 THEN q - 0 - 1 ELSE q - 0 - 1 + NOF_QUEUES
    BY <2>1, DistanceIs
  <2> QED BY <1>1, <2>1, <2>2, <2>3, SMT DEF TurnComes, Queues
<1>3. TurnComes /\ [QueuesNext]_queueVars => TurnComes'
  BY TurnComesStep
<1>4. TurnComes => RoundRobin
  <2> SUFFICES ASSUME TurnComes, NEW q \in Queues PROVE passed_over[q] < NOF_QUEUES
    BY DEF RoundRobin
  <2>1. Distance(q) = IF q > spin_idx THEN q - spin_idx - 1 ELSE q - spin_idx - 1 + NOF_QUEUES
    BY DistanceIs DEF TurnComes
  <2>2. passed_over[q] + Distance(q) < NOF_QUEUES /\ passed_over[q] \in Nat /\ spin_idx \in Queues
    BY DEF TurnComes
  <2> QED BY <1>1, <2>1, <2>2, SMT DEF Queues
<1> QED BY <1>2, <1>3, <1>4, PTL DEF QueuesSpec

-----------------------------------------------------------------------------
(***************************************************************************)
(* Types: the threads that wait are counted, and a queue never holds more  *)
(* than CAPACITY items.                                                    *)
(***************************************************************************)
Waits(t) == pc[t] \in {"blocked", "woken"}

Waiting == {t \in Threads : Waits(t)}

WaitingCounted == nof_threads_waiting = Cardinality(Waiting)

LEMMA ThreadsFinite == IsFiniteSet(Threads) /\ \A S \in SUBSET Threads : IsFiniteSet(S)
<1>1. IsFiniteSet(Threads) BY QueueAssumption, FS_Union DEF Threads
<1> QED BY <1>1, FS_Subset

LEMMA SameWaiting ==
    ASSUME WaitingCounted, UNCHANGED nof_threads_waiting,
           \A t \in Threads : Waits(t)' <=> Waits(t)
    PROVE  WaitingCounted'
<1>1. Waiting' = Waiting BY DEF Waiting
<1> QED BY <1>1 DEF WaitingCounted

\* nof_threads_waiting as a thread finds it is the number of the others.
LEMMA CountedIs ==
    ASSUME WaitingCounted, NEW t \in Threads, ~At(t, "blocked")
    PROVE  /\ Counted(t) = Cardinality(Waiting \ {t})
           /\ IsFiniteSet(Waiting \ {t})
<1>1. IsFiniteSet(Waiting) BY ThreadsFinite DEF Waiting
<1>2. t \in Waiting <=> At(t, "woken") BY DEF Waiting, Waits, At
<1>3. /\ IsFiniteSet(Waiting \ {t})
      /\ Cardinality(Waiting \ {t}) =
           IF t \in Waiting THEN Cardinality(Waiting) - 1 ELSE Cardinality(Waiting)
  BY <1>1, FS_RemoveElement
<1> QED BY <1>2, <1>3 DEF Counted, WaitingCounted

\* A thread that had the mutex releases it or waits.
LEMMA WaitingMoves ==
    ASSUME PcType, WaitingCounted, NEW t \in Threads, ~At(t, "blocked"),
           \/ /\ Goes(t, "blocked")
              /\ nof_threads_waiting' = Counted(t) + 1
           \/ /\ \E where \in {"idle", "notify", "gone"} : Goes(t, where)
              /\ nof_threads_waiting' = Counted(t)
    PROVE  WaitingCounted'
<1> DEFINE Others == Waiting \ {t}
<1>1. IsFiniteSet(Others) BY CountedIs
<1>2. Counted(t) = Cardinality(Others) BY CountedIs
<1>3. \A u \in Threads \ {t} : pc'[u] = pc[u] BY DEF Goes, PcType
<1>4. CASE Goes(t, "blocked") /\ nof_threads_waiting' = Counted(t) + 1
  <2>1. pc'[t] = "blocked" BY <1>4 DEF Goes, PcType
  <2>2. Waiting' = Others \union {t} BY <1>3, <2>1 DEF Waiting, Waits
  <2>3. Cardinality(Others \union {t}) = Cardinality(Others) + 1
    BY <1>1, FS_AddElement
  <2> QED BY <1>2, <1>4, <2>2, <2>3 DEF WaitingCounted
<1>5. CASE (\E where \in {"idle", "notify", "gone"} : Goes(t, where)) /\ nof_threads_waiting' = Counted(t)
  <2>1. pc'[t] \in {"idle", "notify", "gone"} BY <1>5 DEF Goes, PcType
  <2>2. Waiting' = Others BY <1>3, <2>1 DEF Waiting, Waits
  <2> QED BY <1>2, <1>5, <2>2 DEF WaitingCounted
<1> QED BY <1>4, <1>5

\* Who is notified was waiting and still is, until he has the mutex.
LEMMA WaitingNotified ==
    ASSUME PcType, NEW t \in Threads, At(t, "notify"), NEW W, NotifiesOne(t, W),
           W \subseteq Threads, \A w \in W : At(w, "blocked")
    PROVE  \A u \in Threads : Waits(u)' <=> Waits(u)
<1>1. CASE W = {}
  BY <1>1 DEF NotifiesOne, PcType, Waits, At
<1>2. CASE W # {}
  <2>1. PICK w \in W : pc' = [[pc EXCEPT ![t] = "idle"] EXCEPT ![w] = "woken"]
    BY <1>2 DEF NotifiesOne
  <2>2. w # t /\ w \in Threads /\ pc[w] = "blocked" /\ pc[t] = "notify" BY DEF At
  <2> QED BY <2>1, <2>2 DEF PcType, Waits
<1> QED BY <1>1, <1>2

LEMMA WaitingStep ==
    ASSUME PcType, WaitingCounted, [QueuesNext]_queueVars
    PROVE  WaitingCounted'
<1>0. PUSHERS \subseteq Threads /\ POPPERS \subseteq Threads BY DEF Threads
<1>1. ASSUME NEW p \in PUSHERS, PusherStep(p) PROVE WaitingCounted'
  <2>1. ASSUME PushPass(p), ~At(p, "blocked") PROVE WaitingCounted'
    BY <1>0, <2>1, WaitingMoves, Zenon DEF PushPass
  <2>2. CASE Push(p) \/ PushWoken(p)
    BY <2>1, <2>2 DEF Push, PushWoken, At
  <2>3. CASE TryPush(p)
    <3>1. nof_threads_waiting' = Counted(p) BY <2>3 DEF TryPush, Counted, At
    <3>2. CASE Goes(p, "notify")
      BY <1>0, <2>3, <3>1, <3>2, WaitingMoves DEF TryPush, At
    <3>3. CASE UNCHANGED pc
      BY <2>3, <3>3, SameWaiting DEF TryPush, Waits
    <3> QED BY <2>3, <3>2, <3>3 DEF TryPush
  <2>4. CASE NotifyEmpty(p)
    BY <1>0, <2>4, WaitingNotified, SameWaiting DEF NotifyEmpty, WaitEmpty, shared
  <2> QED BY <1>1, <2>2, <2>3, <2>4 DEF PusherStep
<1>2. ASSUME NEW t \in POPPERS, PopperStep(t) PROVE WaitingCounted'
  <2>1. CASE WaitPop(t)
    <3>1. ~At(t, "blocked") BY <2>1 DEF WaitPop, At
    <3>2. AfterPop(t) \in {"idle", "notify", "gone"} BY DEF AfterPop
    <3>3. \/ Goes(t, "blocked") /\ nof_threads_waiting' = Counted(t) + 1
          \/ /\ Goes(t, "gone") \/ Goes(t, AfterPop(t))
             /\ nof_threads_waiting' = Counted(t)
      BY <2>1, Zenon DEF WaitPop, Pop
    <3> QED BY <1>0, <3>1, <3>2, <3>3, WaitingMoves
  <2>2. CASE NotifyFull(t)
    <3>1. WaitFull(spin_idx) \subseteq Threads /\ \A w \in WaitFull(spin_idx) : At(w, "blocked")
      BY <1>0 DEF WaitFull
    <3> QED BY <1>0, <2>2, <3>1, WaitingNotified, SameWaiting DEF NotifyFull, shared
  <2> QED BY <1>2, <2>1, <2>2 DEF PopperStep
<1>3. ASSUME NEW t \in POPPERS, AddQueue(t) \/ \E q \in ERASED : EraseQueue(t, q)
      PROVE  WaitingCounted'
  BY <1>3, SameWaiting DEF AddQueue, EraseQueue, Waits
<1>4. CASE WakesSpuriously
  <2>1. \A u \in Threads : Waits(u)' <=> Waits(u)
    BY <1>4 DEF WakesSpuriously, Goes, At, PcType, Waits
  <2> QED BY <1>4, <2>1, SameWaiting DEF WakesSpuriously, shared
<1>5. CASE OwnerStep
  <2>1. UNCHANGED nof_threads_waiting
    BY <1>5 DEF OwnerStep, ResetGoesOn, Reset, ResetPass, ResetNotifiesEmpty,
                ResetNotifiesFull, ResetWaits, ResetWoken, shared
  <2>2. CASE UNCHANGED pc
    BY <2>1, <2>2, SameWaiting DEF Waits
  <2>3. CASE \E w \in WaitEmpty : Goes(w, "woken")
    <3>1. \A u \in Threads : Waits(u)' <=> Waits(u)
      BY <2>3 DEF WaitEmpty, Goes, At, PcType, Waits
    <3> QED BY <2>1, <3>1, SameWaiting
  <2>4. CASE ResetNotifiesFull
    <3>1. \A u \in Threads : Waits(u)' <=> Waits(u)
      BY <2>4 DEF ResetNotifiesFull, NotifiedFull, WaitFull, At, Waits
    <3> QED BY <2>1, <3>1, SameWaiting
  <2> QED BY <1>5, <2>2, <2>3, <2>4 DEF OwnerStep, ResetGoesOn, Reset, ResetPass,
          ResetNotifiesEmpty, ResetWaits, ResetWoken
<1>6. CASE UNCHANGED queueVars
  BY <1>6, SameWaiting DEF queueVars, shared, Waits
<1> QED BY <1>1, <1>2, <1>3, <1>4, <1>5, <1>6 DEF QueuesNext

\* Of what a pusher has tried to push, what was queued; the item it waits with
\* was not.
PushesCounted ==
    /\ pushed \in [PUSHERS -> 0 .. MAX_PUSHES]
    /\ accepted \in [PUSHERS -> Nat]
    /\ \A p \in PUSHERS :
          /\ accepted[p] <= pushed[p]
          /\ Waits(p) => accepted[p] < pushed[p]

LEMMA PushesPush ==
    ASSUME PcType, PushesCounted, NEW p \in PUSHERS, Push(p) \/ TryPush(p) \/ PushWoken(p)
    PROVE  /\ PushesCounted'
           /\ Enqueue(p) => accepted[p] + 1 \in 1 .. MAX_PUSHES
<1>0. /\ MAX_PUSHES \in Nat /\ pushed[p] \in 0 .. MAX_PUSHES /\ accepted[p] \in Nat
      /\ accepted[p] <= pushed[p] /\ p \in Threads
  BY QueueAssumption DEF PushesCounted, Threads
<1>1. \/ pushed' = [pushed EXCEPT ![p] = @ + 1] /\ pushed[p] < MAX_PUSHES
      \/ pushed' = pushed /\ accepted[p] < pushed[p]
  BY <1>0 DEF Push, TryPush, PushWoken, PushesCounted, Waits, At
<1>2. /\ pushed' \in [PUSHERS -> 0 .. MAX_PUSHES]
      /\ accepted[p] < pushed'[p]
      /\ \A r \in PUSHERS \ {p} : pushed'[r] = pushed[r]
  BY <1>0, <1>1, SMT DEF PushesCounted
<1>3. \/ accepted' = [accepted EXCEPT ![p] = @ + 1] /\ Goes(p, "notify")
      \/ accepted' = accepted /\ (pc' = pc \/ \E where : Goes(p, where))
  BY DEF Push, TryPush, PushWoken, PushPass, Enqueue
<1>4. \A r \in Threads \ {p} : pc'[r] = pc[r] BY <1>3 DEF Goes, PcType
<1>5. accepted' \in [PUSHERS -> Nat] BY <1>0, <1>3, SMT DEF PushesCounted
<1>6. accepted'[p] <= pushed'[p] /\ (Waits(p)' => accepted'[p] < pushed'[p])
  <2>1. CASE accepted' = accepted BY <1>0, <1>2, <2>1, SMT
  <2>2. CASE accepted' = [accepted EXCEPT ![p] = @ + 1] /\ Goes(p, "notify")
    <3>1. accepted'[p] = accepted[p] + 1 BY <2>2 DEF PushesCounted
    <3>2. pc'[p] = "notify" BY <1>0, <2>2 DEF Goes, PcType
    <3>3. ~Waits(p)' BY <3>2 DEF Waits
    <3>4. pushed'[p] \in Nat BY <1>0, <1>2, SMT
    <3> QED BY <1>0, <1>2, <3>1, <3>3, <3>4, SMT
  <2> QED BY <1>3, <2>1, <2>2
<1>7. ASSUME NEW r \in PUSHERS \ {p}
      PROVE  accepted'[r] <= pushed'[r] /\ (Waits(r)' => accepted'[r] < pushed'[r])
  <2>1. accepted'[r] = accepted[r] BY <1>3 DEF PushesCounted
  <2>2. Waits(r)' <=> Waits(r) BY <1>4 DEF Waits, Threads
  <2> QED BY <1>2, <2>1, <2>2 DEF PushesCounted
<1>8. accepted[p] + 1 \in 1 .. MAX_PUSHES BY <1>0, <1>2, SMT
<1> QED BY <1>2, <1>5, <1>6, <1>7, <1>8 DEF PushesCounted

\* Nobody else queues, and who waits goes on waiting.
LEMMA PushesSame ==
    ASSUME PushesCounted, UNCHANGED <<pushed, accepted>>,
           \A t \in PUSHERS : Waits(t)' => Waits(t)
    PROVE  PushesCounted'
BY DEF PushesCounted

LEMMA PushesStep ==
    ASSUME PcType, PushesCounted, [QueuesNext]_queueVars
    PROVE  PushesCounted'
<1>0. PUSHERS \subseteq Threads /\ POPPERS \subseteq Threads BY DEF Threads
<1>1. ASSUME NEW p \in PUSHERS, PusherStep(p) PROVE PushesCounted'
  <2>1. CASE NotifyEmpty(p)
    BY <1>0, <2>1, WaitingNotified, PushesSame DEF NotifyEmpty, WaitEmpty
  <2> QED BY <1>1, <2>1, PushesPush DEF PusherStep
<1>2. ASSUME NEW t \in POPPERS, PopperStep(t) PROVE PushesCounted'
  <2>1. UNCHANGED <<pushed, accepted>>
    BY <1>2 DEF PopperStep, WaitPop, NotifyFull
  <2>2. CASE WaitPop(t)
    <3>1. t \notin PUSHERS BY QueueAssumption
    <3>2. \E where : Goes(t, where) BY <2>2, Zenon DEF WaitPop, Pop
    <3>3. \A u \in PUSHERS : pc'[u] = pc[u] BY <1>0, <3>1, <3>2 DEF Goes, PcType
    <3> QED BY <2>1, <3>3, PushesSame DEF Waits
  <2>3. CASE NotifyFull(t)
    <3>1. WaitFull(spin_idx) \subseteq Threads /\ \A w \in WaitFull(spin_idx) : At(w, "blocked")
      BY <1>0 DEF WaitFull
    <3> QED BY <1>0, <2>1, <2>3, <3>1, WaitingNotified, PushesSame DEF NotifyFull
  <2> QED BY <1>2, <2>2, <2>3 DEF PopperStep
<1>3. ASSUME NEW t \in POPPERS, AddQueue(t) \/ \E q \in ERASED : EraseQueue(t, q)
      PROVE  PushesCounted'
  BY <1>3, PushesSame DEF AddQueue, EraseQueue, Waits
<1>4. CASE WakesSpuriously
  <2>1. \A u \in Threads : Waits(u)' <=> Waits(u)
    BY <1>4 DEF WakesSpuriously, Goes, At, PcType, Waits
  <2> QED BY <1>0, <1>4, <2>1, PushesSame DEF WakesSpuriously
<1>5. CASE OwnerStep
  <2>1. UNCHANGED <<pushed, accepted>>
    BY <1>5 DEF OwnerStep, ResetGoesOn, Reset, ResetPass, ResetNotifiesEmpty,
                ResetNotifiesFull, ResetWaits, ResetWoken
  <2>2. \A u \in Threads : Waits(u)' => Waits(u)
    <3>1. CASE UNCHANGED pc BY <3>1 DEF Waits
    <3>2. CASE \E w \in WaitEmpty : Goes(w, "woken")
      BY <3>2 DEF WaitEmpty, Goes, At, PcType, Waits
    <3>3. CASE ResetNotifiesFull
      BY <3>3 DEF ResetNotifiesFull, NotifiedFull, WaitFull, At, Waits
    <3> QED BY <1>5, <3>1, <3>2, <3>3 DEF OwnerStep, ResetGoesOn, Reset, ResetPass,
            ResetNotifiesEmpty, ResetWaits, ResetWoken
  <2> QED BY <1>0, <2>1, <2>2, PushesSame
<1>6. CASE UNCHANGED queueVars
  BY <1>6, PushesSame DEF queueVars, Waits
<1> QED BY <1>1, <1>2, <1>3, <1>4, <1>5, <1>6 DEF QueuesNext

Items == PUSHERS \X (1 .. MAX_PUSHES)

QueueType ==
    /\ queue \in [Queues -> Seq(Items)]
    /\ \A q \in Queues : Len(queue[q]) <= CAPACITY

\* What may happen to a queue.
Queues0 == [q \in Queues |-> << >>]

LEMMA QueueKept ==
    ASSUME QueueType, UNCHANGED queue PROVE QueueType'
BY DEF QueueType

LEMMA QueueEmptied ==
    ASSUME QueueType,
           queue' = Queues0 \/ \E q \in Queues : queue' = [queue EXCEPT ![q] = << >>]
    PROVE  QueueType'
<1>1. << >> \in Seq(Items) /\ Len(<< >>) = 0 /\ 0 <= CAPACITY
  BY QueueAssumption, SMT
<1>2. CASE queue' = Queues0 BY <1>1, <1>2 DEF QueueType, Queues0
<1>3. CASE \E q \in Queues : queue' = [queue EXCEPT ![q] = << >>]
  <2>1. PICK q \in Queues : queue' = [queue EXCEPT ![q] = << >>] BY <1>3
  <2>2. queue'[q] = << >> /\ \A r \in Queues \ {q} : queue'[r] = queue[r] BY <2>1 DEF QueueType
  <2>3. queue' \in [Queues -> Seq(Items)] BY <1>1, <2>1 DEF QueueType
  <2> QED BY <1>1, <2>2, <2>3 DEF QueueType
<1> QED BY <1>2, <1>3

LEMMA QueueAppended ==
    ASSUME QueueType, NEW q \in Queues, NEW i \in Items, ~Full(q),
           queue' = [queue EXCEPT ![q] = Append(@, i)]
    PROVE  /\ QueueType'
           /\ Len(queue'[q]) = Len(queue[q]) + 1
<1>1. queue[q] \in Seq(Items) /\ Len(queue[q]) \in Nat /\ CAPACITY \in Nat
  BY QueueAssumption, SMT DEF QueueType
<1>2. Append(queue[q], i) \in Seq(Items) /\ Len(Append(queue[q], i)) = Len(queue[q]) + 1
  BY <1>1, SMT
<1>3. queue' \in [Queues -> Seq(Items)] BY <1>2 DEF QueueType
<1>4. queue'[q] = Append(queue[q], i) /\ \A r \in Queues \ {q} : queue'[r] = queue[r]
  BY DEF QueueType
<1>5. Len(queue'[q]) <= CAPACITY BY <1>1, <1>2, <1>4, SMT DEF Full
<1> QED BY <1>2, <1>3, <1>4, <1>5 DEF QueueType

LEMMA QueuePopped ==
    ASSUME QueueType, NEW q \in Queues, queue[q] # << >>,
           queue' = [queue EXCEPT ![q] = Tail(@)]
    PROVE  /\ QueueType'
           /\ Len(queue'[q]) = Len(queue[q]) - 1
<1>1. queue[q] \in Seq(Items) /\ Len(queue[q]) \in Nat /\ CAPACITY \in Nat
  BY QueueAssumption, SMT DEF QueueType
<1>2. Tail(queue[q]) \in Seq(Items) /\ Len(Tail(queue[q])) = Len(queue[q]) - 1
  BY <1>1, SMT
<1>3. queue' \in [Queues -> Seq(Items)] BY <1>2 DEF QueueType
<1>4. queue'[q] = Tail(queue[q]) /\ \A r \in Queues \ {q} : queue'[r] = queue[r]
  BY DEF QueueType
<1>5. Len(queue[q]) <= CAPACITY BY DEF QueueType
<1>6. Len(queue'[q]) <= CAPACITY BY <1>1, <1>2, <1>4, <1>5, SMT
<1> QED BY <1>2, <1>3, <1>4, <1>6 DEF QueueType

\* An item that is queued finds room.
LEMMA Enqueued ==
    ASSUME PcType, PushesCounted, NEW p \in PUSHERS, Push(p) \/ TryPush(p) \/ PushWoken(p)
    PROVE  \/ UNCHANGED <<queue, accepted>>
           \/ /\ Enqueue(p)
              /\ is_queue_active(TARGET[p]) /\ ~Full(TARGET[p])
              /\ TARGET[p] \in Queues /\ <<p, accepted[p] + 1>> \in Items
<1>1. TARGET[p] \in Queues BY QueueAssumption
<1>2. \/ UNCHANGED <<queue, accepted>>
      \/ Enqueue(p) /\ is_queue_active(TARGET[p]) /\ ~Full(TARGET[p])
  BY DEF Push, TryPush, PushWoken, PushPass, HasRoom
<1>3. Enqueue(p) => <<p, accepted[p] + 1>> \in Items BY PushesPush DEF Items
<1> QED BY <1>1, <1>2, <1>3

LEMMA QueueStep ==
    ASSUME PcType, PushesCounted, QueueType, [QueuesNext]_queueVars
    PROVE  QueueType'
<1>1. ASSUME NEW p \in PUSHERS, PusherStep(p) PROVE QueueType'
  <2>1. CASE NotifyEmpty(p)
    BY <2>1, QueueKept DEF NotifyEmpty, shared
  <2>2. CASE Push(p) \/ TryPush(p) \/ PushWoken(p)
    BY <2>2, Enqueued, QueueKept, QueueAppended DEF Enqueue
  <2> QED BY <1>1, <2>1, <2>2 DEF PusherStep
<1>2. ASSUME NEW t \in POPPERS, PopperStep(t) PROVE QueueType'
  <2>1. ASSUME NEW q \in NextReady, Pop(t, q) PROVE QueueType'
    BY <2>1, QueuePopped DEF Pop, NextReady, Ready
  <2> QED BY <1>2, <2>1, QueueKept DEF PopperStep, WaitPop, NotifyFull, shared
<1>3. ASSUME NEW t \in POPPERS, AddQueue(t) \/ \E q \in ERASED : EraseQueue(t, q)
      PROVE  QueueType'
  <2>1. ERASED \subseteq Queues BY QueueAssumption
  <2> QED BY <1>3, <2>1, QueueKept, QueueEmptied DEF AddQueue, EraseQueue, LeftAfterErase
<1>4. CASE WakesSpuriously
  BY <1>4, QueueKept DEF WakesSpuriously, shared
<1>5. CASE OwnerStep
  <2>1. CASE Reset \/ ResetWoken
    BY <2>1, QueueKept, QueueEmptied DEF Reset, ResetWoken, ResetPass, Queues0
  <2> QED BY <1>5, <2>1, QueueKept DEF OwnerStep, ResetGoesOn, ResetNotifiesEmpty,
          ResetNotifiesFull, ResetWaits, shared
<1>6. CASE UNCHANGED queueVars
  BY <1>6, QueueKept DEF queueVars, shared
<1> QED BY <1>1, <1>2, <1>3, <1>4, <1>5, <1>6 DEF QueuesNext

\* The rest of the types.
FlagsType ==
    /\ queue_active \in [Queues -> BOOLEAN] /\ queue_running \in BOOLEAN
    /\ spin_idx \in Queues
    /\ reset_pc \in {"idle", "notify empty", "notify full", "lock", "blocked", "woken", "done"}
    /\ stranded \subseteq PUSHERS

LEMMA FlagsStep ==
    ASSUME FlagsType, [QueuesNext]_queueVars
    PROVE  FlagsType'
<1>1. ASSUME NEW p \in PUSHERS, PusherStep(p) PROVE FlagsType'
  <2>1. /\ UNCHANGED <<queue_active, queue_running, spin_idx>>
        /\ stranded' = stranded \/ stranded' = stranded \ {p}
    BY <1>1 DEF PusherStep, Push, TryPush, PushWoken, PushPass, NotifyEmpty, shared
  <2>2. reset_pc' = reset_pc \/ reset_pc' = "woken"
    BY <1>1 DEF PusherStep, Push, TryPush, PushWoken, PushPass, NotifyEmpty, NotifiesExit
  <2> QED BY <2>1, <2>2 DEF FlagsType
<1>2. ASSUME NEW t \in POPPERS, PopperStep(t) PROVE FlagsType'
  <2>1. /\ UNCHANGED <<queue_active, queue_running, stranded>>
        /\ spin_idx' = spin_idx \/ spin_idx' \in Queues
    BY <1>2 DEF PopperStep, WaitPop, Pop, NextReady, Ready, NotifyFull, shared
  <2>2. reset_pc' = reset_pc \/ reset_pc' = "woken"
    BY <1>2 DEF PopperStep, WaitPop, Pop, NotifyFull, NotifiesExit
  <2> QED BY <2>1, <2>2 DEF FlagsType
<1>3. ASSUME NEW t \in POPPERS, AddQueue(t) \/ \E q \in ERASED : EraseQueue(t, q)
      PROVE  FlagsType'
  <2>1. \A q : WaitFull(q) \subseteq PUSHERS BY DEF WaitFull
  <2> QED BY <1>3, <2>1 DEF FlagsType, AddQueue, EraseQueue
<1>4. CASE WakesSpuriously
  BY <1>4 DEF FlagsType, WakesSpuriously, shared
<1>5. CASE OwnerStep
  <2>1. CASE Reset \/ ResetWoken
    BY <2>1 DEF FlagsType, Reset, ResetWoken, ResetPass
  <2>2. CASE ResetNotifiesEmpty
    BY <2>2 DEF FlagsType, ResetNotifiesEmpty, shared
  <2>3. CASE ResetNotifiesFull
    BY <2>3 DEF FlagsType, ResetNotifiesFull, shared
  <2>4. CASE ResetWaits
    BY <2>4 DEF FlagsType, ResetWaits, shared
  <2> QED BY <1>5, <2>1, <2>2, <2>3, <2>4 DEF OwnerStep, ResetGoesOn
<1>6. CASE UNCHANGED queueVars
  BY <1>6 DEF FlagsType, queueVars, shared
<1> QED BY <1>1, <1>2, <1>3, <1>4, <1>5, <1>6 DEF QueuesNext

TypeInv == PcType /\ WaitingCounted /\ PushesCounted /\ QueueType /\ FlagsType

LEMMA TypeInit == QueuesInit => TypeInv
<1> SUFFICES ASSUME QueuesInit PROVE TypeInv
  OBVIOUS
<1>1. PcType /\ FlagsType
  BY QueueAssumption, SMT DEF QueuesInit, PcType, Places, FlagsType, Queues
<1>2. Waiting = {} BY DEF QueuesInit, Waiting, Waits
<1>3. WaitingCounted BY <1>2, FS_EmptySet DEF QueuesInit, WaitingCounted
<1>4. PushesCounted
  BY QueueAssumption, SMT DEF QueuesInit, PushesCounted, Waits, Threads
<1>5. QueueType
  <2>1. Len(<< >>) <= CAPACITY /\ << >> \in Seq(Items) BY QueueAssumption, SMT
  <2> QED BY <2>1 DEF QueuesInit, QueueType
<1> QED BY <1>1, <1>3, <1>4, <1>5 DEF TypeInv

LEMMA TypeStep == ASSUME TypeInv, [QueuesNext]_queueVars PROVE TypeInv'
BY PcStep, WaitingStep, PushesStep, QueueStep, FlagsStep DEF TypeInv

(***************************************************************************)
(* The count of waiting threads, which wait_pop and reset decide by, is    *)
(* the number of threads that wait on a condition variable or have been    *)
(* woken and not yet got the mutex; no queue holds more than CAPACITY      *)
(* items, whoever took the place a pusher was woken for.                   *)
(***************************************************************************)
THEOREM QueuesTypeCorrect == QueuesSpec => []QueuesTypeOK
<1>1. TypeInv => QueuesTypeOK
  BY DEF TypeInv, QueuesTypeOK, PcType, Places, WaitingCounted, Waiting, Waits, QueueType, Items,
         FlagsType
<1> QED BY <1>1, TypeInit, TypeStep, PTL DEF QueuesSpec

-----------------------------------------------------------------------------
(***************************************************************************)
(* No free place is forgotten.                                             *)
(***************************************************************************)
\* Who is on the way to a free place of q.
Coming(q) == {p \in PUSHERS : TARGET[p] = q /\ At(p, "woken")}
             \union {t \in POPPERS : At(t, "notify") /\ spin_idx = q}

\* Somebody sleeps on q whom erase_queue has not left behind.
Hopes(q) == ~(WaitFull(q) \subseteq stranded)

PlaceNoticed(q) ==
    is_queue_active(q) /\ Hopes(q) => CAPACITY - Len(queue[q]) <= Cardinality(Coming(q))

\* Whoever sleeps on a queue that is gone was left behind when it was erased.
LeftBehind ==
    \A p \in PUSHERS : At(p, "blocked") /\ ~queue_active[TARGET[p]] => p \in stranded

LEMMA ComingFinite ==
    ASSUME NEW q
    PROVE  /\ IsFiniteSet(Coming(q)) /\ Cardinality(Coming(q)) \in Nat
           /\ IsFiniteSet(Coming(q)') /\ Cardinality(Coming(q)') \in Nat
<1>1. Coming(q) \in SUBSET Threads /\ Coming(q)' \in SUBSET Threads BY DEF Coming, Threads
<1>2. IsFiniteSet(Coming(q)) /\ IsFiniteSet(Coming(q)') BY <1>1, ThreadsFinite
<1> QED BY <1>2, FS_CardinalityType

LEMMA LenType ==
    ASSUME QueueType, NEW q \in Queues
    PROVE  Len(queue[q]) \in Nat /\ CAPACITY \in Nat
BY QueueAssumption, SMT DEF QueueType

\* As many come as before.
LEMMA PlaceKept ==
    ASSUME NEW q \in Queues, QueueType, PlaceNoticed(q), queue'[q] = queue[q],
           is_queue_active(q)' => is_queue_active(q),
           Hopes(q)' => Hopes(q),
           Coming(q) \subseteq Coming(q)'
    PROVE  PlaceNoticed(q)'
<1>1. Cardinality(Coming(q)) <= Cardinality(Coming(q)') BY ComingFinite, FS_Subset
<1>2. Len(queue[q]) \in Nat /\ CAPACITY \in Nat BY LenType
<1>3. Cardinality(Coming(q)) \in Nat /\ Cardinality(Coming(q)') \in Nat BY ComingFinite
<1>4. PICK n \in Nat, m \in Nat, l \in Nat :
          n = Cardinality(Coming(q)) /\ m = Cardinality(Coming(q)') /\ l = Len(queue[q])
  BY <1>2, <1>3
<1>5. CAPACITY - l <= n /\ n <= m => CAPACITY - l <= m BY <1>2, SMT
<1> QED BY <1>1, <1>4, <1>5 DEF PlaceNoticed

\* One place is taken, and one thread less comes.
LEMMA PlaceTaken ==
    ASSUME NEW q \in Queues, QueueType, PlaceNoticed(q), Len(queue'[q]) = Len(queue[q]) + 1,
           is_queue_active(q), Hopes(q)' => Hopes(q),
           NEW p, Coming(q) \ {p} \subseteq Coming(q)'
    PROVE  PlaceNoticed(q)'
<1>1. /\ Cardinality(Coming(q) \ {p}) <= Cardinality(Coming(q)')
      /\ Cardinality(Coming(q)) <= Cardinality(Coming(q) \ {p}) + 1
  <2>1. Cardinality(Coming(q) \ {p}) <= Cardinality(Coming(q)') BY ComingFinite, FS_Subset
  <2>2. Cardinality(Coming(q) \ {p}) =
          IF p \in Coming(q) THEN Cardinality(Coming(q)) - 1 ELSE Cardinality(Coming(q))
    BY ComingFinite, FS_RemoveElement
  <2>3. Cardinality(Coming(q)) \in Nat BY ComingFinite
  <2>4. PICK n \in Nat : n = Cardinality(Coming(q)) BY <2>3
  <2> QED BY <2>1, <2>2, <2>4, SMT
<1>2. Len(queue[q]) \in Nat /\ CAPACITY \in Nat BY LenType
<1>3. /\ Cardinality(Coming(q)) \in Nat /\ Cardinality(Coming(q)') \in Nat
      /\ Cardinality(Coming(q) \ {p}) \in Nat
  BY ComingFinite, FS_RemoveElement, FS_CardinalityType
<1>4. PICK n \in Nat, m \in Nat, l \in Nat, k \in Nat :
          /\ n = Cardinality(Coming(q)) /\ m = Cardinality(Coming(q)') /\ l = Len(queue[q])
          /\ k = Cardinality(Coming(q) \ {p})
  BY <1>2, <1>3
<1>5. CAPACITY - l <= n /\ k <= m /\ n <= k + 1 => CAPACITY - (l + 1) <= m BY <1>2, SMT
<1> QED BY <1>1, <1>4, <1>5 DEF PlaceNoticed

\* Coming has one element for another, or one more.
LEMMA PlaceExchanged ==
    ASSUME NEW q \in Queues, QueueType, PlaceNoticed(q), is_queue_active(q)' => is_queue_active(q),
           Hopes(q)' => Hopes(q), NEW w, w \notin Coming(q),
           \/ /\ queue'[q] = queue[q]
              /\ \E s \in Coming(q) : Coming(q)' = (Coming(q) \ {s}) \union {w}
           \/ /\ Len(queue'[q]) = Len(queue[q]) - 1
              /\ Coming(q)' = Coming(q) \union {w}
    PROVE  PlaceNoticed(q)'
<1>2. Len(queue[q]) \in Nat /\ CAPACITY \in Nat BY LenType
<1>3. Cardinality(Coming(q)) \in Nat /\ IsFiniteSet(Coming(q)) BY ComingFinite
<1>4. PICK n \in Nat, l \in Nat : n = Cardinality(Coming(q)) /\ l = Len(queue[q])
  BY <1>2, <1>3
<1>5. CASE queue'[q] = queue[q] /\ \E s \in Coming(q) : Coming(q)' = (Coming(q) \ {s}) \union {w}
  <2>1. PICK s \in Coming(q) : Coming(q)' = (Coming(q) \ {s}) \union {w} BY <1>5
  <2>2. IsFiniteSet(Coming(q) \ {s}) /\ Cardinality(Coming(q) \ {s}) = n - 1
    BY <1>3, <1>4, FS_RemoveElement
  <2>3. Cardinality(Coming(q)') = (n - 1) + 1 BY <2>1, <2>2, FS_AddElement, ZenonT(30)
  <2>4. (n - 1) + 1 = n BY SMT
  <2> QED BY <1>4, <1>5, <2>3, <2>4 DEF PlaceNoticed
<1>6. CASE Len(queue'[q]) = Len(queue[q]) - 1 /\ Coming(q)' = Coming(q) \union {w}
  <2>1. Cardinality(Coming(q)') = n + 1 BY <1>3, <1>4, <1>6, FS_AddElement
  <2>2. CAPACITY - l <= n => CAPACITY - (l - 1) <= n + 1 BY <1>2, SMT
  <2> QED BY <1>4, <1>6, <2>1, <2>2 DEF PlaceNoticed
<1> QED BY <1>5, <1>6

\* Nobody waits, or nothing is free.
LEMMA PlaceUnwanted ==
    ASSUME NEW q, WaitFull(q)' = {} \/ ~is_queue_active(q)'
    PROVE  PlaceNoticed(q)'
BY DEF PlaceNoticed, Hopes

LEMMA PlaceNone ==
    ASSUME NEW q \in Queues, QueueType, Full(q), queue' = queue
    PROVE  PlaceNoticed(q)'
<1>1. Len(queue[q]) \in Nat /\ CAPACITY \in Nat /\ Len(queue[q]) >= CAPACITY BY LenType DEF Full
<1>2. Cardinality(Coming(q)') \in Nat BY ComingFinite
<1>3. PICK m \in Nat, l \in Nat : m = Cardinality(Coming(q)') /\ l = Len(queue[q])
  BY <1>1, <1>2
<1>4. l >= CAPACITY => CAPACITY - l <= m BY <1>1, SMT
<1> QED BY <1>1, <1>3, <1>4 DEF PlaceNoticed

LEMMA PlacePush ==
    ASSUME PcType, PushesCounted, QueueType, NEW q \in Queues, PlaceNoticed(q),
           NEW p \in PUSHERS, Push(p) \/ TryPush(p) \/ PushWoken(p)
    PROVE  PlaceNoticed(q)'
<1>1. /\ p \in Threads /\ pc[p] # "blocked" /\ p \notin POPPERS
      /\ UNCHANGED <<queue_active, queue_running, spin_idx>>
      /\ stranded' = stranded \/ stranded' = stranded \ {p}
  BY QueueAssumption DEF Push, TryPush, PushWoken, PushPass, At, Threads
<1>2. \A u \in Threads \ {p} : pc'[u] = pc[u]
  BY DEF Push, TryPush, PushWoken, PushPass, Goes, PcType
<1>3. Coming(q) \ {p} \subseteq Coming(q)'
  BY <1>1, <1>2 DEF Coming, At, Threads
<1>4. is_queue_active(q)' <=> is_queue_active(q) BY <1>1 DEF is_queue_active
<1>5. ASSUME pc'[p] # "blocked" \/ TARGET[p] # q PROVE Hopes(q)' => Hopes(q)
  <2>1. WaitFull(q)' = WaitFull(q) BY <1>1, <1>2, <1>5 DEF WaitFull, At, Threads
  <2>2. p \notin WaitFull(q) BY <1>1 DEF WaitFull, At
  <2> QED BY <1>1, <2>1, <2>2 DEF Hopes
<1>6. CASE TARGET[p] # q
  <2>1. queue'[q] = queue[q]
    BY <1>6, Enqueued DEF Enqueue, QueueType
  <2>2. p \notin Coming(q) BY <1>1, <1>6 DEF Coming
  <2> QED BY <1>3, <1>4, <1>5, <1>6, <2>1, <2>2, PlaceKept
<1>7. CASE TARGET[p] = q
  <2>1. CASE ~is_queue_active(q) BY <1>4, <2>1, PlaceUnwanted
  <2>2. CASE is_queue_active(q) /\ Full(q)
    <3>1. queue' = queue
      BY <1>7, <2>2 DEF Push, TryPush, PushWoken, PushPass, HasRoom
    <3> QED BY <2>2, <3>1, PlaceNone
  <2>3. CASE is_queue_active(q) /\ ~Full(q)
    <3>1. Enqueue(p) /\ Goes(p, "notify")
      BY <1>7, <2>3 DEF Push, TryPush, PushWoken, PushPass, HasRoom
    <3>2. pc'[p] = "notify" BY <1>1, <3>1 DEF Goes, PcType
    <3>3. <<p, accepted[p] + 1>> \in Items BY <3>1, PushesPush DEF Items
    <3>4. Len(queue'[q]) = Len(queue[q]) + 1
      BY <1>7, <2>3, <3>1, <3>3, QueueAppended DEF Enqueue
    <3>5. Hopes(q)' => Hopes(q) BY <1>5, <3>2
    <3> QED BY <1>3, <2>3, <3>4, <3>5, PlaceTaken
  <2> QED BY <2>1, <2>2, <2>3
<1> QED BY <1>6, <1>7

\* A step that only wakes threads, or takes a thread of the stack that was not
\* about to notify somewhere else.
LEMMA PlaceWakes ==
    ASSUME PcType, QueueType, NEW q \in Queues, PlaceNoticed(q),
           UNCHANGED <<queue_active, queue_running, spin_idx, stranded>>, queue'[q] = queue[q],
           \A t \in PUSHERS : \/ pc'[t] = pc[t]
                              \/ pc[t] = "blocked" /\ pc'[t] = "woken"
                              \/ pc[t] = "notify" /\ pc'[t] = "idle",
           \A t \in POPPERS : pc[t] = "notify" => pc'[t] = "notify"
    PROVE  PlaceNoticed(q)'
<1>1. WaitFull(q)' \subseteq WaitFull(q) BY DEF WaitFull, At
<1>2. Hopes(q)' => Hopes(q) BY <1>1 DEF Hopes
<1>3. Coming(q) \subseteq Coming(q)' BY DEF Coming, At
<1>4. is_queue_active(q)' <=> is_queue_active(q) BY DEF is_queue_active
<1> QED BY <1>2, <1>3, <1>4, PlaceKept

LEMMA PlacePop ==
    ASSUME NEW s, POPPERS = {s}, TypeInv, NEW q \in Queues, PlaceNoticed(q),
           NEW r \in NextReady, At(s, "idle") \/ At(s, "woken"), Pop(s, r),
           UNCHANGED <<queue_active, queue_running, stranded>>
    PROVE  PlaceNoticed(q)'
<1>0. s \in Threads /\ s \notin PUSHERS /\ PcType /\ QueueType /\ WaitingCounted
  BY QueueAssumption DEF Threads, TypeInv
<1>1. /\ r \in Queues /\ queue[r] # << >> /\ spin_idx' = r
      /\ queue' = [queue EXCEPT ![r] = Tail(@)]
      /\ pc' = [pc EXCEPT ![s] = AfterPop(s)]
  BY DEF NextReady, Ready, Pop, Goes
<1>2. pc'[s] = AfterPop(s) /\ \A u \in PUSHERS : pc'[u] = pc[u]
  BY <1>0, <1>1 DEF PcType, Threads
<1>3. WaitFull(q)' = WaitFull(q) BY <1>2 DEF WaitFull, At
<1>4. Hopes(q)' => Hopes(q) BY <1>3 DEF Hopes
<1>5. is_queue_active(q)' <=> is_queue_active(q) BY DEF is_queue_active
<1>6. s \notin Coming(q) BY <1>0 DEF Coming, At
<1>7. Coming(q) = {p \in PUSHERS : TARGET[p] = q /\ At(p, "woken")}
  BY <1>6 DEF Coming
<1>8. CASE r # q
  <2>1. queue'[q] = queue[q] BY <1>0, <1>1, <1>8 DEF QueueType
  <2>2. Coming(q) \subseteq Coming(q)' BY <1>2, <1>7 DEF Coming, At
  <2> QED BY <1>0, <1>4, <1>5, <2>1, <2>2, PlaceKept
<1>9. CASE r = q /\ AfterPop(s) = "notify"
  <2>1. Coming(q)' = Coming(q) \union {s} BY <1>1, <1>2, <1>7, <1>9 DEF Coming, At
  <2>2. Len(queue'[q]) = Len(queue[q]) - 1 BY <1>0, <1>1, <1>9, QueuePopped
  <2> QED BY <1>0, <1>4, <1>5, <1>6, <2>1, <2>2, PlaceExchanged
<1>10. CASE r = q /\ AfterPop(s) # "notify"
  <2>1. ~(Counted(s) > 0) BY <1>10 DEF AfterPop
  <2>2. Counted(s) = Cardinality(Waiting \ {s})
    BY <1>0, CountedIs DEF At
  <2>3. IsFiniteSet(Waiting \ {s}) BY ThreadsFinite DEF Waiting
  <2>4. Cardinality(Waiting \ {s}) \in Nat BY <2>3, FS_CardinalityType
  <2>5. Cardinality(Waiting \ {s}) = 0 BY <2>1, <2>2, <2>4, SMT
  <2>6. Waiting \ {s} = {} BY <2>3, <2>5, FS_EmptySet
  <2>7. WaitFull(q)' = {} BY <1>0, <1>3, <2>6 DEF WaitFull, Waiting, Waits, At, Threads
  <2> QED BY <2>7, PlaceUnwanted
<1> QED BY <1>8, <1>9, <1>10 DEF AfterPop

LEMMA PlaceNotified ==
    ASSUME NEW s, POPPERS = {s}, TypeInv, NEW q \in Queues, PlaceNoticed(q), NotifyFull(s)
    PROVE  PlaceNoticed(q)'
<1>0. s \in Threads /\ s \notin PUSHERS /\ PcType /\ QueueType
  BY QueueAssumption DEF Threads, TypeInv
<1>1. /\ pc[s] = "notify" /\ NotifiesOne(s, WaitFull(spin_idx))
      /\ UNCHANGED <<queue, queue_active, queue_running, spin_idx, stranded>>
  BY DEF NotifyFull, shared, At
<1>2. is_queue_active(q)' <=> is_queue_active(q) BY <1>1 DEF is_queue_active
<1>3. CASE WaitFull(spin_idx) = {}
  <2>1. pc' = [pc EXCEPT ![s] = "idle"] BY <1>1, <1>3 DEF NotifiesOne
  <2>2. \A u \in PUSHERS : pc'[u] = pc[u] BY <1>0, <2>1 DEF PcType, Threads
  <2>3. WaitFull(q)' = WaitFull(q) BY <2>2 DEF WaitFull, At
  <2>4. CASE spin_idx = q BY <1>3, <2>3, <2>4, PlaceUnwanted
  <2>5. CASE spin_idx # q
    <3>1. Coming(q) \subseteq Coming(q)' BY <2>2, <2>5 DEF Coming, At
    <3> QED BY <1>0, <1>1, <1>2, <2>3, <3>1, PlaceKept DEF Hopes
  <2> QED BY <2>4, <2>5
<1>4. CASE WaitFull(spin_idx) # {}
  <2>1. PICK w \in WaitFull(spin_idx) : pc' = [[pc EXCEPT ![s] = "idle"] EXCEPT ![w] = "woken"]
    BY <1>1, <1>4 DEF NotifiesOne
  <2>2. w \in PUSHERS /\ w \in Threads /\ pc[w] = "blocked" /\ TARGET[w] = spin_idx /\ w # s
    BY <1>0 DEF WaitFull, At, Threads
  <2>3. /\ pc'[s] = "idle" /\ pc'[w] = "woken"
        /\ \A u \in PUSHERS \ {w} : pc'[u] = pc[u]
    BY <1>0, <2>1, <2>2 DEF PcType, Threads
  <2>4. WaitFull(q)' \subseteq WaitFull(q) BY <2>2, <2>3 DEF WaitFull, At
  <2>5. Hopes(q)' => Hopes(q) BY <1>1, <2>4 DEF Hopes
  <2>6. CASE spin_idx = q
    <3>1. s \in Coming(q) BY <1>1, <2>6 DEF Coming, At
    <3>2. w \notin Coming(q) BY <1>0, <2>2 DEF Coming, At
    <3>3. Coming(q)' = (Coming(q) \ {s}) \union {w}
      <4>1. Coming(q)' = {p \in PUSHERS : TARGET[p] = q /\ At(p, "woken")'}
        BY <2>3 DEF Coming, At
      <4>2. Coming(q) \ {s} = {p \in PUSHERS : TARGET[p] = q /\ At(p, "woken")}
        BY <1>0 DEF Coming
      <4> QED BY <2>2, <2>3, <2>6, <4>1, <4>2 DEF At
    <3> QED BY <1>0, <1>1, <1>2, <2>5, <3>1, <3>2, <3>3, PlaceExchanged
  <2>7. CASE spin_idx # q
    <3>1. Coming(q) \subseteq Coming(q)' BY <2>2, <2>3, <2>7 DEF Coming, At
    <3> QED BY <1>0, <1>1, <1>2, <2>5, <3>1, PlaceKept
  <2> QED BY <2>6, <2>7
<1> QED BY <1>3, <1>4

LEMMA PlaceErased ==
    ASSUME TypeInv, LeftBehind, NEW q \in Queues, PlaceNoticed(q), NEW t,
           AddQueue(t) \/ \E r \in ERASED : EraseQueue(t, r)
    PROVE  PlaceNoticed(q)'
<1>0. PcType /\ QueueType /\ FlagsType /\ ERASED \subseteq Queues BY QueueAssumption DEF TypeInv
<1>1. pc' = pc /\ spin_idx' = spin_idx /\ queue_running' = queue_running
      /\ stranded \subseteq stranded'
  BY DEF AddQueue, EraseQueue
<1>2. WaitFull(q)' = WaitFull(q) /\ Coming(q)' = Coming(q)
  BY <1>1 DEF WaitFull, Coming, At
<1>3. Hopes(q)' => Hopes(q) BY <1>1, <1>2 DEF Hopes
<1>4. CASE AddQueue(t) /\ ~queue_active[q]
  <2>1. WaitFull(q) \subseteq stranded BY <1>4 DEF LeftBehind, WaitFull
  <2> QED BY <1>3, <2>1 DEF Hopes, PlaceNoticed
<1>5. CASE AddQueue(t) /\ queue_active[q]
  <2>1. queue' = queue BY <1>5 DEF AddQueue
  <2>2. is_queue_active(q)' => is_queue_active(q) BY <1>1, <1>5 DEF is_queue_active
  <2> QED BY <1>0, <1>2, <1>3, <2>1, <2>2, PlaceKept
<1>6. ASSUME NEW r \in ERASED, EraseQueue(t, r) PROVE PlaceNoticed(q)'
  <2>1. /\ queue_active' = [queue_active EXCEPT ![r] = FALSE]
        /\ queue' = [queue EXCEPT ![r] = << >>]
    BY <1>6 DEF EraseQueue, LeftAfterErase
  <2>2. CASE r = q
    <3>1. ~is_queue_active(q)' BY <1>0, <2>1, <2>2 DEF FlagsType, is_queue_active
    <3> QED BY <3>1, PlaceUnwanted
  <2>3. CASE r # q
    <3>1. queue'[q] = queue[q] /\ queue_active'[q] = queue_active[q]
      BY <1>0, <2>1, <2>3 DEF FlagsType, QueueType
    <3>2. is_queue_active(q)' => is_queue_active(q) BY <1>1, <3>1 DEF is_queue_active
    <3> QED BY <1>0, <1>2, <1>3, <3>1, <3>2, PlaceKept
  <2> QED BY <2>2, <2>3
<1> QED BY <1>4, <1>5, <1>6

LEMMA PlaceOwner ==
    ASSUME TypeInv, NEW q \in Queues, PlaceNoticed(q), OwnerStep
    PROVE  PlaceNoticed(q)'
<1>0. PcType /\ QueueType /\ PUSHERS \intersect POPPERS = {} BY QueueAssumption DEF TypeInv
<1>1. CASE Reset \/ ResetWoken
  <2>1. ~is_queue_active(q)' BY <1>1 DEF Reset, ResetWoken, ResetPass, is_queue_active
  <2> QED BY <2>1, PlaceUnwanted
<1>2. CASE ResetNotifiesEmpty
  <2>1. \A t \in PUSHERS : pc'[t] = pc[t]
    BY <1>0, <1>2 DEF ResetNotifiesEmpty, WaitEmpty, Goes, PcType, Threads
  <2>2. \A t \in POPPERS : pc[t] = "notify" => pc'[t] = "notify"
    BY <1>0, <1>2 DEF ResetNotifiesEmpty, WaitEmpty, Goes, At, PcType, Threads
  <2> QED BY <1>0, <1>2, <2>1, <2>2, PlaceWakes DEF ResetNotifiesEmpty, shared
<1>3. CASE ResetNotifiesFull
  <2>1. \A p \in WaitFull(q) : p \in Threads /\ p \in NotifiedFull
    BY DEF WaitFull, NotifiedFull, Threads
  <2>2. \A p \in PUSHERS : p \in Threads /\ (pc'[p] = "woken" \/ (pc'[p] = pc[p] /\ p \notin NotifiedFull))
    BY <1>3 DEF ResetNotifiesFull, Threads
  <2>3. \A p \in PUSHERS : pc'[p] = "blocked" => TARGET[p] # q
    BY <2>1, <2>2 DEF WaitFull, At
  <2>4. WaitFull(q)' = {} BY <2>3 DEF WaitFull, At
  <2> QED BY <2>4, PlaceUnwanted
<1>4. CASE ResetWaits
  BY <1>0, <1>4, PlaceWakes DEF ResetWaits, shared
<1> QED BY <1>1, <1>2, <1>3, <1>4 DEF OwnerStep, ResetGoesOn

LEMMA PlaceStep ==
    ASSUME NEW s, POPPERS = {s}, TypeInv, LeftBehind, NEW q \in Queues, PlaceNoticed(q),
           [QueuesNext]_queueVars
    PROVE  PlaceNoticed(q)'
<1>0. PcType /\ QueueType /\ PushesCounted /\ PUSHERS \intersect POPPERS = {} /\ s \in Threads
      /\ s \notin PUSHERS
  BY QueueAssumption DEF TypeInv, Threads
<1>1. ASSUME NEW p \in PUSHERS, PusherStep(p) PROVE PlaceNoticed(q)'
  <2>1. CASE NotifyEmpty(p)
    <3>1. p \in Threads /\ pc[p] = "notify" /\ NotifiesOne(p, WaitEmpty) /\ p # s
      BY <1>0, <2>1 DEF NotifyEmpty, At, Threads
    <3>2. /\ \A t \in PUSHERS : pc'[t] = pc[t] \/ (pc[t] = "notify" /\ pc'[t] = "idle")
          /\ pc[s] = "notify" => pc'[s] = "notify"
      BY <1>0, <3>1 DEF NotifiesOne, WaitEmpty, At, PcType, Threads
    <3> QED BY <1>0, <2>1, <3>2, PlaceWakes DEF NotifyEmpty, shared
  <2> QED BY <1>0, <1>1, <2>1, PlacePush DEF PusherStep
<1>2. CASE PopperStep(s)
  <2>1. CASE NotifyFull(s) BY <2>1, PlaceNotified
  <2>2. CASE WaitPop(s)
    <3>0. /\ At(s, "idle") \/ At(s, "woken")
          /\ UNCHANGED <<queue_active, queue_running, stranded>>
      BY <2>2 DEF WaitPop
    <3>1. ASSUME NEW r \in NextReady, Pop(s, r) PROVE PlaceNoticed(q)'
      BY <3>0, <3>1, PlacePop
    <3>2. CASE UNCHANGED <<queue, spin_idx>> /\ \E where : Goes(s, where)
      <4>1. \A t \in PUSHERS : pc'[t] = pc[t] BY <1>0, <3>2 DEF Goes, PcType, Threads
      <4>2. pc[s] # "notify" BY <3>0 DEF At
      <4> QED BY <1>0, <3>0, <3>2, <4>1, <4>2, PlaceWakes
    <3> QED BY <2>2, <3>1, <3>2 DEF WaitPop
  <2> QED BY <1>2, <2>1, <2>2 DEF PopperStep
<1>3. ASSUME NEW t \in POPPERS, AddQueue(t) \/ \E r \in ERASED : EraseQueue(t, r)
      PROVE  PlaceNoticed(q)'
  BY <1>3, PlaceErased
<1>4. CASE WakesSpuriously
  <2>1. /\ \A t \in PUSHERS : pc'[t] = pc[t] \/ (pc[t] = "blocked" /\ pc'[t] = "woken")
        /\ \A t \in POPPERS : pc[t] = "notify" => pc'[t] = "notify"
    <3>1. CASE UNCHANGED pc BY <3>1
    <3>2. CASE \E t \in Threads : At(t, "blocked") /\ Goes(t, "woken")
      <4>1. PICK u \in Threads : pc[u] = "blocked" /\ pc' = [pc EXCEPT ![u] = "woken"]
        BY <3>2 DEF At, Goes
      <4>2. pc'[u] = "woken" /\ \A t \in Threads \ {u} : pc'[t] = pc[t]
        BY <1>0, <4>1 DEF PcType
      <4> QED BY <4>1, <4>2 DEF Threads
    <3> QED BY <1>4, <3>1, <3>2 DEF WakesSpuriously
  <2> QED BY <1>0, <1>4, <2>1, PlaceWakes DEF WakesSpuriously, shared
<1>5. CASE OwnerStep BY <1>5, PlaceOwner
<1>6. CASE UNCHANGED queueVars
  BY <1>0, <1>6, PlaceWakes DEF queueVars, shared
<1> QED BY <1>1, <1>2, <1>3, <1>4, <1>5, <1>6 DEF QueuesNext

LEMMA LeftBehindStep ==
    ASSUME TypeInv, LeftBehind, [QueuesNext]_queueVars
    PROVE  LeftBehind'
<1>0. /\ PcType /\ FlagsType /\ PUSHERS \intersect POPPERS = {} /\ PUSHERS \subseteq Threads
      /\ POPPERS \subseteq Threads
      /\ \A p \in PUSHERS : TARGET[p] \in Queues
  BY QueueAssumption DEF TypeInv, Threads
<1>w. ASSUME UNCHANGED <<queue_active, stranded>>,
             \A p \in PUSHERS : pc'[p] = "blocked" => pc[p] = "blocked"
      PROVE  LeftBehind'
  BY <1>w DEF LeftBehind, At
<1>1. ASSUME NEW p \in PUSHERS, PusherStep(p) PROVE LeftBehind'
  <2>1. CASE NotifyEmpty(p)
    <3>1. \A t \in PUSHERS : pc'[t] = "blocked" => pc[t] = "blocked"
      BY <1>0, <2>1 DEF NotifyEmpty, NotifiesOne, WaitEmpty, At, PcType
    <3> QED BY <2>1, <3>1, <1>w DEF NotifyEmpty, shared
  <2>2. CASE Push(p) \/ PushWoken(p) \/ TryPush(p)
    <3>1. /\ queue_active' = queue_active
          /\ stranded' = stranded \/ stranded' = stranded \ {p}
      BY <2>2 DEF Push, TryPush, PushWoken, PushPass
    <3>3. \A u \in Threads \ {p} : pc'[u] = pc[u]
      <4>1. pc' = pc \/ \E where : Goes(p, where)
        BY <2>2 DEF Push, TryPush, PushWoken, PushPass
      <4> QED BY <1>0, <4>1 DEF Goes, PcType
    <3>2. pc'[p] = "blocked" => queue_active[TARGET[p]]
      BY <1>0, <2>2 DEF Push, TryPush, PushWoken, PushPass, Goes, PcType, At, is_queue_active
    <3> QED BY <1>0, <3>1, <3>2, <3>3 DEF LeftBehind, At
  <2> QED BY <1>1, <2>1, <2>2 DEF PusherStep
<1>2. ASSUME NEW t \in POPPERS, PopperStep(t) PROVE LeftBehind'
  <2>1. CASE WaitPop(t)
    <3>1. \E where : Goes(t, where) BY <2>1, Zenon DEF WaitPop, Pop
    <3>2. \A u \in PUSHERS : pc'[u] = pc[u] BY <1>0, <3>1 DEF Goes, PcType
    <3> QED BY <2>1, <3>2, <1>w DEF WaitPop
  <2>2. CASE NotifyFull(t)
    <3>1. \A u \in PUSHERS : pc'[u] = "blocked" => pc[u] = "blocked"
      BY <1>0, <2>2 DEF NotifyFull, NotifiesOne, WaitFull, At, PcType
    <3> QED BY <2>2, <3>1, <1>w DEF NotifyFull, shared
  <2> QED BY <1>2, <2>1, <2>2 DEF PopperStep
<1>3. ASSUME NEW t \in POPPERS, AddQueue(t) PROVE LeftBehind'
  <2>1. /\ pc' = pc /\ stranded' = stranded
        /\ \A q \in Queues : queue_active[q] => queue_active'[q]
    BY <1>0, <1>3 DEF AddQueue, FlagsType
  <2> QED BY <1>0, <2>1 DEF LeftBehind, At
<1>4. ASSUME NEW t \in POPPERS, NEW q \in ERASED, EraseQueue(t, q) PROVE LeftBehind'
  <2>1. /\ pc' = pc /\ stranded' = stranded \union WaitFull(q)
        /\ \A r \in Queues \ {q} : queue_active'[r] = queue_active[r]
    BY <1>0, <1>4 DEF EraseQueue, FlagsType
  <2> QED BY <1>0, <2>1 DEF LeftBehind, At, WaitFull
<1>5. CASE WakesSpuriously
  <2>1. \A u \in PUSHERS : pc'[u] = "blocked" => pc[u] = "blocked"
    BY <1>0, <1>5 DEF WakesSpuriously, Goes, At, PcType
  <2> QED BY <1>5, <2>1, <1>w DEF WakesSpuriously, shared
<1>6. CASE OwnerStep
  <2>1. UNCHANGED <<queue_active, stranded>>
    BY <1>6 DEF OwnerStep, ResetGoesOn, Reset, ResetPass, ResetNotifiesEmpty,
                ResetNotifiesFull, ResetWaits, ResetWoken, shared
  <2>2. \A u \in PUSHERS : pc'[u] = "blocked" => pc[u] = "blocked"
    <3>1. CASE UNCHANGED pc BY <3>1
    <3>2. CASE \E w \in WaitEmpty : Goes(w, "woken")
      BY <1>0, <3>2 DEF WaitEmpty, Goes, At, PcType
    <3>3. CASE ResetNotifiesFull
      BY <1>0, <3>3 DEF ResetNotifiesFull
    <3> QED BY <1>6, <3>1, <3>2, <3>3 DEF OwnerStep, ResetGoesOn, Reset, ResetPass,
            ResetNotifiesEmpty, ResetWaits, ResetWoken
  <2> QED BY <2>1, <2>2, <1>w
<1>7. CASE UNCHANGED queueVars
  BY <1>7, <1>w DEF queueVars, shared
<1> QED BY <1>1, <1>2, <1>3, <1>4, <1>5, <1>6, <1>7 DEF QueuesNext

(***************************************************************************)
(* With one stack thread, while a pusher sleeps on a queue that was not    *)
(* erased under it, every free place has a woken pusher of that queue or   *)
(* the stack thread on the way to it, although wait_pop notifies after the *)
(* unlock, only if it had counted somebody who waits, and only one, and    *)
(* another push may take the place first.                                  *)
(***************************************************************************)
THEOREM PlacesNoticed ==
    ASSUME NEW s, POPPERS = {s}
    PROVE  QueuesSpec => []NoPlaceForgotten
<1> DEFINE PInv == TypeInv /\ LeftBehind /\ \A q \in Queues : PlaceNoticed(q)
<1>1. QueuesInit => PInv
  <2> SUFFICES ASSUME QueuesInit PROVE LeftBehind /\ \A q \in Queues : PlaceNoticed(q)
    BY TypeInit
  <2>1. \A p \in PUSHERS : ~At(p, "blocked") BY DEF QueuesInit, At, Threads
  <2>2. \A q : WaitFull(q) = {} BY <2>1 DEF WaitFull
  <2> QED BY <2>1, <2>2 DEF LeftBehind, PlaceNoticed, Hopes
<1>2. PInv /\ [QueuesNext]_queueVars => PInv'
  <2> SUFFICES ASSUME PInv, [QueuesNext]_queueVars PROVE PInv'
    OBVIOUS
  <2>1. TypeInv' BY TypeStep
  <2>2. LeftBehind' BY LeftBehindStep
  <2>3. \A q \in Queues : PlaceNoticed(q)' BY PlaceStep
  <2> QED BY <2>1, <2>2, <2>3
<1>3. PInv => NoPlaceForgotten
  BY DEF NoPlaceForgotten, PlaceNoticed, Hopes, Coming
<1> QED BY <1>1, <1>2, <1>3, PTL DEF QueuesSpec

-----------------------------------------------------------------------------
(***************************************************************************)
(* Nothing is lost, doubled or overtaken.                                  *)
(***************************************************************************)
Own(items, p) == {k \in DOMAIN items : items[k][1] = p}

Numbers(items, p) == {items[k][2] : k \in Own(items, p)}

Sorted(items, p) == \A j, k \in Own(items, p) : j < k => items[j][2] < items[k][2]

\* Every item is in the queue of the thread that pushed it.
InTheirQueue(q) == \A k \in DOMAIN queue[q] : TARGET[queue[q][k][1]] = q

InOrder(p) ==
    /\ Numbers(queue[TARGET[p]], p) = taken[p] + 1 .. accepted[p]
    /\ Sorted(queue[TARGET[p]], p)

OrderInv ==
    /\ taken \in [PUSHERS -> Nat]
    /\ \A p \in PUSHERS : taken[p] <= accepted[p] /\ InOrder(p)
    /\ \A q \in Queues : InTheirQueue(q)

LEMMA ItemParts == \A i \in Items : i[1] \in PUSHERS /\ i[2] \in Nat
BY QueueAssumption, SMT DEF Items

LEMMA AppendKeepsOrder ==
    ASSUME NEW c \in Seq(Items), NEW p \in PUSHERS, NEW r \in PUSHERS, NEW n \in 1 .. MAX_PUSHES
    PROVE  LET d == Append(c, <<r, n>>)
           IN  /\ r # p => Numbers(d, p) = Numbers(c, p)
               /\ r = p => Numbers(d, p) = Numbers(c, p) \union {n}
               /\ Sorted(c, p) /\ (r = p => \A m \in Numbers(c, p) : m < n) => Sorted(d, p)
<1> DEFINE d == Append(c, <<r, n>>)
           l == Len(c) + 1
<1>1. /\ DOMAIN c = 1 .. Len(c) /\ Len(c) \in Nat
      /\ DOMAIN d = 1 .. l
      /\ \A k \in 1 .. Len(c) : d[k] = c[k]
      /\ d[l] = <<r, n>>
  BY QueueAssumption, SMT DEF Items
<1>2. l \notin DOMAIN c /\ DOMAIN d = DOMAIN c \union {l} /\ \A k \in DOMAIN c : k < l
  BY <1>1, SMT
<1>3. d[l][1] = r /\ d[l][2] = n /\ \A k \in DOMAIN c : d[k] = c[k] BY <1>1
<1>5. DOMAIN c \subseteq Nat /\ l \in Nat BY <1>1, SMT
<1> HIDE DEF d, l
<1>4. Own(d, p) = IF r = p THEN Own(c, p) \union {l} ELSE Own(c, p)
  BY <1>2, <1>3 DEF Own
<1>6. \A k \in Own(c, p) : d[k][2] = c[k][2] /\ k \in DOMAIN c BY <1>3 DEF Own
<1>7. r # p => Numbers(d, p) = Numbers(c, p) BY <1>4, <1>6 DEF Numbers
<1>8. r = p => Numbers(d, p) = Numbers(c, p) \union {n} BY <1>3, <1>4, <1>6 DEF Numbers
<1>9. ASSUME Sorted(c, p), r = p => \A m \in Numbers(c, p) : m < n PROVE Sorted(d, p)
  <2> SUFFICES ASSUME NEW j \in Own(d, p), NEW k \in Own(d, p), j < k PROVE d[j][2] < d[k][2]
    BY DEF Sorted
  <2>1. CASE j \in Own(c, p) /\ k \in Own(c, p)
    BY <1>6, <1>9, <2>1 DEF Sorted
  <2>2. CASE j \in Own(c, p) /\ k = l /\ r = p
    <3>1. c[j][2] \in Numbers(c, p) BY <2>2 DEF Numbers
    <3>2. c[j][2] < n BY <1>9, <2>2, <3>1
    <3> QED BY <1>3, <1>6, <2>2, <3>2
  <2>3. CASE j = l
    <3>1. k \in DOMAIN c \union {l} /\ DOMAIN c \union {l} \subseteq Nat
      BY <1>2, <1>5 DEF Own
    <3>2. k = l \/ k < l BY <1>2, <3>1
    <3> QED BY <1>5, <2>3, <3>1, <3>2, SMT
  <2> QED BY <1>4, <2>1, <2>2, <2>3
<1> QED BY <1>7, <1>8, <1>9 DEF d

\* A pusher puts its next item behind its others.
LEMMA AppendOwn ==
    ASSUME NEW c \in Seq(Items), NEW p \in PUSHERS, NEW n \in 1 .. MAX_PUSHES,
           Sorted(c, p), \A m \in Numbers(c, p) : m < n
    PROVE  /\ Numbers(Append(c, <<p, n>>), p) = Numbers(c, p) \union {n}
           /\ Sorted(Append(c, <<p, n>>), p)
<1>1. Numbers(Append(c, <<p, n>>), p) = Numbers(c, p) \union {n}
  BY AppendKeepsOrder
<1>2. Sorted(c, p) /\ (p = p => \A m \in Numbers(c, p) : m < n) => Sorted(Append(c, <<p, n>>), p)
  BY AppendKeepsOrder
<1> QED BY <1>1, <1>2

LEMMA TailKeepsOrder ==
    ASSUME NEW c \in Seq(Items), c # << >>, NEW p \in PUSHERS, Sorted(c, p)
    PROVE  /\ Head(c) \in Items
           /\ Sorted(Tail(c), p)
           /\ Head(c)[1] # p => Numbers(Tail(c), p) = Numbers(c, p)
           /\ Head(c)[1] = p =>
                /\ Head(c)[2] \in Numbers(c, p)
                /\ \A m \in Numbers(c, p) : Head(c)[2] <= m
                /\ Numbers(Tail(c), p) = Numbers(c, p) \ {Head(c)[2]}
<1> DEFINE d == Tail(c)
<1>1. /\ DOMAIN c = 1 .. Len(c) /\ Len(c) \in Nat /\ Len(c) > 0
      /\ DOMAIN d = 1 .. Len(c) - 1
      /\ \A k \in 1 .. Len(c) - 1 : d[k] = c[k + 1]
      /\ Head(c) = c[1]
      /\ \A k \in 1 .. Len(c) : c[k] \in Items
  BY SMT
<1>2. /\ 1 \in DOMAIN c /\ \A k \in DOMAIN c : k \in Nat /\ 1 <= k
      /\ \A k \in DOMAIN c : k # 1 => k - 1 \in DOMAIN d /\ (k - 1) + 1 = k
      /\ \A k \in DOMAIN d : k + 1 \in DOMAIN c /\ k \in Nat /\ k + 1 # 1
  BY <1>1, SMT
<1>3. \A k \in DOMAIN d : d[k] = c[k + 1] BY <1>1
<1>4. \A k \in DOMAIN c : c[k] \in Items /\ c[k][2] \in Nat BY <1>1, ItemParts
<1> HIDE DEF d
<1>5. \A k \in DOMAIN d : k \in Own(d, p) <=> k + 1 \in Own(c, p) BY <1>2, <1>3 DEF Own
<1>6. Sorted(d, p)
  <2> SUFFICES ASSUME NEW j \in Own(d, p), NEW k \in Own(d, p), j < k PROVE d[j][2] < d[k][2]
    BY DEF Sorted
  <2>1. j \in DOMAIN d /\ k \in DOMAIN d BY DEF Own
  <2>2. j + 1 \in Own(c, p) /\ k + 1 \in Own(c, p) BY <1>5, <2>1
  <2>3. j + 1 < k + 1 BY <1>2, <2>1, SMT
  <2>4. c[j + 1][2] < c[k + 1][2] BY <2>2, <2>3 DEF Sorted
  <2> QED BY <1>3, <2>1, <2>4
\* The numbers behind the first item.
<1>7. Numbers(d, p) = {c[k][2] : k \in Own(c, p) \ {1}}
  <2>1. ASSUME NEW k \in Own(d, p) PROVE d[k][2] \in {c[j][2] : j \in Own(c, p) \ {1}}
    <3>1. k \in DOMAIN d BY DEF Own
    <3>2. k + 1 \in Own(c, p) \ {1} BY <1>2, <1>5, <3>1
    <3> QED BY <1>3, <3>1, <3>2
  <2>2. ASSUME NEW k \in Own(c, p) \ {1} PROVE c[k][2] \in Numbers(d, p)
    <3>1. k - 1 \in DOMAIN d /\ (k - 1) + 1 = k BY <1>2 DEF Own
    <3>2. k - 1 \in Own(d, p) /\ d[k - 1] = c[k] BY <1>3, <1>5, <3>1
    <3> QED BY <3>2 DEF Numbers
  <2> QED BY <2>1, <2>2 DEF Numbers
<1>8. CASE c[1][1] # p
  <2>1. Own(c, p) \ {1} = Own(c, p) BY <1>8 DEF Own
  <2> QED BY <1>1, <1>4, <1>6, <1>7, <1>8, <2>1, <1>2 DEF Numbers, d
<1>9. CASE c[1][1] = p
  <2>1. 1 \in Own(c, p) BY <1>2, <1>9 DEF Own
  <2>2. \A k \in Own(c, p) \ {1} : c[1][2] < c[k][2]
    <3> SUFFICES ASSUME NEW k \in Own(c, p), k # 1 PROVE c[1][2] < c[k][2]
      OBVIOUS
    <3>1. k \in DOMAIN c BY DEF Own
    <3>2. 1 < k BY <1>2, <3>1, SMT
    <3> QED BY <2>1, <3>2 DEF Sorted
  <2>3. c[1][2] \in Nat /\ \A k \in Own(c, p) : c[k][2] \in Nat BY <1>2, <1>4 DEF Own
  <2>4. \A k \in Own(c, p) : c[1][2] <= c[k][2]
    <3> SUFFICES ASSUME NEW k \in Own(c, p) PROVE c[1][2] <= c[k][2]
      OBVIOUS
    <3>1. CASE k = 1 BY <2>3, <3>1, SMT
    <3>2. CASE k # 1
      <4>1. c[1][2] < c[k][2] BY <2>2, <3>2
      <4> QED BY <2>3, <4>1, SMT
    <3> QED BY <3>1, <3>2
  <2>5. \A k \in Own(c, p) \ {1} : c[k][2] # c[1][2]
    <3> SUFFICES ASSUME NEW k \in Own(c, p) \ {1} PROVE c[k][2] # c[1][2]
      OBVIOUS
    <3>1. c[1][2] < c[k][2] BY <2>2
    <3> QED BY <2>3, <3>1, SMT
  <2>6. Numbers(d, p) = Numbers(c, p) \ {c[1][2]} BY <1>7, <2>1, <2>5 DEF Numbers
  <2> QED BY <1>1, <1>2, <1>4, <1>6, <1>9, <2>1, <2>4, <2>6, ZenonT(30) DEF Numbers, d
<1> QED BY <1>8, <1>9

LEMMA OrderSame ==
    ASSUME OrderInv, UNCHANGED <<queue, accepted, taken>>
    PROVE  OrderInv'
BY DEF OrderInv, InOrder, InTheirQueue

LEMMA OrderPush ==
    ASSUME TypeInv, OrderInv, NEW p \in PUSHERS, Push(p) \/ TryPush(p) \/ PushWoken(p)
    PROVE  OrderInv'
<1>0. PcType /\ PushesCounted /\ QueueType BY DEF TypeInv
<1>1. taken' = taken BY DEF Push, TryPush, PushWoken, PushPass
<1>2. CASE UNCHANGED <<queue, accepted>> BY <1>1, <1>2, OrderSame
<1>3. CASE Enqueue(p)
  <2> DEFINE q == TARGET[p]
             n == accepted[p] + 1
             c == queue[q]
  <2>1. /\ q \in Queues /\ c \in Seq(Items) /\ n \in 1 .. MAX_PUSHES
        /\ queue' = [queue EXCEPT ![q] = Append(c, <<p, n>>)]
        /\ accepted' = [accepted EXCEPT ![p] = n]
    BY <1>0, <1>3, QueueAssumption, PushesPush DEF Enqueue, QueueType
  <2>2. /\ queue'[q] = Append(c, <<p, n>>)
        /\ \A r \in Queues \ {q} : queue'[r] = queue[r]
        /\ accepted'[p] = n /\ \A r \in PUSHERS \ {p} : accepted'[r] = accepted[r]
    BY <1>0, <2>1 DEF QueueType, PushesCounted
  <2>3. accepted[p] \in Nat /\ taken[p] \in Nat /\ taken[p] <= accepted[p]
    BY <1>0 DEF PushesCounted, OrderInv
  <2>4. ASSUME NEW r \in PUSHERS PROVE taken'[r] <= accepted'[r] /\ InOrder(r)'
    <3>0. InOrder(r) /\ taken[r] <= accepted[r] /\ TARGET[r] \in Queues
      BY QueueAssumption DEF OrderInv
    <3>1. CASE TARGET[r] # q
      <4>1. queue'[TARGET[r]] = queue[TARGET[r]] /\ accepted'[r] = accepted[r]
        BY <2>2, <3>0, <3>1
      <4> QED BY <1>1, <3>0, <4>1 DEF InOrder
    <3>2. CASE TARGET[r] = q /\ r # p
      <4>1. accepted'[r] = accepted[r] BY <2>2, <3>2
      <4>2. Numbers(Append(c, <<p, n>>), r) = Numbers(c, r) /\ Sorted(Append(c, <<p, n>>), r)
        BY <2>1, <3>0, <3>2, AppendKeepsOrder DEF InOrder
      <4> QED BY <1>1, <2>2, <3>0, <3>2, <4>1, <4>2 DEF InOrder
    <3>3. CASE r = p
      <4>1. Numbers(c, p) = taken[p] + 1 .. accepted[p] /\ Sorted(c, p) BY <3>0, <3>3 DEF InOrder
      <4>2. \A m \in Numbers(c, p) : m < n BY <2>3, <4>1, SMT
      <4>3. Numbers(Append(c, <<p, n>>), p) = Numbers(c, p) \union {n} /\ Sorted(Append(c, <<p, n>>), p)
        <5> HIDE DEF n, c
        <5> QED BY <2>1, <4>1, <4>2, AppendOwn
      <4>4. (taken[p] + 1 .. accepted[p]) \union {n} = taken[p] + 1 .. n BY <2>3, SMT
      <4>5. taken[p] <= n BY <2>3, SMT
      <4> QED BY <1>1, <2>2, <3>3, <4>1, <4>3, <4>4, <4>5 DEF InOrder
    <3> QED BY <3>1, <3>2, <3>3
  <2>5. ASSUME NEW r \in Queues PROVE InTheirQueue(r)'
    <3>1. InTheirQueue(r) BY DEF OrderInv
    <3>2. CASE r # q BY <2>2, <3>1, <3>2 DEF InTheirQueue
    <3>3. CASE r = q
      <4>1. /\ DOMAIN queue'[q] = DOMAIN c \union {Len(c) + 1}
            /\ \A k \in DOMAIN c : queue'[q][k] = c[k]
            /\ queue'[q][Len(c) + 1] = <<p, n>>
        <5>1. /\ DOMAIN Append(c, <<p, n>>) = DOMAIN c \union {Len(c) + 1}
              /\ \A k \in DOMAIN c : Append(c, <<p, n>>)[k] = c[k]
              /\ Append(c, <<p, n>>)[Len(c) + 1] = <<p, n>>
          BY <2>1, SMT
        <5> QED BY <2>2, <5>1
      <4>2. <<p, n>>[1] = p OBVIOUS
      <4> QED BY <3>1, <3>3, <4>1, <4>2 DEF InTheirQueue
    <3> QED BY <3>2, <3>3
  <2>6. taken' \in [PUSHERS -> Nat] BY <1>1 DEF OrderInv
  <2> QED BY <2>4, <2>5, <2>6 DEF OrderInv
<1> QED BY <1>0, <1>2, <1>3, Enqueued

LEMMA OrderPop ==
    ASSUME TypeInv, OrderInv, NEW t, NEW q \in NextReady, Pop(t, q), accepted' = accepted
    PROVE  OrderInv'
<1> DEFINE c == queue[q]
           h == Head(c)
           p == h[1]
<1>1. /\ q \in Queues /\ c \in Seq(Items) /\ c # << >>
      /\ queue' = [queue EXCEPT ![q] = Tail(c)]
      /\ taken' = [taken EXCEPT ![p] = h[2]]
  BY DEF NextReady, Ready, Pop, TypeInv, QueueType
<1>2. h \in Items /\ h = c[1] /\ 1 \in DOMAIN c BY <1>1, SMT
<1>3. p \in PUSHERS /\ h[2] \in Nat /\ TARGET[p] = q
  BY <1>1, <1>2, ItemParts DEF OrderInv, InTheirQueue
<1> HIDE DEF p, h
<1>4. /\ queue'[q] = Tail(c) /\ \A r \in Queues \ {q} : queue'[r] = queue[r]
      /\ taken' \in [PUSHERS -> Nat]
      /\ taken'[p] = h[2] /\ \A r \in PUSHERS \ {p} : taken'[r] = taken[r]
  BY <1>1, <1>3 DEF TypeInv, QueueType, OrderInv
<1>5. ASSUME NEW r \in PUSHERS PROVE taken'[r] <= accepted'[r] /\ InOrder(r)'
  <2>0. InOrder(r) /\ taken[r] <= accepted[r] /\ TARGET[r] \in Queues
    BY QueueAssumption DEF OrderInv
  <2>1. CASE TARGET[r] # q
    <3>1. queue'[TARGET[r]] = queue[TARGET[r]] /\ taken'[r] = taken[r]
      BY <1>3, <1>4, <2>0, <2>1
    <3> QED BY <2>0, <3>1 DEF InOrder
  <2>2. CASE TARGET[r] = q /\ r # p
    <3>1. taken'[r] = taken[r] BY <1>4, <2>2
    <3>2. Numbers(Tail(c), r) = Numbers(c, r) /\ Sorted(Tail(c), r)
      BY <1>1, <2>0, <2>2, TailKeepsOrder DEF InOrder, p, h
    <3> QED BY <1>4, <2>0, <2>2, <3>1, <3>2 DEF InOrder
  <2>3. CASE r = p
    <3>1. Numbers(c, p) = taken[p] + 1 .. accepted[p] /\ Sorted(c, p)
      BY <1>3, <2>0, <2>3 DEF InOrder
    <3>2. /\ h[2] \in Numbers(c, p) /\ \A m \in Numbers(c, p) : h[2] <= m
          /\ Numbers(Tail(c), p) = Numbers(c, p) \ {h[2]} /\ Sorted(Tail(c), p)
      BY <1>1, <1>3, <3>1, TailKeepsOrder DEF p, h
    <3>3. taken[p] \in Nat /\ accepted[p] \in Nat
      BY <1>3 DEF OrderInv, TypeInv, PushesCounted
    <3>4. PICK n \in Nat : n = h[2] BY <1>3
    <3>5. n = taken[p] + 1 /\ n <= accepted[p]
      <4>1. n \in taken[p] + 1 .. accepted[p] /\ \A m \in taken[p] + 1 .. accepted[p] : n <= m
        BY <3>1, <3>2, <3>4
      <4> QED BY <3>3, <4>1, SMT
    <3>6. (taken[p] + 1 .. accepted[p]) \ {n} = n + 1 .. accepted[p] BY <3>3, <3>5, SMT
    <3> QED BY <1>3, <1>4, <2>3, <3>1, <3>2, <3>4, <3>5, <3>6 DEF InOrder
  <2> QED BY <2>1, <2>2, <2>3
<1>6. ASSUME NEW r \in Queues PROVE InTheirQueue(r)'
  <2>1. InTheirQueue(r) BY DEF OrderInv
  <2>2. CASE r # q BY <1>4, <2>1, <2>2 DEF InTheirQueue
  <2>3. CASE r = q
    <3>1. \A k \in DOMAIN Tail(c) : k + 1 \in DOMAIN c /\ Tail(c)[k] = c[k + 1] BY <1>1, SMT
    <3>2. \A k \in DOMAIN c : TARGET[c[k][1]] = q BY <2>1, <2>3 DEF InTheirQueue
    <3>3. \A k \in DOMAIN Tail(c) : TARGET[Tail(c)[k][1]] = q BY <3>1, <3>2
    <3> QED BY <1>4, <2>3, <3>3 DEF InTheirQueue
  <2> QED BY <2>2, <2>3
<1> QED BY <1>4, <1>5, <1>6 DEF OrderInv

\* What is erased is accounted for.
LEMMA OrderCleared ==
    ASSUME TypeInv, OrderInv, NEW Q, accepted' = accepted,
           queue' = [q \in Queues |-> IF q \in Q THEN << >> ELSE queue[q]],
           taken' = [p \in PUSHERS |-> IF TARGET[p] \in Q THEN accepted[p] ELSE taken[p]]
    PROVE  OrderInv'
<1>1. accepted \in [PUSHERS -> Nat] BY DEF TypeInv, PushesCounted
<1>2. taken' \in [PUSHERS -> Nat] BY <1>1 DEF OrderInv
<1>3. ASSUME NEW p \in PUSHERS PROVE taken'[p] <= accepted'[p] /\ InOrder(p)'
  <2>0. InOrder(p) /\ taken[p] <= accepted[p] /\ TARGET[p] \in Queues
    BY QueueAssumption DEF OrderInv
  <2>1. CASE TARGET[p] \in Q
    <3>1. queue'[TARGET[p]] = << >> /\ taken'[p] = accepted[p] BY <2>0, <2>1
    <3>2. Own(<< >>, p) = {} BY SMT DEF Own
    <3>3. Numbers(<< >>, p) = {} /\ Sorted(<< >>, p) BY <3>2 DEF Numbers, Sorted
    <3>4. accepted[p] \in Nat BY <1>1
    <3>5. accepted[p] + 1 .. accepted[p] = {} /\ accepted[p] <= accepted[p] BY <3>4, SMT
    <3> QED BY <3>1, <3>3, <3>5 DEF InOrder
  <2>2. CASE TARGET[p] \notin Q
    <3>1. queue'[TARGET[p]] = queue[TARGET[p]] /\ taken'[p] = taken[p] BY <2>0, <2>2
    <3> QED BY <2>0, <3>1 DEF InOrder
  <2> QED BY <2>1, <2>2
<1>4. ASSUME NEW r \in Queues PROVE InTheirQueue(r)'
  <2>1. CASE r \in Q
    <3>1. queue'[r] = << >> BY <2>1
    <3>2. DOMAIN << >> = {} BY SMT
    <3> QED BY <3>1, <3>2 DEF InTheirQueue
  <2>2. CASE r \notin Q BY <2>2 DEF InTheirQueue, OrderInv
  <2> QED BY <2>1, <2>2
<1> QED BY <1>2, <1>3, <1>4 DEF OrderInv

LEMMA OrderStep ==
    ASSUME TypeInv, OrderInv, [QueuesNext]_queueVars
    PROVE  OrderInv'
<1>0. queue \in [Queues -> Seq(Items)] /\ taken \in [PUSHERS -> Nat]
      /\ accepted \in [PUSHERS -> Nat] /\ ERASED \subseteq Queues
      /\ \A p \in PUSHERS : TARGET[p] \in Queues
  BY QueueAssumption DEF TypeInv, QueueType, PushesCounted, OrderInv
<1>1. ASSUME NEW p \in PUSHERS, PusherStep(p) PROVE OrderInv'
  <2>1. CASE NotifyEmpty(p) BY <2>1, OrderSame DEF NotifyEmpty, shared
  <2> QED BY <1>1, <2>1, OrderPush DEF PusherStep
<1>2. ASSUME NEW t \in POPPERS, PopperStep(t) PROVE OrderInv'
  <2>1. CASE NotifyFull(t) BY <2>1, OrderSame DEF NotifyFull, shared
  <2>2. CASE WaitPop(t) BY <2>2, OrderPop, OrderSame DEF WaitPop
  <2> QED BY <1>2, <2>1, <2>2 DEF PopperStep
<1>3. ASSUME NEW t \in POPPERS, AddQueue(t) PROVE OrderInv'
  BY <1>3, OrderSame DEF AddQueue
<1>4. ASSUME NEW t \in POPPERS, NEW q \in ERASED, EraseQueue(t, q) PROVE OrderInv'
  <2>1. /\ accepted' = accepted
        /\ queue' = [queue EXCEPT ![q] = << >>]
        /\ taken' = [p \in PUSHERS |-> IF TARGET[p] = q THEN accepted[p] ELSE taken[p]]
    BY <1>4 DEF EraseQueue, LeftAfterErase
  <2>2. /\ queue' = [r \in Queues |-> IF r \in {q} THEN << >> ELSE queue[r]]
        /\ taken' = [p \in PUSHERS |-> IF TARGET[p] \in {q} THEN accepted[p] ELSE taken[p]]
    BY <1>0, <2>1
  <2> QED BY <1>0, <2>1, <2>2, OrderCleared
<1>5. CASE WakesSpuriously BY <1>5, OrderSame DEF WakesSpuriously, shared
<1>6. CASE OwnerStep
  <2>1. CASE (Reset \/ ResetWoken) /\ UNCHANGED <<queue, taken>>
    BY <2>1, OrderSame DEF Reset, ResetWoken, ResetPass
  <2>2. CASE (Reset \/ ResetWoken) /\ queue' = [q \in Queues |-> << >>] /\ taken' = accepted
    <3>1. accepted' = accepted BY <2>2 DEF Reset, ResetWoken, ResetPass
    <3>2. /\ queue' = [q \in Queues |-> IF q \in Queues THEN << >> ELSE queue[q]]
          /\ taken' = [p \in PUSHERS |-> IF TARGET[p] \in Queues THEN accepted[p] ELSE taken[p]]
      <4>1. taken' = [p \in PUSHERS |-> accepted[p]] BY <1>0, <2>2
      <4>2. [p \in PUSHERS |-> accepted[p]] =
              [p \in PUSHERS |-> IF TARGET[p] \in Queues THEN accepted[p] ELSE taken[p]]
        BY <1>0
      <4> QED BY <2>2, <4>1, <4>2
    <3> QED BY ONLY TypeInv, OrderInv, <3>1, <3>2, OrderCleared
  <2>3. CASE ResetNotifiesEmpty \/ ResetNotifiesFull \/ ResetWaits
    BY <2>3, OrderSame DEF ResetNotifiesEmpty, ResetNotifiesFull, ResetWaits, shared
  <2> QED BY <1>6, <2>1, <2>2, <2>3 DEF OwnerStep, ResetGoesOn, Reset, ResetWoken, ResetPass
<1>7. CASE UNCHANGED queueVars BY <1>7, OrderSame DEF queueVars, shared
<1> QED BY <1>1, <1>2, <1>3, <1>4, <1>5, <1>6, <1>7 DEF QueuesNext

(***************************************************************************)
(* Every item that push or try_push accepted is queued until wait_pop      *)
(* takes it or its queue is erased, once, and behind all that the same     *)
(* thread pushed before, however the pushes of the threads interleave and  *)
(* whichever stack thread pops.                                            *)
(***************************************************************************)
THEOREM QueuesKeepOrder == QueuesSpec => []ItemsInOrder
<1>1. QueuesInit => OrderInv
  <2> SUFFICES ASSUME QueuesInit PROVE OrderInv
    OBVIOUS
  <2>1. \A p \in PUSHERS : TARGET[p] \in Queues BY QueueAssumption
  <2>2. DOMAIN << >> = {} /\ 1 .. 0 = {} BY SMT
  <2>3. \A p : Numbers(<< >>, p) = {} /\ Sorted(<< >>, p) BY <2>2 DEF Numbers, Sorted, Own
  <2>4. \A p \in PUSHERS : taken[p] = 0 /\ accepted[p] = 0 /\ queue[TARGET[p]] = << >>
    BY <2>1 DEF QueuesInit
  <2>5. \A p \in PUSHERS : taken[p] <= accepted[p] /\ taken[p] + 1 .. accepted[p] = {}
    BY <2>4, SMT
  <2>6. taken \in [PUSHERS -> Nat] BY SMT DEF QueuesInit
  <2>7. \A q \in Queues : InTheirQueue(q) BY <2>2 DEF QueuesInit, InTheirQueue
  <2> QED BY <2>3, <2>4, <2>5, <2>6, <2>7 DEF OrderInv, InOrder
<1>2. OrderInv => ItemsInOrder
  BY DEF OrderInv, InOrder, ItemsInOrder, Numbers, Sorted, Own
<1> QED BY <1>1, <1>2, TypeInit, TypeStep, OrderStep, PTL DEF QueuesSpec
=============================================================================
