------------------------------ MODULE RlcAmTx ------------------------------
(***************************************************************************)
(* The transmitting side of an RLC AM bearer: rlc_am_lte_tx.               *)
(*                                                                         *)
(* A PDU is known by its sequence number and by the number n of the        *)
(* payload it carries; it is two units long (PDU_LEN), so that a           *)
(* retransmission can be split once.  An SDU is the number of PDUs it      *)
(* takes to send it; SDUs that travel together in one PDU count as one.    *)
(* A grant of MAC has one of four sizes:                                   *)
(*   "tiny"  too small for any PDU                                         *)
(*   "data"  room for a new PDU, but not for the longer segment header     *)
(*   "seg"   room for a segment of one unit, not for a whole old PDU       *)
(*   "full"  room for everything                                           *)
(***************************************************************************)
EXTENDS RlcSn

CONSTANTS
    GRANTS,             \* grant sizes that MAC gives
    SDU_SIZES,          \* PDUs an SDU may take
    TX_QUEUE_LENGTH,    \* capacity of tx_sdu_queue
    POLL_PDU,           \* cfg.poll_pdu (cfg.poll_byte is 0)
    POLL_PERIODICITY,   \* poll_periodicity
    MAX_RETX_THRESH,    \* cfg.max_retx_thresh
    SEGMENT_NACKS,      \* units of a PDU that the peer asks for by themselves (has_so)
    MAX_PDUS,           \* bound on the PDUs that SDUs are written for, for model checking
    MAX_RETX_QUEUE      \* bound on the length of retx_queue, for model checking

ASSUME TxAssumption ==
    /\ GRANTS \subseteq {"tiny", "data", "seg", "full"}
    /\ SDU_SIZES \subseteq 1 .. WINDOW /\ SDU_SIZES # {}
    /\ POLL_PDU \in Nat
    /\ POLL_PERIODICITY \in Nat \ {0}
    /\ MAX_RETX_THRESH \in Nat \ {0}
    /\ SEGMENT_NACKS \subseteq {0, 1}
    /\ TX_QUEUE_LENGTH \in Nat /\ MAX_PDUS \in Nat /\ MAX_RETX_QUEUE \in Nat

VARIABLES
    tx_enabled,
    vt_a,               \* low edge of the window: the next SN to be acknowledged
    vt_s,               \* SN of the next new PDU
    tx_sdu,             \* PDUs still to be built from the current SDU, 0 if none
    tx_sdu_queue,       \* SDUs waiting
    tx_window,          \* PDUs sent and not acknowledged: SN -> [n, retx_count]
    retx_queue,         \* retransmissions to do
    pdu_without_poll,
    poll_retx_timer,    \* "stopped", "running" or "expired"
    max_retx,           \* has max_retx_attempted been signalled to RRC
    written,            \* PDUs that the SDUs accepted so far take
    sent,               \* payloads handed out so far: the n of the next new PDU
    dl                  \* data PDUs handed to MAC, not yet received or lost

txState == <<tx_enabled, vt_a, vt_s, tx_sdu, tx_sdu_queue, tx_window, retx_queue,
             pdu_without_poll, poll_retx_timer, max_retx, written, sent>>
txVars  == <<txState, dl>>

PDU_LEN == 2

TX_OFFSET(x) == Offset(x, vt_a)

\* What read_pdu hands to MAC.
Transmit(pdu) == dl' = Append(dl, pdu)

DataPdu(sn, p, n) == [rf |-> FALSE, sn |-> sn, p |-> p, n |-> n, so |-> 0, lsf |-> FALSE]
SegmentPdu(sn, p, n, so) ==
    [rf |-> TRUE, sn |-> sn, p |-> p, n |-> n, so |-> so, lsf |-> so + 1 = PDU_LEN]

\* The part of a PDU that is to be sent again: all of it, or one unit of it.
Whole    == [is_segment |-> FALSE, so_start |-> 0, so_end |-> PDU_LEN]
Unit(so) == [is_segment |-> TRUE, so_start |-> so, so_end |-> so + 1]
PARTS    == {Whole} \cup {Unit(so) : so \in SEGMENT_NACKS}

Retx(sn, part) == [sn |-> sn, is_segment |-> part.is_segment,
                   so_start |-> part.so_start, so_end |-> part.so_end]

-----------------------------------------------------------------------------
TxInit ==
    /\ tx_enabled = TRUE
    /\ vt_a = 0 /\ vt_s = 0
    /\ tx_sdu = 0
    /\ tx_sdu_queue = << >>
    /\ tx_window = EmptyMap
    /\ retx_queue = << >>
    /\ pdu_without_poll = 0
    /\ poll_retx_timer = "stopped"
    /\ max_retx = FALSE
    /\ written = 0
    /\ sent = 0
    /\ dl = << >>

(***************************************************************************)
(* write_sdu: an SDU that does not fit into the queue is dropped.          *)
(***************************************************************************)
WriteSdu(size) ==
    /\ tx_enabled
    /\ Len(tx_sdu_queue) < TX_QUEUE_LENGTH
    /\ written + size <= MAX_PDUS
    /\ tx_sdu_queue' = Append(tx_sdu_queue, size)
    /\ written' = written + size
    /\ UNCHANGED <<tx_enabled, vt_a, vt_s, tx_sdu, tx_window, retx_queue,
                   pdu_without_poll, poll_retx_timer, max_retx, sent, dl>>

WindowFull == Cardinality(DOMAIN tx_window) >= WINDOW

(***************************************************************************)
(* poll_required, for the SDU queue, retransmission queue and poll counter *)
(* at the moment of the call.  When the answer is yes the caller resets    *)
(* the counter and (re)starts poll_retx_timer.                             *)
(***************************************************************************)
PollRequired(count, timer, sdu_queue, queue) ==
    \/ POLL_PDU > 0 /\ count > POLL_PDU
    \/ timer = "expired"
    \/ WindowFull
    \/ sdu_queue = << >> /\ queue = << >>
    \/ POLL_PDU = 0 /\ vt_s % POLL_PERIODICITY = 0

(***************************************************************************)
(* retransmit_random_pdu: the queues it may leave behind.                  *)
(***************************************************************************)
RetransmitRandomPdu(queue) ==
    IF tx_window = EmptyMap THEN {queue}
                          ELSE { Append(queue, Retx(s, Whole)) : s \in DOMAIN tx_window }

(***************************************************************************)
(* The loop at the start of build_retx_pdu that drops the leading          *)
(* retransmissions of SNs that are no longer in the window.                *)
(***************************************************************************)
DropStale(queue) ==
    { SubSeq(queue, k + 1, Len(queue)) :
        k \in { j \in 0 .. Len(queue) :
                  /\ \A i \in 1 .. j : queue[i].sn \notin DOMAIN tx_window
                  /\ j < Len(queue) => queue[j + 1].sn \in DOMAIN tx_window } }

(***************************************************************************)
(* build_data_pdu.  "count" and "timer" are pdu_without_poll and           *)
(* poll_retx_timer as build_segment may have left them.  The window is     *)
(* tested only when no SDU is half sent.                                   *)
(***************************************************************************)
NothingToBuild(grant) ==
    \/ tx_sdu = 0 /\ tx_sdu_queue = << >>
    \/ tx_sdu = 0 /\ WindowFull
    \/ grant = "tiny"

BuildDataPdu(grant, queue, count, timer) ==
    /\ retx_queue' = queue
    /\ \/ /\ NothingToBuild(grant)
          /\ pdu_without_poll' = count
          /\ poll_retx_timer' = timer
          /\ UNCHANGED <<vt_s, tx_sdu, tx_sdu_queue, tx_window, sent, dl>>
       \/ /\ ~NothingToBuild(grant)
          /\ tx_sdu' = (IF tx_sdu = 0 THEN Head(tx_sdu_queue) ELSE tx_sdu) - 1
          /\ tx_sdu_queue' = IF tx_sdu = 0 THEN Tail(tx_sdu_queue) ELSE tx_sdu_queue
          /\ LET p == PollRequired(count + 1, timer, tx_sdu_queue', queue)
             IN  /\ Transmit(DataPdu(vt_s, p, sent))
                 /\ pdu_without_poll' = IF p THEN 0 ELSE count + 1
                 /\ poll_retx_timer' = IF p THEN "running" ELSE timer
          /\ vt_s' = Plus(vt_s, 1)
          /\ tx_window' = With(tx_window, vt_s, [n |-> sent, retx_count |-> 0])
          /\ sent' = sent + 1
    /\ UNCHANGED <<tx_enabled, vt_a, max_retx, written>>

(***************************************************************************)
(* build_retx_pdu for a whole PDU.  The poll is decided before the         *)
(* retransmission leaves the queue.                                        *)
(***************************************************************************)
RetxWholePdu(queue) ==
    LET retx  == Head(queue)
        old   == tx_window[retx.sn]
        p     == PollRequired(pdu_without_poll + 1, poll_retx_timer, tx_sdu_queue, queue)
        count == old.retx_count + 1
    IN  /\ Transmit(DataPdu(retx.sn, p, old.n))
        /\ pdu_without_poll' = IF p THEN 0 ELSE pdu_without_poll + 1
        /\ poll_retx_timer' = IF p THEN "running" ELSE poll_retx_timer
        /\ retx_queue' = Tail(queue)
        /\ tx_window' = [tx_window EXCEPT ![retx.sn].retx_count =
                            IF count > MAX_RETX_THRESH THEN MAX_RETX_THRESH ELSE count]
        /\ max_retx' = (max_retx \/ count >= MAX_RETX_THRESH)
        /\ UNCHANGED <<tx_enabled, vt_a, vt_s, tx_sdu, tx_sdu_queue, written, sent>>

(***************************************************************************)
(* build_segment: the counter and the timer are updated before it is       *)
(* known whether the segment header fits; if not, no segment is built and  *)
(* read_pdu goes on to build_data_pdu.  Otherwise one unit is sent or, if  *)
(* only one is left or the grant is large, the rest.                       *)
(***************************************************************************)
RetxSegment(grant, queue) ==
    LET retx  == Head(queue)
        p     == PollRequired(pdu_without_poll + 1, poll_retx_timer, tx_sdu_queue, queue)
        count == IF p THEN 0 ELSE pdu_without_poll + 1
        timer == IF p THEN "running" ELSE poll_retx_timer
        last  == retx.so_start + 1 = retx.so_end
    IN  \/ /\ grant \in {"tiny", "data"}
           /\ BuildDataPdu(grant, queue, count, timer)
        \/ /\ grant \in {"seg", "full"}
           /\ Transmit(SegmentPdu(retx.sn, p, tx_window[retx.sn].n, retx.so_start))
           /\ pdu_without_poll' = count
           /\ poll_retx_timer' = timer
           /\ retx_queue' = IF last THEN Tail(queue)
                            ELSE <<[retx EXCEPT !.is_segment = TRUE,
                                                !.so_start = retx.so_start + 1]>> \o Tail(queue)
           /\ UNCHANGED <<tx_enabled, vt_a, vt_s, tx_sdu, tx_sdu_queue, tx_window,
                          max_retx, written, sent>>

(***************************************************************************)
(* read_pdu: MAC asks for a PDU of at most the size of the grant.          *)
(***************************************************************************)
\* Mutant: a half sent SDU goes before retransmissions.
RetxRequiredAfterSdu(queue) == queue # << >> /\ tx_sdu = 0

RetxRequired(queue) == queue # << >>

ReadPdu(grant) ==
    /\ tx_enabled
    /\ \E scheduled \in IF WindowFull /\ retx_queue = << >>
                        THEN RetransmitRandomPdu(retx_queue) ELSE {retx_queue} :
       \E queue \in DropStale(scheduled) :
          \/ /\ ~RetxRequired(queue)
             /\ BuildDataPdu(grant, queue, pdu_without_poll, poll_retx_timer)
          \/ /\ RetxRequired(queue) /\ ~Head(queue).is_segment /\ grant = "full"
             /\ RetxWholePdu(queue)
          \/ /\ RetxRequired(queue) /\ (Head(queue).is_segment \/ grant # "full")
             /\ RetxSegment(grant, queue)

(***************************************************************************)
(* timer_expired for poll_retx_timer.  The timer stays "expired" until the *)
(* next PDU polls.                                                         *)
(***************************************************************************)
PollRetxTimerExpired ==
    /\ poll_retx_timer = "running"
    /\ poll_retx_timer' = "expired"
    /\ Len(retx_queue) < MAX_RETX_QUEUE
    /\ IF (retx_queue = << >> /\ tx_sdu_queue = << >>) \/ WindowFull
       THEN retx_queue' \in RetransmitRandomPdu(retx_queue)
       ELSE retx_queue' = retx_queue
    /\ UNCHANGED <<tx_enabled, vt_a, vt_s, tx_sdu, tx_sdu_queue, tx_window,
                   pdu_without_poll, max_retx, written, sent, dl>>

\* timer_handler::timer stop(): a timer that has expired stays expired.
Stopped(timer) == IF timer = "running" THEN "stopped" ELSE timer

(***************************************************************************)
(* handle_control_pdu for the status PDU [ack_sn, nacks].  The loop visits *)
(* the SNs from vt_a up to ack_sn or vt_s, whichever comes first; it       *)
(* acknowledges up to the first one in nacks and schedules those in nacks, *)
(* the whole PDU or, if the NACK names it (has_so), a part of it.          *)
(***************************************************************************)
\* Mutant: the loop goes up to ack_sn, sent or not.
StatusLimitUnbounded(ack_sn) == TX_OFFSET(ack_sn)

StatusLimit(ack_sn) ==
    IF TX_OFFSET(ack_sn) < TX_OFFSET(vt_s) THEN TX_OFFSET(ack_sn) ELSE TX_OFFSET(vt_s)

\* How far vt_a moves: up to the first SN in nacks.
\* Mutant: update_vt_a is never true.
AckedRunNever(limit, nacks) == {0}

AckedRun(limit, nacks) ==
    { i \in 0 .. limit : /\ i < limit => Plus(vt_a, i) \in nacks
                         /\ \A j \in 0 .. i - 1 : Plus(vt_a, j) \notin nacks }

HandleControlPdu(status) ==
    LET limit   == StatusLimit(status.ack_sn)
        flushed == IF status.nacks # {} THEN << >> ELSE retx_queue
        offsets == { i \in 0 .. limit - 1 : Plus(vt_a, i) \in status.nacks \cap DOMAIN tx_window }
    IN  /\ poll_retx_timer' = Stopped(poll_retx_timer)
        /\ \E run \in AckedRun(limit, status.nacks) :
              /\ tx_window' = Without(tx_window, Span(vt_a, run))
              /\ vt_a' = Plus(vt_a, run)
        /\ \E order \in [1 .. Cardinality(offsets) -> offsets] :
              /\ \A i, j \in DOMAIN order : i < j => order[i] < order[j]
              /\ \E part \in [DOMAIN order -> PARTS] :
                    retx_queue' = flushed \o
                        [i \in DOMAIN order |-> Retx(Plus(vt_a, order[i]), part[i])]
        /\ UNCHANGED <<tx_enabled, vt_s, tx_sdu, tx_sdu_queue, pdu_without_poll,
                       max_retx, written, sent, dl>>

(***************************************************************************)
(* reestablish: stop, then enable again.  Numbering starts afresh; MAC is  *)
(* reset with RLC, and what it still held is gone.                         *)
(***************************************************************************)
TxReestablish ==
    /\ tx_enabled' = TRUE
    /\ vt_a' = 0 /\ vt_s' = 0
    /\ tx_sdu' = 0
    /\ tx_sdu_queue' = << >>
    /\ tx_window' = EmptyMap
    /\ retx_queue' = << >>
    /\ pdu_without_poll' = 0
    /\ poll_retx_timer' = Stopped(poll_retx_timer)
    /\ max_retx' = FALSE
    /\ written' = 0
    /\ sent' = 0
    /\ dl' = << >>

-----------------------------------------------------------------------------
(***************************************************************************)
(* get_buffer_state: does the entity report anything to send?  Only the    *)
(* front of retx_queue counts, and only if it is still in the window.      *)
(***************************************************************************)
HasBufferState ==
    \/ retx_queue # << >> /\ Head(retx_queue).sn \in DOMAIN tx_window
    \/ tx_sdu > 0 \/ tx_sdu_queue # << >>

(***************************************************************************)
(* Every variable keeps its type.                                          *)
(***************************************************************************)
RetxEntries ==
    { retx \in [sn : SN, is_segment : BOOLEAN, so_start : 0 .. PDU_LEN - 1, so_end : 1 .. PDU_LEN] :
        retx.so_start < retx.so_end }

TxTypeOK ==
    /\ tx_enabled \in BOOLEAN
    /\ vt_a \in SN /\ vt_s \in SN
    /\ tx_sdu \in Nat
    /\ tx_sdu_queue \in Seq(Nat \ {0})
    /\ DOMAIN tx_window \subseteq SN
    /\ \A s \in DOMAIN tx_window :
          tx_window[s] \in [n : Nat, retx_count : 0 .. MAX_RETX_THRESH]
    /\ retx_queue \in Seq(RetxEntries)
    /\ pdu_without_poll \in Nat
    /\ poll_retx_timer \in {"stopped", "running", "expired"}
    /\ max_retx \in BOOLEAN
    /\ written \in Nat /\ sent \in Nat

(***************************************************************************)
(* tx_window holds exactly the PDUs from vt_a up to vt_s, each with the    *)
(* payload that was sent under its SN.  It is filled by build_data_pdu and *)
(* emptied by handle_control_pdu, whatever the status PDUs say.  It holds  *)
(* more than RLC_AM_WINDOW_SIZE PDUs only by the rest of one half sent SDU *)
(* (build_data_pdu tests the window when it starts an SDU).                *)
(***************************************************************************)
TxWindowContiguous ==
    /\ \E size \in SDU_SIZES : TX_OFFSET(vt_s) + tx_sdu < WINDOW + size
    /\ DOMAIN tx_window = Span(vt_a, TX_OFFSET(vt_s))
    /\ \A s \in DOMAIN tx_window :
          tx_window[s].n = sent - (TX_OFFSET(vt_s) - TX_OFFSET(s))
=============================================================================
