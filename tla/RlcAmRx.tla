------------------------------ MODULE RlcAmRx ------------------------------
(***************************************************************************)
(* The receiving side of an RLC AM bearer: rlc_am_lte_rx, and the part of  *)
(* rlc_am_lte_tx that sends its status PDUs (build_status_pdu and the      *)
(* status prohibit timer).                                                 *)
(*                                                                         *)
(* A data PDU is known by the payload number n it carries; bytes, length   *)
(* indicators and framing info are left out.  A PDU is two units long, so  *)
(* that it can be split into a first (so = 0) and a last (so = 1, lsf)     *)
(* segment.                                                                *)
(***************************************************************************)
EXTENDS RlcSn

CONSTANTS
    T_STATUS_PROHIBIT,  \* cfg.t_status_prohibit > 0
    MAX_NACK_GRANTS     \* how many NACKs a grant for a status PDU may have room for

ASSUME RxAssumption == T_STATUS_PROHIBIT \in BOOLEAN /\ MAX_NACK_GRANTS \subseteq Nat

VARIABLES
    vr_r,             \* SN following the last in-sequence PDU: low edge of the window
    vr_mr,            \* high edge of the window
    vr_x,             \* SN following the PDU that started the reordering timer
    vr_ms,            \* highest SN a status PDU may acknowledge
    vr_h,             \* SN following the highest SN received
    rx_window,        \* complete PDUs not yet in sequence: SN -> payload
    rx_segments,      \* SN -> segments received so far (the list may be empty)
    poll_received,
    do_status,
    reordering_timer, \* "stopped" or "running"
    status_prohibit,  \* is status_prohibit_timer running
    tx_status,        \* status PDU read but not yet sent: {} or {pdu}
    delivered         \* payloads handed to PDCP, in order

rxState == <<vr_r, vr_mr, vr_x, vr_ms, vr_h, rx_window, rx_segments,
             poll_received, reordering_timer, delivered>>
rxVars  == <<rxState, do_status, status_prohibit, tx_status>>

RX_OFFSET(x) == Offset(x, vr_r)

\* Mutants: the high edge is inside the window; there is no test.
InsideWithHighEdge(x) == RX_OFFSET(x) <= RX_OFFSET(vr_mr)
InsideAlways(x)       == TRUE

inside_rx_window(x) == RX_OFFSET(x) < RX_OFFSET(vr_mr)

NoPayload == -1     \* payload of a PDU put together from parts of different PDUs

-----------------------------------------------------------------------------
RxInit ==
    /\ vr_r = 0 /\ vr_mr = WINDOW /\ vr_x = 0 /\ vr_ms = 0 /\ vr_h = 0
    /\ rx_window = EmptyMap
    /\ rx_segments = EmptyMap
    /\ poll_received = FALSE
    /\ do_status = FALSE
    /\ reordering_timer = "stopped"
    /\ status_prohibit = FALSE
    /\ tx_status = {}
    /\ delivered = << >>

(***************************************************************************)
(* Update of vr_h common to handle_data_pdu and handle_data_pdu_segment.   *)
(***************************************************************************)
\* Mutant: vr_h is not reduced modulo MOD.
RaisedVrHNoWrap(sn) ==
    IF RX_OFFSET(sn) >= RX_OFFSET(vr_h) THEN sn + 1 ELSE vr_h

RaisedVrH(sn) ==
    IF RX_OFFSET(sn) >= RX_OFFSET(vr_h) THEN Plus(sn, 1) ELSE vr_h

(***************************************************************************)
(* 36.322 5.2.3: a poll is answered at once unless its SN is still within  *)
(* [ms, vr_mr), when it waits for the reordering timer.                    *)
(***************************************************************************)
PollDue(sn, ms) ==
    RX_OFFSET(sn) < RX_OFFSET(ms) \/ RX_OFFSET(sn) >= RX_OFFSET(vr_mr)

(***************************************************************************)
(* The end of handle_data_pdu: the reordering timer is stopped when the    *)
(* gap it was started for is closed, and started when there is a gap.      *)
(***************************************************************************)
UpdateReorderingTimer ==
    LET inside(x) == Offset(x, vr_r') < Offset(vr_mr', vr_r')
        stops     == vr_x = vr_r' \/ (~inside(vr_x) /\ vr_x # vr_mr')
        kept      == reordering_timer = "running" /\ ~stops
        gap       == Offset(vr_h', vr_r') > 0
    IN  /\ reordering_timer' = IF kept \/ gap THEN "running" ELSE "stopped"
        /\ vr_x' = IF ~kept /\ gap THEN vr_h' ELSE vr_x

(***************************************************************************)
(* reassemble_rx_sdus: everything in sequence is delivered, and the window *)
(* moves up by k.  Segments of a delivered SN are dropped, but their map   *)
(* entry stays behind with an empty list.                                  *)
(***************************************************************************)
\* Mutant: the segments of a delivered SN are kept.
ClearedSegmentsNone(segments, gone) == segments

ClearedSegments(segments, gone) ==
    [s \in DOMAIN segments |-> IF s \in gone THEN << >> ELSE segments[s]]

ReassembleRxSdus(window, segments, k) ==
    LET gone == Span(vr_r, k)
    IN  /\ delivered'   = delivered \o [i \in 1 .. k |-> window[Plus(vr_r, i - 1)]]
        /\ vr_r'        = Plus(vr_r, k)
        /\ vr_mr'       = Plus(vr_mr, k)
        /\ rx_window'   = Without(window, gone)
        /\ rx_segments' = ClearedSegments(segments, gone)

(***************************************************************************)
(* handle_data_pdu, for a PDU from the channel or one put together from    *)
(* segments: "segments" is rx_segments as the caller leaves it and         *)
(* "status" what the caller already made of do_status.                     *)
(***************************************************************************)
HandleDataPdu(sn, p, n, segments, status) ==
    \/ /\ ~inside_rx_window(sn) \/ sn \in DOMAIN rx_window
       /\ do_status' = (status \/ p)
       /\ rx_segments' = segments
       /\ UNCHANGED <<vr_r, vr_mr, vr_x, vr_ms, vr_h, rx_window, poll_received,
                      reordering_timer, delivered>>
    \/ /\ inside_rx_window(sn) /\ sn \notin DOMAIN rx_window
       /\ LET window == With(rx_window, sn, n)
          IN  \E m \in RunLength(vr_ms, DOMAIN window),
                 k \in RunLength(vr_r, DOMAIN window) :
                 /\ vr_h' = RaisedVrH(sn)
                 /\ vr_ms' = Plus(vr_ms, m)
                 /\ do_status' = (status \/ (p /\ PollDue(sn, vr_ms')))
                 /\ poll_received' = (poll_received \/ p)
                 /\ ReassembleRxSdus(window, segments, k)
                 /\ UpdateReorderingTimer

(***************************************************************************)
(* handle_data_pdu_segment with add_segment_and_check.  A segment is       *)
(* <<so, lsf, n>> and one unit long.  The first segment of an SN makes a   *)
(* new list, raises vr_h and handles the poll bit, and does nothing to the *)
(* reordering timer.  A later one extends the list only when it fits; the  *)
(* PDU is handled when the list covers it from 0 to lsf.                   *)
(***************************************************************************)
FirstSegment(sn, p, seg) ==
    /\ sn \notin DOMAIN rx_segments
    /\ rx_segments' = With(rx_segments, sn, <<seg>>)
    /\ vr_h' = RaisedVrH(sn)
    /\ poll_received' = (poll_received \/ p)
    /\ do_status' = (do_status \/ (p /\ PollDue(sn, vr_ms)))
    /\ UNCHANGED <<vr_r, vr_mr, vr_x, vr_ms, rx_window, reordering_timer, delivered>>

SegmentList(sn, list) ==
    /\ rx_segments' = [rx_segments EXCEPT ![sn] = list]
    /\ UNCHANGED <<vr_r, vr_mr, vr_x, vr_ms, vr_h, rx_window, poll_received,
                   reordering_timer, delivered>>

NextSegment(sn, p, seg) ==
    /\ sn \in DOMAIN rx_segments
    /\ LET list     == rx_segments[sn]
           expected == IF list = << >> THEN 0 ELSE list[Len(list)].so + 1
           longer   == Append(list, seg)
           complete == /\ \A i \in 1 .. Len(longer) : longer[i].so = i - 1
                       /\ seg.lsf
           payload  == IF \A i \in 1 .. Len(longer) : longer[i].n = seg.n
                       THEN seg.n ELSE NoPayload
       IN  \/ /\ seg.so = 0
              /\ do_status' = (do_status \/ p)
              /\ SegmentList(sn, <<seg>>)
           \/ /\ seg.so # 0 /\ seg.so # expected
              /\ do_status' = (do_status \/ p)
              /\ SegmentList(sn, list)
           \/ /\ seg.so # 0 /\ seg.so = expected /\ ~complete
              /\ do_status' = (do_status \/ p)
              /\ SegmentList(sn, longer)
           \/ /\ seg.so # 0 /\ seg.so = expected /\ complete
              /\ HandleDataPdu(sn, FALSE, payload,
                               Without(rx_segments, {sn}), do_status \/ p)

HandleDataPduSegment(sn, p, seg) ==
    \/ /\ ~inside_rx_window(sn)
       /\ do_status' = (do_status \/ p)
       /\ UNCHANGED rxState
    \/ /\ inside_rx_window(sn)
       /\ FirstSegment(sn, p, seg) \/ NextSegment(sn, p, seg)

-----------------------------------------------------------------------------
(***************************************************************************)
(* write_pdu: a PDU arrives from MAC.                                      *)
(***************************************************************************)
WritePdu(pdu) ==
    /\ IF pdu.rf
       THEN HandleDataPduSegment(pdu.sn, pdu.p,
                                 [so |-> pdu.so, lsf |-> pdu.lsf, n |-> pdu.n])
       ELSE HandleDataPdu(pdu.sn, pdu.p, pdu.n, rx_segments, do_status)
    /\ UNCHANGED <<status_prohibit, tx_status>>

(***************************************************************************)
(* timer_expired for the reordering timer: everything below vr_x counts as *)
(* lost, and a poll that was waiting is answered.                          *)
(***************************************************************************)
\* Mutant: vr_ms is not walked up past what has been received above vr_x.
ExpiredVrMsNoWalk == {vr_x}

ExpiredVrMs == { Plus(vr_x, m) : m \in RunLength(vr_x, DOMAIN rx_window) }

\* Mutant: the timer is not started again for the gaps above vr_x.
StillReorderingNever(ms) == FALSE

StillReordering(ms) == RX_OFFSET(vr_h) > RX_OFFSET(ms)

ReorderingTimerExpired ==
    /\ reordering_timer = "running"
    /\ vr_ms' \in ExpiredVrMs
    /\ IF StillReordering(vr_ms')
       THEN vr_x' = vr_h /\ reordering_timer' = "running"
       ELSE vr_x' = vr_x /\ reordering_timer' = "stopped"
    /\ do_status' = (do_status \/ poll_received)
    /\ UNCHANGED <<vr_r, vr_mr, vr_h, rx_window, rx_segments, poll_received,
                   delivered, status_prohibit, tx_status>>

(***************************************************************************)
(* get_status_pdu for a grant with room for "room" NACKs.  The list is cut *)
(* before the first NACK that no longer fits; a cut list that names the    *)
(* ack_sn itself is dropped altogether.                                    *)
(***************************************************************************)
\* Received SNs that may be acknowledged when the SNs in cut are not reported.
\* Mutant: the report goes on after the first NACK that does not fit.
ReportedPastCut(cut) == { x \in DOMAIN rx_window : RX_OFFSET(x) < RX_OFFSET(vr_ms) }

Reported(cut) ==
    { x \in DOMAIN rx_window : /\ RX_OFFSET(x) < RX_OFFSET(vr_ms)
                               /\ \A y \in cut : RX_OFFSET(x) < RX_OFFSET(y) }

StatusReports(room) ==
    LET Missing    == { x \in Span(vr_r, RX_OFFSET(vr_ms)) : x \notin DOMAIN rx_window }
        Before(x)  == { y \in Missing : RX_OFFSET(y) < RX_OFFSET(x) }
        nacked     == { x \in Missing : Cardinality(Before(x)) < room }
        truncated  == nacked # Missing
        reported   == Reported(Missing \ nacked)
        highest    == { x \in reported : \A y \in reported : RX_OFFSET(y) <= RX_OFFSET(x) }
    IN  { [ ack_sn |-> ack_sn,
            nacks  |-> IF truncated /\ ack_sn \in nacked THEN {} ELSE nacked ] :
            ack_sn \in IF reported = {} THEN {vr_r} ELSE highest }

(***************************************************************************)
(* build_status_pdu: get_status_pdu and reset_status lock the receiver     *)
(* separately, so PDUs may arrive between the two.                         *)
(***************************************************************************)
GetStatusPdu ==
    /\ do_status /\ ~status_prohibit /\ tx_status = {}
    /\ \E room \in MAX_NACK_GRANTS : \E status \in StatusReports(room) : tx_status' = {status}
    /\ UNCHANGED <<rxState, do_status, status_prohibit>>

ResetStatus ==
    /\ tx_status # {}
    /\ tx_status' = {}
    /\ do_status' = FALSE
    /\ poll_received' = FALSE
    /\ status_prohibit' = T_STATUS_PROHIBIT
    /\ UNCHANGED <<vr_r, vr_mr, vr_x, vr_ms, vr_h, rx_window, rx_segments,
                   reordering_timer, delivered>>

StatusProhibitExpired ==
    /\ status_prohibit
    /\ status_prohibit' = FALSE
    /\ UNCHANGED <<rxState, do_status, tx_status>>

(***************************************************************************)
(* stop, called by reestablish.                                            *)
(***************************************************************************)
RxReestablish ==
    /\ tx_status = {}
    /\ vr_r' = 0 /\ vr_mr' = WINDOW /\ vr_x' = 0 /\ vr_ms' = 0 /\ vr_h' = 0
    /\ rx_window' = EmptyMap
    /\ rx_segments' = EmptyMap
    /\ poll_received' = FALSE
    /\ do_status' = FALSE
    /\ reordering_timer' = "stopped"
    /\ status_prohibit' = FALSE
    /\ delivered' = << >>
    /\ UNCHANGED tx_status

-----------------------------------------------------------------------------
(***************************************************************************)
(* Every variable keeps its type.                                          *)
(***************************************************************************)
Segments == [so : Nat, lsf : BOOLEAN, n : Nat]

RxTypeOK ==
    /\ vr_r \in SN /\ vr_mr \in SN /\ vr_x \in SN /\ vr_ms \in SN /\ vr_h \in SN
    /\ DOMAIN rx_window \subseteq SN
    /\ \A s \in DOMAIN rx_window : rx_window[s] \in Int
    /\ DOMAIN rx_segments \subseteq SN
    /\ \A s \in DOMAIN rx_segments : rx_segments[s] \in Seq(Segments)
    /\ poll_received \in BOOLEAN /\ do_status \in BOOLEAN
    /\ reordering_timer \in {"stopped", "running"}
    /\ status_prohibit \in BOOLEAN
    /\ \A st \in tx_status : st.ack_sn \in SN /\ st.nacks \subseteq SN
    /\ delivered \in Seq(Int)

(***************************************************************************)
(* The state variables of 36.322 section 7 keep their order around the     *)
(* window: vr_r <= vr_ms <= vr_h <= vr_mr, one window size between the     *)
(* edges, and while the reordering timer runs vr_x lies in (vr_r, vr_h].   *)
(* Each comes from a different handler (handle_data_pdu,                   *)
(* handle_data_pdu_segment, reassemble_rx_sdus, timer_expired).            *)
(***************************************************************************)
RxWindowOrder ==
    /\ vr_mr = Plus(vr_r, WINDOW)
    /\ RX_OFFSET(vr_ms) <= RX_OFFSET(vr_h)
    /\ RX_OFFSET(vr_h) <= WINDOW
    /\ reordering_timer = "running" =>
          0 < RX_OFFSET(vr_x) /\ RX_OFFSET(vr_x) <= RX_OFFSET(vr_h)

(***************************************************************************)
(* What is buffered is inside the window and waits for a missing PDU:      *)
(* neither vr_r nor vr_ms is itself buffered, and everything buffered is   *)
(* below vr_h (reassemble_rx_sdus leaves nothing deliverable behind).      *)
(***************************************************************************)
OnlyGapsBlock ==
    /\ vr_r \notin DOMAIN rx_window
    /\ vr_ms \notin DOMAIN rx_window
    /\ \A s \in DOMAIN rx_window : RX_OFFSET(s) < RX_OFFSET(vr_h)

(***************************************************************************)
(* A hole below a PDU that has been received completely is being timed or  *)
(* has already been declared lost (vr_ms is past it): the receiver never   *)
(* sits on undelivered data with nothing pending that would report it.     *)
(***************************************************************************)
GapIsTimed ==
    DOMAIN rx_window # {} /\ reordering_timer = "stopped" =>
        \A s \in DOMAIN rx_window : RX_OFFSET(s) < RX_OFFSET(vr_ms)

=============================================================================
