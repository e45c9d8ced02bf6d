--------------------------- MODULE RlcAmRxAnyPeer ---------------------------
(***************************************************************************)
(* The receiver of RlcAmRx against any peer and any channel: every data    *)
(* PDU or segment may arrive at any time.                                  *)
(***************************************************************************)
EXTENDS RlcAmRx

CONSTANTS
    PAYLOADS,       \* payload numbers a PDU may carry
    RF,             \* which data PDUs arrive: FALSE whole ones, TRUE segments
    MAX_DELIVERED   \* bound on the PDUs delivered, for model checking

ASSUME RxPeerAssumption ==
    PAYLOADS \subseteq Nat /\ RF \subseteq BOOLEAN /\ MAX_DELIVERED \in Nat

DataPdus ==
    [rf : RF, sn : SN, p : BOOLEAN, n : PAYLOADS, so : {0}, lsf : {FALSE}]
      \cup [rf : RF \ {FALSE}, sn : SN, p : BOOLEAN, n : PAYLOADS, so : {1}, lsf : {TRUE}]

RxPduArrives(pdu) == Len(delivered) < MAX_DELIVERED /\ WritePdu(pdu)

RxNext ==
    \/ \E pdu \in DataPdus : RxPduArrives(pdu)
    \/ ReorderingTimerExpired
    \/ GetStatusPdu
    \/ ResetStatus
    \/ StatusProhibitExpired
    \/ RxReestablish

RxSpec == RxInit /\ [][RxNext]_rxVars

(***************************************************************************)
(* vr_ms, which bounds what a status PDU may acknowledge, never moves      *)
(* backwards: timer_expired sets it to a vr_x noted when the timer was     *)
(* started, and PDUs received since then may have moved vr_ms past it.     *)
(***************************************************************************)
VrMsMonotone ==
    [][RxReestablish \/ RX_OFFSET(vr_ms) <= Offset(vr_ms', vr_r)]_rxVars
=============================================================================
