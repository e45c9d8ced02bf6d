----------------------------- MODULE RlcAmLink -----------------------------
(***************************************************************************)
(* One direction of an RLC AM bearer: the transmitter of one entity        *)
(* (RlcAmTx), the receiver of its peer (RlcAmRx) and the MAC and PHY layers*)
(* between them.  Data PDUs travel in dl, status PDUs in ul.  A PDU may be *)
(* lost (HARQ gives up), and PDUs may overtake one another (parallel HARQ  *)
(* processes).                                                             *)
(***************************************************************************)
EXTENDS RlcAmTx, RlcAmRx, SequencesExt

CONSTANTS
    FAULTS,       \* which faults may come together
    MAX_LOSS,     \* bound on the PDUs lost
    MAX_REORDERED,\* bound on the PDUs written when data PDUs overtake one another
    MAX_DL,       \* bound on the data PDUs under way
    MAX_UL        \* bound on the status PDUs under way

\* PDUs are lost, data PDUs or status PDUs overtake one another, RRC re-establishes the bearer.
FAULT == {"loss", "reorder_dl", "reorder_ul", "reestablish"}

ASSUME LinkAssumption ==
    /\ FAULTS \subseteq SUBSET FAULT
    /\ MAX_LOSS \in Nat /\ MAX_REORDERED \in Nat /\ MAX_DL \in Nat /\ MAX_UL \in Nat

VARIABLES
    ul,           \* status PDUs handed to MAC, not yet received or lost
    lost,         \* PDUs lost so far
    faults        \* the faults of this behaviour

linkVars == <<txVars, rxVars, ul, lost, faults>>

Init ==
    /\ TxInit
    /\ RxInit
    /\ ul = << >>
    /\ lost = 0
    /\ faults \in FAULTS

\* The PDUs that may be the next to arrive.
Arriving(channel, reorder) == IF reorder THEN DOMAIN channel ELSE {1} \cap DOMAIN channel

-----------------------------------------------------------------------------
(***************************************************************************)
(* The transmitting entity.                                                *)
(***************************************************************************)
Submit(size) ==
    /\ "reorder_dl" \in faults => written + size <= MAX_REORDERED
    /\ WriteSdu(size)
    /\ UNCHANGED <<rxVars, ul, lost, faults>>

\* A PDU under way is not overtaken by a whole window of new ones: HARQ has given up long before.
DelayBounded == \A i \in DOMAIN dl : sent' - dl[i].n <= WINDOW

Grant(grant) ==
    /\ Len(dl) < MAX_DL
    /\ ReadPdu(grant)
    /\ "reorder_dl" \in faults => DelayBounded
    /\ UNCHANGED <<rxVars, ul, lost, faults>>

PollRetxTimeout == PollRetxTimerExpired /\ UNCHANGED <<rxVars, ul, lost, faults>>

StatusArrives(i) ==
    /\ HandleControlPdu(ul[i])
    /\ ul' = RemoveAt(ul, i)
    /\ UNCHANGED <<rxVars, lost, faults>>

(***************************************************************************)
(* The receiving entity.                                                   *)
(***************************************************************************)
DataArrives(i) ==
    /\ WritePdu(dl[i])
    /\ dl' = RemoveAt(dl, i)
    /\ UNCHANGED <<txState, ul, lost, faults>>

ReorderingTimeout == ReorderingTimerExpired /\ UNCHANGED <<txVars, ul, lost, faults>>

StatusGrant ==
    /\ Len(ul) < MAX_UL
    /\ GetStatusPdu
    /\ UNCHANGED <<txVars, ul, lost, faults>>

StatusSent ==
    /\ ResetStatus
    /\ \E status \in tx_status : ul' = Append(ul, status)
    /\ UNCHANGED <<txVars, lost, faults>>

StatusProhibitTimeout == StatusProhibitExpired /\ UNCHANGED <<txVars, ul, lost, faults>>

(***************************************************************************)
(* The layers below, and RRC.                                              *)
(***************************************************************************)
DataLost(i) ==
    /\ "loss" \in faults /\ lost < MAX_LOSS
    /\ lost' = lost + 1
    /\ dl' = RemoveAt(dl, i)
    /\ UNCHANGED <<txState, rxVars, ul, faults>>

StatusLost(i) ==
    /\ "loss" \in faults /\ lost < MAX_LOSS
    /\ lost' = lost + 1
    /\ ul' = RemoveAt(ul, i)
    /\ UNCHANGED <<txVars, rxVars, faults>>

(***************************************************************************)
(* Re-establishment: RRC tells each side by itself, and MAC is reset.  The *)
(* model resets both sides and the channels in one step; what a side still *)
(* sends or gets under the old numbering in between is left out.           *)
(***************************************************************************)
\* Mutant: the peer does not take part.
ReestablishTxOnly ==
    /\ "reestablish" \in faults
    /\ TxReestablish
    /\ ul' = << >>
    /\ UNCHANGED <<rxVars, lost, faults>>

Reestablish ==
    /\ "reestablish" \in faults
    /\ TxReestablish
    /\ RxReestablish
    /\ ul' = << >>
    /\ UNCHANGED <<lost, faults>>

Next ==
    \/ \E size \in SDU_SIZES : Submit(size)
    \/ \E grant \in GRANTS : Grant(grant)
    \/ PollRetxTimeout
    \/ \E i \in Arriving(ul, "reorder_ul" \in faults) : StatusArrives(i)
    \/ \E i \in Arriving(dl, "reorder_dl" \in faults) : DataArrives(i)
    \/ ReorderingTimeout
    \/ StatusGrant
    \/ StatusSent
    \/ StatusProhibitTimeout
    \/ \E i \in DOMAIN dl : DataLost(i)
    \/ \E i \in DOMAIN ul : StatusLost(i)
    \/ Reestablish

Spec == Init /\ [][Next]_linkVars

(***************************************************************************)
(* Fairness: the HARQ process of the oldest PDU under way ends and the     *)
(* stack thread delivers the PDU; the stack thread runs expired timers; the*)
(* scheduler grants an entity that reports a buffer state.                 *)
(***************************************************************************)
Fairness ==
    /\ WF_linkVars(HasBufferState /\ \E grant \in GRANTS : Grant(grant))
    /\ WF_linkVars(ul # << >> /\ StatusArrives(1))
    /\ WF_linkVars(dl # << >> /\ DataArrives(1))
    /\ WF_linkVars(PollRetxTimeout)
    /\ WF_linkVars(ReorderingTimeout)
    /\ WF_linkVars(StatusGrant)
    /\ WF_linkVars(StatusSent)
    /\ WF_linkVars(StatusProhibitTimeout)

FairSpec == Spec /\ Fairness

-----------------------------------------------------------------------------
(***************************************************************************)
(* Payloads reach PDCP in the order they were sent, none skipped, none     *)
(* twice, although sequence numbers wrap and PDUs are lost, retransmitted  *)
(* whole and in segments.                                                  *)
(***************************************************************************)
InOrderDelivery == \A i \in DOMAIN delivered : delivered[i] = i - 1

\* Payloads that the transmitter has dropped from its window as acknowledged.
acked == sent - TX_OFFSET(vt_s)

(***************************************************************************)
(* handle_control_pdu drops only PDUs that the peer has received and       *)
(* delivered: nothing is lost between the two windows.                     *)
(***************************************************************************)
AckedWasReceived == acked <= Len(delivered)

(***************************************************************************)
(* A sequence number means the same PDU at both ends: what the receiver    *)
(* holds under an SN, whole or in segments, is the payload that belongs at *)
(* that distance behind what has been delivered.                           *)
(***************************************************************************)
SnNamesOnePayload ==
    /\ \A s \in DOMAIN rx_window : rx_window[s] = Len(delivered) + RX_OFFSET(s)
    /\ \A s \in DOMAIN rx_segments : \A i \in DOMAIN rx_segments[s] :
          rx_segments[s][i].n = Len(delivered) + RX_OFFSET(s)

(***************************************************************************)
(* The link implements the abstract bearer of RlcDelivery.                 *)
(***************************************************************************)
Delivery == INSTANCE RlcDelivery WITH released <- acked

DeliverySpec == Delivery!Spec

(***************************************************************************)
(* Whatever is written is delivered in the end.  With a lossless MAC this  *)
(* needs only that a full window gets acknowledged (read_pdu,              *)
(* poll_required, get_status_pdu); with losses it needs the peer to "request *)
(* lost PDUs again" (handle_control_pdu).                                  *)
(***************************************************************************)
EverythingDelivered == []<>(Len(delivered) = sent /\ tx_sdu = 0 /\ tx_sdu_queue = << >>)

(***************************************************************************)
(* "else delay for reordering timer" (handle_data_pdu): a poll whose PDU   *)
(* is still being reordered is answered later, when the reordering timer   *)
(* expires.                                                                *)
(***************************************************************************)
PollsAnswered == poll_received ~> tx_status # {}
=============================================================================
