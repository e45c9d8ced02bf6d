--------------------------- MODULE RlcAmTxAnyPeer ---------------------------
(***************************************************************************)
(* The transmitter of RlcAmTx against any peer: every status PDU, however  *)
(* old or wrong, may arrive at any time, with NACKs for whole PDUs and for *)
(* segments.                                                               *)
(***************************************************************************)
EXTENDS RlcAmTx

StatusPdus == [ack_sn : SN, nacks : SUBSET SN]

\* MAC takes one PDU at a time.
TxGrant(grant) == dl = << >> /\ ReadPdu(grant)

MacTakesPdu ==
    /\ dl # << >>
    /\ dl' = << >>
    /\ UNCHANGED txState

TxNext ==
    \/ \E size \in SDU_SIZES : WriteSdu(size)
    \/ \E grant \in GRANTS : TxGrant(grant)
    \/ MacTakesPdu
    \/ PollRetxTimerExpired
    \/ \E status \in StatusPdus : HandleControlPdu(status)
    \/ TxReestablish

TxSpec == TxInit /\ [][TxNext]_txVars

\* What is left of a retransmission waits in the queue, or the PDU has carried it.
WaitsIn(retx, queue) == \E i \in DOMAIN queue : queue[i] = retx

Carried(retx, pdu, queue) ==
    /\ pdu.sn = retx.sn
    /\ pdu.rf => /\ pdu.so = retx.so_start
                 /\ \/ retx.so_start + 1 = retx.so_end
                    \/ WaitsIn([retx EXCEPT !.is_segment = TRUE, !.so_start = @ + 1], queue)

(***************************************************************************)
(* "RETX if required" (read_pdu).  A grant with room for a segment carries *)
(* new data only when nothing is left to retransmit, not even the rest of a*)
(* PDU that was split earlier (a "data" grant can carry new data between   *)
(* the parts).  And no grant, whatever its size, loses anything of a due   *)
(* retransmission: what it does not carry waits on.                        *)
(***************************************************************************)
RetxBeforeNewData ==
    [][\A grant \in GRANTS : (retx_queue # << >> \/ sent' > sent) /\ TxGrant(grant) =>
          /\ sent' > sent /\ grant # "data" => retx_queue' = << >>
          /\ \A i \in DOMAIN retx_queue : retx_queue[i].sn \in DOMAIN tx_window =>
                \/ WaitsIn(retx_queue[i], retx_queue')
                \/ dl' # << >> /\ Carried(retx_queue[i], dl'[1], retx_queue')]_txVars
=============================================================================
