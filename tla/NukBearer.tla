------------------------------ MODULE NukBearer ------------------------------
(***************************************************************************)
(* A downlink data bearer that is split or duplicated over two eNBs.  The  *)
(* PDCP entity of the master eNB numbers and ciphers the SDUs; rlc sends   *)
(* each over the master, over X2 and the slave, or over both; the          *)
(* aggregation UE feeds what arrives on its own radio and what the         *)
(* transmission UE relays to it into one PDCP entity (PdcpAm).             *)
(*                                                                         *)
(* The leg through the master is an RLC AM bearer and delivers in order    *)
(* (RlcAmLink).  The leg through the slave has UDP and datagram sockets in *)
(* front of and behind such a bearer: PDUs may overtake one another.  Each *)
(* leg may lose a PDU before its RLC entity has it (decide_loss, a full    *)
(* SDU queue, a failed sendto).                                            *)
(***************************************************************************)
EXTENDS PdcpAm, Sequences, SequencesExt

CONSTANTS
    PATHS,      \* legs an SDU may be sent over: subsets of {"MeNB", "SeNB"}
    SKEW,       \* bound on how far the legs drift apart, and on the PDUs lost in a row
    MAX_COUNT   \* bound on the PDUs sent; COUNT has 32 bits

ASSUME BearerAssumption ==
    /\ PATHS \subseteq SUBSET {"MeNB", "SeNB"}
    /\ SKEW \in 1 .. REORDERING_WINDOW
    /\ MAX_COUNT \in 0 .. SN_MOD * HFN_MOD

VARIABLES
    menb,       \* COUNTs of the PDUs on their way through the master
    senb        \* COUNTs of the PDUs on their way through the slave

vars == <<pdcpVars, menb, senb>>

Init == PdcpInit /\ menb = << >> /\ senb = << >>

InFlight == Range(menb) \cup Range(senb)

\* srsenb::rlc::write_sdu; the PDU reaches the RLC entities of the legs in "reached".
WriteSduToLegs ==
    /\ tx_count < MAX_COUNT
    /\ \A c \in InFlight \cup {highest + 1} : tx_count - c < SKEW
    /\ \E legs \in PATHS : \E reached \in SUBSET legs :
          /\ tx_count - highest = SKEW => reached # {}
          /\ menb' = IF "MeNB" \in reached THEN Append(menb, tx_count) ELSE menb
          /\ senb' = IF "SeNB" \in reached THEN Append(senb, tx_count) ELSE senb
    /\ SendPdu

\* pdcp::write_pdu of the aggregation node, called by its own RLC.
FromMeNB ==
    /\ menb # << >>
    /\ HandleAmDrbPdu(Head(menb))
    /\ menb' = Tail(menb)
    /\ UNCHANGED senb

\* pdcp::run_thread of the aggregation node.
FromSeNB(i) ==
    /\ HandleAmDrbPdu(senb[i])
    /\ senb' = RemoveAt(senb, i)
    /\ UNCHANGED menb

Next ==
    \/ WriteSduToLegs
    \/ FromMeNB
    \/ \E i \in DOMAIN senb : FromSeNB(i)

Spec == Init /\ [][Next]_vars

-----------------------------------------------------------------------------
(***************************************************************************)
(* Every PDU is deciphered with the COUNT it was ciphered with             *)
(* (handle_am_drb_pdu), whatever the order in which the legs deliver, as   *)
(* long as they do not drift too far apart.  A COUNT that is off by one    *)
(* hyper frame turns the PDU, and after "rx_hfn++" every later one, into   *)
(* noise that nothing detects: data bearers have no integrity protection.  *)
(***************************************************************************)
CountMatches == gw.count = gw.sent

(***************************************************************************)
(* rx_hfn and next_pdcp_rx_sn together are the COUNT that follows the      *)
(* highest one received, and last_submitted_pdcp_rx_sn belongs to that     *)
(* one: PDUs that come late are outside the window and do not pull it back.*)
(***************************************************************************)
NextFollowsHighest ==
    /\ rx_hfn * SN_MOD + next_pdcp_rx_sn = highest + 1
    /\ last_submitted_pdcp_rx_sn = highest % SN_MOD

(***************************************************************************)
(* A PDU marked "discard" (handle_am_drb_pdu: "without re-ordering         *)
(* (5.1.2.1.2)") does not reach the gateway: the gateway gets every PDU at *)
(* most once, whichever legs it took.                                      *)
(***************************************************************************)
GwGetsEachOnce == rx_count = Cardinality(submitted)
=============================================================================
