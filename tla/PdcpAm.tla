------------------------------- MODULE PdcpAm -------------------------------
(***************************************************************************)
(* The PDCP entity of a data bearer mapped on RLC AM                       *)
(* (lib/src/upper/pdcp_entity_lte.cc): the transmitter's COUNT, and the    *)
(* receiver that finds the COUNT of a PDU from the sequence number in its  *)
(* header, deciphers with it and passes the PDU to the gateway.            *)
(*                                                                         *)
(* A PDU is known by the COUNT it was ciphered with; the receiver sees     *)
(* only the lower part of it.                                              *)
(***************************************************************************)
EXTENDS Integers, FiniteSets

CONSTANTS
    SN_MOD,             \* number of sequence numbers: 2^cfg.sn_len, 4096
    REORDERING_WINDOW,  \* reordering_window, 2048
    HFN_MOD             \* number of hyper frame numbers: 2^(32 - cfg.sn_len)

ASSUME PdcpAssumption ==
    /\ REORDERING_WINDOW \in Nat \ {0}
    /\ SN_MOD = 2 * REORDERING_WINDOW
    /\ HFN_MOD \in Nat \ {0}

VARIABLES
    tx_count,                   \* COUNT of the next PDU sent
    rx_hfn,
    next_pdcp_rx_sn,
    last_submitted_pdcp_rx_sn,
    rx_count,                   \* PDUs passed to the gateway
    gw,                         \* the latest of them: the COUNT it was ciphered with and
                                \* the COUNT it was deciphered with
    submitted,                  \* the COUNTs of all of them
    highest                     \* the highest of these, -1 if there is none

rxState  == <<rx_hfn, next_pdcp_rx_sn, last_submitted_pdcp_rx_sn, rx_count, gw, submitted, highest>>
pdcpVars == <<tx_count, rxState>>

NoPdu == [sent |-> 0, count |-> 0]

PdcpInit ==
    /\ tx_count = 0
    /\ rx_hfn = 0
    /\ next_pdcp_rx_sn = 0
    /\ last_submitted_pdcp_rx_sn = SN_MOD - 1
    /\ rx_count = 0
    /\ gw = NoPdu
    /\ submitted = {}
    /\ highest = -1

\* write_sdu, up to the call of RLC.
SendPdu ==
    /\ tx_count' = tx_count + 1
    /\ UNCHANGED rxState

(***************************************************************************)
(* handle_am_drb_pdu: the tests it makes, in this order, on the sequence   *)
(* number.  The differences are taken as signed numbers.                   *)
(***************************************************************************)
\* Mutant: only what is far ahead is outside.
OutsideWindowAhead(sn) == sn - last_submitted_pdcp_rx_sn > REORDERING_WINDOW

OutsideWindow(sn) ==
    \/ sn - last_submitted_pdcp_rx_sn > REORDERING_WINDOW
    \/ last_submitted_pdcp_rx_sn - sn \in 0 .. REORDERING_WINDOW - 1

\* Mutant: the window is one wider.
WrappedLate(sn) == next_pdcp_rx_sn - sn > REORDERING_WINDOW + 1

Wrapped(sn) == next_pdcp_rx_sn - sn > REORDERING_WINDOW

OfPreviousHfn(sn) == sn - next_pdcp_rx_sn >= REORDERING_WINDOW

\* (hfn << cfg.sn_len) | sn, on uint32_t
Count(hfn, sn) == (hfn % HFN_MOD) * SN_MOD + sn

(***************************************************************************)
(* write_pdu for a PDU ciphered with COUNT c.  PDUs outside the window are *)
(* marked to be discarded, which only keeps last_submitted_pdcp_rx_sn from *)
(* following them: the caller passes them to the gateway like any other.   *)
(***************************************************************************)
Submit(c, count) ==
    /\ gw' = [sent |-> c, count |-> count]
    /\ submitted' = submitted \cup {c}
    /\ highest' = IF c > highest THEN c ELSE highest
    /\ rx_count' = rx_count + 1

HandleAmDrbPdu(c) ==
    LET sn == c % SN_MOD
    IN  /\ \/ /\ OutsideWindow(sn)
              /\ Submit(c, Count(IF sn > next_pdcp_rx_sn THEN rx_hfn - 1 ELSE rx_hfn, sn))
              /\ UNCHANGED <<rx_hfn, next_pdcp_rx_sn>>
           \/ /\ ~OutsideWindow(sn) /\ Wrapped(sn)
              /\ rx_hfn' = rx_hfn + 1
              /\ next_pdcp_rx_sn' = sn + 1
              /\ Submit(c, Count(rx_hfn + 1, sn))
           \/ /\ ~OutsideWindow(sn) /\ ~Wrapped(sn)
              /\ Submit(c, Count(IF OfPreviousHfn(sn) THEN rx_hfn - 1 ELSE rx_hfn, sn))
              /\ IF OfPreviousHfn(sn) \/ sn < next_pdcp_rx_sn
                 THEN UNCHANGED <<rx_hfn, next_pdcp_rx_sn>>
                 ELSE /\ next_pdcp_rx_sn' = (sn + 1) % SN_MOD
                      /\ rx_hfn' = IF sn + 1 = SN_MOD THEN rx_hfn + 1 ELSE rx_hfn
        /\ last_submitted_pdcp_rx_sn' =
              IF OutsideWindow(sn) THEN last_submitted_pdcp_rx_sn ELSE sn
        /\ UNCHANGED tx_count
=============================================================================
