------------------------------- MODULE RlcUm --------------------------------
(***************************************************************************)
(* One direction of an RLC UM bearer: rlc_um_lte_tx, the rlc_um_lte_rx of  *)
(* its peer, and the channel between them, which loses and reorders PDUs.  *)
(*                                                                         *)
(* Unlike in the AM modules the contents matter here: an SDU is a sequence *)
(* of units, a PDU carries consecutive units of one or several SDUs, and   *)
(* the receiver puts SDUs together again from length indicators and        *)
(* framing info.  A grant is the number of units it has room for; header   *)
(* lengths are left out.                                                   *)
(***************************************************************************)
EXTENDS RlcSn, SequencesExt

CONSTANTS
    SDU_LENGTHS,  \* units an SDU may have
    UM_GRANTS,    \* units a PDU may have
    UM_QUEUE,     \* capacity of tx_sdu_queue
    MAX_SDUS,     \* bound on the SDUs written
    UM_LOSS,      \* bound on the PDUs lost
    UM_FLIGHT,    \* bound on the PDUs under way
    UM_RESETS     \* bound on the re-establishments

\* An SDU has content: PDCP puts a header in front of what it is given.
ASSUME UmAssumption == SDU_LENGTHS \subseteq Nat \ {0}

VARIABLES
    vt_us,            \* SN of the next PDU
    um_sdu,           \* tx_sdu: what is left of the SDU being sent
    um_queue,         \* tx_sdu_queue
    vr_ur,            \* SN of the earliest PDU still considered for reordering
    vr_ux,            \* SN following the PDU which triggered t_reordering
    vr_uh,            \* SN following the highest SN received
    pdu_lost,
    rx_sdu,           \* units put together so far
    vr_ur_in_rx_sdu,  \* SN of the PDU whose units are last in rx_sdu
    um_window,        \* rx_window: SN -> PDU
    t_reordering,     \* is reordering_timer running
    air,              \* PDUs under way
    um_sent,          \* history: PDUs sent
    um_highest,       \* history: the PDU, counted from the first one sent, that is vr_uh
    um_written,       \* history: SDUs written
    um_delivered,     \* history: what PDCP was given
    broken,           \* history: SDUs of which some unit was lost
    um_lost, um_resets

umTx  == <<vt_us, um_sdu, um_queue, um_sent, um_written>>
umRx  == <<vr_ur, vr_ux, vr_uh, pdu_lost, rx_sdu, vr_ur_in_rx_sdu, um_window, t_reordering,
           um_delivered>>
umVars == <<umTx, umRx, air, um_highest, broken, um_lost, um_resets>>

\* The units a + 1 to b of SDU n, the last of which ends it if ends is true.
Units(n, a, b, ends) ==
    [k \in 1 .. b - a |-> [sdu |-> n, k |-> a + k, last |-> ends /\ a + k = b]]

Sdu(n, length) == Units(n, 0, length, TRUE)

Carried(pdu) == UNION {{segment[k].sdu : k \in DOMAIN segment} : segment \in Range(pdu.segs)}

UM_OFFSET(x) == Offset(x, Plus(vr_uh, WINDOW))

-----------------------------------------------------------------------------
UmInit ==
    /\ vt_us = 0 /\ um_sdu = << >> /\ um_queue = << >>
    /\ vr_ur = 0 /\ vr_ux = 0 /\ vr_uh = 0
    /\ pdu_lost = FALSE /\ rx_sdu = << >> /\ vr_ur_in_rx_sdu = 0
    /\ um_window = EmptyMap
    /\ t_reordering = FALSE
    /\ air = << >>
    /\ um_sent = 0 /\ um_highest = 0 /\ um_written = 0 /\ um_delivered = << >>
    /\ broken = {} /\ um_lost = 0 /\ um_resets = 0

(***************************************************************************)
(* The transmitter: try_write_sdu and build_data_pdu.                      *)
(***************************************************************************)
UmWriteSdu(length) ==
    /\ um_written < MAX_SDUS
    /\ Len(um_queue) < UM_QUEUE
    /\ um_queue' = Append(um_queue, Sdu(um_written + 1, length))
    /\ um_written' = um_written + 1
    /\ UNCHANGED <<vt_us, um_sdu, um_sent, um_highest, umRx, air, broken, um_lost, um_resets>>

ToSend == IF um_sdu = << >> THEN um_queue ELSE <<um_sdu>> \o um_queue

\* Units of the first i SDUs.
UnitsUpTo(i) == Len(FlattenSeq(SubSeq(ToSend, 1, i)))

\* Mutant: every PDU claims to start with an SDU.
StartsAlways == TRUE

StartAligned == um_sdu = << >>

\* SNs are unambiguous while fewer than WINDOW PDUs in a row are lost or late.
WithinWindow ==
    /\ um_sent < um_highest + WINDOW
    /\ \A i \in DOMAIN air : um_sent - air[i].n < WINDOW

\* The PDU ends with the first used units of ToSend[last].
BuildUmdPdu(grant) ==
    /\ Len(air) < UM_FLIGHT
    /\ \E last \in DOMAIN ToSend : \E used \in 1 .. Len(ToSend[last]) :
          /\ UnitsUpTo(last - 1) + used = Min({grant, UnitsUpTo(Len(ToSend))})
          /\ air' = Append(air, [sn |-> vt_us, n |-> um_sent,
                                 segs |-> Append(SubSeq(ToSend, 1, last - 1),
                                                 SubSeq(ToSend[last], 1, used)),
                                 start |-> StartAligned, end |-> used = Len(ToSend[last])])
          /\ um_sdu' = SubSeq(ToSend[last], used + 1, Len(ToSend[last]))
          /\ um_queue' = SubSeq(ToSend, last + 1, Len(ToSend))
    /\ WithinWindow
    /\ vt_us' = Plus(vt_us, 1)
    /\ um_sent' = um_sent + 1
    /\ UNCHANGED <<um_written, um_highest, umRx, broken, um_lost, um_resets>>

(***************************************************************************)
(* The receiver's window, for the PDUs in window.                          *)
(***************************************************************************)
InsideFor(high, window, sn) ==
    \/ DOMAIN window = {}
    \/ Offset(sn, Plus(high, WINDOW)) < Offset(high, Plus(high, WINDOW))

(***************************************************************************)
(* reassemble_rx_sdus works on a record r of the members it changes; out   *)
(* is what it hands to PDCP.                                               *)
(***************************************************************************)
Reassembly == [vr_ur |-> vr_ur, pdu_lost |-> pdu_lost, rx_sdu |-> rx_sdu,
               in |-> vr_ur_in_rx_sdu, window |-> um_window, out |-> um_delivered]

Cleared(r)     == [r EXCEPT !.rx_sdu = << >>]
Delivered(r)   == [r EXCEPT !.out = Append(@, r.rx_sdu), !.rx_sdu = << >>]
NothingLost(r) == [r EXCEPT !.pdu_lost = FALSE]
Advanced(r)    == [r EXCEPT !.window = Without(@, {r.vr_ur}), !.vr_ur = Plus(@, 1)]

pdu_belongs_to_rx_sdu(r) == r.vr_ur \in {r.in, Plus(r.in, 1)}

\* The segments of a PDU, the first behind what rx_sdu holds.  All but the last
\* end an SDU.
Parts(pdu, r) == [pdu.segs EXCEPT ![1] = r.rx_sdu \o @]

StartLost(pdu, r) == r.rx_sdu = << >> /\ ~pdu.start

\* The loop over the length indicators: the SDUs from the first on are delivered.
MiddleSegments(pdu, r, first) ==
    [r EXCEPT !.out = @ \o SubSeq(Parts(pdu, r), first, Len(pdu.segs) - 1),
              !.pdu_lost = @ /\ Len(pdu.segs) = 1,
              !.rx_sdu = IF Len(pdu.segs) = 1 THEN @ ELSE << >>]

\* The SDU in r is complete if nothing of its start was lost.
Finished(pdu, r) ==
    NothingLost(IF r.pdu_lost /\ ~pdu.start THEN Cleared(r) ELSE Delivered(r))

LastSegment(pdu, r) ==
    LET x == [r EXCEPT !.rx_sdu = @ \o pdu.segs[Len(pdu.segs)], !.in = r.vr_ur]
    IN  IF pdu.end THEN Finished(pdu, x) ELSE x

(***************************************************************************)
(* "First catch up with lower edge of reordering window".  A PDU that does *)
(* not continue the one before loses every SDU that ends in it, one whose  *)
(* first segment has lost its start is dropped as a whole, and so is the   *)
(* last segment of one that starts within an SDU.                          *)
(***************************************************************************)
FirstKept(pdu, r) ==
    IF r.vr_ur # Plus(r.in, 1)     THEN Len(pdu.segs)
    ELSE IF r.pdu_lost /\ ~pdu.start THEN 2 ELSE 1

LowerEdgePdu(pdu, r) ==
    LET x == MiddleSegments(pdu, r, FirstKept(pdu, r))
    IN  IF StartLost(pdu, r) THEN r
        ELSE IF StartLost(pdu, x) THEN x ELSE LastSegment(pdu, x)

LowerEdgeStep(high, r) ==
    IF InsideFor(high, r.window, r.vr_ur) THEN r
    ELSE Advanced(IF r.vr_ur \in DOMAIN r.window THEN LowerEdgePdu(r.window[r.vr_ur], r)
                                                 ELSE Cleared(r))

(***************************************************************************)
(* "Now update vr_ur until we reach an SN we haven't yet received".        *)
(***************************************************************************)
InSequencePdu(pdu, r) ==
    IF ~StartLost(pdu, r)          THEN LastSegment(pdu, MiddleSegments(pdu, r, 1))
    ELSE IF Len(pdu.segs) = 1 THEN r ELSE LastSegment(pdu, MiddleSegments(pdu, r, 2))

Gap(r) == IF pdu_belongs_to_rx_sdu(r) THEN r ELSE Cleared(NothingLost(r))

InSequenceStep(r) ==
    IF r.vr_ur \in DOMAIN r.window
    THEN Advanced(InSequencePdu(r.window[r.vr_ur], Gap(r)))
    ELSE r

\* Both loops end within MOD rounds.
LowerEdges(high, r) ==
    LET lower[k \in 0 .. MOD] == IF k = 0 THEN r ELSE LowerEdgeStep(high, lower[k - 1])
    IN  lower[MOD]

InSequence(r) ==
    LET next[k \in 0 .. MOD] == IF k = 0 THEN r ELSE InSequenceStep(next[k - 1])
    IN  next[MOD]

reassemble_rx_sdus(high, r) == InSequence(LowerEdges(high, r))

Becomes(r) ==
    /\ vr_ur' = r.vr_ur /\ pdu_lost' = r.pdu_lost /\ rx_sdu' = r.rx_sdu
    /\ vr_ur_in_rx_sdu' = r.in /\ um_window' = r.window /\ um_delivered' = r.out

(***************************************************************************)
(* handle_data_pdu.                                                        *)
(***************************************************************************)
\* Mutant: late PDUs are taken for new ones.
OutsideNever(sn) == FALSE

OutsideRxWindow(sn) ==
    UM_OFFSET(sn) >= UM_OFFSET(Plus(vr_uh, MOD - WINDOW)) /\ UM_OFFSET(sn) < UM_OFFSET(vr_ur)

Discards(pdu) == OutsideRxWindow(pdu.sn) \/ pdu.sn \in DOMAIN um_window

\* Mutant: a timer that runs is left alone.
StillReorderingAlways(high, r) == TRUE

\* Does a running timer go on, after reassembly r.
StillWaiting(high, r) ==
    LET Base(x) == Offset(x, Plus(high, WINDOW))
    IN  ~ \/ Base(vr_ux) <= Base(r.vr_ur)
          \/ ~InsideFor(high, r.window, vr_ux) /\ vr_ux # high

\* Mutant: a timer that was stopped for one gap does not start for the next.
StartsReorderingIfIdle(high, r) ==
    /\ ~t_reordering
    /\ Offset(high, Plus(high, WINDOW)) > Offset(r.vr_ur, Plus(high, WINDOW))

StartsReordering(high, r) ==
    Offset(high, Plus(high, WINDOW)) > Offset(r.vr_ur, Plus(high, WINDOW))

Reorders(high, r) ==
    IF t_reordering /\ StillWaiting(high, r)
    THEN UNCHANGED <<t_reordering, vr_ux>>
    ELSE /\ t_reordering' = StartsReordering(high, r)
         /\ vr_ux' = IF StartsReordering(high, r) THEN high ELSE vr_ux

HandleDataPdu(pdu) ==
    LET window == With(um_window, pdu.sn, pdu)
        high   == IF InsideFor(vr_uh, window, pdu.sn) THEN vr_uh ELSE Plus(pdu.sn, 1)
        r      == reassemble_rx_sdus(high, [Reassembly EXCEPT !.window = window])
    IN  IF Discards(pdu)
        THEN UNCHANGED umRx
        ELSE Becomes(r) /\ vr_uh' = high /\ Reorders(high, r)

UmPduArrives(i) ==
    /\ HandleDataPdu(air[i])
    /\ air' = RemoveAt(air, i)
    /\ IF Discards(air[i])
       THEN broken' = broken \union Carried(air[i]) /\ UNCHANGED um_highest
       ELSE um_highest' = Max({um_highest, air[i].n + 1}) /\ UNCHANGED broken
    /\ UNCHANGED <<umTx, um_lost, um_resets>>

(***************************************************************************)
(* timer_expired: vr_ur moves past the PDUs that are missing below vr_ux.  *)
(***************************************************************************)
SkipStep(r) ==
    IF UM_OFFSET(r.vr_ur) < UM_OFFSET(vr_ux)
    THEN reassemble_rx_sdus(vr_uh, [r EXCEPT !.vr_ur = Plus(@, 1)])
    ELSE r

Skips(r) ==
    LET skip[k \in 0 .. MOD] == IF k = 0 THEN r ELSE SkipStep(skip[k - 1])
    IN  skip[MOD]

Expired == Skips([Cleared(Reassembly) EXCEPT !.pdu_lost = TRUE])

GapRemains(r) == UM_OFFSET(vr_uh) > UM_OFFSET(r.vr_ur)

UmTimerExpired ==
    /\ t_reordering
    /\ Becomes(Expired)
    /\ t_reordering' = GapRemains(Expired)
    /\ vr_ux' = IF t_reordering' THEN vr_uh ELSE vr_ux
    /\ UNCHANGED <<vr_uh, umTx, air, um_highest, broken, um_lost, um_resets>>

(***************************************************************************)
(* Both ends are re-established and the MAC between them is reset.  The    *)
(* receiver lets a running timer expire first, which may start it again;   *)
(* vt_us and vr_ur_in_rx_sdu keep their values.                            *)
(***************************************************************************)
UmReestablish ==
    /\ um_resets < UM_RESETS
    /\ um_resets' = um_resets + 1
    /\ um_sdu' = << >> /\ um_queue' = << >> /\ air' = << >>
    /\ LET r == IF t_reordering THEN Expired ELSE Reassembly
       IN  /\ vr_ur_in_rx_sdu' = r.in /\ um_delivered' = r.out
           /\ t_reordering' = (t_reordering /\ GapRemains(r))
    /\ vr_ur' = 0 /\ vr_ux' = 0 /\ vr_uh' = 0
    /\ pdu_lost' = FALSE /\ rx_sdu' = << >> /\ um_window' = EmptyMap
    /\ broken' = 1 .. um_written
    /\ um_highest' = um_sent - vt_us + (IF vt_us < WINDOW THEN 0 ELSE MOD)
    /\ UNCHANGED <<vt_us, um_sent, um_written, um_lost>>

UmPduLost(i) ==
    /\ um_lost < UM_LOSS
    /\ um_lost' = um_lost + 1
    /\ air' = RemoveAt(air, i)
    /\ broken' = broken \union Carried(air[i])
    /\ UNCHANGED <<umTx, umRx, um_highest, um_resets>>

UmNext ==
    \/ \E length \in SDU_LENGTHS : UmWriteSdu(length)
    \/ \E grant \in UM_GRANTS : BuildUmdPdu(grant)
    \/ \E i \in DOMAIN air : UmPduArrives(i) \/ UmPduLost(i)
    \/ UmTimerExpired
    \/ UmReestablish

UmSpec == UmInit /\ [][UmNext]_umVars

-----------------------------------------------------------------------------
(***************************************************************************)
(* Properties.                                                             *)
(***************************************************************************)
UmTypeOK ==
    /\ {vt_us, vr_ur, vr_ux, vr_uh, vr_ur_in_rx_sdu} \union DOMAIN um_window \subseteq SN
    /\ pdu_lost \in BOOLEAN /\ t_reordering \in BOOLEAN
    /\ UM_OFFSET(vr_ur) <= UM_OFFSET(vr_uh)
    /\ \A sn \in DOMAIN um_window : UM_OFFSET(vr_ur) < UM_OFFSET(sn) /\ UM_OFFSET(sn) < UM_OFFSET(vr_uh)

(***************************************************************************)
(* Whatever is lost, late or re-established, PDCP gets whole SDUs: never a *)
(* part of one, nor parts of two put together.                             *)
(***************************************************************************)
WholeSdus ==
    \A i \in DOMAIN um_delivered :
        LET d == um_delivered[i] IN d # << >> /\ d = Sdu(d[1].sdu, Len(d))

(***************************************************************************)
(* PDCP gets them in the order in which they were written, each once.      *)
(***************************************************************************)
SdusInOrder ==
    \A i, j \in DOMAIN um_delivered : i < j => um_delivered[i][1].sdu < um_delivered[j][1].sdu

(***************************************************************************)
(* While something received waits for a missing PDU the timer runs.        *)
(***************************************************************************)
UmGapIsTimed == UM_OFFSET(vr_ur) < UM_OFFSET(vr_uh) => t_reordering

(***************************************************************************)
(* When all is sent and no gap is waited for, an SDU that lost nothing is  *)
(* missing only behind one that did: without losses and late PDUs every    *)
(* SDU arrives, and what a loss costs the receiver is never an SDU whose   *)
(* PDUs came before it.                                                    *)
(***************************************************************************)
Settled == ToSend = << >> /\ air = << >> /\ ~t_reordering

Missing ==
    (1 .. um_written) \ (broken \union {um_delivered[i][1].sdu : i \in DOMAIN um_delivered})

LostBehindBroken == Settled => \A n \in Missing : broken \intersect (1 .. n - 1) # {}

(***************************************************************************)
(* An SDU is missing only if a PDU that carried part of it was lost        *)
(* (rlc_um_test, reassmble_test: "the missing start segment should be      *)
(* detected and the complete SDU be discarded Therefore, one SDU less      *)
(* should be received than was tx'ed").                                    *)
(***************************************************************************)
OnlyLossLoses == Settled => Missing = {}
=============================================================================
