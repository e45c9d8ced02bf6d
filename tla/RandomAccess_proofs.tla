------------------------ MODULE RandomAccess_proofs -------------------------
(***************************************************************************)
(* Proofs about RandomAccess, for any number of preambles, procedures,     *)
(* handovers and resets.                                                   *)
(***************************************************************************)
EXTENDS RandomAccess, TLAPS

(***************************************************************************)
(* What holds as long as no reset of MAC has come between two steps of     *)
(* another thread.                                                         *)
(***************************************************************************)
\* A T-CRNTI is known only while its contention is open, and in that time a PHY worker brings
\* nothing that belongs to an earlier attempt.
TempRntiIsCurrent ==
    /\ temp_rnti # 0 => ra_state = "CONTENTION_RESOLUTION"
    /\ worker = "rar" => ra_state # "CONTENTION_RESOLUTION"
    /\ worker = "our_msg4" => temp_rnti \in ours \cup {0}

\* Who has a C-RNTI has put it into Msg3.
CrntiTransmitted ==
    /\ worker = "grant" => transmitted_crnti # 0
    /\ (ra_state = "CONTENTION_RESOLUTION" \/ msg3_buff # "empty") /\ crnti # 0
          => transmitted_crnti # 0

\* Nothing disturbs a procedure that waits for PHY.
CompletionUndisturbed ==
    /\ completions = IF ra_state = "WAITING_COMPLETION" THEN 1 ELSE 0
    /\ ra_state \in {"START_WAIT_COMPLETION", "WAITING_COMPLETION"}
          => worker = "idle" /\ ~contention_timer

\* With a preamble of the network there is no contention.
NoContention ==
    /\ ~noncontention_enabled
    /\ ho_prepare => ra_state = "IDLE" /\ worker = "idle" /\ ~contention_timer
    /\ dedicated => /\ ra_state # "CONTENTION_RESOLUTION" /\ ~contention_timer
                    /\ worker \in {"idle", "rar"}

\* A T-CRNTI is that of a Msg3 that has been sent or is about to be.
Msg3OfTempRnti ==
    /\ harq_rnti # 0 /\ harq_rnti = temp_rnti => msg3_has_been_transmitted
    /\ temp_rnti # 0 => msg3_pending \/ msg3_has_been_transmitted

Undisturbed ==
    /\ TempRntiIsCurrent
    /\ CrntiTransmitted
    /\ CompletionUndisturbed
    /\ NoContention
    /\ Msg3OfTempRnti
    /\ contention_timer /\ ~exhausted =>
          ra_state = "CONTENTION_RESOLUTION" /\ msg3_has_been_transmitted
    /\ crnti # 0 => crnti \in ours

RaIInv ==
    /\ RaTypeOK
    /\ ours \cap theirs = {}
    /\ overtaken \/ Undisturbed

-----------------------------------------------------------------------------
USE DEF STATES

\* A Msg3 that the network decodes gives this UE the T-CRNTI and nothing else.
LEMMA Msg3SentValues ==
    ASSUME ValuesOK, NEW content, temp_rnti # 0, Msg3Sent(content)
    PROVE  /\ rntis' = rntis /\ theirs' = theirs
           /\ ours' = ours \/ ours' = ours \cup {temp_rnti}
           /\ ours' \subseteq 1 .. rntis
<1>1. /\ rntis' = rntis /\ theirs' = theirs
      /\ ours' = ours \/ ours' = ours \cup {temp_rnti}
  BY DEF Msg3Sent, network
<1>2. temp_rnti \in 1 .. rntis
  BY DEF ValuesOK
<1>3. QED
  BY <1>1, <1>2 DEF ValuesOK

\* The same of a grant for the T-CRNTI, whether it sends Msg3 or not.
LEMMA NewMsg3Values ==
    ASSUME ValuesOK, temp_rnti # 0, NewMsg3
    PROVE  /\ rntis' = rntis /\ theirs' = theirs
           /\ ours' = ours \/ ours' = ours \cup {temp_rnti}
           /\ ours' \subseteq 1 .. rntis
<1>1. CASE Msg3Sent(msg3_buff')
  BY <1>1, Msg3SentValues
<1>2. CASE UNCHANGED network
  BY <1>2 DEF network, ValuesOK
<1>3. QED
  BY <1>1, <1>2 DEF NewMsg3

\* The values keep their types: counters, RNTIs that the network has given away, states.
LEMMA ValuesStep == ValuesOK /\ [RaNext]_raVars => ValuesOK'
<1> SUFFICES ASSUME ValuesOK, [RaNext]_raVars PROVE ValuesOK'
  OBVIOUS
<1> USE RaAssumption DEF ValuesOK, Cleared, MacReset, Msg3Flush, HoRaCompleted, Abandoned,
       ResponseError, Complete, StartMacOrder, Decode, Msg3Sent, NewMsg3, Msg3Get, Msg3Assembled,
       ContentionIdMatches, MayRetransmit, request, identity, msg3, harq, network, history, bounds
<1>1. CASE ConnectionRequest
  BY <1>1 DEF ConnectionRequest
<1>2. CASE StartForData
  BY <1>2 DEF StartForData
<1>3. CASE ResetByRrc
  BY <1>3 DEF ResetByRrc
<1>4. CASE HoPrepare
  BY <1>4 DEF HoPrepare
<1>5. CASE HoStart
  BY <1>5 DEF HoStart
<1>6. CASE HoFailed
  BY <1>6 DEF HoFailed
<1>7. CASE StatePdcchSetup
  BY <1>7 DEF StatePdcchSetup
<1>8. CASE StateBackoffWait
  BY <1>8 DEF StateBackoffWait
<1>9. CASE StateResponseReception
  BY <1>9 DEF StateResponseReception
<1>10. CASE StateContentionResolution
  BY <1>10 DEF StateContentionResolution
<1>11. CASE StateCompletition
  BY <1>11 DEF StateCompletition
<1>12. CASE ContentionTimerExpired
  BY <1>12 DEF ContentionTimerExpired
<1>13. CASE DecodeRar
  BY <1>13 DEF DecodeRar
<1>14. CASE DecodeMsg4
  BY <1>14 DEF DecodeMsg4
<1>15. CASE DecodeGrant
  BY <1>15 DEF DecodeGrant
<1>16. CASE RarForOthers
  BY <1>16 DEF RarForOthers
<1>17. CASE RarDecoded
  BY <1>17 DEF RarDecoded
<1>18. CASE ContentionResolutionIdReceived
  BY <1>18 DEF ContentionResolutionIdReceived
<1>19. CASE PdcchToCrnti
  BY <1>19 DEF PdcchToCrnti
<1>20. CASE Msg3Grant
  <2>1. ours' \subseteq 1 .. rntis' /\ theirs' \subseteq 1 .. rntis' /\ rntis' = rntis
    BY <1>20, NewMsg3Values DEF Msg3Grant
  <2>2. QED
    BY <1>20, <2>1 DEF Msg3Grant
<1>21. CASE Msg3Acknowledged
  BY <1>21 DEF Msg3Acknowledged
<1>22. CASE HarqRetx
  <2>1. ours' \subseteq 1 .. rntis' /\ theirs' \subseteq 1 .. rntis' /\ rntis' = rntis
    <3>1. CASE harq_rnti = temp_rnti
      <4>1. temp_rnti # 0 /\ Msg3Sent(msg3_buff)
        BY <1>22, <3>1 DEF HarqRetx
      <4>2. QED
        BY <4>1, Msg3SentValues
    <3>2. CASE harq_rnti # temp_rnti
      BY <1>22, <3>2 DEF HarqRetx
    <3>3. QED
      BY <3>1, <3>2
  <2>2. QED
    BY <1>22, <2>1 DEF HarqRetx
<1>23. CASE HarqMaxRetx
  BY <1>23 DEF HarqMaxRetx
<1>24. CASE NotifyRaCompleted
  BY <1>24 DEF NotifyRaCompleted
<1>25. CASE OtherUeHeard
  <2>1. theirs' \subseteq 1 .. rntis' /\ rntis' = rntis
    BY <1>25 DEF OtherUeHeard
  <2>2. QED
    BY <1>25, <2>1 DEF OtherUeHeard
<1>26. CASE UNCHANGED raVars
  BY <1>26 DEF raVars
<1>27. CASE DecodeDci0
  BY <1>27 DEF DecodeDci0
<1>28. CASE Dci0ForTempRnti
  <2>1. ours' \subseteq 1 .. rntis' /\ theirs' \subseteq 1 .. rntis' /\ rntis' = rntis
    BY <1>28, NewMsg3Values DEF Dci0ForTempRnti
  <2>2. QED
    BY <1>28, <2>1 DEF Dci0ForTempRnti
<1>29. QED
  BY <1>1, <1>2, <1>3, <1>4, <1>5, <1>6, <1>7, <1>8, <1>9, <1>10, <1>11, <1>12, <1>13, <1>14,
       <1>15, <1>16, <1>17, <1>18, <1>19, <1>20, <1>21, <1>22, <1>23, <1>24, <1>25, <1>26, <1>27,
       <1>28 DEF RaNext, StackThread, PhyWorkers

\* The flags stay Boolean.
LEMMA FlagsStep == FlagsOK /\ [RaNext]_raVars => FlagsOK'
<1> SUFFICES ASSUME FlagsOK, [RaNext]_raVars PROVE FlagsOK'
  OBVIOUS
<1> USE DEF FlagsOK, Cleared, MacReset, Msg3Flush, HoRaCompleted, Abandoned, ResponseError,
       Complete, StartMacOrder, Decode, Msg3Sent, NewMsg3, Msg3Get, Msg3Assembled,
       ContentionIdMatches, MayRetransmit, request, identity, msg3, harq, network, history, bounds
<1>1. CASE ConnectionRequest
  BY <1>1, ZenonT(60) DEF ConnectionRequest
<1>2. CASE StartForData
  BY <1>2, ZenonT(60) DEF StartForData
<1>3. CASE ResetByRrc
  BY <1>3, ZenonT(60) DEF ResetByRrc
<1>4. CASE HoPrepare
  BY <1>4, ZenonT(60) DEF HoPrepare
<1>5. CASE HoStart
  BY <1>5, ZenonT(60) DEF HoStart
<1>6. CASE HoFailed
  BY <1>6, ZenonT(60) DEF HoFailed
<1>7. CASE StatePdcchSetup
  BY <1>7, ZenonT(60) DEF StatePdcchSetup
<1>8. CASE StateBackoffWait
  BY <1>8, ZenonT(60) DEF StateBackoffWait
<1>9. CASE StateResponseReception
  BY <1>9, ZenonT(60) DEF StateResponseReception
<1>10. CASE StateContentionResolution
  BY <1>10, ZenonT(60) DEF StateContentionResolution
<1>11. CASE StateCompletition
  BY <1>11, ZenonT(60) DEF StateCompletition
<1>12. CASE ContentionTimerExpired
  BY <1>12, ZenonT(60) DEF ContentionTimerExpired
<1>13. CASE DecodeRar
  BY <1>13, ZenonT(60) DEF DecodeRar
<1>14. CASE DecodeMsg4
  BY <1>14, ZenonT(60) DEF DecodeMsg4
<1>15. CASE DecodeGrant
  BY <1>15, ZenonT(60) DEF DecodeGrant
<1>16. CASE RarForOthers
  BY <1>16, ZenonT(60) DEF RarForOthers
<1>17. CASE RarDecoded
  BY <1>17, ZenonT(60) DEF RarDecoded
<1>18. CASE ContentionResolutionIdReceived
  <2>1. CASE ContentionIdMatches
    BY <1>18, <2>1, ZenonT(180) DEF ContentionResolutionIdReceived
  <2>2. CASE ~ContentionIdMatches
    BY <1>18, <2>2, ZenonT(180) DEF ContentionResolutionIdReceived
  <2>3. QED
    BY <2>1, <2>2, Zenon
<1>19. CASE PdcchToCrnti
  BY <1>19, ZenonT(60) DEF PdcchToCrnti
<1>20. CASE Msg3Grant
  <2>1. msg3_pending' \in BOOLEAN /\ msg3_has_been_transmitted' \in BOOLEAN /\ ccch' \in BOOLEAN
    BY <1>20, ZenonT(120) DEF Msg3Grant
  <2>2. contention_timer' \in BOOLEAN
    BY <1>20, ZenonT(60) DEF Msg3Grant
  <2>3. QED
    BY <1>20, <2>1, <2>2, ZenonT(60) DEF Msg3Grant
<1>21. CASE Msg3Acknowledged
  BY <1>21, ZenonT(60) DEF Msg3Acknowledged
<1>22. CASE HarqRetx
  BY <1>22, ZenonT(60) DEF HarqRetx
<1>23. CASE HarqMaxRetx
  BY <1>23, ZenonT(60) DEF HarqMaxRetx
<1>24. CASE NotifyRaCompleted
  BY <1>24, ZenonT(60) DEF NotifyRaCompleted
<1>25. CASE OtherUeHeard
  BY <1>25, ZenonT(60) DEF OtherUeHeard
<1>26. CASE UNCHANGED raVars
  BY <1>26 DEF raVars
<1>27. CASE DecodeDci0
  BY <1>27, ZenonT(60) DEF DecodeDci0
<1>28. CASE Dci0ForTempRnti
  <2>1. msg3_pending' \in BOOLEAN /\ msg3_has_been_transmitted' \in BOOLEAN /\ ccch' \in BOOLEAN
    BY <1>28, ZenonT(120) DEF Dci0ForTempRnti
  <2>2. contention_timer' \in BOOLEAN
    BY <1>28, ZenonT(60) DEF Dci0ForTempRnti
  <2>3. QED
    BY <1>28, <2>1, <2>2, ZenonT(60) DEF Dci0ForTempRnti
<1>29. QED
  BY <1>1, <1>2, <1>3, <1>4, <1>5, <1>6, <1>7, <1>8, <1>9, <1>10, <1>11, <1>12, <1>13, <1>14,
       <1>15, <1>16, <1>17, <1>18, <1>19, <1>20, <1>21, <1>22, <1>23, <1>24, <1>25, <1>26, <1>27,
       <1>28 DEF RaNext, StackThread, PhyWorkers

\* The network does not give one RNTI to two UEs, whatever it hears.
LEMMA DisjointStep ==
    ASSUME ValuesOK, ours \cap theirs = {}, [RaNext]_raVars
    PROVE  (ours \cap theirs = {})'
<1> USE DEF ValuesOK, MacReset, Cleared, network
<1>1. CASE HoPrepare
  <2>1. rntis + 1 \notin theirs
    OBVIOUS
  <2>2. QED
    BY <1>1, <2>1 DEF HoPrepare
<1>2. CASE Msg3Grant
  BY <1>2 DEF Msg3Grant, NewMsg3, Msg3Sent
<1>3. CASE HarqRetx
  BY <1>3 DEF HarqRetx, Msg3Sent
<1>4. CASE OtherUeHeard
  BY <1>4 DEF OtherUeHeard
<1>5. CASE Dci0ForTempRnti
  BY <1>5 DEF Dci0ForTempRnti, NewMsg3, Msg3Sent
<1>6. CASE UNCHANGED <<ours, theirs>>
  BY <1>6
<1>7. \/ HoPrepare \/ Msg3Grant \/ HarqRetx \/ OtherUeHeard \/ Dci0ForTempRnti
      \/ UNCHANGED <<ours, theirs>>
  BY DEF RaNext, StackThread, PhyWorkers, raVars, ConnectionRequest, StartForData, ResetByRrc,
         HoStart, HoFailed, StatePdcchSetup, StateBackoffWait, StateResponseReception,
         StateContentionResolution, StateCompletition, ContentionTimerExpired, Decode, DecodeRar,
         DecodeMsg4, DecodeDci0, DecodeGrant, RarForOthers, RarDecoded,
         ContentionResolutionIdReceived, PdcchToCrnti, Msg3Acknowledged, HarqMaxRetx,
         NotifyRaCompleted
<1>8. QED
  BY <1>1, <1>2, <1>3, <1>4, <1>5, <1>6, <1>7

\* No handler of one thread disturbs what another thread relies on, unless it resets MAC while
\* that thread is between two steps.
LEMMA UndisturbedStep ==
    ASSUME ValuesOK, ~overtaken, Undisturbed, ours \cap theirs = {}, RaNext
    PROVE  overtaken' \/ Undisturbed'
<1> USE RaAssumption DEF ValuesOK, Undisturbed, TempRntiIsCurrent, CrntiTransmitted,
       CompletionUndisturbed, NoContention, Msg3OfTempRnti, Cleared, MacReset, Msg3Flush,
       HoRaCompleted, Abandoned, ResponseError, Complete, StartMacOrder, Decode, Msg3Sent,
       NewMsg3, Msg3Get, Msg3Assembled, ContentionIdMatches, MayRetransmit, request, identity, msg3,
       harq, network, history, bounds
<1>1. CASE ConnectionRequest
  BY <1>1, SMTT(40) DEF ConnectionRequest
<1>2. CASE StartForData
  BY <1>2, SMTT(40) DEF StartForData
<1>3. CASE ResetByRrc
  <2>1. overtaken' \/ (worker = "idle" /\ ~(completions > 0))
    BY <1>3, Zenon DEF ResetByRrc
  <2>2. contention_timer' = FALSE
    BY <1>3 DEF ResetByRrc
  <2>3. QED
    BY <1>3, <2>1, <2>2, SMTT(40) DEF ResetByRrc
<1>4. CASE HoPrepare
  <2>1. overtaken' \/ (worker = "idle" /\ ~(completions > 0))
    BY <1>4, Zenon DEF HoPrepare
  <2>2. contention_timer' = FALSE
    BY <1>4 DEF HoPrepare
  <2>3. QED
    BY <1>4, <2>1, <2>2, SMTT(40) DEF HoPrepare
<1>5. CASE HoStart
  BY <1>5, SMTT(40) DEF HoStart
<1>6. CASE HoFailed
  BY <1>6, SMTT(40) DEF HoFailed
<1>7. CASE StatePdcchSetup
  BY <1>7, SMTT(40) DEF StatePdcchSetup
<1>8. CASE StateBackoffWait
  BY <1>8, SMTT(40) DEF StateBackoffWait
<1>9. CASE StateResponseReception
  BY <1>9, SMTT(40) DEF StateResponseReception
<1>10. CASE StateContentionResolution
  BY <1>10, SMTT(40) DEF StateContentionResolution
<1>11. CASE StateCompletition
  BY <1>11, SMTT(40) DEF StateCompletition
<1>12. CASE ContentionTimerExpired
  BY <1>12, SMTT(40) DEF ContentionTimerExpired
<1>13. CASE DecodeRar
  BY <1>13, SMTT(40) DEF DecodeRar
<1>14. CASE DecodeMsg4
  BY <1>14, SMTT(40) DEF DecodeMsg4
<1>15. CASE DecodeGrant
  BY <1>15, SMTT(40) DEF DecodeGrant
<1>16. CASE RarForOthers
  BY <1>16, SMTT(40) DEF RarForOthers
<1>17. CASE RarDecoded
  BY <1>17, SMTT(40) DEF RarDecoded
<1>18. CASE ContentionResolutionIdReceived
  BY <1>18, SMTT(40) DEF ContentionResolutionIdReceived
<1>19. CASE PdcchToCrnti
  BY <1>19, SMTT(40) DEF PdcchToCrnti
<1>20. CASE Msg3Grant
  BY <1>20, SMTT(40) DEF Msg3Grant
<1>21. CASE Msg3Acknowledged
  <2>1. CASE contention_timer
    <3>1. contention_timer' = TRUE
      BY <1>21, <2>1, Zenon DEF Msg3Acknowledged
    <3>2. QED
      BY <1>21, <2>1, <3>1, SMTT(40) DEF Msg3Acknowledged
  <2>2. CASE ~contention_timer /\ harq_rnti = temp_rnti
    <3>2. QED
      BY <1>21, <2>2, SMTT(40) DEF Msg3Acknowledged
  <2>3. CASE ~contention_timer /\ harq_rnti # temp_rnti
    <3>1. contention_timer' = FALSE
      BY <1>21, <2>3, Zenon DEF Msg3Acknowledged
    <3>2. QED
      BY <1>21, <2>3, <3>1, SMTT(40) DEF Msg3Acknowledged
  <2>4. QED
    BY <2>1, <2>2, <2>3
<1>22. CASE HarqRetx
  BY <1>22, SMTT(40) DEF HarqRetx
<1>23. CASE HarqMaxRetx
  <2>1. ra_state = "CONTENTION_RESOLUTION"
    BY <1>23 DEF HarqMaxRetx
  <2>2. CASE crnti' = 0 /\ Cleared
    BY <1>23, <2>1, <2>2, SMTT(40) DEF HarqMaxRetx
  <2>3. CASE /\ crnti' = crnti /\ temp_rnti' = 0 /\ contention_timer' = contention_timer
             /\ ra_state' \in {"IDLE", "PDCCH_SETUP", "BACKOFF_WAIT"}
             /\ UNCHANGED <<msg3, pending_crnti_ce, overtaken>>
    BY <1>23, <2>1, <2>3, SMTT(40) DEF HarqMaxRetx
  <2>4. QED
    BY <1>23, <2>2, <2>3 DEF HarqMaxRetx
<1>24. CASE NotifyRaCompleted
  BY <1>24, SMTT(40) DEF NotifyRaCompleted
<1>25. CASE OtherUeHeard
  BY <1>25, SMTT(40) DEF OtherUeHeard
<1>26. CASE DecodeDci0
  BY <1>26, SMTT(40) DEF DecodeDci0
<1>27. CASE Dci0ForTempRnti
  BY <1>27, SMTT(40) DEF Dci0ForTempRnti
<1>28. QED
  BY <1>1, <1>2, <1>3, <1>4, <1>5, <1>6, <1>7, <1>8, <1>9, <1>10, <1>11, <1>12, <1>13, <1>14,
       <1>15, <1>16, <1>17, <1>18, <1>19, <1>20, <1>21, <1>22, <1>23, <1>24, <1>25, <1>26, <1>27
       DEF RaNext, StackThread, PhyWorkers

\* That a thread was overtaken is never forgotten.
LEMMA OvertakenStays == ASSUME overtaken, [RaNext]_raVars PROVE overtaken'
<1> USE DEF MacReset, Cleared, ResponseError, history, bounds
<1>1. CASE Cleared
  BY <1>1, Zenon
<1>2. CASE UNCHANGED overtaken
  BY <1>2, Zenon
<1>3. Cleared \/ UNCHANGED overtaken
  BY Zenon
     DEF RaNext, StackThread, PhyWorkers, raVars, ConnectionRequest, StartForData, ResetByRrc,
         HoPrepare, HoStart, HoFailed, StatePdcchSetup, StateBackoffWait, StateResponseReception,
         StateContentionResolution, StateCompletition, ContentionTimerExpired, Decode, DecodeRar,
         DecodeMsg4, DecodeDci0, DecodeGrant, RarForOthers, RarDecoded,
         ContentionResolutionIdReceived, PdcchToCrnti, Msg3Grant, Dci0ForTempRnti,
         Msg3Acknowledged, HarqRetx, HarqMaxRetx, NotifyRaCompleted, OtherUeHeard
<1>4. QED
  BY <1>1, <1>2, <1>3

-----------------------------------------------------------------------------
LEMMA RaIInvInit == RaInit => RaIInv
<1> SUFFICES ASSUME RaInit PROVE RaIInv
  OBVIOUS
<1>1. FlagsOK
  BY Zenon DEF RaInit, FlagsOK
<1>2. ValuesOK
  BY RaAssumption DEF RaInit, ValuesOK
<1>3. Undisturbed /\ ours \cap theirs = {}
  BY DEF RaInit, Undisturbed, TempRntiIsCurrent, CrntiTransmitted, CompletionUndisturbed,
         NoContention, Msg3OfTempRnti
<1>4. QED
  BY <1>1, <1>2, <1>3 DEF RaIInv, RaTypeOK

LEMMA RaIInvStep == RaIInv /\ [RaNext]_raVars => RaIInv'
<1> SUFFICES ASSUME RaIInv, [RaNext]_raVars PROVE RaIInv'
  OBVIOUS
<1>1. FlagsOK /\ ValuesOK /\ ours \cap theirs = {} /\ (overtaken \/ Undisturbed)
  BY DEF RaIInv, RaTypeOK
<1>2. FlagsOK' /\ ValuesOK'
  BY <1>1, FlagsStep, ValuesStep
<1>3. (ours \cap theirs = {})'
  BY <1>1, DisjointStep
<1>4. overtaken' \/ Undisturbed'
  <2>1. CASE overtaken
    BY <2>1, OvertakenStays
  <2>2. CASE ~overtaken /\ RaNext
    BY <1>1, <2>2, UndisturbedStep
  <2>3. CASE UNCHANGED raVars
    BY <1>1, <2>3, Zenon
       DEF raVars, Undisturbed, TempRntiIsCurrent, CrntiTransmitted, CompletionUndisturbed,
           NoContention, Msg3OfTempRnti
  <2>4. QED
    BY <2>1, <2>2, <2>3
<1>5. QED
  BY <1>2, <1>3, <1>4 DEF RaIInv, RaTypeOK

\* Every handler of ra_proc, mux, the HARQ process and mac keeps the inductive invariant.
THEOREM RaInvariant == RaSpec => []RaIInv
  BY RaIInvInit, RaIInvStep, PTL DEF RaSpec

\* The types of the random access: in particular one grant sends Msg3 at most MAX_MSG3_TX times as
\* long as its RNTI is the T-CRNTI, and PHICH takes it no further than MAX_HARQ_TX when complete()
\* has made that the C-RNTI; and the UE knows no RNTI that the network has not given away.
THEOREM RaTypeCorrect == RaSpec => []RaTypeOK
<1>1. RaIInv => RaTypeOK
  BY DEF RaIInv
<1>2. QED
  BY <1>1, RaInvariant, PTL

\* The C-RNTI that complete() makes of a T-CRNTI is never one that the network has given to the
\* other UE of a collision, for any number of preambles, handovers and resets.
THEOREM RntiCorrect == RaSpec => []RntiIsOurs
<1>1. RaIInv => RntiIsOurs
  BY DEF RaIInv, Undisturbed, RntiIsOurs
<1>2. QED
  BY <1>1, RaInvariant, PTL

\* The contention timer runs only for a Msg3 that has been sent and whose contention is open,
\* until harq_max_retx leaves it running.
THEOREM TimerCorrect == RaSpec => []TimerBelongsToMsg3
<1>1. RaIInv => TimerBelongsToMsg3
  BY DEF RaIInv, Undisturbed, TimerBelongsToMsg3
<1>2. QED
  BY <1>1, RaInvariant, PTL
=============================================================================
