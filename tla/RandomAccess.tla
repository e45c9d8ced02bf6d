---------------------------- MODULE RandomAccess ----------------------------
(***************************************************************************)
(* The random access procedure of the UE's MAC (ra_proc) with what it      *)
(* needs of its neighbours: the Msg3 buffer and the pending C-RNTI control *)
(* element of mux, the uplink HARQ process that carries Msg3, the RNTIs and*)
(* the reset of mac, and the handover of rrc.                              *)
(*                                                                         *)
(* Four threads call ra_proc and share its members without a lock: the     *)
(* stack thread (TTIs, timers, RRC), the PHY workers (what they decode),   *)
(* and a background thread that reports that the PHY has taken the C-RNTI. *)
(* The network is external: it numbers the RNTIs it gives away, may not    *)
(* hear what the UE sends, and may have heard another UE that sent the     *)
(* same preamble.                                                          *)
(***************************************************************************)
EXTENDS Naturals

CONSTANTS
    PREAMBLE_TRANS_MAX,  \* preambleTransMax
    MAX_MSG3_TX,         \* max_harq_msg3_tx
    MAX_HARQ_TX,         \* max_harq_tx
    MAX_RNTIS,           \* bound on the RNTIs the network gives away
    MAX_STARTS,          \* bound on the procedures started for data
    MAX_HANDOVERS,       \* bound on the handovers
    MAX_DISTURBANCES     \* bound on the resets without a handover and the DCI0 for a T-CRNTI

ASSUME RaAssumption ==
    /\ PREAMBLE_TRANS_MAX \in Nat \ {0}
    /\ MAX_MSG3_TX \in Nat \ {0}
    /\ {MAX_HARQ_TX, MAX_RNTIS, MAX_STARTS, MAX_HANDOVERS, MAX_DISTURBANCES} \subseteq Nat

VARIABLES
    ra_state,                     \* state
    ra_is_ho,
    dedicated,                    \* preambleIndex > 0: the network has chosen the preamble
    noncontention_enabled,
    preambleTransmissionCounter,
    backoff_param,                \* is backoff_param_ms not 0
    transmitted_crnti,
    transmitted_contention_id,    \* is it this UE's
    contention_timer,             \* is contention_resolution_timer running
    crnti, temp_rnti,             \* members of uernti, 0 when not set
    contention_id,                \* is uernti.contention_id set
    ccch,                         \* does RLC hold a CCCH SDU
    msg3_buff,                    \* what the buffer identifies the UE with, or "empty"
    msg3_pending, msg3_has_been_transmitted,
    pending_crnti_ce,
    rar_grant,                    \* T-CRNTI of the uplink grant that PHY took from a RAR, or 0
    harq_rnti,                    \* RNTI of the latest Msg3 whose PHICH is awaited, or 0
    current_tx_nb,                \* transmissions in its HARQ process
    worker,                       \* what a PHY worker has decoded and not yet passed on
    completions,                  \* tasks of wait_ra_completion under way
    ho_prepare,                   \* is the stack thread in ho_prepare
    handover,                     \* pending_mob_reconf, and what became of it
    ho_rnti,                      \* C-RNTI of the latest handover command
    rntis,                        \* external: RNTIs given away so far
    ours, theirs,                 \* external: which of them are this UE's, another UE's
    overtaken,                    \* history: has MAC been reset while a thread was in ra_proc
    exhausted,                    \* history: has Msg3 reached its last retransmission
    starts, handovers, disturbances

raVars == <<ra_state, ra_is_ho, dedicated, noncontention_enabled, preambleTransmissionCounter,
            backoff_param, transmitted_crnti, transmitted_contention_id, contention_timer, crnti,
            temp_rnti, contention_id, ccch, msg3_buff, msg3_pending, msg3_has_been_transmitted,
            pending_crnti_ce, rar_grant, harq_rnti, current_tx_nb, worker, completions, ho_prepare,
            handover, ho_rnti, rntis, ours, theirs, overtaken, exhausted, starts, handovers,
            disturbances>>

\* What a procedure is started with.
request  == <<ra_is_ho, dedicated, noncontention_enabled>>
identity == <<transmitted_crnti, transmitted_contention_id>>
msg3     == <<msg3_buff, msg3_pending, msg3_has_been_transmitted>>
harq     == <<harq_rnti, current_tx_nb>>
network  == <<rntis, ours, theirs>>
bounds   == <<starts, handovers, disturbances>>
history  == <<ho_rnti, overtaken, exhausted, bounds>>

RaInit ==
    /\ ra_state = "IDLE"
    /\ ra_is_ho = FALSE /\ dedicated = FALSE /\ noncontention_enabled = FALSE
    /\ preambleTransmissionCounter = 0 /\ backoff_param = FALSE
    /\ transmitted_crnti = 0 /\ transmitted_contention_id = FALSE
    /\ contention_timer = FALSE
    /\ crnti = 0 /\ temp_rnti = 0 /\ contention_id = FALSE
    /\ ccch = FALSE
    /\ msg3_buff = "empty" /\ msg3_pending = FALSE /\ msg3_has_been_transmitted = FALSE
    /\ pending_crnti_ce = 0
    /\ rar_grant = 0 /\ harq_rnti = 0 /\ current_tx_nb = 0
    /\ worker = "idle" /\ completions = 0
    /\ ho_prepare = FALSE /\ handover = "none" /\ ho_rnti = 0
    /\ rntis = 0 /\ ours = {} /\ theirs = {}
    /\ overtaken = FALSE /\ exhausted = FALSE
    /\ starts = 0 /\ handovers = 0 /\ disturbances = 0

-----------------------------------------------------------------------------
(***************************************************************************)
(* Parts of handlers.                                                      *)
(***************************************************************************)
Msg3Flush ==
    /\ msg3_buff' = "empty"
    /\ msg3_pending' = FALSE
    /\ msg3_has_been_transmitted' = FALSE

\* pdu_get into the buffer of Msg3.
Msg3Assembled ==
    /\ msg3_buff' = IF ccch THEN "ccch" ELSE IF pending_crnti_ce # 0 THEN "crnti" ELSE "nothing"
    /\ ccch' = FALSE /\ pending_crnti_ce' = 0
    /\ msg3_pending' = FALSE

\* Mutant: only a Msg3 that is assembled counts as transmitted, not one that is sent again.
Msg3GetFirst ==
    \/ msg3_buff = "empty" /\ Msg3Assembled /\ msg3_has_been_transmitted' = TRUE
    \/ msg3_buff # "empty" /\ UNCHANGED <<msg3, ccch, pending_crnti_ce>>

Msg3Get ==
    /\ \/ msg3_buff = "empty" /\ Msg3Assembled
       \/ msg3_buff # "empty" /\ UNCHANGED <<msg3_buff, msg3_pending, ccch, pending_crnti_ce>>
    /\ msg3_has_been_transmitted' = TRUE

\* HARQ tells when a transmission is done; whether the network decodes it is open, and so is
\* which of two UEs with the same T-CRNTI it has decoded.
Msg3Sent(content) ==
    \/ UNCHANGED network
    \/ /\ content = "ccch" /\ temp_rnti \notin theirs
       /\ ours' = ours \cup {temp_rnti}
       /\ UNCHANGED <<rntis, theirs>>

\* Mutant: only a success is told, as "T304 will expiry and send ho_failure".
HoRaSuccessTold(outcome) ==
    handover' = IF ra_is_ho /\ handover \in {"pending", "abandoned"} /\ outcome = "done"
                THEN outcome ELSE handover

\* rrc::ho_ra_completed.  That RRC has given the handover up does not clear pending_mob_reconf.
HoRaCompleted(outcome) ==
    handover' = IF ra_is_ho /\ handover \in {"pending", "abandoned"} THEN outcome ELSE handover

Abandoned == IF handover = "pending" THEN "abandoned" ELSE handover

\* 5.1.6
Complete ==
    /\ crnti' = IF transmitted_crnti = 0 THEN temp_rnti ELSE crnti
    /\ temp_rnti' = 0
    /\ Msg3Flush
    /\ HoRaCompleted("done")
    /\ ra_state' = "START_WAIT_COMPLETION"
    /\ UNCHANGED preambleTransmissionCounter

\* Mutant: ra_proc::reset does not stop the contention timer.
ClearedButTimer ==
    /\ ra_state' = "IDLE"
    /\ UNCHANGED contention_timer
    /\ Msg3Flush
    /\ pending_crnti_ce' = 0
    /\ harq_rnti' = 0 /\ current_tx_nb' = 0
    /\ temp_rnti' = 0 /\ contention_id' = FALSE
    /\ overtaken' = (overtaken \/ worker # "idle" \/ completions > 0)

\* mac::reset with the resets of ra_proc, mux and HARQ and clear_rntis, but for the C-RNTI.
Cleared ==
    /\ ra_state' = "IDLE"
    /\ contention_timer' = FALSE
    /\ Msg3Flush
    /\ pending_crnti_ce' = 0
    /\ harq_rnti' = 0 /\ current_tx_nb' = 0
    /\ temp_rnti' = 0 /\ contention_id' = FALSE
    /\ overtaken' = (overtaken \/ worker # "idle" \/ completions > 0)

\* timer, msg3_goes_on: what becomes of the contention timer and of the HARQ process of Msg3.
\* With the last preamble the UE tells RRC of a problem: RRC, when connected, resets MAC at once.
ResponseError(timer, msg3_goes_on) ==
    /\ preambleTransmissionCounter' = preambleTransmissionCounter + 1
    /\ \/ /\ preambleTransmissionCounter >= PREAMBLE_TRANS_MAX /\ crnti # 0
          /\ Cleared /\ crnti' = 0
          /\ IF ra_is_ho THEN HoRaCompleted("failed") ELSE handover' = Abandoned
       \/ /\ IF preambleTransmissionCounter >= PREAMBLE_TRANS_MAX
             THEN ra_state' = "IDLE" /\ HoRaCompleted("failed")
             ELSE /\ \/ ra_state' = "PDCCH_SETUP"
                     \/ backoff_param /\ ra_state' = "BACKOFF_WAIT"
                  /\ UNCHANGED handover
          /\ temp_rnti' = 0
          /\ contention_timer' = timer
          /\ harq_rnti' = IF msg3_goes_on THEN harq_rnti ELSE 0
          /\ current_tx_nb' = IF msg3_goes_on THEN current_tx_nb ELSE 0
          /\ UNCHANGED <<crnti, contention_id, msg3, pending_crnti_ce, overtaken>>

\* is_ho: for a handover; enabled: noncontention_enabled when the procedure reads it.
StartMacOrder(is_ho, enabled) ==
    \/ /\ ra_state = "IDLE"
       /\ ra_is_ho' = is_ho
       /\ dedicated' = enabled /\ noncontention_enabled' = FALSE
       /\ transmitted_contention_id' = FALSE
       /\ preambleTransmissionCounter' = 1
       /\ Msg3Flush
       /\ backoff_param' = FALSE
       /\ ra_state' = "PDCCH_SETUP"
    \/ /\ ra_state # "IDLE"
       /\ noncontention_enabled' = enabled
       /\ UNCHANGED <<ra_is_ho, dedicated, transmitted_contention_id, msg3, backoff_param,
                      preambleTransmissionCounter, ra_state>>

\* The reset as a step of the stack thread.
MacReset ==
    /\ Cleared
    /\ UNCHANGED <<request, preambleTransmissionCounter, backoff_param, identity, ccch, rar_grant,
                   worker, completions, theirs, exhausted, starts>>

-----------------------------------------------------------------------------
(***************************************************************************)
(* The stack thread, which does nothing else while it is in ho_prepare.    *)
(***************************************************************************)
\* send_con_request: RRC gives MAC the identity and RLC the SDU.
ConnectionRequest ==
    /\ ~ho_prepare /\ crnti = 0 /\ ~contention_id
    /\ contention_id' = TRUE
    /\ ccch' = TRUE
    /\ UNCHANGED <<ra_state, request, preambleTransmissionCounter, backoff_param, identity,
                   contention_timer, crnti, temp_rnti, msg3, pending_crnti_ce, rar_grant, harq,
                   worker, completions, ho_prepare, handover, network, history>>

\* run_tti, when no scheduling request can be sent for the data.
StartForData ==
    /\ ~ho_prepare /\ (ccch \/ crnti # 0)
    /\ starts < MAX_STARTS
    /\ starts' = starts + 1
    /\ StartMacOrder(FALSE, noncontention_enabled)
    /\ UNCHANGED <<transmitted_crnti, contention_timer, crnti, temp_rnti, contention_id, ccch,
                   pending_crnti_ce, rar_grant, harq, worker, completions, ho_prepare, handover,
                   network, ho_rnti, overtaken, exhausted, handovers, disturbances>>

\* step(), in the states in which it only changes the state.
StatePdcchSetup ==
    /\ ~ho_prepare /\ ra_state = "PDCCH_SETUP"
    /\ ra_state' = "RESPONSE_RECEPTION"
    /\ UNCHANGED <<request, preambleTransmissionCounter, backoff_param, identity, contention_timer,
                   crnti, temp_rnti, contention_id, ccch, msg3, pending_crnti_ce, rar_grant, harq,
                   worker, completions, ho_prepare, handover, network, history>>

StateBackoffWait ==
    /\ ~ho_prepare /\ ra_state = "BACKOFF_WAIT"
    /\ ra_state' = "PDCCH_SETUP"
    /\ UNCHANGED <<request, preambleTransmissionCounter, backoff_param, identity, contention_timer,
                   crnti, temp_rnti, contention_id, ccch, msg3, pending_crnti_ce, rar_grant, harq,
                   worker, completions, ho_prepare, handover, network, history>>

\* The response window is over.
StateResponseReception ==
    /\ ~ho_prepare /\ ra_state = "RESPONSE_RECEPTION"
    /\ ResponseError(contention_timer, TRUE)
    /\ UNCHANGED <<request, backoff_param, identity, ccch, rar_grant, worker, completions,
                   ho_prepare, network, ho_rnti, exhausted, bounds>>

StateContentionResolution ==
    /\ ~ho_prepare /\ ra_state = "CONTENTION_RESOLUTION"
    /\ msg3_has_been_transmitted /\ ~contention_timer
    /\ contention_timer' = TRUE
    /\ UNCHANGED <<ra_state, request, preambleTransmissionCounter, backoff_param, identity, crnti,
                   temp_rnti, contention_id, ccch, msg3, pending_crnti_ce, rar_grant, harq, worker,
                   completions, ho_prepare, handover, network, history>>

StateCompletition ==
    /\ ~ho_prepare /\ ra_state = "START_WAIT_COMPLETION"
    /\ ra_state' = "WAITING_COMPLETION"
    /\ completions' = completions + 1
    /\ UNCHANGED <<request, preambleTransmissionCounter, backoff_param, identity, contention_timer,
                   crnti, temp_rnti, contention_id, ccch, msg3, pending_crnti_ce, rar_grant, harq,
                   worker, ho_prepare, handover, network, history>>

ContentionTimerExpired ==
    /\ ~ho_prepare /\ contention_timer
    /\ ResponseError(FALSE, TRUE)
    /\ UNCHANGED <<request, backoff_param, identity, ccch, rar_grant, worker, completions,
                   ho_prepare, network, ho_rnti, exhausted, bounds>>

\* RRC resets MAC: radio link failure, T300 or T304 expired, connection released.  A handover
\* that was under way is given up.
ResetByRrc ==
    /\ ~ho_prepare /\ disturbances < MAX_DISTURBANCES
    /\ disturbances' = disturbances + 1
    /\ MacReset
    /\ crnti' = 0
    /\ handover' = Abandoned
    /\ UNCHANGED <<ho_prepare, ho_rnti, handovers, rntis, ours>>

\* ho_prepare, up to the selection of the target cell.
HoPrepare ==
    /\ ~ho_prepare /\ crnti # 0 /\ handover # "pending"
    /\ handovers < MAX_HANDOVERS /\ rntis < MAX_RNTIS
    /\ handovers' = handovers + 1
    /\ MacReset
    /\ rntis' = rntis + 1 /\ ours' = ours \cup {rntis'}
    /\ crnti' = rntis' /\ ho_rnti' = rntis'
    /\ ho_prepare' = TRUE
    /\ handover' = "pending"
    /\ UNCHANGED disturbances

\* The target cell cannot be selected: RRC re-establishes the connection, which resets MAC.
HoFailed ==
    /\ ho_prepare
    /\ MacReset
    /\ crnti' = 0
    /\ ho_prepare' = FALSE
    /\ handover' = Abandoned
    /\ UNCHANGED <<ho_rnti, handovers, disturbances, rntis, ours>>

\* The target cell is selected; has the command a dedicated preamble?
HoStart ==
    /\ ho_prepare
    /\ ho_prepare' = FALSE
    /\ \/ StartMacOrder(TRUE, TRUE)
       \/ StartMacOrder(TRUE, noncontention_enabled)
    /\ UNCHANGED <<transmitted_crnti, contention_timer, crnti, temp_rnti, contention_id, ccch,
                   pending_crnti_ce, rar_grant, harq, worker, completions, handover, network,
                   history>>

-----------------------------------------------------------------------------
(***************************************************************************)
(* The PHY workers.  One that has decoded something looks at ra_proc       *)
(* (Decode...) and then calls it (the action after); the other threads go  *)
(* on in between.                                                          *)
(***************************************************************************)
Decode(what) ==
    /\ worker = "idle"
    /\ worker' = what
    /\ UNCHANGED <<ra_state, request, preambleTransmissionCounter, backoff_param, identity,
                   contention_timer, crnti, temp_rnti, contention_id, ccch, msg3, pending_crnti_ce,
                   rar_grant, harq, completions, ho_prepare, handover, network, history>>

\* MAC looks for the RA-RNTI in the response window.
DecodeRar == ra_state = "RESPONSE_RECEPTION" /\ Decode("rar")

\* A downlink grant for the T-CRNTI with a contention resolution identity.
DecodeMsg4 ==
    /\ crnti = 0 /\ temp_rnti # 0
    /\ \/ temp_rnti \in ours /\ Decode("our_msg4")
       \/ temp_rnti \in theirs /\ Decode("their_msg4")

\* DCI0, an uplink grant for the T-CRNTI (get_ul_sched_rnti), in the HARQ process of Msg3.
DecodeDci0 ==
    /\ crnti = 0 /\ temp_rnti # 0 /\ rar_grant # temp_rnti
    /\ disturbances < MAX_DISTURBANCES
    /\ Decode("dci0")

\* An uplink grant for the C-RNTI.
DecodeGrant ==
    /\ ra_state = "CONTENTION_RESOLUTION" /\ crnti \in ours
    /\ Decode("grant")

\* A RAR for other preambles only.
RarForOthers ==
    /\ worker = "rar"
    /\ worker' = "idle"
    /\ backoff_param' \in BOOLEAN
    /\ UNCHANGED <<ra_state, request, preambleTransmissionCounter, identity, contention_timer,
                   crnti, temp_rnti, contention_id, ccch, msg3, pending_crnti_ce, rar_grant, harq,
                   completions, ho_prepare, handover, network, history>>

\* A RAR for sel_preamble.
RarDecoded ==
    /\ worker = "rar" /\ rntis < MAX_RNTIS
    /\ worker' = "idle"
    /\ backoff_param' \in BOOLEAN
    /\ rntis' = rntis + 1
    /\ rar_grant' = rntis'
    /\ IF dedicated
       THEN Complete /\ UNCHANGED <<identity, pending_crnti_ce>>
       ELSE /\ msg3_has_been_transmitted' = FALSE /\ msg3_pending' = TRUE
            /\ temp_rnti' = rntis'
            /\ IF msg3_buff = "empty"
               THEN /\ transmitted_crnti' = crnti
                    /\ pending_crnti_ce' = IF crnti # 0 THEN crnti ELSE pending_crnti_ce
               ELSE UNCHANGED <<transmitted_crnti, pending_crnti_ce>>
            /\ transmitted_contention_id' = contention_id
            /\ ra_state' = "CONTENTION_RESOLUTION"
            /\ UNCHANGED <<crnti, msg3_buff, handover, preambleTransmissionCounter>>
    /\ UNCHANGED <<request, contention_timer, contention_id, ccch, harq, completions, ho_prepare,
                   ours, theirs, history>>

\* Mutant: any contention resolution identity will do.
AnyContentionId == transmitted_contention_id

ContentionIdMatches == worker = "our_msg4" /\ transmitted_contention_id

\* Msg4: "UE Contention Resolution ID included in MAC CE matches the CCCH SDU transmitted in Msg3"
ContentionResolutionIdReceived ==
    /\ worker \in {"our_msg4", "their_msg4"}
    /\ worker' = "idle"
    /\ IF ContentionIdMatches
       THEN /\ contention_timer' = FALSE
            /\ Complete
            /\ UNCHANGED <<contention_id, pending_crnti_ce, harq, overtaken>>
       ELSE ResponseError(FALSE, TRUE)
    /\ UNCHANGED <<request, backoff_param, identity, ccch, rar_grant, completions, ho_prepare,
                   network, ho_rnti, exhausted, bounds>>

\* pdcch_to_crnti, and pdu_get for the new transmission: it takes what waits for a MAC PDU.  The
\* grant may be for the HARQ process of Msg3, which is reset then, or for another one.
PdcchToCrnti ==
    /\ worker = "grant"
    /\ worker' = "idle"
    /\ contention_timer' = FALSE
    /\ Complete
    /\ ccch' = FALSE /\ pending_crnti_ce' = 0
    /\ \/ UNCHANGED harq
       \/ harq_rnti' = 0 /\ current_tx_nb' = 0
    /\ UNCHANGED <<request, backoff_param, identity, contention_id, rar_grant, completions,
                   ho_prepare, network, history>>

\* A grant for the T-CRNTI (grant_is_rar) is always a new transmission: the HARQ process is
\* reset, and sends Msg3 if one is pending.
NewMsg3 ==
    \/ /\ msg3_pending
       /\ Msg3Get
       /\ harq_rnti' = temp_rnti /\ current_tx_nb' = 1
       /\ Msg3Sent(msg3_buff')
    \/ /\ ~msg3_pending
       /\ harq_rnti' = 0 /\ current_tx_nb' = 0
       /\ UNCHANGED <<ccch, msg3, pending_crnti_ce, network>>

\* The uplink grant of a RAR; MAC ignores it when it has dropped the T-CRNTI.  PHICH for an
\* earlier Msg3 may come with the grant, and is taken for this one's.
Msg3Grant ==
    /\ rar_grant # 0
    /\ rar_grant' = 0
    /\ \/ /\ rar_grant = temp_rnti
          /\ NewMsg3
          /\ \/ UNCHANGED contention_timer
             \/ harq_rnti # 0 /\ contention_timer' = TRUE
       \/ /\ rar_grant # temp_rnti
          /\ UNCHANGED <<contention_timer, ccch, msg3, pending_crnti_ce, harq, network>>
    /\ UNCHANGED <<ra_state, request, preambleTransmissionCounter, backoff_param, identity, crnti,
                   temp_rnti, contention_id, worker, completions, ho_prepare, handover, history>>

\* DCI0: PHICH, if it is awaited, comes with it.
Dci0ForTempRnti ==
    /\ worker = "dci0"
    /\ worker' = "idle"
    /\ disturbances' = disturbances + 1
    /\ \/ /\ temp_rnti # 0
          /\ NewMsg3
          /\ contention_timer' = (contention_timer \/ harq_rnti = temp_rnti)
       \/ /\ temp_rnti = 0
          /\ UNCHANGED <<contention_timer, ccch, msg3, pending_crnti_ce, harq, network>>
    /\ UNCHANGED <<ra_state, request, preambleTransmissionCounter, backoff_param, identity, crnti,
                   temp_rnti, contention_id, rar_grant, completions, ho_prepare, handover, ho_rnti,
                   overtaken, exhausted, starts, handovers>>

\* PHICH for Msg3 that ends the transmission: an ACK; for an RNTI that MAC has dropped in the
\* meantime; or at the limit under the C-RNTI.
Msg3Acknowledged ==
    /\ harq_rnti # 0
    /\ harq_rnti' = 0 /\ current_tx_nb' = 0
    /\ contention_timer' = (contention_timer \/ harq_rnti = temp_rnti)
    /\ UNCHANGED <<ra_state, request, preambleTransmissionCounter, backoff_param, identity, crnti,
                   temp_rnti, contention_id, ccch, msg3, pending_crnti_ce, rar_grant, worker,
                   completions, ho_prepare, handover, network, history>>

\* Mutant: one transmission too many.
MayRetransmitOnce(max_retx) == current_tx_nb <= max_retx

MayRetransmit(max_retx) == current_tx_nb < max_retx

\* A NACK.  complete() may have made the T-CRNTI the C-RNTI: Msg3 goes on, up to the limit of any
\* other transmission, but it is nothing to ra_proc any more, and the network knows the UE.
HarqRetx ==
    /\ harq_rnti # 0
    /\ current_tx_nb' = current_tx_nb + 1
    /\ \/ /\ harq_rnti = temp_rnti /\ MayRetransmit(MAX_MSG3_TX)
          /\ contention_timer' = TRUE
          /\ Msg3Sent(msg3_buff)
       \/ /\ harq_rnti # temp_rnti /\ harq_rnti = crnti /\ MayRetransmit(MAX_HARQ_TX)
          /\ UNCHANGED <<contention_timer, network>>
    /\ UNCHANGED <<ra_state, request, preambleTransmissionCounter, backoff_param, identity, crnti,
                   temp_rnti, contention_id, ccch, msg3, pending_crnti_ce, rar_grant, harq_rnti,
                   worker, completions, ho_prepare, handover, history>>

\* A NACK at the limit, alone or with a grant, whose RNTI response_error then drops.
HarqMaxRetx ==
    /\ harq_rnti # 0 /\ ~MayRetransmit(MAX_MSG3_TX)
    /\ \/ harq_rnti = temp_rnti /\ UNCHANGED rar_grant
       \/ rar_grant # 0 /\ rar_grant = temp_rnti /\ rar_grant' = 0
    /\ ResponseError(contention_timer, FALSE)
    /\ exhausted' = TRUE
    /\ UNCHANGED <<request, backoff_param, identity, ccch, worker, completions, ho_prepare, network,
                   ho_rnti, bounds>>

-----------------------------------------------------------------------------
(***************************************************************************)
(* The background thread, and the network.                                 *)
(***************************************************************************)
NotifyRaCompleted ==
    /\ completions > 0
    /\ completions' = completions - 1
    /\ ra_state' = "IDLE"
    /\ UNCHANGED <<request, preambleTransmissionCounter, backoff_param, identity, contention_timer,
                   crnti, temp_rnti, contention_id, ccch, msg3, pending_crnti_ce, rar_grant, harq,
                   worker, ho_prepare, handover, network, history>>

\* The network has heard the other UE that sent the same preamble.
OtherUeHeard ==
    /\ temp_rnti # 0 /\ temp_rnti \notin ours \cup theirs
    /\ theirs' = theirs \cup {temp_rnti}
    /\ UNCHANGED <<ra_state, request, preambleTransmissionCounter, backoff_param, identity,
                   contention_timer, crnti, temp_rnti, contention_id, ccch, msg3, pending_crnti_ce,
                   rar_grant, harq, worker, completions, ho_prepare, handover, rntis, ours, history>>

StackThread ==
    \/ ConnectionRequest \/ StartForData \/ ResetByRrc \/ HoPrepare
    \/ HoStart \/ HoFailed
    \/ StatePdcchSetup \/ StateBackoffWait \/ StateResponseReception
    \/ StateContentionResolution \/ StateCompletition
    \/ ContentionTimerExpired

PhyWorkers ==
    \/ DecodeRar \/ DecodeMsg4 \/ DecodeDci0 \/ DecodeGrant
    \/ RarForOthers \/ RarDecoded \/ ContentionResolutionIdReceived \/ PdcchToCrnti
    \/ Msg3Grant \/ Dci0ForTempRnti \/ Msg3Acknowledged \/ HarqRetx \/ HarqMaxRetx

RaNext == StackThread \/ PhyWorkers \/ NotifyRaCompleted \/ OtherUeHeard

RaSpec == RaInit /\ [][RaNext]_raVars

(***************************************************************************)
(* TTIs and timers go on, the PHY sends the preamble, a worker passes on   *)
(* what it has decoded, a grant from a RAR is used, the background thread  *)
(* does its tasks.  The network need not answer.  That the contention timer*)
(* expires although each PHICH and DCI0 for Msg3 restarts it is fair only  *)
(* because these are bounded (MAX_MSG3_TX, MAX_DISTURBANCES).              *)
(***************************************************************************)
RaFairness ==
    /\ WF_raVars(StatePdcchSetup \/ StateBackoffWait \/ StateResponseReception
                   \/ StateContentionResolution \/ StateCompletition)
    /\ WF_raVars(ContentionTimerExpired)
    /\ WF_raVars(HoStart \/ HoFailed)
    /\ WF_raVars(RarForOthers \/ RarDecoded \/ ContentionResolutionIdReceived \/ PdcchToCrnti
                   \/ Dci0ForTempRnti)
    /\ WF_raVars(Msg3Grant)
    /\ WF_raVars(NotifyRaCompleted)

-----------------------------------------------------------------------------
STATES == {"IDLE", "PDCCH_SETUP", "RESPONSE_RECEPTION", "BACKOFF_WAIT", "CONTENTION_RESOLUTION",
           "START_WAIT_COMPLETION", "WAITING_COMPLETION"}

FlagsOK ==
    /\ ra_is_ho \in BOOLEAN /\ dedicated \in BOOLEAN /\ noncontention_enabled \in BOOLEAN
    /\ backoff_param \in BOOLEAN /\ transmitted_contention_id \in BOOLEAN
    /\ contention_timer \in BOOLEAN /\ contention_id \in BOOLEAN /\ ccch \in BOOLEAN
    /\ msg3_pending \in BOOLEAN /\ msg3_has_been_transmitted \in BOOLEAN
    /\ ho_prepare \in BOOLEAN /\ overtaken \in BOOLEAN /\ exhausted \in BOOLEAN

ValuesOK ==
    /\ ra_state \in STATES
    /\ preambleTransmissionCounter \in Nat
    /\ transmitted_crnti \in 0 .. rntis /\ pending_crnti_ce \in 0 .. rntis
    /\ crnti \in 0 .. rntis /\ temp_rnti \in 0 .. rntis
    /\ msg3_buff \in {"empty", "ccch", "crnti", "nothing"}
    /\ rar_grant \in 0 .. rntis
    /\ harq_rnti \in 0 .. rntis /\ current_tx_nb \in Nat
    /\ harq_rnti # 0 => \/ current_tx_nb <= MAX_MSG3_TX
                        \/ harq_rnti # temp_rnti /\ current_tx_nb <= MAX_HARQ_TX
    /\ worker \in {"idle", "rar", "our_msg4", "their_msg4", "dci0", "grant"}
    /\ completions \in Nat
    /\ handover \in {"none", "pending", "done", "failed", "abandoned"}
    /\ ho_rnti \in 0 .. rntis
    /\ rntis \in Nat /\ ours \subseteq 1 .. rntis /\ theirs \subseteq 1 .. rntis
    /\ starts \in Nat /\ handovers \in Nat /\ disturbances \in Nat

(***************************************************************************)
(* Type invariant.  As long as a Msg3 belongs to the attempt that is going *)
(* on, one grant sends it at most max_harq_msg3_tx times; when complete()  *)
(* has made its T-CRNTI the C-RNTI, PHICH can take it up to max_harq_tx,   *)
(* the limit of any other transmission (new_grant_ul).                     *)
(***************************************************************************)
RaTypeOK == FlagsOK /\ ValuesOK

(***************************************************************************)
(* complete() makes the T-CRNTI the C-RNTI: the UE never takes one that    *)
(* the network has given to the other UE of a collision, and never one     *)
(* under which the network has not heard it.  It is not said of a UE whose *)
(* MAC was reset between two steps of another thread: notify_ra_completed  *)
(* can then leave a T-CRNTI behind.                                        *)
(***************************************************************************)
RntiIsOurs == crnti # 0 /\ ~overtaken => crnti \in ours \ theirs

(***************************************************************************)
(* "Once Msg3 is transmitted, start contention resolution timer": while it *)
(* runs, a Msg3 of this attempt has been sent and its contention is open.  *)
(* Only harq_max_retx leaves the timer running, and a reset between two    *)
(* steps of another thread.                                                *)
(***************************************************************************)
TimerBelongsToMsg3 ==
    contention_timer /\ ~exhausted /\ ~overtaken =>
        ra_state = "CONTENTION_RESOLUTION" /\ msg3_has_been_transmitted

(***************************************************************************)
(* The procedure ends, whether the network answers or not: every state of  *)
(* ra_proc is left by an answer, a timer, the response window or the       *)
(* background thread, and the number of preambles is limited.  The network *)
(* can put the end off with DCI0 for the T-CRNTI, each of which restarts   *)
(* Msg3 and, with its PHICH, the contention timer; it does so finitely     *)
(* often (MAX_DISTURBANCES), or else only T300 of RRC ends the procedure.  *)
(***************************************************************************)
RandomAccessEnds == ra_state # "IDLE" ~> ra_state = "IDLE"

(***************************************************************************)
(* RRC learns how the random access of a handover ended (ho_ra_completed). *)
(* It need not when mac::reset came between two steps of another thread:   *)
(* notify_ra_completed then ends the procedure of the handover, and        *)
(* complete() lets start_mac_order refuse it.                              *)
(***************************************************************************)
HandoverAnswered == handover = "pending" ~> handover # "pending" \/ overtaken

(***************************************************************************)
(* "We check that the procedure is considered successful without waiting   *)
(* for contention", and that the C-RNTI is the handover's (mac_test.cc).   *)
(***************************************************************************)
HandoverKeepsRnti == handover = "done" => crnti = ho_rnti
=============================================================================
