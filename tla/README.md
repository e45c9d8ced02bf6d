# TLA+ models of nukxURLLC-fix

The repository is srsLTE (an LTE UE, eNB and EPC) with additions for reliable low-latency traffic:
a master eNB splits or duplicates a downlink data bearer over itself and a slave eNB (over an
X2-like UDP socket), and two UEs on one host merge the two legs again (over a Unix datagram
socket). This directory holds TLA+ modules of the parts that carry that traffic, the TLC
configurations that check them on small instances, and proofs of what can be said for all
instances. Paths below are relative to `src/`.

## 1. Inventory

### 1.1 Components, their state and how they interact

| Component | Source | State | Operations |
|---|---|---|---|
| RLC AM transmitter | `lib/src/upper/rlc_am_lte.cc` (`rlc_am_lte_tx`) | `vt_a`, `vt_s`, `tx_sdu`, `tx_sdu_queue`, `tx_window`, `retx_queue`, poll counters, `poll_retx_timer`, `status_prohibit_timer` | `write_sdu`, `read_pdu` (status, retransmission whole or in segments, new data), `handle_control_pdu`, `timer_expired`, `get_buffer_state`, `reestablish` |
| RLC AM receiver | same file (`rlc_am_lte_rx`) | `vr_r`, `vr_mr`, `vr_x`, `vr_ms`, `vr_h`, `rx_window`, `rx_segments`, `poll_received`, `do_status`, `reordering_timer` | `write_pdu` (data, segment), `reassemble_rx_sdus`, `timer_expired`, `get_status_pdu`, `reset_status`, `reestablish` |
| RLC UM (LTE) | `rlc_um_lte.cc`, `rlc_um_base.cc` | `vt_us`, `tx_sdu`, `tx_sdu_queue`; `vr_ur`, `vr_ux`, `vr_uh`, `rx_window`, `rx_sdu`, `vr_ur_in_rx_sdu`, `pdu_lost`, `reordering_timer` | `write_sdu`, `build_data_pdu`; `handle_data_pdu`, `reassemble_rx_sdus`, `timer_expired`, `reestablish` |
| RLC TM, NR | `rlc_tm.cc`, `rlc_um_nr.cc`, `rlc_am_nr.cc` | a queue (TM) | |
| RLC router | `lib/src/upper/rlc.cc` | lcid -> entity under a read-write lock | add, delete, suspend, resume a bearer; forward |
| eNB RLC with the split | `srsenb/src/stack/upper/rlc.cc` | RNTI -> router; `split_mode`, `duplication_mode`, the two ratios, `split_count`, loss rates, `cp_rnti`, `cp_lcid`, the X2 socket | `write_sdu` (decide path and loss, send), `run_thread` (slave: socket to RLC), setters called by the operator |
| PDCP LTE entity | `lib/src/upper/pdcp_entity_lte.cc` | `tx_count`, `rx_hfn`, `next_pdcp_rx_sn`, `last_submitted_pdcp_rx_sn`, keys | `write_sdu`, `write_pdu` with one handler per kind of bearer, `reestablish` |
| PDCP router with aggregation | `lib/src/upper/pdcp.cc` | lcid -> entity, `cp_lcid`, the datagram socket | `write_pdu` (transmission UE: relay), `run_thread` (aggregation UE: socket to entity) |
| Timers | `lib/include/srslte/common/timers.h` | `timer_list` (duration, timeout, running, active), priority queue of runs, `cur_time` | `get_unique_timer`, `set`, `run`, `stop`, `clear`, `step_all` and its callbacks |
| Queues, thread pool | `common/multiqueue.h`, `block_queue.h`, `thread_pool.cc` | bounded queues under one mutex, `spin_idx`, `nof_threads_waiting`, `running`, three condition variables | `push`, `try_push`, `wait_pop`, `add_queue`, `erase_queue`, `reset` |
| UE MAC, random access | `srsue/src/stack/mac` (`proc_ra.cc`, `mux.cc`, `ul_harq.cc`, `mac.cc`) | `state`, `preambleTransmissionCounter`, `transmitted_crnti`, `transmitted_contention_id`, contention timer; `msg3_buff` and its flags, `pending_crnti_ce`; the HARQ process of Msg3; `uernti` | `start_mac_order`, `start_noncont`, `step`, `tb_decoded_ok`, `contention_resolution_id_received`, `pdcch_to_crnti`, `harq_retx`, `harq_max_retx`, `timer_expired`, `notify_ra_completed`, `mac::reset` |
| UE MAC, the rest | `srsue/src/stack/mac` | DL HARQ processes, SR, BSR and PHR procedures | TTI callbacks |
| eNB MAC and scheduler | `srsenb/src/stack/mac` | UEs, HARQ processes, buffer states | TTI callbacks |
| UE RRC, NAS, USIM, GW | `srsue/src/stack` | procedures, security context, routes | messages, timers |
| eNB RRC, PDCP, S1AP, GTP-U | `srsenb/src/stack` | users, bearers, tunnels | messages |
| EPC | `srsepc/src` | UE contexts, sessions | messages |
| PHY, ASN.1, ciphers, logging | `lib/src/phy`, `lib/src/asn1`, `lib/src/common` | | |

Downlink: GTP-U hands an SDU to the eNB's PDCP entity, which numbers and ciphers it and calls
`rlc::write_sdu`. There `decide_path` chooses the master's own RLC entity, the X2 socket, or both.
The slave's `run_thread` writes what it reads from X2 to its own RLC entity. MAC pulls PDUs out of
an RLC entity (`has_data`, `get_buffer_state`, `read_pdu`) on the PHY worker threads; arriving PDUs
(`write_pdu`) and timers run on the stack thread. On the UE side RLC calls `pdcp::write_pdu`; the
transmission UE relays the PDU to the aggregation UE, whose `run_thread` feeds it to the same PDCP
entity that its own RLC feeds.

Before that a UE gets its C-RNTI by random access. `ra_proc` runs on four kinds of threads: the stack
thread steps it every TTI and starts it for data or for a handover, PHY workers hand it what they
decode and what PHICH says of Msg3, and a background thread reports that PHY has taken the C-RNTI.
RRC resets MAC at any moment.

### 1.2 What is hard

- RLC AM: two windows that must agree although numbers wrap, PDUs and status PDUs are lost, cut to
  the grant, delayed or overtaken, retransmissions are split, and two timers race with late PDUs.
- Split: commands on the stdin thread write what `decide_path` reads on the stack thread, with no
  lock.
- Split bearer: the PDCP receiver rebuilds a 32-bit COUNT from 12 bits while two legs deliver in
  any order; a wrong guess is silent and, when it raises `rx_hfn`, permanent.
- RLC UM: the receiver reassembles SDUs across lost and late PDUs with a flag (`pdu_lost`) and a
  marker (`vr_ur_in_rx_sdu`) that outlive the PDU they were set for.
- Timers: a stopped or restarted timer leaves its old entry queued, callbacks change timers while
  `step_all` walks the queue, slots are reused.
- Queues: all notifications that matter are made after the mutex was released, and two kinds of
  waiters share one counter.
- Random access: members of `ra_proc` and `uernti` are shared by these threads without a lock; the
  Msg3 buffer, the contention timer, the HARQ process and the T-CRNTI belong to one attempt and are
  cleared in different places; another UE may have sent the same preamble.
- Downlink HARQ and the life cycle of bearers (not modelled).

`PROJECT.json` lists the hazards with their lines and the properties about them. Those that no
property covers yet: a poll that arrives between `get_status_pdu` and `reset_status` is forgotten
(`rlc_am_lte.cc:511`); one `split_count` serves all UEs and the slave forwards X2 PDUs to the bearer
that was added last (`srsenb/src/stack/upper/rlc.cc:595`, `:180`); `handle_um_drb_pdu` takes any lower
SN for a wrap (`pdcp_entity_lte.cc:205`); RLC starts its poll timer on a PHY thread and
`timer_handler` has no lock (`timers.h:107`), and its comparison of timeouts fails at the wrap of the
clock (`timers.h:223`); a downlink HARQ process that gets no buffer returns with its mutex locked
(`srsue/src/stack/mac/dl_harq.cc:315`).

### 1.3 What makes each component correct

- AM transmitter: `tx_window` is the contiguous range from `vt_a` to `vt_s`; retransmissions go
  first; nothing that was not received is dropped.
- AM receiver: `vr_r <= vr_ms <= vr_h <= vr_mr` around the window; only a missing PDU blocks
  delivery; every hole is timed or already reportable; `vr_ms` never goes back.
- AM link: in-order delivery without loss or duplication, everything delivered in the end.
- Split: later SDUs follow the settings the latest command left; the ratio is exact per cycle.
- PDCP: every PDU is deciphered with its own COUNT; each reaches the gateway once.
- UM bearer: PDCP gets whole SDUs, in order, each once; what is missing was lost.
- Timers: a stopped timer does not fire, a running one fires once, in its tick.
- Queues: order, capacity, no lost wake-up, turns, and `reset()` unblocks everybody.
- Random access: it ends whatever the network answers; the C-RNTI is one that the network gave to this
  UE and to no other; the timer belongs to the current Msg3; RRC learns how a handover's ended.

## 2. Modules

| Module | Models | Proofs about it |
|---|---|---|
| `RlcSn` | sequence-number arithmetic (`TX_MOD_BASE`, `RX_MOD_BASE`, walks over a window) | |
| `RlcAmTx` | `rlc_am_lte_tx` | |
| `RlcAmRx` | `rlc_am_lte_rx`, and `build_status_pdu` of the transmitter object |  |
| `RlcAmTxAnyPeer` | `RlcAmTx` with every status PDU arriving at any time | `RlcAmTx_proofs` |
| `RlcAmRxAnyPeer` | `RlcAmRx` with every data PDU arriving at any time | `RlcAmRx_proofs` |
| `RlcDelivery` | abstract specification: an in-order, loss-free bearer | |
| `RlcAmLink` | a transmitter and its peer's receiver with the channels between | `RlcAmLink_proofs` |
| `NukSplit` | `decide_path` and the commands, as unsynchronised threads | `NukDownlink_proofs` |
| `PdcpAm` | COUNT of the PDCP transmitter and `handle_am_drb_pdu` | |
| `NukBearer` | master, slave and aggregation UE around `PdcpAm` | `NukDownlink_proofs` |
| `NukDownlink` | `NukSplit`, `RlcAmTxAnyPeer` and `NukBearer` in one run | |
| `RlcUm` | `rlc_um_lte_tx`, the channel and `rlc_um_lte_rx` | `RlcUm_proofs` |
| `TimerService` | abstract specification: a timer calls back once, in its tick | |
| `Timers` | `timer_handler`, an implementation of `TimerService` | `Timers_proofs` |
| `MultiQueue` | `multiqueue_handler` and the threads that use it | `MultiQueue_proofs` |
| `Runtime` | `RlcUm`, `Timers` and `MultiQueue` in one run, with the fairness of the threads | |
| `RandomAccess` | `ra_proc` with the Msg3 buffer, its HARQ process, the RNTIs and `mac::reset`, and RRC's handover around it | `RandomAccess_proofs` |
| `Progress` | `RlcAmLink` and `RandomAccess` in one run, with their fairness | |

`RlcAmLink` composes `RlcAmTx` and `RlcAmRx` by extending both and conjoining each action with
UNCHANGED for the other side; `NukBearer` extends `PdcpAm` in the same way. `NukDownlink`,
`Runtime` and `Progress` each put parts that share no state into one run: `part` chooses one of them and the
others stay in their initial state. Interleaving them would multiply the states and add no
behaviour of any part, since none waits for another: the timer of `RlcUm` may expire whenever it
runs, and `Timers`, `NukBearer`, `RlcAmTxAnyPeer` and `RandomAccess` take any calls of their environment. Each module is the
module TLC checks: the constants are plain numbers and small sets, so the cfg files give them their
values and no wrapper is needed. Operators that come directly before a definition and are marked
`Mutant` are variants of it with a plausible bug; they show that the properties can fail and are
used nowhere else.

### 2.1 RLC AM

*State.* The variables carry the names of the members. A map (`tx_window`, `rx_window`,
`rx_segments`) is a function on the set of its keys. A PDU is its SN and the number `n` of its
payload; the bytes are left out, but the length is not: a PDU is two units long, so a
retransmission can be sent whole or as two segments. A NACK may ask for the whole PDU or for one unit
of it (`has_so`; `SEGMENT_NACKS` says which units). An SDU is the number of PDUs it takes, which
keeps the half-sent SDU (`tx_sdu`). A grant has one of four sizes, chosen so that each of the size
tests in `build_retx_pdu`, `build_segment` and `build_data_pdu` can go either way. `written`,
`sent` and `delivered` record history; they do not influence a step except as a bound.

*Actions.* `WriteSdu` is `write_sdu`; `ReadPdu` is `read_pdu` with the whole chain
`retransmit_random_pdu`, `build_retx_pdu` (which drops outdated entries first), `build_segment`,
`build_data_pdu`, including that `build_segment` updates the poll counter and timer before it finds
the grant too small and `read_pdu` then falls through to new data. `HandleControlPdu` is
`handle_control_pdu`; `PollRetxTimerExpired` is `timer_expired`. On the receiver `WritePdu` is
`write_pdu` down to `reassemble_rx_sdus`, for whole PDUs and segments; `ReorderingTimerExpired` is
`timer_expired`. A status PDU is built in two steps, `GetStatusPdu` and `ResetStatus`, because
`build_status_pdu` locks the receiver twice. `rand()` is a nondeterministic choice. Durations are
left out: a running timer may expire at any time.

*What status PDUs look like.* `ack_sn` is the highest SN received below `vr_ms` (or `vr_r`), not
the SN after it; holes above it are still in the list. The list is cut to the grant. This is what
`get_status_pdu` does and the model keeps it. It never asks for a part of a PDU; only a peer other than
this receiver does.

*Retransmissions first.* `RetxBeforeNewData` compares the queue before `read_pdu` with what is queued and
sent after it: whatever the grant, a retransmission that was due is still queued, or it is sent, or a
segment of it is sent and the rest is queued. In between, outdated entries before it are dropped, a PDU
of a full window may be scheduled, and the entry may be split and put back. The second half is about order: new data is sent only when no retransmission is left. A grant that holds a
new PDU but not the longer header of a segment ("data") is the exception the code makes:
`build_segment` fails and `read_pdu` goes on to `build_data_pdu`; the retransmission waits on (3.4).

*External parts.* MAC, PHY and HARQ appear in `RlcAmLink` only: two channels that may lose a PDU
and deliver out of order. `FAULTS` says which faults may come together; a behaviour has the faults
of one member of it (`faults`).

### 2.2 Split and PDCP

`NukSplit` has one program counter for `decide_path`, which takes one step per test of a shared
member, and separate steps for the read and the write of `split_count++`; a command is the list of
assignments the setter makes, one step each. The ghost variable `recent` records the latest
decisions that no command was in the way of.

`PdcpAm` keeps the members of `pdcp_entity_lte` and knows a PDU by the COUNT it was ciphered with,
of which the receiver sees the lower part. `gw` records the COUNTs of sending and of deciphering.
`NukBearer` sends each SDU over the legs in one of the sets of `PATHS`; each leg may lose it
(`decide_loss`, a full queue, a failed `sendto`). The master's leg is FIFO, which is what
`InOrderDelivery` of `RlcAmLink` establishes; the slave's leg has datagram sockets before and
behind its RLC entity and delivers in any order.

### 2.3 RLC UM

Here contents matter: an SDU is a sequence of units, each a record of its SDU, its place and whether
it is the last one, and a PDU is the list of the parts it carries with the two bits of framing info.
`BuildUmdPdu` is `build_data_pdu`: the rest of the half-sent SDU first, then SDUs from the queue
until the grant is used up; `last` and `used` say where the PDU ends. `HandleDataPdu` is
`handle_data_pdu` down to the timer. `reassemble_rx_sdus` works on a record of the members it
changes. Its two loops are functions of the round, `LowerEdges` for the numbers that have left the
reordering window and `InSequence` for those that are there; a number takes one round and there are
`MOD` of them, so neither loop is cut off. A round is `LowerEdgeStep` or `InSequenceStep`. The loop
over the length indicators within a round is in closed form: every segment but the last ends an SDU,
so `MiddleSegments` hands over all `Parts` of the PDU from the first one that is kept, which the
tests at `rlc_um_lte.cc:377` and `:390` decide once per PDU (`FirstKept`; `:479` in the other loop),
and `LastSegment` is what comes behind the loop in both. `Gap` is the check whether the PDU
continues `rx_sdu`. `UmTimerExpired` is
`timer_expired`, whose loop (`Skips`) reassembles after every number it skips. `UmReestablish` re-establishes
both ends: a running timer expires first and may be started again, the receiver goes back to 0, and
the transmitter keeps `vt_us`, as `rlc_um_base_tx::reestablish` does; PDUs that the receiver
then takes for old ones count as lost. `broken`, `um_highest`, `um_sent`, `um_written` and
`um_delivered` are history.

### 2.4 Timers

One slot of `timer_list` per timer with its four members, the priority queue as a multiset of
entries (id, timeout), `operator<` as `After`. The top of the heap is any entry that none comes
before. `step_all` is split at the callbacks: `Step` increments the clock, `PopIgnored` drops an
entry whose timeout is not the timer's any more, `Trigger` starts a callback, `CallbackReturns` pops
whatever is on top by then, `StepEnds`. User code (`Run`, `Set`, `Stop`, `Clear`,
`GetUniqueTimer`) runs between ticks and inside callbacks. `Service` maps a running timer to the
ticks it has left, and the run checks that every step of the handler is one of `TimerService`.

What the model does and no property asks for: a timer that is stopped in the tick in which it is
due keeps its timeout and reports itself expired (`stop()` clears `running` before it asks
`is_expired()`, `timers.h:114`); a new timer in the slot of one that had expired is expired from the
start (`clear()`, `timers.h:121`); and when the clock wraps after 49.7 days, `cur_time >= timeout`
fires timers early (`timers.h:223`). The constants of the run keep below the wrap.

### 2.5 Queues

A step is what a thread does between taking the mutex and releasing it; `push`, `wait_pop` and
`reset` notify after the unlock, so the notification is a step of its own (`NotifyEmpty`,
`NotifyFull`, `ResetNotifiesEmpty`, `ResetNotifiesFull`) and other threads may run in between. A
waiting thread is "blocked", then "woken" by a notification or spuriously, then takes the mutex
again. `nof_threads_waiting` counts it until then, as in the code, so `wait_pop` may notify
`cv_full` although only a stack thread is counted. `passed_over`, `accepted`, `taken`, `stranded`
are history.

Two weaknesses of the code show in the model and are left out of the properties by name.
`erase_queue` (`multiqueue.h:204`) empties a queue and notifies nobody, so a thread blocked in
`push` on it stays blocked until `reset()`: `stranded`. `reset()` itself gives up the mutex to
notify and takes it again before it waits on `cv_exit` (`multiqueue.h:70-77`): the thread it
unblocked may signal in between, and `reset()` then waits for a signal that was already given.
`ResetUnblocks` is about the other threads only.

### 2.6 Random access

The variables carry the names of the members; an RNTI is its number in the order in which the
network gives RNTIs away, 0 means none, as in the code. `Complete`, `ResponseError`, `StartMacOrder`
and `Cleared` are `complete`, `response_error` with the selection and sending of the next preamble,
`start_mac_order` with `initialization` and `read_params`, and `mac::reset`. With the last preamble
`response_error` tells RRC of a problem; when the UE is connected, RRC starts the re-establishment on
the same thread, which resets MAC before `response_error` goes on.

Msg3 is sent with the grant of a RAR (`Msg3Grant`) or of a DCI0 for the T-CRNTI (`Dci0ForTempRnti`).
For `new_grant_ul` both are `grant_is_rar`: a new transmission, for which the HARQ process is reset and
its count starts again (`NewMsg3`). When no Msg3 is pending, as after one RAR whose Msg3 was assembled,
that is all a DCI0 does; after a second RAR it sends the Msg3 of the buffer again. PHICH for
an earlier Msg3 comes with the grant or alone (`Msg3Acknowledged`, `HarqRetx`, `HarqMaxRetx`). It names
the RNTI of the transmission (`harq_rnti`). As long as this is the T-CRNTI, the limit is
`max_harq_msg3_tx` and `ra_proc` hears of it. When `complete()` has made it the C-RNTI, Msg3 goes on like
any transmission: up to `max_harq_tx`, and `ra_proc` hears nothing. An RNTI that is neither is unknown to
`new_grant_ul`. `RaTypeOK` has the bound of either case.

A PHY worker has two steps where it first looks and then calls: `DecodeRar` (MAC looks for a RAR in
the window), `DecodeMsg4` (a transport block for the T-CRNTI), `DecodeDci0` (`get_ul_sched_rnti` gives the
T-CRNTI), `DecodeGrant` (`is_contention_resolution`), each followed by the handler. In between the
stack thread and the background thread go on. One worker does this at a time. `ho_prepare` is two
steps, since selecting the cell takes time and the PHY goes on meanwhile: `HoPrepare` up to
`set_ho_rnti`, then `HoStart` or `HoFailed`. Inside a handler nothing interferes.

The network is external: it answers or not, `Msg3Sent` decides whether it decodes a Msg3 with a CCCH
SDU (`ours`), and `OtherUeHeard` that it decoded the one of another UE with the same T-CRNTI
(`theirs`). `overtaken` and `exhausted` are history: MAC was reset while another thread was between
two steps; Msg3 reached its last retransmission.

What the model does and the properties leave out by name. `harq_max_retx` (`proc_ra.cc:632`) ends the
attempt and leaves the contention timer running; the timer then ends a later attempt early, or its
expiry counts a preamble of a procedure that is over. `notify_ra_completed` (`proc_ra.cc:251`) sets
IDLE in any state, as its error message admits: after a reset and a new start it cuts the new
procedure off, and RRC hears nothing of a handover's. A worker that was on its way to `complete()`
when MAC was reset sets START_WAIT_COMPLETION, and `start_mac_order` refuses the handover's procedure.

## 3. Runs

| Run | Module, cfg | Properties | States | What it shows |
|---|---|---|---|---|
| `rlc_am_rx` | `RlcAmRxAnyPeer`, `RlcAmRx` | `RxTypeOK`, `RxWindowOrder`, `OnlyGapsBlock`, `GapIsTimed`, `VrMsMonotone` | 443 k | the receiver against any peer and channel |
| `nuk_downlink` | `NukDownlink`, `NukDownlink` | `SplitTypeOK`, `RatioKept`, `SettingsObeyed`; `TxTypeOK`, `TxWindowContiguous`, `RetxBeforeNewData`; `CountMatches`, `NextFollowsHighest` | 455 k | settings hold after any interleaving with commands; the AM transmitter against any peer, with NACKs of parts of a PDU; the COUNT is right through two wraps of the SN |
| `link_faults` | `RlcAmLink`, `LinkFaults` | `InOrderDelivery`, `AckedWasReceived`, `SnNamesOnePayload`, `DeliverySpec` | 2.7 M | loss, retransmission, segments, cut status PDUs, the status prohibit timer, re-establishment, and data PDUs that overtake one another: the link implements `RlcDelivery` |
| `progress` | `Progress`, `Progress` | `RaTypeOK`, `RntiIsOurs`, `TimerBelongsToMsg3`; `EverythingDelivered`; `RandomAccessEnds`, `HandoverAnswered` | 375 k | the link delivers everything when nothing is lost, with the status prohibit timer; random access ends, with the right C-RNTI, for initial access, data, handovers with and without a preamble of the network, collisions, resets and DCI0 for the T-CRNTI |
| `runtime` | `Runtime`, `Runtime` | `UmTypeOK`, `WholeSdus`, `SdusInOrder`, `UmGapIsTimed`, `LostBehindBroken`; `TypeOK`, `RunningIsQueued`, `ElapsedWithinDuration`, `FiredStaysExpired`, `FiresOnTime`; `QueuesTypeOK`, `NoItemForgotten`, `NoPlaceForgotten`, `RoundRobin`, `ItemsInOrder`, `EverythingHandled`, `ResetUnblocks` | 490 k | an unacknowledged bearer with loss, reordering and re-establishment; timers and their callbacks implement `TimerService`; three threads that push to two bounded queues, one that pops, erases and adds, and a `reset()` at any time |
| `link_stale_status` | `RlcAmLink`, `LinkStaleStatus` | `AckedWasReceived` | violated | finding 1 |
| `link_poll_forgotten` | `RlcAmLink`, `LinkPollForgotten` | `PollsAnswered` | violated | finding 2 |
| `link_tail_loss` | `RlcAmLink`, `LinkTailLoss` | `EverythingDelivered` | violated | finding 3 |
| `nuk_split_race` | `NukSplit`, `NukSplitRace` | `PathKnown` | violated | finding 4 |
| `nuk_bearer_duplicates` | `NukBearer`, `NukBearerDuplicates` | `GwGetsEachOnce` | violated | finding 5 |
| `um_intact_lost` | `RlcUm`, `UmIntactLost` | `OnlyLossLoses` | violated | finding 6 |
| `ra_handover_rnti` | `RandomAccess`, `HandoverRnti` | `HandoverKeepsRnti` | violated | finding 7 |

### 3.1 Bounds

- `WINDOW` 2 or 3 and `MOD = 2 * WINDOW` for 512 and 1024: the proportion that the window tests
  rest on is kept. The link runs send up to 5 PDUs through 4 numbers, so a number is used twice and
  the window wraps. `rlc_am_rx` delivers 4 with a window of 3, where two holes coexist and numbers
  on both sides of the wrap are in the window; `link_poll_forgotten` also has a window of 3.
- `DelayBounded`, in behaviours with the fault `reorder_dl`: a data PDU is not overtaken by a whole window of
  new ones. HARQ delays a PDU by some tens of milliseconds. Beyond that a number is ambiguous and no
  receiver could tell an old PDU from a new one.
- `MAX_DL`, `MAX_UL`, `MAX_LOSS`, `MAX_RETX_QUEUE`, `TX_QUEUE_LENGTH`: one or two of each. One loss
  is enough for every path of retransmission. `FAULTS` of `link_faults`: loss with re-establishment, or
  reordering; `MAX_RETX_QUEUE` is 1 there and 2 in the other link runs. `MAX_REORDERED`: 5 PDUs are
  written under loss and 4 under reordering there, so `vt_s` and `vr_r` wrap in both and a number is used
  twice under loss; `progress` uses numbers twice under reordering, with grants for whole PDUs.
- `PAYLOADS = {0}` in `rlc_am_rx`: payloads do not influence the receiver, they matter in the link
  runs only.
- `RlcUm`: a window of 4 and 8 numbers for 512 and 1024, SDUs of one or two units and PDUs of one or
  three, so a PDU is part of an SDU, ends one and starts the next, or holds three. 4 SDUs take up to 8
  PDUs, one is lost, two are under way in any order, and one re-establishment may come at any moment.
  `WithinWindow` keeps numbers unambiguous: less than a window of PDUs in a row is lost or late.
- `Timers`: two timers, durations 2 and 5 (5 is more than the largest allowed, 4), two ticks, and up
  to three different queued entries, two equal ones of each: every order of stop, restart, release
  and reuse around a tick in which both are due. `Timers_proofs` drops these bounds.
- `MultiQueue`: two pushers that share a queue with two places and a third with its own; each pushes
  twice, so the shared queue fills, a pusher blocks, and a woken one can find its place taken. One
  stack thread, as in the code.
- `NukSplit`: `U8` 8 stands for 256 in the ratio run and the entered ratios reach beyond it (8), so
  the cut to 8 bits happens; the race is shown with the real 256.
- `NukBearer`: 4 sequence numbers for 4096, a window of 2 for 2048, 10 PDUs: two wraps of the
  sequence number, and `MAX_COUNT` below `SN_MOD * HFN_MOD`, as the code's COUNT below 2^32.
  `SKEW = REORDERING_WINDOW` is the largest drift under which the receiver can be right: with one
  more, a late PDU and one ahead have the same sequence number and nothing tells them apart.
- `RlcAmTx` in `nuk_downlink`: `SEGMENT_NACKS = {0}`, so a status PDU may ask for a whole PDU or for
  its first unit, and both kinds and the rest of a split PDU are queued together. `MAX_RETX_THRESH` is 1,
  so the threshold is reached by the first retransmission and passed by the second. In the link runs
  `SEGMENT_NACKS` is empty, because the receiver of the repository never sends such NACKs.
- `RandomAccess`: two preambles and two transmissions of Msg3 (`MAX_MSG3_TX`), three of anything else
  (`MAX_HARQ_TX`), so each limit is reached after one success of the other kind, and Msg3 passes the
  first limit under the C-RNTI; three RNTIs, two procedures for data, one handover, and one
  disturbance (`MAX_DISTURBANCES`: a reset without a handover, or a DCI0 for the T-CRNTI):
  an initial access, a collision, a second RAR for the same Msg3, a DCI0 that sends it again and a
  handover that a reset overtakes all happen. `RandomAccess_proofs` drops these bounds. That one PHY worker is between two
  steps at a time stays.
- Deadlock is not checked in any run but `rlc_am_rx` and `nuk_split_race`: elsewhere the system
  stops when a bound (`MAX_PDUS`, `MAX_COUNT`, `MAX_SDUS`, `MAX_PUSHES`, `MAX_STARTS`) is used up and everything has
  arrived, or when `reset()` has ended. `EverythingHandled` and `ResetUnblocks` say what must not be
  waiting then.

### 3.2 Fairness

`Fairness` of `RlcAmLink`, in `FairSpec` and in `ProgressSpec`, has weak fairness of: a grant while `get_buffer_state` reports data (the
scheduler serves every reported buffer; `HasBufferState` is modelled from `get_buffer_state` with
its view of only the front of `retx_queue`); the arrival of the oldest data PDU and of the oldest
status PDU under way (HARQ gives up on or delivers each PDU, and the stack thread handles what MAC
hands it); the timers (`step_all` runs every TTI); a status
PDU that is due (the buffer state includes it) and its second half. `Submit`, losses and
re-establishment are not fair. `GRANTS = {"full"}` in the fair runs: the scheduler could otherwise
give grants too small for any PDU for ever.

`ThreadsScheduled` of `Runtime` has weak fairness of each thread of the queues: a thread that has
the mutex to take, or a notification to make, gets to do so (the operating system runs every thread
that can go on). A blocked thread need not wake by itself: spurious wake-ups are possible, not
fair. Nobody has to call `try_push`, `add_queue`, `erase_queue` or `reset`; once called, `reset`
goes on. `Push` is fair so that each pusher gets to its bound.

`RaFairness` has weak fairness of what the UE does by itself: `step` is called every TTI (the
`State...` actions; the response window and the backoff end, PHY sends the preamble), the contention
timer expires, `ho_prepare` goes on after the selection of the cell, a worker that has decoded
something calls the handler, PHY uses the grant of a RAR, and the background thread does its tasks.
The network owes nothing: no RAR, no PHICH, no Msg4 is fair, nor are requests and resets. It can keep
the procedure from ending in one way: after a second RAR, DCI0 for the T-CRNTI and a NACK of each Msg3,
over and over, restart the contention timer each time. The model bounds these grants
(`MAX_DISTURBANCES`); without a bound only T300 of RRC ends the procedure, with a reset of MAC.

### 3.3 Findings

1. *Overtaken status PDU* (`rlc_am_lte.cc:953`). The loop runs while `i` is nearer to `vt_a` than
   `ack_sn`. When `ack_sn` lies below `vt_a` its distance is nearly `MOD`, and everything up to
   `vt_s` is acknowledged. Data whose delivery nobody confirmed is dropped. Needs two status PDUs to
   swap places, which parallel HARQ processes do.
2. *Forgotten poll* (`rlc_am_lte.cc:1279`). A poll that cannot be answered yet is to be answered
   when the reordering timer expires. If the gap closes first the timer is stopped, `poll_received`
   stays set and nothing looks at it. The sender's own poll timer makes up for this, unless a status
   PDU that was already under way has stopped it. Then the sender's window stays unacknowledged
   although nothing was lost.
3. *Tail loss* (`rlc_am_lte.cc:939-946`). A status PDU that was under way when the last PDU was
   sent stops the poll timer. If that PDU is lost, no timer runs at the sender and the receiver, not
   having been polled again, reports nothing.
4. *Ratios 0:0* (`srsenb/src/stack/upper/rlc.cc:678`). A command that changes 1:0 to 0:1 passes
   through 0:0; `decide_path` returns -1 and the SDU is dropped.
5. *Duplicates reach the gateway* (`pdcp_entity_lte.cc:250`). `discard` is set and does not discard.
6. *Intact SDU dropped* (`rlc_um_lte.cc:593`). The first PDU of a bearer, SN 0, is lost, and
   `timer_expired` sets `pdu_lost`. For a later PDU the flag would be cleared when the next one is taken up
   (`:462-466`), because `vr_ur_in_rx_sdu` names the PDU before the missing one; here it is still 0, and
   `pdu_belongs_to_rx_sdu` takes PDU 1 for a continuation. PDU 1 holds the first part of a new SDU and
   nothing else, so nothing clears the flag; PDU 2 ends the SDU, is not start-aligned, and the complete
   SDU is thrown away. One lost PDU costs two SDUs. With the constants of the run, also with two losses or
   a re-establishment, TLC finds no intact SDU lost unless the first SDU has lost something.
7. *C-RNTI lost in a handover* (`srsue/src/stack/mac/proc_ra.cc:511`). `complete()` replaces the C-RNTI
   by the T-CRNTI whenever `transmitted_crnti` is 0. When the network chose the preamble neither
   belongs to this procedure: the T-CRNTI is 0 after the reset of `ho_prepare`, and
   `transmitted_crnti` is what the last contention-based procedure left, 0 after the initial access.
   The UE then ends its first handover of this kind with C-RNTI 0. `mac_test.cc` tests this kind of
   access after a contention-based one on the same object, which leaves the member set.

### 3.4 Conditions of what holds

`AckedWasReceived` and `DeliverySpec` hold over a FIFO status channel only (finding 1 otherwise).
The four theorems of `RlcAmLink_proofs` state that as `StatusInOrder`; `link_stale_status` shows
that it is needed. Their second condition, `WindowTested`, is about `rlc_am_lte.cc:771-772`: "do not
build any more PDU if window is already full" is tested only if no SDU is half sent (`tx_sdu ==
NULL`). With the window full, `read_pdu` normally has a retransmission to do first and does not come
that far. It does when the grant has room for a data PDU but not for the two bytes more of a
segment's header: then `build_data_pdu` sends the rest of the SDU beyond the window, and a number
can stand for two payloads at the receiver. TLC finds `SnNamesOnePayload` violated in `RlcAmLink`
with `WINDOW = 3`, `SDU_SIZES = {2}`, `MAX_PDUS = 6`, `GRANTS = {"data", "full"}` and two losses.
`WindowTested` says that every SDU fits into one PDU (as in `progress` and in each behaviour of
`link_faults`) or that no grant is of that kind; `TxStaysWithinWindow` proves that either suffices.
`EverythingDelivered` holds without loss only (finding 3). `RatioKept` is stated for `M + S <= 256`;
above, `split_count` (a `uint8_t`) wraps before the cycle ends. `CountMatches` holds while the legs
drift apart by at most the reordering window; nothing in the code enforces that. `LostBehindBroken`
says what finding 6 leaves: an SDU that lost nothing is missing only behind one that did.
`RntiIsOurs`, `TimerBelongsToMsg3` and `HandoverAnswered` hold unless MAC was reset between two
steps of another thread (`overtaken`), the second also unless `harq_max_retx` was called.
`FiresOnTime` holds before the clock wraps (`NoWrap`). `NoPlaceForgotten` and `EverythingHandled`
leave out pushers whose queue was erased under them.

## 4. Proofs

`NukDownlink_proofs` proves `Spec => []CountMatches` and `Spec => []NextFollowsHighest`, for every
`REORDERING_WINDOW > 0`, `SN_MOD` twice as large, every `HFN_MOD > 0`, `SKEW` up to the window,
`MAX_COUNT` up to `SN_MOD * HFN_MOD` and every `PATHS`, the assumptions `PdcpAssumption` and
`BearerAssumption` of the modules.

`CountMatches` speaks of the latest PDU only and is not inductive. The invariant `LegsIInv` has three
parts. `Position` says what the receiver's variables stand for: `rx_hfn` and `next_pdcp_rx_sn` are
the two parts of `highest + 1`, `last_submitted_pdcp_rx_sn` is the number of `highest`. `Skew` says
that what is under way is less than `tx_count` and not further behind it than `SKEW`, and that
`highest` is not further behind either. Together they put a PDU that arrives into one of two cases.
It is at most the window ahead of `highest` (`PduAhead`): then it is not outside the window, the
branch taken depends on whether the number wraps, and the COUNT and the new position are right in
both. Or it is less than a window behind (`LatePdu`): then it is outside, whether the number is
above or below `next_pdcp_rx_sn` tells whether it belongs to the previous hyper frame, and nothing
moves. `HandlePdu` joins the two; `IInvNext` has one step per action. The arithmetic of remainders
is in `Residue` and `CountOf`, the effect of `Append`, `Tail` and `RemoveAt` on what is under way
in `RangeOfAppend`, `RangeOfTail` and `RangeOfRemoveAt`.

`NukDownlink_proofs` also proves `SplitTypeOK`, `SettingsObeyed` and `RatioKept` of `SplitSpec` for every
`U8 > 1`, every set of ratios and both values of `NUK_JIN_DEBUG` (`SplitAssumption`).
`SettingsObeyed` compares what `decide_path` returned with the members as they are now, so its
invariant has to say why nothing interfered in between. `Quiet`: a call counts as undisturbed, and a
path is remembered, only when no command has anything left to assign. `Passed`: an undisturbed call
is past a test only if the test fails on the members as they are. `RatioAhead`: whatever the command
being run has still to assign, the ratios will not both be 0 when it ends; so between commands they
are not, and an undisturbed call never returns -1. During a command they can be, which is finding 4.
There is one lemma per action; `SetSplitRatioLeaves` and `CommandLeaves` show what a command leaves.

`RatioKept` counts over a cycle of remembered paths, so its invariant `ShareInv` says where each of
them stood in the cycle. `SharesKept`: while the settings stay, the last path went by the position
before `Phase` (`split_count`, or 0 if the next SDU finds the cycle over), the one before it by the
position before that, and so on modulo `M + S`. `Stages` says what an undisturbed call has already
found out: which tests failed, that `split_count` is within the cycle after the check, and that the
count read and the path chosen belong to the `split_count` of now. `WriteCountShares` is where
`M + S <= U8` is used: `split_count` may be `U8 - 1` and wrap, but then the cycle is over too.
`ShareOfCycle` is the arithmetic: of any `M + S` consecutive numbers exactly `M` have a remainder
below `M`. Nothing is assumed of the value that interrupted commands left in `split_count`.

`RlcAmRx_proofs` proves `RxTypeOK`, `RxWindowOrder`, `OnlyGapsBlock`, `GapIsTimed` and
`VrMsMonotone` of `RxSpec` (the receiver against any peer) for every `WINDOW > 0` with `MOD = 2 *
WINDOW`. The proof looks at each member as its distance from `vr_r`; `ModOf`, `OffsetOfPlus` and
`Rebase` turn the modulo into additions, the last one for a low edge that moves. The first three
invariants are inductive together. `VrMsMonotone` needs one more: `timer_expired` starts its walk at
`vr_x`, which `vr_ms` may have passed since, so `Passed` says that all numbers in between have been
received. `WalkUp` is about the loops that walk up the window: they stop at or below `vr_h` and pass
only received numbers. `MovesPlaced` and `MovesIInv` treat the one hard step, a new PDU, which moves
`vr_ms`, `vr_r`, `vr_mr` and `vr_h`, empties the bottom of the window and looks at the timer again.

`RlcAmTx_proofs` proves `TxTypeOK`, `TxWindowContiguous` and `RetxBeforeNewData` of `TxSpec` (the
transmitter against any peer), for every window, all sizes of SDUs and grants, and status PDUs that
NACK whole PDUs or parts of them. `TxIInv` adds that
every waiting SDU is one of `SDU_SIZES` and that at least as many PDUs were sent as are kept. `Span`
names the numbers of a window by their distance from `vt_a`; `SpanGrows` and `SpanShrinks` are what
`build_data_pdu` and `handle_control_pdu` do to it, whatever `ack_sn` a status PDU has. That the
window may be overrun by the rest of one SDU is part of `TxWindowContiguous`; `TxStaysWithinWindow`
adds when it is not. For `RetxBeforeNewData`, `Scheduled` says of the queue that `read_pdu` works on that
nothing due is missing from it (`AllDue`, from `DropStaleKeeps`), and `QueueServed` what each way to build
a PDU does to its entries.

`RlcAmLink_proofs` proves `InOrderDelivery`, `AckedWasReceived`, `SnNamesOnePayload` and
`DeliverySpec` for all values of the constants, under `StatusInOrder` and `WindowTested` (3.4). The
invariant `LinkIInv` builds on those of the transmitter and the receiver and counts without
wrapping: payloads are numbered as they are sent, `acked` is the first one that the transmitter
keeps, `Highest` the one after the highest that the receiver has seen. `acked <= Len(delivered) <=
Highest <= sent` is the heart, with `sent <= acked + WINDOW`. `InStep` says that what the receiver
keeps under a number is the payload with that number of the window that starts at `Len(delivered)`.
`DataInFlight` says the same of PDUs under way, that none is too old to be told from a new one, and
how far one can be overtaken. `StatusInFlight` gives each status PDU under way a point up to which
everything had been delivered when it was built; these points rise along the channel
(`StatusInOrder`), and what a status PDU acknowledges lies below its point (`CutAt`, also when its
NACKs were cut off). From that follow the four properties: the refinement is `AbstractStep`, one
lemma per handler, each of them `Send`, `Release`, `Deliver` or `Reestablish` of `RlcDelivery` or a
stutter.

`Timers_proofs` proves that `TypeOK`, `RunningIsQueued`, `ElapsedWithinDuration` and
`FiredStaysExpired` are invariants and that `Spec` implements `TimerService` (`TimersServe`), for
any number of timers and any durations, under `TimersAssumption` and `NoWrap`: the clock is bounded
so that neither it nor a timeout wraps, and allowed durations are within what `operator<` orders.
The hard step is `CallbackReturns`, which pops the top of the queue and relies on its being the
entry that was just worked off. `FiringFirst` says that it is: nothing a callback queues comes
before that entry, and if it queues an equal one (duration 0) there are two of them. That rests on
`QueueNear`: all entries lie so close to the clock that `operator<` is an order. `StartedBefore`
keeps the elapsed time in range.

`MultiQueue_proofs` proves `NoItemForgotten` and `NoPlaceForgotten` for one stack thread, which is
what the code has, and `QueuesTypeOK`, `RoundRobin` and `ItemsInOrder` for any number, under
`QueueAssumption`, for every number of pushers, queues and places. `Noticed` strengthens
`NoItemForgotten`: while the stack thread is blocked and something is queued, some pusher is about
to notify; a thread that was woken looks at every queue before it blocks again. `TurnComes`
strengthens `RoundRobin`: how often a queue has been passed over, together with its distance from
`spin_idx`, is less than the number of queues, so each pop that passes it over brings it nearer.
`NoPlaceForgotten` counts: free places of a queue for which a pusher waits against the pushers that
were woken and the pop that has still to notify. Each step of a thread changes the two sides
together; with several stack threads `spin_idx` could change between a pop and its notification, and
the wrong queue would be told. `ItemsInOrder` is inductive once every item is known to lie in the
queue of its pusher (`InTheirQueue`); `AppendKeepsOrder` and its counterpart for `Tail` keep the
order.

`RandomAccess_proofs` proves `RaTypeOK`, `RntiIsOurs` and `TimerBelongsToMsg3` for all values of the
constants (`RaAssumption`). The types are inductive by themselves (`ValuesStep`, `FlagsStep`); `NewMsg3Values`
is about the count of a new transmission of Msg3. The
other two follow from `Undisturbed`, which holds until `overtaken`, which stays (`OvertakenStays`):
a T-CRNTI is known only while its contention is open, and then a worker has nothing of an earlier
attempt in hand (`TempRntiIsCurrent`); who has a C-RNTI has put it into Msg3, so `complete()` keeps it
(`CrntiTransmitted`); nothing disturbs a procedure that waits for PHY, and exactly one background task
belongs to it (`CompletionUndisturbed`); with a preamble of the network there is no contention and no
timer (`NoContention`). Each of the four rules out what would break another, so they are inductive
only together, and only with `DisjointStep`: no RNTI is both ours and another UE's.

`RlcUm_proofs` proves `UmTypeOK`, `WholeSdus`, `SdusInOrder`, `UmGapIsTimed` and `LostBehindBroken`
of `UmSpec`, for every window size with `MOD = 2 * WINDOW`, all lengths of SDUs and PDUs, queues of
any size and any number of losses, late PDUs, expiries and re-establishments. Besides the proportion
of window and numbers it assumes that an SDU is not empty (`UmAssumption`: PDCP puts a header in front
of what it gets), since an empty `rx_sdu` is how the receiver tells that it has nothing. The bounds
that `WithinWindow` sets on the channel are part of the model (3.1).

None of the five is inductive alone: whether an SDU comes out whole depends on which PDUs preceded,
and each PDU says only where its SDUs start and end. The invariant `UmInv` says that there are cuts
between the PDUs, counted without wrapping: a cut is how many SDUs the PDUs before it have completed
and how many units of the next one they hold. What each PDU carries lies between its two cuts
(`Carries`), in the air (`Flying`) and in the window (`InWindow`), and what is still to send starts at
the last one (`Queued`). `vr_ur` is some number `u`; `Basic` says where the receiver then is: what was
delivered are whole SDUs in order, none beyond the cut before `u` (`Ordered`); `rx_sdu` holds the
beginning of one SDU, up to the cut behind the PDU that `vr_ur_in_rx_sdu` names (`Holding`); the PDU
that made `vr_uh` is there while `u` is below it; and each PDU from `u` on is kept, under way, or its
SDU has lost something (`Accounted`). `Rests` adds what holds between two steps: `u` is in the window
and its PDU is not there. `Prog` is for `LostBehindBroken`: either everything is delivered up to the
cut and its beginning kept (`Clean`), or everything is delivered before some SDU that has lost
something or will (`Doomed`), which then never changes; the flag and the marker that cause finding 6
matter in the first case only. `Awaits` says that there is no gap without a timer, and that a
timer that runs waits for a number above `u`, or for `u` itself only if nothing is missing.

`Units` are joined and divided in `UnitsJoin`, `PieceJoin` and `PieceSplit`; `LowerEdgeGives` and
`InSequenceGives` say what one PDU does to the receiver, for any segments and whatever `rx_sdu` holds.
The loops need an induction over their rounds. It is done with sets of natural numbers, which have a
least element (`LeastOf`): `IteratesExists` shows that the recursive function exists, `Rounds` that an
invariant of a round lasts. `LowerEdgesEnd`, `InSequenceEnds` and `SkipsEnd` show that the loops keep
`Basic` and `Prog` and end where the code means them to: at the lower edge, at a number that was not
received, at `vr_ux`. There is one lemma per action (`WriteFits`, `BuildFits`, `ArriveFits`,
`LostFits`, `ExpireFits`, `ReestablishFits`); the last one starts new cuts at a multiple of `MOD`.

Every invariant that a passing run checks is proved. Only model-checked are the liveness properties
`EverythingDelivered`, `HandoverAnswered`, `RandomAccessEnds`, `EverythingHandled` and
`ResetUnblocks` (fairness and ENABLED are outside the prover's reach), and what the runs that expect a
violation find. The library's induction theorems cannot be instantiated with the provers used here;
what a recursive definition computes is proved only where, as in `RlcUm_proofs`, a least element does
for it. The modules with theorems reach no RECURSIVE operator.

## 5. Not modelled

- RLC AM bytes: length indicators, framing info, concatenation of SDUs in a PDU, `poll_byte` and the
  metrics (`RlcUm` has concatenation and framing, without header lengths). `discard_sdu` is empty in
  the code. Of NACKs of parts of a PDU: offsets outside the PDU, a part that is the whole PDU, and two
  NACKs of one SN, of which `handle_control_pdu` takes the first (`retx_queue_has_sn`).
- Re-establishment of an AM link is one step for both sides (`Reestablish`); PDUs of the old numbering
  that reach a side already reset are left out.
- Loss rates (`decide_loss`): a loss is a choice. Bearers other than lcid 3: always path 1.
- RLC TM and NR; PDCP UM, SRB and NR; the routers and the life cycle of bearers; `block_queue` and
  the thread pools; that RLC uses `timer_handler` from a PHY thread without a lock (undefined
  behaviour of `std::priority_queue`); eNB MAC; NAS, S1AP, GTP-U and the EPC: see the plan.
- Of the UE's MAC: when scheduling requests and buffer status reports ask for random access (a
  procedure may start whenever there is something to send), downlink HARQ, power headroom, logical
  channel priorities, orders by PDCCH (nothing calls `start_pdcch_order`), `enable_ra_proc`, preamble
  groups and power. Of the HARQ process of Msg3: a grant that is too small or too large for
  Msg3 or for a buffer, one without a transport block (a CQI request, `ul_harq.cc:233`), and a `pdu_get`
  that gives nothing (`mux.cc:394-407`); a DCI0 for the T-CRNTI in another HARQ process; Msg3 sent again by a
  DCI0 for the C-RNTI whose NDI is not toggled, which nothing counts towards a limit; and more than the
  latest Msg3 whose PHICH is awaited. Of RRC: all but the callers of `RandomAccess`; T304 may expire at any moment
  (`ResetByRrc`).
- The order in which a UE stops its stack and its PHY (`ue_stack_lte.cc:285`): a PHY thread can
  block in `push` once nobody pops any more. `EverythingHandled` has a stack thread that goes on.
- PHY, ASN.1, ciphers, logging: numerical, generated or without state. They are most of the
  repository's lines; ASN.1 alone is more than half.

## 6. Plan

1. `RlcAmSegmentation`: header and length-indicator functions, checked against a reference over
   bounded inputs (recursive, hence without proofs).
2. `PdcpUm`, `PdcpSrb`, re-establishment of PDCP; `RlcRouter` with the life cycle of bearers,
   `cp_lcid` and several UEs in `NukSplit`.
3. `DlHarq` (with the mutex that `dl_harq.cc:315` leaves locked) and the scheduling request and buffer
   status procedures, composed with `RandomAccess`.
4. Proofs: `PathKnown` under the condition that no command is in the way; `CountMatches` across
   re-establishment once `PdcpAm` has it; safety parts of `EverythingHandled`; for `RlcUm`, under
   which losses `OnlyLossLoses` holds, so that finding 6 is the only way to lose an intact SDU.
