--------------------------- MODULE RlcAmTx_proofs ---------------------------
(***************************************************************************)
(* Proofs about the transmitter of an RLC AM bearer against any peer       *)
(* (RlcAmTxAnyPeer), for every window size, SDU size and set of grants.    *)
(* The lemmas about sequence numbers are those of RlcAmRx_proofs.          *)
(***************************************************************************)
EXTENDS RlcAmTxAnyPeer, RlcAmRx_proofs, FiniteSetTheorems

-----------------------------------------------------------------------------
(***************************************************************************)
(* Runs of sequence numbers.                                               *)
(***************************************************************************)
LEMMA PlusOffset ==
    ASSUME NEW x \in SN, NEW b \in SN
    PROVE  Plus(b, Offset(x, b)) = x
<1>1. Offset(x, b) \in 0 .. MOD - 1 /\ Offset(x, b) \in 0 .. MOD
  BY OffsetType, Sizes, SMT
<1>2. /\ Offset(x, b) = IF x < b THEN x - b + MOD ELSE x - b
      /\ Plus(b, Offset(x, b)) = IF b + Offset(x, b) < MOD THEN b + Offset(x, b)
                                 ELSE b + Offset(x, b) - MOD
  BY <1>1, OffsetIs, PlusIs
<1> QED BY <1>1, <1>2, Sizes, SMT DEF SN

LEMMA OffsetFromBase ==
    ASSUME NEW b \in SN, NEW k \in 0 .. MOD - 1
    PROVE  Plus(b, k) \in SN /\ Offset(Plus(b, k), b) = k
<1>1. k \in 0 .. MOD /\ 0 + k < MOD /\ 0 + k = k
  BY Sizes, SMT
<1> QED BY <1>1, OffsetOfPlus, OffsetOfSelf, PlusType

LEMMA SpanSize ==
    ASSUME NEW b \in SN, NEW k \in 0 .. MOD
    PROVE  IsFiniteSet(Span(b, k)) /\ Cardinality(Span(b, k)) = k
<1> DEFINE f == [i \in 1 .. k |-> Plus(b, i - 1)]
<1>1. k \in Nat /\ \A i \in 1 .. k : i - 1 \in 0 .. MOD - 1 /\ i - 1 < k
  BY Sizes, SMT
<1>2. \A i \in 1 .. k : Plus(b, i - 1) \in SN /\ Offset(Plus(b, i - 1), b) = i - 1
  BY <1>1, OffsetFromBase
<1>3. f \in [1 .. k -> Span(b, k)]
  BY <1>1, <1>2 DEF Span
<1>4. \A i, j \in 1 .. k : f[i] = f[j] => i = j
  <2> TAKE i, j \in 1 .. k
  <2>1. f[i] = f[j] => i - 1 = j - 1
    BY <1>2
  <2> QED BY <1>1, <2>1, SMT
<1>5. ASSUME NEW x \in Span(b, k) PROVE \E i \in 1 .. k : f[i] = x
  <2>1. x \in SN /\ Offset(x, b) < k
    BY DEF Span
  <2>2. Offset(x, b) \in 0 .. MOD - 1
    BY <2>1, OffsetType
  <2>3. Offset(x, b) + 1 \in 1 .. k /\ (Offset(x, b) + 1) - 1 = Offset(x, b)
    BY <1>1, <2>1, <2>2, SMT
  <2>4. f[Offset(x, b) + 1] = Plus(b, Offset(x, b))
    BY <2>3
  <2> QED BY <2>1, <2>3, <2>4, PlusOffset
<1> HIDE DEF f
<1>6. f \in Bijection(1 .. k, Span(b, k))
  BY <1>3, <1>4, <1>5 DEF Bijection, Injection, IsInjective, Surjection
<1>7. ExistsBijection(1 .. k, Span(b, k))
  BY <1>6 DEF ExistsBijection
<1> QED BY <1>1, <1>7, FS_CountingElements, FS_NatBijection

\* A run that grows by the number after it.
LEMMA SpanGrows ==
    ASSUME NEW b \in SN, NEW x \in SN, Offset(x, b) + 1 < MOD
    PROVE  /\ Offset(Plus(x, 1), b) = Offset(x, b) + 1
           /\ Plus(x, 1) \in SN
           /\ x \notin Span(b, Offset(x, b))
           /\ Span(b, Offset(x, b) + 1) = Span(b, Offset(x, b)) \cup {x}
<1>1. 1 \in 0 .. MOD /\ Offset(x, b) \in 0 .. MOD - 1 /\ \A y \in SN : Offset(y, b) \in 0 .. MOD - 1
  BY Sizes, OffsetType, SMT
<1>2. Offset(Plus(x, 1), b) = Offset(x, b) + 1 /\ Plus(x, 1) \in SN
  BY <1>1, OffsetOfPlus, PlusType
<1>3. \A y \in SN : Offset(y, b) < Offset(x, b) + 1 <=> Offset(y, b) < Offset(x, b) \/ y = x
  <2> TAKE y \in SN
  <2>1. Offset(y, b) = Offset(x, b) => y = x
    BY SameOffset
  <2> QED BY <1>1, <2>1, SMT
<1>4. x \notin Span(b, Offset(x, b))
  BY <1>1, SMT DEF Span
<1> QED BY <1>2, <1>3, <1>4 DEF Span

\* A run that loses its first numbers.
LEMMA SpanShrinks ==
    ASSUME NEW b \in SN, NEW j \in 0 .. MOD - 1, NEW k \in 0 .. j
    PROVE  /\ Plus(b, k) \in SN
           /\ Span(Plus(b, k), j - k) = Span(b, j) \ Span(b, k)
           /\ \A x \in SN : k <= Offset(x, b) => Offset(x, Plus(b, k)) = Offset(x, b) - k
<1>1. k \in 0 .. MOD /\ k \in 0 .. MOD - 1
  BY Sizes, SMT
<1>2. \A x \in SN : /\ Offset(x, b) \in 0 .. MOD - 1
                   /\ Offset(x, Plus(b, k)) = IF k <= Offset(x, b) THEN Offset(x, b) - k
                                              ELSE Offset(x, b) - k + MOD
  BY <1>1, Rebase, OffsetType
<1>3. \A x \in SN : Offset(x, Plus(b, k)) < j - k <=> Offset(x, b) < j /\ ~(Offset(x, b) < k)
  <2> TAKE x \in SN
  <2> QED BY <1>1, <1>2, Sizes, SMT
<1> QED BY <1>1, <1>2, <1>3, PlusType DEF Span

-----------------------------------------------------------------------------
(***************************************************************************)
(* The inductive invariant: the type invariant and the contiguous window,  *)
(* and that only SDUs of the given sizes wait, that no more is in the      *)
(* window than was sent.                                                   *)
(***************************************************************************)
TxIInv ==
    /\ TxTypeOK
    /\ TxWindowContiguous
    /\ tx_sdu_queue \in Seq(SDU_SIZES)
    /\ TX_OFFSET(vt_s) <= sent

Timers3 == {"stopped", "running", "expired"}

LEMMA SduSizes ==
    /\ SDU_SIZES \subseteq Nat \ {0} /\ \A size \in SDU_SIZES : size \in 1 .. WINDOW
    /\ Seq(SDU_SIZES) \subseteq Seq(Nat \ {0})
<1>1. \A size \in SDU_SIZES : size \in 1 .. WINDOW
  BY TxAssumption
<1>2. SDU_SIZES \subseteq Nat \ {0}
  BY <1>1, Sizes, SMT
<1> QED BY <1>1, <1>2, SeqMonotonic

LEMMA InitTxIInv == TxInit => TxIInv
<1> SUFFICES ASSUME TxInit PROVE TxIInv
  OBVIOUS
<1>1. 0 \in SN /\ Offset(0, 0) = 0 /\ Span(0, 0) = {}
  <2>1. 0 \in SN /\ Offset(0, 0) = 0
    BY Sizes, OffsetOfSelf
  <2>2. \A x \in SN : Offset(x, 0) \in 0 .. MOD - 1
    BY <2>1, OffsetType
  <2> QED BY <2>1, <2>2, SMT DEF Span
<1>2. << >> \in Seq(Nat \ {0}) /\ << >> \in Seq(SDU_SIZES) /\ << >> \in Seq(RetxEntries)
      /\ DOMAIN EmptyMap = {}
  BY SMT DEF EmptyMap
<1>3. \E size \in SDU_SIZES : 0 + 0 < WINDOW + size
  <2>1. PICK size \in SDU_SIZES : TRUE
    BY TxAssumption
  <2> QED BY <2>1, SduSizes, Sizes, SMT
<1>4. TxTypeOK
  BY <1>1, <1>2 DEF TxInit, TxTypeOK
<1>5. TxWindowContiguous
  BY <1>1, <1>2, <1>3 DEF TxInit, TxWindowContiguous, TX_OFFSET
<1> QED BY <1>1, <1>2, <1>4, <1>5 DEF TxInit, TxIInv, TX_OFFSET

\* What the invariant says of the window as a set.
LEMMA WindowSize ==
    ASSUME TxIInv
    PROVE  /\ vt_a \in SN /\ vt_s \in SN /\ TX_OFFSET(vt_s) \in 0 .. MOD - 1
           /\ DOMAIN tx_window = Span(vt_a, TX_OFFSET(vt_s))
           /\ Cardinality(DOMAIN tx_window) = TX_OFFSET(vt_s)
           /\ WindowFull <=> TX_OFFSET(vt_s) >= WINDOW
           /\ sent \in Nat /\ tx_sdu \in Nat
<1>1. /\ vt_a \in SN /\ vt_s \in SN /\ DOMAIN tx_window = Span(vt_a, TX_OFFSET(vt_s))
      /\ sent \in Nat /\ tx_sdu \in Nat
  BY DEF TxIInv, TxTypeOK, TxWindowContiguous
<1>2. TX_OFFSET(vt_s) \in 0 .. MOD - 1 /\ TX_OFFSET(vt_s) \in 0 .. MOD
  BY <1>1, OffsetType, Sizes, SMT DEF TX_OFFSET
<1>3. Cardinality(DOMAIN tx_window) = TX_OFFSET(vt_s)
  BY <1>1, <1>2, SpanSize
<1> QED BY <1>1, <1>2, <1>3 DEF WindowFull

-----------------------------------------------------------------------------
(***************************************************************************)
(* New data.                                                               *)
(***************************************************************************)
\* The state of the SDU that is being sent after one more PDU of it.
LEMMA NextOfSdu ==
    ASSUME TxIInv, NEW grant, ~NothingToBuild(grant),
           NEW left, left = (IF tx_sdu = 0 THEN Head(tx_sdu_queue) ELSE tx_sdu) - 1,
           NEW queue, queue = IF tx_sdu = 0 THEN Tail(tx_sdu_queue) ELSE tx_sdu_queue
    PROVE  /\ left \in Nat /\ queue \in Seq(SDU_SIZES)
           /\ TX_OFFSET(vt_s) + 1 < MOD
           /\ \E size \in SDU_SIZES : TX_OFFSET(vt_s) + 1 + left < WINDOW + size
<1>1. /\ TX_OFFSET(vt_s) \in 0 .. MOD - 1 /\ tx_sdu \in Nat
      /\ WindowFull <=> TX_OFFSET(vt_s) >= WINDOW
  BY WindowSize
<1>2. tx_sdu_queue \in Seq(SDU_SIZES)
  BY DEF TxIInv
<1>3. CASE tx_sdu = 0
  <2>1. tx_sdu_queue # << >> /\ TX_OFFSET(vt_s) < WINDOW
    BY <1>1, <1>3, Sizes, SMT DEF NothingToBuild
  <2>2. Head(tx_sdu_queue) \in SDU_SIZES /\ Tail(tx_sdu_queue) \in Seq(SDU_SIZES)
    BY <1>2, <2>1, HeadTailProperties
  <2>3. Head(tx_sdu_queue) \in 1 .. WINDOW
    BY <2>2, SduSizes
  <2>4. left = Head(tx_sdu_queue) - 1 /\ queue = Tail(tx_sdu_queue)
    BY <1>3
  <2>5. TX_OFFSET(vt_s) + 1 + left < WINDOW + Head(tx_sdu_queue)
    BY <1>1, <2>1, <2>3, <2>4, Sizes, SMT
  <2>6. left \in Nat /\ TX_OFFSET(vt_s) + 1 < MOD
    BY <1>1, <2>1, <2>3, <2>4, Sizes, SMT
  <2> QED BY <2>2, <2>4, <2>5, <2>6
<1>4. CASE tx_sdu # 0
  <2>1. PICK size \in SDU_SIZES : TX_OFFSET(vt_s) + tx_sdu < WINDOW + size
    BY DEF TxIInv, TxWindowContiguous
  <2>2. size \in 1 .. WINDOW
    BY SduSizes
  <2>3. left = tx_sdu - 1 /\ queue = tx_sdu_queue
    BY <1>4
  <2>4. /\ left \in Nat /\ TX_OFFSET(vt_s) + 1 < MOD
        /\ TX_OFFSET(vt_s) + 1 + left < WINDOW + size
    BY <1>1, <1>4, <2>1, <2>2, <2>3, Sizes, SMT
  <2> QED BY <1>2, <2>3, <2>4
<1> QED BY <1>3, <1>4

LEMMA BuildDataPduTxIInv ==
    ASSUME TxIInv, NEW grant, NEW queue \in Seq(RetxEntries), NEW count \in Nat,
           NEW timer \in Timers3, BuildDataPdu(grant, queue, count, timer)
    PROVE  TxIInv'
<1>1. retx_queue' = queue /\ UNCHANGED <<tx_enabled, vt_a, max_retx, written>>
  BY Zenon DEF BuildDataPdu
<1>2. CASE NothingToBuild(grant)
  <2>1. /\ pdu_without_poll' = count /\ poll_retx_timer' = timer
        /\ UNCHANGED <<vt_s, tx_sdu, tx_sdu_queue, tx_window, sent, dl>>
    BY <1>2, Zenon DEF BuildDataPdu
  <2> QED BY <1>1, <2>1 DEF TxIInv, TxTypeOK, TxWindowContiguous, TX_OFFSET, Timers3
<1>3. CASE ~NothingToBuild(grant)
  <2>1. PICK p \in BOOLEAN :
           /\ tx_sdu' = (IF tx_sdu = 0 THEN Head(tx_sdu_queue) ELSE tx_sdu) - 1
           /\ tx_sdu_queue' = IF tx_sdu = 0 THEN Tail(tx_sdu_queue) ELSE tx_sdu_queue
           /\ pdu_without_poll' = IF p THEN 0 ELSE count + 1
           /\ poll_retx_timer' = IF p THEN "running" ELSE timer
           /\ vt_s' = Plus(vt_s, 1)
           /\ tx_window' = With(tx_window, vt_s, [n |-> sent, retx_count |-> 0])
           /\ sent' = sent + 1
    <3>1. PollRequired(count + 1, timer, tx_sdu_queue', queue) \in BOOLEAN
      BY Zenon DEF PollRequired
    <3> QED BY <1>3, <3>1, Zenon DEF BuildDataPdu
  <2>2. /\ tx_sdu' \in Nat /\ tx_sdu_queue' \in Seq(SDU_SIZES) /\ TX_OFFSET(vt_s) + 1 < MOD
        /\ \E size \in SDU_SIZES : TX_OFFSET(vt_s) + 1 + tx_sdu' < WINDOW + size
    BY <1>3, <2>1, NextOfSdu
  <2>3. /\ vt_a \in SN /\ vt_s \in SN /\ TX_OFFSET(vt_s) \in 0 .. MOD - 1 /\ sent \in Nat
        /\ DOMAIN tx_window = Span(vt_a, TX_OFFSET(vt_s))
    BY WindowSize
  <2>4. /\ TX_OFFSET(vt_s)' = TX_OFFSET(vt_s) + 1 /\ vt_s' \in SN /\ vt_s \notin DOMAIN tx_window
        /\ DOMAIN tx_window' = Span(vt_a', TX_OFFSET(vt_s)')
    BY <1>1, <2>1, <2>2, <2>3, SpanGrows DEF With, TX_OFFSET
  <2>5. /\ \A s \in DOMAIN tx_window' :
              tx_window'[s] = IF s = vt_s THEN [n |-> sent, retx_count |-> 0] ELSE tx_window[s]
        /\ DOMAIN tx_window' = DOMAIN tx_window \cup {vt_s}
    BY <2>1 DEF With
  <2>6. [n |-> sent, retx_count |-> 0] \in [n : Nat, retx_count : 0 .. MAX_RETX_THRESH]
    BY <2>3, TxAssumption, SMT
  <2>7. pdu_without_poll' \in Nat /\ poll_retx_timer' \in Timers3
    BY <2>1, SMT DEF Timers3
  <2>8. TxTypeOK'
    <3>1. tx_sdu_queue' \in Seq(Nat \ {0})
      BY <2>2, SduSizes
    <3>2. DOMAIN tx_window' \subseteq SN
      BY <2>4 DEF Span
    <3>3. \A s \in DOMAIN tx_window' :
             tx_window'[s] \in [n : Nat, retx_count : 0 .. MAX_RETX_THRESH]
      BY <2>5, <2>6 DEF TxIInv, TxTypeOK
    <3>4. sent' \in Nat
      BY <2>1, <2>3, SMT
    <3> QED BY <1>1, <2>2, <2>3, <2>4, <2>7, <3>1, <3>2, <3>3, <3>4
            DEF TxIInv, TxTypeOK, Timers3
  <2>9. ASSUME NEW s \in DOMAIN tx_window'
        PROVE  tx_window'[s].n = sent' - (TX_OFFSET(vt_s)' - TX_OFFSET(s)')
    <3>1. TX_OFFSET(s)' = TX_OFFSET(s)
      BY <1>1 DEF TX_OFFSET
    <3>2. CASE s = vt_s
      <4>1. tx_window'[s].n = sent /\ TX_OFFSET(s) = TX_OFFSET(vt_s)
        BY <2>5, <3>2
      <4>2. TX_OFFSET(s)' = TX_OFFSET(vt_s)
        BY <3>1, <4>1
      <4>3. sent' - (TX_OFFSET(vt_s)' - TX_OFFSET(s)') = sent
        BY <2>1, <2>3, <2>4, <4>2, SMTT(30)
      <4> QED BY <4>1, <4>3
    <3>3. CASE s # vt_s
      <4>1. s \in DOMAIN tx_window /\ s \in SN
        BY <2>3, <2>5, <3>3 DEF Span
      <4>2. tx_window[s].n = sent - (TX_OFFSET(vt_s) - TX_OFFSET(s))
        BY <4>1 DEF TxIInv, TxWindowContiguous
      <4>3. TX_OFFSET(s) \in 0 .. MOD - 1
        BY <2>3, <4>1, OffsetType DEF TX_OFFSET
      <4>4. tx_window'[s].n = tx_window[s].n
        BY <2>5, <3>3
      <4> QED BY <2>1, <2>3, <2>4, <3>1, <4>2, <4>3, <4>4, SMT
    <3> QED BY <3>2, <3>3
  <2>10. TxWindowContiguous'
    BY <2>2, <2>4, <2>9 DEF TxWindowContiguous
  <2>11. TX_OFFSET(vt_s)' <= sent'
    BY <2>1, <2>3, <2>4, SMT DEF TxIInv
  <2> QED BY <2>2, <2>8, <2>10, <2>11 DEF TxIInv
<1> QED BY <1>2, <1>3

-----------------------------------------------------------------------------
(***************************************************************************)
(* Retransmissions.                                                        *)
(***************************************************************************)
LEMMA RetxType ==
    ASSUME NEW s \in SN, NEW part \in PARTS
    PROVE  Retx(s, part) \in RetxEntries /\ Retx(s, part).sn = s
<1>1. CASE part = Whole
  BY <1>1, SMT DEF Retx, RetxEntries, PDU_LEN, Whole
<1>2. CASE part # Whole
  <2>1. PICK so \in {0, 1} : part = Unit(so)
    BY <1>2, TxAssumption DEF PARTS
  <2> QED BY <2>1, SMT DEF Retx, RetxEntries, PDU_LEN, Unit
<1> QED BY <1>1, <1>2

LEMMA WholeIsPart == Whole \in PARTS
BY DEF PARTS

LEMMA RandomPduType ==
    ASSUME TxTypeOK, NEW queue \in Seq(RetxEntries), NEW new \in RetransmitRandomPdu(queue)
    PROVE  new \in Seq(RetxEntries)
<1>1. CASE tx_window = EmptyMap
  BY <1>1 DEF RetransmitRandomPdu
<1>2. CASE tx_window # EmptyMap
  <2>1. PICK s \in DOMAIN tx_window : new = Append(queue, Retx(s, Whole))
    BY <1>2 DEF RetransmitRandomPdu
  <2>2. s \in SN
    BY DEF TxTypeOK
  <2> QED BY <2>1, <2>2, RetxType, WholeIsPart, AppendProperties
<1> QED BY <1>1, <1>2

\* What is at the front after the stale retransmissions have been dropped is in the window.
LEMMA DropStaleFront ==
    ASSUME NEW queue \in Seq(RetxEntries), NEW new \in DropStale(queue)
    PROVE  /\ new \in Seq(RetxEntries)
           /\ new # << >> => Head(new).sn \in DOMAIN tx_window
<1>1. PICK k \in 0 .. Len(queue) :
         /\ new = SubSeq(queue, k + 1, Len(queue))
         /\ k < Len(queue) => queue[k + 1].sn \in DOMAIN tx_window
  BY DEF DropStale
<1>2. Len(queue) \in Nat /\ k \in Nat /\ k + 1 \in Int /\ Len(queue) \in Int
      /\ \A i \in k + 1 .. Len(queue) : queue[i] \in RetxEntries
  BY LenProperties, ElementOfSeq, SMT
<1>3. new \in Seq(RetxEntries)
  BY <1>1, <1>2, SubSeqProperties
<1>4. ASSUME new # << >> PROVE Head(new).sn \in DOMAIN tx_window
  <2>1. k < Len(queue)
    <3>1. CASE ~(k < Len(queue))
      <4>1. Len(queue) < k + 1
        BY <1>1, <1>2, <3>1, SMT
      <4> QED BY <1>1, <1>2, <1>4, <4>1, SubSeqEmpty
    <3> QED BY <3>1
  <2>2. k + 1 \in 1 .. Len(queue) /\ Len(queue) \in k + 1 .. Len(queue)
    BY <1>1, <1>2, <2>1, SMT
  <2>3. Head(new) = queue[k + 1]
    BY <1>1, <2>2, HeadTailOfSubSeq
  <2> QED BY <1>1, <2>1, <2>3
<1> QED BY <1>3, <1>4

LEMMA RetxWholePduTxIInv ==
    ASSUME TxIInv, NEW queue \in Seq(RetxEntries), queue # << >>,
           Head(queue).sn \in DOMAIN tx_window, RetxWholePdu(queue)
    PROVE  TxIInv'
<1> DEFINE sn == Head(queue).sn
<1>1. PICK p \in BOOLEAN, c \in {MAX_RETX_THRESH, tx_window[sn].retx_count + 1} :
         /\ c = IF tx_window[sn].retx_count + 1 > MAX_RETX_THRESH THEN MAX_RETX_THRESH
                ELSE tx_window[sn].retx_count + 1
         /\ pdu_without_poll' = IF p THEN 0 ELSE pdu_without_poll + 1
         /\ poll_retx_timer' = IF p THEN "running" ELSE poll_retx_timer
         /\ retx_queue' = Tail(queue)
         /\ tx_window' = [tx_window EXCEPT ![sn].retx_count = c]
         /\ max_retx' \in BOOLEAN
         /\ UNCHANGED <<tx_enabled, vt_a, vt_s, tx_sdu, tx_sdu_queue, written, sent>>
  <2>1. PollRequired(pdu_without_poll + 1, poll_retx_timer, tx_sdu_queue, queue) \in BOOLEAN
    BY Zenon DEF PollRequired
  <2>2. max_retx' \in BOOLEAN
    BY Zenon DEF RetxWholePdu
  <2> QED BY <2>1, <2>2, Zenon DEF RetxWholePdu
<1>2. /\ tx_window[sn] \in [n : Nat, retx_count : 0 .. MAX_RETX_THRESH]
      /\ MAX_RETX_THRESH \in Nat /\ pdu_without_poll \in Nat
      /\ poll_retx_timer \in Timers3
  BY TxAssumption DEF TxIInv, TxTypeOK, Timers3
<1>3. c \in 0 .. MAX_RETX_THRESH
  <2>1. tx_window[sn].retx_count \in 0 .. MAX_RETX_THRESH
    BY <1>2
  <2> QED BY <1>1, <1>2, <2>1, SMT
<1>4. /\ DOMAIN tx_window' = DOMAIN tx_window
      /\ \A s \in DOMAIN tx_window : /\ tx_window'[s].n = tx_window[s].n
                                    /\ tx_window'[s] \in [n : Nat, retx_count : 0 .. MAX_RETX_THRESH]
  <2>1. \A s \in DOMAIN tx_window : tx_window[s] \in [n : Nat, retx_count : 0 .. MAX_RETX_THRESH]
    BY DEF TxIInv, TxTypeOK
  <2>2. \A s \in DOMAIN tx_window :
           tx_window'[s] = IF s = sn THEN [tx_window[s] EXCEPT !.retx_count = c] ELSE tx_window[s]
    BY <1>1
  <2> QED BY <1>1, <1>3, <2>1, <2>2
<1>5. retx_queue' \in Seq(RetxEntries)
  BY <1>1, HeadTailProperties
<1>6. pdu_without_poll' \in Nat /\ poll_retx_timer' \in Timers3
  BY <1>1, <1>2, SMT DEF Timers3
<1>7. TxTypeOK'
  BY <1>1, <1>4, <1>5, <1>6 DEF TxIInv, TxTypeOK, Timers3
<1>8. TxWindowContiguous'
  BY <1>1, <1>4 DEF TxIInv, TxWindowContiguous, TX_OFFSET
<1> QED BY <1>1, <1>7, <1>8 DEF TxIInv, TX_OFFSET

LEMMA RetxSegmentTxIInv ==
    ASSUME TxIInv, NEW grant, NEW queue \in Seq(RetxEntries), queue # << >>,
           RetxSegment(grant, queue)
    PROVE  TxIInv'
<1> DEFINE p     == PollRequired(pdu_without_poll + 1, poll_retx_timer, tx_sdu_queue, queue)
           count == IF p THEN 0 ELSE pdu_without_poll + 1
           timer == IF p THEN "running" ELSE poll_retx_timer
           retx  == Head(queue)
           rest  == [retx EXCEPT !.is_segment = TRUE, !.so_start = retx.so_start + 1]
<1>1. count \in Nat /\ timer \in Timers3
  <2>1. pdu_without_poll \in Nat /\ poll_retx_timer \in Timers3
    BY DEF TxIInv, TxTypeOK, Timers3
  <2> QED BY <2>1, SMT DEF Timers3
<1>2. retx \in RetxEntries /\ Tail(queue) \in Seq(RetxEntries)
  BY HeadTailProperties
<1>3. \/ BuildDataPdu(grant, queue, count, timer)
      \/ /\ pdu_without_poll' = count /\ poll_retx_timer' = timer
         /\ retx_queue' = IF retx.so_start + 1 = retx.so_end THEN Tail(queue)
                          ELSE <<rest>> \o Tail(queue)
         /\ UNCHANGED <<tx_enabled, vt_a, vt_s, tx_sdu, tx_sdu_queue, tx_window,
                        max_retx, written, sent>>
  BY Zenon DEF RetxSegment
<1>4. retx.so_start + 1 # retx.so_end => rest \in RetxEntries
  <2>1. /\ retx.sn \in SN /\ retx.so_start \in 0 .. PDU_LEN - 1
        /\ retx.so_end \in 1 .. PDU_LEN /\ retx.so_start < retx.so_end
    BY <1>2 DEF RetxEntries
  <2>2. retx.so_start + 1 # retx.so_end =>
           retx.so_start + 1 \in 0 .. PDU_LEN - 1 /\ retx.so_start + 1 < retx.so_end
    BY <2>1, SMT DEF PDU_LEN
  <2> QED BY <1>2, <2>2 DEF RetxEntries
<1> HIDE DEF count, timer, rest, retx
<1>5. CASE BuildDataPdu(grant, queue, count, timer)
  BY <1>1, <1>5, BuildDataPduTxIInv
<1>6. CASE /\ pdu_without_poll' = count /\ poll_retx_timer' = timer
           /\ retx_queue' = IF retx.so_start + 1 = retx.so_end THEN Tail(queue)
                            ELSE <<rest>> \o Tail(queue)
           /\ UNCHANGED <<tx_enabled, vt_a, vt_s, tx_sdu, tx_sdu_queue, tx_window,
                          max_retx, written, sent>>
  <2>1. retx_queue' \in Seq(RetxEntries)
    <3>1. CASE retx.so_start + 1 = retx.so_end
      BY <1>2, <1>6, <3>1
    <3>2. CASE retx.so_start + 1 # retx.so_end
      <4>1. <<rest>> \in Seq(RetxEntries)
        BY <1>4, <3>2, SMT
      <4>2. <<rest>> \o Tail(queue) \in Seq(RetxEntries)
        BY <1>2, <4>1, ConcatProperties
      <4> QED BY <1>6, <3>2, <4>2
    <3> QED BY <3>1, <3>2
  <2>2. TxTypeOK'
    BY <1>1, <1>6, <2>1 DEF TxIInv, TxTypeOK, Timers3
  <2> QED BY <1>6, <2>2 DEF TxIInv, TxWindowContiguous, TX_OFFSET
<1> QED BY <1>3, <1>5, <1>6

\* Dropping stale retransmissions keeps those that are due.
LEMMA DropStaleKeeps ==
    ASSUME NEW queue \in Seq(RetxEntries), NEW new \in DropStale(queue),
           NEW i \in DOMAIN queue, queue[i].sn \in DOMAIN tx_window
    PROVE  WaitsIn(queue[i], new)
<1>1. PICK k \in 0 .. Len(queue) :
         /\ new = SubSeq(queue, k + 1, Len(queue))
         /\ \A j \in 1 .. k : queue[j].sn \notin DOMAIN tx_window
  BY DEF DropStale
<1>2. Len(queue) \in Nat /\ k \in Nat /\ k + 1 \in Int /\ Len(queue) \in Int
      /\ i \in 1 .. Len(queue) /\ \A j \in k + 1 .. Len(queue) : queue[j] \in RetxEntries
  BY LenProperties, ElementOfSeq, SMT
<1>3. i \notin 1 .. k
  BY <1>1
<1>4. /\ k + 1 <= Len(queue) /\ i - k \in 1 .. Len(queue) - (k + 1) + 1
      /\ k + 1 + (i - k) - 1 = i /\ i - k \in 1 .. Len(queue) - k
  BY <1>2, <1>3, SMT
<1>5. /\ new \in Seq(RetxEntries) /\ Len(new) = Len(queue) - (k + 1) + 1
      /\ \A j \in 1 .. Len(queue) - (k + 1) + 1 : new[j] = queue[k + 1 + j - 1]
  <2>1. /\ SubSeq(queue, k + 1, Len(queue)) \in Seq(RetxEntries)
        /\ Len(SubSeq(queue, k + 1, Len(queue))) =
              IF k + 1 <= Len(queue) THEN Len(queue) - (k + 1) + 1 ELSE 0
        /\ \A j \in 1 .. Len(queue) - (k + 1) + 1 :
              SubSeq(queue, k + 1, Len(queue))[j] = queue[k + 1 + j - 1]
    BY <1>2, SubSeqProperties
  <2> QED BY <1>1, <1>4, <2>1, Zenon
<1>6. i - k \in DOMAIN new /\ new[i - k] = queue[i]
  <2>1. new[i - k] = queue[k + 1 + (i - k) - 1]
    BY <1>4, <1>5
  <2>2. DOMAIN new = 1 .. Len(new)
    BY <1>5, LenProperties
  <2> QED BY <1>4, <1>5, <2>1, <2>2
<1> QED BY <1>6 DEF WaitsIn

\* Every due retransmission of retx_queue is in queue.
AllDue(queue) ==
    \A i \in DOMAIN retx_queue :
       retx_queue[i].sn \in DOMAIN tx_window => WaitsIn(retx_queue[i], queue)

\* The retransmissions that read_pdu has to choose from.
LEMMA Scheduled ==
    ASSUME TxIInv, NEW grant, ReadPdu(grant)
    PROVE  \E queue \in Seq(RetxEntries) :
              /\ queue # << >> => Head(queue).sn \in DOMAIN tx_window
              /\ AllDue(queue)
              /\ \/ /\ ~RetxRequired(queue)
                    /\ BuildDataPdu(grant, queue, pdu_without_poll, poll_retx_timer)
                 \/ /\ RetxRequired(queue) /\ ~Head(queue).is_segment /\ grant = "full"
                    /\ RetxWholePdu(queue)
                 \/ /\ RetxRequired(queue) /\ (Head(queue).is_segment \/ grant # "full")
                    /\ RetxSegment(grant, queue)
<1>1. PICK scheduled \in IF WindowFull /\ retx_queue = << >>
                         THEN RetransmitRandomPdu(retx_queue) ELSE {retx_queue} :
           \E queue \in DropStale(scheduled) :
              \/ /\ ~RetxRequired(queue)
                 /\ BuildDataPdu(grant, queue, pdu_without_poll, poll_retx_timer)
              \/ /\ RetxRequired(queue) /\ ~Head(queue).is_segment /\ grant = "full"
                 /\ RetxWholePdu(queue)
              \/ /\ RetxRequired(queue) /\ (Head(queue).is_segment \/ grant # "full")
                 /\ RetxSegment(grant, queue)
  BY Zenon DEF ReadPdu
<1>2. TxTypeOK /\ retx_queue \in Seq(RetxEntries)
  BY DEF TxIInv, TxTypeOK
<1>3. scheduled \in Seq(RetxEntries)
  BY <1>1, <1>2, RandomPduType
<1>4. ASSUME NEW queue \in DropStale(scheduled) PROVE AllDue(queue)
  <2>1. CASE scheduled = retx_queue
    BY <1>3, <2>1, DropStaleKeeps DEF AllDue
  <2>2. CASE retx_queue = << >>
    BY <2>2, EmptySeq DEF AllDue
  <2> QED BY <1>1, <2>1, <2>2
<1> QED BY <1>1, <1>3, <1>4, DropStaleFront

LEMMA ReadPduTxIInv ==
    ASSUME TxIInv, NEW grant, ReadPdu(grant)
    PROVE  TxIInv'
<1>1. PICK queue \in Seq(RetxEntries) :
         /\ queue # << >> => Head(queue).sn \in DOMAIN tx_window
         /\ \/ BuildDataPdu(grant, queue, pdu_without_poll, poll_retx_timer)
            \/ queue # << >> /\ RetxWholePdu(queue)
            \/ queue # << >> /\ RetxSegment(grant, queue)
  BY Scheduled DEF RetxRequired
<1>2. pdu_without_poll \in Nat /\ poll_retx_timer \in Timers3
  BY DEF TxIInv, TxTypeOK, Timers3
<1> QED BY <1>1, <1>2, BuildDataPduTxIInv, RetxWholePduTxIInv, RetxSegmentTxIInv

-----------------------------------------------------------------------------
(***************************************************************************)
(* Status PDUs.                                                            *)
(***************************************************************************)
LEMMA StatusLimitType ==
    ASSUME TxIInv, NEW ack_sn \in SN
    PROVE  /\ StatusLimit(ack_sn) \in 0 .. TX_OFFSET(vt_s)
           /\ StatusLimit(ack_sn) \in 0 .. MOD - 1
           /\ StatusLimit(ack_sn) <= TX_OFFSET(ack_sn)
<1>1. TX_OFFSET(vt_s) \in 0 .. MOD - 1 /\ TX_OFFSET(ack_sn) \in 0 .. MOD - 1
  BY WindowSize, OffsetType DEF TX_OFFSET
<1> QED BY <1>1, Sizes, SMT DEF StatusLimit

\* The numbers that are scheduled, in order: a sequence of numbers of the window.
LEMMA NackedRetx ==
    ASSUME TxIInv, NEW limit \in 0 .. MOD - 1, NEW offsets \in SUBSET (0 .. limit - 1),
           NEW order \in [1 .. Cardinality(offsets) -> offsets],
           NEW part \in [DOMAIN order -> PARTS]
    PROVE  [i \in DOMAIN order |-> Retx(Plus(vt_a, order[i]), part[i])] \in Seq(RetxEntries)
<1>1. limit \in Nat /\ \A k \in 0 .. limit - 1 : k \in 0 .. MOD
  BY Sizes, SMT
<1>2. IsFiniteSet(0 .. limit - 1)
  BY <1>1, FS_Interval, SMT
<1>3. Cardinality(offsets) \in Nat
  BY <1>2, FS_Subset, FS_CardinalityType
<1>4. vt_a \in SN
  BY WindowSize
<1>5. \A i \in 1 .. Cardinality(offsets) : Retx(Plus(vt_a, order[i]), part[i]) \in RetxEntries
  BY <1>1, <1>4, PlusType, RetxType
<1>6. [i \in DOMAIN order |-> Retx(Plus(vt_a, order[i]), part[i])]
         \in [1 .. Cardinality(offsets) -> RetxEntries]
  BY <1>5
<1> QED BY <1>3, <1>6, SeqDef

\* When vt_a moves up by k, the window loses its first k PDUs and keeps the rest as they are.
LEMMA VtAMoves ==
    ASSUME TxIInv, NEW k \in 0 .. TX_OFFSET(vt_s), vt_a' = Plus(vt_a, k),
           tx_window' = Without(tx_window, Span(vt_a, k)),
           UNCHANGED <<vt_s, tx_sdu, sent>>
    PROVE  /\ vt_a' \in SN /\ TX_OFFSET(vt_s)' = TX_OFFSET(vt_s) - k
           /\ TxWindowContiguous'
           /\ DOMAIN tx_window' \subseteq DOMAIN tx_window
           /\ \A s \in DOMAIN tx_window' : tx_window'[s] = tx_window[s]
<1>1. /\ vt_a \in SN /\ vt_s \in SN /\ TX_OFFSET(vt_s) \in 0 .. MOD - 1 /\ sent \in Nat
      /\ DOMAIN tx_window = Span(vt_a, TX_OFFSET(vt_s)) /\ tx_sdu \in Nat
  BY WindowSize
<1> DEFINE j == TX_OFFSET(vt_s)
<1>2. j \in 0 .. MOD - 1 /\ k \in 0 .. j
  BY <1>1
<1>3. j = Offset(vt_s, vt_a)
  BY DEF TX_OFFSET
<1> HIDE DEF j
<1>4. /\ Plus(vt_a, k) \in SN
      /\ Span(Plus(vt_a, k), j - k) = Span(vt_a, j) \ Span(vt_a, k)
      /\ \A x \in SN : k <= Offset(x, vt_a) => Offset(x, Plus(vt_a, k)) = Offset(x, vt_a) - k
  BY <1>1, <1>2, SpanShrinks
<1>5. TX_OFFSET(vt_s)' = j - k
  BY <1>1, <1>2, <1>3, <1>4 DEF TX_OFFSET
<1>6. /\ DOMAIN tx_window' = DOMAIN tx_window \ Span(vt_a, k)
      /\ \A s \in DOMAIN tx_window' : tx_window'[s] = tx_window[s]
  BY DEF Without
<1>7. DOMAIN tx_window' = Span(vt_a', TX_OFFSET(vt_s)')
  BY <1>1, <1>4, <1>5, <1>6 DEF j
<1>8. ASSUME NEW s \in DOMAIN tx_window'
      PROVE  tx_window'[s].n = sent' - (TX_OFFSET(vt_s)' - TX_OFFSET(s)')
  <2>1. s \in DOMAIN tx_window /\ s \in SN /\ ~(Offset(s, vt_a) < k)
    BY <1>1, <1>6 DEF Span
  <2>2. tx_window'[s].n = sent - (TX_OFFSET(vt_s) - TX_OFFSET(s))
    BY <1>6, <2>1 DEF TxIInv, TxWindowContiguous
  <2>3. Offset(s, vt_a) \in 0 .. MOD - 1
    BY <1>1, <2>1, OffsetType
  <2>4. k <= Offset(s, vt_a)
    BY <1>2, <2>1, <2>3, SMT
  <2>5. TX_OFFSET(s)' = TX_OFFSET(s) - k
    BY <1>4, <2>1, <2>4 DEF TX_OFFSET
  <2>6. TX_OFFSET(s) \in 0 .. MOD - 1
    BY <2>3 DEF TX_OFFSET
  <2>7. sent' = sent /\ TX_OFFSET(vt_s)' = TX_OFFSET(vt_s) - k
    BY <1>5 DEF j
  <2>8. sent' - (TX_OFFSET(vt_s)' - TX_OFFSET(s)') = sent - (TX_OFFSET(vt_s) - TX_OFFSET(s))
    BY <1>1, <1>2, <2>5, <2>6, <2>7, SMT
  <2> QED BY <2>2, <2>8
<1>9. \E size \in SDU_SIZES : TX_OFFSET(vt_s)' + tx_sdu' < WINDOW + size
  <2>1. PICK size \in SDU_SIZES : TX_OFFSET(vt_s) + tx_sdu < WINDOW + size
    BY DEF TxIInv, TxWindowContiguous
  <2>2. size \in 1 .. WINDOW
    BY SduSizes
  <2>3. j + tx_sdu < WINDOW + size
    BY <2>1 DEF j
  <2>4. j - k + tx_sdu < WINDOW + size
    BY <1>1, <1>2, <2>2, <2>3, Sizes, SMT
  <2> QED BY <1>5, <2>4
<1>10. TxWindowContiguous'
  BY <1>7, <1>8, <1>9 DEF TxWindowContiguous
<1> QED BY <1>4, <1>5, <1>6, <1>10 DEF j

LEMMA StoppedType ==
    ASSUME NEW timer \in Timers3
    PROVE  Stopped(timer) \in Timers3
BY DEF Stopped, Timers3

LEMMA HandleControlPduTxIInv ==
    ASSUME TxIInv, NEW status, status.ack_sn \in SN, HandleControlPdu(status)
    PROVE  TxIInv'
<1> DEFINE limit   == StatusLimit(status.ack_sn)
           flushed == IF status.nacks # {} THEN << >> ELSE retx_queue
           offsets == { i \in 0 .. limit - 1 : Plus(vt_a, i) \in status.nacks \cap DOMAIN tx_window }
<1>1. limit \in 0 .. TX_OFFSET(vt_s) /\ limit \in 0 .. MOD - 1
  BY StatusLimitType
<1>2. PICK run \in AckedRun(limit, status.nacks) :
         tx_window' = Without(tx_window, Span(vt_a, run)) /\ vt_a' = Plus(vt_a, run)
  BY Zenon DEF HandleControlPdu
<1>3. PICK order \in [1 .. Cardinality(offsets) -> offsets] :
         \E part \in [DOMAIN order -> PARTS] :
            retx_queue' = flushed \o [i \in DOMAIN order |-> Retx(Plus(vt_a, order[i]), part[i])]
  BY Zenon DEF HandleControlPdu
<1>parts. PICK part \in [DOMAIN order -> PARTS] :
          retx_queue' = flushed \o [i \in DOMAIN order |-> Retx(Plus(vt_a, order[i]), part[i])]
  BY <1>3
<1>4. /\ poll_retx_timer' = Stopped(poll_retx_timer)
      /\ UNCHANGED <<tx_enabled, vt_s, tx_sdu, tx_sdu_queue, pdu_without_poll,
                     max_retx, written, sent>>
  BY Zenon DEF HandleControlPdu
<1>5. run \in 0 .. TX_OFFSET(vt_s)
  <2>1. run \in 0 .. limit
    BY <1>2 DEF AckedRun
  <2>2. TX_OFFSET(vt_s) \in 0 .. MOD - 1
    BY WindowSize
  <2> HIDE DEF limit
  <2> QED BY <1>1, <2>1, <2>2, SMT
<1>6. offsets \in SUBSET (0 .. limit - 1)
  OBVIOUS
<1>7. retx_queue' \in Seq(RetxEntries)
  <2>1. flushed \in Seq(RetxEntries)
    BY EmptySeq DEF TxIInv, TxTypeOK
  <2> HIDE DEF limit, flushed, offsets
  <2>2. [i \in DOMAIN order |-> Retx(Plus(vt_a, order[i]), part[i])] \in Seq(RetxEntries)
    BY <1>1, <1>6, NackedRetx
  <2> QED BY <1>parts, <2>1, <2>2, ConcatProperties
<1> HIDE DEF limit, flushed, offsets
<1>8. /\ vt_a' \in SN /\ TX_OFFSET(vt_s)' = TX_OFFSET(vt_s) - run
      /\ TxWindowContiguous'
      /\ DOMAIN tx_window' \subseteq DOMAIN tx_window
      /\ \A s \in DOMAIN tx_window' : tx_window'[s] = tx_window[s]
  BY <1>2, <1>4, <1>5, VtAMoves
<1>9. poll_retx_timer' \in Timers3
  BY <1>4, StoppedType DEF TxIInv, TxTypeOK, Timers3
<1>10. TxTypeOK'
  BY <1>4, <1>7, <1>8, <1>9 DEF TxIInv, TxTypeOK, Timers3
<1>11. TX_OFFSET(vt_s)' <= sent'
  <2>1. TX_OFFSET(vt_s) \in 0 .. MOD - 1 /\ sent \in Nat /\ TX_OFFSET(vt_s) <= sent /\ sent' = sent
    BY <1>4, WindowSize DEF TxIInv
  <2> QED BY <1>5, <1>8, <2>1, SMT
<1> QED BY <1>4, <1>8, <1>10, <1>11 DEF TxIInv

-----------------------------------------------------------------------------
(***************************************************************************)
(* The other handlers.                                                     *)
(***************************************************************************)
LEMMA WriteSduTxIInv ==
    ASSUME TxIInv, NEW size \in SDU_SIZES, WriteSdu(size)
    PROVE  TxIInv'
<1>1. tx_sdu_queue' = Append(tx_sdu_queue, size) /\ written' = written + size
  BY Zenon DEF WriteSdu
<1>2. tx_sdu_queue' \in Seq(SDU_SIZES) /\ tx_sdu_queue' \in Seq(Nat \ {0})
  <2>1. tx_sdu_queue \in Seq(SDU_SIZES)
    BY DEF TxIInv
  <2>2. tx_sdu_queue' \in Seq(SDU_SIZES)
    BY <1>1, <2>1, AppendProperties
  <2> QED BY <2>2, SduSizes
<1>3. written' \in Nat
  BY <1>1, SduSizes, SMT DEF TxIInv, TxTypeOK
<1>4. TxTypeOK'
  BY <1>2, <1>3 DEF WriteSdu, TxIInv, TxTypeOK
<1> QED BY <1>2, <1>4 DEF WriteSdu, TxIInv, TxWindowContiguous, TX_OFFSET

LEMMA PollRetxTimerExpiredTxIInv ==
    ASSUME TxIInv, PollRetxTimerExpired
    PROVE  TxIInv'
<1>1. /\ poll_retx_timer' = "expired"
      /\ retx_queue' \in RetransmitRandomPdu(retx_queue) \/ retx_queue' = retx_queue
      /\ UNCHANGED <<tx_enabled, vt_a, vt_s, tx_sdu, tx_sdu_queue, tx_window,
                     pdu_without_poll, max_retx, written, sent>>
  BY Zenon DEF PollRetxTimerExpired
<1>2. retx_queue' \in Seq(RetxEntries)
  BY <1>1, RandomPduType DEF TxIInv, TxTypeOK
<1>3. TxTypeOK'
  BY <1>1, <1>2 DEF TxIInv, TxTypeOK
<1> QED BY <1>1, <1>3 DEF TxIInv, TxWindowContiguous, TX_OFFSET

LEMMA TxReestablishTxIInv ==
    ASSUME TxIInv, TxReestablish
    PROVE  TxIInv'
<1>1. 0 \in SN /\ Offset(0, 0) = 0 /\ Span(0, 0) = {}
  <2>1. 0 \in SN /\ Offset(0, 0) = 0
    BY Sizes, OffsetOfSelf
  <2>2. \A x \in SN : Offset(x, 0) \in 0 .. MOD - 1
    BY <2>1, OffsetType
  <2> QED BY <2>1, <2>2, SMT DEF Span
<1>2. << >> \in Seq(Nat \ {0}) /\ << >> \in Seq(SDU_SIZES) /\ << >> \in Seq(RetxEntries)
      /\ DOMAIN EmptyMap = {}
  BY SMT DEF EmptyMap
<1>3. \E size \in SDU_SIZES : 0 + 0 < WINDOW + size
  <2>1. PICK size \in SDU_SIZES : TRUE
    BY TxAssumption
  <2> QED BY <2>1, SduSizes, Sizes, SMT
<1>4. poll_retx_timer' \in Timers3
  BY StoppedType DEF TxReestablish, TxIInv, TxTypeOK, Timers3
<1>5. TxTypeOK'
  BY <1>1, <1>2, <1>4 DEF TxReestablish, TxTypeOK, Timers3
<1>6. TxWindowContiguous'
  BY <1>1, <1>2, <1>3 DEF TxReestablish, TxWindowContiguous, TX_OFFSET
<1> QED BY <1>1, <1>2, <1>5, <1>6 DEF TxReestablish, TxIInv, TX_OFFSET

LEMMA TxStateKept ==
    ASSUME TxIInv, UNCHANGED txState
    PROVE  TxIInv'
BY DEF txState, TxIInv, TxTypeOK, TxWindowContiguous, TX_OFFSET

LEMMA TxInductive == TxSpec => []TxIInv
<1>1. ASSUME TxIInv, [TxNext]_txVars PROVE TxIInv'
  <2>1. ASSUME NEW size \in SDU_SIZES, WriteSdu(size) PROVE TxIInv'
    BY <1>1, <2>1, WriteSduTxIInv
  <2>2. ASSUME NEW grant \in GRANTS, TxGrant(grant) PROVE TxIInv'
    BY <1>1, <2>2, ReadPduTxIInv DEF TxGrant
  <2>3. CASE MacTakesPdu \/ UNCHANGED txVars
    BY <1>1, <2>3, TxStateKept DEF MacTakesPdu, txVars
  <2>4. CASE PollRetxTimerExpired
    BY <1>1, <2>4, PollRetxTimerExpiredTxIInv
  <2>5. ASSUME NEW status \in StatusPdus, HandleControlPdu(status) PROVE TxIInv'
    <3>1. status.ack_sn \in SN
      BY DEF StatusPdus
    <3> QED BY <1>1, <2>5, <3>1, HandleControlPduTxIInv
  <2>6. CASE TxReestablish
    BY <1>1, <2>6, TxReestablishTxIInv
  <2> QED BY <1>1, <2>1, <2>2, <2>3, <2>4, <2>5, <2>6, Zenon DEF TxNext
<1> QED BY <1>1, InitTxIInv, PTL DEF TxSpec

(***************************************************************************)
(* For every window, SDU size, set of grants and peer: each handler of the *)
(* transmitter keeps the types of its state; sequence numbers stay in the  *)
(* 10-bit space (MOD), and retx_count never passes cfg.max_retx_thresh.    *)
(***************************************************************************)
THEOREM TxTypeCorrect == TxSpec => []TxTypeOK
<1>1. TxIInv => TxTypeOK
  BY DEF TxIInv
<1> QED BY <1>1, TxInductive, PTL

(***************************************************************************)
(* For every window, SDU size, set of grants and peer: tx_window holds the *)
(* PDUs from vt_a up to vt_s, each with the payload sent under its number, *)
(* whatever handle_control_pdu is told and however the numbers wrap; it    *)
(* outgrows RLC_AM_WINDOW_SIZE by the rest of one SDU at most.             *)
(***************************************************************************)
THEOREM TxWindowAlwaysContiguous == TxSpec => []TxWindowContiguous
<1>1. TxIInv => TxWindowContiguous
  BY DEF TxIInv
<1> QED BY <1>1, TxInductive, PTL

\* A retransmission of the queue that read_pdu works on is carried or waits on.
LEMMA QueueServed ==
    ASSUME NEW grant, NEW queue \in Seq(RetxEntries), NEW i \in DOMAIN queue, dl = << >>,
           \/ BuildDataPdu(grant, queue, pdu_without_poll, poll_retx_timer)
           \/ RetxWholePdu(queue)
           \/ RetxSegment(grant, queue)
    PROVE  WaitsIn(queue[i], retx_queue') \/ (dl' # << >> /\ Carried(queue[i], dl'[1], retx_queue'))
<1>1. /\ Len(queue) \in Nat /\ i \in 1 .. Len(queue) /\ queue # << >>
      /\ Head(queue) = queue[1] /\ queue[1] \in RetxEntries
      /\ Tail(queue) \in Seq(RetxEntries) /\ Len(Tail(queue)) = Len(queue) - 1
      /\ \A j \in 1 .. Len(Tail(queue)) : Tail(queue)[j] = queue[j + 1]
  <2>1. Len(queue) \in Nat /\ i \in 1 .. Len(queue) /\ queue # << >>
    BY LenProperties, EmptySeq, SMT
  <2>2. Head(queue) = queue[1]
    BY <2>1, SMT
  <2> QED BY <2>1, <2>2, HeadTailProperties
<1>2. CASE \E count, timer : BuildDataPdu(grant, queue, count, timer)
  <2>1. retx_queue' = queue
    BY <1>2, Zenon DEF BuildDataPdu
  <2> QED BY <2>1 DEF WaitsIn
<1>3. i # 1 => i - 1 \in 1 .. Len(Tail(queue)) /\ Tail(queue)[i - 1] = queue[i]
  <2>1. i # 1 => i - 1 \in 1 .. Len(Tail(queue)) /\ i - 1 + 1 = i
    BY <1>1, SMT
  <2> QED BY <1>1, <2>1
<1>4. CASE RetxWholePdu(queue)
  <2>1. PICK p, n : dl' = Append(dl, DataPdu(queue[1].sn, p, n))
    BY <1>1, <1>4, Zenon DEF RetxWholePdu, Transmit
  <2>2. retx_queue' = Tail(queue)
    BY <1>4, Zenon DEF RetxWholePdu
  <2>3. dl' # << >> /\ dl'[1] = DataPdu(queue[1].sn, p, n)
    BY <2>1, SMT
  <2>4. dl'[1].sn = queue[1].sn /\ dl'[1].rf = FALSE
    BY <2>3 DEF DataPdu
  <2>5. CASE i = 1
    BY <2>3, <2>4, <2>5 DEF Carried
  <2>6. CASE i # 1
    BY <1>1, <1>3, <2>2, <2>6, LenProperties DEF WaitsIn
  <2> QED BY <2>5, <2>6
<1>5. CASE RetxSegment(grant, queue)
  <2> DEFINE rest == [queue[1] EXCEPT !.is_segment = TRUE, !.so_start = @ + 1]
  <2>1. \/ \E count, timer : BuildDataPdu(grant, queue, count, timer)
        \/ \E p, n :
              /\ dl' = Append(dl, SegmentPdu(queue[1].sn, p, n, queue[1].so_start))
              /\ retx_queue' = IF queue[1].so_start + 1 = queue[1].so_end THEN Tail(queue)
                               ELSE <<rest>> \o Tail(queue)
    BY <1>1, <1>5, Zenon DEF RetxSegment, Transmit
  <2>2. ASSUME NEW p, NEW n,
               dl' = Append(dl, SegmentPdu(queue[1].sn, p, n, queue[1].so_start)),
               retx_queue' = IF queue[1].so_start + 1 = queue[1].so_end THEN Tail(queue)
                             ELSE <<rest>> \o Tail(queue)
        PROVE  \/ WaitsIn(queue[i], retx_queue')
               \/ dl' # << >> /\ Carried(queue[i], dl'[1], retx_queue')
    <3>1. dl' # << >> /\ dl'[1] = SegmentPdu(queue[1].sn, p, n, queue[1].so_start)
      BY <2>2, SMT
    <3>2. dl'[1].sn = queue[1].sn /\ dl'[1].so = queue[1].so_start
      BY <3>1 DEF SegmentPdu
    <3>3. CASE queue[1].so_start + 1 = queue[1].so_end
      <4>1. CASE i = 1
        BY <3>1, <3>2, <3>3, <4>1 DEF Carried
      <4>2. CASE i # 1
        BY <1>1, <1>3, <2>2, <3>3, <4>2, LenProperties DEF WaitsIn
      <4> QED BY <4>1, <4>2
    <3>4. CASE queue[1].so_start + 1 # queue[1].so_end
      <4> HIDE DEF rest
      <4>1. retx_queue' = <<rest>> \o Tail(queue)
        BY <2>2, <3>4
      <4>2. /\ DOMAIN retx_queue' = 1 .. Len(queue) /\ retx_queue'[1] = rest
            /\ i # 1 => retx_queue'[i] = queue[i]
        <5> DEFINE S == {rest} \cup RetxEntries
        <5>1. /\ <<rest>> \in Seq(S) /\ Tail(queue) \in Seq(S)
              /\ Len(<<rest>>) = 1 /\ <<rest>>[1] = rest
          BY <1>1, SeqMonotonic, SMT
        <5> HIDE DEF S
        <5>2. /\ retx_queue' \in Seq(S) /\ Len(retx_queue') = 1 + Len(Tail(queue))
              /\ \A j \in 1 .. 1 + Len(Tail(queue)) :
                    retx_queue'[j] = IF j <= 1 THEN <<rest>>[j] ELSE Tail(queue)[j - 1]
          BY <4>1, <5>1, ConcatProperties
        <5>3. 1 + Len(Tail(queue)) = Len(queue) /\ 1 \in 1 .. Len(queue)
          BY <1>1, SMT
        <5>4. DOMAIN retx_queue' = 1 .. Len(queue)
          BY <5>2, <5>3, LenProperties
        <5>5. retx_queue'[1] = rest
          BY <5>1, <5>2, <5>3, SMT
        <5>6. i # 1 => ~(i <= 1)
          BY <1>1, SMT
        <5> QED BY <1>1, <1>3, <5>2, <5>3, <5>4, <5>5, <5>6
      <4>3. CASE i = 1
        <5>1. 1 \in DOMAIN retx_queue'
          BY <1>1, <4>2, <4>3
        <5>2. WaitsIn(rest, retx_queue')
          BY <4>2, <5>1 DEF WaitsIn
        <5> QED BY <3>1, <3>2, <4>3, <5>2 DEF Carried, rest
      <4>4. CASE i # 1
        BY <1>1, <4>2, <4>4 DEF WaitsIn
      <4> QED BY <4>3, <4>4
    <3> QED BY <3>3, <3>4
  <2> QED BY <1>2, <2>1, <2>2
<1> QED BY <1>2, <1>4, <1>5

(***************************************************************************)
(* For every window, SDU size, set of grants and peer: a grant with room   *)
(* for a segment carries new data only when nothing is left to retransmit, *)
(* and read_pdu loses nothing of a due retransmission whatever the grant:  *)
(* neither when it splits a PDU nor when it drops the stale ones before it.*)
(***************************************************************************)
THEOREM RetxAlwaysFirst == TxSpec => RetxBeforeNewData
<1> DEFINE First(grant) == sent' > sent /\ grant # "data" => retx_queue' = << >>
           Kept(i) == retx_queue[i].sn \in DOMAIN tx_window =>
                         \/ WaitsIn(retx_queue[i], retx_queue')
                         \/ dl' # << >> /\ Carried(retx_queue[i], dl'[1], retx_queue')
<1>1. ASSUME TxIInv, NEW grant \in GRANTS, TxGrant(grant)
      PROVE  First(grant) /\ \A i \in DOMAIN retx_queue : Kept(i)
  <2>1. PICK queue \in Seq(RetxEntries) :
           /\ AllDue(queue)
           /\ \/ /\ ~RetxRequired(queue)
                 /\ BuildDataPdu(grant, queue, pdu_without_poll, poll_retx_timer)
              \/ RetxWholePdu(queue)
              \/ RetxSegment(grant, queue)
    <3>1. ReadPdu(grant)
      BY <1>1 DEF TxGrant
    <3> QED BY <1>1, <3>1, Scheduled
  <2>2. ASSUME sent' > sent, grant # "data" PROVE retx_queue' = << >>
    <3>1. sent' # sent
      <4>1. sent \in Nat
        BY <1>1 DEF TxIInv, TxTypeOK
      <4> QED BY <2>2, <4>1, SMT
    <3>2. CASE /\ ~RetxRequired(queue)
               /\ BuildDataPdu(grant, queue, pdu_without_poll, poll_retx_timer)
      <4>1. retx_queue' = queue /\ queue = << >>
        BY <3>2, Zenon DEF RetxRequired, BuildDataPdu
      <4> QED BY <4>1
    <3>3. ~RetxWholePdu(queue)
      BY <3>1, Zenon DEF RetxWholePdu
    <3>4. ~RetxSegment(grant, queue)
      <4>1. grant = "tiny" \/ grant \in {"seg", "full"}
        BY <1>1, <2>2, TxAssumption
      <4>2. CASE grant = "tiny"
        BY <3>1, <4>2, Zenon DEF RetxSegment, BuildDataPdu, NothingToBuild
      <4>3. CASE grant \in {"seg", "full"}
        <5>1. grant \notin {"tiny", "data"}
          BY <4>3
        <5> QED BY <3>1, <5>1, Zenon DEF RetxSegment
      <4> QED BY <4>1, <4>2, <4>3
    <3> QED BY <2>1, <3>2, <3>3, <3>4
  <2>3. ASSUME NEW i \in DOMAIN retx_queue PROVE Kept(i)
    <3> SUFFICES ASSUME retx_queue[i].sn \in DOMAIN tx_window
                 PROVE  \/ WaitsIn(retx_queue[i], retx_queue')
                        \/ dl' # << >> /\ Carried(retx_queue[i], dl'[1], retx_queue')
      OBVIOUS
    <3>1. PICK j \in DOMAIN queue : queue[j] = retx_queue[i]
      BY <2>1 DEF AllDue, WaitsIn
    <3>2. dl = << >>
      BY <1>1 DEF TxGrant
    <3>3. \/ BuildDataPdu(grant, queue, pdu_without_poll, poll_retx_timer)
          \/ RetxWholePdu(queue)
          \/ RetxSegment(grant, queue)
      BY <2>1, Zenon
    <3>4. \/ WaitsIn(queue[j], retx_queue')
          \/ dl' # << >> /\ Carried(queue[j], dl'[1], retx_queue')
      <4> HIDE DEF Kept, First
      <4> QED BY <3>2, <3>3, QueueServed
    <3> QED BY <3>1, <3>4
  <2> QED BY <2>2, <2>3
<1>2. ASSUME TxIInv, [TxNext]_txVars
      PROVE  [\A grant \in GRANTS : (retx_queue # << >> \/ sent' > sent) /\ TxGrant(grant) =>
                /\ sent' > sent /\ grant # "data" => retx_queue' = << >>
                /\ \A i \in DOMAIN retx_queue : retx_queue[i].sn \in DOMAIN tx_window =>
                      \/ WaitsIn(retx_queue[i], retx_queue')
                      \/ dl' # << >> /\ Carried(retx_queue[i], dl'[1], retx_queue')]_txVars
  BY <1>1, <1>2
<1> QED BY <1>2, TxInductive, PTL DEF TxSpec, RetxBeforeNewData

-----------------------------------------------------------------------------
(***************************************************************************)
(* When the window is not outgrown at all.  build_data_pdu tests it only   *)
(* when it starts an SDU, so an SDU that takes several PDUs may outgrow it;*)
(* but with the window full read_pdu has a retransmission to do first, and *)
(* comes to new data only if the grant has no room for the header of a     *)
(* segment and yet has room for a new PDU.                                 *)
(***************************************************************************)
WithinWindow == TX_OFFSET(vt_s) <= WINDOW

\* Every SDU fits into one PDU, or no grant has room for new data only.
WindowTested == SDU_SIZES = {1} \/ "data" \notin GRANTS

InWindow(queue) == \A i \in 1 .. Len(queue) : queue[i].sn \in DOMAIN tx_window

\* A retransmission that has been acknowledged meanwhile has made room in the window.
WithinIInv ==
    /\ WithinWindow
    /\ SDU_SIZES = {1} => tx_sdu = 0
    /\ "data" \notin GRANTS => InWindow(retx_queue) \/ TX_OFFSET(vt_s) < WINDOW

LEMMA RandomPduInWindow ==
    ASSUME TxTypeOK, NEW queue \in Seq(RetxEntries), NEW new \in RetransmitRandomPdu(queue)
    PROVE  /\ InWindow(queue) => InWindow(new)
           /\ DOMAIN tx_window # {} => new # << >>
<1>1. CASE tx_window = EmptyMap
  <2>1. new = queue /\ DOMAIN tx_window = {}
    BY <1>1, SMT DEF RetransmitRandomPdu, EmptyMap
  <2> QED BY <2>1
<1>2. CASE tx_window # EmptyMap
  <2>1. PICK s \in DOMAIN tx_window : new = Append(queue, Retx(s, Whole))
    BY <1>2 DEF RetransmitRandomPdu
  <2>2. s \in SN /\ Retx(s, Whole).sn = s
    BY DEF TxTypeOK, Retx
  <2>3. /\ new # << >> /\ Len(new) = Len(queue) + 1
        /\ \A i \in 1 .. Len(queue) : new[i] = queue[i]
        /\ new[Len(queue) + 1] = Retx(s, Whole)
    BY <2>1, <2>2, RetxType, WholeIsPart, AppendProperties
  <2>4. \A i \in 1 .. Len(queue) + 1 : i \in 1 .. Len(queue) \/ i = Len(queue) + 1
    <3>1. Len(queue) \in Nat
      BY LenProperties
    <3> QED BY <3>1, SMT
  <2> QED BY <2>1, <2>2, <2>3, <2>4 DEF InWindow
<1> QED BY <1>1, <1>2

LEMMA NothingStale ==
    ASSUME NEW queue \in Seq(RetxEntries), InWindow(queue), NEW new \in DropStale(queue)
    PROVE  new = queue
<1>1. PICK k \in 0 .. Len(queue) :
         /\ new = SubSeq(queue, k + 1, Len(queue))
         /\ \A i \in 1 .. k : queue[i].sn \notin DOMAIN tx_window
  BY DEF DropStale
<1>2. Len(queue) \in Nat
  BY LenProperties
<1>3. ~(1 \in 1 .. k)
  <2> SUFFICES ASSUME 1 \in 1 .. k PROVE FALSE
    OBVIOUS
  <2>1. 1 \in 1 .. Len(queue)
    BY <1>2, SMT
  <2> QED BY <1>1, <2>1 DEF InWindow
<1>4. k + 1 = 1
  BY <1>2, <1>3, SMT
<1> QED BY <1>1, <1>4, SubSeqFull

LEMMA BuildWithin ==
    ASSUME TxIInv, TxIInv', WithinIInv, WindowTested,
           NEW grant, NEW queue, NEW count, NEW timer,
           BuildDataPdu(grant, queue, count, timer),
           "data" \notin GRANTS => InWindow(queue) \/ TX_OFFSET(vt_s) < WINDOW,
           "data" \notin GRANTS /\ ~NothingToBuild(grant) => queue = << >> /\ ~WindowFull
    PROVE  WithinIInv'
<1>1. /\ vt_a \in SN /\ vt_s \in SN /\ TX_OFFSET(vt_s) \in 0 .. MOD - 1
      /\ WindowFull <=> TX_OFFSET(vt_s) >= WINDOW
  BY WindowSize
<1>2. retx_queue' = queue /\ vt_a' = vt_a
  BY Zenon DEF BuildDataPdu
<1>3. CASE NothingToBuild(grant)
  <2>1. UNCHANGED <<vt_s, tx_sdu, tx_window>>
    BY <1>3, Zenon DEF BuildDataPdu
  <2> QED BY <1>2, <2>1 DEF WithinIInv, WithinWindow, InWindow, TX_OFFSET
<1>4. CASE ~NothingToBuild(grant)
  <2>1. /\ vt_s' = Plus(vt_s, 1)
        /\ tx_sdu' = (IF tx_sdu = 0 THEN Head(tx_sdu_queue) ELSE tx_sdu) - 1
    BY <1>4, Zenon DEF BuildDataPdu
  <2>2. ~WindowFull
    BY <1>4 DEF WithinIInv, WindowTested, NothingToBuild
  <2>3. TX_OFFSET(vt_s) + 1 < MOD
    BY <1>4, NextOfSdu
  <2>4. TX_OFFSET(vt_s)' = TX_OFFSET(vt_s) + 1
    BY <1>1, <1>2, <2>1, <2>3, SpanGrows DEF TX_OFFSET
  <2>5. WithinWindow'
    <3>1. TX_OFFSET(vt_s) + 1 <= WINDOW
      BY <1>1, <2>2, Sizes, SMT
    <3> QED BY <2>4, <3>1 DEF WithinWindow
  <2>6. SDU_SIZES = {1} => tx_sdu' = 0
    <3> SUFFICES ASSUME SDU_SIZES = {1} PROVE tx_sdu' = 0
      OBVIOUS
    <3>1. tx_sdu = 0 /\ tx_sdu_queue # << >> /\ tx_sdu_queue \in Seq({1})
      BY <1>4 DEF WithinIInv, NothingToBuild, TxIInv
    <3>2. Head(tx_sdu_queue) = 1
      BY <3>1, HeadTailProperties
    <3> QED BY <2>1, <3>1, <3>2, SMT
  <2>7. "data" \notin GRANTS => InWindow(retx_queue)'
    <3>1. "data" \notin GRANTS => Len(queue) = 0
      BY <1>4, EmptySeq
    <3>2. 1 .. 0 = {}
      BY SMT
    <3> QED BY <1>2, <3>1, <3>2 DEF InWindow
  <2> QED BY <2>5, <2>6, <2>7 DEF WithinIInv
<1> QED BY <1>3, <1>4

LEMMA ReadPduWithin ==
    ASSUME TxIInv, TxIInv', WithinIInv, WindowTested, NEW grant \in GRANTS, ReadPdu(grant)
    PROVE  WithinIInv'
<1>1. PICK scheduled \in IF WindowFull /\ retx_queue = << >>
                         THEN RetransmitRandomPdu(retx_queue) ELSE {retx_queue} :
           \E queue \in DropStale(scheduled) :
              \/ /\ ~RetxRequired(queue)
                 /\ BuildDataPdu(grant, queue, pdu_without_poll, poll_retx_timer)
              \/ RetxRequired(queue) /\ RetxWholePdu(queue)
              \/ RetxRequired(queue) /\ RetxSegment(grant, queue)
  BY Zenon DEF ReadPdu
<1>2. PICK queue \in DropStale(scheduled) :
         \/ queue = << >> /\ BuildDataPdu(grant, queue, pdu_without_poll, poll_retx_timer)
         \/ queue # << >> /\ RetxWholePdu(queue)
         \/ queue # << >> /\ RetxSegment(grant, queue)
  BY <1>1 DEF RetxRequired
<1>3. TxTypeOK /\ retx_queue \in Seq(RetxEntries)
  BY DEF TxIInv, TxTypeOK
<1>4. scheduled \in Seq(RetxEntries) /\ queue \in Seq(RetxEntries)
  <2>1. scheduled \in Seq(RetxEntries)
    BY <1>1, <1>3, RandomPduType
  <2> QED BY <2>1, DropStaleFront
<1>5. /\ vt_a \in SN /\ vt_s \in SN /\ TX_OFFSET(vt_s) \in 0 .. MOD - 1
      /\ WindowFull <=> TX_OFFSET(vt_s) >= WINDOW
      /\ Cardinality(DOMAIN tx_window) = TX_OFFSET(vt_s)
  BY WindowSize
<1>6. InWindow(retx_queue) => InWindow(scheduled) /\ queue = scheduled
  <2>1. InWindow(retx_queue) => InWindow(scheduled)
    BY <1>1, <1>3, RandomPduInWindow
  <2> QED BY <1>4, <2>1, NothingStale
<1>7. "data" \notin GRANTS => InWindow(queue) \/ TX_OFFSET(vt_s) < WINDOW
  BY <1>6 DEF WithinIInv
<1>8. "data" \notin GRANTS /\ queue = << >> => ~WindowFull
  <2> SUFFICES ASSUME "data" \notin GRANTS, WindowFull PROVE queue # << >>
    OBVIOUS
  <2>1. ~(TX_OFFSET(vt_s) < WINDOW) /\ DOMAIN tx_window # {}
    <3>1. TX_OFFSET(vt_s) # 0 /\ ~(TX_OFFSET(vt_s) < WINDOW)
      BY <1>5, Sizes, SMT
    <3> QED BY <1>5, <3>1, FS_EmptySet
  <2>2. queue = scheduled
    BY <1>6, <2>1 DEF WithinIInv
  <2>3. scheduled # << >>
    BY <1>1, <1>3, <2>1, RandomPduInWindow
  <2> QED BY <2>2, <2>3
<1>9. ASSUME queue # << >>
      PROVE  /\ Head(queue) = queue[1] /\ 1 \in 1 .. Len(queue)
             /\ Len(Tail(queue)) = Len(queue) - 1 /\ Len(queue) \in Nat
             /\ \A i \in 1 .. Len(Tail(queue)) : i + 1 \in 1 .. Len(queue) /\ Tail(queue)[i] = queue[i + 1]
  <2>1. /\ Len(queue) \in Nat \ {0} /\ Len(Tail(queue)) = Len(queue) - 1
        /\ \A i \in 1 .. Len(Tail(queue)) : Tail(queue)[i] = queue[i + 1]
    BY <1>4, <1>9, HeadTailProperties, EmptySeq
  <2>2. 1 \in 1 .. Len(queue) /\ \A i \in 1 .. Len(queue) - 1 : i + 1 \in 1 .. Len(queue)
    BY <2>1, SMT
  <2>3. Head(queue) = queue[1]
    BY <1>4, <1>9, SMT
  <2> QED BY <2>1, <2>2, <2>3
<1>10. queue # << >> /\ InWindow(queue) => InWindow(Tail(queue)) /\ Head(queue).sn \in DOMAIN tx_window
  BY <1>9 DEF InWindow
<1>11. ASSUME UNCHANGED <<vt_a, vt_s, tx_sdu>>, DOMAIN tx_window' = DOMAIN tx_window,
              InWindow(queue) => InWindow(retx_queue')
       PROVE  WithinIInv'
  <2>1. InWindow(retx_queue') => InWindow(retx_queue)'
    BY <1>11 DEF InWindow
  <2> QED BY <1>7, <1>11, <2>1 DEF WithinIInv, WithinWindow, TX_OFFSET
<1>12. CASE queue = << >> /\ BuildDataPdu(grant, queue, pdu_without_poll, poll_retx_timer)
  BY <1>7, <1>8, <1>12, BuildWithin
<1>13. CASE queue # << >> /\ RetxWholePdu(queue)
  <2>1. /\ retx_queue' = Tail(queue) /\ UNCHANGED <<vt_a, vt_s, tx_sdu>>
        /\ DOMAIN tx_window' = DOMAIN tx_window
    BY <1>13, Zenon DEF RetxWholePdu
  <2> QED BY <1>10, <1>11, <1>13, <2>1
<1>14. CASE queue # << >> /\ RetxSegment(grant, queue)
  <2> DEFINE rest == [Head(queue) EXCEPT !.is_segment = TRUE,
                                         !.so_start = Head(queue).so_start + 1]
  <2>1. \/ grant \in {"tiny", "data"}
           /\ \E count, timer : BuildDataPdu(grant, queue, count, timer)
        \/ /\ retx_queue' = Tail(queue) \/ retx_queue' = <<rest>> \o Tail(queue)
           /\ UNCHANGED <<vt_a, vt_s, tx_sdu, tx_window>>
    BY <1>14, Zenon DEF RetxSegment
  <2>2. CASE grant \in {"tiny", "data"} /\ \E count, timer : BuildDataPdu(grant, queue, count, timer)
    <3>1. "data" \notin GRANTS => NothingToBuild(grant)
      BY <2>2 DEF NothingToBuild
    <3> QED BY <1>7, <2>2, <3>1, BuildWithin
  <2>3. CASE retx_queue' = Tail(queue) /\ UNCHANGED <<vt_a, vt_s, tx_sdu, tx_window>>
    BY <1>10, <1>11, <1>14, <2>3
  <2>4. CASE retx_queue' = <<rest>> \o Tail(queue) /\ UNCHANGED <<vt_a, vt_s, tx_sdu, tx_window>>
    <3>1. Head(queue) \in RetxEntries /\ Tail(queue) \in Seq(RetxEntries)
      BY <1>4, <1>14, HeadTailProperties
    <3>2. rest.sn = Head(queue).sn
      BY <3>1 DEF RetxEntries
    <3> HIDE DEF rest
    <3>3. /\ Len(retx_queue') = 1 + Len(Tail(queue)) /\ retx_queue'[1] = rest
          /\ Len(Tail(queue)) \in Nat
          /\ \A i \in 2 .. 1 + Len(Tail(queue)) : retx_queue'[i] = Tail(queue)[i - 1]
      <4> DEFINE S == {rest} \cup RetxEntries
      <4>1. <<rest>> \in Seq(S) /\ Tail(queue) \in Seq(S) /\ Len(<<rest>>) = 1 /\ <<rest>>[1] = rest
        BY <3>1, SeqMonotonic, SMT
      <4> HIDE DEF S
      <4>2. /\ Len(retx_queue') = 1 + Len(Tail(queue))
            /\ \A i \in 1 .. 1 + Len(Tail(queue)) :
                  retx_queue'[i] = IF i <= 1 THEN <<rest>>[i] ELSE Tail(queue)[i - 1]
        BY <2>4, <4>1, ConcatProperties
      <4>3. Len(Tail(queue)) \in Nat
        BY <3>1, LenProperties
      <4> QED BY <4>1, <4>2, <4>3, SMT
    <3>4. ASSUME InWindow(queue), NEW i \in 1 .. Len(retx_queue')
          PROVE  retx_queue'[i].sn \in DOMAIN tx_window
      <4>1. CASE i = 1
        BY <1>10, <1>14, <3>2, <3>3, <3>4, <4>1
      <4>2. CASE i # 1
        <5>1. i \in 2 .. 1 + Len(Tail(queue)) /\ i - 1 \in 1 .. Len(Tail(queue))
          BY <3>3, <4>2, SMT
        <5>2. Tail(queue)[i - 1].sn \in DOMAIN tx_window
          BY <1>10, <1>14, <3>4, <5>1 DEF InWindow
        <5> QED BY <3>3, <5>1, <5>2
      <4> QED BY <4>1, <4>2
    <3>5. InWindow(queue) => InWindow(retx_queue')
      BY <3>4 DEF InWindow
    <3> QED BY <1>11, <2>4, <3>5
  <2> QED BY <2>1, <2>2, <2>3, <2>4
<1> QED BY <1>2, <1>12, <1>13, <1>14

\* What handle_control_pdu schedules is in the window, and what it acknowledges makes room.
LEMMA HandleControlPduWithin ==
    ASSUME TxIInv, TxIInv', WithinIInv, NEW status, status.ack_sn \in SN,
           HandleControlPdu(status)
    PROVE  WithinIInv'
<1> DEFINE limit   == StatusLimit(status.ack_sn)
           flushed == IF status.nacks # {} THEN << >> ELSE retx_queue
           offsets == { i \in 0 .. limit - 1 : Plus(vt_a, i) \in status.nacks \cap DOMAIN tx_window }
<1>1. /\ limit \in 0 .. MOD - 1 /\ limit \in 0 .. TX_OFFSET(vt_s)
      /\ vt_a \in SN /\ vt_s \in SN /\ TX_OFFSET(vt_s) \in 0 .. MOD - 1
  BY StatusLimitType, WindowSize
<1>2. PICK run \in AckedRun(limit, status.nacks) :
         tx_window' = Without(tx_window, Span(vt_a, run)) /\ vt_a' = Plus(vt_a, run)
  BY Zenon DEF HandleControlPdu
<1>3. PICK order \in [1 .. Cardinality(offsets) -> offsets] :
         \E part \in [DOMAIN order -> PARTS] :
            retx_queue' = flushed \o [i \in DOMAIN order |-> Retx(Plus(vt_a, order[i]), part[i])]
  BY Zenon DEF HandleControlPdu
<1>parts. PICK part \in [DOMAIN order -> PARTS] :
          retx_queue' = flushed \o [i \in DOMAIN order |-> Retx(Plus(vt_a, order[i]), part[i])]
  BY <1>3
<1>4. UNCHANGED <<vt_s, tx_sdu, sent>>
  BY Zenon DEF HandleControlPdu
<1> DEFINE new == [i \in DOMAIN order |-> Retx(Plus(vt_a, order[i]), part[i])]
<1>5. new \in Seq(RetxEntries) /\ flushed \in Seq(RetxEntries)
  <2>1. offsets \in SUBSET (0 .. limit - 1)
    OBVIOUS
  <2>2. flushed \in Seq(RetxEntries)
    BY EmptySeq DEF TxIInv, TxTypeOK
  <2> HIDE DEF limit, flushed, offsets
  <2>3. new \in Seq(RetxEntries)
    BY <1>1, <2>1, NackedRetx
  <2> QED BY <2>2, <2>3
<1>6. \A i \in DOMAIN new : new[i].sn \in DOMAIN tx_window
  BY DEF Retx
<1>7. InWindow(retx_queue) => InWindow(flushed)
  <2>1. Len(<< >>) = 0 /\ 1 .. 0 = {}
    BY SMT
  <2> QED BY <2>1 DEF InWindow
<1> HIDE DEF limit, flushed, offsets
<1>8. retx_queue' = flushed \o new
  BY <1>parts
<1> HIDE DEF new
<1>9. InWindow(retx_queue) => InWindow(retx_queue')
  <2> SUFFICES ASSUME InWindow(retx_queue), NEW i \in 1 .. Len(retx_queue')
               PROVE  retx_queue'[i].sn \in DOMAIN tx_window
    BY DEF InWindow
  <2>1. /\ Len(retx_queue') = Len(flushed) + Len(new)
        /\ \A j \in 1 .. Len(flushed) + Len(new) :
              retx_queue'[j] = IF j <= Len(flushed) THEN flushed[j] ELSE new[j - Len(flushed)]
        /\ Len(flushed) \in Nat /\ Len(new) \in Nat /\ DOMAIN new = 1 .. Len(new)
    BY <1>5, <1>8, ConcatProperties, LenProperties
  <2>2. CASE i <= Len(flushed)
    <3>1. i \in 1 .. Len(flushed)
      BY <2>1, <2>2, SMT
    <3>2. flushed[i].sn \in DOMAIN tx_window
      BY <1>7, <3>1 DEF InWindow
    <3> QED BY <2>1, <2>2, <3>2
  <2>3. CASE ~(i <= Len(flushed))
    <3>1. i - Len(flushed) \in DOMAIN new
      BY <2>1, <2>3, SMT
    <3> QED BY <1>6, <2>1, <2>3, <3>1
  <2> QED BY <2>2, <2>3
<1>10. run \in 0 .. TX_OFFSET(vt_s)
  <2>1. run \in 0 .. limit
    BY <1>2 DEF AckedRun
  <2> QED BY <1>1, <2>1, SMT
<1>11. TX_OFFSET(vt_s)' = TX_OFFSET(vt_s) - run
  BY <1>2, <1>4, <1>10, VtAMoves
<1>12. PICK o \in 0 .. MOD - 1 : o = TX_OFFSET(vt_s)
  BY <1>1
<1>13. o - run <= WINDOW /\ (run # 0 \/ o < WINDOW => o - run < WINDOW)
  <2>1. o <= WINDOW /\ run \in 0 .. o
    BY <1>10, <1>12 DEF WithinIInv, WithinWindow
  <2> QED BY <2>1, Sizes, SMT
<1>14. ASSUME run = 0, InWindow(retx_queue) PROVE InWindow(retx_queue)'
  <2>1. \A x \in SN : Offset(x, vt_a) \in 0 .. MOD - 1
    BY <1>1, OffsetType
  <2>2. Span(vt_a, run) = {}
    BY <1>14, <2>1, SMT DEF Span
  <2>3. DOMAIN tx_window' = DOMAIN tx_window
    BY <1>2, <2>2 DEF Without
  <2> QED BY <1>9, <1>14, <2>3 DEF InWindow
<1>15. TX_OFFSET(vt_s)' = o - run
  BY <1>11, <1>12
<1>16. WithinWindow'
  BY <1>13, <1>15 DEF WithinWindow
<1>17. "data" \notin GRANTS => InWindow(retx_queue)' \/ TX_OFFSET(vt_s)' < WINDOW
  BY <1>12, <1>13, <1>14, <1>15 DEF WithinIInv
<1> QED BY <1>4, <1>16, <1>17 DEF WithinIInv

LEMMA OtherTxWithin ==
    ASSUME TxIInv, WithinIInv,
           \/ \E size \in SDU_SIZES : WriteSdu(size)
           \/ PollRetxTimerExpired
           \/ TxReestablish
           \/ UNCHANGED txState
    PROVE  WithinIInv'
<1>1. CASE \E size \in SDU_SIZES : WriteSdu(size)
  <2>1. UNCHANGED <<vt_a, vt_s, tx_sdu, tx_window, retx_queue>>
    BY <1>1, Zenon DEF WriteSdu
  <2> QED BY <2>1 DEF WithinIInv, WithinWindow, InWindow, TX_OFFSET
<1>2. CASE PollRetxTimerExpired
  <2>1. /\ retx_queue' \in RetransmitRandomPdu(retx_queue) \/ retx_queue' = retx_queue
        /\ UNCHANGED <<vt_a, vt_s, tx_sdu, tx_window>>
    BY <1>2, Zenon DEF PollRetxTimerExpired
  <2>2. InWindow(retx_queue) => InWindow(retx_queue')
    BY <2>1, RandomPduInWindow DEF TxIInv, TxTypeOK
  <2>3. InWindow(retx_queue') => InWindow(retx_queue)'
    BY <2>1 DEF InWindow
  <2> QED BY <2>1, <2>2, <2>3 DEF WithinIInv, WithinWindow, TX_OFFSET
<1>3. CASE TxReestablish
  <2>1. 0 \in SN /\ 0 <= WINDOW /\ 1 .. 0 = {} /\ Len(<< >>) = 0
    BY Sizes, SMT DEF SN
  <2>2. Offset(0, 0) = 0
    BY <2>1, OffsetOfSelf
  <2> QED BY <1>3, <2>1, <2>2 DEF TxReestablish, WithinIInv, WithinWindow, InWindow, TX_OFFSET
<1>4. CASE UNCHANGED txState
  BY <1>4 DEF txState, WithinIInv, WithinWindow, InWindow, TX_OFFSET
<1> QED BY <1>1, <1>2, <1>3, <1>4

LEMMA InitWithin == TxInit => WithinIInv
<1>1. 0 \in SN /\ 0 <= WINDOW /\ 1 .. 0 = {} /\ Len(<< >>) = 0
  BY Sizes, SMT DEF SN
<1>2. Offset(0, 0) = 0
  BY <1>1, OffsetOfSelf
<1> QED BY <1>1, <1>2 DEF TxInit, WithinIInv, WithinWindow, InWindow, TX_OFFSET

(***************************************************************************)
(* For every window and every peer: when each SDU fits into one PDU, or a  *)
(* grant for a new PDU also has room for the header of a segment, no more  *)
(* than RLC_AM_WINDOW_SIZE PDUs are sent and not acknowledged, although    *)
(* build_data_pdu does not test the window for the rest of an SDU.         *)
(***************************************************************************)
THEOREM TxStaysWithinWindow ==
    ASSUME WindowTested
    PROVE  TxSpec => []WithinWindow
<1>1. ASSUME TxIInv, TxIInv', WithinIInv, [TxNext]_txVars PROVE WithinIInv'
  <2>1. ASSUME NEW grant \in GRANTS, TxGrant(grant) PROVE WithinIInv'
    BY <1>1, <2>1, ReadPduWithin DEF TxGrant
  <2>2. ASSUME NEW status \in StatusPdus, HandleControlPdu(status) PROVE WithinIInv'
    <3>1. status.ack_sn \in SN
      BY DEF StatusPdus
    <3> QED BY <1>1, <2>2, <3>1, HandleControlPduWithin
  <2>3. CASE \/ \E size \in SDU_SIZES : WriteSdu(size)
             \/ PollRetxTimerExpired \/ TxReestablish
             \/ MacTakesPdu \/ UNCHANGED txVars
    BY <1>1, <2>3, OtherTxWithin DEF MacTakesPdu, txVars
  <2> QED BY <1>1, <2>1, <2>2, <2>3, Zenon DEF TxNext
<1>2. WithinIInv => WithinWindow
  BY DEF WithinIInv
<1> QED BY <1>1, <1>2, InitWithin, TxInductive, PTL DEF TxSpec
=============================================================================
