-------------------------- MODULE RlcAmLink_proofs --------------------------
(***************************************************************************)
(* Proofs about an RLC AM link (RlcAmLink), for every window size, loss    *)
(* and delay: the transmitter and the receiver of RlcAmTx_proofs and       *)
(* RlcAmRx_proofs, with the PDUs under way between them.                   *)
(***************************************************************************)
EXTENDS RlcAmLink, RlcAmTx_proofs

-----------------------------------------------------------------------------
(***************************************************************************)
(* Sequence numbers of payloads: payload n has number n % MOD.             *)
(***************************************************************************)
LEMMA ModSum ==
    ASSUME NEW x \in Nat
    PROVE  /\ x % MOD \in SN
           /\ \A k \in 0 .. MOD : (x + k) % MOD = Plus(x % MOD, k)
<1>1. MOD \in Nat \ {0}
  BY Sizes, SMT
<1>2. ASSUME NEW y \in 0 .. MOD - 1, NEW q \in Int PROVE (q * MOD + y) % MOD = y
  BY <1>1, SMT
<1>3. PICK q \in Int, r \in 0 .. MOD - 1 : x = q * MOD + r
  <2>1. x \div MOD \in Int /\ x % MOD \in 0 .. MOD - 1 /\ x = (x \div MOD) * MOD + (x % MOD)
    BY <1>1, SMT
  <2> QED BY <2>1
<1>4. x % MOD = r
  BY <1>2, <1>3
<1>5. r \in SN
  BY DEF SN
<1>6. ASSUME NEW k \in 0 .. MOD PROVE (x + k) % MOD = Plus(r, k)
  <2>1. Plus(r, k) = IF r + k < MOD THEN r + k ELSE r + k - MOD
    BY <1>5, PlusIs
  <2>2. CASE r + k < MOD
    <3>1. x + k = q * MOD + (r + k) /\ r + k \in 0 .. MOD - 1
      BY <1>1, <1>3, <2>2, SMT
    <3>2. (q * MOD + (r + k)) % MOD = r + k
      BY ONLY <1>2, <3>1, q \in Int, Zenon
    <3> QED BY <2>1, <2>2, <3>1, <3>2
  <2>3. CASE ~(r + k < MOD)
    <3>1. x + k = (q + 1) * MOD + (r + k - MOD) /\ r + k - MOD \in 0 .. MOD - 1 /\ q + 1 \in Int
      BY <1>1, <1>3, <2>3, SMT
    <3>2. ((q + 1) * MOD + (r + k - MOD)) % MOD = r + k - MOD
      BY ONLY <1>2, <3>1, Zenon
    <3> QED BY <2>1, <2>3, <3>1, <3>2
  <2> QED BY <2>2, <2>3
<1> QED BY <1>4, <1>5, <1>6

LEMMA OffsetOfNumbers ==
    ASSUME NEW x \in Nat, NEW b \in Nat, b <= x + MOD, x < b + MOD
    PROVE  Offset(x % MOD, b % MOD) = IF x < b THEN IF x + MOD = b THEN 0 ELSE x - b + MOD
                                      ELSE x - b
<1>1. MOD \in Nat \ {0} /\ MOD \in 0 .. MOD
  BY Sizes, SMT
<1>2. x % MOD \in SN /\ b % MOD \in SN
  BY ModSum
<1>3. CASE b <= x
  <2>1. x - b \in 0 .. MOD /\ x - b \in 0 .. MOD - 1 /\ b + (x - b) = x
    BY <1>1, <1>3, SMT
  <2>2. x % MOD = Plus(b % MOD, x - b)
    BY <2>1, ModSum
  <2>3. Offset(x % MOD, b % MOD) = x - b
    BY <1>2, <2>1, <2>2, OffsetFromBase
  <2> QED BY <1>3, <2>3, SMT
<1>4. CASE ~(b <= x)
  <2> DEFINE k == x - b + MOD
  <2>1. k \in 0 .. MOD - 1 /\ k \in 0 .. MOD /\ b + k = x + MOD
    BY <1>1, <1>4, SMT
  <2> HIDE DEF k
  <2>2. Plus(b % MOD, k) = Plus(x % MOD, MOD)
    BY <1>1, <2>1, ModSum
  <2>3. Plus(x % MOD, MOD) = x % MOD
    BY <1>1, <1>2, PlusIs, SMT DEF SN
  <2>4. Offset(x % MOD, b % MOD) = k
    BY <1>2, <2>1, <2>2, <2>3, OffsetFromBase
  <2> QED BY <1>1, <1>4, <2>4, SMT DEF k
<1> QED BY <1>3, <1>4

-----------------------------------------------------------------------------
(***************************************************************************)
(* A channel after the PDU at i has been taken out.                        *)
(***************************************************************************)
LEMMA RemoveAtIs ==
    ASSUME NEW S, NEW s \in Seq(S), NEW i \in DOMAIN s
    PROVE  /\ RemoveAt(s, i) \in Seq(S)
           /\ DOMAIN RemoveAt(s, i) = 1 .. Len(s) - 1
           /\ \A j \in 1 .. Len(s) - 1 :
                 /\ RemoveAt(s, i)[j] = s[IF j < i THEN j ELSE j + 1]
                 /\ (IF j < i THEN j ELSE j + 1) \in DOMAIN s
<1> DEFINE a == SubSeq(s, 1, i - 1)
           b == SubSeq(s, i + 1, Len(s))
<1>1. Len(s) \in Nat /\ i \in 1 .. Len(s) /\ DOMAIN s = 1 .. Len(s)
  BY LenProperties
<1>2. \A j \in 1 .. Len(s) : s[j] \in S
  BY ElementOfSeq
<1>3. a \in Seq(S) /\ Len(a) = i - 1 /\ \A j \in 1 .. i - 1 : a[j] = s[j]
  BY <1>1, <1>2, SMT
<1>4. /\ b \in Seq(S)
      /\ Len(b) = IF i + 1 <= Len(s) THEN Len(s) - (i + 1) + 1 ELSE 0
      /\ \A j \in 1 .. Len(s) - (i + 1) + 1 : b[j] = s[i + 1 + j - 1]
  <2>1. i + 1 \in Int /\ Len(s) \in Int /\ \A j \in i + 1 .. Len(s) : s[j] \in S
    BY <1>1, <1>2, SMT
  <2> QED BY <2>1, SubSeqProperties
<1>5. RemoveAt(s, i) = a \o b
  BY DEF RemoveAt
<1> HIDE DEF a, b
<1>6. Len(a) + Len(b) = Len(s) - 1 /\ Len(a) \in Nat /\ Len(b) \in Nat
  <2>1. Len(a) = i - 1 /\ Len(b) = IF i + 1 <= Len(s) THEN Len(s) - (i + 1) + 1 ELSE 0
    BY <1>3, <1>4
  <2> QED BY <1>1, <2>1, SMT
<1>7. /\ a \o b \in Seq(S) /\ Len(a \o b) = Len(s) - 1
      /\ \A j \in 1 .. Len(s) - 1 : (a \o b)[j] = IF j <= Len(a) THEN a[j] ELSE b[j - Len(a)]
  <2>1. /\ a \o b \in Seq(S) /\ Len(a \o b) = Len(a) + Len(b)
        /\ \A j \in 1 .. Len(a) + Len(b) :
              (a \o b)[j] = IF j <= Len(a) THEN a[j] ELSE b[j - Len(a)]
    BY <1>3, <1>4, ConcatProperties
  <2> QED BY <1>6, <2>1
<1>8. DOMAIN (a \o b) = 1 .. Len(s) - 1
  BY <1>7, LenProperties
<1>9. ASSUME NEW j \in 1 .. Len(s) - 1
      PROVE  /\ (a \o b)[j] = s[IF j < i THEN j ELSE j + 1]
             /\ (IF j < i THEN j ELSE j + 1) \in DOMAIN s
  <2>1. CASE j < i
    <3>1. j \in 1 .. i - 1 /\ j <= Len(a) /\ j \in DOMAIN s
      BY <1>1, <1>3, <2>1, SMT
    <3> QED BY <1>3, <1>7, <2>1, <3>1
  <2>2. CASE ~(j < i)
    <3>1. /\ ~(j <= Len(a)) /\ j + 1 \in DOMAIN s
          /\ j - Len(a) \in 1 .. Len(s) - (i + 1) + 1
          /\ i + 1 + (j - Len(a)) - 1 = j + 1
      BY <1>1, <1>3, <2>2, SMT
    <3>2. b[j - Len(a)] = s[j + 1]
      BY <1>4, <3>1
    <3> QED BY <1>7, <2>2, <3>1, <3>2
  <2> QED BY <2>1, <2>2
<1> QED BY <1>5, <1>7, <1>8, <1>9

-----------------------------------------------------------------------------
(***************************************************************************)
(* The receiver, given PDUs whose number is that of their payload.         *)
(***************************************************************************)
\* The payload that follows the highest one received.
Highest == Len(delivered) + RX_OFFSET(vr_h)

\* What the receiver has is in order, and is numbered as the payloads are.
InStep ==
    /\ IInv /\ RxTypeOK
    /\ vr_r = Len(delivered) % MOD
    /\ InOrderDelivery
    /\ SnNamesOnePayload

\* A step of the receiver delivers the next payloads, and top bounds what it has received.
Advances(top) ==
    /\ InStep'
    /\ \E k \in 0 .. WINDOW :
          delivered' = delivered \o [i \in 1 .. k |-> Len(delivered) + i - 1]
    /\ Highest <= Highest' /\ (Highest' <= Highest \/ Highest' <= top)

LEMMA InStepTypes ==
    ASSUME InStep
    PROVE  /\ Len(delivered) \in Nat /\ delivered \in Seq(Int) /\ vr_r \in SN /\ vr_h \in SN
           /\ \A x \in SN : RX_OFFSET(x) \in 0 .. MOD - 1
           /\ Highest \in Nat /\ Len(delivered) <= Highest
           /\ DOMAIN rx_window \subseteq SN /\ DOMAIN rx_segments \subseteq SN
<1>1. /\ delivered \in Seq(Int) /\ vr_r \in SN /\ vr_h \in SN
      /\ DOMAIN rx_window \subseteq SN /\ DOMAIN rx_segments \subseteq SN
  BY DEF InStep, RxTypeOK
<1>2. Len(delivered) \in Nat
  BY <1>1, LenProperties
<1>3. \A x \in SN : RX_OFFSET(x) \in 0 .. MOD - 1
  BY <1>1, OffsetType DEF RX_OFFSET
<1>4. Highest \in Nat /\ Len(delivered) <= Highest
  BY <1>1, <1>2, <1>3, Sizes, SMT DEF Highest
<1> QED BY <1>1, <1>2, <1>3, <1>4

\* The next k payloads after those delivered.
LEMMA NextPayloads ==
    ASSUME delivered \in Seq(Int), NEW k \in Nat,
           NEW more, more = [i \in 1 .. k |-> Len(delivered) + i - 1]
    PROVE  /\ Len(delivered \o more) = Len(delivered) + k
           /\ DOMAIN (delivered \o more) = 1 .. Len(delivered) + k
           /\ InOrderDelivery => \A i \in 1 .. Len(delivered) + k : (delivered \o more)[i] = i - 1
           /\ k = 0 => delivered \o more = delivered
<1>1. Len(delivered) \in Nat /\ DOMAIN delivered = 1 .. Len(delivered)
  BY LenProperties
<1>2. more \in Seq(Int) /\ Len(more) = k
  <2>1. \A i \in 1 .. k : Len(delivered) + i - 1 \in Int
    BY <1>1, SMT
  <2>2. more \in [1 .. k -> Int]
    BY <2>1
  <2>3. more \in Seq(Int)
    BY <2>2, SeqDef
  <2>4. DOMAIN more = 1 .. k /\ DOMAIN more = 1 .. Len(more) /\ Len(more) \in Nat
    BY <2>2, <2>3, LenProperties
  <2>5. Len(more) = k
    BY <2>4, SMT
  <2> QED BY <2>3, <2>5
<1>3. /\ delivered \o more \in Seq(Int) /\ Len(delivered \o more) = Len(delivered) + k
      /\ \A i \in 1 .. Len(delivered) + k :
            (delivered \o more)[i] = IF i <= Len(delivered) THEN delivered[i]
                                     ELSE more[i - Len(delivered)]
  BY <1>2, ConcatProperties
<1>4. DOMAIN (delivered \o more) = 1 .. Len(delivered) + k
  BY <1>3, LenProperties
<1>5. ASSUME InOrderDelivery, NEW i \in 1 .. Len(delivered) + k
      PROVE  (delivered \o more)[i] = i - 1
  <2>1. CASE i <= Len(delivered)
    <3>1. i \in DOMAIN delivered
      BY <1>1, <2>1, SMT
    <3> QED BY <1>3, <1>5, <2>1, <3>1 DEF InOrderDelivery
  <2>2. CASE ~(i <= Len(delivered))
    <3>1. i - Len(delivered) \in 1 .. k /\ Len(delivered) + (i - Len(delivered)) - 1 = i - 1
      BY <1>1, <2>2, SMT
    <3>2. more[i - Len(delivered)] = i - 1
      BY <3>1
    <3> QED BY <1>3, <2>2, <3>2
  <2> QED BY <2>1, <2>2
<1>6. ASSUME k = 0 PROVE delivered \o more = delivered
  <2>1. Len(delivered \o more) = Len(delivered)
    BY <1>1, <1>3, <1>6, SMT
  <2>2. \A i \in 1 .. Len(delivered) : (delivered \o more)[i] = delivered[i]
    <3> TAKE i \in 1 .. Len(delivered)
    <3>1. i \in 1 .. Len(delivered) + k /\ i <= Len(delivered)
      BY <1>1, <1>6, SMT
    <3> QED BY <1>3, <3>1
  <2> QED BY <1>3, <2>1, <2>2, SeqEqual
<1> QED BY <1>3, <1>4, <1>5, <1>6

\* How far vr_h is raised.
LEMMA RaisedTo ==
    ASSUME IInv, NEW sn \in SN, inside_rx_window(sn)
    PROVE  RaisedVrH(sn) = vr_h \/ RX_OFFSET(RaisedVrH(sn)) = RX_OFFSET(sn) + 1
<1>1. /\ vr_r \in SN /\ vr_h \in SN /\ vr_mr = Plus(vr_r, WINDOW)
  BY DEF IInv, Placed, RxWindowOrder
<1>2. Offset(vr_mr, vr_r) = WINDOW
  <2>1. Offset(vr_r, vr_r) = 0 BY <1>1, OffsetOfSelf
  <2>2. WINDOW \in 0 .. MOD /\ 0 + WINDOW < MOD /\ 0 + WINDOW = WINDOW BY Sizes, SMT
  <2> QED BY <1>1, <2>1, <2>2, OffsetOfPlus
<1>3. Offset(sn, vr_r) < WINDOW /\ Offset(sn, vr_r) \in 0 .. MOD - 1
  BY <1>1, <1>2, OffsetType DEF inside_rx_window, RX_OFFSET
<1>4. 1 \in 0 .. MOD /\ Offset(sn, vr_r) + 1 < MOD
  BY <1>3, Sizes, SMT
<1>5. Offset(Plus(sn, 1), vr_r) = Offset(sn, vr_r) + 1
  BY <1>1, <1>4, OffsetOfPlus
<1> QED BY <1>5 DEF RaisedVrH, RX_OFFSET

\* A window whose low edge moves up by k keeps the names of what stays in it.
LEMMA NamesKept ==
    ASSUME InStep, NEW k \in 0 .. WINDOW, vr_r' = Plus(vr_r, k),
           NEW x \in SN, k <= RX_OFFSET(x), NEW top, top = Len(delivered) + k
    PROVE  top + Offset(x, vr_r') = Len(delivered) + RX_OFFSET(x)
<1>1. k \in 0 .. MOD /\ Len(delivered) \in Nat /\ vr_r \in SN /\ RX_OFFSET(x) \in 0 .. MOD - 1
  BY InStepTypes, Sizes, SMT
<1>2. Offset(x, vr_r') = RX_OFFSET(x) - k
  BY <1>1, Rebase DEF RX_OFFSET
<1> QED BY <1>1, <1>2, SMT

\* A step that neither delivers nor raises vr_h.
LEMMA StandsStill ==
    ASSUME InStep, IInv', RxTypeOK', UNCHANGED <<vr_r, vr_h, rx_window, delivered>>,
           \A s \in DOMAIN rx_segments' : \A i \in DOMAIN rx_segments'[s] :
              rx_segments'[s][i].n = Len(delivered) + RX_OFFSET(s),
           NEW top
    PROVE  Advances(top)
<1>1. InStep'
  <2>1. SnNamesOnePayload'
    BY DEF InStep, SnNamesOnePayload, RX_OFFSET
  <2> QED BY <2>1 DEF InStep, InOrderDelivery
<1>2. 0 \in 0 .. WINDOW /\ 0 \in Nat
  BY Sizes, SMT
<1>3. delivered' = delivered \o [i \in 1 .. 0 |-> Len(delivered) + i - 1]
  BY <1>2, InStepTypes, NextPayloads
<1>4. Highest' = Highest
  BY DEF Highest, RX_OFFSET
<1>5. Highest <= Highest' /\ (Highest' <= Highest \/ Highest' <= top)
  BY <1>4, InStepTypes, SMT
<1> QED BY <1>1, <1>2, <1>3, <1>5 DEF Advances

LEMMA HandleDataPduInStep ==
    ASSUME InStep, RxTypeOK', NEW sn \in SN, NEW p, NEW n \in Int, NEW segments, NEW status,
           inside_rx_window(sn) => n = Len(delivered) + RX_OFFSET(sn),
           DOMAIN segments \subseteq SN,
           \A s \in DOMAIN segments : \A i \in DOMAIN segments[s] :
              segments[s][i].n = Len(delivered) + RX_OFFSET(s),
           HandleDataPdu(sn, p, n, segments, status)
    PROVE  Advances(n + 1)
<1>1. IInv /\ IInv'
  BY HandleDataPduIInv DEF InStep
<1>2. CASE ~inside_rx_window(sn) \/ sn \in DOMAIN rx_window
  <2>1. UNCHANGED <<vr_r, vr_h, rx_window, delivered>> /\ rx_segments' = segments
    BY <1>2, Zenon DEF HandleDataPdu
  <2> QED BY <1>1, <2>1, StandsStill
<1>3. CASE inside_rx_window(sn) /\ sn \notin DOMAIN rx_window
  <2> DEFINE w == With(rx_window, sn, n)
             S == DOMAIN rx_window \cup {sn}
  <2>1. DOMAIN w = S /\ \A s \in S : w[s] = IF s = sn THEN n ELSE rx_window[s]
    BY DEF With
  <2> HIDE DEF w
  <2>2. PICK m \in RunLength(vr_ms, DOMAIN w), k \in RunLength(vr_r, DOMAIN w) :
            /\ vr_h' = RaisedVrH(sn) /\ vr_ms' = Plus(vr_ms, m)
            /\ ReassembleRxSdus(w, segments, k) /\ UpdateReorderingTimer
    BY <1>3, Zenon DEF HandleDataPdu, w
  <2>3. /\ vr_r' = Plus(vr_r, k) /\ vr_mr' = Plus(vr_mr, k)
        /\ rx_window' = Without(w, Span(vr_r, k))
        /\ rx_segments' = ClearedSegments(segments, Span(vr_r, k))
        /\ delivered' = delivered \o [i \in 1 .. k |-> w[Plus(vr_r, i - 1)]]
    BY <2>2, Zenon DEF ReassembleRxSdus
  <2>4. DOMAIN rx_window' = S \ Span(vr_r, k) /\ \A s \in DOMAIN rx_window' : rx_window'[s] = w[s]
    BY <2>1, <2>3 DEF Without
  <2>5. Moves(sn, S, m, k)
    BY <2>1, <2>2, <2>3, <2>4, Zenon DEF Moves
  <2>6. /\ k \in 0 .. WINDOW /\ vr_r' \in SN /\ vr_h' \in SN /\ S \subseteq SN
        /\ RX_OFFSET(vr_h) <= RX_OFFSET(vr_h') /\ RX_OFFSET(vr_h') \in 0 .. WINDOW
        /\ k <= RX_OFFSET(vr_ms') /\ RX_OFFSET(vr_ms') <= RX_OFFSET(vr_h') /\ vr_ms' \in SN
    BY <1>1, <1>3, <2>5, MovesPlaced
  <2>7. /\ Len(delivered) \in Nat /\ delivered \in Seq(Int) /\ vr_r \in SN /\ vr_h \in SN
        /\ \A x \in SN : RX_OFFSET(x) \in 0 .. MOD - 1
        /\ k \in 0 .. MOD - 1 /\ k \in 0 .. MOD /\ k \in Nat
    BY <2>6, InStepTypes, Sizes, SMT
  <2>8. \A s \in S : w[s] = Len(delivered) + RX_OFFSET(s)
    BY <1>3, <2>1 DEF InStep, SnNamesOnePayload
  <2>9. \A i \in 1 .. k : w[Plus(vr_r, i - 1)] = Len(delivered) + i - 1
    <3> TAKE i \in 1 .. k
    <3>1. i - 1 \in 0 .. k - 1 /\ i - 1 \in 0 .. MOD - 1 /\ Len(delivered) + (i - 1) = Len(delivered) + i - 1
      <4>1. Len(delivered) \in Nat /\ k \in 0 .. MOD - 1
        BY <2>7
      <4> QED BY <4>1, Sizes, SMT
    <3>2. Plus(vr_r, i - 1) \in S
      BY <2>1, <2>2, <3>1 DEF RunLength
    <3>3. RX_OFFSET(Plus(vr_r, i - 1)) = i - 1
      BY <2>7, <3>1, OffsetFromBase DEF RX_OFFSET
    <3> QED BY <2>8, <3>1, <3>2, <3>3
  <2>10. delivered' = delivered \o [i \in 1 .. k |-> Len(delivered) + i - 1]
    <3>1. [i \in 1 .. k |-> w[Plus(vr_r, i - 1)]] = [i \in 1 .. k |-> Len(delivered) + i - 1]
      BY <2>9
    <3> QED BY <2>3, <3>1
  <2>11. /\ Len(delivered') = Len(delivered) + k
         /\ DOMAIN delivered' = 1 .. Len(delivered) + k
         /\ \A i \in 1 .. Len(delivered) + k : delivered'[i] = i - 1
    BY <2>7, <2>10, NextPayloads, ZenonT(30) DEF InStep
  <2>12. InOrderDelivery'
    BY <2>11 DEF InOrderDelivery
  <2>13. vr_r' = Len(delivered') % MOD
    <3>1. vr_r = Len(delivered) % MOD
      BY DEF InStep
    <3>2. (Len(delivered) + k) % MOD = Plus(vr_r, k)
      BY <2>7, <3>1, ModSum
    <3> QED BY <2>3, <2>11, <3>2
  <2>14. SnNamesOnePayload'
    <3>1. \A x \in SN : k <= RX_OFFSET(x) =>
             Len(delivered') + Offset(x, vr_r') = Len(delivered) + RX_OFFSET(x)
      BY <2>3, <2>6, <2>11, NamesKept
    <3>2. \A x \in SN : x \notin Span(vr_r, k) => k <= RX_OFFSET(x)
      BY <2>7, SMT DEF Span, RX_OFFSET
    <3>3. ASSUME NEW s \in DOMAIN rx_window'
          PROVE  rx_window'[s] = Len(delivered') + Offset(s, vr_r')
      <4>1. s \in S /\ s \in SN /\ s \notin Span(vr_r, k)
        BY <2>4, <2>6
      <4> QED BY <2>4, <2>8, <3>1, <3>2, <4>1
    <3>4. ASSUME NEW s \in DOMAIN rx_segments', NEW i \in DOMAIN rx_segments'[s]
          PROVE  rx_segments'[s][i].n = Len(delivered') + Offset(s, vr_r')
      <4>1. s \in DOMAIN segments /\ s \in SN
            /\ rx_segments'[s] = IF s \in Span(vr_r, k) THEN << >> ELSE segments[s]
        BY <2>3 DEF ClearedSegments
      <4>2. CASE s \in Span(vr_r, k)
        <5>1. DOMAIN rx_segments'[s] = {}
          BY <4>1, <4>2, SMT
        <5> QED BY <5>1
      <4>3. CASE s \notin Span(vr_r, k)
        <5>1. rx_segments'[s] = segments[s]
          BY <4>1, <4>3
        <5> QED BY <3>1, <3>2, <4>1, <4>3, <5>1
      <4> QED BY <4>2, <4>3
    <3> QED BY <3>3, <3>4 DEF SnNamesOnePayload, RX_OFFSET
  <2>15. Highest' = Len(delivered) + RX_OFFSET(vr_h')
    <3>1. k <= RX_OFFSET(vr_h')
      BY <2>6, <2>7, SMT
    <3> QED BY <2>3, <2>6, <2>11, <3>1, NamesKept DEF Highest, RX_OFFSET
  <2>16. RaisedVrH(sn) = vr_h \/ RX_OFFSET(RaisedVrH(sn)) = RX_OFFSET(sn) + 1
    BY <1>1, <1>3, RaisedTo
  <2>17. Highest <= Highest' /\ (Highest' <= Highest \/ Highest' <= n + 1)
    <3>1. Highest = Len(delivered) + RX_OFFSET(vr_h)
      BY DEF Highest
    <3>2. CASE RaisedVrH(sn) = vr_h
      <4>1. Highest' = Highest
        BY <2>2, <2>15, <3>1, <3>2
      <4> QED BY <2>7, <3>1, <4>1, SMT
    <3>3. CASE RX_OFFSET(RaisedVrH(sn)) = RX_OFFSET(sn) + 1
      <4>1. RX_OFFSET(vr_h') = RX_OFFSET(sn) + 1
        BY <2>2, <3>3 DEF RX_OFFSET
      <4>2. n = Len(delivered) + RX_OFFSET(sn)
        BY <1>3
      <4>3. RX_OFFSET(vr_h) \in 0 .. MOD - 1 /\ RX_OFFSET(sn) \in 0 .. MOD - 1
        BY <2>7
      <4> QED BY <2>6, <2>7, <2>15, <3>1, <4>1, <4>2, <4>3, SMTT(30)
    <3> QED BY <2>16, <3>2, <3>3
  <2>18. InStep'
    BY <1>1, <2>12, <2>13, <2>14 DEF InStep
  <2> QED BY <2>6, <2>10, <2>17, <2>18 DEF Advances
<1> QED BY <1>2, <1>3

LEMMA FirstSegmentInStep ==
    ASSUME InStep, IInv', RxTypeOK', NEW sn \in SN, NEW p, NEW seg,
           inside_rx_window(sn), seg.n = Len(delivered) + RX_OFFSET(sn),
           FirstSegment(sn, p, seg)
    PROVE  Advances(seg.n + 1)
<1>1. /\ rx_segments' = With(rx_segments, sn, <<seg>>) /\ vr_h' = RaisedVrH(sn)
      /\ UNCHANGED <<vr_r, rx_window, delivered>>
  BY Zenon DEF FirstSegment
<1>2. /\ Len(delivered) \in Nat /\ \A x \in SN : RX_OFFSET(x) \in 0 .. MOD - 1
      /\ vr_h \in SN /\ Highest \in Nat
  BY InStepTypes
<1>3. SnNamesOnePayload'
  <2>1. ASSUME NEW s \in DOMAIN rx_segments', NEW i \in DOMAIN rx_segments'[s]
        PROVE  rx_segments'[s][i].n = Len(delivered) + RX_OFFSET(s)
    <3>1. CASE s = sn
      <4>1. rx_segments'[s] = <<seg>> /\ i \in DOMAIN <<seg>>
        BY <1>1, <3>1 DEF With
      <4>2. i = 1
        BY <4>1, SMT
      <4> QED BY <3>1, <4>1, <4>2
    <3>2. CASE s # sn
      <4>1. s \in DOMAIN rx_segments /\ rx_segments'[s] = rx_segments[s]
        BY <1>1, <3>2 DEF With
      <4> QED BY <4>1 DEF InStep, SnNamesOnePayload
    <3> QED BY <3>1, <3>2
  <2> QED BY <1>1, <2>1 DEF InStep, SnNamesOnePayload, RX_OFFSET
<1>4. InStep'
  BY <1>1, <1>3 DEF InStep, InOrderDelivery
<1>5. delivered' = delivered \o [i \in 1 .. 0 |-> Len(delivered) + i - 1]
  <2>1. 0 \in Nat
    BY SMT
  <2> QED BY <1>1, <2>1, InStepTypes, NextPayloads
<1>6. Highest <= Highest' /\ (Highest' <= Highest \/ Highest' <= seg.n + 1)
  <2>1. Highest' = Len(delivered) + RX_OFFSET(RaisedVrH(sn)) /\ Highest = Len(delivered) + RX_OFFSET(vr_h)
    BY <1>1 DEF Highest, RX_OFFSET
  <2>2. RaisedVrH(sn) = vr_h \/ RX_OFFSET(RaisedVrH(sn)) = RX_OFFSET(sn) + 1
    BY RaisedTo DEF InStep
  <2>3. RX_OFFSET(vr_h) <= RX_OFFSET(RaisedVrH(sn)) /\ RX_OFFSET(RaisedVrH(sn)) \in 0 .. WINDOW
    BY RaisedVrHIs DEF InStep
  <2>4. RX_OFFSET(vr_h) \in 0 .. MOD - 1 /\ RX_OFFSET(sn) \in 0 .. MOD - 1
    BY <1>2
  <2>5. CASE RaisedVrH(sn) = vr_h
    <3>1. Highest' = Highest
      BY <2>1, <2>5
    <3> QED BY <1>2, <3>1, SMT
  <2>6. CASE RX_OFFSET(RaisedVrH(sn)) = RX_OFFSET(sn) + 1
    BY <1>2, <2>1, <2>3, <2>4, <2>6, Sizes, SMTT(30)
  <2> QED BY <2>2, <2>5, <2>6
<1>7. 0 \in 0 .. WINDOW
  BY Sizes, SMT
<1> QED BY <1>4, <1>5, <1>6, <1>7 DEF Advances

LEMMA NextSegmentInStep ==
    ASSUME InStep, IInv', RxTypeOK', NEW sn \in SN, NEW p, NEW seg \in Segments,
           seg.n = Len(delivered) + RX_OFFSET(sn), NextSegment(sn, p, seg)
    PROVE  Advances(seg.n + 1)
<1> DEFINE list == rx_segments[sn]
           payload == IF \A i \in 1 .. Len(Append(list, seg)) : Append(list, seg)[i].n = seg.n
                      THEN seg.n ELSE NoPayload
<1>1. /\ sn \in DOMAIN rx_segments /\ list \in Seq(Segments)
      /\ Append(list, seg) \in Seq(Segments) /\ <<seg>> \in Seq(Segments)
  BY SMT DEF NextSegment, InStep, RxTypeOK
<1>2. Len(list) \in Nat /\ DOMAIN list = 1 .. Len(list)
  BY <1>1, LenProperties
<1>3. \A i \in DOMAIN list : list[i].n = Len(delivered) + RX_OFFSET(sn)
  BY <1>1 DEF InStep, SnNamesOnePayload
<1>4. /\ DOMAIN Append(list, seg) = 1 .. Len(list) + 1 /\ Len(Append(list, seg)) = Len(list) + 1
      /\ \A i \in 1 .. Len(list) + 1 : Append(list, seg)[i].n = Len(delivered) + RX_OFFSET(sn)
  <2>1. /\ Len(Append(list, seg)) = Len(list) + 1
        /\ \A i \in 1 .. Len(list) : Append(list, seg)[i] = list[i]
        /\ Append(list, seg)[Len(list) + 1] = seg
    BY <1>1, AppendProperties
  <2>2. \A i \in 1 .. Len(list) + 1 : i \in 1 .. Len(list) \/ i = Len(list) + 1
    BY <1>2, SMT
  <2>3. DOMAIN Append(list, seg) = 1 .. Len(list) + 1
    BY <1>1, <2>1, LenProperties
  <2> QED BY <1>2, <1>3, <2>1, <2>2, <2>3
<1>5. payload = seg.n /\ payload \in Int
  BY <1>4, SMT DEF Segments
<1>6. \/ SegmentList(sn, <<seg>>) \/ SegmentList(sn, list) \/ SegmentList(sn, Append(list, seg))
      \/ HandleDataPdu(sn, FALSE, payload, Without(rx_segments, {sn}), do_status \/ p)
  BY Zenon DEF NextSegment
<1>7. ASSUME NEW l, SegmentList(sn, l),
             \A i \in DOMAIN l : l[i].n = Len(delivered) + RX_OFFSET(sn)
      PROVE  Advances(seg.n + 1)
  <2>1. /\ rx_segments' = [rx_segments EXCEPT ![sn] = l]
        /\ UNCHANGED <<vr_r, vr_h, rx_window, delivered>>
    BY <1>7, Zenon DEF SegmentList
  <2>2. ASSUME NEW s \in DOMAIN rx_segments', NEW i \in DOMAIN rx_segments'[s]
        PROVE  rx_segments'[s][i].n = Len(delivered) + RX_OFFSET(s)
    <3>1. s \in DOMAIN rx_segments /\ rx_segments'[s] = IF s = sn THEN l ELSE rx_segments[s]
      BY <2>1
    <3>2. CASE s = sn
      BY <1>7, <3>1, <3>2
    <3>3. CASE s # sn
      BY <3>1, <3>3 DEF InStep, SnNamesOnePayload
    <3> QED BY <3>2, <3>3
  <2> QED BY <2>1, <2>2, StandsStill
<1>8. \A i \in DOMAIN <<seg>> : <<seg>>[i].n = Len(delivered) + RX_OFFSET(sn)
  <2>1. \A i \in DOMAIN <<seg>> : i = 1
    BY SMT
  <2> QED BY <2>1
<1>9. CASE HandleDataPdu(sn, FALSE, payload, Without(rx_segments, {sn}), do_status \/ p)
  <2> DEFINE others == Without(rx_segments, {sn})
  <2>1. /\ DOMAIN others \subseteq SN
        /\ \A s \in DOMAIN others : \A i \in DOMAIN others[s] :
              others[s][i].n = Len(delivered) + RX_OFFSET(s)
    BY DEF Without, InStep, RxTypeOK, SnNamesOnePayload
  <2> HIDE DEF others, payload
  <2>2. HandleDataPdu(sn, FALSE, payload, others, do_status \/ p)
    BY <1>9 DEF others
  <2>3. payload \in Int /\ payload = Len(delivered) + RX_OFFSET(sn)
    BY <1>5
  <2>4. Advances(payload + 1)
    BY <2>1, <2>2, <2>3, HandleDataPduInStep
  <2> QED BY <1>5, <2>4
<1> QED BY <1>3, <1>4, <1>6, <1>7, <1>8, <1>9

(***************************************************************************)
(* write_pdu, for a PDU that is numbered as its payload and is less than a *)
(* window away from what has been delivered.                               *)
(***************************************************************************)
LEMMA WritePduInStep ==
    ASSUME InStep, NEW pdu \in AnyDataPdu, pdu.sn = pdu.n % MOD,
           Len(delivered) <= pdu.n + WINDOW, pdu.n < Len(delivered) + WINDOW,
           WritePdu(pdu)
    PROVE  Advances(pdu.n + 1)
<1> DEFINE seg == [so |-> pdu.so, lsf |-> pdu.lsf, n |-> pdu.n]
<1>1. /\ pdu.sn \in SN /\ pdu.p \in BOOLEAN /\ pdu.n \in Nat /\ pdu.n \in Int
      /\ seg \in Segments /\ seg.n = pdu.n
  BY SMT DEF AnyDataPdu, Segments
<1> HIDE DEF seg
<1>2. IInv' /\ RxTypeOK'
  BY <1>1, WritePduIInv, WritePduTypes DEF InStep
<1>3. inside_rx_window(pdu.sn) => pdu.n = Len(delivered) + RX_OFFSET(pdu.sn)
  <2>1. /\ vr_r \in SN /\ vr_mr = Plus(vr_r, WINDOW) /\ vr_r = Len(delivered) % MOD
        /\ Len(delivered) \in Nat
    BY InStepTypes DEF InStep, IInv, RxWindowOrder
  <2>2. Offset(vr_mr, vr_r) = WINDOW
    <3>1. WINDOW \in 0 .. MOD - 1
      BY Sizes, SMT
    <3> QED BY <2>1, <3>1, OffsetFromBase
  <2>3. Len(delivered) <= pdu.n + MOD /\ pdu.n < Len(delivered) + MOD
    BY <1>1, <2>1, Sizes, SMT
  <2>4. Offset(pdu.sn, vr_r) = IF pdu.n < Len(delivered)
                               THEN IF pdu.n + MOD = Len(delivered) THEN 0
                                    ELSE pdu.n - Len(delivered) + MOD
                               ELSE pdu.n - Len(delivered)
    BY <1>1, <2>1, <2>3, OffsetOfNumbers
  <2>5. inside_rx_window(pdu.sn) <=> Offset(pdu.sn, vr_r) < WINDOW
    BY <2>2 DEF inside_rx_window, RX_OFFSET
  <2>6. Offset(pdu.sn, vr_r) < WINDOW => pdu.n = Len(delivered) + Offset(pdu.sn, vr_r)
    BY <1>1, <2>1, <2>4, Sizes, SMT
  <2> QED BY <2>5, <2>6 DEF RX_OFFSET
<1>4. CASE ~pdu.rf
  <2>1. HandleDataPdu(pdu.sn, pdu.p, pdu.n, rx_segments, do_status)
    BY <1>4, Zenon DEF WritePdu
  <2>2. /\ DOMAIN rx_segments \subseteq SN
        /\ \A s \in DOMAIN rx_segments : \A i \in DOMAIN rx_segments[s] :
              rx_segments[s][i].n = Len(delivered) + RX_OFFSET(s)
    BY DEF InStep, RxTypeOK, SnNamesOnePayload
  <2> QED BY <1>1, <1>2, <1>3, <2>1, <2>2, HandleDataPduInStep
<1>5. CASE pdu.rf
  <2>1. HandleDataPduSegment(pdu.sn, pdu.p, seg)
    BY <1>5, Zenon DEF WritePdu, seg
  <2>2. CASE ~inside_rx_window(pdu.sn)
    <3>1. UNCHANGED <<vr_r, vr_h, rx_window, delivered, rx_segments>>
      BY <2>1, <2>2, Zenon DEF HandleDataPduSegment, rxState
    <3>2. \A s \in DOMAIN rx_segments' : \A i \in DOMAIN rx_segments'[s] :
             rx_segments'[s][i].n = Len(delivered) + RX_OFFSET(s)
      BY <3>1 DEF InStep, SnNamesOnePayload
    <3> QED BY <1>2, <3>1, <3>2, StandsStill
  <2>3. CASE inside_rx_window(pdu.sn)
    <3>1. seg.n = Len(delivered) + RX_OFFSET(pdu.sn)
      BY <1>1, <1>3, <2>3
    <3>2. FirstSegment(pdu.sn, pdu.p, seg) \/ NextSegment(pdu.sn, pdu.p, seg)
      BY <2>1, <2>3, Zenon DEF HandleDataPduSegment
    <3>3. Advances(seg.n + 1)
      BY <1>1, <1>2, <2>3, <3>1, <3>2, FirstSegmentInStep, NextSegmentInStep
    <3> QED BY <1>1, <3>3
  <2> QED BY <2>2, <2>3
<1> QED BY <1>4, <1>5

-----------------------------------------------------------------------------
(***************************************************************************)
(* The inductive invariant of the link.  Both ends agree on the numbers:   *)
(* the window of the transmitter starts at payload "acked", that of the    *)
(* receiver at Len(delivered), and acked <= Len(delivered) <= Highest <=   *)
(* sent.  A data PDU under way is never so old that the receiver could     *)
(* take it for a new one, and the status PDUs under way acknowledge less   *)
(* than what has been delivered, the older ones no more than the newer.    *)
(***************************************************************************)
DataInFlight ==
    /\ dl \in Seq(AnyDataPdu)
    /\ \A i \in DOMAIN dl :
          /\ dl[i].n < sent /\ dl[i].sn = dl[i].n % MOD
          /\ Highest <= dl[i].n + WINDOW
          /\ "reorder_dl" \in faults => sent <= dl[i].n + WINDOW
    /\ \A i, j \in DOMAIN dl : j < i => dl[j].n < dl[i].n + WINDOW

\* A status PDU that acknowledges nothing from payload c on: it ends there, or reports c missing.
CutAt(st, c) == st.ack_sn = c % MOD \/ c % MOD \in st.nacks

Reports == [ack_sn : SN, nacks : SUBSET SN]

StatusInFlight ==
    /\ ul \in Seq(Reports)
    /\ \E cut \in [DOMAIN ul -> 0 .. Len(delivered)] :
          /\ \A i \in DOMAIN ul : acked <= cut[i] /\ CutAt(ul[i], cut[i])
          /\ \A i, j \in DOMAIN ul : i < j => cut[i] <= cut[j]
          /\ \A st \in tx_status : \E c \in 0 .. Len(delivered) :
                /\ acked <= c /\ CutAt(st, c)
                /\ \A i \in DOMAIN ul : cut[i] <= c

LinkIInv ==
    /\ TxIInv /\ InStep
    /\ vt_a = acked % MOD
    /\ acked <= Len(delivered) /\ Highest <= sent
    /\ "reorder_ul" \notin faults
    /\ DataInFlight /\ StatusInFlight /\ tx_status \subseteq Reports

\* No status PDU overtakes another one.
StatusInOrder == \A f \in FAULTS : "reorder_ul" \notin f

LEMMA LinkFacts ==
    ASSUME LinkIInv
    PROVE  /\ sent \in Nat /\ acked \in Nat /\ Len(delivered) \in Nat /\ Highest \in Nat
           /\ TX_OFFSET(vt_s) \in 0 .. MOD - 1 /\ sent = acked + TX_OFFSET(vt_s)
           /\ vt_a \in SN /\ vt_s \in SN
           /\ acked <= Len(delivered) /\ Len(delivered) <= Highest /\ Highest <= sent
<1>1. /\ sent \in Nat /\ TX_OFFSET(vt_s) \in 0 .. MOD - 1 /\ vt_a \in SN /\ vt_s \in SN
      /\ TX_OFFSET(vt_s) <= sent
  BY WindowSize DEF LinkIInv, TxIInv
<1>2. acked \in Nat /\ sent = acked + TX_OFFSET(vt_s)
  BY <1>1, SMT DEF acked
<1>3. Len(delivered) \in Nat /\ Highest \in Nat /\ Len(delivered) <= Highest
  BY InStepTypes DEF LinkIInv
<1> QED BY <1>1, <1>2, <1>3 DEF LinkIInv

\* Payload acked + k has the number k after vt_a.
LEMMA NumberInWindow ==
    ASSUME LinkIInv, NEW x \in SN
    PROVE  x = (acked + TX_OFFSET(x)) % MOD
<1>1. TX_OFFSET(x) \in 0 .. MOD - 1 /\ TX_OFFSET(x) \in 0 .. MOD /\ acked \in Nat /\ vt_a \in SN
  <2>1. acked \in Nat /\ vt_a \in SN
    BY LinkFacts
  <2>2. TX_OFFSET(x) \in 0 .. MOD - 1
    BY <2>1, OffsetType DEF TX_OFFSET
  <2> QED BY <2>1, <2>2, Sizes, SMT
<1>2. (acked + TX_OFFSET(x)) % MOD = Plus(vt_a, TX_OFFSET(x))
  BY <1>1, ModSum DEF LinkIInv
<1> QED BY <1>1, <1>2, PlusOffset DEF TX_OFFSET

-----------------------------------------------------------------------------
(***************************************************************************)
(* What read_pdu hands to MAC.                                             *)
(***************************************************************************)
\* A PDU that carries a payload of the window, under its number.
OfWindow(pdu, limit) ==
    /\ pdu \in AnyDataPdu
    /\ acked <= pdu.n /\ pdu.n < limit /\ pdu.sn = pdu.n % MOD

\* The step of the transmitter: nothing new for MAC, an old PDU again, or the next one.
Sends ==
    /\ vt_a' = vt_a /\ acked' = acked
    /\ \/ sent' = sent /\ dl' = dl
       \/ sent' = sent /\ \E pdu : OfWindow(pdu, sent) /\ dl' = Append(dl, pdu)
       \/ sent' = sent + 1 /\ \E pdu : OfWindow(pdu, sent + 1) /\ dl' = Append(dl, pdu)

LEMMA BuildSends ==
    ASSUME LinkIInv, NEW grant, NEW queue, NEW count, NEW timer,
           BuildDataPdu(grant, queue, count, timer)
    PROVE  Sends
<1>1. vt_a' = vt_a
  BY Zenon DEF BuildDataPdu
<1>2. CASE NothingToBuild(grant)
  <2>1. vt_s' = vt_s /\ sent' = sent /\ dl' = dl
    BY <1>2, Zenon DEF BuildDataPdu
  <2> QED BY <1>1, <2>1 DEF Sends, acked, TX_OFFSET
<1>3. CASE ~NothingToBuild(grant)
  <2>1. PICK p \in BOOLEAN :
           /\ dl' = Append(dl, DataPdu(vt_s, p, sent))
           /\ vt_s' = Plus(vt_s, 1) /\ sent' = sent + 1
    <3>1. PollRequired(count + 1, timer, tx_sdu_queue', queue) \in BOOLEAN
      BY Zenon DEF PollRequired
    <3> QED BY <1>3, <3>1, Zenon DEF BuildDataPdu, Transmit
  <2>2. TX_OFFSET(vt_s) + 1 < MOD
    BY <1>3, NextOfSdu DEF LinkIInv
  <2>3. /\ sent \in Nat /\ acked \in Nat /\ vt_a \in SN /\ vt_s \in SN
        /\ TX_OFFSET(vt_s) \in 0 .. MOD - 1 /\ sent = acked + TX_OFFSET(vt_s)
    BY LinkFacts
  <2>4. TX_OFFSET(vt_s)' = TX_OFFSET(vt_s) + 1
    BY <1>1, <2>1, <2>2, <2>3, SpanGrows DEF TX_OFFSET
  <2>5. acked' = acked
    <3>1. acked' = sent' - TX_OFFSET(vt_s)'
      BY DEF acked
    <3> QED BY <2>1, <2>3, <2>4, <3>1, SMT
  <2>6. vt_s = sent % MOD
    BY <2>3, NumberInWindow
  <2>7. OfWindow(DataPdu(vt_s, p, sent), sent + 1)
    <3>1. DataPdu(vt_s, p, sent) \in AnyDataPdu
      BY <2>3, SMT DEF DataPdu, AnyDataPdu
    <3>2. DataPdu(vt_s, p, sent).n = sent /\ DataPdu(vt_s, p, sent).sn = vt_s
      BY DEF DataPdu
    <3>3. acked <= sent /\ sent < sent + 1
      BY <2>3, SMT
    <3> QED BY <2>6, <3>1, <3>2, <3>3 DEF OfWindow
  <2> QED BY <1>1, <2>1, <2>5, <2>7 DEF Sends
<1> QED BY <1>2, <1>3

\* What is in the window under a number is the payload with that number.
LEMMA WindowPayload ==
    ASSUME LinkIInv, NEW sn \in DOMAIN tx_window
    PROVE  /\ sn \in SN /\ tx_window[sn].n \in Nat
           /\ acked <= tx_window[sn].n /\ tx_window[sn].n < sent
           /\ sn = tx_window[sn].n % MOD
<1>1. /\ sent \in Nat /\ acked \in Nat /\ sent = acked + TX_OFFSET(vt_s)
      /\ TX_OFFSET(vt_s) \in 0 .. MOD - 1 /\ vt_a \in SN
  BY LinkFacts
<1>2. sn \in SN /\ TX_OFFSET(sn) < TX_OFFSET(vt_s)
  BY WindowSize DEF LinkIInv, Span, TX_OFFSET
<1>3. tx_window[sn].n = sent - (TX_OFFSET(vt_s) - TX_OFFSET(sn))
  BY DEF LinkIInv, TxIInv, TxWindowContiguous
<1>4. TX_OFFSET(sn) \in 0 .. MOD - 1
  BY <1>1, <1>2, OffsetType DEF TX_OFFSET
<1>5. tx_window[sn].n = acked + TX_OFFSET(sn)
  BY <1>1, <1>3, <1>4, SMT
<1>6. sn = tx_window[sn].n % MOD
  BY <1>2, <1>5, NumberInWindow
<1>7. acked + TX_OFFSET(sn) \in Nat /\ acked <= acked + TX_OFFSET(sn) /\ acked + TX_OFFSET(sn) < sent
  BY <1>1, <1>2, <1>4, SMT
<1> QED BY <1>2, <1>5, <1>6, <1>7

LEMMA ReadPduSends ==
    ASSUME LinkIInv, NEW grant, ReadPdu(grant)
    PROVE  Sends
<1>1. PICK queue \in Seq(RetxEntries) :
         /\ queue # << >> => Head(queue).sn \in DOMAIN tx_window
         /\ \/ BuildDataPdu(grant, queue, pdu_without_poll, poll_retx_timer)
            \/ queue # << >> /\ RetxWholePdu(queue)
            \/ queue # << >> /\ RetxSegment(grant, queue)
  BY Scheduled DEF RetxRequired, LinkIInv
<1> DEFINE sn == Head(queue).sn
           n  == tx_window[sn].n
           p  == PollRequired(pdu_without_poll + 1, poll_retx_timer, tx_sdu_queue, queue)
<1>2. p \in BOOLEAN
  BY Zenon DEF PollRequired
<1>3. ASSUME queue # << >>
      PROVE  /\ sn \in SN /\ n \in Nat /\ acked <= n /\ n < sent /\ sn = n % MOD
             /\ Head(queue) \in RetxEntries /\ Head(queue).so_start \in Nat
  <2>1. Head(queue) \in RetxEntries
    BY <1>3, HeadTailProperties
  <2>2. Head(queue).so_start \in Nat
    BY <2>1, SMT DEF RetxEntries, PDU_LEN
  <2> QED BY <1>1, <1>3, <2>1, <2>2, WindowPayload
<1> HIDE DEF p, n
<1>4. CASE BuildDataPdu(grant, queue, pdu_without_poll, poll_retx_timer)
  BY <1>4, BuildSends
<1>5. CASE queue # << >> /\ RetxWholePdu(queue)
  <2>1. dl' = Append(dl, DataPdu(sn, p, n)) /\ vt_a' = vt_a /\ vt_s' = vt_s /\ sent' = sent
    BY <1>5, Zenon DEF RetxWholePdu, Transmit, p, n
  <2>2. DataPdu(sn, p, n) \in AnyDataPdu
    BY <1>2, <1>3, <1>5, SMT DEF DataPdu, AnyDataPdu
  <2>3. DataPdu(sn, p, n).n = n /\ DataPdu(sn, p, n).sn = sn
    BY DEF DataPdu
  <2>4. OfWindow(DataPdu(sn, p, n), sent)
    BY <1>3, <1>5, <2>2, <2>3 DEF OfWindow
  <2> QED BY <2>1, <2>4 DEF Sends, acked, TX_OFFSET
<1>6. CASE queue # << >> /\ RetxSegment(grant, queue)
  <2> DEFINE so == Head(queue).so_start
  <2>1. \/ \E count, timer : BuildDataPdu(grant, queue, count, timer)
        \/ /\ dl' = Append(dl, SegmentPdu(sn, p, n, so))
           /\ vt_a' = vt_a /\ vt_s' = vt_s /\ sent' = sent
    BY <1>6, Zenon DEF RetxSegment, Transmit, p, n
  <2>2. SegmentPdu(sn, p, n, so) \in AnyDataPdu
    <3>1. (so + 1 = PDU_LEN) \in BOOLEAN
      OBVIOUS
    <3> QED BY <1>2, <1>3, <1>6, <3>1, SMT DEF SegmentPdu, AnyDataPdu
  <2>3. SegmentPdu(sn, p, n, so).n = n /\ SegmentPdu(sn, p, n, so).sn = sn
    BY DEF SegmentPdu
  <2>4. OfWindow(SegmentPdu(sn, p, n, so), sent)
    BY <1>3, <1>6, <2>2, <2>3 DEF OfWindow
  <2>5. CASE \E count, timer : BuildDataPdu(grant, queue, count, timer)
    BY <2>5, BuildSends
  <2>6. CASE /\ dl' = Append(dl, SegmentPdu(sn, p, n, so))
             /\ vt_a' = vt_a /\ vt_s' = vt_s /\ sent' = sent
    BY <2>4, <2>6 DEF Sends, acked, TX_OFFSET
  <2> QED BY <2>1, <2>5, <2>6
<1> QED BY <1>1, <1>4, <1>5, <1>6

-----------------------------------------------------------------------------
(***************************************************************************)
(* What a step leaves alone.                                               *)
(***************************************************************************)
LEMMA InStepKept ==
    ASSUME InStep, RxTypeOK', UNCHANGED <<rx_segments, delivered>>, UNCHANGED windowState
    PROVE  InStep' /\ Highest' = Highest
<1>1. IInv'
  BY WindowKept DEF InStep
<1>2. UNCHANGED <<vr_r, vr_h, rx_window, rx_segments, delivered>>
  BY Zenon DEF windowState
<1> QED BY <1>1, <1>2 DEF InStep, InOrderDelivery, SnNamesOnePayload, Highest, RX_OFFSET

LEMMA RxKept ==
    ASSUME InStep, UNCHANGED rxVars
    PROVE  InStep' /\ Highest' = Highest /\ delivered' = delivered /\ tx_status' = tx_status
<1>1. UNCHANGED <<rx_segments, delivered, tx_status>> /\ UNCHANGED windowState
  BY Zenon DEF rxVars, rxState, windowState
<1>2. RxTypeOK'
  BY OtherRxTypes DEF InStep
<1> QED BY <1>1, <1>2, InStepKept

LEMMA TxKept ==
    ASSUME TxIInv, UNCHANGED txState
    PROVE  TxIInv' /\ vt_a' = vt_a /\ acked' = acked /\ sent' = sent
BY TxStateKept DEF txState, acked, TX_OFFSET

LEMMA DataKept ==
    ASSUME DataInFlight, UNCHANGED <<dl, sent, faults>>, Highest' = Highest
    PROVE  DataInFlight'
BY DEF DataInFlight

\* Status PDUs still acknowledge no more than what has been delivered when more has been.
LEMMA StatusKept ==
    ASSUME StatusInFlight, UNCHANGED <<ul, tx_status>>, acked' = acked,
           Len(delivered) \in Nat, Len(delivered') \in Nat, Len(delivered) <= Len(delivered')
    PROVE  StatusInFlight'
<1>1. PICK cut \in [DOMAIN ul -> 0 .. Len(delivered)] :
          /\ \A i \in DOMAIN ul : acked <= cut[i] /\ CutAt(ul[i], cut[i])
          /\ \A i, j \in DOMAIN ul : i < j => cut[i] <= cut[j]
          /\ \A st \in tx_status : \E c \in 0 .. Len(delivered) :
                /\ acked <= c /\ CutAt(st, c)
                /\ \A i \in DOMAIN ul : cut[i] <= c
  BY DEF StatusInFlight
<1>2. 0 .. Len(delivered) \subseteq 0 .. Len(delivered')
  BY SMT
<1>3. cut \in [DOMAIN ul' -> 0 .. Len(delivered')]
  BY <1>1, <1>2
<1>4. /\ \A i \in DOMAIN ul' : acked' <= cut[i] /\ CutAt(ul'[i], cut[i])
      /\ \A i, j \in DOMAIN ul' : i < j => cut[i] <= cut[j]
      /\ \A st \in tx_status' : \E c \in 0 .. Len(delivered') :
            /\ acked' <= c /\ CutAt(st, c)
            /\ \A i \in DOMAIN ul' : cut[i] <= c
  BY <1>1, <1>2
<1>5. ul' \in Seq(Reports)
  BY DEF StatusInFlight
<1> QED BY <1>3, <1>4, <1>5 DEF StatusInFlight, CutAt

\* A PDU is taken out of the channel.
LEMMA DataTaken ==
    ASSUME DataInFlight, NEW i \in DOMAIN dl, dl' = RemoveAt(dl, i),
           UNCHANGED <<sent, faults>>,
           \A j \in DOMAIN dl : j # i => Highest' <= dl[j].n + WINDOW
    PROVE  DataInFlight'
<1>1. dl \in Seq(AnyDataPdu) /\ Len(dl) \in Nat
  BY LenProperties DEF DataInFlight
<1>2. /\ dl' \in Seq(AnyDataPdu) /\ DOMAIN dl' = 1 .. Len(dl) - 1
      /\ \A j \in DOMAIN dl' : /\ dl'[j] = dl[IF j < i THEN j ELSE j + 1]
                              /\ (IF j < i THEN j ELSE j + 1) \in DOMAIN dl
  BY <1>1, RemoveAtIs
<1>3. i \in 1 .. Len(dl)
  BY <1>1, LenProperties
<1> DEFINE at(j) == IF j < i THEN j ELSE j + 1
<1>4. \A j \in DOMAIN dl' : at(j) \in DOMAIN dl /\ at(j) # i /\ dl'[j] = dl[at(j)]
  <2> TAKE j \in DOMAIN dl'
  <2>1. (IF j < i THEN j ELSE j + 1) # i
    BY <1>1, <1>2, <1>3, SMT
  <2> QED BY <1>2, <2>1
<1>5. \A j, l \in DOMAIN dl' : j < l => at(j) < at(l)
  BY <1>1, <1>2, <1>3, SMT
<1> HIDE DEF at
<1>6. \A j \in DOMAIN dl' :
         /\ dl'[j].n < sent' /\ dl'[j].sn = dl'[j].n % MOD
         /\ Highest' <= dl'[j].n + WINDOW
         /\ "reorder_dl" \in faults' => sent' <= dl'[j].n + WINDOW
  BY <1>4 DEF DataInFlight
<1>7. \A j, l \in DOMAIN dl' : l < j => dl'[l].n < dl'[j].n + WINDOW
  BY <1>4, <1>5 DEF DataInFlight
<1> QED BY <1>2, <1>6, <1>7 DEF DataInFlight

\* A status PDU is taken out of the channel, and what is still under way acknowledges
\* at least "low".
LEMMA StatusTaken ==
    ASSUME ul \in Seq(Reports), NEW i \in DOMAIN ul,
           ul' = RemoveAt(ul, i), UNCHANGED <<tx_status, delivered>>,
           NEW cut \in [DOMAIN ul -> 0 .. Len(delivered)],
           \A j \in DOMAIN ul : j # i => acked' <= cut[j] /\ CutAt(ul[j], cut[j]),
           \A j, l \in DOMAIN ul : j < l => cut[j] <= cut[l],
           \A st \in tx_status : \E c \in 0 .. Len(delivered) :
              /\ acked' <= c /\ CutAt(st, c)
              /\ \A j \in DOMAIN ul : cut[j] <= c
    PROVE  StatusInFlight'
<1>1. Len(ul) \in Nat /\ i \in 1 .. Len(ul)
  BY LenProperties
<1>2. /\ ul' \in Seq(Reports) /\ DOMAIN ul' = 1 .. Len(ul) - 1
      /\ \A j \in DOMAIN ul' : /\ ul'[j] = ul[IF j < i THEN j ELSE j + 1]
                              /\ (IF j < i THEN j ELSE j + 1) \in DOMAIN ul
  BY RemoveAtIs, ZenonT(30)
<1> DEFINE at(j) == IF j < i THEN j ELSE j + 1
           rest  == [j \in DOMAIN ul' |-> cut[at(j)]]
<1>3. \A j \in DOMAIN ul' : at(j) \in DOMAIN ul /\ at(j) # i /\ ul'[j] = ul[at(j)]
  <2> TAKE j \in DOMAIN ul'
  <2>1. (IF j < i THEN j ELSE j + 1) # i
    BY <1>1, <1>2, SMT
  <2> QED BY <1>2, <2>1
<1>4. \A j, l \in DOMAIN ul' : j < l => at(j) < at(l)
  BY <1>1, <1>2, SMT
<1> HIDE DEF at
<1>5. rest \in [DOMAIN ul' -> 0 .. Len(delivered)] /\ \A j \in DOMAIN ul' : rest[j] = cut[at(j)]
  BY <1>3
<1> HIDE DEF rest
<1>6. \A j \in DOMAIN ul' : acked' <= rest[j] /\ CutAt(ul'[j], rest[j])
  BY <1>3, <1>5
<1>7. \A j, l \in DOMAIN ul' : j < l => rest[j] <= rest[l]
  BY <1>3, <1>4, <1>5
<1>8. \A st \in tx_status' : \E c \in 0 .. Len(delivered') :
         /\ acked' <= c /\ CutAt(st, c)
         /\ \A j \in DOMAIN ul' : rest[j] <= c
  BY <1>3, <1>5
<1> QED BY <1>2, <1>5, <1>6, <1>7, <1>8, ZenonT(30) DEF StatusInFlight, CutAt

-----------------------------------------------------------------------------
(***************************************************************************)
(* handle_control_pdu moves vt_a up to the first payload that the status   *)
(* PDU does not acknowledge, and no further.                               *)
(***************************************************************************)
LEMMA ControlAcks ==
    ASSUME LinkIInv, NEW st, st.ack_sn \in SN,
           NEW c \in 0 .. Len(delivered), acked <= c, CutAt(st, c), HandleControlPdu(st)
    PROVE  /\ vt_a' = acked' % MOD /\ acked <= acked' /\ acked' <= c
           /\ sent' = sent /\ dl' = dl
<1>1. /\ sent \in Nat /\ acked \in Nat /\ Len(delivered) \in Nat /\ Len(delivered) <= sent
      /\ TX_OFFSET(vt_s) \in 0 .. MOD - 1 /\ sent = acked + TX_OFFSET(vt_s) /\ vt_a \in SN
  <2>1. /\ sent \in Nat /\ acked \in Nat /\ Len(delivered) \in Nat /\ Highest \in Nat
        /\ TX_OFFSET(vt_s) \in 0 .. MOD - 1 /\ sent = acked + TX_OFFSET(vt_s) /\ vt_a \in SN
        /\ Len(delivered) <= Highest /\ Highest <= sent
    BY LinkFacts
  <2> QED BY <2>1, SMT
<1> DEFINE limit == StatusLimit(st.ack_sn)
<1>2. limit \in 0 .. TX_OFFSET(vt_s) /\ limit <= TX_OFFSET(st.ack_sn)
  BY StatusLimitType DEF LinkIInv
<1>3. PICK run \in AckedRun(limit, st.nacks) :
         tx_window' = Without(tx_window, Span(vt_a, run)) /\ vt_a' = Plus(vt_a, run)
  BY Zenon DEF HandleControlPdu
<1>4. UNCHANGED <<vt_s, tx_sdu, sent>> /\ dl' = dl
  BY Zenon DEF HandleControlPdu
<1> HIDE DEF limit
<1>5. /\ run \in 0 .. limit /\ run \in 0 .. TX_OFFSET(vt_s)
      /\ \A j \in 0 .. run - 1 : Plus(vt_a, j) \notin st.nacks
  BY <1>1, <1>2, SMT DEF AckedRun
<1>6. acked' = acked + run
  <2>1. TX_OFFSET(vt_s)' = TX_OFFSET(vt_s) - run
    BY <1>3, <1>4, <1>5, VtAMoves DEF LinkIInv
  <2>2. acked' = sent' - TX_OFFSET(vt_s)'
    BY DEF acked
  <2> QED BY <1>1, <1>4, <1>5, <2>1, <2>2, SMT
<1>7. vt_a' = acked' % MOD
  <2>1. run \in 0 .. MOD
    BY <1>1, <1>5, Sizes, SMT
  <2>2. (acked + run) % MOD = Plus(vt_a, run)
    BY <1>1, <2>1, ModSum DEF LinkIInv
  <2> QED BY <1>3, <1>6, <2>2
<1>8. run <= c - acked
  <2> DEFINE e == c - acked
  <2>1. e \in 0 .. MOD - 1 /\ e \in 0 .. MOD /\ acked + e = c
    BY <1>1, Sizes, SMT
  <2> HIDE DEF e
  <2>2. c % MOD = Plus(vt_a, e)
    BY <1>1, <2>1, ModSum DEF LinkIInv
  <2>3. CASE st.ack_sn = c % MOD
    <3>1. TX_OFFSET(st.ack_sn) = e
      BY <1>1, <2>1, <2>2, <2>3, OffsetFromBase DEF TX_OFFSET
    <3> QED BY <1>1, <1>2, <1>5, <2>1, <3>1, SMT DEF e
  <2>4. CASE c % MOD \in st.nacks
    <3>1. e \notin 0 .. run - 1
      BY <1>5, <2>2, <2>4
    <3> QED BY <1>1, <1>5, <2>1, <3>1, SMT DEF e
  <2> QED BY <2>3, <2>4 DEF CutAt
<1> QED BY <1>1, <1>4, <1>5, <1>6, <1>7, <1>8, SMT

-----------------------------------------------------------------------------
(***************************************************************************)
(* get_status_pdu: the PDU that is to be delivered next is not             *)
(* acknowledged, however few NACKs the grant has room for.                 *)
(***************************************************************************)
LEMMA ReportCutAtVrR ==
    ASSUME IInv, NEW room, NEW st \in StatusReports(room)
    PROVE  st.ack_sn = vr_r \/ vr_r \in st.nacks
<1> DEFINE Missing   == { x \in Span(vr_r, RX_OFFSET(vr_ms)) : x \notin DOMAIN rx_window }
           Before(x) == { y \in Missing : RX_OFFSET(y) < RX_OFFSET(x) }
           nacked    == { x \in Missing : Cardinality(Before(x)) < room }
           truncated == nacked # Missing
           reported  == Reported(Missing \ nacked)
<1>1. /\ st.ack_sn \in IF reported = {} THEN {vr_r} ELSE reported
      /\ st.nacks = IF truncated /\ st.ack_sn \in nacked THEN {} ELSE nacked
  <2>1. PICK ack_sn \in IF reported = {} THEN {vr_r}
                        ELSE { x \in reported : \A y \in reported : RX_OFFSET(y) <= RX_OFFSET(x) } :
           st = [ ack_sn |-> ack_sn,
                  nacks  |-> IF truncated /\ ack_sn \in nacked THEN {} ELSE nacked ]
    BY Zenon DEF StatusReports
  <2> QED BY <2>1
<1> HIDE DEF reported, truncated
<1>2. CASE reported = {}
  BY <1>1, <1>2
<1>3. CASE reported # {}
  <2>1. /\ vr_r \in SN /\ vr_ms \in SN /\ vr_r \notin DOMAIN rx_window /\ RX_OFFSET(vr_r) = 0
        /\ \A x \in SN : RX_OFFSET(x) \in 0 .. MOD - 1
    BY OffsetOfSelf, OffsetType DEF IInv, Placed, OnlyGapsBlock, RX_OFFSET
  <2>2. st.ack_sn \in reported /\ st.ack_sn \in DOMAIN rx_window /\ st.ack_sn \in SN
        /\ RX_OFFSET(st.ack_sn) < RX_OFFSET(vr_ms)
        /\ \A y \in Missing \ nacked : RX_OFFSET(st.ack_sn) < RX_OFFSET(y)
    BY <1>1, <1>3, Zenon DEF reported, Reported, IInv, Placed
  <2>3. st.ack_sn \notin nacked
    BY <2>2
  <2>4. vr_r \in Missing
    <3>1. 0 < RX_OFFSET(vr_ms)
      BY <2>1, <2>2, SMT
    <3> QED BY <2>1, <3>1 DEF Span, RX_OFFSET
  <2>5. vr_r \in nacked
    <3>1. ~(RX_OFFSET(st.ack_sn) < RX_OFFSET(vr_r))
      BY <2>1, <2>2, SMT
    <3> QED BY <2>2, <2>4, <3>1
  <2> QED BY <1>1, <2>3, <2>5
<1> QED BY <1>2, <1>3

-----------------------------------------------------------------------------
(***************************************************************************)
(* The steps of the transmitting entity.                                   *)
(***************************************************************************)
LEMMA SubmitStep ==
    ASSUME LinkIInv, NEW size \in SDU_SIZES, Submit(size)
    PROVE  LinkIInv' /\ delivered' = delivered /\ sent' = sent /\ acked' = acked
<1>1. WriteSdu(size) /\ UNCHANGED rxVars /\ UNCHANGED <<ul, lost, faults>>
  BY Zenon DEF Submit
<1>2. TxIInv'
  BY <1>1, WriteSduTxIInv DEF LinkIInv
<1>3. vt_a' = vt_a /\ vt_s' = vt_s /\ sent' = sent /\ dl' = dl
  BY <1>1, Zenon DEF WriteSdu
<1>4. InStep' /\ Highest' = Highest /\ delivered' = delivered /\ tx_status' = tx_status
  BY <1>1, RxKept DEF LinkIInv
<1>5. acked' = acked
  BY <1>3 DEF acked, TX_OFFSET
<1>6. DataInFlight'
  BY <1>1, <1>3, <1>4, DataKept DEF LinkIInv
<1>7. StatusInFlight'
  BY <1>1, <1>4, <1>5 DEF LinkIInv, StatusInFlight, CutAt
<1> QED BY <1>1, <1>2, <1>3, <1>4, <1>5, <1>6, <1>7 DEF LinkIInv

LEMMA TimeoutStep ==
    ASSUME LinkIInv, PollRetxTimeout
    PROVE  LinkIInv' /\ delivered' = delivered /\ sent' = sent /\ acked' = acked
<1>1. PollRetxTimerExpired /\ UNCHANGED rxVars /\ UNCHANGED <<ul, lost, faults>>
  BY Zenon DEF PollRetxTimeout
<1>2. TxIInv'
  BY <1>1, PollRetxTimerExpiredTxIInv DEF LinkIInv
<1>3. vt_a' = vt_a /\ vt_s' = vt_s /\ sent' = sent /\ dl' = dl
  BY <1>1, Zenon DEF PollRetxTimerExpired
<1>4. InStep' /\ Highest' = Highest /\ delivered' = delivered /\ tx_status' = tx_status
  BY <1>1, RxKept DEF LinkIInv
<1>5. acked' = acked
  BY <1>3 DEF acked, TX_OFFSET
<1>6. DataInFlight'
  BY <1>1, <1>3, <1>4, DataKept DEF LinkIInv
<1>7. StatusInFlight'
  BY <1>1, <1>4, <1>5 DEF LinkIInv, StatusInFlight, CutAt
<1> QED BY <1>1, <1>2, <1>3, <1>4, <1>5, <1>6, <1>7 DEF LinkIInv

\* A PDU of the window joins the channel.
LEMMA DataSent ==
    ASSUME LinkIInv, WithinWindow, TxIInv', WithinWindow',
           sent' = sent \/ sent' = sent + 1, acked' = acked,
           NEW pdu, OfWindow(pdu, sent'), dl' = Append(dl, pdu),
           Highest' = Highest, faults' = faults,
           "reorder_dl" \in faults => \A i \in DOMAIN dl : sent' - dl[i].n <= WINDOW
    PROVE  DataInFlight'
<1>1. /\ sent \in Nat /\ acked \in Nat /\ Highest \in Nat /\ Highest <= sent
      /\ sent = acked + TX_OFFSET(vt_s) /\ TX_OFFSET(vt_s) \in 0 .. MOD - 1
  BY LinkFacts
<1>2. /\ pdu \in AnyDataPdu /\ pdu.n \in Nat /\ acked <= pdu.n /\ pdu.n < sent'
      /\ pdu.sn = pdu.n % MOD
  BY SMT DEF OfWindow, AnyDataPdu
<1>3. sent <= pdu.n + WINDOW /\ sent' <= pdu.n + WINDOW
  <2>1. sent <= acked + WINDOW
    BY <1>1, Sizes, SMT DEF WithinWindow
  <2>2. sent' <= acked + WINDOW
    <3>1. acked' = sent' - TX_OFFSET(vt_s)' /\ TX_OFFSET(vt_s)' <= WINDOW
      BY DEF acked, WithinWindow
    <3>2. sent' \in Nat
      BY <1>1, SMT
    <3>3. TX_OFFSET(vt_s)' \in 0 .. MOD - 1
      <4>1. vt_s' \in SN /\ vt_a' \in SN
        BY DEF TxIInv, TxTypeOK
      <4> QED BY <4>1, OffsetType DEF TX_OFFSET
    <3>4. PICK o \in 0 .. MOD - 1 : acked = sent' - o /\ o <= WINDOW
      BY <3>1, <3>3
    <3>5. acked \in Nat /\ WINDOW \in Nat /\ o \in Int
      BY <1>1, Sizes, SMT
    <3>6. PICK top \in Nat : top = sent'
      BY <3>2
    <3>7. PICK low \in Nat : low = acked
      BY <3>5
    <3>8. low = top - o /\ o <= WINDOW
      BY <3>4, <3>6, <3>7
    <3>9. top <= low + WINDOW
      BY <3>5, <3>8, SMT
    <3> QED BY <3>6, <3>7, <3>9
  <2>3. sent' \in Nat
    BY <1>1, SMT
  <2> QED BY <1>1, <1>2, <2>1, <2>2, <2>3, Sizes, SMTT(30)
<1>4. /\ dl \in Seq(AnyDataPdu) /\ Len(dl) \in Nat /\ DOMAIN dl = 1 .. Len(dl)
      /\ dl' \in Seq(AnyDataPdu) /\ DOMAIN dl' = 1 .. Len(dl) + 1
      /\ \A i \in 1 .. Len(dl) : dl'[i] = dl[i]
      /\ dl'[Len(dl) + 1] = pdu
  <2>1. dl \in Seq(AnyDataPdu)
    BY DEF LinkIInv, DataInFlight
  <2>2. /\ dl' \in Seq(AnyDataPdu) /\ Len(dl') = Len(dl) + 1
        /\ \A i \in 1 .. Len(dl) : dl'[i] = dl[i]
        /\ dl'[Len(dl) + 1] = pdu
    BY <1>2, <2>1, AppendProperties
  <2> QED BY <2>1, <2>2, LenProperties
<1>5. \A i \in 1 .. Len(dl) + 1 : i \in 1 .. Len(dl) \/ i = Len(dl) + 1
  BY <1>4, SMT
<1>6. \A i \in 1 .. Len(dl) : dl[i].n \in Nat /\ dl[i] \in AnyDataPdu
  <2> TAKE i \in 1 .. Len(dl)
  <2>1. dl[i] \in AnyDataPdu
    BY <1>4, ElementOfSeq
  <2> QED BY <2>1, SMT DEF AnyDataPdu
<1>7. \A i \in 1 .. Len(dl) :
         /\ dl[i].n < sent' /\ dl[i].sn = dl[i].n % MOD /\ Highest <= dl[i].n + WINDOW
         /\ "reorder_dl" \in faults => sent' <= dl[i].n + WINDOW
  <2> TAKE i \in 1 .. Len(dl)
  <2>1. dl[i].n < sent /\ dl[i].sn = dl[i].n % MOD /\ Highest <= dl[i].n + WINDOW
    BY <1>4 DEF LinkIInv, DataInFlight
  <2>2. dl[i].n < sent'
    BY <1>1, <1>6, <2>1, SMT
  <2>3. ASSUME "reorder_dl" \in faults PROVE sent' <= dl[i].n + WINDOW
    <3>1. sent' - dl[i].n <= WINDOW
      BY <1>4, <2>3
    <3>2. sent' \in Nat
      BY <1>1, SMT
    <3> QED BY <1>6, <3>1, <3>2, Sizes, SMT
  <2> QED BY <2>1, <2>2, <2>3
<1>8. Highest <= pdu.n + WINDOW
  BY <1>1, <1>2, <1>3, Sizes, SMTT(30)
<1>9. \A i \in DOMAIN dl' :
         /\ dl'[i].n < sent' /\ dl'[i].sn = dl'[i].n % MOD
         /\ Highest' <= dl'[i].n + WINDOW
         /\ "reorder_dl" \in faults' => sent' <= dl'[i].n + WINDOW
  BY <1>2, <1>3, <1>4, <1>5, <1>7, <1>8
<1>10. ASSUME NEW i \in DOMAIN dl', NEW j \in DOMAIN dl', j < i
       PROVE  dl'[j].n < dl'[i].n + WINDOW
  <2>1. j \in 1 .. Len(dl)
    BY <1>4, <1>10, SMT
  <2>2. CASE i \in 1 .. Len(dl)
    BY <1>4, <1>10, <2>1, <2>2 DEF LinkIInv, DataInFlight
  <2>3. CASE i = Len(dl) + 1
    <3>1. dl[j].n < sent
      BY <1>4, <2>1 DEF LinkIInv, DataInFlight
    <3>2. dl[j].n \in Nat
      BY <1>6, <2>1
    <3> DEFINE m == dl[j].n
    <3>3. m \in Nat /\ m < sent
      BY <3>1, <3>2
    <3> HIDE DEF m
    <3>4. m < pdu.n + WINDOW
      BY <1>1, <1>2, <1>3, <3>3, Sizes, SMTT(30)
    <3> QED BY <1>4, <2>1, <2>3, <3>4 DEF m
  <2> QED BY <1>4, <1>5, <2>2, <2>3
<1> QED BY <1>4, <1>9, <1>10 DEF DataInFlight

LEMMA GrantStep ==
    ASSUME LinkIInv, WithinWindow, WithinWindow', NEW grant, Grant(grant)
    PROVE  /\ LinkIInv' /\ delivered' = delivered /\ acked' = acked
           /\ sent' = sent \/ sent' = sent + 1
<1>1. /\ ReadPdu(grant) /\ UNCHANGED rxVars /\ UNCHANGED <<ul, lost, faults>>
      /\ "reorder_dl" \in faults => DelayBounded
  BY Zenon DEF Grant
<1>2. TxIInv'
  BY <1>1, ReadPduTxIInv DEF LinkIInv
<1>3. Sends
  BY <1>1, ReadPduSends
<1>4. InStep' /\ Highest' = Highest /\ delivered' = delivered /\ tx_status' = tx_status
  BY <1>1, RxKept DEF LinkIInv
<1>5. vt_a' = vt_a /\ acked' = acked /\ (sent' = sent \/ sent' = sent + 1)
  BY <1>3, Zenon DEF Sends
<1>6. Highest' <= sent'
  BY <1>4, <1>5, LinkFacts, SMT
<1>7. DataInFlight'
  <2>1. CASE sent' = sent /\ dl' = dl
    BY <1>1, <1>4, <2>1, DataKept DEF LinkIInv
  <2>2. CASE \E pdu : OfWindow(pdu, sent') /\ dl' = Append(dl, pdu)
    <3>1. "reorder_dl" \in faults => \A i \in DOMAIN dl : sent' - dl[i].n <= WINDOW
      BY <1>1 DEF DelayBounded
    <3> QED BY <1>1, <1>2, <1>4, <1>5, <2>2, <3>1, DataSent
  <2> QED BY <1>3, <2>1, <2>2, Zenon DEF Sends
<1>8. StatusInFlight'
  BY <1>1, <1>4, <1>5 DEF LinkIInv, StatusInFlight, CutAt
<1> QED BY <1>1, <1>2, <1>4, <1>5, <1>6, <1>7, <1>8 DEF LinkIInv

\* Status PDUs arrive in the order in which they were sent.
LEMMA StatusArrivesStep ==
    ASSUME LinkIInv, NEW i \in Arriving(ul, "reorder_ul" \in faults), StatusArrives(i)
    PROVE  /\ LinkIInv'
           /\ sent' = sent /\ delivered' = delivered
           /\ acked <= acked' /\ acked' <= Len(delivered)
<1>1. i = 1 /\ i \in DOMAIN ul
  BY DEF LinkIInv, Arriving
<1>2. HandleControlPdu(ul[i]) /\ ul' = RemoveAt(ul, i) /\ UNCHANGED rxVars /\ faults' = faults
  BY Zenon DEF StatusArrives
<1>3. PICK cut \in [DOMAIN ul -> 0 .. Len(delivered)] :
          /\ \A j \in DOMAIN ul : acked <= cut[j] /\ CutAt(ul[j], cut[j])
          /\ \A j, l \in DOMAIN ul : j < l => cut[j] <= cut[l]
          /\ \A st \in tx_status : \E c \in 0 .. Len(delivered) :
                /\ acked <= c /\ CutAt(st, c)
                /\ \A j \in DOMAIN ul : cut[j] <= c
  BY DEF LinkIInv, StatusInFlight
<1>4. ul \in Seq(Reports) /\ ul[i].ack_sn \in SN /\ Len(ul) \in Nat
      /\ DOMAIN ul = 1 .. Len(ul)
  <2>1. ul \in Seq(Reports)
    BY DEF LinkIInv, StatusInFlight
  <2>2. Len(ul) \in Nat /\ DOMAIN ul = 1 .. Len(ul)
    BY <2>1, LenProperties
  <2>3. ul[i] \in Reports
    BY <1>1, <2>1, <2>2, ElementOfSeq
  <2> QED BY <2>1, <2>2, <2>3 DEF Reports
<1>5. /\ vt_a' = acked' % MOD /\ acked <= acked' /\ acked' <= cut[i]
      /\ sent' = sent /\ dl' = dl
  BY <1>1, <1>2, <1>3, <1>4, ControlAcks
<1>6. TxIInv'
  BY <1>2, <1>4, HandleControlPduTxIInv DEF LinkIInv
<1>7. InStep' /\ Highest' = Highest /\ delivered' = delivered /\ tx_status' = tx_status
  BY <1>2, RxKept DEF LinkIInv
<1>8. acked' \in Int /\ acked \in Nat /\ Len(delivered) \in Nat
  <2>1. TX_OFFSET(vt_s)' \in 0 .. MOD - 1
    <3>1. vt_s' \in SN /\ vt_a' \in SN
      BY <1>6 DEF TxIInv, TxTypeOK
    <3> QED BY <3>1, OffsetType DEF TX_OFFSET
  <2>2. acked' = sent' - TX_OFFSET(vt_s)'
    BY DEF acked
  <2>3. sent' \in Nat /\ acked \in Nat /\ Len(delivered) \in Nat
    BY <1>5, LinkFacts
  <2>4. PICK o \in 0 .. MOD - 1 : o = TX_OFFSET(vt_s)'
    BY <2>1
  <2>5. sent' - o \in Int
    BY <2>3, Sizes, SMT
  <2> QED BY <2>2, <2>3, <2>4, <2>5
<1>9. \A j \in DOMAIN ul : cut[j] \in 0 .. Len(delivered) /\ cut[i] <= cut[j]
  <2> TAKE j \in DOMAIN ul
  <2>1. cut[j] \in 0 .. Len(delivered) /\ (j = i \/ i < j)
    BY <1>1, <1>3, <1>4, SMT
  <2>2. cut[i] \in 0 .. Len(delivered)
    BY <1>1, <1>3
  <2> QED BY <1>1, <1>3, <1>8, <2>1, <2>2, SMT
<1>10. PICK low \in Int : low = acked'
  BY <1>8
<1>11. low <= cut[i] /\ cut[i] \in 0 .. Len(delivered) /\ low <= Len(delivered)
  <2>1. low <= cut[i] /\ cut[i] \in 0 .. Len(delivered)
    BY <1>1, <1>3, <1>5, <1>10
  <2> QED BY <1>8, <2>1, SMT
<1>12. \A j \in DOMAIN ul : low <= cut[j]
  <2> TAKE j \in DOMAIN ul
  <2>1. cut[j] \in 0 .. Len(delivered) /\ cut[i] <= cut[j] /\ low <= cut[i]
    BY <1>9, <1>11
  <2> QED BY <1>8, <1>11, <2>1, SMT
<1>13. \A st \in tx_status : \E c \in 0 .. Len(delivered) :
          low <= c /\ CutAt(st, c) /\ \A j \in DOMAIN ul : cut[j] <= c
  <2> TAKE st \in tx_status
  <2>1. PICK c \in 0 .. Len(delivered) : CutAt(st, c) /\ \A j \in DOMAIN ul : cut[j] <= c
    BY <1>3
  <2>2. cut[i] <= c /\ cut[i] \in 0 .. Len(delivered) /\ low <= cut[i]
    BY <1>1, <1>11, <2>1
  <2>3. low <= c
    BY <1>8, <2>2, SMT
  <2> QED BY <2>1, <2>3
<1>14. StatusInFlight'
  BY <1>1, <1>2, <1>3, <1>4, <1>7, <1>10, <1>12, <1>13, StatusTaken
<1>15. DataInFlight'
  BY <1>2, <1>5, <1>7, DataKept DEF LinkIInv
<1>16. LinkIInv'
  BY <1>2, <1>5, <1>6, <1>7, <1>10, <1>11, <1>14, <1>15 DEF LinkIInv
<1> QED BY <1>5, <1>7, <1>10, <1>11, <1>16

-----------------------------------------------------------------------------
(***************************************************************************)
(* The steps of the receiving entity.                                      *)
(***************************************************************************)
\* What a PDU raises vr_h to is no more than a window above any other PDU under way.
LEMMA OthersRecent ==
    ASSUME LinkIInv, NEW i \in Arriving(dl, "reorder_dl" \in faults),
           NEW j \in DOMAIN dl, j # i
    PROVE  i \in DOMAIN dl /\ dl[i].n < dl[j].n + WINDOW
<1>1. i \in DOMAIN dl
  BY DEF Arriving
<1>2. dl \in Seq(AnyDataPdu) /\ DOMAIN dl = 1 .. Len(dl) /\ Len(dl) \in Nat
  BY LenProperties DEF LinkIInv, DataInFlight
<1>3. CASE "reorder_dl" \in faults
  <2>1. dl[i] \in AnyDataPdu /\ dl[j] \in AnyDataPdu
    BY <1>1, <1>2, ElementOfSeq
  <2>2. dl[i].n \in Nat /\ dl[j].n \in Nat /\ sent \in Nat
    BY <2>1, LinkFacts DEF AnyDataPdu
  <2>3. dl[i].n < sent /\ sent <= dl[j].n + WINDOW
    BY <1>1, <1>3 DEF LinkIInv, DataInFlight
  <2> QED BY <1>1, <2>2, <2>3, Sizes, SMT
<1>4. CASE "reorder_dl" \notin faults
  <2>1. i = 1
    BY <1>4 DEF Arriving
  <2>2. i < j
    BY <1>2, <2>1, SMT
  <2> QED BY <1>1, <2>2 DEF LinkIInv, DataInFlight
<1> QED BY <1>3, <1>4

LEMMA DataArrivesStep ==
    ASSUME LinkIInv, WithinWindow,
           NEW i \in Arriving(dl, "reorder_dl" \in faults), DataArrives(i)
    PROVE  /\ LinkIInv' /\ sent' = sent /\ acked' = acked
           /\ \E k \in 0 .. WINDOW :
                 delivered' = delivered \o [l \in 1 .. k |-> Len(delivered) + l - 1]
<1>1. /\ WritePdu(dl[i]) /\ dl' = RemoveAt(dl, i) /\ UNCHANGED txState
      /\ UNCHANGED <<ul, lost, faults>>
  BY Zenon DEF DataArrives
<1>2. i \in DOMAIN dl
  BY DEF Arriving
<1>3. dl[i] \in AnyDataPdu /\ dl[i].n \in Nat
  <2>1. dl \in Seq(AnyDataPdu) /\ DOMAIN dl = 1 .. Len(dl)
    BY LenProperties DEF LinkIInv, DataInFlight
  <2>2. dl[i] \in AnyDataPdu
    BY <1>2, <2>1, ElementOfSeq
  <2> QED BY <2>2, SMT DEF AnyDataPdu
<1>4. /\ sent \in Nat /\ acked \in Nat /\ Len(delivered) \in Nat /\ Highest \in Nat
      /\ acked <= Len(delivered) /\ Len(delivered) <= Highest /\ Highest <= sent
      /\ sent <= acked + WINDOW
  <2>1. /\ sent \in Nat /\ acked \in Nat /\ Len(delivered) \in Nat /\ Highest \in Nat
        /\ acked <= Len(delivered) /\ Len(delivered) <= Highest /\ Highest <= sent
        /\ sent = acked + TX_OFFSET(vt_s) /\ TX_OFFSET(vt_s) \in 0 .. MOD - 1
        /\ TX_OFFSET(vt_s) <= WINDOW
    BY LinkFacts DEF WithinWindow
  <2>2. sent <= acked + WINDOW
    BY <2>1, Sizes, SMT
  <2> QED BY <2>1, <2>2
<1>5. dl[i].n < sent /\ dl[i].sn = dl[i].n % MOD /\ Highest <= dl[i].n + WINDOW
  BY <1>2 DEF LinkIInv, DataInFlight
<1>6. Len(delivered) <= dl[i].n + WINDOW /\ dl[i].n < Len(delivered) + WINDOW
  BY <1>3, <1>4, <1>5, Sizes, SMTT(30)
<1>7. Advances(dl[i].n + 1)
  BY <1>1, <1>3, <1>5, <1>6, WritePduInStep DEF LinkIInv
<1>8. PICK k \in 0 .. WINDOW :
         delivered' = delivered \o [l \in 1 .. k |-> Len(delivered) + l - 1]
  BY <1>7 DEF Advances
<1>9. /\ InStep' /\ Highest <= Highest' /\ (Highest' <= Highest \/ Highest' <= dl[i].n + 1)
  BY <1>7 DEF Advances
<1>10. Len(delivered') = Len(delivered) + k /\ k \in Nat
  <2>1. k \in Nat
    BY Sizes, SMT
  <2> QED BY <1>8, <2>1, InStepTypes, NextPayloads DEF LinkIInv
<1>11. Highest' \in Nat
  <2>1. Highest' = Len(delivered') + Offset(vr_h', vr_r') /\ vr_h' \in SN /\ vr_r' \in SN
    BY <1>9 DEF Highest, RX_OFFSET, InStep, RxTypeOK
  <2>2. Offset(vr_h', vr_r') \in 0 .. MOD - 1
    BY <2>1, OffsetType
  <2>3. Len(delivered) + k + Offset(vr_h', vr_r') \in Nat
    BY <1>4, <1>10, <2>2, Sizes, SMT
  <2> QED BY <1>10, <2>1, <2>3
<1>12. PICK high \in Nat : high = Highest'
  BY <1>11
<1>13. TxIInv' /\ vt_a' = vt_a /\ acked' = acked /\ sent' = sent
  BY <1>1, TxKept DEF LinkIInv
<1>14. high <= Highest \/ high <= dl[i].n + 1
  BY <1>9, <1>12
<1>15. high <= sent
  BY <1>3, <1>4, <1>5, <1>14, SMT
<1>16. acked <= Len(delivered')
  <2>1. acked <= Len(delivered) + k
    BY <1>4, <1>10, SMT
  <2> QED BY <1>10, <2>1
<1>17. \A j \in DOMAIN dl : j # i => high <= dl[j].n + WINDOW
  <2> TAKE j \in DOMAIN dl
  <2> HAVE j # i
  <2>1. dl[i].n < dl[j].n + WINDOW /\ Highest <= dl[j].n + WINDOW /\ dl[j].n \in Nat
    <3>1. dl \in Seq(AnyDataPdu) /\ DOMAIN dl = 1 .. Len(dl)
      BY LenProperties DEF LinkIInv, DataInFlight
    <3>2. dl[j] \in AnyDataPdu
      BY <3>1, ElementOfSeq
    <3>3. dl[i].n < dl[j].n + WINDOW
      BY OthersRecent
    <3> QED BY <3>2, <3>3, SMT DEF LinkIInv, DataInFlight, AnyDataPdu
  <2> QED BY <1>3, <1>4, <1>14, <2>1, Sizes, SMTT(30)
<1>18. DataInFlight'
  BY <1>1, <1>2, <1>12, <1>13, <1>17, DataTaken DEF LinkIInv
<1>19. StatusInFlight'
  <2>1. UNCHANGED <<ul, tx_status>>
    BY <1>1, Zenon DEF WritePdu
  <2>2. Len(delivered) + k \in Nat /\ Len(delivered) <= Len(delivered) + k
    BY <1>4, <1>10, SMT
  <2> QED BY <1>4, <1>10, <1>13, <2>1, <2>2, StatusKept DEF LinkIInv
<1>20. /\ vt_a' = acked' % MOD /\ acked' <= Len(delivered') /\ Highest' <= sent'
       /\ faults' = faults /\ tx_status' = tx_status
  BY <1>1, <1>12, <1>13, <1>15, <1>16, Zenon DEF LinkIInv, WritePdu
<1>21. LinkIInv'
  BY <1>9, <1>13, <1>18, <1>19, <1>20 DEF LinkIInv
<1> QED BY <1>8, <1>13, <1>21

LEMMA ReorderingStep ==
    ASSUME LinkIInv, ReorderingTimeout
    PROVE  LinkIInv' /\ delivered' = delivered /\ sent' = sent /\ acked' = acked
<1>1. ReorderingTimerExpired /\ UNCHANGED txState /\ UNCHANGED <<dl, ul, lost, faults>>
  BY Zenon DEF ReorderingTimeout, txVars
<1>2. UNCHANGED <<vr_r, vr_h, rx_window, rx_segments, delivered, tx_status>>
  BY <1>1, Zenon DEF ReorderingTimerExpired
<1>3. IInv' /\ RxTypeOK'
  BY <1>1, ExpiredIInv, OtherRxTypes DEF LinkIInv, InStep
<1>4. InStep' /\ Highest' = Highest
  BY <1>2, <1>3 DEF LinkIInv, InStep, InOrderDelivery, SnNamesOnePayload, Highest, RX_OFFSET
<1>5. TxIInv' /\ vt_a' = vt_a /\ acked' = acked /\ sent' = sent
  BY <1>1, TxKept DEF LinkIInv
<1>6. DataInFlight'
  BY <1>1, <1>4, <1>5, DataKept DEF LinkIInv
<1>7. StatusInFlight'
  BY <1>1, <1>2, <1>5 DEF LinkIInv, StatusInFlight, CutAt
<1> QED BY <1>1, <1>2, <1>4, <1>5, <1>6, <1>7 DEF LinkIInv

\* get_status_pdu and reset_status run apart: what has been delivered in between does not
\* change what the PDU acknowledges.
LEMMA StatusGrantStep ==
    ASSUME LinkIInv, StatusGrant
    PROVE  LinkIInv' /\ delivered' = delivered /\ sent' = sent /\ acked' = acked
<1>1. GetStatusPdu /\ UNCHANGED txState /\ UNCHANGED <<dl, ul, lost, faults>>
  BY Zenon DEF StatusGrant, txVars
<1>2. PICK st : tx_status' = {st} /\ \E room : st \in StatusReports(room)
  BY <1>1, Zenon DEF GetStatusPdu
<1>3. UNCHANGED <<rx_segments, delivered>> /\ UNCHANGED windowState
  BY <1>1, Zenon DEF GetStatusPdu, rxState, windowState
<1>4. RxTypeOK'
  BY <1>1, OtherRxTypes DEF LinkIInv, InStep
<1>5. InStep' /\ Highest' = Highest
  BY <1>3, <1>4, InStepKept DEF LinkIInv
<1>6. TxIInv' /\ vt_a' = vt_a /\ acked' = acked /\ sent' = sent
  BY <1>1, TxKept DEF LinkIInv
<1>7. DataInFlight'
  BY <1>1, <1>5, <1>6, DataKept DEF LinkIInv
<1>8. st \in Reports
  <2>1. st.ack_sn \in SN /\ st.nacks \subseteq SN
    BY <1>2, <1>4 DEF RxTypeOK
  <2>2. \E a, n : st = [ack_sn |-> a, nacks |-> n]
    BY <1>2, Zenon DEF StatusReports
  <2> QED BY <2>1, <2>2 DEF Reports
<1>9. CutAt(st, Len(delivered))
  <2>1. st.ack_sn = vr_r \/ vr_r \in st.nacks
    BY <1>2, ReportCutAtVrR DEF LinkIInv, InStep
  <2> QED BY <2>1 DEF LinkIInv, InStep, CutAt
<1>10. StatusInFlight'
  <2>1. PICK cut \in [DOMAIN ul -> 0 .. Len(delivered)] :
          /\ \A i \in DOMAIN ul : acked <= cut[i] /\ CutAt(ul[i], cut[i])
          /\ \A i, j \in DOMAIN ul : i < j => cut[i] <= cut[j]
    BY DEF LinkIInv, StatusInFlight
  <2>2. /\ Len(delivered) \in 0 .. Len(delivered) /\ acked <= Len(delivered)
        /\ \A i \in DOMAIN ul : cut[i] <= Len(delivered)
    BY <2>1, LinkFacts, SMT
  <2>3. \A x \in tx_status' : \E c \in 0 .. Len(delivered) :
           acked <= c /\ CutAt(x, c) /\ \A i \in DOMAIN ul : cut[i] <= c
    BY <1>2, <1>9, <2>2
  <2>4. ul \in Seq(Reports)
    BY DEF LinkIInv, StatusInFlight
  <2> QED BY <1>1, <1>3, <1>6, <2>1, <2>3, <2>4 DEF StatusInFlight, CutAt
<1> QED BY <1>1, <1>2, <1>3, <1>5, <1>6, <1>7, <1>8, <1>10 DEF LinkIInv

LEMMA StatusSentStep ==
    ASSUME LinkIInv, StatusSent
    PROVE  LinkIInv' /\ delivered' = delivered /\ sent' = sent /\ acked' = acked
<1>1. ResetStatus /\ UNCHANGED txState /\ UNCHANGED <<dl, lost, faults>>
  BY Zenon DEF StatusSent, txVars
<1>2. PICK st \in tx_status : ul' = Append(ul, st)
  BY Zenon DEF StatusSent
<1>3. UNCHANGED <<rx_segments, delivered>> /\ UNCHANGED windowState /\ tx_status' = {}
  BY <1>1, Zenon DEF ResetStatus, windowState
<1>4. RxTypeOK'
  BY <1>1, OtherRxTypes DEF LinkIInv, InStep
<1>5. InStep' /\ Highest' = Highest
  BY <1>3, <1>4, InStepKept DEF LinkIInv
<1>6. TxIInv' /\ vt_a' = vt_a /\ acked' = acked /\ sent' = sent
  BY <1>1, TxKept DEF LinkIInv
<1>7. DataInFlight'
  BY <1>1, <1>5, <1>6, DataKept DEF LinkIInv
<1>8. StatusInFlight'
  <2>1. PICK cut \in [DOMAIN ul -> 0 .. Len(delivered)] :
          /\ \A i \in DOMAIN ul : acked <= cut[i] /\ CutAt(ul[i], cut[i])
          /\ \A i, j \in DOMAIN ul : i < j => cut[i] <= cut[j]
          /\ \E c \in 0 .. Len(delivered) :
                acked <= c /\ CutAt(st, c) /\ \A i \in DOMAIN ul : cut[i] <= c
    BY <1>2 DEF LinkIInv, StatusInFlight
  <2>2. PICK c \in 0 .. Len(delivered) :
           acked <= c /\ CutAt(st, c) /\ \A i \in DOMAIN ul : cut[i] <= c
    BY <2>1
  <2>3. /\ ul \in Seq(Reports) /\ Len(ul) \in Nat /\ DOMAIN ul = 1 .. Len(ul)
        /\ ul' \in Seq(Reports) /\ DOMAIN ul' = 1 .. Len(ul) + 1
        /\ \A i \in 1 .. Len(ul) : ul'[i] = ul[i]
        /\ ul'[Len(ul) + 1] = st
    <3>1. ul \in Seq(Reports) /\ st \in Reports
      BY <1>2 DEF LinkIInv, StatusInFlight
    <3>2. /\ ul' \in Seq(Reports) /\ Len(ul') = Len(ul) + 1
          /\ \A i \in 1 .. Len(ul) : ul'[i] = ul[i]
          /\ ul'[Len(ul) + 1] = st
      BY <1>2, <3>1, AppendProperties
    <3> QED BY <3>1, <3>2, LenProperties
  <2> DEFINE more == [i \in DOMAIN ul' |-> IF i \in 1 .. Len(ul) THEN cut[i] ELSE c]
  <2>4. more \in [DOMAIN ul' -> 0 .. Len(delivered')]
    BY <1>3, <2>1, <2>3
  <2>5. \A i \in DOMAIN ul' : i \in 1 .. Len(ul) \/ i = Len(ul) + 1
    BY <2>3, SMT
  <2>6. Len(ul) + 1 \notin 1 .. Len(ul) /\ Len(ul) + 1 \in DOMAIN ul'
    BY <2>3, SMT
  <2>7. /\ \A i \in 1 .. Len(ul) : i \in DOMAIN ul' /\ more[i] = cut[i]
        /\ more[Len(ul) + 1] = c
    BY <2>3, <2>6, SMT
  <2> HIDE DEF more
  <2>8. \A i \in DOMAIN ul' : acked' <= more[i] /\ CutAt(ul'[i], more[i])
    BY <1>6, <2>1, <2>2, <2>3, <2>5, <2>7
  <2>9. ASSUME NEW i \in DOMAIN ul', NEW j \in DOMAIN ul', i < j PROVE more[i] <= more[j]
    <3>1. i \in 1 .. Len(ul)
      BY <2>3, <2>9, SMT
    <3>2. CASE j \in 1 .. Len(ul)
      BY <2>1, <2>3, <2>7, <2>9, <3>1, <3>2
    <3>3. CASE j = Len(ul) + 1
      BY <2>2, <2>3, <2>7, <3>1, <3>3
    <3> QED BY <2>5, <3>2, <3>3
  <2> QED BY <1>3, <2>3, <2>4, <2>8, <2>9 DEF StatusInFlight, CutAt
<1> QED BY <1>1, <1>3, <1>5, <1>6, <1>7, <1>8 DEF LinkIInv

LEMMA StatusProhibitStep ==
    ASSUME LinkIInv, StatusProhibitTimeout
    PROVE  LinkIInv' /\ delivered' = delivered /\ sent' = sent /\ acked' = acked
<1>1. StatusProhibitExpired /\ UNCHANGED txState /\ UNCHANGED <<dl, ul, lost, faults>>
  BY Zenon DEF StatusProhibitTimeout, txVars
<1>2. UNCHANGED <<rx_segments, delivered, tx_status>> /\ UNCHANGED windowState
  BY <1>1, Zenon DEF StatusProhibitExpired, rxState, windowState
<1>3. RxTypeOK'
  BY <1>1, OtherRxTypes DEF LinkIInv, InStep
<1>4. InStep' /\ Highest' = Highest
  BY <1>2, <1>3, InStepKept DEF LinkIInv
<1>5. TxIInv' /\ vt_a' = vt_a /\ acked' = acked /\ sent' = sent
  BY <1>1, TxKept DEF LinkIInv
<1>6. DataInFlight'
  BY <1>1, <1>4, <1>5, DataKept DEF LinkIInv
<1>7. StatusInFlight'
  BY <1>1, <1>2, <1>5 DEF LinkIInv, StatusInFlight, CutAt
<1> QED BY <1>1, <1>2, <1>4, <1>5, <1>6, <1>7 DEF LinkIInv

-----------------------------------------------------------------------------
(***************************************************************************)
(* The layers below, and RRC.                                              *)
(***************************************************************************)
LEMMA DataLostStep ==
    ASSUME LinkIInv, NEW i \in DOMAIN dl, DataLost(i)
    PROVE  LinkIInv' /\ delivered' = delivered /\ sent' = sent /\ acked' = acked
<1>1. dl' = RemoveAt(dl, i) /\ UNCHANGED txState /\ UNCHANGED rxVars /\ UNCHANGED <<ul, faults>>
  BY Zenon DEF DataLost
<1>2. TxIInv' /\ vt_a' = vt_a /\ acked' = acked /\ sent' = sent
  BY <1>1, TxKept DEF LinkIInv
<1>3. InStep' /\ Highest' = Highest /\ delivered' = delivered /\ tx_status' = tx_status
  BY <1>1, RxKept DEF LinkIInv
<1>4. DataInFlight'
  <2>1. \A j \in DOMAIN dl : Highest' <= dl[j].n + WINDOW
    BY <1>3 DEF LinkIInv, DataInFlight
  <2> QED BY <1>1, <1>2, <2>1, DataTaken DEF LinkIInv
<1>5. StatusInFlight'
  BY <1>1, <1>2, <1>3 DEF LinkIInv, StatusInFlight, CutAt
<1> QED BY <1>1, <1>2, <1>3, <1>4, <1>5 DEF LinkIInv

LEMMA StatusLostStep ==
    ASSUME LinkIInv, NEW i \in DOMAIN ul, StatusLost(i)
    PROVE  LinkIInv' /\ delivered' = delivered /\ sent' = sent /\ acked' = acked
<1>1. /\ ul' = RemoveAt(ul, i) /\ UNCHANGED txState /\ UNCHANGED rxVars
      /\ UNCHANGED <<dl, faults>>
  BY Zenon DEF StatusLost, txVars
<1>2. TxIInv' /\ vt_a' = vt_a /\ acked' = acked /\ sent' = sent
  BY <1>1, TxKept DEF LinkIInv
<1>3. InStep' /\ Highest' = Highest /\ delivered' = delivered /\ tx_status' = tx_status
  BY <1>1, RxKept DEF LinkIInv
<1>4. DataInFlight'
  BY <1>1, <1>2, <1>3, DataKept DEF LinkIInv
<1>5. StatusInFlight'
  <2>1. PICK cut \in [DOMAIN ul -> 0 .. Len(delivered)] :
          /\ \A j \in DOMAIN ul : acked <= cut[j] /\ CutAt(ul[j], cut[j])
          /\ \A j, l \in DOMAIN ul : j < l => cut[j] <= cut[l]
          /\ \A st \in tx_status : \E c \in 0 .. Len(delivered) :
                /\ acked <= c /\ CutAt(st, c)
                /\ \A j \in DOMAIN ul : cut[j] <= c
    BY DEF LinkIInv, StatusInFlight
  <2>2. ul \in Seq(Reports)
    BY DEF LinkIInv, StatusInFlight
  <2> QED BY <1>1, <1>2, <1>3, <2>1, <2>2, StatusTaken
<1> QED BY <1>1, <1>2, <1>3, <1>4, <1>5 DEF LinkIInv

LEMMA Start ==
    /\ 0 % MOD = 0 /\ Offset(0, 0) = 0 /\ 0 - 0 = 0 /\ 0 + 0 = 0 /\ 0 <= 0
    /\ << >> \in Seq(AnyDataPdu) /\ << >> \in Seq(Reports) /\ << >> \in Seq(Int)
    /\ Len(<< >>) = 0 /\ DOMAIN << >> = {} /\ DOMAIN EmptyMap = {}
    /\ << >> \in [DOMAIN << >> -> 0 .. Len(<< >>)]
<1>1. 0 \in SN /\ 0 % MOD = 0
  BY Sizes, SMT DEF SN
<1>2. Offset(0, 0) = 0
  BY <1>1, OffsetOfSelf
<1>3. /\ << >> \in Seq(AnyDataPdu) /\ << >> \in Seq(Reports) /\ << >> \in Seq(Int)
      /\ Len(<< >>) = 0 /\ DOMAIN << >> = {} /\ DOMAIN EmptyMap = {}
  BY SMT DEF EmptyMap
<1>4. << >> \in [DOMAIN << >> -> 0 .. Len(<< >>)]
  BY <1>3, SMT
<1>5. 0 - 0 = 0 /\ 0 + 0 = 0 /\ 0 <= 0
  BY SMT
<1> QED BY <1>1, <1>2, <1>3, <1>4, <1>5

LEMMA InitLinkIInv == Init /\ StatusInOrder => LinkIInv /\ WithinWindow
<1> SUFFICES ASSUME Init, StatusInOrder PROVE LinkIInv /\ WithinWindow
  OBVIOUS
<1>1. TxIInv /\ IInv /\ RxTypeOK
  BY InitTxIInv, InitIInv, InitRxTypes DEF Init
<1>2. /\ vt_a = 0 /\ vt_s = 0 /\ sent = 0 /\ dl = << >> /\ ul = << >>
      /\ vr_r = 0 /\ vr_h = 0 /\ rx_window = EmptyMap /\ rx_segments = EmptyMap
      /\ tx_status = {} /\ delivered = << >> /\ "reorder_ul" \notin faults
  BY DEF Init, TxInit, RxInit, StatusInOrder
<1>3. /\ acked = 0 /\ Highest = 0 /\ Len(delivered) = 0 /\ TX_OFFSET(vt_s) = 0
      /\ DOMAIN dl = {} /\ DOMAIN ul = {} /\ DOMAIN delivered = {}
      /\ DOMAIN rx_window = {} /\ DOMAIN rx_segments = {}
  BY <1>2, Start DEF acked, Highest, TX_OFFSET, RX_OFFSET
<1>4. InStep
  BY <1>1, <1>2, <1>3, Start DEF InStep, InOrderDelivery, SnNamesOnePayload
<1>5. DataInFlight
  BY <1>2, <1>3, Start DEF DataInFlight
<1>6. StatusInFlight
  BY <1>2, <1>3, Start DEF StatusInFlight
<1>7. WithinWindow
  BY <1>3, Sizes, SMT DEF WithinWindow
<1>8. vt_a = acked % MOD /\ acked <= Len(delivered) /\ Highest <= sent
  BY <1>2, <1>3, Start
<1> QED BY <1>1, <1>2, <1>4, <1>5, <1>6, <1>7, <1>8 DEF LinkIInv

LEMMA ReestablishStep ==
    ASSUME LinkIInv, Reestablish
    PROVE  LinkIInv' /\ delivered' = << >> /\ sent' = 0 /\ acked' = 0 /\ WithinWindow'
<1>1. TxReestablish /\ RxReestablish /\ ul' = << >> /\ faults' = faults
  BY Zenon DEF Reestablish
<1>2. TxIInv' /\ IInv' /\ RxTypeOK'
  BY <1>1, TxReestablishTxIInv, ReestablishIInv, OtherRxTypes DEF LinkIInv, InStep
<1>3. /\ vt_a' = 0 /\ vt_s' = 0 /\ sent' = 0 /\ dl' = << >>
      /\ vr_r' = 0 /\ vr_h' = 0 /\ rx_window' = EmptyMap /\ rx_segments' = EmptyMap
      /\ tx_status' = {} /\ delivered' = << >>
  BY <1>1, Zenon DEF TxReestablish, RxReestablish
<1>4. /\ acked' = 0 /\ Highest' = 0 /\ Len(delivered') = 0 /\ TX_OFFSET(vt_s)' = 0
      /\ DOMAIN dl' = {} /\ DOMAIN ul' = {} /\ DOMAIN delivered' = {}
      /\ DOMAIN rx_window' = {} /\ DOMAIN rx_segments' = {}
  BY <1>1, <1>3, Start DEF acked, Highest, TX_OFFSET, RX_OFFSET
<1>5. InStep'
  BY <1>2, <1>3, <1>4, Start DEF InStep, InOrderDelivery, SnNamesOnePayload
<1>6. DataInFlight'
  BY <1>3, <1>4, Start DEF DataInFlight
<1>7. StatusInFlight'
  BY <1>1, <1>3, <1>4, Start DEF StatusInFlight
<1>8. WithinWindow'
  BY <1>4, Sizes, SMT DEF WithinWindow
<1>9. vt_a' = acked' % MOD /\ acked' <= Len(delivered') /\ Highest' <= sent'
  BY <1>3, <1>4, Start
<1> QED BY <1>1, <1>2, <1>3, <1>4, <1>5, <1>6, <1>7, <1>8, <1>9 DEF LinkIInv

LEMMA StutterStep ==
    ASSUME LinkIInv, UNCHANGED linkVars
    PROVE  LinkIInv' /\ delivered' = delivered /\ sent' = sent /\ acked' = acked
<1>1. UNCHANGED txState /\ UNCHANGED rxVars /\ UNCHANGED <<dl, ul, faults>>
  BY Zenon DEF linkVars, txVars
<1>2. TxIInv' /\ vt_a' = vt_a /\ acked' = acked /\ sent' = sent
  BY <1>1, TxKept DEF LinkIInv
<1>3. InStep' /\ Highest' = Highest /\ delivered' = delivered /\ tx_status' = tx_status
  BY <1>1, RxKept DEF LinkIInv
<1>4. DataInFlight' /\ StatusInFlight'
  BY <1>1, <1>2, <1>3, DataKept DEF LinkIInv, StatusInFlight, CutAt
<1> QED BY <1>1, <1>2, <1>3, <1>4 DEF LinkIInv

-----------------------------------------------------------------------------
(***************************************************************************)
(* Every step keeps the invariant, and is a step of the abstract bearer    *)
(* (RlcDelivery) or leaves it alone.                                       *)
(***************************************************************************)
AbstractStep == [Delivery!Next]_(Delivery!vars)

\* Most steps do not show at the ends of the bearer.
LEMMA AbstractStutter ==
    ASSUME delivered' = delivered, sent' = sent, acked' = acked
    PROVE  AbstractStep
BY DEF AbstractStep, Delivery!vars

LEMMA GrantImplements ==
    ASSUME LinkIInv, WithinWindow, WithinWindow', NEW grant, Grant(grant)
    PROVE  AbstractStep
<1>1. /\ LinkIInv' /\ delivered' = delivered /\ acked' = acked
      /\ sent' = sent \/ sent' = sent + 1
  BY GrantStep
<1>2. sent \in Nat /\ acked \in Nat
  BY LinkFacts
<1>3. CASE sent' = sent
  BY <1>1, <1>3, AbstractStutter
<1>4. CASE sent' = sent + 1
  <2>1. TX_OFFSET(vt_s)' \in 0 .. MOD - 1
    <3>1. vt_s' \in SN /\ vt_a' \in SN
      BY <1>1 DEF LinkIInv, TxIInv, TxTypeOK
    <3> QED BY <3>1, OffsetType DEF TX_OFFSET
  <2>2. acked' = sent' - TX_OFFSET(vt_s)' /\ TX_OFFSET(vt_s)' <= WINDOW
    BY DEF acked, WithinWindow
  <2>3. PICK o \in 0 .. MOD - 1 : acked' = sent' - o /\ o <= WINDOW
    BY <2>1, <2>2
  <2>4. acked = (sent + 1) - o
    BY <1>1, <1>4, <2>3
  <2>5. PICK low \in Nat : low = acked
    BY <1>2
  <2>6. low = (sent + 1) - o
    BY <2>4, <2>5
  <2>7. sent - low < WINDOW
    BY <1>2, <2>3, <2>6, Sizes, SMT
  <2>8. sent - acked < WINDOW
    BY <2>5, <2>7
  <2>9. Delivery!Send
    BY <1>1, <1>4, <2>8, Zenon DEF Delivery!Send
  <2> QED BY <2>9 DEF AbstractStep, Delivery!Next
<1> QED BY <1>1, <1>3, <1>4

LEMMA StatusArrivesImplements ==
    ASSUME LinkIInv, NEW i \in Arriving(ul, "reorder_ul" \in faults), StatusArrives(i)
    PROVE  AbstractStep
<1>1. /\ LinkIInv' /\ sent' = sent /\ delivered' = delivered
      /\ acked <= acked' /\ acked' <= Len(delivered)
  BY StatusArrivesStep
<1>2. CASE acked' = acked
  BY <1>1, <1>2, AbstractStutter
<1>3. CASE acked' # acked
  <2>1. acked \in Nat /\ Len(delivered) \in Nat
    BY LinkFacts
  <2>2. acked' \in Nat
    <3>1. /\ TX_OFFSET(vt_s)' <= sent' /\ sent' \in Nat /\ vt_s' \in SN /\ vt_a' \in SN
      BY <1>1 DEF LinkIInv, TxIInv, TxTypeOK
    <3>2. TX_OFFSET(vt_s)' \in 0 .. MOD - 1
      BY <3>1, OffsetType DEF TX_OFFSET
    <3>3. PICK o \in 0 .. MOD - 1 : o = TX_OFFSET(vt_s)'
      BY <3>2
    <3>4. sent' - o \in Nat
      BY <3>1, <3>3, Sizes, SMT
    <3> QED BY <3>3, <3>4 DEF acked
  <2>3. PICK low \in Nat, new \in Nat : low = acked /\ new = acked'
    BY <2>1, <2>2
  <2>4. new \in low + 1 .. Len(delivered)
    <3>1. low <= new /\ new <= Len(delivered) /\ new # low
      BY <1>1, <1>3, <2>3
    <3> QED BY <2>1, <2>3, <3>1, SMT
  <2>5. acked' \in acked + 1 .. Len(delivered)
    BY <2>3, <2>4
  <2>6. Delivery!Release
    BY <1>1, <2>5, Zenon DEF Delivery!Release
  <2> QED BY <2>6 DEF AbstractStep, Delivery!Next
<1> QED BY <1>2, <1>3

LEMMA DataArrivesImplements ==
    ASSUME LinkIInv, WithinWindow,
           NEW i \in Arriving(dl, "reorder_dl" \in faults), DataArrives(i)
    PROVE  AbstractStep
<1>1. PICK k \in 0 .. WINDOW :
         delivered' = delivered \o [l \in 1 .. k |-> Len(delivered) + l - 1]
  BY DataArrivesStep
<1>2. LinkIInv' /\ sent' = sent /\ acked' = acked
  BY DataArrivesStep
<1>3. k \in Nat /\ Len(delivered') = Len(delivered) + k
      /\ (k = 0 => delivered' = delivered)
  <2>1. k \in Nat
    BY Sizes, SMT
  <2> QED BY <1>1, <2>1, InStepTypes, NextPayloads DEF LinkIInv
<1>4. CASE k = 0
  BY <1>2, <1>3, <1>4, AbstractStutter
<1>5. CASE k # 0
  <2>1. Len(delivered') <= Highest' /\ Highest' <= sent' /\ Highest' \in Nat
    <3>1. vr_h' \in SN /\ vr_r' \in SN /\ Highest' = Len(delivered') + Offset(vr_h', vr_r')
          /\ delivered' \in Seq(Int) /\ Highest' <= sent'
      BY <1>2 DEF LinkIInv, InStep, RxTypeOK, Highest, RX_OFFSET
    <3>2. Offset(vr_h', vr_r') \in 0 .. MOD - 1 /\ Len(delivered') \in Nat
      BY <3>1, OffsetType, LenProperties
    <3>3. /\ Len(delivered') <= Len(delivered') + Offset(vr_h', vr_r')
          /\ Len(delivered') + Offset(vr_h', vr_r') \in Nat
      BY <3>2, Sizes, SMT
    <3> QED BY <3>1, <3>3
  <2>2. PICK high \in Nat : high = Highest'
    BY <2>1
  <2>3. Len(delivered) + k <= high /\ high <= sent /\ sent \in Nat /\ Len(delivered) \in Nat
    BY <1>2, <1>3, <2>1, <2>2, LinkFacts
  <2>4. k \in 1 .. sent - Len(delivered)
    BY <1>3, <1>5, <2>2, <2>3, SMT
  <2>5. Delivery!Deliver
    BY <1>1, <1>2, <2>4, Zenon DEF Delivery!Deliver
  <2> QED BY <2>5 DEF AbstractStep, Delivery!Next
<1> QED BY <1>4, <1>5

LEMMA NextStep ==
    ASSUME LinkIInv, WithinWindow, WithinWindow', [Next]_linkVars
    PROVE  LinkIInv' /\ AbstractStep
<1>1. ASSUME NEW size \in SDU_SIZES, Submit(size) PROVE LinkIInv' /\ AbstractStep
  BY <1>1, SubmitStep, AbstractStutter
<1>2. ASSUME NEW grant \in GRANTS, Grant(grant) PROVE LinkIInv' /\ AbstractStep
  BY <1>2, GrantStep, GrantImplements
<1>3. CASE PollRetxTimeout
  BY <1>3, TimeoutStep, AbstractStutter
<1>4. ASSUME NEW i \in Arriving(ul, "reorder_ul" \in faults), StatusArrives(i)
      PROVE  LinkIInv' /\ AbstractStep
  BY <1>4, StatusArrivesStep, StatusArrivesImplements
<1>5. ASSUME NEW i \in Arriving(dl, "reorder_dl" \in faults), DataArrives(i)
      PROVE  LinkIInv' /\ AbstractStep
  BY <1>5, DataArrivesStep, DataArrivesImplements
<1>6. CASE ReorderingTimeout
  BY <1>6, ReorderingStep, AbstractStutter
<1>7. CASE StatusGrant
  BY <1>7, StatusGrantStep, AbstractStutter
<1>8. CASE StatusSent
  BY <1>8, StatusSentStep, AbstractStutter
<1>9. CASE StatusProhibitTimeout
  BY <1>9, StatusProhibitStep, AbstractStutter
<1>10. ASSUME NEW i \in DOMAIN dl, DataLost(i) PROVE LinkIInv' /\ AbstractStep
  BY <1>10, DataLostStep, AbstractStutter
<1>11. ASSUME NEW i \in DOMAIN ul, StatusLost(i) PROVE LinkIInv' /\ AbstractStep
  BY <1>11, StatusLostStep, AbstractStutter
<1>12. CASE Reestablish
  <2>1. LinkIInv' /\ delivered' = << >> /\ sent' = 0 /\ acked' = 0
    BY <1>12, ReestablishStep
  <2>2. Delivery!Reestablish
    BY <2>1 DEF Delivery!Reestablish
  <2> QED BY <2>1, <2>2 DEF AbstractStep, Delivery!Next
<1>13. CASE UNCHANGED linkVars
  BY <1>13, StutterStep, AbstractStutter
<1> QED BY <1>1, <1>2, <1>3, <1>4, <1>5, <1>6, <1>7, <1>8, <1>9, <1>10, <1>11, <1>12, <1>13,
           Zenon DEF Next

\* What a step of the link does with the transmitter.
TxHandlers ==
    \/ \E size \in SDU_SIZES : WriteSdu(size)
    \/ PollRetxTimerExpired \/ TxReestablish \/ UNCHANGED txState
    \/ \E grant \in GRANTS : Grant(grant)
    \/ \E i \in Arriving(ul, "reorder_ul" \in faults) : StatusArrives(i)

LEMMA LinkRunsTxHandlers ==
    ASSUME [Next]_linkVars
    PROVE  TxHandlers
BY Zenon DEF TxHandlers, Next, Submit, PollRetxTimeout, DataArrives, ReorderingTimeout, StatusGrant,
             StatusSent, StatusProhibitTimeout, DataLost, StatusLost, Reestablish,
             linkVars, txVars

LEMMA TxSteps ==
    ASSUME LinkIInv, [Next]_linkVars
    PROVE  TxIInv'
<1>1. TxIInv /\ ul \in Seq(Reports)
  BY DEF LinkIInv, StatusInFlight
<1>2. ASSUME NEW size \in SDU_SIZES, WriteSdu(size) PROVE TxIInv'
  BY <1>1, <1>2, WriteSduTxIInv
<1>3. ASSUME NEW grant \in GRANTS, Grant(grant) PROVE TxIInv'
  BY <1>1, <1>3, ReadPduTxIInv DEF Grant
<1>4. ASSUME NEW i \in Arriving(ul, "reorder_ul" \in faults), StatusArrives(i) PROVE TxIInv'
  <2>1. i \in DOMAIN ul /\ DOMAIN ul = 1 .. Len(ul)
    BY <1>1, LenProperties DEF Arriving
  <2>2. ul[i] \in Reports
    BY <1>1, <2>1, ElementOfSeq
  <2> QED BY <1>1, <1>4, <2>2, HandleControlPduTxIInv DEF StatusArrives, Reports
<1>5. CASE PollRetxTimerExpired \/ TxReestablish \/ UNCHANGED txState
  BY <1>1, <1>5, PollRetxTimerExpiredTxIInv, TxReestablishTxIInv, TxStateKept
<1> QED BY <1>2, <1>3, <1>4, <1>5, LinkRunsTxHandlers, Zenon DEF TxHandlers

\* The transmitter stays within its window on the link, too.
LEMMA NextWithin ==
    ASSUME WindowTested, TxIInv, TxIInv', WithinIInv, [Next]_linkVars,
           ul \in Seq(Reports)
    PROVE  WithinIInv'
<1>1. ASSUME NEW grant \in GRANTS, Grant(grant) PROVE WithinIInv'
  BY <1>1, ReadPduWithin DEF Grant
<1>2. ASSUME NEW i \in Arriving(ul, "reorder_ul" \in faults), StatusArrives(i) PROVE WithinIInv'
  <2>1. i \in DOMAIN ul /\ DOMAIN ul = 1 .. Len(ul)
    BY LenProperties DEF Arriving
  <2>2. ul[i] \in Reports
    BY <2>1, ElementOfSeq
  <2> QED BY <1>2, <2>2, HandleControlPduWithin DEF StatusArrives, Reports
<1>3. CASE \/ \E size \in SDU_SIZES : WriteSdu(size)
           \/ PollRetxTimerExpired \/ TxReestablish \/ UNCHANGED txState
  BY <1>3, OtherTxWithin
<1> QED BY <1>1, <1>2, <1>3, LinkRunsTxHandlers, Zenon DEF TxHandlers

\* As long as the transmitter does not outgrow its window, whatever the SDUs and the grants.
LEMMA WithinImplies ==
    ASSUME StatusInOrder
    PROVE  Spec /\ []WithinWindow => []LinkIInv /\ [][Delivery!Next]_(Delivery!vars)
<1>1. Init => LinkIInv
  BY InitLinkIInv
<1>2. LinkIInv /\ WithinWindow /\ WithinWindow' /\ [Next]_linkVars => LinkIInv' /\ AbstractStep
  BY NextStep
<1>3. AbstractStep => [Delivery!Next]_(Delivery!vars)
  BY DEF AbstractStep
<1> QED BY <1>1, <1>2, <1>3, PTL DEF Spec

LEMMA LinkInductive ==
    ASSUME StatusInOrder, WindowTested
    PROVE  Spec => [](LinkIInv /\ WithinWindow)
<1>1. Init => LinkIInv /\ WithinIInv
  BY InitLinkIInv, InitWithin DEF Init
<1>2. ASSUME LinkIInv, WithinIInv, [Next]_linkVars PROVE LinkIInv' /\ WithinIInv'
  <2>1. WithinWindow /\ TxIInv /\ ul \in Seq(Reports)
    BY <1>2 DEF LinkIInv, StatusInFlight, WithinIInv
  <2>2. TxIInv'
    BY <1>2, <2>1, TxSteps
  <2>3. WithinIInv' /\ WithinWindow'
    BY <1>2, <2>1, <2>2, NextWithin DEF WithinIInv
  <2> QED BY <1>2, <2>1, <2>3, NextStep
<1>3. WithinIInv => WithinWindow
  BY DEF WithinIInv
<1> QED BY <1>1, <1>2, <1>3, PTL DEF Spec

(***************************************************************************)
(* For every window, fault and bound: payloads reach PDCP in the order in  *)
(* which they were sent, none skipped, none twice, although data PDUs and  *)
(* status PDUs are lost, data PDUs are retransmitted whole and in segments *)
(* and overtake one another, and the 10-bit sequence numbers wrap.  Status *)
(* PDUs must not overtake one another, and the transmitter must test its   *)
(* window (WindowTested).                                                  *)
(***************************************************************************)
THEOREM LinkDeliversInOrder ==
    ASSUME StatusInOrder, WindowTested
    PROVE  Spec => []InOrderDelivery
<1>1. LinkIInv => InOrderDelivery
  BY DEF LinkIInv, InStep
<1> QED BY <1>1, LinkInductive, PTL

(***************************************************************************)
(* Under the same conditions: handle_control_pdu lets go of a PDU only     *)
(* when the peer has received and delivered it, however late the status    *)
(* PDU that get_status_pdu built is, and however many NACKs its grant had  *)
(* room for.                                                               *)
(***************************************************************************)
THEOREM LinkAcksReceived ==
    ASSUME StatusInOrder, WindowTested
    PROVE  Spec => []AckedWasReceived
<1>1. LinkIInv => AckedWasReceived
  BY DEF LinkIInv, AckedWasReceived
<1> QED BY <1>1, LinkInductive, PTL

(***************************************************************************)
(* Under the same conditions: what handle_data_pdu and                     *)
(* handle_data_pdu_segment keep under a sequence number is the payload the *)
(* transmitter means by it, across every wrap of the numbers.              *)
(***************************************************************************)
THEOREM LinkNamesOnePayload ==
    ASSUME StatusInOrder, WindowTested
    PROVE  Spec => []SnNamesOnePayload
<1>1. LinkIInv => SnNamesOnePayload
  BY DEF LinkIInv, InStep
<1> QED BY <1>1, LinkInductive, PTL

(***************************************************************************)
(* Under the same conditions, the link implements the abstract bearer      *)
(* RlcDelivery: read_pdu sends the next payload while fewer than           *)
(* RLC_AM_WINDOW_SIZE are kept, handle_control_pdu releases what has been  *)
(* delivered, reassemble_rx_sdus delivers the next payloads, reestablish   *)
(* starts afresh, and every other step leaves the bearer as it is.         *)
(***************************************************************************)
THEOREM LinkImplementsDelivery ==
    ASSUME StatusInOrder, WindowTested
    PROVE  Spec => DeliverySpec
<1>1. Init => Delivery!Init
  <2> SUFFICES ASSUME Init PROVE Delivery!Init
    OBVIOUS
  <2>1. vt_a = 0 /\ vt_s = 0 /\ sent = 0 /\ delivered = << >>
    BY DEF Init, TxInit, RxInit
  <2>2. acked = 0
    BY <2>1, Start DEF acked, TX_OFFSET
  <2> QED BY <2>1, <2>2 DEF Delivery!Init
<1> QED BY <1>1, WithinImplies, LinkInductive, PTL DEF Spec, DeliverySpec, Delivery!Spec
=============================================================================
