--------------------------- MODULE RlcAmRx_proofs ---------------------------
(***************************************************************************)
(* Proofs about the receiver of an RLC AM bearer against any peer          *)
(* (RlcAmRxAnyPeer), for every window size.                                *)
(***************************************************************************)
EXTENDS RlcAmRxAnyPeer, SequenceTheorems, TLAPS

-----------------------------------------------------------------------------
(***************************************************************************)
(* Sequence numbers.  Offset and Plus without the modulo are linear, and   *)
(* what follows about them is left to the SMT solver.                      *)
(***************************************************************************)
LEMMA Sizes == WINDOW \in Nat /\ WINDOW > 0 /\ MOD = 2 * WINDOW /\ MOD \in Nat /\ 0 \in SN
BY WindowAssumption, ModAssumption, SMT DEF SN

LEMMA ModOf ==
    ASSUME NEW x \in Int, -MOD <= x, x < 2 * MOD
    PROVE  x % MOD = IF x < 0 THEN x + MOD ELSE IF x < MOD THEN x ELSE x - MOD
<1>1. MOD \in Nat \ {0} BY Sizes, SMT
<1>2. ASSUME NEW y \in 0 .. MOD - 1, NEW q \in Int PROVE (q * MOD + y) % MOD = y
  BY <1>1, SMT
<1>3. CASE x < 0
  <2>1. x + MOD \in 0 .. MOD - 1 /\ x = (-1) * MOD + (x + MOD) /\ -1 \in Int BY <1>1, <1>3, SMT
  <2>2. ((-1) * MOD + (x + MOD)) % MOD = x + MOD BY ONLY <1>2, <2>1, Zenon
  <2> QED BY <1>3, <2>1, <2>2
<1>4. CASE 0 <= x /\ x < MOD
  <2>1. x \in 0 .. MOD - 1 BY <1>1, <1>4, SMT
  <2> QED BY <1>1, <1>4, <2>1, SMT
<1>5. CASE MOD <= x
  <2>1. x - MOD \in 0 .. MOD - 1 /\ x = 1 * MOD + (x - MOD) /\ 1 \in Int BY <1>1, <1>5, SMT
  <2>2. (1 * MOD + (x - MOD)) % MOD = x - MOD BY ONLY <1>2, <2>1, Zenon
  <2> QED BY <1>1, <1>5, <2>1, <2>2, SMT
<1> QED BY <1>1, <1>3, <1>4, <1>5, SMT

LEMMA OffsetIs ==
    ASSUME NEW x \in SN, NEW b \in SN
    PROVE  Offset(x, b) = IF x < b THEN x - b + MOD ELSE x - b
<1>1. x - b \in Int /\ -MOD <= x - b /\ x - b < MOD /\ x - b < 2 * MOD
  BY Sizes, SMT DEF SN
<1>2. (x - b) % MOD = IF x - b < 0 THEN x - b + MOD ELSE IF x - b < MOD THEN x - b ELSE x - b - MOD
  BY <1>1, ModOf
<1> QED BY <1>1, <1>2, SMT DEF Offset, SN

LEMMA PlusIs ==
    ASSUME NEW b \in SN, NEW k \in 0 .. MOD
    PROVE  Plus(b, k) = IF b + k < MOD THEN b + k ELSE b + k - MOD
<1> DEFINE y == b + k
<1>1. y \in Int /\ -MOD <= y /\ y < 2 * MOD /\ 0 <= y
  BY Sizes, SMT DEF SN
<1> HIDE DEF y
<1>2. y % MOD = IF y < 0 THEN y + MOD ELSE IF y < MOD THEN y ELSE y - MOD
  BY <1>1, ModOf
<1>3. y % MOD = IF y < MOD THEN y ELSE y - MOD
  BY <1>1, <1>2, SMT
<1>4. Plus(b, k) = y % MOD
  BY DEF Plus, y
<1> QED BY <1>3, <1>4, Sizes, SMT DEF y, SN

LEMMA OffsetType ==
    ASSUME NEW x \in SN, NEW b \in SN
    PROVE  Offset(x, b) \in 0 .. MOD - 1
BY OffsetIs, Sizes, SMT DEF SN

LEMMA PlusType ==
    ASSUME NEW b \in SN, NEW k \in 0 .. MOD
    PROVE  Plus(b, k) \in SN
BY PlusIs, Sizes, SMT DEF SN

LEMMA SameOffset ==
    ASSUME NEW x \in SN, NEW y \in SN, NEW b \in SN, Offset(x, b) = Offset(y, b)
    PROVE  x = y
BY OffsetIs, Sizes, SMT DEF SN

\* How far ahead of b the number k after x is, if k does not lead round to b.
LEMMA OffsetOfPlus ==
    ASSUME NEW x \in SN, NEW b \in SN, NEW k \in 0 .. MOD, Offset(x, b) + k < MOD
    PROVE  Offset(Plus(x, k), b) = Offset(x, b) + k
<1>1. Plus(x, k) \in SN BY PlusType
<1>2. Plus(x, k) = IF x + k < MOD THEN x + k ELSE x + k - MOD BY PlusIs
<1>3. Offset(x, b) = IF x < b THEN x - b + MOD ELSE x - b BY OffsetIs
<1>4. Offset(Plus(x, k), b) = IF Plus(x, k) < b THEN Plus(x, k) - b + MOD ELSE Plus(x, k) - b
  BY <1>1, OffsetIs
<1> QED BY <1>1, <1>2, <1>3, <1>4, Sizes, SMT DEF SN

LEMMA OffsetOfSelf ==
    ASSUME NEW b \in SN
    PROVE  Offset(b, b) = 0
BY OffsetIs, Sizes, SMT DEF SN

\* When the low edge moves up by k, offsets shrink by k; what is below it is far ahead.
LEMMA Rebase ==
    ASSUME NEW x \in SN, NEW b \in SN, NEW k \in 0 .. MOD
    PROVE  Offset(x, Plus(b, k)) = IF k <= Offset(x, b) THEN Offset(x, b) - k
                                   ELSE Offset(x, b) - k + MOD
<1>1. Plus(b, k) \in SN BY PlusType
<1>2. Plus(b, k) = IF b + k < MOD THEN b + k ELSE b + k - MOD BY PlusIs
<1>3. Offset(x, b) = IF x < b THEN x - b + MOD ELSE x - b BY OffsetIs
<1>4. Offset(x, Plus(b, k)) = IF x < Plus(b, k) THEN x - Plus(b, k) + MOD ELSE x - Plus(b, k)
  BY <1>1, OffsetIs
<1> QED BY <1>1, <1>2, <1>3, <1>4, Sizes, SMT DEF SN

\* A walk that starts at v, at or below the limit h that all numbers in S are below.
LEMMA WalkUp ==
    ASSUME NEW S \in SUBSET SN, NEW v \in SN, NEW b \in SN, NEW h \in 0 .. WINDOW,
           Offset(v, b) <= h, \A s \in S : Offset(s, b) < h,
           NEW k \in RunLength(v, S)
    PROVE  /\ k \in 0 .. WINDOW /\ Offset(v, b) + k <= h
           /\ Plus(v, k) \in SN /\ Plus(v, k) \notin S
           /\ Offset(Plus(v, k), b) = Offset(v, b) + k
           /\ \A s \in SN : /\ Offset(v, b) <= Offset(s, b)
                           /\ Offset(s, b) < Offset(v, b) + k => s \in S
<1>1. /\ k \in 0 .. MOD - 1 /\ Plus(v, k) \notin S
      /\ \A j \in 0 .. k - 1 : Plus(v, j) \in S
  BY DEF RunLength
<1>2. Offset(v, b) \in 0 .. MOD - 1
  BY OffsetType
<1>3. \A j \in 0 .. MOD : Offset(v, b) + j < MOD => Offset(Plus(v, j), b) = Offset(v, b) + j
  BY OffsetOfPlus
<1>4. Offset(v, b) + k <= h
  <2> SUFFICES ASSUME ~(Offset(v, b) + k <= h) PROVE FALSE
    OBVIOUS
  <2> DEFINE j == h - Offset(v, b)
  <2>1. j \in 0 .. k - 1 /\ j \in 0 .. MOD /\ Offset(v, b) + j = h /\ h < MOD
    BY <1>1, <1>2, Sizes, SMT
  <2> HIDE DEF j
  <2>2. Plus(v, j) \in S /\ Offset(Plus(v, j), b) = h
    BY <1>1, <1>3, <2>1
  <2> QED BY <2>2, SMT
<1>5. k \in 0 .. WINDOW /\ k \in 0 .. MOD /\ Offset(v, b) + k < MOD
  BY <1>1, <1>2, <1>4, Sizes, SMT
<1>6. Plus(v, k) \in SN /\ Offset(Plus(v, k), b) = Offset(v, b) + k
  BY <1>3, <1>5, PlusType
<1>7. ASSUME NEW s \in SN, Offset(v, b) <= Offset(s, b), Offset(s, b) < Offset(v, b) + k
      PROVE  s \in S
  <2> DEFINE j == Offset(s, b) - Offset(v, b)
  <2>1. Offset(s, b) \in 0 .. MOD - 1
    BY OffsetType
  <2>2. j \in 0 .. k - 1 /\ j \in 0 .. MOD /\ Offset(v, b) + j = Offset(s, b)
        /\ Offset(s, b) < MOD
    BY <1>1, <1>2, <1>7, <2>1, Sizes, SMT
  <2> HIDE DEF j
  <2>3. Plus(v, j) \in S /\ Plus(v, j) \in SN
    BY <1>1, <2>2
  <2>4. Offset(Plus(v, j), b) = Offset(s, b)
    BY <1>3, <2>2
  <2> QED BY <2>3, <2>4, SameOffset
<1> QED BY <1>1, <1>4, <1>5, <1>6, <1>7

-----------------------------------------------------------------------------
(***************************************************************************)
(* The inductive invariant.  That vr_ms never goes back depends on what    *)
(* the timer will find: of the numbers from vr_x on, those that vr_ms has  *)
(* already passed are all received, so the walk from vr_x passes them too. *)
(***************************************************************************)
Placed ==
    /\ vr_r \in SN /\ vr_mr \in SN /\ vr_x \in SN /\ vr_ms \in SN /\ vr_h \in SN
    /\ DOMAIN rx_window \subseteq SN

Passed ==
    reordering_timer = "running" =>
        \A s \in SN : RX_OFFSET(vr_x) <= RX_OFFSET(s) /\ RX_OFFSET(s) < RX_OFFSET(vr_ms)
                         => s \in DOMAIN rx_window

IInv == Placed /\ RxWindowOrder /\ OnlyGapsBlock /\ GapIsTimed /\ Passed

VrMsKept == RX_OFFSET(vr_ms) <= Offset(vr_ms', vr_r)

LEMMA InitIInv == RxInit => IInv
<1> SUFFICES ASSUME RxInit PROVE IInv
  OBVIOUS
<1>1. /\ vr_r = 0 /\ vr_mr = WINDOW /\ vr_x = 0 /\ vr_ms = 0 /\ vr_h = 0
      /\ rx_window = << >> /\ DOMAIN rx_window = {} /\ reordering_timer = "stopped"
  BY SMT DEF RxInit, EmptyMap
<1>2. /\ 0 \in SN /\ WINDOW \in SN /\ Offset(0, 0) = 0 /\ Plus(0, WINDOW) = WINDOW
  BY OffsetOfSelf, PlusIs, Sizes, SMT DEF SN
<1>3. Placed
  BY <1>1, <1>2, SMT DEF Placed
<1>4. RxWindowOrder
  BY <1>1, <1>2, Sizes, SMT DEF RxWindowOrder, RX_OFFSET
<1> QED BY <1>1, <1>3, <1>4, SMT DEF IInv, OnlyGapsBlock, GapIsTimed, Passed

-----------------------------------------------------------------------------
(***************************************************************************)
(* Data PDUs.                                                              *)
(***************************************************************************)
\* The number after a PDU's that is in the window is at most vr_mr.
LEMMA RaisedVrHIs ==
    ASSUME IInv, NEW sn \in SN, inside_rx_window(sn)
    PROVE  /\ RaisedVrH(sn) \in SN
           /\ RX_OFFSET(RaisedVrH(sn)) \in 0 .. WINDOW
           /\ RX_OFFSET(vr_h) <= RX_OFFSET(RaisedVrH(sn))
           /\ RX_OFFSET(sn) < RX_OFFSET(RaisedVrH(sn))
<1>1. /\ vr_r \in SN /\ vr_h \in SN /\ vr_mr = Plus(vr_r, WINDOW)
      /\ Offset(vr_h, vr_r) <= WINDOW
  BY DEF IInv, Placed, RxWindowOrder, RX_OFFSET
<1>2. Offset(vr_h, vr_r) \in 0 .. MOD - 1 /\ Offset(sn, vr_r) \in 0 .. MOD - 1
  BY <1>1, OffsetType
<1>3. Offset(vr_mr, vr_r) = WINDOW
  <2>1. Offset(vr_r, vr_r) = 0 BY <1>1, OffsetOfSelf
  <2>2. WINDOW \in 0 .. MOD /\ 0 + WINDOW < MOD /\ 0 + WINDOW = WINDOW BY Sizes, SMT
  <2> QED BY <1>1, <2>1, <2>2, OffsetOfPlus
<1>4. Offset(sn, vr_r) < WINDOW
  BY <1>3 DEF inside_rx_window, RX_OFFSET
<1>5. CASE Offset(sn, vr_r) >= Offset(vr_h, vr_r)
  <2>1. RaisedVrH(sn) = Plus(sn, 1)
    BY <1>5 DEF RaisedVrH, RX_OFFSET
  <2>2. 1 \in 0 .. MOD /\ Offset(sn, vr_r) + 1 < MOD
    BY <1>2, <1>4, Sizes, SMT
  <2>3. Plus(sn, 1) \in SN /\ Offset(Plus(sn, 1), vr_r) = Offset(sn, vr_r) + 1
    BY <1>1, <2>2, PlusType, OffsetOfPlus
  <2> QED BY <1>2, <1>4, <1>5, <2>1, <2>3, Sizes, SMT DEF RX_OFFSET
<1>6. CASE ~(Offset(sn, vr_r) >= Offset(vr_h, vr_r))
  <2>1. RaisedVrH(sn) = vr_h
    BY <1>6 DEF RaisedVrH, RX_OFFSET
  <2> QED BY <1>1, <1>2, <1>6, <2>1, Sizes, SMT DEF RX_OFFSET
<1> QED BY <1>5, <1>6

(***************************************************************************)
(* What handle_data_pdu does to the window with a PDU that is new: vr_ms   *)
(* and vr_r walk up past what is received, everything below the new vr_r   *)
(* leaves, and the reordering timer is looked at again.                    *)
(***************************************************************************)
Moves(sn, S, m, k) ==
    /\ m \in RunLength(vr_ms, S) /\ k \in RunLength(vr_r, S)
    /\ vr_h' = RaisedVrH(sn) /\ vr_ms' = Plus(vr_ms, m)
    /\ vr_r' = Plus(vr_r, k) /\ vr_mr' = Plus(vr_mr, k)
    /\ DOMAIN rx_window' = S \ Span(vr_r, k)
    /\ UpdateReorderingTimer

\* Where the members are after such a step, seen from the old low edge.
LEMMA MovesPlaced ==
    ASSUME IInv, NEW sn \in SN, inside_rx_window(sn), NEW S, S = DOMAIN rx_window \cup {sn},
           NEW m, NEW k, Moves(sn, S, m, k)
    PROVE  /\ k \in 0 .. WINDOW /\ vr_r' \in SN /\ vr_ms' \in SN /\ vr_h' \in SN
           /\ S \subseteq SN /\ vr_r' \notin S /\ vr_ms' \notin S
           /\ RX_OFFSET(vr_h) <= RX_OFFSET(vr_h') /\ RX_OFFSET(vr_h') \in 0 .. WINDOW
           /\ k <= RX_OFFSET(vr_ms') /\ RX_OFFSET(vr_ms') <= RX_OFFSET(vr_h')
           /\ RX_OFFSET(vr_ms) <= RX_OFFSET(vr_ms')
           /\ \A s \in S : RX_OFFSET(s) < RX_OFFSET(vr_h')
           /\ \A s \in SN : /\ RX_OFFSET(vr_ms) <= RX_OFFSET(s)
                           /\ RX_OFFSET(s) < RX_OFFSET(vr_ms') => s \in S
<1> USE DEF RX_OFFSET
<1>1. /\ vr_r \in SN /\ vr_ms \in SN /\ vr_h \in SN /\ DOMAIN rx_window \subseteq SN
      /\ Offset(vr_ms, vr_r) <= Offset(vr_h, vr_r)
      /\ \A s \in DOMAIN rx_window : Offset(s, vr_r) < Offset(vr_h, vr_r)
  BY DEF IInv, Placed, RxWindowOrder, OnlyGapsBlock
<1>2. /\ vr_h' \in SN /\ Offset(vr_h', vr_r) \in 0 .. WINDOW
      /\ Offset(vr_h, vr_r) <= Offset(vr_h', vr_r)
      /\ Offset(sn, vr_r) < Offset(vr_h', vr_r)
  BY RaisedVrHIs DEF Moves
<1> DEFINE h == Offset(vr_h', vr_r)
<1>3. \A s \in SN : Offset(s, vr_r) \in 0 .. MOD - 1
  BY <1>1, OffsetType
<1>4. S \in SUBSET SN /\ \A s \in S : Offset(s, vr_r) < h
  <2>1. ASSUME NEW s \in DOMAIN rx_window PROVE Offset(s, vr_r) < h
    <3>1. s \in SN /\ Offset(s, vr_r) < Offset(vr_h, vr_r) BY <1>1
    <3> QED BY <1>1, <1>2, <1>3, <3>1, SMT
  <2> QED BY <1>1, <1>2, <2>1
<1>5. h \in 0 .. WINDOW /\ Offset(vr_ms, vr_r) <= h /\ Offset(vr_r, vr_r) <= h
      /\ Offset(vr_r, vr_r) = 0
  BY <1>1, <1>2, <1>3, OffsetOfSelf, SMT
<1> HIDE DEF h
<1>6. /\ m \in 0 .. WINDOW /\ Offset(vr_ms, vr_r) + m <= h
      /\ vr_ms' \in SN /\ vr_ms' \notin S
      /\ Offset(vr_ms', vr_r) = Offset(vr_ms, vr_r) + m
      /\ \A s \in SN : /\ Offset(vr_ms, vr_r) <= Offset(s, vr_r)
                      /\ Offset(s, vr_r) < Offset(vr_ms, vr_r) + m => s \in S
  <2>1. m \in RunLength(vr_ms, S) /\ vr_ms' = Plus(vr_ms, m)
    BY DEF Moves
  <2> DEFINE ms == Plus(vr_ms, m)
  <2>2. /\ m \in 0 .. WINDOW /\ Offset(vr_ms, vr_r) + m <= h
        /\ ms \in SN /\ ms \notin S
        /\ Offset(ms, vr_r) = Offset(vr_ms, vr_r) + m
        /\ \A s \in SN : /\ Offset(vr_ms, vr_r) <= Offset(s, vr_r)
                        /\ Offset(s, vr_r) < Offset(vr_ms, vr_r) + m => s \in S
    BY <1>1, <1>4, <1>5, <2>1, WalkUp
  <2> HIDE DEF ms
  <2> QED BY <2>1, <2>2 DEF ms
<1>7. /\ k \in 0 .. WINDOW /\ 0 + k <= h
      /\ vr_r' \in SN /\ vr_r' \notin S
      /\ \A s \in SN : 0 <= Offset(s, vr_r) /\ Offset(s, vr_r) < 0 + k => s \in S
  BY <1>1, <1>4, <1>5, WalkUp DEF Moves
<1>8. k <= Offset(vr_ms', vr_r)
  BY <1>3, <1>6, <1>7, SMT
<1> QED BY <1>1, <1>2, <1>3, <1>4, <1>6, <1>7, <1>8, SMT DEF h

LEMMA PlusSwap ==
    ASSUME NEW b \in SN, NEW j \in 0 .. WINDOW, NEW k \in 0 .. WINDOW
    PROVE  Plus(Plus(b, j), k) = Plus(Plus(b, k), j)
<1>1. j \in 0 .. MOD /\ k \in 0 .. MOD
  BY Sizes, SMT
<1>2. /\ Plus(b, j) \in SN /\ Plus(b, j) = IF b + j < MOD THEN b + j ELSE b + j - MOD
      /\ Plus(b, k) \in SN /\ Plus(b, k) = IF b + k < MOD THEN b + k ELSE b + k - MOD
  BY <1>1, PlusIs, PlusType
<1> DEFINE bj == Plus(b, j)
           bk == Plus(b, k)
<1>3. bj \in SN /\ bk \in SN BY <1>2
<1> HIDE DEF bj, bk
<1>4. Plus(bj, k) = IF bj + k < MOD THEN bj + k ELSE bj + k - MOD
  BY <1>1, <1>3, PlusIs
<1>5. Plus(bk, j) = IF bk + j < MOD THEN bk + j ELSE bk + j - MOD
  BY <1>1, <1>3, PlusIs
<1>6. /\ bj = IF b + j < MOD THEN b + j ELSE b + j - MOD
      /\ bk = IF b + k < MOD THEN b + k ELSE b + k - MOD
  BY <1>2 DEF bj, bk
<1>7. Plus(bj, k) = Plus(bk, j)
  BY <1>3, <1>4, <1>5, <1>6, Sizes, SMT DEF SN
<1> QED BY <1>7 DEF bj, bk

\* The three outcomes of looking at the reordering timer.
LEMMA TimerCases ==
    ASSUME UpdateReorderingTimer
    PROVE  \/ /\ reordering_timer = "running" /\ reordering_timer' = "running"
              /\ vr_x' = vr_x /\ vr_x # vr_r'
              /\ Offset(vr_x, vr_r') < Offset(vr_mr', vr_r') \/ vr_x = vr_mr'
           \/ /\ reordering_timer' = "running" /\ vr_x' = vr_h' /\ Offset(vr_h', vr_r') > 0
           \/ /\ reordering_timer' = "stopped" /\ vr_x' = vr_x /\ ~(Offset(vr_h', vr_r') > 0)
BY Zenon DEF UpdateReorderingTimer

LEMMA MovesIInv ==
    ASSUME IInv, NEW sn \in SN, inside_rx_window(sn), NEW S, S = DOMAIN rx_window \cup {sn},
           NEW m, NEW k, Moves(sn, S, m, k)
    PROVE  IInv' /\ VrMsKept
<1> DEFINE o(x) == Offset(x, vr_r)
<1>1. /\ k \in 0 .. WINDOW /\ vr_r' \in SN /\ vr_ms' \in SN /\ vr_h' \in SN
      /\ S \subseteq SN /\ vr_r' \notin S /\ vr_ms' \notin S
      /\ o(vr_h) <= o(vr_h') /\ o(vr_h') \in 0 .. WINDOW
      /\ k <= o(vr_ms') /\ o(vr_ms') <= o(vr_h') /\ o(vr_ms) <= o(vr_ms')
      /\ \A s \in S : o(s) < o(vr_h')
      /\ \A s \in SN : o(vr_ms) <= o(s) /\ o(s) < o(vr_ms') => s \in S
  BY MovesPlaced DEF RX_OFFSET
<1>2. /\ vr_r \in SN /\ vr_mr \in SN /\ vr_x \in SN /\ vr_ms \in SN /\ vr_h \in SN
      /\ DOMAIN rx_window \subseteq SN /\ vr_mr = Plus(vr_r, WINDOW)
      /\ reordering_timer = "running" =>
            /\ 0 < o(vr_x) /\ o(vr_x) <= o(vr_h)
            /\ \A s \in SN : o(vr_x) <= o(s) /\ o(s) < o(vr_ms) => s \in DOMAIN rx_window
  BY DEF IInv, Placed, RxWindowOrder, Passed, RX_OFFSET
<1>3. /\ vr_r' = Plus(vr_r, k) /\ vr_mr' = Plus(vr_mr, k)
      /\ DOMAIN rx_window' = S \ Span(vr_r, k) /\ UpdateReorderingTimer
  BY DEF Moves
<1>4. WINDOW \in 0 .. WINDOW /\ WINDOW \in 0 .. MOD /\ k \in 0 .. MOD
  BY <1>1, Sizes, SMT
<1>5. \A x \in SN : /\ o(x) \in 0 .. MOD - 1
                   /\ Offset(x, vr_r') = IF k <= o(x) THEN o(x) - k ELSE o(x) - k + MOD
  BY <1>2, <1>3, <1>4, Rebase, OffsetType
<1>6. vr_mr' \in SN /\ vr_mr' = Plus(vr_r', WINDOW) /\ Offset(vr_mr', vr_r') = WINDOW
  <2>1. vr_mr' = Plus(Plus(vr_r, k), WINDOW)
    BY <1>1, <1>2, <1>3, <1>4, PlusSwap
  <2>2. vr_mr' = Plus(vr_r', WINDOW) /\ vr_mr' \in SN
    BY <1>1, <1>3, <1>4, <2>1, PlusType
  <2>3. Offset(vr_r', vr_r') = 0 BY <1>1, OffsetOfSelf
  <2>4. 0 + WINDOW < MOD /\ 0 + WINDOW = WINDOW BY Sizes, SMT
  <2> QED BY <1>1, <1>4, <2>2, <2>3, <2>4, OffsetOfPlus
<1>7. /\ Offset(vr_ms', vr_r') = o(vr_ms') - k
      /\ Offset(vr_h', vr_r') = o(vr_h') - k
  BY <1>1, <1>5, SMT
<1>8. DOMAIN rx_window' = { s \in S : k <= o(s) }
  <2>1. Span(vr_r, k) = { s \in SN : o(s) < k } BY DEF Span
  <2>2. \A s \in SN : o(s) < k <=> ~(k <= o(s)) BY <1>1, <1>5, SMT
  <2> QED BY <1>1, <1>3, <2>1, <2>2
<1>9. \A s \in DOMAIN rx_window' : Offset(s, vr_r') < Offset(vr_h', vr_r')
  <2> TAKE s \in DOMAIN rx_window'
  <2>1. s \in SN /\ k <= o(s) /\ o(s) < o(vr_h') BY <1>1, <1>8
  <2>2. Offset(s, vr_r') = o(s) - k BY <1>5, <2>1
  <2>3. o(s) \in 0 .. MOD - 1 BY <1>5, <2>1
  <2> QED BY <1>1, <1>7, <2>1, <2>2, <2>3, SMT
<1> DEFINE Timed == /\ vr_x' \in SN
                    /\ reordering_timer' = "running" =>
                          /\ 0 < Offset(vr_x', vr_r') /\ Offset(vr_x', vr_r') <= Offset(vr_h', vr_r')
                          /\ \A s \in SN : /\ Offset(vr_x', vr_r') <= Offset(s, vr_r')
                                          /\ Offset(s, vr_r') < Offset(vr_ms', vr_r')
                                           => s \in DOMAIN rx_window'
                    /\ reordering_timer' = "stopped" => DOMAIN rx_window' = {}
<1>10. ASSUME reordering_timer = "running", reordering_timer' = "running",
              vr_x' = vr_x, vr_x # vr_r',
              Offset(vr_x, vr_r') < Offset(vr_mr', vr_r') \/ vr_x = vr_mr'
       PROVE  Timed
  <2>1. Offset(vr_x, vr_r') <= WINDOW
    <3>1. Offset(vr_x, vr_r') \in 0 .. MOD - 1 BY <1>1, <1>2, OffsetType
    <3>2. CASE vr_x = vr_mr' BY <1>6, <3>2, Sizes, SMT
    <3>3. CASE Offset(vr_x, vr_r') < Offset(vr_mr', vr_r') BY <1>6, <3>1, <3>3, Sizes, SMT
    <3> QED BY <1>10, <3>2, <3>3
  <2>2. Offset(vr_x, vr_r') # 0
    <3>1. Offset(vr_r', vr_r') = 0 BY <1>1, OffsetOfSelf
    <3> QED BY <1>1, <1>2, <1>10, <3>1, SameOffset
  <2>3. /\ o(vr_x) \in 0 .. MOD - 1 /\ o(vr_h) \in 0 .. MOD - 1
        /\ Offset(vr_x, vr_r') = IF k <= o(vr_x) THEN o(vr_x) - k ELSE o(vr_x) - k + MOD
    BY <1>2, <1>5
  <2>4. 0 < o(vr_x) /\ o(vr_x) <= o(vr_h)
    BY <1>2, <1>10
  <2>5. k < o(vr_x) /\ Offset(vr_x, vr_r') = o(vr_x) - k
    BY <1>1, <2>1, <2>2, <2>3, <2>4, Sizes, SMT
  <2>6. 0 < Offset(vr_x, vr_r') /\ Offset(vr_x, vr_r') <= Offset(vr_h', vr_r')
    BY <1>1, <1>7, <2>3, <2>4, <2>5, SMT
  <2>7. ASSUME NEW s \in SN, Offset(vr_x, vr_r') <= Offset(s, vr_r'),
               Offset(s, vr_r') < Offset(vr_ms', vr_r')
        PROVE  s \in DOMAIN rx_window'
    <3>1. /\ o(s) \in 0 .. MOD - 1 /\ o(vr_ms') \in 0 .. MOD - 1 /\ o(vr_ms) \in 0 .. MOD - 1
          /\ Offset(s, vr_r') = IF k <= o(s) THEN o(s) - k ELSE o(s) - k + MOD
      BY <1>1, <1>2, <1>5
    <3>2. o(s) < o(vr_ms') /\ o(vr_x) <= o(s) /\ k <= o(s)
      BY <1>1, <1>7, <2>3, <2>5, <2>7, <3>1, Sizes, SMT
    <3>3. o(s) < o(vr_ms) \/ o(vr_ms) <= o(s)
      BY <3>1, SMT
    <3>4. s \in S
      BY <1>1, <1>2, <1>10, <3>2, <3>3
    <3> QED BY <1>8, <3>2, <3>4
  <2> QED BY <1>2, <1>10, <2>6, <2>7
<1>11. ASSUME reordering_timer' = "running", vr_x' = vr_h', Offset(vr_h', vr_r') > 0
       PROVE  Timed
  <2>1. /\ Offset(vr_ms', vr_r') <= Offset(vr_h', vr_r')
        /\ 0 < Offset(vr_h', vr_r') /\ Offset(vr_h', vr_r') <= Offset(vr_h', vr_r')
    BY <1>1, <1>5, <1>7, <1>11, SMT
  <2>2. ASSUME NEW s \in SN, Offset(vr_h', vr_r') <= Offset(s, vr_r'),
               Offset(s, vr_r') < Offset(vr_ms', vr_r')
        PROVE  FALSE
    <3>1. Offset(s, vr_r') \in 0 .. MOD - 1 BY <1>1, OffsetType
    <3> QED BY <1>1, <1>5, <1>7, <2>2, <3>1, SMT
  <2> QED BY <1>1, <1>11, <2>1, <2>2
<1>12. ASSUME reordering_timer' = "stopped", vr_x' = vr_x, ~(Offset(vr_h', vr_r') > 0)
       PROVE  Timed
  <2>1. ASSUME NEW s \in DOMAIN rx_window' PROVE FALSE
    <3>1. Offset(s, vr_r') \in 0 .. MOD - 1 BY <1>1, <1>8, OffsetType
    <3>2. Offset(s, vr_r') < Offset(vr_h', vr_r') BY <1>9
    <3> QED BY <1>1, <1>7, <1>12, <3>1, <3>2, SMT
  <2> QED BY <1>2, <1>12, <2>1
<1>13. Timed
  BY <1>3, <1>10, <1>11, <1>12, TimerCases
<1>14. Placed' /\ Passed' /\ GapIsTimed'
  BY <1>1, <1>6, <1>8, <1>13 DEF Placed, Passed, GapIsTimed, RX_OFFSET
<1>15. RxWindowOrder'
  <2>1. /\ Offset(vr_ms', vr_r') <= Offset(vr_h', vr_r') /\ Offset(vr_h', vr_r') <= WINDOW
    BY <1>1, <1>5, <1>7, Sizes, SMT
  <2> QED BY <1>6, <1>13, <2>1 DEF RxWindowOrder, RX_OFFSET
<1>16. OnlyGapsBlock'
  BY <1>1, <1>8, <1>9 DEF OnlyGapsBlock, RX_OFFSET
<1> QED BY <1>1, <1>14, <1>15, <1>16 DEF IInv, VrMsKept, RX_OFFSET

\* Steps that leave the window alone.
windowState == <<vr_r, vr_mr, vr_x, vr_ms, vr_h, rx_window, reordering_timer>>

LEMMA WindowKept ==
    ASSUME IInv, UNCHANGED windowState
    PROVE  IInv' /\ VrMsKept
<1>1. /\ vr_r' = vr_r /\ vr_mr' = vr_mr /\ vr_x' = vr_x /\ vr_ms' = vr_ms /\ vr_h' = vr_h
      /\ rx_window' = rx_window /\ reordering_timer' = reordering_timer
  BY Zenon DEF windowState
<1>2. IInv'
  BY <1>1, Zenon DEF IInv, Placed, RxWindowOrder, OnlyGapsBlock, GapIsTimed, Passed, RX_OFFSET
<1>3. RX_OFFSET(vr_ms) \in 0 .. MOD - 1
  BY OffsetType DEF IInv, Placed, RX_OFFSET
<1> QED BY <1>1, <1>2, <1>3, SMT DEF VrMsKept, RX_OFFSET

LEMMA HandleDataPduIInv ==
    ASSUME IInv, NEW sn \in SN, NEW p, NEW n, NEW segments, NEW status,
           HandleDataPdu(sn, p, n, segments, status)
    PROVE  IInv' /\ VrMsKept
<1>1. CASE ~inside_rx_window(sn) \/ sn \in DOMAIN rx_window
  <2>1. UNCHANGED windowState
    BY <1>1, Zenon DEF HandleDataPdu, windowState
  <2> QED BY <2>1, WindowKept
<1>2. CASE inside_rx_window(sn) /\ sn \notin DOMAIN rx_window
  <2> DEFINE w == With(rx_window, sn, n)
             S == DOMAIN rx_window \cup {sn}
  <2>1. DOMAIN w = S
    BY DEF With
  <2>2. PICK m \in RunLength(vr_ms, DOMAIN w), k \in RunLength(vr_r, DOMAIN w) :
            /\ vr_h' = RaisedVrH(sn) /\ vr_ms' = Plus(vr_ms, m)
            /\ ReassembleRxSdus(w, segments, k) /\ UpdateReorderingTimer
    BY <1>2, Zenon DEF HandleDataPdu
  <2>3. /\ vr_r' = Plus(vr_r, k) /\ vr_mr' = Plus(vr_mr, k)
        /\ rx_window' = Without(w, Span(vr_r, k))
    BY <2>2, Zenon DEF ReassembleRxSdus
  <2> HIDE DEF w
  <2>4. DOMAIN rx_window' = S \ Span(vr_r, k)
    BY <2>1, <2>3 DEF Without
  <2>5. Moves(sn, S, m, k)
    BY <2>1, <2>2, <2>3, <2>4, Zenon DEF Moves
  <2> QED BY <1>2, <2>5, MovesIInv
<1> QED BY <1>1, <1>2

LEMMA FirstSegmentIInv ==
    ASSUME IInv, NEW sn \in SN, NEW p, NEW seg, inside_rx_window(sn), FirstSegment(sn, p, seg)
    PROVE  IInv' /\ VrMsKept
<1> USE DEF RX_OFFSET
<1>1. /\ vr_r' = vr_r /\ vr_mr' = vr_mr /\ vr_x' = vr_x /\ vr_ms' = vr_ms
      /\ rx_window' = rx_window /\ reordering_timer' = reordering_timer
      /\ vr_h' = RaisedVrH(sn)
  BY Zenon DEF FirstSegment
<1>2. /\ vr_h' \in SN /\ Offset(vr_h', vr_r) \in 0 .. WINDOW
      /\ Offset(vr_h, vr_r) <= Offset(vr_h', vr_r)
  BY <1>1, RaisedVrHIs
<1>3. Placed /\ RxWindowOrder /\ OnlyGapsBlock /\ GapIsTimed /\ Passed
  BY DEF IInv
<1>4. \A x \in SN : Offset(x, vr_r) \in 0 .. MOD - 1
  BY <1>3, OffsetType DEF Placed
<1>5. \A x \in SN : Offset(x, vr_r) <= Offset(vr_h, vr_r) => Offset(x, vr_r) <= Offset(vr_h', vr_r)
  BY <1>2, <1>3, <1>4, SMT DEF Placed
<1>6. \A x \in SN : Offset(x, vr_r) < Offset(vr_h, vr_r) => Offset(x, vr_r) < Offset(vr_h', vr_r)
  BY <1>2, <1>3, <1>4, SMT DEF Placed
<1>7. Placed'
  BY <1>1, <1>2, <1>3, Zenon DEF Placed
<1>8. RxWindowOrder'
  <2>1. Offset(vr_h', vr_r) <= WINDOW BY <1>2, Sizes, SMT
  <2> QED BY <1>1, <1>3, <1>5, <2>1, Zenon DEF RxWindowOrder, Placed
<1>9. OnlyGapsBlock'
  BY <1>1, <1>3, <1>6 DEF OnlyGapsBlock, Placed
<1>10. GapIsTimed' /\ Passed'
  BY <1>1, <1>3, Zenon DEF GapIsTimed, Passed
<1>11. VrMsKept
  BY <1>1, <1>3, <1>4, SMT DEF VrMsKept, Placed
<1> QED BY <1>7, <1>8, <1>9, <1>10, <1>11 DEF IInv

LEMMA SegmentIInv ==
    ASSUME IInv, NEW sn \in SN, NEW p, NEW seg, HandleDataPduSegment(sn, p, seg)
    PROVE  IInv' /\ VrMsKept
<1>1. CASE UNCHANGED windowState
  BY <1>1, WindowKept
<1>2. CASE inside_rx_window(sn) /\ FirstSegment(sn, p, seg)
  BY <1>2, FirstSegmentIInv
<1>3. CASE NextSegment(sn, p, seg)
  <2>1. CASE \E list : SegmentList(sn, list)
    <3>1. UNCHANGED windowState BY <2>1, Zenon DEF SegmentList, windowState
    <3> QED BY <3>1, WindowKept
  <2>2. CASE \E n, segments, status : HandleDataPdu(sn, FALSE, n, segments, status)
    BY <2>2, HandleDataPduIInv
  <2> QED BY <1>3, <2>1, <2>2, Zenon DEF NextSegment
<1>4. ~inside_rx_window(sn) => UNCHANGED windowState
  BY Zenon DEF HandleDataPduSegment, rxState, windowState
<1> QED BY <1>1, <1>2, <1>3, <1>4, Zenon DEF HandleDataPduSegment

LEMMA WritePduIInv ==
    ASSUME IInv, NEW pdu, pdu.sn \in SN, WritePdu(pdu)
    PROVE  IInv' /\ VrMsKept
BY SegmentIInv, HandleDataPduIInv, Zenon DEF WritePdu

-----------------------------------------------------------------------------
(***************************************************************************)
(* The reordering timer.                                                   *)
(***************************************************************************)
LEMMA ExpiredIInv ==
    ASSUME IInv, ReorderingTimerExpired
    PROVE  IInv' /\ VrMsKept
<1> DEFINE o(x) == Offset(x, vr_r)
<1>1. /\ vr_r \in SN /\ vr_mr \in SN /\ vr_x \in SN /\ vr_ms \in SN /\ vr_h \in SN
      /\ DOMAIN rx_window \subseteq SN /\ vr_mr = Plus(vr_r, WINDOW)
      /\ o(vr_h) <= WINDOW /\ vr_r \notin DOMAIN rx_window
      /\ vr_ms \notin DOMAIN rx_window
      /\ \A s \in DOMAIN rx_window : o(s) < o(vr_h)
      /\ 0 < o(vr_x) /\ o(vr_x) <= o(vr_h)
      /\ \A s \in SN : o(vr_x) <= o(s) /\ o(s) < o(vr_ms) => s \in DOMAIN rx_window
  BY DEF IInv, Placed, RxWindowOrder, OnlyGapsBlock, Passed, RX_OFFSET, ReorderingTimerExpired
<1>2. /\ vr_r' = vr_r /\ vr_mr' = vr_mr /\ vr_h' = vr_h /\ rx_window' = rx_window
      /\ vr_ms' \in ExpiredVrMs
      /\ IF StillReordering(vr_ms') THEN vr_x' = vr_h /\ reordering_timer' = "running"
         ELSE vr_x' = vr_x /\ reordering_timer' = "stopped"
  BY Zenon DEF ReorderingTimerExpired
<1>3. \A x \in SN : o(x) \in 0 .. MOD - 1
  BY <1>1, OffsetType
<1>4. PICK m \in RunLength(vr_x, DOMAIN rx_window) : vr_ms' = Plus(vr_x, m)
  BY <1>2 DEF ExpiredVrMs
<1>5. /\ m \in 0 .. WINDOW /\ o(vr_x) + m <= o(vr_h)
      /\ vr_ms' \in SN /\ vr_ms' \notin DOMAIN rx_window /\ o(vr_ms') = o(vr_x) + m
  <2> DEFINE got == DOMAIN rx_window
             top == o(vr_h)
             ms  == Plus(vr_x, m)
  <2>1. top \in 0 .. WINDOW
    BY <1>1, <1>3, SMT
  <2>2. /\ got \in SUBSET SN /\ vr_x \in SN /\ vr_r \in SN
        /\ Offset(vr_x, vr_r) <= top /\ \A s \in got : Offset(s, vr_r) < top
        /\ m \in RunLength(vr_x, got)
    BY <1>1, <1>4
  <2> HIDE DEF top, got
  <2>3. /\ m \in 0 .. WINDOW /\ Offset(vr_x, vr_r) + m <= top
        /\ ms \in SN /\ ms \notin got /\ Offset(ms, vr_r) = Offset(vr_x, vr_r) + m
    BY <2>1, <2>2, WalkUp
  <2> HIDE DEF ms
  <2> QED BY <1>4, <2>3 DEF ms, top, got
<1>6. o(vr_ms') \in 0 .. MOD - 1 /\ o(vr_x) <= o(vr_ms') /\ o(vr_ms') <= o(vr_h)
  BY <1>1, <1>3, <1>5, SMT
<1>7. o(vr_ms) <= o(vr_ms')
  <2>1. o(vr_ms') < o(vr_ms) => vr_ms' \in DOMAIN rx_window
    BY <1>1, <1>5, <1>6
  <2>2. o(vr_ms) \in 0 .. MOD - 1 BY <1>1, <1>3
  <2> QED BY <1>5, <1>6, <2>1, <2>2, SMT
<1>8. ASSUME StillReordering(vr_ms') PROVE IInv'
  <2>1. vr_x' = vr_h /\ reordering_timer' = "running" /\ o(vr_h) > o(vr_ms')
    BY <1>2, <1>8 DEF StillReordering, RX_OFFSET
  <2>2. 0 < o(vr_h) /\ o(vr_h) <= o(vr_h)
    BY <1>1, <1>3, <1>6, <2>1, SMT
  <2>3. ASSUME NEW s \in SN, o(vr_h) <= o(s), o(s) < o(vr_ms') PROVE FALSE
    <3>1. o(s) \in 0 .. MOD - 1 /\ o(vr_h) \in 0 .. MOD - 1 BY <1>1, <1>3
    <3> QED BY <1>6, <2>1, <2>3, <3>1, SMT
  <2> QED
    BY <1>1, <1>2, <1>5, <1>6, <2>1, <2>2, <2>3
    DEF IInv, Placed, RxWindowOrder, OnlyGapsBlock, GapIsTimed, Passed, RX_OFFSET
<1>9. ASSUME ~StillReordering(vr_ms') PROVE IInv'
  <2>1. vr_x' = vr_x /\ reordering_timer' = "stopped" /\ ~(o(vr_h) > o(vr_ms'))
    BY <1>2, <1>9 DEF StillReordering, RX_OFFSET
  <2>2. ASSUME NEW s \in DOMAIN rx_window PROVE o(s) < o(vr_ms')
    <3>1. s \in SN /\ o(s) < o(vr_h) BY <1>1
    <3>2. o(s) \in 0 .. MOD - 1 /\ o(vr_h) \in 0 .. MOD - 1 BY <1>1, <1>3, <3>1
    <3> QED BY <1>6, <2>1, <3>1, <3>2, SMT
  <2> QED
    BY <1>1, <1>2, <1>5, <1>6, <2>1, <2>2
    DEF IInv, Placed, RxWindowOrder, OnlyGapsBlock, GapIsTimed, Passed, RX_OFFSET
<1>10. VrMsKept
  BY <1>7 DEF VrMsKept, RX_OFFSET
<1> QED BY <1>8, <1>9, <1>10

-----------------------------------------------------------------------------
LEMMA ReestablishIInv ==
    ASSUME RxReestablish
    PROVE  IInv'
<1>1. /\ vr_r' = 0 /\ vr_mr' = WINDOW /\ vr_x' = 0 /\ vr_ms' = 0 /\ vr_h' = 0
      /\ rx_window' = << >> /\ DOMAIN rx_window' = {} /\ reordering_timer' = "stopped"
  BY SMT DEF RxReestablish, EmptyMap
<1>2. /\ 0 \in SN /\ WINDOW \in SN /\ Offset(0, 0) = 0 /\ Plus(0, WINDOW) = WINDOW
  BY OffsetOfSelf, PlusIs, Sizes, SMT DEF SN
<1>3. Placed'
  BY <1>1, <1>2, SMT DEF Placed
<1>4. RxWindowOrder'
  BY <1>1, <1>2, Sizes, SMT DEF RxWindowOrder, RX_OFFSET
<1> QED BY <1>1, <1>3, <1>4, SMT DEF IInv, OnlyGapsBlock, GapIsTimed, Passed

(***************************************************************************)
(* Types.                                                                  *)
(***************************************************************************)
\* Data PDUs and segments of a PDU, whatever they carry.
AnyDataPdu == [rf : BOOLEAN, sn : SN, p : BOOLEAN, n : Nat, so : Nat, lsf : BOOLEAN]

LEMMA RaisedVrHType ==
    ASSUME vr_h \in SN, NEW sn \in SN
    PROVE  RaisedVrH(sn) \in SN
<1>1. 1 \in 0 .. MOD
  BY Sizes, SMT
<1> QED BY <1>1, PlusType DEF RaisedVrH

LEMMA ReassembleTypes ==
    ASSUME RxTypeOK, NEW window, NEW segments, NEW k \in RunLength(vr_r, DOMAIN window),
           DOMAIN window \subseteq SN, \A s \in DOMAIN window : window[s] \in Int,
           DOMAIN segments \subseteq SN, \A s \in DOMAIN segments : segments[s] \in Seq(Segments),
           ReassembleRxSdus(window, segments, k)
    PROVE  /\ vr_r' \in SN /\ vr_mr' \in SN /\ delivered' \in Seq(Int)
           /\ DOMAIN rx_window' \subseteq SN
           /\ \A s \in DOMAIN rx_window' : rx_window'[s] \in Int
           /\ DOMAIN rx_segments' \subseteq SN
           /\ \A s \in DOMAIN rx_segments' : rx_segments'[s] \in Seq(Segments)
<1>1. k \in 0 .. MOD - 1 /\ \A j \in 0 .. k - 1 : Plus(vr_r, j) \in DOMAIN window
  BY DEF RunLength
<1>2. k \in 0 .. MOD /\ k \in Nat
  BY <1>1, Sizes, SMT
<1>3. vr_r \in SN /\ vr_mr \in SN /\ delivered \in Seq(Int)
  BY DEF RxTypeOK
<1>4. /\ delivered' = delivered \o [i \in 1 .. k |-> window[Plus(vr_r, i - 1)]]
      /\ vr_r' = Plus(vr_r, k) /\ vr_mr' = Plus(vr_mr, k)
      /\ rx_window' = Without(window, Span(vr_r, k))
      /\ rx_segments' = ClearedSegments(segments, Span(vr_r, k))
  BY Zenon DEF ReassembleRxSdus
<1>5. [i \in 1 .. k |-> window[Plus(vr_r, i - 1)]] \in Seq(Int)
  <2>1. ASSUME NEW i \in 1 .. k PROVE window[Plus(vr_r, i - 1)] \in Int
    <3>1. i - 1 \in 0 .. k - 1
      BY <1>2, SMT
    <3> QED BY <1>1, <3>1
  <2>2. [i \in 1 .. k |-> window[Plus(vr_r, i - 1)]] \in [1 .. k -> Int]
    BY <2>1
  <2> QED BY <1>2, <2>2, SeqDef
<1>6. delivered' \in Seq(Int)
  BY <1>3, <1>4, <1>5, ConcatProperties
<1>7. vr_r' \in SN /\ vr_mr' \in SN
  BY <1>2, <1>3, <1>4, PlusType
<1>8. /\ DOMAIN rx_window' \subseteq SN
      /\ \A s \in DOMAIN rx_window' : rx_window'[s] \in Int
  BY <1>4 DEF Without
<1>9. /\ DOMAIN rx_segments' \subseteq SN
      /\ \A s \in DOMAIN rx_segments' : rx_segments'[s] \in Seq(Segments)
  <2>1. << >> \in Seq(Segments)
    BY EmptySeq
  <2> QED BY <1>4, <2>1 DEF ClearedSegments
<1> QED BY <1>6, <1>7, <1>8, <1>9

LEMMA HandleDataPduTypes ==
    ASSUME RxTypeOK, NEW sn \in SN, NEW p \in BOOLEAN, NEW n \in Int, NEW status \in BOOLEAN,
           NEW segments,
           DOMAIN segments \subseteq SN, \A s \in DOMAIN segments : segments[s] \in Seq(Segments),
           HandleDataPdu(sn, p, n, segments, status), UNCHANGED <<status_prohibit, tx_status>>
    PROVE  RxTypeOK'
<1>1. CASE ~inside_rx_window(sn) \/ sn \in DOMAIN rx_window
  <2>1. /\ do_status' = (status \/ p) /\ rx_segments' = segments
        /\ UNCHANGED <<vr_r, vr_mr, vr_x, vr_ms, vr_h, rx_window, poll_received,
                       reordering_timer, delivered>>
    BY <1>1, Zenon DEF HandleDataPdu
  <2> QED BY <2>1 DEF RxTypeOK
<1>2. CASE inside_rx_window(sn) /\ sn \notin DOMAIN rx_window
  <2> DEFINE w == With(rx_window, sn, n)
  <2>1. DOMAIN w \subseteq SN /\ \A s \in DOMAIN w : w[s] \in Int
    BY DEF With, RxTypeOK
  <2> HIDE DEF w
  <2>2. PICK m \in RunLength(vr_ms, DOMAIN w), k \in RunLength(vr_r, DOMAIN w) :
            /\ vr_h' = RaisedVrH(sn) /\ vr_ms' = Plus(vr_ms, m)
            /\ do_status' = (status \/ (p /\ PollDue(sn, vr_ms')))
            /\ poll_received' = (poll_received \/ p)
            /\ ReassembleRxSdus(w, segments, k) /\ UpdateReorderingTimer
    BY <1>2, Zenon DEF HandleDataPdu, w
  <2>3. /\ vr_r' \in SN /\ vr_mr' \in SN /\ delivered' \in Seq(Int)
        /\ DOMAIN rx_window' \subseteq SN
        /\ \A s \in DOMAIN rx_window' : rx_window'[s] \in Int
        /\ DOMAIN rx_segments' \subseteq SN
        /\ \A s \in DOMAIN rx_segments' : rx_segments'[s] \in Seq(Segments)
    BY <2>1, <2>2, ReassembleTypes
  <2>4. vr_h' \in SN
    BY <2>2, RaisedVrHType DEF RxTypeOK
  <2>5. vr_ms' \in SN
    <3>1. m \in 0 .. MOD
      BY Sizes, SMT DEF RunLength
    <3> QED BY <2>2, <3>1, PlusType DEF RxTypeOK
  <2>6. vr_x' \in SN /\ reordering_timer' \in {"stopped", "running"}
    BY <2>2, <2>4, TimerCases DEF RxTypeOK
  <2>7. do_status' \in BOOLEAN /\ poll_received' \in BOOLEAN
    BY <2>2, Zenon DEF RxTypeOK
  <2> QED BY <2>3, <2>4, <2>5, <2>6, <2>7, Zenon DEF RxTypeOK
<1> QED BY <1>1, <1>2

LEMMA FirstSegmentTypes ==
    ASSUME RxTypeOK, NEW sn \in SN, NEW p \in BOOLEAN, NEW seg \in Segments,
           FirstSegment(sn, p, seg), UNCHANGED <<status_prohibit, tx_status>>
    PROVE  RxTypeOK'
<1>1. /\ rx_segments' = With(rx_segments, sn, <<seg>>) /\ vr_h' = RaisedVrH(sn)
      /\ poll_received' = (poll_received \/ p)
      /\ do_status' = (do_status \/ (p /\ PollDue(sn, vr_ms)))
      /\ UNCHANGED <<vr_r, vr_mr, vr_x, vr_ms, rx_window, reordering_timer, delivered>>
  BY Zenon DEF FirstSegment
<1>2. vr_h' \in SN
  BY <1>1, RaisedVrHType DEF RxTypeOK
<1>3. <<seg>> \in Seq(Segments)
  BY SMT
<1>4. DOMAIN rx_segments' \subseteq SN /\ \A s \in DOMAIN rx_segments' : rx_segments'[s] \in Seq(Segments)
  BY <1>1, <1>3 DEF With, RxTypeOK
<1>5. do_status' \in BOOLEAN /\ poll_received' \in BOOLEAN
  BY <1>1, Zenon DEF RxTypeOK
<1> QED BY <1>1, <1>2, <1>4, <1>5 DEF RxTypeOK

LEMMA SegmentListTypes ==
    ASSUME RxTypeOK, NEW sn \in SN, NEW list \in Seq(Segments), SegmentList(sn, list),
           do_status' \in BOOLEAN, UNCHANGED <<status_prohibit, tx_status>>
    PROVE  RxTypeOK'
BY DEF SegmentList, RxTypeOK

LEMMA NextSegmentTypes ==
    ASSUME RxTypeOK, NEW sn \in SN, NEW p \in BOOLEAN, NEW seg \in Segments,
           NextSegment(sn, p, seg), UNCHANGED <<status_prohibit, tx_status>>
    PROVE  RxTypeOK'
<1> DEFINE list == rx_segments[sn]
           payload == IF \A i \in 1 .. Len(Append(list, seg)) : Append(list, seg)[i].n = seg.n
                      THEN seg.n ELSE NoPayload
<1>1. /\ list \in Seq(Segments) /\ Append(list, seg) \in Seq(Segments)
      /\ <<seg>> \in Seq(Segments)
  BY SMT DEF NextSegment, RxTypeOK
<1>2. payload \in Int
  BY SMT DEF NoPayload, Segments
<1>3. do_status \in BOOLEAN /\ (do_status \/ p) \in BOOLEAN
  BY Zenon DEF RxTypeOK
<1>4. /\ DOMAIN Without(rx_segments, {sn}) \subseteq SN
      /\ \A s \in DOMAIN Without(rx_segments, {sn}) : Without(rx_segments, {sn})[s] \in Seq(Segments)
  BY DEF Without, RxTypeOK
<1>5. \/ do_status' = (do_status \/ p) /\ SegmentList(sn, <<seg>>)
      \/ do_status' = (do_status \/ p) /\ SegmentList(sn, list)
      \/ do_status' = (do_status \/ p) /\ SegmentList(sn, Append(list, seg))
      \/ HandleDataPdu(sn, FALSE, payload, Without(rx_segments, {sn}), do_status \/ p)
  BY Zenon DEF NextSegment
<1> HIDE DEF list, payload
<1>6. CASE do_status' = (do_status \/ p)
  <2>1. do_status' \in BOOLEAN
    BY <1>3, <1>6
  <2>2. CASE \E l \in Seq(Segments) : SegmentList(sn, l)
    BY <2>1, <2>2, SegmentListTypes
  <2>3. CASE HandleDataPdu(sn, FALSE, payload, Without(rx_segments, {sn}), do_status \/ p)
    BY <1>2, <1>3, <1>4, <2>3, HandleDataPduTypes, FALSE \in BOOLEAN
  <2> QED BY <1>1, <1>5, <2>2, <2>3
<1>7. CASE HandleDataPdu(sn, FALSE, payload, Without(rx_segments, {sn}), do_status \/ p)
  BY <1>2, <1>3, <1>4, <1>7, HandleDataPduTypes, FALSE \in BOOLEAN
<1> QED BY <1>5, <1>6, <1>7

LEMMA WritePduTypes ==
    ASSUME RxTypeOK, NEW pdu \in AnyDataPdu, WritePdu(pdu)
    PROVE  RxTypeOK'
<1> DEFINE seg == [so |-> pdu.so, lsf |-> pdu.lsf, n |-> pdu.n]
<1>1. pdu.sn \in SN /\ pdu.p \in BOOLEAN /\ pdu.n \in Int /\ seg \in Segments
  BY SMT DEF AnyDataPdu, Segments
<1>2. do_status \in BOOLEAN /\ (do_status \/ pdu.p) \in BOOLEAN
  BY <1>1, Zenon DEF RxTypeOK
<1>3. UNCHANGED <<status_prohibit, tx_status>>
  BY Zenon DEF WritePdu
<1> HIDE DEF seg
<1>4. CASE ~pdu.rf
  <2>1. HandleDataPdu(pdu.sn, pdu.p, pdu.n, rx_segments, do_status)
    BY <1>4, Zenon DEF WritePdu
  <2>2. DOMAIN rx_segments \subseteq SN /\ \A s \in DOMAIN rx_segments : rx_segments[s] \in Seq(Segments)
    BY DEF RxTypeOK
  <2> QED BY <1>1, <1>2, <1>3, <2>1, <2>2, HandleDataPduTypes
<1>5. CASE pdu.rf
  <2>1. HandleDataPduSegment(pdu.sn, pdu.p, seg)
    BY <1>5, Zenon DEF WritePdu, seg
  <2>2. CASE do_status' = (do_status \/ pdu.p) /\ UNCHANGED rxState
    BY <1>2, <1>3, <2>2 DEF rxState, RxTypeOK
  <2>3. CASE FirstSegment(pdu.sn, pdu.p, seg)
    BY <1>1, <1>3, <2>3, FirstSegmentTypes
  <2>4. CASE NextSegment(pdu.sn, pdu.p, seg)
    BY <1>1, <1>3, <2>4, NextSegmentTypes
  <2> QED BY <2>1, <2>2, <2>3, <2>4, Zenon DEF HandleDataPduSegment
<1> QED BY <1>4, <1>5

\* A status report names numbers of the window only.
LEMMA StatusReportTypes ==
    ASSUME RxTypeOK, NEW room \in Nat, NEW st \in StatusReports(room)
    PROVE  st.ack_sn \in SN /\ st.nacks \subseteq SN
<1>1. vr_r \in SN /\ DOMAIN rx_window \subseteq SN
  BY DEF RxTypeOK
<1> DEFINE Missing   == { x \in Span(vr_r, RX_OFFSET(vr_ms)) : x \notin DOMAIN rx_window }
           Before(x) == { y \in Missing : RX_OFFSET(y) < RX_OFFSET(x) }
           nacked    == { x \in Missing : Cardinality(Before(x)) < room }
           reported  == Reported(Missing \ nacked)
           highest   == { x \in reported : \A y \in reported : RX_OFFSET(y) <= RX_OFFSET(x) }
<1>2. nacked \subseteq SN
  BY DEF Span
<1>3. highest \subseteq SN
  BY <1>1 DEF Reported
<1>4. PICK ack_sn \in IF reported = {} THEN {vr_r} ELSE highest :
         st = [ ack_sn |-> ack_sn,
                nacks  |-> IF nacked # Missing /\ ack_sn \in nacked THEN {} ELSE nacked ]
  BY DEF StatusReports
<1> HIDE DEF Missing, nacked, highest, reported
<1>5. ack_sn \in SN
  BY <1>1, <1>3, <1>4
<1> QED BY <1>2, <1>4, <1>5

\* The handlers that no PDU is written by.
LEMMA OtherRxTypes ==
    ASSUME RxTypeOK,
           \/ ReorderingTimerExpired \/ GetStatusPdu \/ ResetStatus
           \/ StatusProhibitExpired \/ RxReestablish \/ UNCHANGED rxVars
    PROVE  RxTypeOK'
<1>1. CASE ReorderingTimerExpired
  <2>1. vr_ms' \in SN
    <3>1. PICK m \in RunLength(vr_x, DOMAIN rx_window) : vr_ms' = Plus(vr_x, m)
      BY <1>1 DEF ReorderingTimerExpired, ExpiredVrMs
    <3>2. m \in 0 .. MOD
      BY Sizes, SMT DEF RunLength
    <3> QED BY <3>1, <3>2, PlusType DEF RxTypeOK
  <2>2. /\ do_status' = (do_status \/ poll_received)
        /\ \/ vr_x' = vr_h /\ reordering_timer' = "running"
           \/ vr_x' = vr_x /\ reordering_timer' = "stopped"
        /\ UNCHANGED <<vr_r, vr_mr, vr_h, rx_window, rx_segments, poll_received,
                       delivered, status_prohibit, tx_status>>
    BY <1>1, Zenon DEF ReorderingTimerExpired
  <2>3. do_status' \in BOOLEAN
    BY <2>2, Zenon DEF RxTypeOK
  <2> QED BY <2>1, <2>2, <2>3 DEF RxTypeOK
<1>2. CASE GetStatusPdu
  <2>1. PICK room \in MAX_NACK_GRANTS : \E status \in StatusReports(room) : tx_status' = {status}
    BY <1>2, Zenon DEF GetStatusPdu
  <2>2. room \in Nat
    BY RxAssumption
  <2>3. \A st \in tx_status' : st.ack_sn \in SN /\ st.nacks \subseteq SN
    BY <2>1, <2>2, StatusReportTypes
  <2> QED BY <1>2, <2>3 DEF GetStatusPdu, rxState, RxTypeOK
<1>3. CASE ResetStatus
  BY <1>3, RxAssumption DEF ResetStatus, RxTypeOK
<1>4. CASE StatusProhibitExpired
  BY <1>4 DEF StatusProhibitExpired, rxState, RxTypeOK
<1>5. CASE RxReestablish
  <2>1. 0 \in SN /\ WINDOW \in SN
    BY Sizes, SMT DEF SN
  <2>2. << >> \in Seq(Int) /\ DOMAIN EmptyMap = {}
    BY SMT DEF EmptyMap
  <2> QED BY <1>5, <2>1, <2>2 DEF RxReestablish, RxTypeOK
<1>6. CASE UNCHANGED rxVars
  BY <1>6 DEF rxVars, rxState, RxTypeOK
<1> QED BY <1>1, <1>2, <1>3, <1>4, <1>5, <1>6

LEMMA InitRxTypes == RxInit => RxTypeOK
<1>1. 0 \in SN /\ WINDOW \in SN
  BY Sizes, SMT DEF SN
<1>2. << >> \in Seq(Int) /\ DOMAIN EmptyMap = {}
  BY SMT DEF EmptyMap
<1> QED BY <1>1, <1>2 DEF RxInit, RxTypeOK

(***************************************************************************)
(* For every window size and every peer: each handler of the receiver      *)
(* keeps the types of its state; sequence numbers stay in the 10-bit space *)
(* (MOD), in the maps, in the state variables and in every status PDU.     *)
(***************************************************************************)
THEOREM RxTypeCorrect == RxSpec => []RxTypeOK
<1>1. DataPdus \subseteq AnyDataPdu
  <2>1. RF \subseteq BOOLEAN /\ PAYLOADS \subseteq Nat /\ 0 \in Nat /\ 1 \in Nat
    BY RxPeerAssumption, SMT
  <2> QED BY <2>1 DEF DataPdus, AnyDataPdu
<1>2. ASSUME RxTypeOK, [RxNext]_rxVars PROVE RxTypeOK'
  BY <1>1, <1>2, WritePduTypes, OtherRxTypes, Zenon DEF RxNext, RxPduArrives
<1> QED BY <1>2, InitRxTypes, PTL DEF RxSpec

-----------------------------------------------------------------------------
LEMMA NextIInv ==
    ASSUME IInv, [RxNext]_rxVars
    PROVE  IInv' /\ (RxReestablish \/ VrMsKept)
<1>1. ASSUME NEW pdu \in DataPdus, RxPduArrives(pdu) PROVE IInv' /\ VrMsKept
  <2>1. pdu.sn \in SN
    BY DEF DataPdus
  <2> QED BY <1>1, <2>1, WritePduIInv DEF RxPduArrives
<1>2. CASE ReorderingTimerExpired
  BY <1>2, ExpiredIInv
<1>3. CASE GetStatusPdu \/ ResetStatus \/ StatusProhibitExpired \/ UNCHANGED rxVars
  <2>1. UNCHANGED windowState
    BY <1>3, Zenon DEF GetStatusPdu, ResetStatus, StatusProhibitExpired, rxVars, rxState, windowState
  <2> QED BY <2>1, WindowKept
<1>4. CASE RxReestablish
  BY <1>4, ReestablishIInv
<1> QED BY <1>1, <1>2, <1>3, <1>4, Zenon DEF RxNext

THEOREM Inductive == RxSpec => []IInv
<1>1. ASSUME IInv, [RxNext]_rxVars PROVE IInv'
  BY <1>1, NextIInv
<1> QED BY <1>1, InitIInv, PTL DEF RxSpec

(***************************************************************************)
(* For every window size: vr_r <= vr_ms <= vr_h <= vr_mr around the        *)
(* window, and a running reordering timer stands for a gap in it, whatever *)
(* handle_data_pdu, handle_data_pdu_segment and timer_expired are given    *)
(* and in whatever order.                                                  *)
(***************************************************************************)
THEOREM RxWindowOrderAlways == RxSpec => []RxWindowOrder
<1>1. IInv => RxWindowOrder
  BY DEF IInv
<1> QED BY <1>1, Inductive, PTL

(***************************************************************************)
(* For every window size: what is buffered is in the window and waits for  *)
(* a missing PDU; reassemble_rx_sdus leaves nothing deliverable behind.    *)
(***************************************************************************)
THEOREM OnlyGapsBlockAlways == RxSpec => []OnlyGapsBlock
<1>1. IInv => OnlyGapsBlock
  BY DEF IInv
<1> QED BY <1>1, Inductive, PTL

(***************************************************************************)
(* For every window size: a hole below a received PDU is timed by          *)
(* reordering_timer or already below vr_ms, where a status PDU reports it. *)
(***************************************************************************)
THEOREM GapIsTimedAlways == RxSpec => []GapIsTimed
<1>1. IInv => GapIsTimed
  BY DEF IInv
<1> QED BY <1>1, Inductive, PTL

(***************************************************************************)
(* For every window size: no handler moves vr_ms back, although            *)
(* timer_expired sets it from the vr_x of an earlier time.                 *)
(***************************************************************************)
THEOREM VrMsNeverGoesBack == RxSpec => VrMsMonotone
<1>1. ASSUME IInv, [RxNext]_rxVars
      PROVE  [RxReestablish \/ RX_OFFSET(vr_ms) <= Offset(vr_ms', vr_r)]_rxVars
  BY <1>1, NextIInv DEF VrMsKept
<1> QED BY <1>1, Inductive, PTL DEF RxSpec, VrMsMonotone
=============================================================================
