---------------------------- MODULE RlcUm_proofs ----------------------------
(***************************************************************************)
(* Proofs about an unacknowledged bearer (RlcUm), for every window size,   *)
(* all lengths of SDUs and PDUs, and any number of losses and              *)
(* re-establishments.                                                      *)
(***************************************************************************)
EXTENDS RlcUm, SequenceTheorems, WellFoundedInduction, TLAPS

-----------------------------------------------------------------------------
(***************************************************************************)
(* Sequence numbers of PDUs that are counted from the first one sent.      *)
(***************************************************************************)
LEMMA Sizes == WINDOW \in Nat /\ WINDOW > 0 /\ MOD = 2 * WINDOW /\ MOD \in Nat /\ MOD > 1
BY WindowAssumption, ModAssumption, SMT

LEMMA SnType == ASSUME NEW x \in Int PROVE x % MOD \in SN
BY Sizes, SMT DEF SN

LEMMA SnSmall == ASSUME NEW y \in SN PROVE y % MOD = y
BY Sizes, SMT DEF SN

LEMMA SnShift ==
    ASSUME NEW x \in Int, NEW q \in Int
    PROVE  (x + q * MOD) % MOD = x % MOD
<1>0. MOD \in Nat \ {0} BY Sizes, SMT
<1>1. ASSUME NEW y \in 0 .. MOD - 1, NEW p \in Int PROVE (p * MOD + y) % MOD = y
  BY <1>0, SMT
<1>2. PICK p \in Int, y \in 0 .. MOD - 1 : x = p * MOD + y
  <2>1. x = (x \div MOD) * MOD + (x % MOD) BY <1>0, SMT
  <2>2. (x \div MOD) \in Int /\ x % MOD \in 0 .. MOD - 1 BY <1>0, SMT
  <2> QED BY <2>1, <2>2
<1>3. x % MOD = y
  BY <1>1, <1>2
<1>4. x + q * MOD = (p + q) * MOD + y /\ p + q \in Int
  BY <1>0, <1>2, SMT
<1>5. ((p + q) * MOD + y) % MOD = y
  BY ONLY <1>1, <1>2, <1>4, Zenon
<1> QED BY <1>3, <1>4, <1>5

\* Numbers less than MOD apart are told apart.
LEMMA SnSame ==
    ASSUME NEW x \in Int, NEW y \in Int, x - y < MOD, y - x < MOD, x % MOD = y % MOD
    PROVE  x = y
<1>0. MOD \in Nat \ {0} BY Sizes, SMT
<1>1. x = (x \div MOD) * MOD + (x % MOD) /\ y = (y \div MOD) * MOD + (y % MOD) BY <1>0, SMT
<1>2. PICK a \in Int, b \in Int : a = x \div MOD /\ b = y \div MOD
  <2>1. (x \div MOD) \in Int /\ (y \div MOD) \in Int BY <1>0, SMT
  <2> QED BY <2>1
<1>3. x - y = (a - b) * MOD BY <1>0, <1>1, <1>2, SMT
<1>4. CASE a - b >= 1
  <2>1. (a - b) * MOD >= MOD BY <1>0, <1>4, SMT
  <2> QED BY <1>0, <1>3, <2>1, SMT
<1>5. CASE b - a >= 1
  <2>1. (b - a) * MOD >= MOD BY <1>0, <1>5, SMT
  <2>2. y - x = (b - a) * MOD BY <1>0, <1>3, SMT
  <2> QED BY <1>0, <2>1, <2>2, SMT
<1>6. CASE a = b
  BY <1>0, <1>3, <1>6, SMT
<1> QED BY <1>4, <1>5, <1>6, SMT

LEMMA SnPlus ==
    ASSUME NEW x \in Int, NEW k \in Int
    PROVE  Plus(x % MOD, k) = (x + k) % MOD
<1>0. MOD \in Nat \ {0} BY Sizes, SMT
<1>1. PICK a \in Int, y \in Int : a = x \div MOD /\ y = x % MOD BY <1>0, SMT
<1>2. x = a * MOD + y BY <1>0, <1>1, SMT
<1>3. x + k = (y + k) + a * MOD /\ y + k \in Int BY <1>0, <1>1, <1>2, SMT
<1>4. ((y + k) + a * MOD) % MOD = (y + k) % MOD BY <1>3, SnShift
<1> QED BY <1>1, <1>3, <1>4 DEF Plus

LEMMA SnOffset ==
    ASSUME NEW x \in Int, NEW b \in Int
    PROVE  Offset(x % MOD, b % MOD) = (x - b) % MOD
<1>0. MOD \in Nat \ {0} BY Sizes, SMT
<1>1. PICK a \in Int, y \in Int : a = x \div MOD /\ y = x % MOD BY <1>0, SMT
<1>2. PICK c \in Int, z \in Int : c = b \div MOD /\ z = b % MOD BY <1>0, SMT
<1>3. x = a * MOD + y /\ b = c * MOD + z BY <1>0, <1>1, <1>2, SMT
<1>4. x - b = (y - z) + (a - c) * MOD /\ y - z \in Int /\ a - c \in Int
  BY <1>0, <1>1, <1>2, <1>3, SMT
<1>5. ((y - z) + (a - c) * MOD) % MOD = (y - z) % MOD BY <1>4, SnShift
<1> QED BY <1>1, <1>2, <1>4, <1>5 DEF Offset

\* How far x is from the end of the window of which h is the middle.
LEMMA Ahead ==
    ASSUME NEW x \in Int, NEW h \in Int, h - (WINDOW + MOD) <= x, x < h + WINDOW
    PROVE  Offset(x % MOD, Plus(h % MOD, WINDOW)) =
               IF h - WINDOW <= x THEN (x - h) + WINDOW ELSE ((x - h) + WINDOW) + MOD
<1>0. MOD \in Nat \ {0} /\ WINDOW \in Nat /\ MOD = 2 * WINDOW BY Sizes, SMT
<1>1. Plus(h % MOD, WINDOW) = (h + WINDOW) % MOD
  <2>1. WINDOW \in Int BY <1>0, SMT
  <2> QED BY <2>1, SnPlus
<1>2. h + WINDOW \in Int BY <1>0, SMT
<1>3. Offset(x % MOD, (h + WINDOW) % MOD) = (x - (h + WINDOW)) % MOD BY <1>2, SnOffset
<1>4. CASE h - WINDOW <= x
  <2>1. /\ x - (h + WINDOW) = ((x - h) + WINDOW) + (-1) * MOD /\ (x - h) + WINDOW \in Int
        /\ (x - h) + WINDOW \in SN
    BY <1>0, <1>4, SMT DEF SN
  <2>2. (((x - h) + WINDOW) + (-1) * MOD) % MOD = ((x - h) + WINDOW) % MOD BY <2>1, SnShift
  <2>3. ((x - h) + WINDOW) % MOD = (x - h) + WINDOW BY <2>1, SnSmall
  <2> QED BY <1>1, <1>3, <1>4, <2>1, <2>2, <2>3
<1>5. CASE ~(h - WINDOW <= x)
  <2>1. /\ x - (h + WINDOW) = (((x - h) + WINDOW) + MOD) + (-2) * MOD
        /\ ((x - h) + WINDOW) + MOD \in Int /\ ((x - h) + WINDOW) + MOD \in SN
    BY <1>0, <1>5, SMT DEF SN
  <2>2. ((((x - h) + WINDOW) + MOD) + (-2) * MOD) % MOD = (((x - h) + WINDOW) + MOD) % MOD
    BY <2>1, SnShift
  <2>3. (((x - h) + WINDOW) + MOD) % MOD = ((x - h) + WINDOW) + MOD BY <2>1, SnSmall
  <2> QED BY <1>1, <1>3, <1>5, <2>1, <2>2, <2>3
<1> QED BY <1>4, <1>5

-----------------------------------------------------------------------------
(***************************************************************************)
(* Units of an SDU, taken apart and put together again.                    *)
(***************************************************************************)
Unit == [sdu : Nat, k : Nat, last : BOOLEAN]

\* u is the units of SDU s after the first a, up to its end if ends is true.
Piece(u, s, a, ends) == u # << >> /\ u = Units(s, a, a + Len(u), ends)

\* What Units is, written out.
AreUnits(f, s, a, b, n, ends) ==
    /\ f \in Seq(Unit) /\ Len(f) = n
    /\ \A k \in 1 .. n : f[k] = [sdu |-> s, k |-> a + k, last |-> (ends /\ a + k = b)]

LEMMA UnitsAre ==
    ASSUME NEW s \in Nat, NEW a \in Nat, NEW b \in Nat, NEW n \in Nat, b = a + n,
           NEW ends \in BOOLEAN
    PROVE  AreUnits(Units(s, a, b, ends), s, a, b, n, ends)
<1> DEFINE f == Units(s, a, b, ends)
<1>1. b - a = n BY SMT
<1>2. f = [k \in 1 .. n |-> [sdu |-> s, k |-> a + k, last |-> (ends /\ a + k = b)]]
  BY <1>1 DEF Units
<1>3. ASSUME NEW k \in 1 .. n PROVE [sdu |-> s, k |-> a + k, last |-> (ends /\ a + k = b)] \in Unit
  <2>1. a + k \in Nat BY SMT
  <2>2. (ends /\ a + k = b) \in BOOLEAN OBVIOUS
  <2> QED BY <2>1, <2>2 DEF Unit
<1>4. f \in [1 .. n -> Unit] BY <1>2, <1>3
<1> HIDE DEF f
<1>5. f \in Seq(Unit) /\ Len(f) = n
  BY <1>4, SMT
<1>6. \A k \in 1 .. n : f[k] = [sdu |-> s, k |-> a + k, last |-> (ends /\ a + k = b)]
  BY <1>2
<1>7. AreUnits(f, s, a, b, n, ends) BY <1>5, <1>6 DEF AreUnits
<1> QED BY <1>7 DEF f

Joins(x, y, z)     == x \o y = z
IsSub(x, i, j, y)  == SubSeq(x, i, j) = y

LEMMA UnitsJoin ==
    ASSUME NEW s \in Nat, NEW a \in Nat, NEW b \in Nat, NEW c \in Nat, a <= b, b < c,
           NEW ends \in BOOLEAN
    PROVE  Joins(Units(s, a, b, FALSE), Units(s, b, c, ends), Units(s, a, c, ends))
<1> DEFINE x == Units(s, a, b, FALSE)
           y == Units(s, b, c, ends)
           z == Units(s, a, c, ends)
<1>0. PICK m \in Nat, n \in Nat, l \in Nat : b = a + m /\ c = b + n /\ c = a + l /\ l = m + n /\ n > 0
  <2>1. /\ b - a \in Nat /\ c - b \in Nat /\ c - a \in Nat /\ b = a + (b - a) /\ c = b + (c - b)
        /\ c = a + (c - a) /\ c - a = (b - a) + (c - b) /\ c - b > 0
    BY SMT
  <2> QED BY <2>1
<1>1. AreUnits(x, s, a, b, m, FALSE)
  BY <1>0, UnitsAre
<1>2. AreUnits(y, s, b, c, n, ends)
  BY <1>0, UnitsAre
<1>3. AreUnits(z, s, a, c, l, ends)
  BY <1>0, UnitsAre
<1> HIDE DEF x, y, z
<1> USE DEF AreUnits
<1>4. /\ x \o y \in Seq(Unit) /\ Len(x \o y) = l
      /\ \A k \in 1 .. l : (x \o y)[k] = IF k <= m THEN x[k] ELSE y[k - m]
  <2>1. x \in Seq(Unit) /\ y \in Seq(Unit) /\ Len(x) = m /\ Len(y) = n BY <1>1, <1>2
  <2> QED BY <1>0, <2>1, ConcatProperties
<1>6. ASSUME NEW k \in 1 .. l PROVE (x \o y)[k] = z[k]
  <2>0. k \in Nat /\ 1 <= k /\ k <= l BY <1>0, SMT
  <2>1. CASE k <= m
    <3>1. k \in 1 .. m /\ a + k # c BY <1>0, <2>0, <2>1, SMT
    <3>2. (x \o y)[k] = x[k] BY <1>4, <2>1
    <3>3. x[k] = [sdu |-> s, k |-> a + k, last |-> FALSE] BY <1>1, <3>1
    <3>4. z[k] = [sdu |-> s, k |-> a + k, last |-> FALSE] BY <1>3, <3>1
    <3> QED BY <3>2, <3>3, <3>4
  <2>2. CASE ~(k <= m)
    <3>1. PICK j \in 1 .. n : j = k - m /\ b + j = a + k
      <4>1. k - m \in 1 .. n /\ b + (k - m) = a + k BY <1>0, <2>0, <2>2, SMT
      <4> QED BY <4>1
    <3>2. (x \o y)[k] = y[j] BY <1>4, <2>2, <3>1
    <3>3. y[j] = [sdu |-> s, k |-> a + k, last |-> (ends /\ a + k = c)] BY <1>2, <3>1
    <3> QED BY <1>3, <3>2, <3>3
  <2> QED BY <2>1, <2>2
<1>7. x \o y = z BY <1>3, <1>4, <1>6, SeqEqual
<1> QED BY <1>7 DEF x, y, z, Joins

LEMMA UnitsPrefix ==
    ASSUME NEW s \in Nat, NEW a \in Nat, NEW n \in Nat, NEW u \in Nat, 1 <= u, u <= n,
           NEW b \in Nat, NEW c \in Nat, b = a + u, c = a + n
    PROVE  IsSub(Units(s, a, c, TRUE), 1, u, Units(s, a, b, u = n))
<1> DEFINE x == Units(s, a, c, TRUE)
           y == Units(s, a, b, u = n)
           z == SubSeq(x, 1, u)
<1>1. AreUnits(x, s, a, c, n, TRUE)
  BY UnitsAre
<1>2. AreUnits(y, s, a, b, u, u = n)
  <2>1. (u = n) \in BOOLEAN OBVIOUS
  <2> QED BY <2>1, UnitsAre
<1> HIDE DEF x, y
<1> USE DEF AreUnits
<1>3. z \in Seq(Unit) /\ Len(z) = u /\ \A k \in 1 .. u : z[k] = x[k]
  BY <1>1, SMT
<1> HIDE DEF z
<1>4. ASSUME NEW k \in 1 .. u PROVE z[k] = y[k]
  <2>1. k \in 1 .. n /\ ((a + k = c) <=> (u = n /\ a + k = b)) BY SMT
  <2>2. z[k] = [sdu |-> s, k |-> a + k, last |-> (a + k = c)] BY <1>1, <1>3, <2>1
  <2>3. y[k] = [sdu |-> s, k |-> a + k, last |-> (u = n /\ a + k = b)] BY <1>2
  <2>4. (a + k = c) = (u = n /\ a + k = b) BY <2>1
  <2> QED BY <2>2, <2>3, <2>4
<1>5. z = y BY <1>2, <1>3, <1>4, SeqEqual
<1> QED BY <1>5 DEF x, y, z, IsSub

LEMMA UnitsSuffix ==
    ASSUME NEW s \in Nat, NEW a \in Nat, NEW n \in Nat, NEW u \in Nat, u < n,
           NEW b \in Nat, NEW c \in Nat, b = a + u, c = a + n
    PROVE  IsSub(Units(s, a, c, TRUE), u + 1, n, Units(s, b, c, TRUE))
<1> DEFINE x == Units(s, a, c, TRUE)
           y == Units(s, b, c, TRUE)
           z == SubSeq(x, u + 1, n)
<1>0. PICK m \in Nat : n = u + m /\ m > 0 /\ c = b + m
  <2>1. n - u \in Nat /\ n = u + (n - u) /\ n - u > 0 /\ c = b + (n - u) BY SMT
  <2> QED BY <2>1
<1>1. AreUnits(x, s, a, c, n, TRUE)
  BY UnitsAre
<1>2. AreUnits(y, s, b, c, m, TRUE)
  BY <1>0, UnitsAre
<1> HIDE DEF x, y
<1> USE DEF AreUnits
<1>3. z \in Seq(Unit) /\ Len(z) = m /\ \A k \in 1 .. m : z[k] = x[u + k]
  BY <1>0, <1>1, SMT
<1> HIDE DEF z
<1>4. ASSUME NEW k \in 1 .. m PROVE z[k] = y[k]
  <2>1. PICK j \in 1 .. n : j = u + k /\ a + j = b + k
    <3>1. u + k \in 1 .. n /\ a + (u + k) = b + k BY <1>0, SMT
    <3> QED BY <3>1
  <2>2. z[k] = [sdu |-> s, k |-> b + k, last |-> (b + k = c)] BY <1>1, <1>3, <2>1
  <2> QED BY <1>2, <2>2
<1>5. z = y BY <1>2, <1>3, <1>4, SeqEqual
<1> QED BY <1>5 DEF x, y, z, IsSub

\* What a piece is, without the operator Units.
LEMMA PieceIs ==
    ASSUME NEW u \in Seq(Unit), NEW s \in Nat, NEW a \in Nat, NEW ends \in BOOLEAN,
           Piece(u, s, a, ends)
    PROVE  Len(u) \in Nat /\ Len(u) > 0 /\ u[1].sdu = s
<1>1. Len(u) \in Nat /\ Len(u) # 0 BY EmptySeq DEF Piece
<1>2. PICK b \in Nat, n \in Nat : n = Len(u) /\ b = a + n
  <2>1. a + Len(u) \in Nat BY <1>1, SMT
  <2> QED BY <1>1, <2>1
<1>3. AreUnits(Units(s, a, b, ends), s, a, b, n, ends) BY <1>2, UnitsAre
<1>4. u[1].sdu = s
  <2>1. 1 \in 1 .. n BY <1>1, <1>2, SMT
  <2>2. Units(s, a, b, ends)[1] = [sdu |-> s, k |-> a + 1, last |-> (ends /\ a + 1 = b)]
    BY <1>3, <2>1 DEF AreUnits
  <2> QED BY <1>2, <2>2 DEF Piece
<1> QED BY <1>1, <1>4, SMT

LEMMA PieceJoin ==
    ASSUME NEW u \in Seq(Unit), NEW v \in Seq(Unit), NEW s \in Nat, NEW ends \in BOOLEAN,
           Piece(u, s, 0, FALSE), Piece(v, s, Len(u), ends)
    PROVE  Piece(u \o v, s, 0, ends) /\ Len(u \o v) = Len(u) + Len(v) /\ u \o v \in Seq(Unit)
<1>1. Len(u) \in Nat /\ Len(u) > 0 /\ Len(v) \in Nat /\ Len(v) > 0
  <2>1. Len(u) \in Nat /\ Len(u) > 0 BY PieceIs
  <2> QED BY <2>1, PieceIs
<1>2. u \o v \in Seq(Unit) /\ Len(u \o v) = Len(u) + Len(v) BY ConcatProperties
<1>3. u = Units(s, 0, 0 + Len(u), FALSE) /\ v = Units(s, Len(u), Len(u) + Len(v), ends)
  BY DEF Piece
<1>4. PICK m \in Nat, n \in Nat : m = Len(u) /\ n = Len(u) + Len(v) /\ m < n /\ 0 + m = m /\ 0 + n = n
  <2>1. /\ Len(u) + Len(v) \in Nat /\ Len(u) < Len(u) + Len(v) /\ 0 + Len(u) = Len(u)
        /\ 0 + (Len(u) + Len(v)) = Len(u) + Len(v)
    BY <1>1, SMT
  <2> QED BY <1>1, <2>1
<1>5. Units(s, 0, m, FALSE) \o Units(s, m, n, ends) = Units(s, 0, n, ends)
  <2>1. 0 \in Nat /\ 0 <= m /\ m < n BY <1>4, SMT
  <2>2. m \in Nat /\ n \in Nat /\ s \in Nat /\ ends \in BOOLEAN BY <1>4
  <2>3. Joins(Units(s, 0, m, FALSE), Units(s, m, n, ends), Units(s, 0, n, ends))
    BY <2>1, <2>2, UnitsJoin
  <2> QED BY <2>3 DEF Joins
<1>6. u \o v = Units(s, 0, 0 + Len(u \o v), ends) BY <1>2, <1>3, <1>4, <1>5
<1>7. u \o v # << >> BY <1>1, <1>2, EmptySeq, SMT
<1> QED BY <1>2, <1>6, <1>7 DEF Piece

\* y is the first n of l units that follow a in SDU s, z the rest.
Split(y, z, s, a, n, l) ==
    /\ y \in Seq(Unit) /\ Len(y) = n /\ Piece(y, s, a, n = l)
    /\ n = l => z = << >>
    /\ n # l => z \in Seq(Unit) /\ Piece(z, s, a + n, TRUE)

LEMMA PieceSplit ==
    ASSUME NEW u \in Seq(Unit), NEW s \in Nat, NEW a \in Nat, Piece(u, s, a, TRUE),
           NEW used \in 1 .. Len(u)
    PROVE  Split(SubSeq(u, 1, used), SubSeq(u, used + 1, Len(u)), s, a, used, Len(u))
<1>0. PICK n \in Nat, b \in Nat, c \in Nat :
           /\ n = Len(u) /\ b = a + used /\ c = a + n /\ used \in Nat /\ 1 <= used /\ used <= n
  <2>1. Len(u) \in Nat BY LenProperties
  <2>2. a + used \in Nat /\ a + Len(u) \in Nat /\ used \in Nat /\ 1 <= used /\ used <= Len(u)
    BY <2>1, SMT
  <2> QED BY <2>1, <2>2
<1>1. u = Units(s, a, c, TRUE) BY <1>0 DEF Piece
<1>2. SubSeq(u, 1, used) = Units(s, a, b, used = n)
  <2>1. SubSeq(Units(s, a, c, TRUE), 1, used) = Units(s, a, b, used = n)
    <3>1. IsSub(Units(s, a, c, TRUE), 1, used, Units(s, a, b, used = n)) BY <1>0, UnitsPrefix
    <3> QED BY <3>1 DEF IsSub
  <2> QED BY <1>1, <2>1
<1>3. AreUnits(Units(s, a, b, used = n), s, a, b, used, used = n)
  <2>1. (used = n) \in BOOLEAN OBVIOUS
  <2> QED BY <1>0, <2>1, UnitsAre
<1>4. /\ SubSeq(u, 1, used) \in Seq(Unit) /\ Len(SubSeq(u, 1, used)) = used
      /\ SubSeq(u, 1, used) # << >>
  <2>1. Units(s, a, b, used = n) \in Seq(Unit) /\ Len(Units(s, a, b, used = n)) = used
    BY <1>3 DEF AreUnits
  <2>2. used # 0 BY <1>0, SMT
  <2> QED BY <1>2, <2>1, <2>2, EmptySeq
<1>5. CASE used = n
  <2>1. SubSeq(u, used + 1, n) = << >> BY <1>0, <1>5, SMT
  <2> QED BY <1>0, <1>2, <1>4, <1>5, <2>1 DEF Piece, Split
<1>6. CASE used # n
  <2>1. SubSeq(u, used + 1, n) = Units(s, b, c, TRUE)
    <3>1. used < n BY <1>0, <1>6, SMT
    <3>2. SubSeq(Units(s, a, c, TRUE), used + 1, n) = Units(s, b, c, TRUE)
      <4>1. IsSub(Units(s, a, c, TRUE), used + 1, n, Units(s, b, c, TRUE)) BY <1>0, <3>1, UnitsSuffix
      <4> QED BY <4>1 DEF IsSub
    <3> QED BY <1>1, <3>2
  <2>2. PICK m \in Nat : c = b + m /\ m # 0
    <3>1. n - used \in Nat /\ c = b + (n - used) /\ n - used # 0 BY <1>0, <1>6, SMT
    <3> QED BY <3>1
  <2>3. AreUnits(Units(s, b, c, TRUE), s, b, c, m, TRUE)
    BY <2>2, UnitsAre
  <2>4. /\ Units(s, b, c, TRUE) \in Seq(Unit) /\ Len(Units(s, b, c, TRUE)) = m
        /\ Units(s, b, c, TRUE) # << >>
    BY <2>2, <2>3, EmptySeq DEF AreUnits
  <2>5. Piece(SubSeq(u, used + 1, n), s, b, TRUE)
    BY <2>1, <2>2, <2>4 DEF Piece
  <2> QED BY <1>0, <1>2, <1>4, <1>6, <2>1, <2>4, <2>5 DEF Piece, Split
<1> QED BY <1>5, <1>6

-----------------------------------------------------------------------------
(***************************************************************************)
(* Loops: a recursive function that takes one step for each of its rounds. *)
(* What holds at its start and is kept by every step holds at its end;     *)
(* the number that would be the first without it has one before it with    *)
(* it.                                                                     *)
(***************************************************************************)
LEMMA LeastOf ==
    ASSUME NEW T \in SUBSET Nat, T # {}
    PROVE  \E x \in T : \A y \in T : x <= y
<1> DEFINE R == OpToRel(<, Nat)
<1>1. IsWellFoundedOn(R, Nat) BY NatLessThanWellFounded
<1>2. \A x, y \in Nat : <<y, x>> \in R <=> y < x BY SMT DEF OpToRel
<1> HIDE DEF R
<1>3. PICK x \in T : \A y \in T : ~(<<y, x>> \in R) BY <1>1, WFMin
<1>4. ASSUME NEW y \in T PROVE x <= y
  <2>1. x \in Nat /\ y \in Nat /\ ~(y < x) BY <1>2, <1>3
  <2> QED BY <2>1, SMT
<1> QED BY <1>4

\* What holds at first and is kept by each round holds after every round.
LEMMA Rounds ==
    ASSUME NEW n \in Nat, NEW K, 0 \in K, \A k \in 0 .. n - 1 : k \in K => k + 1 \in K
    PROVE  \A k \in 0 .. n : k \in K
<1> DEFINE T == {k \in 0 .. n : k \notin K}
<1> SUFFICES ASSUME T # {} PROVE FALSE OBVIOUS
<1>1. T \in SUBSET Nat BY SMT
<1> HIDE DEF T
<1>2. PICK x \in T : \A y \in T : x <= y BY <1>1, LeastOf
<1>3. x \in 0 .. n /\ x \notin K BY DEF T
<1>4. x # 0 BY <1>3
<1>5. x - 1 \in 0 .. n - 1 /\ x - 1 \in 0 .. n /\ ~(x <= x - 1) /\ (x - 1) + 1 = x BY <1>3, <1>4, SMT
<1>6. x - 1 \notin T BY <1>2, <1>5
<1>7. x - 1 \in K BY <1>5, <1>6 DEF T
<1> QED BY <1>3, <1>5, <1>7

\* f goes through n rounds of F, from r.
Iterates(f, F, r, n) == f = [k \in 0 .. n |-> IF k = 0 THEN r ELSE F[f[k - 1]]]

\* One more round.
LEMMA IteratesOnce ==
    ASSUME NEW n \in Nat, NEW S, NEW F \in [S -> S], NEW r \in S, NEW f \in [0 .. n -> S],
           Iterates(f, F, r, n)
    PROVE  \E g \in [0 .. n + 1 -> S] : Iterates(g, F, r, n + 1)
<1> DEFINE g == [k \in 0 .. n + 1 |-> IF k = n + 1 THEN F[f[n]] ELSE f[k]]
<1>1. g \in [0 .. n + 1 -> S]
  <2> SUFFICES ASSUME NEW k \in 0 .. n + 1
               PROVE (IF k = n + 1 THEN F[f[n]] ELSE f[k]) \in S
    OBVIOUS
  <2>1. n \in 0 .. n /\ (k # n + 1 => k \in 0 .. n) BY SMT
  <2>2. F[f[n]] \in S BY <2>1
  <2> QED BY <2>1, <2>2
<1>2. ASSUME NEW k \in 0 .. n + 1
      PROVE  g[k] = IF k = 0 THEN r ELSE F[g[k - 1]]
  <2>1. g[k] = IF k = n + 1 THEN F[f[n]] ELSE f[k] OBVIOUS
  <2>2. CASE k = n + 1
    <3>1. k # 0 /\ k - 1 = n /\ n \in 0 .. n + 1 /\ n # n + 1 BY <2>2, SMT
    <3>2. g[n] = f[n] BY <3>1
    <3> QED BY <2>1, <2>2, <3>1, <3>2
  <2>3. CASE k # n + 1
    <3>1. k \in 0 .. n /\ (k # 0 => k - 1 \in 0 .. n + 1 /\ k - 1 # n + 1) BY <2>3, SMT
    <3>2. f[k] = IF k = 0 THEN r ELSE F[f[k - 1]] BY <3>1 DEF Iterates
    <3>3. k # 0 => g[k - 1] = f[k - 1] BY <3>1
    <3> QED BY <2>1, <2>3, <3>2, <3>3
  <2> QED BY <2>2, <2>3
<1>3. DOMAIN g = 0 .. n + 1 OBVIOUS
<1>4. g = [k \in 0 .. n + 1 |-> g[k]] OBVIOUS
<1> HIDE DEF g
<1>5. Iterates(g, F, r, n + 1) BY <1>2, <1>4 DEF Iterates
<1> QED BY <1>1, <1>5

\* There is a function that goes through n rounds.
LEMMA IteratesExists ==
    ASSUME NEW n \in Nat, NEW S, NEW F \in [S -> S], NEW r \in S
    PROVE  \E f \in [0 .. n -> S] : Iterates(f, F, r, n)
<1> DEFINE K == {k \in Nat : \E f \in [0 .. k -> S] : Iterates(f, F, r, k)}
<1>1. 0 \in K
  <2> DEFINE f == [k \in 0 .. 0 |-> r]
  <2>1. f \in [0 .. 0 -> S] OBVIOUS
  <2>2. f = [k \in 0 .. 0 |-> IF k = 0 THEN r ELSE F[f[k - 1]]] BY SMT
  <2>3. Iterates(f, F, r, 0) BY <2>2 DEF Iterates
  <2> QED BY <2>1, <2>3
<1>2. ASSUME NEW k \in 0 .. n - 1, k \in K PROVE k + 1 \in K
  <2>1. k \in Nat /\ k + 1 \in Nat BY SMT
  <2>2. PICK f \in [0 .. k -> S] : Iterates(f, F, r, k) BY <1>2
  <2> QED BY <2>1, <2>2, IteratesOnce
<1>3. n \in 0 .. n BY SMT
<1> HIDE DEF K
<1>4. n \in K BY <1>1, <1>2, <1>3, Rounds
<1> QED BY <1>4 DEF K

(***************************************************************************)
(* A loop that stays in S: the state f[k] after each round k.              *)
(***************************************************************************)
Walks(f, F, r, S, n) ==
    /\ f \in [0 .. n -> S] /\ f[0] = r
    /\ \A k \in 0 .. n - 1 : f[k + 1] = F[f[k]]

\* A function whose rounds are those of F as long as they stay in S stays in S.
LEMMA WalksIn ==
    ASSUME NEW n \in Nat, NEW S, NEW F \in [S -> S], NEW r \in S, NEW f,
           f = [k \in 0 .. n |-> f[k]], f[0] = r,
           \A k \in 0 .. n - 1 : f[k] \in S => f[k + 1] = F[f[k]]
    PROVE  Walks(f, F, r, S, n)
<1> DEFINE K == {k \in 0 .. n : f[k] \in S}
<1>2. 0 \in K BY SMT
<1>3. ASSUME NEW k \in 0 .. n - 1, k \in K PROVE k + 1 \in K
  <2>1. k + 1 \in 0 .. n BY SMT
  <2> QED BY <1>3, <2>1
<1> HIDE DEF K
<1>4. \A k \in 0 .. n : k \in K BY <1>2, <1>3, Rounds
<1>5. \A k \in 0 .. n : f[k] \in S BY <1>4 DEF K
<1>6. f \in [0 .. n -> S] BY <1>5
<1>7. ASSUME NEW k \in 0 .. n - 1 PROVE f[k + 1] = F[f[k]]
  <2>1. k \in 0 .. n BY SMT
  <2> QED BY <1>5, <2>1
<1> QED BY <1>6, <1>7 DEF Walks

\* LowerEdges(high, r) is the last of MOD rounds of LowerEdgeStep.
LEMMA LowerEdgesWalk ==
    ASSUME NEW S, NEW high, NEW r \in S, \A x \in S : LowerEdgeStep(high, x) \in S
    PROVE  \E f \in [0 .. MOD -> S] : /\ f[0] = r /\ f[MOD] = LowerEdges(high, r)
                                      /\ \A k \in 0 .. MOD - 1 : f[k + 1] = LowerEdgeStep(high, f[k])
<1> DEFINE P(a) == a = [k \in 0 .. MOD |-> IF k = 0 THEN r ELSE LowerEdgeStep(high, a[k - 1])]
           F == [x \in S |-> LowerEdgeStep(high, x)]
           f == CHOOSE a : P(a)
<1>0. MOD \in Nat BY Sizes
<1>1. F \in [S -> S] /\ \A x \in S : F[x] = LowerEdgeStep(high, x)
  OBVIOUS
<1>2. \E a : P(a)
  <2> HIDE DEF F
  <2>1. PICK g \in [0 .. MOD -> S] : Iterates(g, F, r, MOD)
    BY <1>0, <1>1, IteratesExists
  <2>2. ASSUME NEW k \in 0 .. MOD PROVE (IF k = 0 THEN r ELSE F[g[k - 1]]) = (IF k = 0 THEN r ELSE LowerEdgeStep(high, g[k - 1]))
    <3>1. k # 0 => k - 1 \in 0 .. MOD BY <1>0, SMT
    <3> QED BY <1>1, <3>1
  <2>3. P(g) BY <2>1, <2>2 DEF Iterates
  <2> QED BY <2>3
<1>3. P(f) BY <1>2
<1>4. f[MOD] = LowerEdges(high, r) BY DEF LowerEdges
<1> HIDE DEF f
<1>5. f[0] = r /\ f = [k \in 0 .. MOD |-> f[k]]
  <2>1. 0 \in 0 .. MOD BY <1>0, SMT
  <2>2. \A k \in 0 .. MOD : f[k] = IF k = 0 THEN r ELSE LowerEdgeStep(high, f[k - 1]) BY <1>3
  <2>3. DOMAIN f = 0 .. MOD BY <1>3
  <2> QED BY <1>3, <2>1, <2>2, <2>3
<1>6. ASSUME NEW k \in 0 .. MOD - 1 PROVE f[k + 1] = LowerEdgeStep(high, f[k])
  <2>1. k + 1 \in 0 .. MOD /\ k + 1 # 0 /\ (k + 1) - 1 = k BY <1>0, SMT
  <2>2. f[k + 1] = IF k + 1 = 0 THEN r ELSE LowerEdgeStep(high, f[(k + 1) - 1]) BY <1>3, <2>1
  <2> QED BY <2>1, <2>2
<1> HIDE DEF F, P
<1>7. Walks(f, F, r, S, MOD)
  <2>1. \A k \in 0 .. MOD - 1 : f[k] \in S => f[k + 1] = F[f[k]] BY <1>1, <1>6
  <2> QED BY <1>0, <1>1, <1>5, <2>1, WalksIn
<1> QED BY <1>4, <1>6, <1>7 DEF Walks

\* InSequence(r) is the last of MOD rounds of InSequenceStep.
LEMMA InSequenceWalk ==
    ASSUME NEW S, NEW r \in S, \A x \in S : InSequenceStep(x) \in S
    PROVE  \E f \in [0 .. MOD -> S] : /\ f[0] = r /\ f[MOD] = InSequence(r)
                                      /\ \A k \in 0 .. MOD - 1 : f[k + 1] = InSequenceStep(f[k])
<1> DEFINE P(a) == a = [k \in 0 .. MOD |-> IF k = 0 THEN r ELSE InSequenceStep(a[k - 1])]
           F == [x \in S |-> InSequenceStep(x)]
           f == CHOOSE a : P(a)
<1>0. MOD \in Nat BY Sizes
<1>1. F \in [S -> S] /\ \A x \in S : F[x] = InSequenceStep(x)
  OBVIOUS
<1>2. \E a : P(a)
  <2> HIDE DEF F
  <2>1. PICK g \in [0 .. MOD -> S] : Iterates(g, F, r, MOD)
    BY <1>0, <1>1, IteratesExists
  <2>2. ASSUME NEW k \in 0 .. MOD PROVE (IF k = 0 THEN r ELSE F[g[k - 1]]) = (IF k = 0 THEN r ELSE InSequenceStep(g[k - 1]))
    <3>1. k # 0 => k - 1 \in 0 .. MOD BY <1>0, SMT
    <3> QED BY <1>1, <3>1
  <2>3. P(g) BY <2>1, <2>2 DEF Iterates
  <2> QED BY <2>3
<1>3. P(f) BY <1>2
<1>4. f[MOD] = InSequence(r) BY DEF InSequence
<1> HIDE DEF f
<1>5. f[0] = r /\ f = [k \in 0 .. MOD |-> f[k]]
  <2>1. 0 \in 0 .. MOD BY <1>0, SMT
  <2>2. \A k \in 0 .. MOD : f[k] = IF k = 0 THEN r ELSE InSequenceStep(f[k - 1]) BY <1>3
  <2>3. DOMAIN f = 0 .. MOD BY <1>3
  <2> QED BY <1>3, <2>1, <2>2, <2>3
<1>6. ASSUME NEW k \in 0 .. MOD - 1 PROVE f[k + 1] = InSequenceStep(f[k])
  <2>1. k + 1 \in 0 .. MOD /\ k + 1 # 0 /\ (k + 1) - 1 = k BY <1>0, SMT
  <2>2. f[k + 1] = IF k + 1 = 0 THEN r ELSE InSequenceStep(f[(k + 1) - 1]) BY <1>3, <2>1
  <2> QED BY <2>1, <2>2
<1> HIDE DEF F, P
<1>7. Walks(f, F, r, S, MOD)
  <2>1. \A k \in 0 .. MOD - 1 : f[k] \in S => f[k + 1] = F[f[k]] BY <1>1, <1>6
  <2> QED BY <1>0, <1>1, <1>5, <2>1, WalksIn
<1> QED BY <1>4, <1>6, <1>7 DEF Walks

\* Skips(r) is the last of MOD rounds of SkipStep.
LEMMA SkipsWalk ==
    ASSUME NEW S, NEW r \in S, \A x \in S : SkipStep(x) \in S
    PROVE  \E f \in [0 .. MOD -> S] : /\ f[0] = r /\ f[MOD] = Skips(r)
                                      /\ \A k \in 0 .. MOD - 1 : f[k + 1] = SkipStep(f[k])
<1> DEFINE P(a) == a = [k \in 0 .. MOD |-> IF k = 0 THEN r ELSE SkipStep(a[k - 1])]
           F == [x \in S |-> SkipStep(x)]
           f == CHOOSE a : P(a)
<1>0. MOD \in Nat BY Sizes
<1>1. F \in [S -> S] /\ \A x \in S : F[x] = SkipStep(x)
  OBVIOUS
<1>2. \E a : P(a)
  <2> HIDE DEF F
  <2>1. PICK g \in [0 .. MOD -> S] : Iterates(g, F, r, MOD)
    BY <1>0, <1>1, IteratesExists
  <2>2. ASSUME NEW k \in 0 .. MOD PROVE (IF k = 0 THEN r ELSE F[g[k - 1]]) = (IF k = 0 THEN r ELSE SkipStep(g[k - 1]))
    <3>1. k # 0 => k - 1 \in 0 .. MOD BY <1>0, SMT
    <3> QED BY <1>1, <3>1
  <2>3. P(g) BY <2>1, <2>2 DEF Iterates
  <2> QED BY <2>3
<1>3. P(f) BY <1>2
<1>4. f[MOD] = Skips(r) BY DEF Skips
<1> HIDE DEF f
<1>5. f[0] = r /\ f = [k \in 0 .. MOD |-> f[k]]
  <2>1. 0 \in 0 .. MOD BY <1>0, SMT
  <2>2. \A k \in 0 .. MOD : f[k] = IF k = 0 THEN r ELSE SkipStep(f[k - 1]) BY <1>3
  <2>3. DOMAIN f = 0 .. MOD BY <1>3
  <2> QED BY <1>3, <2>1, <2>2, <2>3
<1>6. ASSUME NEW k \in 0 .. MOD - 1 PROVE f[k + 1] = SkipStep(f[k])
  <2>1. k + 1 \in 0 .. MOD /\ k + 1 # 0 /\ (k + 1) - 1 = k BY <1>0, SMT
  <2>2. f[k + 1] = IF k + 1 = 0 THEN r ELSE SkipStep(f[(k + 1) - 1]) BY <1>3, <2>1
  <2> QED BY <2>1, <2>2
<1> HIDE DEF F, P
<1>7. Walks(f, F, r, S, MOD)
  <2>1. \A k \in 0 .. MOD - 1 : f[k] \in S => f[k + 1] = F[f[k]] BY <1>1, <1>6
  <2> QED BY <1>0, <1>1, <1>5, <2>1, WalksIn
<1> QED BY <1>4, <1>6, <1>7 DEF Walks

-----------------------------------------------------------------------------
(***************************************************************************)
(* SDUs that are delivered: whole, in increasing order, none after b.      *)
(***************************************************************************)
Whole(u)   == u # << >> /\ u = Sdu(u[1].sdu, Len(u))

Ordered(out, b) ==
    /\ \A i \in 1 .. Len(out) : Whole(out[i]) /\ out[i][1].sdu <= b
    /\ \A i, j \in 1 .. Len(out) : i < j => out[i][1].sdu < out[j][1].sdu

\* s is the number of one of them.
Has(out, s) == \E i \in 1 .. Len(out) : out[i][1].sdu = s

\* The SDUs from a + 1 to b are.
HasAll(out, a, b) == \A s \in Nat : a < s /\ s <= b => Has(out, s)

\* Whatever is among those of out is among those of x.
Grows(out, x) == \A s \in Nat : Has(out, s) => Has(x, s)

\* ext is the SDUs from m + 1 on.
From(ext, m) == \A i \in 1 .. Len(ext) : Piece(ext[i], m + i, 0, TRUE)

LEMMA PieceIsWhole ==
    ASSUME NEW u \in Seq(Unit), NEW s \in Nat, Piece(u, s, 0, TRUE)
    PROVE  Whole(u) /\ u[1].sdu = s
<1>1. Len(u) \in Nat /\ u[1].sdu = s BY PieceIs
<1>2. 0 + Len(u) = Len(u) BY <1>1, SMT
<1> QED BY <1>1, <1>2 DEF Piece, Whole, Sdu

\* SDUs m + 1 to b are handed over after those up to a.
LEMMA DeliverMore ==
    ASSUME NEW out \in Seq(Seq(Unit)), NEW ext \in Seq(Seq(Unit)), NEW x, x = out \o ext,
           NEW a \in Nat, NEW m \in Nat, NEW b \in Nat, Ordered(out, a), a <= m, From(ext, m),
           b = m + Len(ext)
    PROVE  x \in Seq(Seq(Unit)) /\ Ordered(x, b) /\ Grows(out, x) /\ HasAll(x, m, b)
<1>0. PICK n \in Nat, l \in Nat : n = Len(out) /\ l = Len(ext)
  <2>1. Len(out) \in Nat /\ Len(ext) \in Nat BY LenProperties
  <2> QED BY <2>1
<1>1. /\ x \in Seq(Seq(Unit)) /\ Len(x) = n + l
      /\ \A i \in 1 .. n + l : x[i] = IF i <= n THEN out[i] ELSE ext[i - n]
  BY <1>0, ConcatProperties
<1>2. \A i \in 1 .. n : i \in 1 .. n + l /\ x[i] = out[i]
  <2> TAKE i \in 1 .. n
  <2>1. i \in 1 .. n + l /\ i <= n BY SMT
  <2> QED BY <1>1, <2>1
<1>3. \A i \in 1 .. l : n + i \in 1 .. n + l /\ x[n + i] = ext[i]
  <2> TAKE i \in 1 .. l
  <2>1. n + i \in 1 .. n + l /\ ~(n + i <= n) /\ (n + i) - n = i BY SMT
  <2> QED BY <1>1, <2>1
<1>4. \A i \in 1 .. n + l : i \in 1 .. n \/ \E j \in 1 .. l : i = n + j
  <2> TAKE i \in 1 .. n + l
  <2>1. i \in 1 .. n \/ (i - n \in 1 .. l /\ i = n + (i - n)) BY SMT
  <2> QED BY <2>1
<1>5. \A i \in 1 .. l : Whole(ext[i]) /\ ext[i][1].sdu = m + i
  <2> TAKE i \in 1 .. l
  <2>1. m + i \in Nat /\ ext[i] \in Seq(Unit) BY <1>0, ElementOfSeq, SMT
  <2>2. Piece(ext[i], m + i, 0, TRUE) BY <1>0 DEF From
  <2> QED BY <2>1, <2>2, PieceIsWhole
<1>6. \A i \in 1 .. n : /\ Whole(out[i]) /\ out[i][1].sdu <= a
                        /\ \A j \in 1 .. n : i < j => out[i][1].sdu < out[j][1].sdu
  BY <1>0 DEF Ordered
<1>7. \A i \in 1 .. n : out[i][1].sdu \in Nat
  <2> TAKE i \in 1 .. n
  <2>1. out[i] \in Seq(Unit) /\ out[i] # << >> BY <1>0, <1>6, ElementOfSeq DEF Whole
  <2>2. out[i][1] \in Unit
    <3>1. Len(out[i]) \in Nat /\ Len(out[i]) # 0 BY <2>1, EmptySeq
    <3>2. 1 \in 1 .. Len(out[i]) BY <3>1, SMT
    <3> QED BY <2>1, <3>2, ElementOfSeq
  <2> QED BY <2>2 DEF Unit
<1>15. \A q \in Nat, h \in Nat : q <= a /\ 1 <= h => q < m + h BY SMT
<1>8. ASSUME NEW i \in 1 .. n + l PROVE Whole(x[i]) /\ x[i][1].sdu <= b
  <2>1. CASE i \in 1 .. n
    <3>1. x[i] = out[i] /\ Whole(out[i]) /\ out[i][1].sdu <= a /\ out[i][1].sdu \in Nat
      BY <1>2, <1>6, <1>7, <2>1
    <3>2. PICK q \in Nat : q = out[i][1].sdu /\ q <= a BY <3>1
    <3>3. q <= b BY <1>0, <3>2, SMT
    <3> QED BY <3>1, <3>2, <3>3
  <2>2. ASSUME NEW j \in 1 .. l, i = n + j PROVE Whole(x[i]) /\ x[i][1].sdu <= b
    <3>1. x[i] = ext[j] /\ Whole(ext[j]) /\ ext[j][1].sdu = m + j BY <1>3, <1>5, <2>2
    <3>2. m + j <= b BY <1>0, SMT
    <3> QED BY <3>1, <3>2
  <2> QED BY <1>4, <2>1, <2>2
<1>9. ASSUME NEW i \in 1 .. n + l, NEW j \in 1 .. n + l, i < j PROVE x[i][1].sdu < x[j][1].sdu
  <2>1. CASE i \in 1 .. n /\ j \in 1 .. n
    <3>1. x[i] = out[i] /\ x[j] = out[j] BY <1>2, <2>1
    <3> QED BY <1>6, <1>9, <2>1, <3>1
  <2>2. ASSUME i \in 1 .. n, NEW h \in 1 .. l, j = n + h PROVE x[i][1].sdu < x[j][1].sdu
    <3>1. x[i] = out[i] /\ out[i][1].sdu <= a /\ out[i][1].sdu \in Nat BY <1>2, <1>6, <1>7, <2>2
    <3>2. x[j] = ext[h] /\ ext[h][1].sdu = m + h BY <1>3, <1>5, <2>2
    <3>3. PICK q \in Nat : q = out[i][1].sdu /\ q <= a BY <3>1
    <3>5. 1 <= h /\ h \in Nat BY <1>0, SMT
    <3>6. q < m + h BY <1>15, <3>3, <3>5
    <3> QED BY <3>1, <3>2, <3>3, <3>6
  <2>3. ASSUME NEW g \in 1 .. l, i = n + g, NEW h \in 1 .. l, j = n + h PROVE x[i][1].sdu < x[j][1].sdu
    <3>1. x[i] = ext[g] /\ ext[g][1].sdu = m + g BY <1>3, <1>5, <2>3
    <3>2. x[j] = ext[h] /\ ext[h][1].sdu = m + h BY <1>3, <1>5, <2>3
    <3>3. m + g < m + h BY <1>9, <2>3, SMT
    <3> QED BY <3>1, <3>2, <3>3
  <2>4. ~(j \in 1 .. n /\ \E g \in 1 .. l : i = n + g) BY <1>9, SMT
  <2> QED BY <1>4, <2>1, <2>2, <2>3, <2>4
<1>10. Ordered(x, b) BY <1>1, <1>8, <1>9 DEF Ordered
<1>11. ASSUME NEW s \in Nat, Has(out, s) PROVE Has(x, s)
  <2>1. PICK i \in 1 .. n : out[i][1].sdu = s BY <1>0, <1>11 DEF Has
  <2>2. i \in 1 .. Len(x) /\ x[i][1].sdu = s BY <1>1, <1>2, <2>1
  <2> QED BY <2>2 DEF Has
<1>12. ASSUME NEW s \in Nat, m < s, s <= b PROVE Has(x, s)
  <2>1. PICK i \in 1 .. l : s = m + i
    <3>1. s - m \in 1 .. l /\ s = m + (s - m) BY <1>0, <1>12, SMT
    <3> QED BY <3>1
  <2>2. n + i \in 1 .. Len(x) /\ x[n + i][1].sdu = s BY <1>1, <1>3, <1>5, <2>1
  <2> QED BY <2>2 DEF Has
<1> QED BY <1>1, <1>10, <1>11, <1>12 DEF Grows, HasAll

\* What is in order up to a is in order up to any b above it.
LEMMA OrderedUpTo ==
    ASSUME NEW out \in Seq(Seq(Unit)), NEW a \in Nat, NEW b \in Nat, Ordered(out, a), a <= b
    PROVE  Ordered(out, b)
<1>1. << >> \in Seq(Seq(Unit)) /\ Len(<< >>) = 0 /\ b = b + 0 BY EmptySeq, SMT
<1>2. out = out \o << >> BY ConcatEmptySeq
<1>3. From(<< >>, b) BY <1>1, SMT DEF From
<1> QED BY <1>1, <1>2, <1>3, DeliverMore
-----------------------------------------------------------------------------
(***************************************************************************)
(* What a PDU does to the SDUs the receiver has.  Between any two PDUs     *)
(* there is a cut c: SDUs up to c.done are wholly in the PDUs before it,   *)
(* and so are the first c.k units of the next one.                         *)
(***************************************************************************)
UmPdus  == [sn : SN, n : Nat, segs : Seq(Seq(Unit)), start : BOOLEAN, end : BOOLEAN]
Windows == UNION {[D -> UmPdus] : D \in SUBSET SN}

Reassemblies == [vr_ur : SN, pdu_lost : BOOLEAN, rx_sdu : Seq(Unit), in : SN,
                 window : Windows, out : Seq(Seq(Unit))]

Cut == [done : Nat, k : Nat]

\* p is what is between the cuts c and d.
Carries(p, c, d) ==
    /\ p.segs # << >>
    /\ p.start = (c.k = 0)
    /\ \A i \in 1 .. Len(p.segs) :
          Piece(p.segs[i], c.done + i, IF i = 1 THEN c.k ELSE 0, i < Len(p.segs) \/ p.end)
    /\ IF p.end THEN d.done = c.done + Len(p.segs) /\ d.k = 0
       ELSE /\ d.done + 1 = c.done + Len(p.segs)
            /\ d.k = (IF Len(p.segs) = 1 THEN c.k ELSE 0) + Len(p.segs[Len(p.segs)])

\* u is nothing, or what is cut off.
Holds(u, c) == u # << >> => Piece(u, c.done + 1, 0, FALSE) /\ Len(u) = c.k

\* z is r after a PDU between the cuts c and d.
After(r, z, d) ==
    /\ z \in Reassemblies /\ z.vr_ur = r.vr_ur /\ z.window = r.window
    /\ Ordered(z.out, d.done) /\ Grows(r.out, z.out)
    /\ Holds(z.rx_sdu, d) /\ (z.rx_sdu # << >> => z.in = r.vr_ur)

\* A segment behind what rx_sdu holds.
LEMMA FirstPart ==
    ASSUME NEW p \in UmPdus, NEW c \in Cut, NEW d \in Cut, Carries(p, c, d),
           NEW u \in Seq(Unit), Holds(u, c), ~(u = << >> /\ ~p.start),
           NEW v, v = u \o p.segs[1], NEW ends \in BOOLEAN, ends = (1 < Len(p.segs) \/ p.end)
    PROVE  v \in Seq(Unit) /\ Piece(v, c.done + 1, 0, ends) /\ Len(v) = c.k + Len(p.segs[1])
<1>1. p.segs \in Seq(Seq(Unit)) /\ p.start \in BOOLEAN /\ c.k \in Nat /\ c.done \in Nat BY DEF UmPdus, Cut
<1>2. 1 \in 1 .. Len(p.segs)
  <2>1. Len(p.segs) \in Nat /\ Len(p.segs) # 0 BY <1>1, EmptySeq, LenProperties DEF Carries
  <2> QED BY <2>1, SMT
<1>3. p.segs[1] \in Seq(Unit) BY <1>1, <1>2, ElementOfSeq
<1>4. Piece(p.segs[1], c.done + 1, c.k, ends) BY <1>2 DEF Carries
<1>5. c.done + 1 \in Nat BY <1>1, SMT
<1>6. CASE u = << >>
  <2>1. v = p.segs[1] BY <1>3, <1>6, ConcatEmptySeq
  <2>2. c.k = 0 BY <1>6 DEF Carries
  <2>3. Len(p.segs[1]) \in Nat BY <1>3, LenProperties
  <2>4. Len(v) = c.k + Len(p.segs[1]) BY <2>1, <2>2, <2>3, SMT
  <2> QED BY <1>3, <1>4, <2>1, <2>2, <2>4
<1>7. CASE u # << >>
  <2>1. Piece(u, c.done + 1, 0, FALSE) /\ Len(u) = c.k BY <1>7 DEF Holds
  <2>2. Piece(p.segs[1], c.done + 1, Len(u), ends) BY <1>4, <2>1
  <2>3. PICK s \in Nat, w \in Seq(Unit) : s = c.done + 1 /\ w = p.segs[1] BY <1>3, <1>5
  <2>4. Piece(u \o w, s, 0, ends) /\ Len(u \o w) = Len(u) + Len(w) /\ u \o w \in Seq(Unit)
    BY <2>1, <2>2, <2>3, PieceJoin
  <2> QED BY <2>1, <2>3, <2>4
<1> QED BY <1>6, <1>7

\* The elements h to m - 1 of a sequence, counted from 1 to n.
Shifted(g, h, m, l, n, a) ==
    /\ l = a + n /\ g <= a /\ (h = 1 => a = g)
    /\ n = IF h <= m - 1 THEN (m - 1) - h + 1 ELSE 0
    /\ \A i \in 1 .. n : h + i - 1 \in 1 .. m - 1 /\ g + (h + i - 1) = a + i

LEMMA MiddleNumbers ==
    ASSUME NEW g \in Nat, NEW h \in Nat, NEW m \in Nat, NEW l \in Nat, 1 <= h, h <= m - 1, l + 1 = g + m
    PROVE  \E n \in Nat, a \in Nat : Shifted(g, h, m, l, n, a)
<1>1. m - h \in Nat /\ g + (h - 1) \in Nat BY SMT
<1>2. PICK n \in Nat, a \in Nat : n = m - h /\ a = g + (h - 1) BY <1>1
<1>3. l = a + n /\ g <= a /\ (h = 1 => a = g) /\ n = (IF h <= m - 1 THEN (m - 1) - h + 1 ELSE 0)
  BY <1>2, SMT
<1>4. \A i \in 1 .. n : h + i - 1 \in 1 .. m - 1 /\ g + (h + i - 1) = a + i BY <1>2, SMT
<1> QED BY <1>2, <1>3, <1>4 DEF Shifted

\* The SDUs the loop over the length indicators delivers, from the first on.
Middle(r, z, c, m, l, first) ==
    /\ z \in Reassemblies /\ z.vr_ur = r.vr_ur /\ z.window = r.window /\ z.in = r.in
    /\ z.pdu_lost = (r.pdu_lost /\ m = 1)
    /\ (m = 1 => z.rx_sdu = r.rx_sdu) /\ (m # 1 => z.rx_sdu = << >>)
    /\ Ordered(z.out, l) /\ Grows(r.out, z.out)
    /\ (first = 1 => HasAll(z.out, c.done, l))

\* The loop over the length indicators hands over whole SDUs only, and all that end
\* in the PDU before its last segment if the first is kept.
LEMMA MiddleDelivers ==
    ASSUME NEW p \in UmPdus, NEW c \in Cut, NEW d \in Cut, Carries(p, c, d),
           NEW r \in Reassemblies, Ordered(r.out, c.done), Holds(r.rx_sdu, c),
           NEW m \in Nat, m = Len(p.segs), NEW l \in Nat, l + 1 = c.done + m,
           NEW first \in {1, 2, m}, first = 1 => ~StartLost(p, r), NEW z, z = MiddleSegments(p, r, first)
    PROVE  Middle(r, z, c, m, l, first)
<1> DEFINE parts == Parts(p, r)
           ext == SubSeq(parts, first, m - 1)
<1>1. p.segs \in Seq(Seq(Unit)) /\ p.start \in BOOLEAN /\ p.end \in BOOLEAN /\ c.k \in Nat /\ c.done \in Nat
  BY DEF UmPdus, Cut
<1>2. m > 0 /\ c.done <= l
  <2>1. m # 0 BY <1>1, EmptySeq DEF Carries
  <2> QED BY <1>1, <2>1, SMT
<1>3. r.rx_sdu \in Seq(Unit) /\ r.out \in Seq(Seq(Unit)) /\ r.pdu_lost \in BOOLEAN BY DEF Reassemblies
<1>4. parts \in Seq(Seq(Unit)) /\ Len(parts) = m /\ \A i \in 1 .. m : parts[i] = IF i = 1 THEN r.rx_sdu \o p.segs[1] ELSE p.segs[i]
  <2>1. 1 \in 1 .. m BY <1>2, SMT
  <2>2. p.segs[1] \in Seq(Unit) BY <1>1, <2>1, ElementOfSeq
  <2>3. r.rx_sdu \o p.segs[1] \in Seq(Unit) BY <1>3, <2>2, ConcatProperties
  <2>4. parts = [p.segs EXCEPT ![1] = r.rx_sdu \o p.segs[1]] BY DEF Parts
  <2> QED BY <1>1, <2>1, <2>3, <2>4, ExceptSeq
<1>5. ASSUME NEW i \in 1 .. m - 1, first <= i PROVE Piece(parts[i], c.done + i, 0, TRUE)
  <2>1. i \in 1 .. m /\ i < m BY SMT
  <2>2. CASE i = 1
    <3>1. parts[1] = r.rx_sdu \o p.segs[1] BY <1>4, <2>1, <2>2
    <3>2. 1 < Len(p.segs) BY <2>1, <2>2
    <3>4. first = 1 BY <1>2, <1>5, <2>2, SMT
    <3>5. ~(r.rx_sdu = << >> /\ ~p.start) BY <3>4 DEF StartLost
    <3>3. Piece(parts[1], c.done + 1, 0, TRUE) BY <1>3, <3>1, <3>2, <3>5, FirstPart
    <3> QED BY <2>2, <3>3
  <2>3. CASE i # 1
    <3>1. parts[i] = p.segs[i] BY <1>4, <2>1, <2>3
    <3> QED BY <2>1, <2>3, <3>1 DEF Carries
  <2> QED BY <2>2, <2>3
<1>6. /\ ext \in Seq(Seq(Unit))
      /\ \E a \in Nat : c.done <= a /\ l = a + Len(ext) /\ From(ext, a) /\ (first = 1 => a = c.done)
  <2> HIDE DEF parts
  <2>1. CASE m - 1 < first
    <3>1. ext = << >> BY <1>2, <2>1, SMT
    <3>2. Len(<< >>) = 0 /\ l = l + 0 BY EmptySeq, SMT
    <3>3. From(<< >>, l) BY <3>2, SMT DEF From
    <3>4. first = 1 => l = c.done BY <1>1, <1>2, <2>1, SMT
    <3>5. << >> \in Seq(Seq(Unit)) BY EmptySeq
    <3> HIDE DEF ext
    <3> QED BY <1>2, <3>1, <3>2, <3>3, <3>4, <3>5
  <2>2. CASE ~(m - 1 < first)
    <3>0. PICK g \in Nat, h \in Nat : g = c.done /\ h = first /\ 1 <= h /\ h <= m - 1
      <4>1. first \in Nat /\ 1 <= first /\ first <= m - 1 BY <1>2, <2>2, SMT
      <4> QED BY <1>1, <4>1
    <3>1. PICK n \in Nat, a \in Nat : Shifted(g, h, m, l, n, a)
      <4>1. l + 1 = g + m BY <3>0
      <4> QED BY <3>0, <4>1, MiddleNumbers
    <3>2. /\ ext \in Seq(Seq(Unit)) /\ Len(ext) = n
          /\ \A i \in 1 .. n : ext[i] = parts[first + i - 1]
      <4>1. parts \in Seq(Seq(Unit)) /\ Len(parts) = m BY <1>4
      <4>2. h \in Int /\ m - 1 \in Int /\ h <= m - 1 BY <3>0, SMT
      <4>3. \A i \in h .. m - 1 : parts[i] \in Seq(Unit)
        <5> TAKE i \in h .. m - 1
        <5>1. i \in 1 .. m BY <3>0, SMT
        <5> HIDE DEF parts
        <5> QED BY <4>1, <5>1, ElementOfSeq
      <4>4. ext = SubSeq(parts, h, m - 1) BY <3>0
      <4> HIDE DEF ext
      <4>6. PICK t \in Int : t = m - 1 BY <4>2
      <4>7. h <= t /\ n = t - h + 1 BY <3>1, <4>2, <4>6 DEF Shifted
      <4>8. ext = SubSeq(parts, h, t) /\ \A i \in h .. t : parts[i] \in Seq(Unit) BY <4>3, <4>4, <4>6
      <4> HIDE DEF parts
      <4>5. ext \in Seq(Seq(Unit)) /\ Len(ext) = n /\ \A i \in 1 .. n : ext[i] = parts[h + i - 1]
        <5>1. /\ SubSeq(parts, h, t) \in Seq(Seq(Unit))
              /\ Len(SubSeq(parts, h, t)) = IF h <= t THEN t - h + 1 ELSE 0
              /\ \A i \in 1 .. t - h + 1 : SubSeq(parts, h, t)[i] = parts[h + i - 1]
          BY <4>2, <4>8, SubSeqProperties
        <5> QED BY <4>7, <4>8, <5>1
      <4> QED BY <3>0, <4>5
    <3>3. ASSUME NEW i \in 1 .. n PROVE Piece(ext[i], a + i, 0, TRUE)
      <4>1. PICK j \in 1 .. m - 1 : j = first + i - 1 /\ first <= j /\ c.done + j = a + i
        <5>1. h <= h + i - 1 BY <3>0, SMT
        <5> QED BY <3>0, <3>1, <5>1 DEF Shifted
      <4>2. ext[i] = parts[j] BY <3>2, <4>1
      <4> QED BY <1>5, <4>1, <4>2
    <3> HIDE DEF ext
    <3>4. From(ext, a) BY <3>2, <3>3 DEF From
    <3>5. c.done <= a /\ l = a + Len(ext) /\ (first = 1 => a = c.done) BY <3>0, <3>1, <3>2 DEF Shifted
    <3> QED BY <3>2, <3>4, <3>5
  <2> QED BY <2>1, <2>2
<1>7. /\ z.out = r.out \o ext /\ z.pdu_lost = (r.pdu_lost /\ m = 1) /\ z.vr_ur = r.vr_ur /\ z.in = r.in
      /\ z.rx_sdu = (IF m = 1 THEN r.rx_sdu ELSE << >>) /\ z.window = r.window
      /\ z = [vr_ur |-> r.vr_ur, pdu_lost |-> z.pdu_lost, rx_sdu |-> z.rx_sdu, in |-> r.in, window |-> r.window, out |-> z.out]
  <2>1. r = [vr_ur |-> r.vr_ur, pdu_lost |-> r.pdu_lost, rx_sdu |-> r.rx_sdu, in |-> r.in, window |-> r.window, out |-> r.out]
    BY DEF Reassemblies
  <2>2. PICK t, b, y : /\ t = r.out \o ext /\ b = (r.pdu_lost /\ m = 1)
                       /\ y = IF m = 1 THEN r.rx_sdu ELSE << >>
    OBVIOUS
  <2>3. z = [r EXCEPT !.out = t, !.pdu_lost = b, !.rx_sdu = y] BY <2>2 DEF MiddleSegments
  <2> HIDE DEF ext
  <2>4. z = [vr_ur |-> r.vr_ur, pdu_lost |-> b, rx_sdu |-> y, in |-> r.in, window |-> r.window, out |-> t]
    <3>1. PICK a0, a1, a2 : a0 = r.vr_ur /\ a1 = r.in /\ a2 = r.window OBVIOUS
    <3>2. PICK a3, a4, a5 : a3 = r.pdu_lost /\ a4 = r.rx_sdu /\ a5 = r.out OBVIOUS
    <3>3. r = [vr_ur |-> a0, pdu_lost |-> a3, rx_sdu |-> a4, in |-> a1, window |-> a2, out |-> a5]
      BY <2>1, <3>1, <3>2
    <3>4. z = [vr_ur |-> a0, pdu_lost |-> b, rx_sdu |-> y, in |-> a1, window |-> a2, out |-> t]
      BY <2>3, <3>3
    <3> QED BY <3>1, <3>4
  <2>5. z.out = t /\ z.pdu_lost = b /\ z.rx_sdu = y /\ z.vr_ur = r.vr_ur /\ z.in = r.in /\ z.window = r.window
    BY <2>4
  <2> QED BY <2>2, <2>4, <2>5
<1> HIDE DEF ext
<1>8. PICK a \in Nat : c.done <= a /\ l = a + Len(ext) /\ From(ext, a) /\ (first = 1 => a = c.done)
  BY <1>6
<1>9. z.out \in Seq(Seq(Unit)) /\ Ordered(z.out, l) /\ Grows(r.out, z.out) /\ HasAll(z.out, a, l)
  <2>1. PICK b \in Nat : b = c.done BY <1>1
  <2>2. PICK out : out = r.out OBVIOUS
  <2>3. z.out = out \o ext /\ ext \in Seq(Seq(Unit)) /\ out \in Seq(Seq(Unit)) BY <1>3, <1>6, <1>7, <2>2
  <2>4. Ordered(out, b) /\ b <= a /\ l = a + Len(ext) /\ From(ext, a) BY <1>8, <2>1, <2>2
  <2>5. PICK x : x = z.out OBVIOUS
  <2>6. x \in Seq(Seq(Unit)) /\ Ordered(x, l) /\ Grows(out, x) /\ HasAll(x, a, l)
    BY <2>3, <2>4, <2>5, DeliverMore
  <2> QED BY <2>5, <2>6, <2>2
<1>10. z \in Reassemblies
  <2>1. << >> \in Seq(Unit) BY EmptySeq
  <2>2. z.rx_sdu \in Seq(Unit) /\ z.pdu_lost \in BOOLEAN BY <1>3, <1>7, <2>1
  <2> HIDE DEF parts
  <2> QED BY <1>7, <1>9, <2>2 DEF Reassemblies
<1> QED BY <1>7, <1>8, <1>9, <1>10 DEF Middle

\* Nothing that is not delivered is missing from z.
Complete(r, z, c, d) ==
    ~z.pdu_lost /\ HasAll(z.out, c.done, d.done) /\ (d.k # 0 => z.rx_sdu # << >>)

\* SDU l + 1 is handed over.
LEMMA DeliverOne ==
    ASSUME NEW out \in Seq(Seq(Unit)), NEW v \in Seq(Unit), NEW l \in Nat, NEW b \in Nat, b = l + 1,
           NEW x, x = Append(out, v), Ordered(out, l), Piece(v, b, 0, TRUE)
    PROVE  x \in Seq(Seq(Unit)) /\ Ordered(x, b) /\ Grows(out, x) /\ HasAll(x, l, b)
<1> DEFINE ext == <<v>>
<1>1. ext \in Seq(Seq(Unit)) /\ Len(ext) = 1 /\ ext[1] = v BY SMT
<1>2. x = out \o ext BY AppendIsConcat
<1> HIDE DEF ext
<1>3. From(ext, l)
  <2>1. ASSUME NEW i \in 1 .. 1 PROVE i = 1 BY SMT
  <2>2. \A i \in 1 .. 1 : Piece(ext[i], l + i, 0, TRUE) BY <1>1, <2>1
  <2> QED BY <1>1, <2>2 DEF From
<1>4. l <= l BY SMT
<1> QED BY <1>1, <1>2, <1>3, <1>4, DeliverMore

LEMMA ReassemblyIs ==
    ASSUME NEW x \in Reassemblies, NEW v
    PROVE  [x EXCEPT !.rx_sdu = v, !.in = x.vr_ur] =
               [vr_ur |-> x.vr_ur, pdu_lost |-> x.pdu_lost, rx_sdu |-> v, in |-> x.vr_ur,
                window |-> x.window, out |-> x.out]
<1> DEFINE y == [x EXCEPT !.rx_sdu = v]
<1>1. [x EXCEPT !.rx_sdu = v, !.in = x.vr_ur] = [y EXCEPT !.in = x.vr_ur] BY DEF Reassemblies
<1>2. y = [vr_ur |-> x.vr_ur, pdu_lost |-> x.pdu_lost, rx_sdu |-> v, in |-> x.in,
           window |-> x.window, out |-> x.out]
  BY DEF Reassemblies
<1> HIDE DEF y
<1> QED BY <1>1, <1>2

\* The last segment of a PDU, behind what rx_sdu holds of the same SDU.
LEMMA LastGives ==
    ASSUME NEW p \in UmPdus, NEW c \in Cut, NEW d \in Cut, Carries(p, c, d),
           NEW m \in Nat, m = Len(p.segs), NEW l \in Nat, NEW b \in Nat, b = c.done + m, b = l + 1,
           NEW x \in Reassemblies, Ordered(x.out, l),
           NEW v \in Seq(Unit), v = x.rx_sdu \o p.segs[m], Piece(v, b, 0, p.end),
           ~p.end => Len(v) = d.k,
           NEW z, z = LastSegment(p, x)
    PROVE  /\ After(x, z, d)
           /\ ~x.pdu_lost /\ HasAll(x.out, c.done, l) => Complete(x, z, c, d)
<1> DEFINE y == [x EXCEPT !.rx_sdu = v, !.in = x.vr_ur]
<1>1. /\ p.end \in BOOLEAN /\ p.start \in BOOLEAN /\ x.out \in Seq(Seq(Unit)) /\ x.vr_ur \in SN
      /\ c.done \in Nat /\ c.k \in Nat /\ d.done \in Nat /\ d.k \in Nat /\ x.window \in Windows /\ x.pdu_lost \in BOOLEAN
  BY DEF UmPdus, Reassemblies, Cut
<1>2. y = [vr_ur |-> x.vr_ur, pdu_lost |-> x.pdu_lost, rx_sdu |-> v, in |-> x.vr_ur, window |-> x.window, out |-> x.out]
  BY ReassemblyIs
<1>3. z = IF p.end THEN Finished(p, y) ELSE y BY DEF LastSegment
<1> HIDE DEF y
<1>4. Grows(x.out, x.out) BY DEF Grows
<1>5. << >> \in Seq(Unit) /\ v # << >> BY EmptySeq DEF Piece
<1>6. CASE p.end
  <2>1. d.done = b /\ d.k = 0 BY <1>1, <1>6 DEF Carries
  <2>2. CASE y.pdu_lost /\ ~p.start
    <3>1. z = [vr_ur |-> x.vr_ur, pdu_lost |-> FALSE, rx_sdu |-> << >>, in |-> x.vr_ur, window |-> x.window, out |-> x.out]
      BY <1>2, <1>3, <1>6, <2>2 DEF Finished, Cleared, NothingLost
    <3>2. l <= b BY SMT
    <3>3. Ordered(x.out, b) BY <1>1, <3>2, OrderedUpTo
    <3>4. z \in Reassemblies BY <1>1, <1>5, <3>1 DEF Reassemblies
    <3>5. x.pdu_lost BY <1>2, <2>2
    <3> QED BY <1>4, <2>1, <3>1, <3>3, <3>4, <3>5 DEF After, Holds
  <2>3. CASE ~(y.pdu_lost /\ ~p.start)
    <3>0. PICK w : w = Append(x.out, v) OBVIOUS
    <3>1. z = [vr_ur |-> x.vr_ur, pdu_lost |-> FALSE, rx_sdu |-> << >>, in |-> x.vr_ur, window |-> x.window, out |-> w]
      BY <1>2, <1>3, <1>6, <2>3, <3>0 DEF Finished, Delivered, NothingLost
    <3>2. z.out \in Seq(Seq(Unit)) /\ Ordered(z.out, b) /\ Grows(x.out, z.out) /\ HasAll(z.out, l, b)
      <4>0. p.end = TRUE BY <1>1, <1>6
      <4>2. Piece(v, b, 0, TRUE) BY <4>0
      <4>1. z.out = Append(x.out, v)
        <5>1. z.out = w BY <3>1
        <5> QED BY <3>0, <5>1, Zenon
      <4> QED BY <1>1, <4>1, <4>2, DeliverOne
    <3>3. z \in Reassemblies BY <1>1, <1>5, <3>1, <3>2 DEF Reassemblies
    <3>4. After(x, z, d) BY <2>1, <3>1, <3>2, <3>3 DEF After, Holds
    <3>5. ASSUME HasAll(x.out, c.done, l) PROVE HasAll(z.out, c.done, b)
      <4>1. \A s \in Nat : s <= b => s <= l \/ l < s BY SMT
      <4> QED BY <3>2, <3>5, <4>1 DEF HasAll, Grows
    <3> QED BY <2>1, <3>1, <3>4, <3>5 DEF Complete
  <2> QED BY <2>2, <2>3
<1>7. CASE ~p.end
  <2>1. z = [vr_ur |-> x.vr_ur, pdu_lost |-> x.pdu_lost, rx_sdu |-> v, in |-> x.vr_ur, window |-> x.window, out |-> x.out]
    BY <1>2, <1>3, <1>7
  <2>2. d.done = l
    <3>1. d.done + 1 = c.done + m BY <1>7 DEF Carries
    <3>2. PICK q \in Nat : q = d.done /\ q + 1 = l + 1 BY <1>1, <3>1
    <3>3. q = l BY <3>2, SMT
    <3> QED BY <3>2, <3>3
  <2>3. z \in Reassemblies BY <1>1, <2>1 DEF Reassemblies
  <2>4. Holds(v, d)
    <3>1. Piece(v, d.done + 1, 0, FALSE)
      <4>1. p.end = FALSE BY <1>1, <1>7
      <4> QED BY <2>2, <4>1
    <3> QED BY <1>7, <3>1 DEF Holds
  <2>5. After(x, z, d) BY <1>4, <2>1, <2>2, <2>3, <2>4 DEF After
  <2>6. z.rx_sdu # << >> /\ z.out = x.out /\ z.pdu_lost = x.pdu_lost BY <1>5, <2>1
  <2> QED BY <1>1, <2>2, <2>5, <2>6 DEF Complete
<1> QED BY <1>1, <1>6, <1>7

LastNumber(g, h, m, e, l) ==
    l + 1 = g + m /\ g <= l /\ h = (IF e THEN l + 1 ELSE l) /\ l <= h /\ g <= h

LEMMA CutNumbers ==
    ASSUME NEW g \in Nat, NEW h \in Nat, NEW m \in Nat, m # 0, NEW e \in BOOLEAN,
           e => h = g + m, ~e => h + 1 = g + m
    PROVE  \E l \in Nat : LastNumber(g, h, m, e, l)
<1>1. (g + m) - 1 \in Nat /\ ((g + m) - 1) + 1 = g + m BY SMT
<1>2. PICK l \in Nat : l + 1 = g + m BY <1>1
<1>3. g <= l /\ h = (IF e THEN l + 1 ELSE l) /\ l <= h /\ g <= h BY <1>2, SMT
<1> QED BY <1>2, <1>3 DEF LastNumber

\* m segments, the last of SDU l + 1.
SegmentsEnd(p, c, d, m, l) ==
    /\ m = Len(p.segs) /\ m > 0 /\ l + 1 = c.done + m /\ c.done <= l
    /\ d.done = (IF p.end THEN l + 1 ELSE l) /\ l <= d.done /\ c.done <= d.done

\* A PDU with m segments ends m SDUs, or one less if its last goes on.
LEMMA CutsGrow ==
    ASSUME NEW p \in UmPdus, NEW c \in Cut, NEW d \in Cut, Carries(p, c, d)
    PROVE  \E m \in Nat, l \in Nat : SegmentsEnd(p, c, d, m, l)
<1>1. c.done \in Nat /\ d.done \in Nat /\ p.segs \in Seq(Seq(Unit)) /\ p.end \in BOOLEAN BY DEF UmPdus, Cut
<1>2. PICK m \in Nat : m = Len(p.segs) /\ m # 0 BY <1>1, EmptySeq, LenProperties DEF Carries
<1>3. (p.end => d.done = c.done + m) /\ (~p.end => d.done + 1 = c.done + m) BY <1>2 DEF Carries
<1>4. PICK g \in Nat, h \in Nat, e \in BOOLEAN : g = c.done /\ h = d.done /\ e = p.end BY <1>1
<1>5. (e => h = g + m) /\ (~e => h + 1 = g + m) BY <1>3, <1>4
<1>6. PICK l \in Nat : LastNumber(g, h, m, e, l)
  <2>1. m # 0 BY <1>2
  <2> QED BY <1>5, <2>1, CutNumbers
<1>7. m > 0 BY <1>2, SMT
<1> QED BY <1>2, <1>4, <1>6, <1>7 DEF SegmentsEnd, LastNumber

\* The last segment behind what the loop over the length indicators leaves.
Ends(p, d, b, v) == v \in Seq(Unit) /\ Piece(v, b, 0, p.end) /\ (~p.end => Len(v) = d.k)

\* Behind what the loop leaves, the last segment is a first part of its SDU.
LEMMA LastPart ==
    ASSUME NEW p \in UmPdus, NEW c \in Cut, NEW d \in Cut, Carries(p, c, d),
           NEW m \in Nat, m = Len(p.segs), m > 0, NEW b \in Nat, b = c.done + m,
           NEW r \in Reassemblies, Holds(r.rx_sdu, c), m = 1 => ~StartLost(p, r),
           NEW u, m = 1 => u = r.rx_sdu, m # 1 => u = << >>, NEW v, v = u \o p.segs[m]
    PROVE  Ends(p, d, b, v)
<1>1. /\ c.done \in Nat /\ d.done \in Nat /\ c.k \in Nat /\ d.k \in Nat /\ p.segs \in Seq(Seq(Unit))
      /\ p.end \in BOOLEAN /\ r.rx_sdu \in Seq(Unit)
  BY DEF UmPdus, Cut, Reassemblies
<1>2. m \in 1 .. m BY SMT
<1>3. p.segs[m] \in Seq(Unit) BY <1>1, <1>2, ElementOfSeq
<1>4. CASE m = 1
  <2>1. u = r.rx_sdu /\ v = u \o p.segs[1] BY <1>4
  <2>2. ~(u = << >> /\ ~p.start) BY <1>4, <2>1 DEF StartLost
  <2>3. p.end = (1 < Len(p.segs) \/ p.end)
    <3>1. ~(1 < m) BY <1>4, SMT
    <3> QED BY <1>1, <3>1
  <2>4. v \in Seq(Unit) /\ Piece(v, c.done + 1, 0, p.end) /\ Len(v) = c.k + Len(p.segs[1])
    BY <1>1, <2>1, <2>2, <2>3, FirstPart
  <2>5. ~p.end => d.k = c.k + Len(p.segs[1]) BY <1>4 DEF Carries
  <2> QED BY <1>4, <2>4, <2>5 DEF Ends
<1>5. CASE m # 1
  <2>1. v = p.segs[m] BY <1>3, <1>5, ConcatEmptySeq
  <2>2. Piece(p.segs[m], b, 0, p.end)
    <3>1. (m < m \/ p.end) = p.end
      <4>1. ~(m < m) BY SMT
      <4> QED BY <1>1, <4>1
    <3> QED BY <1>2, <1>5, <3>1 DEF Carries
  <2>3. ~p.end => d.k = 0 + Len(p.segs[m]) BY <1>5 DEF Carries
  <2>4. Len(p.segs[m]) \in Nat BY <1>3, LenProperties
  <2>5. 0 + Len(p.segs[m]) = Len(p.segs[m]) BY <2>4, SMT
  <2> QED BY <1>3, <2>1, <2>2, <2>3, <2>5 DEF Ends
<1> QED BY <1>4, <1>5

\* One change after the other.
LEMMA AfterBoth ==
    ASSUME NEW r, NEW x, NEW z, NEW d, x.vr_ur = r.vr_ur, x.window = r.window, Grows(r.out, x.out),
           After(x, z, d)
    PROVE  After(r, z, d)
BY DEF After, Grows

\* A PDU below the window leaves the receiver at the cut behind it.
LEMMA LowerEdgeGives ==
    ASSUME NEW p \in UmPdus, NEW c \in Cut, NEW d \in Cut, Carries(p, c, d),
           NEW r \in Reassemblies, Ordered(r.out, c.done), Holds(r.rx_sdu, c),
           NEW z, z = LowerEdgePdu(p, r)
    PROVE  After(r, z, d)
<1>0. PICK m \in Nat, l \in Nat : SegmentsEnd(p, c, d, m, l) BY CutsGrow
<1>1. /\ m = Len(p.segs) /\ m > 0 /\ l + 1 = c.done + m /\ c.done <= l
      /\ d.done = (IF p.end THEN l + 1 ELSE l) /\ l <= d.done /\ c.done <= d.done
  BY <1>0 DEF SegmentsEnd
<1>7. PICK first, x : first = FirstKept(p, r) /\ x = MiddleSegments(p, r, first) OBVIOUS
<1>2. z = IF StartLost(p, r) THEN r ELSE IF StartLost(p, x) THEN x ELSE LastSegment(p, x)
  BY <1>7 DEF LowerEdgePdu
<1>3. first \in {1, 2, m} BY <1>1, <1>7 DEF FirstKept
<1>4. r.out \in Seq(Seq(Unit)) /\ c.done \in Nat /\ d.done \in Nat BY DEF Reassemblies, Cut
<1>5. CASE StartLost(p, r)
  <2>1. z = r /\ r.rx_sdu = << >> BY <1>2, <1>5 DEF StartLost
  <2>2. Ordered(r.out, d.done) BY <1>1, <1>4, OrderedUpTo
  <2> QED BY <2>1, <2>2 DEF After, Grows, Holds
<1>6. CASE ~StartLost(p, r)
  <2>1. /\ x \in Reassemblies /\ x.vr_ur = r.vr_ur /\ x.window = r.window
        /\ (m = 1 => x.rx_sdu = r.rx_sdu) /\ (m # 1 => x.rx_sdu = << >>)
        /\ Ordered(x.out, l) /\ Grows(r.out, x.out)
    <3>1. /\ m = Len(p.segs) /\ l + 1 = c.done + m /\ first \in {1, 2, m} /\ (first = 1 => ~StartLost(p, r))
          /\ x = MiddleSegments(p, r, first)
      BY <1>1, <1>3, <1>6, <1>7
    <3>2. Middle(r, x, c, m, l, first) BY <3>1, MiddleDelivers
    <3> QED BY <3>2 DEF Middle
  <2>2. CASE StartLost(p, x)
    <3>1. z = x /\ x.rx_sdu = << >> BY <1>2, <1>6, <2>2 DEF StartLost
    <3>2. Ordered(x.out, d.done)
      <4>1. x.out \in Seq(Seq(Unit)) BY <2>1 DEF Reassemblies
      <4> QED BY <1>1, <1>4, <2>1, <4>1, OrderedUpTo
    <3> QED BY <2>1, <3>1, <3>2 DEF After, Holds
  <2>3. CASE ~StartLost(p, x)
    <3>1. z = LastSegment(p, x) BY <1>2, <1>6, <2>3
    <3>2. PICK b \in Nat : b = l + 1 /\ b = c.done + m
      <4>1. l + 1 \in Nat BY <1>1, SMT
      <4> QED BY <1>1, <4>1
    <3>20. PICK v : v = x.rx_sdu \o p.segs[m] OBVIOUS
    <3>3. v \in Seq(Unit) /\ Piece(v, b, 0, p.end) /\ (~p.end => Len(v) = d.k)
      <4>1. /\ m = Len(p.segs) /\ m > 0 /\ b = c.done + m /\ (m = 1 => ~StartLost(p, r))
            /\ (m = 1 => x.rx_sdu = r.rx_sdu) /\ (m # 1 => x.rx_sdu = << >>) /\ v = x.rx_sdu \o p.segs[m]
        BY <1>1, <1>6, <2>1, <3>2, <3>20
      <4>2. PICK u : u = x.rx_sdu OBVIOUS
      <4>3. (m = 1 => u = r.rx_sdu) /\ (m # 1 => u = << >>) /\ v = u \o p.segs[m] BY <4>1, <4>2
      <4>4. Ends(p, d, b, v) BY <4>1, <4>3, LastPart
      <4> QED BY <4>4 DEF Ends
    <3>4. After(x, z, d) BY <1>1, <2>1, <3>1, <3>2, <3>20, <3>3, LastGives
    <3> QED BY <2>1, <3>4, AfterBoth
  <2> QED BY <2>2, <2>3
<1> QED BY <1>5, <1>6

\* So does a PDU in sequence, and it loses nothing if nothing was lost before it.
LEMMA InSequenceGives ==
    ASSUME NEW p \in UmPdus, NEW c \in Cut, NEW d \in Cut, Carries(p, c, d),
           NEW r \in Reassemblies, Ordered(r.out, c.done), Holds(r.rx_sdu, c),
           NEW z, z = InSequencePdu(p, r)
    PROVE  After(r, z, d) /\ (~r.pdu_lost /\ ~StartLost(p, r) => Complete(r, z, c, d))
<1>0. PICK m \in Nat, l \in Nat : SegmentsEnd(p, c, d, m, l) BY CutsGrow
<1>1. /\ m = Len(p.segs) /\ m > 0 /\ l + 1 = c.done + m /\ c.done <= l
      /\ d.done = (IF p.end THEN l + 1 ELSE l) /\ l <= d.done /\ c.done <= d.done
  BY <1>0 DEF SegmentsEnd
<1>7. PICK first, x : first = (IF StartLost(p, r) THEN 2 ELSE 1) /\ x = MiddleSegments(p, r, first) OBVIOUS
<1>2. z = IF StartLost(p, r) /\ m = 1 THEN r ELSE LastSegment(p, x)
  BY <1>1, <1>7 DEF InSequencePdu
<1>3. first \in {1, 2, m} /\ (first = 1 => ~StartLost(p, r)) /\ (~StartLost(p, r) => first = 1)
  BY <1>7, SMT
<1>4. r.out \in Seq(Seq(Unit)) /\ r.pdu_lost \in BOOLEAN /\ c.done \in Nat /\ d.done \in Nat
  BY DEF Reassemblies, Cut
<1>5. CASE StartLost(p, r) /\ m = 1
  <2>1. z = r /\ r.rx_sdu = << >> BY <1>2, <1>5 DEF StartLost
  <2>2. Ordered(r.out, d.done) BY <1>1, <1>4, OrderedUpTo
  <2> QED BY <1>5, <2>1, <2>2 DEF After, Grows, Holds
<1>6. CASE ~(StartLost(p, r) /\ m = 1)
  <2>1. /\ x \in Reassemblies /\ x.vr_ur = r.vr_ur /\ x.window = r.window
        /\ (m = 1 => x.rx_sdu = r.rx_sdu) /\ (m # 1 => x.rx_sdu = << >>)
        /\ x.pdu_lost = (r.pdu_lost /\ m = 1)
        /\ Ordered(x.out, l) /\ Grows(r.out, x.out)
        /\ (first = 1 => HasAll(x.out, c.done, l))
    <3>1. /\ m = Len(p.segs) /\ l + 1 = c.done + m /\ first \in {1, 2, m} /\ (first = 1 => ~StartLost(p, r))
          /\ x = MiddleSegments(p, r, first)
      BY <1>1, <1>3, <1>6, <1>7
    <3>2. Middle(r, x, c, m, l, first) BY <3>1, MiddleDelivers
    <3> QED BY <3>2 DEF Middle
  <2>2. z = LastSegment(p, x) BY <1>2, <1>6
  <2>3. PICK b \in Nat : b = l + 1 /\ b = c.done + m
    <3>1. l + 1 \in Nat BY <1>1, SMT
    <3> QED BY <1>1, <3>1
  <2>30. PICK v : v = x.rx_sdu \o p.segs[m] OBVIOUS
  <2>4. v \in Seq(Unit) /\ Piece(v, b, 0, p.end) /\ (~p.end => Len(v) = d.k)
    <3>1. /\ m = Len(p.segs) /\ m > 0 /\ b = c.done + m /\ (m = 1 => ~StartLost(p, r))
          /\ (m = 1 => x.rx_sdu = r.rx_sdu) /\ (m # 1 => x.rx_sdu = << >>) /\ v = x.rx_sdu \o p.segs[m]
      BY <1>1, <1>6, <2>1, <2>3, <2>30
    <3>2. PICK u : u = x.rx_sdu OBVIOUS
    <3>3. (m = 1 => u = r.rx_sdu) /\ (m # 1 => u = << >>) /\ v = u \o p.segs[m] BY <3>1, <3>2
    <3>4. Ends(p, d, b, v) BY <3>1, <3>3, LastPart
    <3> QED BY <3>4 DEF Ends
  <2>5. After(x, z, d) /\ (~x.pdu_lost /\ HasAll(x.out, c.done, l) => Complete(x, z, c, d))
    BY <1>1, <2>1, <2>2, <2>3, <2>30, <2>4, LastGives
  <2>6. After(r, z, d) BY <2>1, <2>5, AfterBoth
  <2>7. ASSUME ~r.pdu_lost, ~StartLost(p, r) PROVE Complete(r, z, c, d)
    <3>1. ~x.pdu_lost BY <2>1, <2>7
    <3>2. Complete(x, z, c, d) BY <1>3, <2>1, <2>5, <2>7, <3>1
    <3> QED BY <3>2 DEF Complete
  <2> QED BY <2>6, <2>7
<1> QED BY <1>5, <1>6

-----------------------------------------------------------------------------
(***************************************************************************)
(* reassemble_rx_sdus.  While it runs these do not change: the number that *)
(* is vr_uh, one it does not pass because it is not in the window, one     *)
(* below which it does not start, the PDUs sent with the cuts between      *)
(* them, those under way and the SDUs that lost something.                 *)
(***************************************************************************)
Settings == [high : Nat, stop : Nat, low : Int, sent : Nat, cut : [Nat -> Cut],
             gone : SUBSET Nat, bad : SUBSET Nat]

CutsInOrder(cut) == \A a, b \in Nat : a <= b => cut[a].done <= cut[b].done

Set(e) == /\ e \in Settings /\ CutsInOrder(e.cut)
          /\ e.stop <= e.high /\ e.high - WINDOW <= e.stop

\* PDU n is in window w.
Stored(w, n) == n % MOD \in DOMAIN w /\ w[n % MOD].n = n

\* The window holds PDUs between low and high.
InWindow(e, w, low) ==
    \A sn \in DOMAIN w :
        /\ w[sn].n % MOD = sn /\ low <= w[sn].n /\ w[sn].n < e.high /\ w[sn].n < e.sent
        /\ Carries(w[sn], e.cut[w[sn].n], e.cut[w[sn].n + 1])

\* What is known of a PDU that did not arrive.
Astray(e, n) == n \in e.gone \/ e.cut[n].done + 1 \in e.bad \/ 1 \in e.bad

Accounted(e, w, u) == \A n \in Nat : u <= n /\ n < e.sent => Stored(w, n) \/ Astray(e, n)

\* rx_sdu holds what some PDU i before u left over.
HoldsFrom(e, r, u, i) ==
    /\ e.low <= i /\ i < u /\ u <= i + WINDOW /\ i < e.sent
    /\ r.in = i % MOD /\ Holds(r.rx_sdu, e.cut[i + 1])

Holding(e, r, u) == r.rx_sdu # << >> => \E i \in Nat : HoldsFrom(e, r, u, i)

\* r is a state of the receiver in which vr_ur is PDU u.
Basic(e, r, u) ==
    /\ r.vr_ur = u % MOD /\ e.high - MOD <= u /\ e.low <= u /\ u <= e.stop
    /\ InWindow(e, r.window, u)
    /\ u < e.high => (e.high - 1) % MOD \in DOMAIN r.window
    /\ e.stop % MOD \notin DOMAIN r.window
    /\ Holding(e, r, u)
    /\ Ordered(r.out, e.cut[u].done)
    /\ Accounted(e, r.window, u)

\* All SDUs are delivered before one that lost something or will.
Doomed(e, r, u) ==
    \E a \in Nat : /\ HasAll(r.out, 0, a)
                   /\ a + 1 \in e.bad \/ \E n \in e.gone : n < u /\ e.cut[n].done = a

\* All SDUs are delivered that are in the PDUs before u.
UpToDate(e, r, u) == HasAll(r.out, 0, e.cut[u].done)

\* ... and what was cut off is kept.
Clean(e, r, u) == /\ UpToDate(e, r, u) /\ u <= e.sent /\ ~r.pdu_lost
                  /\ e.cut[u].k # 0 => r.rx_sdu # << >> /\ r.vr_ur = Plus(r.in, 1)

Prog(e, r, u) == Doomed(e, r, u) \/ Clean(e, r, u)

LEMMA SettingsType ==
    ASSUME NEW e, Set(e)
    PROVE  /\ e.high \in Nat /\ e.stop \in Nat /\ e.low \in Int /\ e.sent \in Nat
           /\ \A n \in Nat : e.cut[n] \in Cut /\ e.cut[n].done \in Nat /\ e.cut[n].k \in Nat
           /\ e.gone \in SUBSET Nat /\ e.bad \in SUBSET Nat
           /\ e.stop <= e.high /\ e.high - WINDOW <= e.stop
BY DEF Set, Settings, Cut

LEMMA WindowType ==
    ASSUME NEW r \in Reassemblies
    PROVE  r.window \in Windows /\ DOMAIN r.window \subseteq SN /\ \A sn \in DOMAIN r.window : r.window[sn] \in UmPdus /\ r.window[sn].n \in Nat
<1>1. r.window \in Windows BY DEF Reassemblies
<1>2. PICK D \in SUBSET SN : r.window \in [D -> UmPdus] BY <1>1 DEF Windows
<1> QED BY <1>1, <1>2 DEF UmPdus

\* x is w without S.
IsWithout(w, S, x) == /\ x \in Windows /\ DOMAIN x = DOMAIN w \ S
                      /\ \A sn \in DOMAIN x : x[sn] = w[sn]

LEMMA WithoutType ==
    ASSUME NEW w \in Windows, NEW S
    PROVE  IsWithout(w, S, Without(w, S))
<1>1. PICK D \in SUBSET SN : w \in [D -> UmPdus] BY DEF Windows
<1>2. Without(w, S) \in [D \ S -> UmPdus] BY <1>1 DEF Without
<1>3. D \ S \in SUBSET SN BY <1>1
<1> QED BY <1>1, <1>2, <1>3 DEF Windows, Without, IsWithout

\* x is w with p at sn.
IsWith(w, sn, p, x) == /\ x \in Windows /\ DOMAIN x = DOMAIN w \cup {sn} /\ x[sn] = p
                       /\ \A y \in DOMAIN w : y # sn => x[y] = w[y]

LEMMA WithType ==
    ASSUME NEW w \in Windows, NEW sn \in SN, NEW p \in UmPdus
    PROVE  IsWith(w, sn, p, With(w, sn, p))
<1>1. PICK D \in SUBSET SN : w \in [D -> UmPdus] BY DEF Windows
<1>2. With(w, sn, p) \in [D \cup {sn} -> UmPdus] BY <1>1 DEF With
<1>3. D \cup {sn} \in SUBSET SN BY <1>1
<1> QED BY <1>1, <1>2, <1>3 DEF Windows, With, IsWith

\* The PDU at a number that is less than MOD below vr_uh.
LEMMA StoredAt ==
    ASSUME NEW e, Set(e), NEW r \in Reassemblies, NEW u \in Nat, InWindow(e, r.window, u),
           NEW n \in Nat, u <= n, e.high - MOD <= u, n < e.high, n % MOD \in DOMAIN r.window
    PROVE  /\ r.window[n % MOD].n = n /\ n < e.sent /\ r.window[n % MOD] \in UmPdus
           /\ Carries(r.window[n % MOD], e.cut[n], e.cut[n + 1])
<1>1. PICK h \in Nat, q \in Nat : h = e.high /\ q = r.window[n % MOD].n BY SettingsType, WindowType
<1>2. q % MOD = n % MOD /\ u <= q /\ q < h BY <1>1 DEF InWindow
<1>3. q = n
  <2>0. h - MOD <= u /\ n < h /\ MOD \in Nat BY <1>1, Sizes
  <2>1. q - n < MOD /\ n - q < MOD
    <3>1. \A x, y \in Nat : u <= x /\ y < h => y - x < MOD BY <2>0, SMT
    <3> QED BY <1>2, <2>0, <3>1
  <2> QED BY <1>2, <2>1, SnSame
<1> QED BY <1>1, <1>3, WindowType DEF InWindow

\* Below vr_uh all PDUs were sent.
LEMMA SentBelow ==
    ASSUME NEW e, Set(e), NEW r \in Reassemblies, NEW u \in Nat, Basic(e, r, u), u < e.high
    PROVE  e.high <= e.sent /\ u < e.sent
<1>1. PICK h \in Nat, s \in Nat, t \in Nat : h = e.high /\ s = e.sent /\ t + 1 = h
  <2>1. e.high \in Nat /\ e.sent \in Nat BY SettingsType
  <2>2. e.high - 1 \in Nat /\ (e.high - 1) + 1 = e.high BY <2>1, SMT
  <2> QED BY <2>1, <2>2
<1>2. u <= t /\ t < h /\ h - 1 = t BY <1>1, SMT
<1>3. t % MOD \in DOMAIN r.window BY <1>1, <1>2 DEF Basic
<1>4. t < e.sent BY <1>1, <1>2, <1>3, StoredAt DEF Basic
<1>5. t < s BY <1>1, <1>4
<1>6. h <= s /\ u < s BY <1>1, <1>2, <1>5, SMT
<1> QED BY <1>1, <1>6

LEMMA NextSn ==
    ASSUME NEW u \in Nat, NEW v \in Nat, v = u + 1
    PROVE  Plus(u % MOD, 1) = v % MOD /\ v % MOD \in SN
<1>1. u \in Int /\ 1 \in Int /\ v \in Int BY SMT
<1>2. Plus(u % MOD, 1) = (u + 1) % MOD BY <1>1, SnPlus
<1> QED BY <1>1, <1>2, SnType

WindowMoved(e, r, v, w) ==
    /\ w \in Windows /\ e.high - MOD <= v /\ e.low <= v /\ v <= e.stop
    /\ InWindow(e, w, v) /\ (v < e.high => (e.high - 1) % MOD \in DOMAIN w)
    /\ e.stop % MOD \notin DOMAIN w
    /\ \A n \in Nat : v <= n /\ Stored(r.window, n) => Stored(w, n)

\* The window without the PDU at its lower edge, if there is one.
LEMMA WindowMoves ==
    ASSUME NEW e, Set(e), NEW r \in Reassemblies, NEW u \in Nat, NEW v \in Nat, v = u + 1,
           Basic(e, r, u), u # e.stop, NEW w, w = Without(r.window, {u % MOD})
    PROVE  WindowMoved(e, r, v, w)
<1>1. w \in Windows /\ DOMAIN w = DOMAIN r.window \ {u % MOD} /\ \A sn \in DOMAIN w : w[sn] = r.window[sn]
  <2>1. r.window \in Windows BY WindowType
  <2>2. IsWithout(r.window, {u % MOD}, w) BY <2>1, WithoutType
  <2> QED BY <2>2 DEF IsWithout
<1>2. PICK h \in Nat, s \in Nat, l \in Int : h = e.high /\ s = e.stop /\ l = e.low BY SettingsType
<1>3. h - MOD <= u /\ l <= u /\ u <= s /\ s <= h /\ u # s BY <1>2, SettingsType DEF Basic
<1>4. h - MOD <= v /\ l <= v /\ v <= s BY <1>3, Sizes, SMT
<1>5. ASSUME NEW sn \in DOMAIN w PROVE v <= w[sn].n
  <2>1. sn \in DOMAIN r.window /\ w[sn] = r.window[sn] /\ sn # u % MOD BY <1>1
  <2>2. PICK n \in Nat : n = w[sn].n BY <2>1, WindowType
  <2>3. n % MOD = sn /\ u <= n BY <2>1, <2>2 DEF Basic, InWindow
  <2>4. n # u BY <2>1, <2>3
  <2>5. v <= n BY <2>3, <2>4, SMT
  <2> QED BY <2>2, <2>5
<1>6. InWindow(e, w, v) BY <1>1, <1>5 DEF Basic, InWindow
<1>7. ASSUME v < h PROVE (h - 1) % MOD \in DOMAIN w
  <2>1. PICK t \in Int : t = h - 1 BY <1>2, SMT
  <2>2. t # u /\ t - u < MOD /\ u - t < MOD BY <1>3, <1>7, <2>1, Sizes, SMT
  <2>3. t % MOD # u % MOD BY <2>1, <2>2, SnSame
  <2>4. t % MOD \in DOMAIN r.window
    <3>1. u < h BY <1>7, SMT
    <3> QED BY <1>2, <2>1, <3>1 DEF Basic
  <2> QED BY <1>1, <2>1, <2>3, <2>4
<1>8. ASSUME NEW n \in Nat, v <= n, Stored(r.window, n) PROVE Stored(w, n)
  <2>1. n % MOD # u % MOD
    <3>1. ASSUME n % MOD = u % MOD PROVE FALSE
      <4>1. r.window[u % MOD].n = n /\ u % MOD \in DOMAIN r.window BY <1>8, <3>1 DEF Stored
      <4>2. u < h BY <1>3, SMT
      <4>3. r.window[u % MOD].n = u
        <5>1. u <= u BY SMT
        <5> QED BY <1>2, <1>3, <4>1, <4>2, <5>1, StoredAt DEF Basic
      <4> QED BY <1>8, <4>1, <4>3, SMT
    <3> QED BY <3>1
  <2> QED BY <1>1, <1>8, <2>1 DEF Stored
<1>9. e.stop % MOD \notin DOMAIN w BY <1>1 DEF Basic
<1> QED BY <1>1, <1>2, <1>4, <1>6, <1>7, <1>8, <1>9 DEF WindowMoved

\* vr_ur moves past PDU u.
LEMMA Moves ==
    ASSUME NEW e, Set(e), NEW r \in Reassemblies, NEW u \in Nat, NEW v \in Nat, v = u + 1,
           Basic(e, r, u), u # e.stop,
           u % MOD \notin DOMAIN r.window => Astray(e, u) \/ e.sent <= u,
           NEW z \in Reassemblies, z.vr_ur = r.vr_ur, z.window = r.window, Ordered(z.out, e.cut[v].done),
           z.rx_sdu # << >> => z.in = r.vr_ur /\ Holds(z.rx_sdu, e.cut[v]) /\ u < e.sent,
           NEW y, y = Advanced(z)
    PROVE  y \in Reassemblies /\ Basic(e, y, v) /\ y.out = z.out /\ y.rx_sdu = z.rx_sdu
           /\ y.in = z.in /\ y.pdu_lost = z.pdu_lost
<1> DEFINE w == Without(r.window, {u % MOD})
<1>1. /\ w \in Windows /\ e.high - MOD <= v /\ e.low <= v /\ v <= e.stop
      /\ InWindow(e, w, v) /\ (v < e.high => (e.high - 1) % MOD \in DOMAIN w)
      /\ e.stop % MOD \notin DOMAIN w
      /\ \A n \in Nat : v <= n /\ Stored(r.window, n) => Stored(w, n)
  <2>1. WindowMoved(e, r, v, w) BY WindowMoves
  <2> HIDE DEF w
  <2> QED BY <2>1 DEF WindowMoved
<1> HIDE DEF w
<1>2. r.vr_ur = u % MOD /\ e.low <= u BY DEF Basic
<1>3. Plus(r.vr_ur, 1) = v % MOD /\ v % MOD \in SN BY <1>2, NextSn
<1>4. /\ y.window = w /\ y.vr_ur = v % MOD /\ y.out = z.out /\ y.rx_sdu = z.rx_sdu /\ y.in = z.in
      /\ y.pdu_lost = z.pdu_lost
      /\ y = [vr_ur |-> y.vr_ur, pdu_lost |-> y.pdu_lost, rx_sdu |-> y.rx_sdu, in |-> y.in, window |-> y.window, out |-> y.out]
  <2>1. Without(z.window, {z.vr_ur}) = w BY <1>2 DEF w
  <2>2. Plus(z.vr_ur, 1) = v % MOD BY <1>3
  <2>3. y = [z EXCEPT !.window = Without(z.window, {z.vr_ur}), !.vr_ur = Plus(z.vr_ur, 1)] BY DEF Advanced
  <2> QED BY <2>1, <2>2, <2>3 DEF Reassemblies
<1>5. y \in Reassemblies
  <2>1. z.pdu_lost \in BOOLEAN /\ z.rx_sdu \in Seq(Unit) /\ z.in \in SN /\ z.out \in Seq(Seq(Unit))
    BY DEF Reassemblies
  <2>2. /\ y.vr_ur \in SN /\ y.pdu_lost \in BOOLEAN /\ y.rx_sdu \in Seq(Unit) /\ y.in \in SN /\ y.out \in Seq(Seq(Unit))
        /\ y.window \in Windows
    BY <1>1, <1>3, <1>4, <2>1
  <2> QED BY <1>4, <2>2 DEF Reassemblies
<1>6. Holding(e, y, v)
  <2>1. SUFFICES ASSUME z.rx_sdu # << >> PROVE HoldsFrom(e, y, v, u)
    BY <1>4 DEF Holding
  <2>2. u < v /\ v <= u + WINDOW BY Sizes, SMT
  <2> QED BY <1>2, <1>4, <2>1, <2>2 DEF HoldsFrom
<1>7. Accounted(e, w, v)
  <2> SUFFICES ASSUME NEW n \in Nat, v <= n, n < e.sent PROVE Stored(w, n) \/ Astray(e, n)
    BY DEF Accounted
  <2>1. u <= n BY SMT
  <2>2. Stored(r.window, n) \/ Astray(e, n) BY <2>1 DEF Basic, Accounted
  <2> QED BY <1>1, <2>2
<1>8. Basic(e, y, v) BY <1>1, <1>4, <1>6, <1>7 DEF Basic
<1> QED BY <1>4, <1>5, <1>8

\* What was lost stays lost.
LEMMA DoomedStays ==
    ASSUME NEW e, Set(e), NEW r, NEW y, NEW u \in Nat, NEW v \in Nat, u <= v, Doomed(e, r, u), Grows(r.out, y.out)
    PROVE  Doomed(e, y, v)
<1>1. PICK a \in Nat : /\ HasAll(r.out, 0, a)
                       /\ a + 1 \in e.bad \/ \E n \in e.gone : n < u /\ e.cut[n].done = a
  BY DEF Doomed
<1>2. HasAll(y.out, 0, a) BY <1>1 DEF HasAll, Grows
<1>3. ASSUME NEW n \in e.gone, n < u, e.cut[n].done = a PROVE n < v
  <2>1. n \in Nat BY SettingsType
  <2> QED BY <1>3, <2>1, SMT
<1> QED BY <1>1, <1>2, <1>3 DEF Doomed

\* An SDU that begins or goes on in a PDU that did not arrive.
LEMMA AstrayDooms ==
    ASSUME NEW e, Set(e), NEW r, NEW y, NEW u \in Nat, NEW v \in Nat, v = u + 1, Astray(e, u),
           Doomed(e, r, u) \/ UpToDate(e, r, u), Grows(r.out, y.out)
    PROVE  Doomed(e, y, v)
<1>1. u <= v /\ u < v BY SMT
<1>2. CASE Doomed(e, r, u) BY <1>1, <1>2, DoomedStays
<1>3. CASE UpToDate(e, r, u)
  <2>1. PICK a \in Nat : a = e.cut[u].done BY SettingsType
  <2>2. HasAll(y.out, 0, a) BY <1>3, <2>1 DEF UpToDate, HasAll, Grows
  <2>3. CASE u \in e.gone BY <1>1, <2>1, <2>2, <2>3 DEF Doomed
  <2>4. CASE a + 1 \in e.bad BY <2>2, <2>4 DEF Doomed
  <2>5. CASE 1 \in e.bad
    <3>1. HasAll(y.out, 0, 0) /\ 0 + 1 \in e.bad /\ 0 \in Nat
      <4>1. \A s \in Nat : ~(0 < s /\ s <= 0) BY SMT
      <4>2. 0 + 1 = 1 BY SMT
      <4> QED BY <2>5, <4>1, <4>2 DEF HasAll
    <3> QED BY <3>1 DEF Doomed
  <2> QED BY <2>1, <2>3, <2>4, <2>5 DEF Astray
<1> QED BY <1>2, <1>3

\* The receiver catches up only with a PDU that goes on where rx_sdu ends.
LowEntry(e, r, u) ==
    u < e.high - WINDOW /\ u % MOD \in DOMAIN r.window => Doomed(e, r, u) /\ Holds(r.rx_sdu, e.cut[u])

\* inside_reordering_window(vr_ur), in numbers that do not wrap.
LEMMA InsideIs ==
    ASSUME NEW e, Set(e), NEW r \in Reassemblies, NEW u \in Nat, Basic(e, r, u)
    PROVE  InsideFor(e.high % MOD, r.window, r.vr_ur) <=> e.high - WINDOW <= u
<1>1. PICK h \in Nat, s \in Nat : h = e.high /\ s = e.stop /\ s <= h /\ u <= s /\ h - MOD <= u
  BY SettingsType DEF Basic
<1>2. u <= h BY <1>1, SMT
<1>3. Offset(h % MOD, Plus(h % MOD, WINDOW)) = WINDOW
  <2>1. h - (WINDOW + MOD) <= h /\ h < h + WINDOW /\ h - WINDOW <= h /\ (h - h) + WINDOW = WINDOW
    BY Sizes, SMT
  <2> QED BY <2>1, Ahead
<1>4. CASE u = h
  <2>1. ASSUME NEW sn \in DOMAIN r.window PROVE FALSE
    <3>1. PICK n \in Nat : n = r.window[sn].n BY WindowType
    <3>2. u <= n /\ n < h BY <1>1, <3>1 DEF Basic, InWindow
    <3> QED BY <1>4, <3>2, SMT
  <2>2. DOMAIN r.window = {} BY <2>1
  <2>3. h - WINDOW <= u BY <1>4, Sizes, SMT
  <2> QED BY <1>1, <2>2, <2>3 DEF InsideFor
<1>5. CASE u < h
  <2>1. DOMAIN r.window # {} BY <1>1, <1>5 DEF Basic
  <2>2. h - (WINDOW + MOD) <= u /\ u < h + WINDOW BY <1>1, <1>5, Sizes, SMT
  <2>3. Offset(u % MOD, Plus(h % MOD, WINDOW)) = IF h - WINDOW <= u THEN (u - h) + WINDOW ELSE ((u - h) + WINDOW) + MOD
    BY <2>2, Ahead
  <2>4. IF h - WINDOW <= u THEN (u - h) + WINDOW < WINDOW ELSE ~(((u - h) + WINDOW) + MOD < WINDOW)
    BY <1>1, <1>5, Sizes, SMT
  <2>5. Offset(u % MOD, Plus(h % MOD, WINDOW)) < WINDOW <=> h - WINDOW <= u BY <2>3, <2>4
  <2>6. r.vr_ur = u % MOD BY DEF Basic
  <2> QED BY <1>1, <1>3, <2>1, <2>5, <2>6 DEF InsideFor
<1> QED BY <1>2, <1>4, <1>5, SMT

\* What is not in the window at its lower edge.
LEMMA MissingAstray ==
    ASSUME NEW e, Set(e), NEW r \in Reassemblies, NEW u \in Nat, Basic(e, r, u), u < e.sent,
           u % MOD \notin DOMAIN r.window
    PROVE  Astray(e, u)
<1>1. u <= u BY SMT
<1> QED BY <1>1 DEF Basic, Accounted, Stored

\* What is in order up to one cut is in order up to the next.
LEMMA CutsStep ==
    ASSUME NEW e, Set(e), NEW r \in Reassemblies, NEW u \in Nat, NEW v \in Nat, v = u + 1, Basic(e, r, u)
    PROVE  Ordered(r.out, e.cut[v].done)
<1>1. u <= v BY SMT
<1>2. e.cut[u].done <= e.cut[v].done BY <1>1 DEF Set, CutsInOrder
<1>3. e.cut[u].done \in Nat /\ e.cut[v].done \in Nat /\ r.out \in Seq(Seq(Unit))
  BY SettingsType DEF Reassemblies
<1>4. Ordered(r.out, e.cut[u].done) BY DEF Basic
<1> QED BY <1>2, <1>3, <1>4, OrderedUpTo

LEMMA ClearedType ==
    ASSUME NEW r \in Reassemblies, NEW x, x = Cleared(r)
    PROVE  x \in Reassemblies /\ x.vr_ur = r.vr_ur /\ x.window = r.window /\ x.out = r.out /\ x.rx_sdu = << >>
           /\ x.in = r.in /\ x.pdu_lost = r.pdu_lost
<1>1. << >> \in Seq(Unit) BY EmptySeq
<1> QED BY <1>1 DEF Cleared, Reassemblies

\* A round of the first loop, for a number below the window.
LEMMA LowerEdgeStepKeeps ==
    ASSUME NEW e, Set(e), NEW r \in Reassemblies, NEW u \in Nat, NEW v \in Nat, v = u + 1,
           Basic(e, r, u), Prog(e, r, u), LowEntry(e, r, u), u < e.high - WINDOW,
           NEW z, z = LowerEdgeStep(e.high % MOD, r)
    PROVE  z \in Reassemblies /\ Basic(e, z, v) /\ Doomed(e, z, v) /\ LowEntry(e, z, v)
<1>1. PICK h \in Nat, s \in Nat : h = e.high /\ s = e.stop /\ h - WINDOW <= s BY SettingsType
<1>2. u # s /\ u < h /\ ~(h - WINDOW <= u) /\ u <= v BY <1>1, Sizes, SMT
<1>3. u < e.sent BY <1>1, <1>2, SentBelow
<1>4. r.vr_ur = u % MOD BY DEF Basic
<1>5. ~InsideFor(e.high % MOD, r.window, r.vr_ur) BY <1>1, <1>2, InsideIs
<1>6. CASE u % MOD \in DOMAIN r.window
  <2>1. PICK p \in UmPdus : p = r.window[u % MOD] /\ Carries(p, e.cut[u], e.cut[v])
    <3>1. u <= u /\ e.high - MOD <= u /\ u < e.high BY <1>1, <1>2, SMT DEF Basic
    <3> QED BY <1>6, <3>1, StoredAt DEF Basic
  <2>2. PICK c \in Cut, d \in Cut : c = e.cut[u] /\ d = e.cut[v] BY SettingsType
  <2>3. PICK x : x = LowerEdgePdu(p, r) OBVIOUS
  <2>4. Ordered(r.out, c.done) BY <2>2 DEF Basic
  <2>5. Holds(r.rx_sdu, c) /\ Doomed(e, r, u) BY <1>6, <2>2 DEF LowEntry
  <2>6. After(r, x, d) BY <2>1, <2>2, <2>3, <2>4, <2>5, LowerEdgeGives
  <2>7. z = Advanced(x) BY <1>4, <1>5, <1>6, <2>1, <2>3 DEF LowerEdgeStep
  <2>8. /\ x \in Reassemblies /\ x.vr_ur = r.vr_ur /\ x.window = r.window /\ Ordered(x.out, e.cut[v].done)
        /\ (x.rx_sdu # << >> => x.in = r.vr_ur /\ Holds(x.rx_sdu, e.cut[v]) /\ u < e.sent)
        /\ Grows(r.out, x.out) /\ Holds(x.rx_sdu, e.cut[v])
    BY <1>3, <2>2, <2>6 DEF After
  <2>9. z \in Reassemblies /\ Basic(e, z, v) /\ z.out = x.out /\ z.rx_sdu = x.rx_sdu
    BY <1>1, <1>2, <1>6, <2>7, <2>8, Moves
  <2>10. Doomed(e, z, v) BY <1>2, <2>5, <2>8, <2>9, DoomedStays
  <2> QED BY <2>8, <2>9, <2>10 DEF LowEntry
<1>7. CASE u % MOD \notin DOMAIN r.window
  <2>1. PICK x : x = Cleared(r) OBVIOUS
  <2>2. z = Advanced(x) BY <1>4, <1>5, <1>7, <2>1 DEF LowerEdgeStep
  <2>3. x \in Reassemblies /\ x.vr_ur = r.vr_ur /\ x.window = r.window /\ x.out = r.out /\ x.rx_sdu = << >>
    BY <2>1, ClearedType
  <2>4. Ordered(x.out, e.cut[v].done) BY <2>3, CutsStep
  <2>5. Astray(e, u) BY <1>3, <1>7, MissingAstray
  <2>6. z \in Reassemblies /\ Basic(e, z, v) /\ z.out = x.out /\ z.rx_sdu = x.rx_sdu
    BY <1>1, <1>2, <2>2, <2>3, <2>4, <2>5, Moves
  <2>7. Grows(r.out, z.out) BY <2>3, <2>6 DEF Grows
  <2>8. Doomed(e, r, u) \/ UpToDate(e, r, u) BY DEF Prog, Clean
  <2>9. Doomed(e, z, v) BY <2>5, <2>7, <2>8, AstrayDooms
  <2> QED BY <2>3, <2>6, <2>9 DEF LowEntry, Holds
<1> QED BY <1>6, <1>7

\* After Gap, rx_sdu holds what PDU u goes on with.
LEMMA GapHolds ==
    ASSUME NEW e, Set(e), NEW r \in Reassemblies, NEW u \in Nat, Basic(e, r, u), NEW g, g = Gap(r)
    PROVE  /\ g \in Reassemblies /\ g.vr_ur = r.vr_ur /\ g.window = r.window /\ g.out = r.out
           /\ Holds(g.rx_sdu, e.cut[u])
           /\ ~r.pdu_lost => ~g.pdu_lost
           /\ r.vr_ur = Plus(r.in, 1) => g = r
<1>1. CASE pdu_belongs_to_rx_sdu(r)
  <2>1. g = r BY <1>1 DEF Gap
  <2>2. ASSUME r.rx_sdu # << >> PROVE Holds(r.rx_sdu, e.cut[u])
    <3>1. PICK i \in Nat : HoldsFrom(e, r, u, i) BY <2>2 DEF Basic, Holding
    <3>2. i < u /\ u <= i + WINDOW /\ r.in = i % MOD /\ Holds(r.rx_sdu, e.cut[i + 1]) BY <3>1 DEF HoldsFrom
    <3>3. PICK j \in Nat : j = i + 1 BY SMT
    <3>4. Plus(r.in, 1) = j % MOD BY <3>2, <3>3, NextSn
    <3>5. u % MOD = i % MOD \/ u % MOD = j % MOD BY <1>1, <3>2, <3>4 DEF Basic, pdu_belongs_to_rx_sdu
    <3>6. u - i < MOD /\ i - u < MOD /\ u - j < MOD /\ j - u < MOD /\ u # i BY <3>2, <3>3, Sizes, SMT
    <3>7. u = j BY <3>5, <3>6, SnSame
    <3> QED BY <3>2, <3>3, <3>7
  <2>3. Holds(r.rx_sdu, e.cut[u]) BY <2>2 DEF Holds
  <2> QED BY <2>1, <2>3
<1>2. CASE ~pdu_belongs_to_rx_sdu(r)
  <2>1. g = Cleared(NothingLost(r)) BY <1>2 DEF Gap
  <2>2. /\ NothingLost(r) \in Reassemblies /\ NothingLost(r).vr_ur = r.vr_ur /\ NothingLost(r).window = r.window
        /\ NothingLost(r).out = r.out /\ NothingLost(r).pdu_lost = FALSE
    BY DEF NothingLost, Reassemblies
  <2>3. PICK y \in Reassemblies : y = NothingLost(r) BY <2>2
  <2>4. /\ g \in Reassemblies /\ g.vr_ur = y.vr_ur /\ g.window = y.window /\ g.out = y.out /\ g.rx_sdu = << >>
        /\ g.pdu_lost = y.pdu_lost
    BY <2>1, <2>3, ClearedType
  <2>5. r.vr_ur # Plus(r.in, 1) BY <1>2 DEF pdu_belongs_to_rx_sdu
  <2> QED BY <2>2, <2>3, <2>4, <2>5 DEF Holds
<1> QED BY <1>1, <1>2

\* A round of the second loop, for a number that was received.
LEMMA InSequenceStepKeeps ==
    ASSUME NEW e, Set(e), NEW r \in Reassemblies, NEW u \in Nat, NEW v \in Nat, v = u + 1,
           Basic(e, r, u), Prog(e, r, u), u % MOD \in DOMAIN r.window,
           NEW z, z = InSequenceStep(r)
    PROVE  z \in Reassemblies /\ Basic(e, z, v) /\ Prog(e, z, v)
<1>1. PICK h \in Nat, s \in Nat : h = e.high /\ s = e.stop /\ s <= h /\ u <= s /\ u # s /\ h - MOD <= u
  BY SettingsType DEF Basic
<1>2. u < h /\ u <= v /\ u <= u BY <1>1, SMT
<1>3. u < e.sent BY <1>1, <1>2, SentBelow
<1>4. r.vr_ur = u % MOD BY DEF Basic
<1>5. PICK p \in UmPdus : p = r.window[u % MOD] /\ Carries(p, e.cut[u], e.cut[v])
  <2>1. e.high - MOD <= u /\ u < e.high BY <1>1, <1>2
  <2> QED BY <1>2, <2>1, StoredAt DEF Basic
<1>6. PICK c \in Cut, d \in Cut : c = e.cut[u] /\ d = e.cut[v] BY SettingsType
<1>7. PICK g : g = Gap(r) OBVIOUS
<1>8. /\ g \in Reassemblies /\ g.vr_ur = r.vr_ur /\ g.window = r.window /\ g.out = r.out
      /\ Holds(g.rx_sdu, c) /\ (~r.pdu_lost => ~g.pdu_lost) /\ (r.vr_ur = Plus(r.in, 1) => g = r)
  BY <1>6, <1>7, GapHolds
<1>9. PICK x : x = InSequencePdu(p, g) OBVIOUS
<1>10. Ordered(g.out, c.done) BY <1>6, <1>8 DEF Basic
<1>11. After(g, x, d) /\ (~g.pdu_lost /\ ~StartLost(p, g) => Complete(g, x, c, d))
  <2>1. Carries(p, c, d) BY <1>5, <1>6
  <2> QED BY <1>8, <1>9, <1>10, <2>1, InSequenceGives
<1>12. z = Advanced(x) BY <1>4, <1>5, <1>7, <1>9 DEF InSequenceStep
<1>13. /\ x \in Reassemblies /\ x.vr_ur = r.vr_ur /\ x.window = r.window /\ Ordered(x.out, e.cut[v].done)
       /\ (x.rx_sdu # << >> => x.in = r.vr_ur /\ Holds(x.rx_sdu, e.cut[v]) /\ u < e.sent)
       /\ Grows(r.out, x.out)
  BY <1>3, <1>6, <1>8, <1>11 DEF After
<1>14. /\ z \in Reassemblies /\ Basic(e, z, v) /\ z.out = x.out /\ z.rx_sdu = x.rx_sdu
       /\ z.in = x.in /\ z.pdu_lost = x.pdu_lost
  BY <1>1, <1>12, <1>13, Moves
<1>15. CASE Doomed(e, r, u)
  <2>1. Doomed(e, z, v) BY <1>2, <1>13, <1>14, <1>15, DoomedStays
  <2> QED BY <1>14, <2>1 DEF Prog
<1>16. CASE Clean(e, r, u)
  <2>1. ~g.pdu_lost BY <1>8, <1>16 DEF Clean
  <2>2. ~StartLost(p, g)
    <3>1. CASE c.k = 0 BY <1>5, <1>6, <3>1 DEF Carries, StartLost
    <3>2. CASE c.k # 0 BY <1>6, <1>8, <1>16, <3>2 DEF Clean, StartLost
    <3> QED BY <3>1, <3>2
  <2>3. Complete(g, x, c, d) BY <1>11, <2>1, <2>2
  <2>4. UpToDate(e, z, v)
    <3>1. HasAll(r.out, 0, c.done) BY <1>6, <1>16 DEF Clean, UpToDate
    <3>2. HasAll(x.out, c.done, d.done) BY <2>3 DEF Complete
    <3>3. \A n \in Nat : n <= c.done \/ c.done < n
      <4>1. c.done \in Nat BY DEF Cut
      <4> QED BY <4>1, SMT
    <3> QED BY <1>6, <1>13, <1>14, <3>1, <3>2, <3>3 DEF UpToDate, HasAll, Grows
  <2>5. v <= e.sent BY <1>3, SettingsType, SMT
  <2>6. ASSUME d.k # 0 PROVE z.rx_sdu # << >> /\ z.vr_ur = Plus(z.in, 1)
    <3>1. x.rx_sdu # << >> BY <2>3, <2>6 DEF Complete
    <3>2. z.in = u % MOD BY <1>4, <1>13, <1>14, <3>1
    <3>3. z.vr_ur = v % MOD BY <1>14 DEF Basic
    <3>4. Plus(u % MOD, 1) = v % MOD BY NextSn
    <3> QED BY <1>14, <3>1, <3>2, <3>3, <3>4
  <2>7. ~z.pdu_lost BY <1>14, <2>3 DEF Complete
  <2>8. Clean(e, z, v) BY <1>6, <2>4, <2>5, <2>6, <2>7 DEF Clean
  <2> QED BY <1>14, <2>8 DEF Prog
<1> QED BY <1>15, <1>16 DEF Prog

-----------------------------------------------------------------------------
(***************************************************************************)
(* The loops.  Each keeps what was said of r, from vr_ur = u0 on.          *)
(***************************************************************************)
Low(e, x, u, u0) ==
    x \in Reassemblies /\ u0 <= u /\ Basic(e, x, u) /\ Prog(e, x, u) /\ LowEntry(e, x, u)

\* The first loop reaches the window or moves on.
LEMMA LowStep ==
    ASSUME NEW e, Set(e), NEW x, NEW u \in Nat, NEW u0 \in Nat, Low(e, x, u, u0),
           NEW z, z = LowerEdgeStep(e.high % MOD, x)
    PROVE  \E v \in Nat : Low(e, z, v, u0) /\ (e.high - WINDOW <= v \/ u + 1 <= v)
<1>0. x \in Reassemblies /\ u0 <= u /\ Basic(e, x, u) /\ Prog(e, x, u) /\ LowEntry(e, x, u) BY DEF Low
<1>1. CASE e.high - WINDOW <= u
  <2>1. z = x BY <1>0, <1>1, InsideIs DEF LowerEdgeStep
  <2> QED BY <1>1, <2>1
<1>2. CASE ~(e.high - WINDOW <= u)
  <2>1. u < e.high - WINDOW BY <1>2, SettingsType, Sizes, SMT
  <2>2. PICK v \in Nat : v = u + 1 /\ u0 <= v /\ u + 1 <= v
    <3>1. u + 1 \in Nat /\ u0 <= u + 1 /\ u + 1 <= u + 1 BY <1>0, SMT
    <3> QED BY <3>1
  <2>3. z \in Reassemblies /\ Basic(e, z, v) /\ Doomed(e, z, v) /\ LowEntry(e, z, v)
    BY <1>0, <2>1, <2>2, LowerEdgeStepKeeps
  <2> QED BY <2>2, <2>3 DEF Low, Prog
<1> QED BY <1>1, <1>2

\* The first loop ends at or above the lower edge of the window.
LEMMA LowerEdgesEnd ==
    ASSUME NEW e, Set(e), NEW r \in Reassemblies, NEW u0 \in Nat, Low(e, r, u0, u0),
           NEW z, z = LowerEdges(e.high % MOD, r)
    PROVE  \E u \in Nat : Low(e, z, u, u0) /\ e.high - WINDOW <= u
<1> DEFINE S == {x \in Reassemblies : \E u \in Nat : Low(e, x, u, u0)}
           high == e.high % MOD
<1>1. r \in S OBVIOUS
<1>2. \A x \in S : LowerEdgeStep(high, x) \in S
  <2> TAKE x \in S
  <2>1. PICK u \in Nat : Low(e, x, u, u0) OBVIOUS
  <2>2. PICK y : y = LowerEdgeStep(high, x) OBVIOUS
  <2>3. PICK v \in Nat : Low(e, y, v, u0) BY <2>1, <2>2, LowStep
  <2> QED BY <2>2, <2>3 DEF Low
<1> HIDE DEF S
<1>3. PICK f \in [0 .. MOD -> S] : /\ f[0] = r /\ f[MOD] = LowerEdges(high, r)
                                   /\ \A k \in 0 .. MOD - 1 : f[k + 1] = LowerEdgeStep(high, f[k])
  BY <1>1, <1>2, LowerEdgesWalk
<1> DEFINE K == {k \in Nat : \E u \in Nat : Low(e, f[k], u, u0) /\ (e.high - WINDOW <= u \/ u0 + k <= u)}
<1>4. 0 \in K
  <2>1. u0 + 0 <= u0 /\ 0 \in Nat BY SMT
  <2> QED BY <1>3, <2>1
<1>5. ASSUME NEW k \in 0 .. MOD - 1, k \in K PROVE k + 1 \in K
  <2>1. PICK u \in Nat : Low(e, f[k], u, u0) /\ (e.high - WINDOW <= u \/ u0 + k <= u) BY <1>5
  <2>2. PICK x : x = f[k] OBVIOUS
  <2>3. PICK y : y = LowerEdgeStep(high, x) OBVIOUS
  <2>4. f[k + 1] = y BY <1>3, <2>2, <2>3
  <2>5. PICK v \in Nat : Low(e, y, v, u0) /\ (e.high - WINDOW <= v \/ u + 1 <= v)
    BY <2>1, <2>2, <2>3, LowStep
  <2>6. k \in Nat /\ k + 1 \in Nat BY Sizes, SMT
  <2>7. CASE e.high - WINDOW <= v BY <2>4, <2>5, <2>6, <2>7
  <2>8. CASE e.high - WINDOW <= u /\ u + 1 <= v
    <3>1. e.high - WINDOW <= v BY <2>8, SettingsType, Sizes, SMT
    <3> QED BY <2>4, <2>5, <2>6, <3>1
  <2>9. CASE u0 + k <= u /\ u + 1 <= v
    <3>1. u0 + (k + 1) <= v BY <2>6, <2>9, SMT
    <3> QED BY <2>4, <2>5, <2>6, <3>1
  <2> QED BY <2>1, <2>5, <2>7, <2>8, <2>9
<1> HIDE DEF K
<1>6. MOD \in Nat /\ MOD \in 0 .. MOD BY Sizes, SMT
<1>7. MOD \in K BY <1>4, <1>5, <1>6, Rounds
<1>8. PICK u \in Nat : Low(e, z, u, u0) /\ (e.high - WINDOW <= u \/ u0 + MOD <= u) BY <1>3, <1>7 DEF K
<1>9. e.high - WINDOW <= u
  <2>1. e.high - MOD <= u0 BY DEF Low, Basic
  <2> QED BY <1>8, <2>1, SettingsType, Sizes, SMT
<1> QED BY <1>8, <1>9

Above(e, x, u, u0) == x \in Reassemblies /\ u0 <= u /\ Basic(e, x, u) /\ Prog(e, x, u)

\* The second loop reaches a number that was not received or moves on.
LEMMA SequenceStep ==
    ASSUME NEW e, Set(e), NEW x, NEW u \in Nat, NEW u0 \in Nat, Above(e, x, u, u0),
           NEW z, z = InSequenceStep(x)
    PROVE  \E v \in Nat : /\ Above(e, z, v, u0)
                          /\ (u % MOD \notin DOMAIN x.window /\ v % MOD \notin DOMAIN z.window) \/ u + 1 <= v
<1>0. x \in Reassemblies /\ u0 <= u /\ Basic(e, x, u) /\ Prog(e, x, u) BY DEF Above
<1>1. CASE u % MOD \notin DOMAIN x.window
  <2>1. x.vr_ur = u % MOD BY <1>0 DEF Basic
  <2>2. z = x BY <1>1, <2>1 DEF InSequenceStep
  <2> QED BY <1>1, <2>2
<1>2. CASE u % MOD \in DOMAIN x.window
  <2>2. PICK v \in Nat : v = u + 1 /\ u0 <= v /\ u + 1 <= v
    <3>1. u + 1 \in Nat /\ u0 <= u + 1 /\ u + 1 <= u + 1 BY <1>0, SMT
    <3> QED BY <3>1
  <2>3. z \in Reassemblies /\ Basic(e, z, v) /\ Prog(e, z, v) BY <1>0, <1>2, <2>2, InSequenceStepKeeps
  <2> QED BY <2>2, <2>3 DEF Above
<1> QED BY <1>1, <1>2

\* The second loop ends at a number that was not received.
LEMMA InSequenceEnds ==
    ASSUME NEW e, Set(e), NEW r \in Reassemblies, NEW u0 \in Nat, Above(e, r, u0, u0),
           e.high - WINDOW <= u0, NEW z, z = InSequence(r)
    PROVE  \E u \in Nat : Above(e, z, u, u0) /\ u % MOD \notin DOMAIN z.window
<1> DEFINE S == {x \in Reassemblies : \E u \in Nat : Above(e, x, u, u0)}
<1>1. r \in S OBVIOUS
<1>2. \A x \in S : InSequenceStep(x) \in S
  <2> TAKE x \in S
  <2>1. PICK u \in Nat : Above(e, x, u, u0) OBVIOUS
  <2>2. PICK y : y = InSequenceStep(x) OBVIOUS
  <2>3. PICK v \in Nat : Above(e, y, v, u0) BY <2>1, <2>2, SequenceStep
  <2> QED BY <2>2, <2>3 DEF Above
<1> HIDE DEF S
<1>3. PICK f \in [0 .. MOD -> S] : /\ f[0] = r /\ f[MOD] = InSequence(r)
                                   /\ \A k \in 0 .. MOD - 1 : f[k + 1] = InSequenceStep(f[k])
  BY <1>1, <1>2, InSequenceWalk
<1> DEFINE K == {k \in Nat : \E u \in Nat : Above(e, f[k], u, u0) /\ (u % MOD \notin DOMAIN f[k].window \/ u0 + k <= u)}
<1>4. 0 \in K
  <2>1. u0 + 0 <= u0 /\ 0 \in Nat BY SMT
  <2> QED BY <1>3, <2>1
<1>5. ASSUME NEW k \in 0 .. MOD - 1, k \in K PROVE k + 1 \in K
  <2>2. PICK x : x = f[k] OBVIOUS
  <2>1. PICK u \in Nat : Above(e, x, u, u0) /\ (u % MOD \notin DOMAIN x.window \/ u0 + k <= u) BY <1>5, <2>2
  <2>3. PICK y : y = InSequenceStep(x) OBVIOUS
  <2>4. f[k + 1] = y BY <1>3, <2>2, <2>3
  <2>6. k \in Nat /\ k + 1 \in Nat BY Sizes, SMT
  <2>5. PICK v \in Nat : /\ Above(e, y, v, u0)
                         /\ (u % MOD \notin DOMAIN x.window /\ v % MOD \notin DOMAIN y.window) \/ u + 1 <= v
    BY <2>1, <2>3, SequenceStep
  <2>7. CASE v % MOD \notin DOMAIN y.window BY <2>4, <2>5, <2>6, <2>7
  <2>8. CASE u % MOD \notin DOMAIN x.window
    <3>1. y = x BY <2>1, <2>3, <2>8 DEF InSequenceStep, Above, Basic
    <3> QED BY <2>1, <2>4, <2>6, <2>8, <3>1
  <2>9. CASE u0 + k <= u /\ u + 1 <= v
    <3>1. u0 + (k + 1) <= v BY <2>6, <2>9, SMT
    <3> QED BY <2>4, <2>5, <2>6, <3>1
  <2> QED BY <2>1, <2>5, <2>7, <2>8, <2>9
<1> HIDE DEF K
<1>6. MOD \in Nat /\ MOD \in 0 .. MOD BY Sizes, SMT
<1>7. MOD \in K BY <1>4, <1>5, <1>6, Rounds
<1>8. PICK u \in Nat : Above(e, z, u, u0) /\ (u % MOD \notin DOMAIN z.window \/ u0 + MOD <= u)
  BY <1>3, <1>7 DEF K
<1>9. ~(u0 + MOD <= u)
  <2>1. u <= e.stop BY <1>8 DEF Above, Basic
  <2> QED BY <2>1, SettingsType, Sizes, SMT
<1> QED BY <1>8, <1>9

\* vr_ur has reached a PDU that did not arrive, within the window.
Rests(e, r, u) == /\ r \in Reassemblies /\ Basic(e, r, u) /\ e.high - WINDOW <= u
                  /\ u % MOD \notin DOMAIN r.window

\* reassemble_rx_sdus ends where the receiver may wait.
LEMMA ReassembleKeeps ==
    ASSUME NEW e, Set(e), NEW r \in Reassemblies, NEW u0 \in Nat, Low(e, r, u0, u0),
           NEW z, z = reassemble_rx_sdus(e.high % MOD, r)
    PROVE  \E u \in Nat : u0 <= u /\ Rests(e, z, u) /\ Prog(e, z, u)
<1>1. PICK x : x = LowerEdges(e.high % MOD, r) OBVIOUS
<1>2. PICK t \in Nat : Low(e, x, t, u0) /\ e.high - WINDOW <= t BY <1>1, LowerEdgesEnd
<1>3. x \in Reassemblies /\ u0 <= t /\ Above(e, x, t, t)
  <2>1. t <= t BY SMT
  <2> QED BY <1>2, <2>1 DEF Low, Above
<1>4. z = InSequence(x) BY <1>1 DEF reassemble_rx_sdus
<1>5. PICK u \in Nat : Above(e, z, u, t) /\ u % MOD \notin DOMAIN z.window
  BY <1>2, <1>3, <1>4, InSequenceEnds
<1>6. t <= u BY <1>5 DEF Above
<1>7. u0 <= u BY <1>3, <1>6, SMT
<1>8. e.high - WINDOW <= u BY <1>2, <1>6, SettingsType, Sizes, SMT
<1> QED BY <1>5, <1>7, <1>8 DEF Above, Rests

(***************************************************************************)
(* The loop of timer_expired, up to PDU x which is vr_ux.                  *)
(***************************************************************************)
Skipping(e, x) ==
    /\ e.stop = e.high /\ e.low = e.high - WINDOW
    /\ vr_uh = e.high % MOD /\ vr_ux = x % MOD /\ x <= e.high /\ e.high - WINDOW <= x

Pauses(e, r, u, u0) ==
    /\ Rests(e, r, u) /\ u0 <= u /\ (Doomed(e, r, u) \/ UpToDate(e, r, u))
    /\ u = u0 \/ Prog(e, r, u)

LEMMA OffsetIs ==
    ASSUME NEW h \in Nat, NEW x \in Nat, h - WINDOW <= x, x <= h, vr_uh = h % MOD
    PROVE  UM_OFFSET(x % MOD) = (x - h) + WINDOW
<1>1. h - (WINDOW + MOD) <= x /\ x < h + WINDOW BY Sizes, SMT
<1> QED BY <1>1, Ahead DEF UM_OFFSET

\* vr_ur moves by one, although its PDU did not arrive.
LEMMA Skipped ==
    ASSUME NEW e, Set(e), e.stop = e.high, e.low = e.high - WINDOW, NEW r, NEW u \in Nat, NEW v \in Nat,
           v = u + 1, Rests(e, r, u), Doomed(e, r, u) \/ UpToDate(e, r, u), u < e.high,
           NEW y, y = [r EXCEPT !.vr_ur = Plus(r.vr_ur, 1)]
    PROVE  Low(e, y, v, v)
<1>0. r \in Reassemblies /\ Basic(e, r, u) /\ e.high - WINDOW <= u /\ u % MOD \notin DOMAIN r.window
  BY DEF Rests
<1>1. PICK h \in Nat : h = e.high /\ h - WINDOW <= u /\ u < h BY <1>0, SettingsType
<1>2. u <= v /\ v <= h /\ h - WINDOW <= v /\ h - MOD <= v /\ ~(v < h - WINDOW) /\ v <= v BY <1>1, Sizes, SMT
<1>3. u < e.sent BY <1>0, SentBelow
<1>4. Astray(e, u) BY <1>0, <1>3, MissingAstray
<1>5. /\ y \in Reassemblies /\ y.vr_ur = v % MOD /\ y.window = r.window /\ y.out = r.out /\ y.rx_sdu = r.rx_sdu
      /\ y.in = r.in
  <2>1. Plus(r.vr_ur, 1) = v % MOD /\ v % MOD \in SN
    <3>1. r.vr_ur = u % MOD BY <1>0 DEF Basic
    <3> QED BY <3>1, NextSn
  <2> QED BY <1>0, <2>1 DEF Reassemblies
<1>6. InWindow(e, y.window, v)
  <2> SUFFICES ASSUME NEW sn \in DOMAIN r.window PROVE v <= r.window[sn].n
    BY <1>0, <1>5 DEF Basic, InWindow
  <2>1. PICK n \in Nat : n = r.window[sn].n BY <1>0, WindowType
  <2>2. n % MOD = sn /\ u <= n BY <1>0, <2>1 DEF Basic, InWindow
  <2>3. n # u BY <1>0, <2>2
  <2>4. v <= n BY <2>2, <2>3, SMT
  <2> QED BY <2>1, <2>4
<1>7. Holding(e, y, v)
  <2> SUFFICES ASSUME r.rx_sdu # << >> PROVE \E i \in Nat : HoldsFrom(e, y, v, i) BY <1>5 DEF Holding
  <2>1. PICK i \in Nat : HoldsFrom(e, r, u, i) BY <1>0 DEF Basic, Holding
  <2>2. h - WINDOW <= i /\ i < u BY <1>1, <2>1 DEF HoldsFrom
  <2>3. i < v /\ v <= i + WINDOW BY <1>2, <2>2, Sizes, SMT
  <2> QED BY <1>5, <2>1, <2>3 DEF HoldsFrom
<1>8. Accounted(e, y.window, v)
  <2> SUFFICES ASSUME NEW n \in Nat, v <= n, n < e.sent PROVE Stored(r.window, n) \/ Astray(e, n)
    BY <1>5 DEF Accounted
  <2>1. u <= n BY SMT
  <2> QED BY <1>0, <2>1 DEF Basic, Accounted
<1>9. Ordered(y.out, e.cut[v].done) BY <1>0, <1>5, CutsStep
<1>10. Basic(e, y, v)
  <2>1. e.high - MOD <= v /\ e.low <= v /\ v <= e.stop BY <1>1, <1>2
  <2>2. v < e.high => u < e.high OBVIOUS
  <2>3. (v < e.high => (e.high - 1) % MOD \in DOMAIN y.window) /\ e.stop % MOD \notin DOMAIN y.window
    BY <1>0, <1>5, <2>2 DEF Basic
  <2> QED BY <1>5, <1>6, <1>7, <1>8, <1>9, <2>1, <2>3 DEF Basic
<1>11. Grows(r.out, y.out) BY <1>5 DEF Grows
<1>12. Doomed(e, y, v) BY <1>4, <1>11, AstrayDooms
<1>13. LowEntry(e, y, v) BY <1>1, <1>2 DEF LowEntry
<1> QED BY <1>2, <1>5, <1>10, <1>12, <1>13 DEF Low, Prog

\* A round of the loop of timer_expired stops at vr_ux or moves on.
LEMMA SkipStepKeeps ==
    ASSUME NEW e, Set(e), NEW x \in Nat, Skipping(e, x), NEW r, NEW u \in Nat, NEW u0 \in Nat,
           Pauses(e, r, u, u0), NEW z, z = SkipStep(r)
    PROVE  \E v \in Nat : Pauses(e, z, v, u0) /\ (x <= v \/ u + 1 <= v)
<1>0. Rests(e, r, u) /\ u0 <= u /\ (Doomed(e, r, u) \/ UpToDate(e, r, u)) BY DEF Pauses
<1>1. r \in Reassemblies /\ Basic(e, r, u) /\ e.high - WINDOW <= u BY <1>0 DEF Rests
<1>2. PICK h \in Nat : h = e.high /\ h - WINDOW <= u /\ u <= h /\ h - WINDOW <= x /\ x <= h /\ vr_uh = h % MOD
  BY <1>1, SettingsType DEF Skipping, Basic
<1>3. UM_OFFSET(r.vr_ur) = (u - h) + WINDOW
  <2>1. r.vr_ur = u % MOD BY <1>1 DEF Basic
  <2> QED BY <1>2, <2>1, OffsetIs
<1>4. UM_OFFSET(vr_ux) = (x - h) + WINDOW
  <2>1. vr_ux = x % MOD BY DEF Skipping
  <2> QED BY <1>2, <2>1, OffsetIs
<1>5. UM_OFFSET(r.vr_ur) < UM_OFFSET(vr_ux) <=> u < x
  <2>1. (u - h) + WINDOW < (x - h) + WINDOW <=> u < x BY Sizes, SMT
  <2> QED BY <1>3, <1>4, <2>1
<1>6. CASE x <= u
  <2>1. ~(u < x) BY <1>6, SMT
  <2>2. z = r BY <1>5, <2>1 DEF SkipStep
  <2> QED BY <1>6, <2>2
<1>7. CASE ~(x <= u)
  <2>1. u < x /\ u < h BY <1>2, <1>7, SMT
  <2>2. PICK t \in Nat : t = u + 1
    <3>1. u + 1 \in Nat BY SMT
    <3> QED BY <3>1
  <2>20. PICK y : y = [r EXCEPT !.vr_ur = Plus(r.vr_ur, 1)] OBVIOUS
  <2>3. z = reassemble_rx_sdus(e.high % MOD, y)
    <3>1. y = [r EXCEPT !.vr_ur = Plus(@, 1)] BY <2>2, <2>20
    <3> QED BY <1>2, <1>5, <2>1, <3>1 DEF SkipStep
  <2>4. Low(e, y, t, t)
    <3>1. e.stop = e.high /\ e.low = e.high - WINDOW /\ u < e.high BY <1>2, <2>1 DEF Skipping
    <3> QED BY <1>0, <2>2, <2>20, <3>1, Skipped
  <2>5. y \in Reassemblies BY <2>4 DEF Low
  <2>6. PICK v \in Nat : t <= v /\ Rests(e, z, v) /\ Prog(e, z, v) BY <2>3, <2>4, <2>5, ReassembleKeeps
  <2>7. u0 <= v /\ u + 1 <= v BY <1>0, <2>2, <2>6, SMT
  <2>8. Doomed(e, z, v) \/ UpToDate(e, z, v) BY <2>6 DEF Prog, Clean
  <2> QED BY <2>6, <2>7, <2>8 DEF Pauses
<1> QED BY <1>6, <1>7

\* The loop of timer_expired ends at vr_ux or above.
LEMMA SkipsEnd ==
    ASSUME NEW e, Set(e), NEW x \in Nat, Skipping(e, x), NEW r, NEW u0 \in Nat,
           Pauses(e, r, u0, u0), NEW z, z = Skips(r)
    PROVE  \E u \in Nat : Pauses(e, z, u, u0) /\ x <= u
<1> DEFINE S == {q \in Reassemblies : \E u \in Nat : Pauses(e, q, u, u0)}
<1>1. r \in S BY DEF Pauses, Rests
<1>2. \A q \in S : SkipStep(q) \in S
  <2> TAKE q \in S
  <2>1. PICK u \in Nat : Pauses(e, q, u, u0) OBVIOUS
  <2>2. PICK y : y = SkipStep(q) OBVIOUS
  <2>3. PICK v \in Nat : Pauses(e, y, v, u0) BY <2>1, <2>2, SkipStepKeeps
  <2> QED BY <2>2, <2>3 DEF Pauses, Rests
<1> HIDE DEF S
<1>3. PICK f \in [0 .. MOD -> S] : /\ f[0] = r /\ f[MOD] = Skips(r)
                                   /\ \A k \in 0 .. MOD - 1 : f[k + 1] = SkipStep(f[k])
  BY <1>1, <1>2, SkipsWalk
<1> DEFINE K == {k \in Nat : \E u \in Nat : Pauses(e, f[k], u, u0) /\ (x <= u \/ u0 + k <= u)}
<1>4. 0 \in K
  <2>1. u0 + 0 <= u0 /\ 0 \in Nat BY SMT
  <2> QED BY <1>3, <2>1
<1>5. ASSUME NEW k \in 0 .. MOD - 1, k \in K PROVE k + 1 \in K
  <2>1. PICK u \in Nat : Pauses(e, f[k], u, u0) /\ (x <= u \/ u0 + k <= u) BY <1>5
  <2>2. PICK q : q = f[k] OBVIOUS
  <2>3. PICK y : y = SkipStep(q) OBVIOUS
  <2>4. f[k + 1] = y BY <1>3, <2>2, <2>3
  <2>5. PICK v \in Nat : Pauses(e, y, v, u0) /\ (x <= v \/ u + 1 <= v)
    BY <2>1, <2>2, <2>3, SkipStepKeeps
  <2>6. k \in Nat /\ k + 1 \in Nat BY Sizes, SMT
  <2>7. CASE x <= v BY <2>4, <2>5, <2>6, <2>7
  <2>8. CASE x <= u /\ u + 1 <= v
    <3>1. x <= v BY <2>8, SMT
    <3> QED BY <2>4, <2>5, <2>6, <3>1
  <2>9. CASE u0 + k <= u /\ u + 1 <= v
    <3>1. u0 + (k + 1) <= v BY <2>6, <2>9, SMT
    <3> QED BY <2>4, <2>5, <2>6, <3>1
  <2> QED BY <2>1, <2>5, <2>7, <2>8, <2>9
<1> HIDE DEF K
<1>6. MOD \in Nat /\ MOD \in 0 .. MOD BY Sizes, SMT
<1>7. MOD \in K BY <1>4, <1>5, <1>6, Rounds
<1>8. PICK u \in Nat : Pauses(e, z, u, u0) /\ (x <= u \/ u0 + MOD <= u) BY <1>3, <1>7 DEF K
<1>9. x <= u
  <2>1. PICK h \in Nat : h = e.high /\ x <= h /\ h - WINDOW <= u0
    BY SettingsType DEF Skipping, Pauses, Rests
  <2> QED BY <1>8, <2>1, Sizes, SMT
<1> QED BY <1>8, <1>9

-----------------------------------------------------------------------------
(***************************************************************************)
(* What happens between two PDUs that arrive does not disturb what was     *)
(* said of the receiver.                                                   *)
(***************************************************************************)
SameWindow(e, f) == f.high = e.high /\ f.stop = e.stop /\ f.low = e.low

\* A PDU that was under way is lost, and with it part of an SDU.
LEMMA Loses ==
    ASSUME NEW e, Set(e), NEW f, Set(f), SameWindow(e, f), f.sent = e.sent, f.cut = e.cut,
           \A s \in e.bad : s \in f.bad,
           \A n \in e.gone : n \in f.gone \/ e.cut[n].done + 1 \in f.bad,
           NEW r, NEW u \in Nat, Rests(e, r, u), Prog(e, r, u)
    PROVE  Rests(f, r, u) /\ Prog(f, r, u)
<1>0. r \in Reassemblies /\ Basic(e, r, u) BY DEF Rests
<1>1. \A n : Astray(e, n) => Astray(f, n) BY DEF Astray
<1>2. Accounted(f, r.window, u) BY <1>0, <1>1 DEF Basic, Accounted
<1>3. InWindow(f, r.window, u) BY <1>0 DEF Basic, InWindow, SameWindow
<1>4. Holding(f, r, u) BY <1>0 DEF Basic, Holding, HoldsFrom, SameWindow
<1>5. Basic(f, r, u) BY <1>0, <1>2, <1>3, <1>4 DEF Basic, SameWindow
<1>6. Rests(f, r, u) BY <1>0, <1>5 DEF Rests, SameWindow
<1>7. ASSUME Doomed(e, r, u) PROVE Doomed(f, r, u)
  <2>1. PICK a \in Nat : /\ HasAll(r.out, 0, a)
                         /\ a + 1 \in e.bad \/ \E n \in e.gone : n < u /\ e.cut[n].done = a
    BY <1>7 DEF Doomed
  <2>2. CASE a + 1 \in e.bad BY <2>1, <2>2 DEF Doomed
  <2>3. ASSUME NEW n \in e.gone, n < u, e.cut[n].done = a PROVE Doomed(f, r, u)
    <3>1. n \in f.gone \/ a + 1 \in f.bad BY <2>3
    <3> QED BY <2>1, <2>3, <3>1 DEF Doomed
  <2> QED BY <2>1, <2>2, <2>3
<1>8. Clean(e, r, u) => Clean(f, r, u) BY DEF Clean, UpToDate
<1> QED BY <1>6, <1>7, <1>8 DEF Prog

\* One more PDU is sent.
LEMMA Sends ==
    ASSUME NEW e, Set(e), NEW f, Set(f), SameWindow(e, f), f.sent = e.sent + 1, f.bad = e.bad,
           f.gone = e.gone \cup {e.sent}, \A n \in e.gone : n < e.sent,
           \A n \in Nat : n <= e.sent => f.cut[n] = e.cut[n],
           \A n \in Nat : e.cut[n].done <= f.cut[n].done,
           NEW r, NEW u \in Nat, Rests(e, r, u), Prog(e, r, u)
    PROVE  Rests(f, r, u) /\ Prog(f, r, u)
<1>0. r \in Reassemblies /\ Basic(e, r, u) BY DEF Rests
<1>1. PICK s \in Nat : s = e.sent /\ f.sent = s + 1 BY SettingsType
<1>2. \A n \in Nat : n < s => /\ n <= s /\ n + 1 <= s /\ n < s + 1 /\ n + 1 \in Nat
                              /\ f.cut[n] = e.cut[n] /\ f.cut[n + 1] = e.cut[n + 1]
  <2> TAKE n \in Nat
  <2> HAVE n < s
  <2>1. n <= s /\ n + 1 <= s /\ n < s + 1 /\ n + 1 \in Nat BY SMT
  <2> QED BY <1>1, <2>1
<1>3. InWindow(f, r.window, u)
  <2> SUFFICES ASSUME NEW sn \in DOMAIN r.window
               PROVE /\ r.window[sn].n % MOD = sn /\ u <= r.window[sn].n /\ r.window[sn].n < e.high
                     /\ r.window[sn].n < s + 1
                     /\ Carries(r.window[sn], f.cut[r.window[sn].n], f.cut[r.window[sn].n + 1])
    BY <1>1 DEF InWindow, SameWindow
  <2>1. PICK n \in Nat : n = r.window[sn].n BY <1>0, WindowType
  <2>2. n % MOD = sn /\ u <= n /\ n < e.high /\ n < s /\ Carries(r.window[sn], e.cut[n], e.cut[n + 1])
    BY <1>0, <1>1, <2>1 DEF Basic, InWindow
  <2> QED BY <1>2, <2>1, <2>2
<1>4. Holding(f, r, u)
  <2> SUFFICES ASSUME r.rx_sdu # << >> PROVE \E i \in Nat : HoldsFrom(f, r, u, i) BY DEF Holding
  <2>1. PICK i \in Nat : HoldsFrom(e, r, u, i) BY <1>0 DEF Basic, Holding
  <2>2. i < s BY <1>1, <2>1 DEF HoldsFrom
  <2>3. i < s + 1 /\ f.cut[i + 1] = e.cut[i + 1] BY <1>2, <2>2
  <2> QED BY <1>1, <2>1, <2>3 DEF HoldsFrom, SameWindow
<1>5. Ordered(r.out, f.cut[u].done)
  <2>1. r.out \in Seq(Seq(Unit)) /\ e.cut[u].done \in Nat /\ f.cut[u].done \in Nat
    BY <1>0, SettingsType DEF Reassemblies
  <2> QED BY <1>0, <2>1, OrderedUpTo DEF Basic
<1>6. Accounted(f, r.window, u)
  <2> SUFFICES ASSUME NEW n \in Nat, u <= n, n < s + 1 PROVE Stored(r.window, n) \/ Astray(f, n)
    BY <1>1 DEF Accounted
  <2>1. CASE n < s
    <3>1. Stored(r.window, n) \/ Astray(e, n) BY <1>0, <1>1, <2>1 DEF Basic, Accounted
    <3>2. f.cut[n] = e.cut[n] BY <1>2, <2>1
    <3> QED BY <3>1, <3>2 DEF Astray
  <2>2. CASE n = s BY <1>1, <2>2 DEF Astray
  <2>3. n < s \/ n = s BY SMT
  <2> QED BY <2>1, <2>2, <2>3
<1>7. Basic(f, r, u) BY <1>0, <1>3, <1>4, <1>5, <1>6 DEF Basic, SameWindow
<1>8. Rests(f, r, u) BY <1>7 DEF Rests, SameWindow
<1>9. ASSUME Doomed(e, r, u) PROVE Doomed(f, r, u)
  <2>1. PICK a \in Nat : /\ HasAll(r.out, 0, a)
                         /\ a + 1 \in e.bad \/ \E n \in e.gone : n < u /\ e.cut[n].done = a
    BY <1>9 DEF Doomed
  <2>2. CASE a + 1 \in e.bad BY <2>1, <2>2 DEF Doomed
  <2>3. ASSUME NEW n \in e.gone, n < u, e.cut[n].done = a PROVE Doomed(f, r, u)
    <3>1. n \in Nat /\ n < s BY <1>1, SettingsType
    <3>2. n \in f.gone /\ f.cut[n].done = a BY <1>2, <2>3, <3>1
    <3> QED BY <2>1, <2>3, <3>2 DEF Doomed
  <2> QED BY <2>1, <2>2, <2>3
<1>10. ASSUME Clean(e, r, u) PROVE Clean(f, r, u)
  <2>1. u <= s BY <1>1, <1>10 DEF Clean
  <2>2. u <= s + 1 /\ f.cut[u] = e.cut[u] BY <1>1, <2>1, SMT
  <2> QED BY <1>1, <1>10, <2>2 DEF Clean, UpToDate
<1> QED BY <1>8, <1>9, <1>10 DEF Prog

(***************************************************************************)
(* handle_data_pdu accepts PDU n: h becomes the number that is vr_uh.      *)
(***************************************************************************)
Accepts(e, f, n) ==
    /\ f.high = (IF n < e.high THEN e.high ELSE n + 1)
    /\ f.stop = (IF e.high < n THEN e.high ELSE f.high)
    /\ f.low = e.low /\ f.sent = e.sent /\ f.cut = e.cut /\ f.bad = e.bad
    /\ f.gone \in SUBSET Nat /\ \A m \in e.gone : m = n \/ m \in f.gone

\* How the numbers then lie: g and s are the new high and stop, u is vr_ur.
AcceptedAt(h, n, u, g, s) ==
    /\ g \in Nat /\ s \in Nat /\ s <= g /\ g - WINDOW <= s /\ g - MOD <= u /\ u <= s /\ h <= g /\ n < g
    /\ ~(u < g - WINDOW /\ n = u) /\ n - u < MOD /\ u - n < MOD
    /\ (h < n => s = h /\ n - h < MOD /\ h - n < MOD)
    /\ (~(h < n) => s = g /\ g - n < MOD /\ n - g < MOD /\ n # g)
    /\ (~(h < n) => \A q \in Nat : u < q /\ q < h => g - q < MOD /\ q - g < MOD /\ q # g)
    /\ (n < h => g = h) /\ (~(n < h) => g - 1 = n)

LEMMA AcceptedNumbers ==
    ASSUME NEW h \in Nat, NEW n \in Nat, n < h + WINDOW, NEW u \in Nat, h - WINDOW <= u, u <= h, u <= n,
           NEW g, g = (IF n < h THEN h ELSE n + 1), NEW s, s = (IF h < n THEN h ELSE g)
    PROVE  AcceptedAt(h, n, u, g, s)
<1>1. CASE n < h
  <2>1. g = h /\ s = h BY <1>1, SMT
  <2> QED BY <1>1, <2>1, Sizes, SMT DEF AcceptedAt
<1>2. CASE h < n
  <2>1. g = n + 1 /\ s = h BY <1>2, SMT
  <2> QED BY <1>2, <2>1, Sizes, SMT DEF AcceptedAt
<1>3. CASE n = h
  <2>1. g = n + 1 /\ s = n + 1 BY <1>3, SMT
  <2> QED BY <1>3, <2>1, Sizes, SMT DEF AcceptedAt
<1> QED BY <1>1, <1>2, <1>3, SMT

\* A PDU is put into the window, and vr_uh with it is where it has to be.
LEMMA AcceptedLow ==
    ASSUME NEW e, Set(e), e.stop = e.high, e.low = e.high - MOD, NEW r, NEW u \in Nat,
           Rests(e, r, u), Prog(e, r, u),
           NEW p \in UmPdus, NEW n \in Nat, p.n = n, p.sn = n % MOD, n < e.sent, u <= n, n < e.high + WINDOW,
           Carries(p, e.cut[n], e.cut[n + 1]), n % MOD \notin DOMAIN r.window,
           NEW f, f \in Settings, Accepts(e, f, n), NEW x, x = [r EXCEPT !.window = With(r.window, p.sn, p)]
    PROVE  Set(f) /\ Low(f, x, u, u)
<1>0. r \in Reassemblies /\ Basic(e, r, u) /\ e.high - WINDOW <= u /\ u % MOD \notin DOMAIN r.window
  BY DEF Rests
<1>1. PICK h \in Nat : h = e.high BY SettingsType
<1>50. PICK g, s : g = f.high /\ s = f.stop OBVIOUS
<1>2. h - WINDOW <= u /\ u <= h /\ n < h + WINDOW /\ g = (IF n < h THEN h ELSE n + 1) /\ s = (IF h < n THEN h ELSE g)
  BY <1>0, <1>1, <1>50 DEF Basic, Accepts
<1>3. /\ g \in Nat /\ s \in Nat /\ s <= g /\ g - WINDOW <= s /\ g - MOD <= u /\ u <= s /\ h <= g /\ n < g
      /\ ~(u < g - WINDOW /\ n = u) /\ n - u < MOD /\ u - n < MOD
      /\ (h < n => s = h /\ n - h < MOD /\ h - n < MOD)
      /\ (~(h < n) => s = g /\ g - n < MOD /\ n - g < MOD /\ n # g)
      /\ (~(h < n) => \A q \in Nat : u < q /\ q < h => g - q < MOD /\ q - g < MOD /\ q # g)
      /\ (n < h => g = h) /\ (~(n < h) => g - 1 = n)
  <2>1. AcceptedAt(h, n, u, g, s) BY <1>2, AcceptedNumbers
  <2> QED BY <2>1 DEF AcceptedAt
<1>4. Set(f) BY <1>1, <1>50, <1>3 DEF Set, Settings, Accepts
<1>5. PICK w : w = With(r.window, n % MOD, p) OBVIOUS
<1>6. /\ w \in Windows /\ DOMAIN w = DOMAIN r.window \cup {n % MOD} /\ w[n % MOD] = p
      /\ \A sn \in DOMAIN r.window : w[sn] = r.window[sn]
  <2>1. r.window \in Windows /\ n % MOD \in SN BY <1>0, SnType, WindowType
  <2>2. PICK v \in Windows : v = r.window BY <2>1
  <2>3. PICK k \in SN : k = n % MOD BY <2>1
  <2>4. IsWith(v, k, p, With(v, k, p)) BY WithType
  <2>5. IsWith(v, k, p, w) BY <1>5, <2>2, <2>3, <2>4
  <2>6. k \notin DOMAIN v BY <2>2, <2>3
  <2> QED BY <2>2, <2>3, <2>5, <2>6 DEF IsWith
<1>7. /\ x \in Reassemblies /\ x.window = w /\ x.vr_ur = r.vr_ur /\ x.pdu_lost = r.pdu_lost /\ x.rx_sdu = r.rx_sdu
      /\ x.in = r.in /\ x.out = r.out
  <2>1. x = [r EXCEPT !.window = w] BY <1>5
  <2> QED BY <1>0, <1>6, <2>1 DEF Reassemblies
<1>8. InWindow(f, w, u)
  <2>1. ASSUME NEW sn \in DOMAIN r.window
        PROVE /\ w[sn].n % MOD = sn /\ u <= w[sn].n /\ w[sn].n < f.high /\ w[sn].n < f.sent
              /\ Carries(w[sn], f.cut[w[sn].n], f.cut[w[sn].n + 1])
    <3>1. PICK q \in Nat : q = r.window[sn].n BY <1>0, WindowType
    <3>2. w[sn] = r.window[sn] BY <1>6
    <3>3. q % MOD = sn /\ u <= q /\ q < h /\ q < e.sent /\ Carries(r.window[sn], e.cut[q], e.cut[q + 1])
      BY <1>0, <1>1, <1>50, <3>1 DEF Basic, InWindow
    <3>4. q < g BY <1>3, <3>3, SMT
    <3> QED BY <1>1, <1>50, <3>1, <3>2, <3>3, <3>4 DEF Accepts
  <2>2. /\ w[n % MOD].n % MOD = n % MOD /\ u <= w[n % MOD].n /\ w[n % MOD].n < f.high /\ w[n % MOD].n < f.sent
        /\ Carries(w[n % MOD], f.cut[w[n % MOD].n], f.cut[w[n % MOD].n + 1])
    BY <1>1, <1>50, <1>3, <1>6 DEF Accepts
  <2> QED BY <1>6, <2>1, <2>2 DEF InWindow
<1>9. ASSUME u < f.high PROVE (f.high - 1) % MOD \in DOMAIN w
  <2>1. CASE n < h
    <3>1. g = h /\ u < h BY <1>3, <2>1, SMT
    <3>2. (e.high - 1) % MOD \in DOMAIN r.window BY <1>0, <1>1, <1>50, <3>1 DEF Basic
    <3> QED BY <1>1, <1>50, <1>6, <3>1, <3>2
  <2>2. CASE ~(n < h)
    <3>1. g - 1 = n BY <1>3, <2>2
    <3> QED BY <1>1, <1>50, <1>6, <3>1
  <2> QED BY <2>1, <2>2
<1>10. f.stop % MOD \notin DOMAIN w
  <2>1. CASE h < n
    <3>1. s = h /\ n # h /\ h % MOD # n % MOD
      <4>1. s = h /\ n # h /\ n - h < MOD /\ h - n < MOD BY <1>3, <2>1, SMT
      <4> QED BY <4>1, SnSame
    <3>2. h % MOD \notin DOMAIN r.window BY <1>0, <1>1, <1>50 DEF Basic
    <3> QED BY <1>1, <1>50, <1>6, <3>1, <3>2
  <2>2. CASE ~(h < n)
    <3>1. s = g /\ g % MOD # n % MOD BY <1>3, <2>2, SnSame
    <3>2. ASSUME g % MOD \in DOMAIN r.window PROVE FALSE
      <4>1. PICK q \in Nat : q = r.window[g % MOD].n BY <1>0, <3>2, WindowType
      <4>2. q % MOD = g % MOD /\ u <= q /\ q < h BY <1>0, <1>1, <1>50, <3>2, <4>1 DEF Basic, InWindow
      <4>3. q # u BY <1>0, <3>2, <4>2
      <4>4. u < q BY <4>2, <4>3, SMT
      <4>5. g - q < MOD /\ q - g < MOD /\ q # g BY <1>3, <2>2, <4>2, <4>4
      <4> QED BY <1>3, <4>2, <4>5, SnSame
    <3> QED BY <1>1, <1>50, <1>6, <3>1, <3>2
  <2> QED BY <2>1, <2>2
<1>11. Holding(f, x, u) BY <1>0, <1>7 DEF Basic, Holding, HoldsFrom, Accepts
<1>12. Accounted(f, w, u)
  <2> SUFFICES ASSUME NEW m \in Nat, u <= m, m < e.sent PROVE Stored(w, m) \/ Astray(f, m)
    BY DEF Accounted, Accepts
  <2>1. CASE m = n BY <1>6, <2>1 DEF Stored
  <2>2. ASSUME m # n, Astray(e, m) PROVE Astray(f, m) BY <2>2 DEF Astray, Accepts
  <2>3. Stored(r.window, m) => Stored(w, m) BY <1>6 DEF Stored
  <2>4. Stored(r.window, m) \/ Astray(e, m) BY <1>0 DEF Basic, Accounted
  <2> QED BY <2>1, <2>2, <2>3, <2>4
<1>13. Basic(f, x, u)
  <2>1. f.high - MOD <= u /\ f.low <= u /\ u <= f.stop BY <1>0, <1>1, <1>50, <1>3 DEF Basic, Accepts
  <2> QED BY <1>0, <1>7, <1>8, <1>9, <1>10, <1>11, <1>12, <2>1 DEF Basic, Accepts
<1>14. ASSUME Doomed(e, r, u) PROVE Doomed(f, x, u)
  <2>1. PICK a \in Nat : /\ HasAll(r.out, 0, a)
                         /\ a + 1 \in e.bad \/ \E m \in e.gone : m < u /\ e.cut[m].done = a
    BY <1>14 DEF Doomed
  <2>2. CASE a + 1 \in e.bad BY <1>7, <2>1, <2>2 DEF Doomed, Accepts
  <2>3. ASSUME NEW m \in e.gone, m < u, e.cut[m].done = a PROVE Doomed(f, x, u)
    <3>1. m # n BY <2>3, SMT
    <3>2. m \in f.gone BY <3>1 DEF Accepts
    <3> QED BY <1>7, <2>1, <2>3, <3>2 DEF Doomed, Accepts
  <2> QED BY <2>1, <2>2, <2>3
<1>15. Clean(e, r, u) => Clean(f, x, u) BY <1>7 DEF Clean, UpToDate, Accepts
<1>16. LowEntry(f, x, u)
  <2> SUFFICES ASSUME u < g - WINDOW, u % MOD \in DOMAIN w PROVE FALSE BY <1>1, <1>50, <1>7 DEF LowEntry
  <2>1. u % MOD = n % MOD BY <1>0, <1>6
  <2>2. u = n BY <1>3, <2>1, SnSame
  <2> QED BY <1>3, <2>2
<1>17. u <= u BY SMT
<1> QED BY <1>4, <1>7, <1>13, <1>14, <1>15, <1>16, <1>17 DEF Low, Prog

\* At rest the edges of the window are the ordinary ones again.
LEMMA RestsAgain ==
    ASSUME NEW e, Set(e), NEW f, Set(f), f.high = e.high, f.stop = f.high, f.low = f.high - MOD,
           f.sent = e.sent, f.cut = e.cut, f.bad = e.bad, f.gone = e.gone,
           NEW r, NEW u \in Nat, Rests(e, r, u), Prog(e, r, u)
    PROVE  Rests(f, r, u) /\ Prog(f, r, u)
<1>0. r \in Reassemblies /\ Basic(e, r, u) /\ e.high - WINDOW <= u /\ u % MOD \notin DOMAIN r.window
  BY DEF Rests
<1>1. PICK h \in Nat, s \in Nat : h = e.high /\ s = e.stop /\ s <= h /\ u <= s /\ h - WINDOW <= u
  BY <1>0, SettingsType DEF Basic
<1>2. u <= h /\ h - MOD <= u BY <1>1, Sizes, SMT
<1>3. h % MOD \notin DOMAIN r.window
  <2> SUFFICES ASSUME h % MOD \in DOMAIN r.window PROVE FALSE OBVIOUS
  <2>1. PICK q \in Nat : q = r.window[h % MOD].n BY <1>0, WindowType
  <2>2. q % MOD = h % MOD /\ u <= q /\ q < h BY <1>0, <1>1, <2>1 DEF Basic, InWindow
  <2>3. h - q < MOD /\ q - h < MOD /\ q # h BY <1>1, <2>2, Sizes, SMT
  <2> QED BY <2>2, <2>3, SnSame
<1>4. InWindow(f, r.window, u) BY <1>0 DEF Basic, InWindow
<1>5. Holding(f, r, u)
  <2> SUFFICES ASSUME r.rx_sdu # << >> PROVE \E i \in Nat : HoldsFrom(f, r, u, i) BY DEF Holding
  <2>1. PICK i \in Nat : HoldsFrom(e, r, u, i) BY <1>0 DEF Basic, Holding
  <2>2. u <= i + WINDOW BY <2>1 DEF HoldsFrom
  <2>3. h - MOD <= i BY <1>1, <2>2, Sizes, SMT
  <2> QED BY <1>1, <2>1, <2>3 DEF HoldsFrom
<1>6. Accounted(f, r.window, u) BY <1>0 DEF Basic, Accounted, Astray
<1>7. Basic(f, r, u)
  <2>1. f.high - MOD <= u /\ f.low <= u /\ u <= f.stop /\ f.stop % MOD \notin DOMAIN r.window
    BY <1>1, <1>2, <1>3
  <2>2. u < f.high => (f.high - 1) % MOD \in DOMAIN r.window BY <1>0 DEF Basic
  <2> QED BY <1>0, <1>4, <1>5, <1>6, <2>1, <2>2 DEF Basic
<1>8. Doomed(e, r, u) => Doomed(f, r, u) BY DEF Doomed
<1>9. Clean(e, r, u) => Clean(f, r, u) BY DEF Clean, UpToDate
<1> QED BY <1>0, <1>7, <1>8, <1>9 DEF Rests, Prog

\* A timer that goes on waits for something ahead of vr_ur.
LEMMA StillAhead ==
    ASSUME NEW f, Set(f), NEW z, NEW u \in Nat, Rests(f, z, u),
           NEW h \in Nat, NEW n \in Nat, NEW u0 \in Nat, NEW x \in Nat, h - WINDOW <= u0, u0 <= x, x <= h,
           u0 = x => u0 = h, n < h + WINDOW,
           f.high = (IF n < h THEN h ELSE n + 1), h < n => f.stop = h,
           vr_ux = x % MOD, StillWaiting(f.high % MOD, z)
    PROVE  u < x
<1>0. z \in Reassemblies /\ Basic(f, z, u) /\ f.high - WINDOW <= u BY DEF Rests
<1>1. PICK g \in Nat, s \in Nat : g = f.high /\ s = f.stop /\ s <= g /\ u <= s /\ g - WINDOW <= u
  BY <1>0, SettingsType DEF Basic
<1>2. u <= g /\ g - (WINDOW + MOD) <= u /\ u < g + WINDOW BY <1>1, Sizes, SMT
<1>3. z.vr_ur = u % MOD BY <1>0 DEF Basic
<1>4. Offset(u % MOD, Plus(g % MOD, WINDOW)) = (u - g) + WINDOW BY <1>1, <1>2, Ahead
<1>5. /\ ~(Offset(x % MOD, Plus(g % MOD, WINDOW)) <= Offset(u % MOD, Plus(g % MOD, WINDOW)))
      /\ InsideFor(g % MOD, z.window, x % MOD) \/ x % MOD = g % MOD
  BY <1>1, <1>3 DEF StillWaiting
<1>6. g = (IF n < h THEN h ELSE n + 1) /\ (h < n => s = h) BY <1>1
<1>7. CASE g - WINDOW <= x
  <2>1. g - (WINDOW + MOD) <= x /\ x < g + WINDOW
    <3>1. h <= g BY <1>6, SMT
    <3> QED BY <1>7, <3>1, Sizes, SMT
  <2>2. Offset(x % MOD, Plus(g % MOD, WINDOW)) = (x - g) + WINDOW BY <1>7, <2>1, Ahead
  <2>3. ~((x - g) + WINDOW <= (u - g) + WINDOW) BY <1>4, <1>5, <2>2
  <2> QED BY <2>3, Sizes, SMT
<1>8. CASE ~(g - WINDOW <= x)
  <2>1. ~(n < h) /\ g = n + 1 BY <1>6, <1>8, Sizes, SMT
  <2>2. h < n
    <3> SUFFICES ASSUME n = h PROVE FALSE BY <2>1, SMT
    <3>1. u0 = x BY <1>8, <2>1, Sizes, SMT
    <3> QED BY <1>8, <2>1, <3>1, Sizes, SMT
  <2>3. u < g /\ g - (WINDOW + MOD) <= x /\ x < g + WINDOW /\ g - x < MOD /\ x - g < MOD /\ x # g
    <3>1. u <= h BY <1>1, <1>6, <2>2
    <3>2. u0 = x => x = h OBVIOUS
    <3> QED BY <1>8, <2>1, <2>2, <3>1, <3>2, Sizes, SMT
  <2>4. x % MOD # g % MOD BY <2>3, SnSame
  <2>5. DOMAIN z.window # {} BY <1>0, <1>1, <2>3 DEF Basic
  <2>6. Offset(x % MOD, Plus(g % MOD, WINDOW)) = ((x - g) + WINDOW) + MOD BY <1>8, <2>3, Ahead
  <2>7. Offset(g % MOD, Plus(g % MOD, WINDOW)) = (g - g) + WINDOW
    <3>1. g - (WINDOW + MOD) <= g /\ g < g + WINDOW /\ g - WINDOW <= g BY Sizes, SMT
    <3> QED BY <3>1, Ahead
  <2>8. ~(((x - g) + WINDOW) + MOD < (g - g) + WINDOW) BY <2>3, Sizes, SMT
  <2> QED BY <1>5, <2>4, <2>5, <2>6, <2>7, <2>8 DEF InsideFor
<1> QED BY <1>7, <1>8

-----------------------------------------------------------------------------
(***************************************************************************)
(* The SDUs that wait: u is what is left of the one being sent and q the   *)
(* queue behind it, after the cut c; w were written.                       *)
(***************************************************************************)
Queued(u, q, c, w) ==
    /\ (u = << >>) = (c.k = 0)
    /\ u # << >> => Piece(u, c.done + 1, c.k, TRUE)
    /\ \A i \in 1 .. Len(q) : Piece(q[i], (IF u = << >> THEN c.done ELSE c.done + 1) + i, 0, TRUE)
    /\ w = (IF u = << >> THEN c.done ELSE c.done + 1) + Len(q)

\* The same, of the two taken together.
Lined(t, c, w) ==
    /\ t \in Seq(Seq(Unit)) /\ w = c.done + Len(t)
    /\ \A i \in 1 .. Len(t) : Piece(t[i], c.done + i, IF i = 1 THEN c.k ELSE 0, TRUE)

\* ToSend lines up the half-sent SDU and the queue.
LEMMA QueuedLined ==
    ASSUME NEW u \in Seq(Unit), NEW q \in Seq(Seq(Unit)), NEW c \in Cut, NEW w \in Nat,
           Queued(u, q, c, w), NEW t, t = IF u = << >> THEN q ELSE <<u>> \o q
    PROVE  Lined(t, c, w)
<1>1. PICK a \in Nat, n \in Nat : a = c.done /\ n = Len(q) BY LenProperties DEF Cut
<1>2. CASE u = << >>
  <2>1. t = q /\ c.k = 0 BY <1>2 DEF Queued
  <2>2. w = a + n /\ \A i \in 1 .. n : Piece(q[i], a + i, 0, TRUE) BY <1>1, <1>2 DEF Queued
  <2> QED BY <1>1, <2>1, <2>2 DEF Lined
<1>3. CASE u # << >>
  <2>1. PICK s : s = <<u>> OBVIOUS
  <2>2. s \in Seq(Seq(Unit)) /\ Len(s) = 1 /\ s[1] = u BY <2>1
  <2>3. t = s \o q BY <1>3, <2>1
  <2>4. /\ t \in Seq(Seq(Unit)) /\ Len(t) = 1 + n
        /\ \A i \in 1 .. 1 + n : t[i] = IF i <= 1 THEN s[i] ELSE q[i - 1]
    <3>1. /\ s \o q \in Seq(Seq(Unit)) /\ Len(s \o q) = Len(s) + Len(q)
          /\ \A i \in 1 .. Len(s) + Len(q) : (s \o q)[i] = IF i <= Len(s) THEN s[i] ELSE q[i - Len(s)]
      BY <2>2, ConcatProperties
    <3> QED BY <1>1, <2>2, <2>3, <3>1
  <2>5. Piece(u, a + 1, c.k, TRUE) /\ w = (a + 1) + n BY <1>1, <1>3 DEF Queued
  <2>6. w = a + (1 + n) BY <2>5, SMT
  <2>7. ASSUME NEW i \in 1 .. 1 + n PROVE Piece(t[i], a + i, IF i = 1 THEN c.k ELSE 0, TRUE)
    <3>1. CASE i = 1
      <4>1. i <= 1 BY <3>1, SMT
      <4> QED BY <2>2, <2>4, <2>5, <3>1, <4>1
    <3>2. CASE i # 1
      <4>1. ~(i <= 1) /\ i - 1 \in 1 .. n /\ (a + 1) + (i - 1) = a + i BY <3>2, SMT
      <4>2. PICK j \in 1 .. n : j = i - 1 /\ (a + 1) + j = a + i BY <4>1
      <4>3. t[i] = q[j] BY <2>4, <4>1, <4>2
      <4>4. Piece(q[j], (a + 1) + j, 0, TRUE) BY <1>1, <1>3 DEF Queued
      <4> QED BY <3>2, <4>2, <4>3, <4>4
    <3> QED BY <3>1, <3>2
  <2> QED BY <1>1, <2>4, <2>6, <2>7 DEF Lined
<1> QED BY <1>2, <1>3

\* PDU p is between the cuts c and d; what is left of an SDU, x, waits before q.
Builds(p, c, d, x, q, w) ==
    /\ p.segs \in Seq(Seq(Unit)) /\ Carries(p, c, d) /\ c.done <= d.done
    /\ x \in Seq(Unit) /\ q \in Seq(Seq(Unit)) /\ Queued(x, q, d, w)

\* A PDU that ends with the first used units of t[last] lies between two cuts, and
\* what is left to send starts at the second.
LEMMA BuiltPdu ==
    ASSUME NEW t, NEW c \in Cut, NEW w \in Nat, Lined(t, c, w),
           NEW last \in 1 .. Len(t), NEW used \in 1 .. Len(t[last]), NEW p,
           p.segs = Append(SubSeq(t, 1, last - 1), SubSeq(t[last], 1, used)),
           p.start = (c.k = 0), p.end = (used = Len(t[last])),
           NEW x, x = SubSeq(t[last], used + 1, Len(t[last])),
           NEW q, q = SubSeq(t, last + 1, Len(t))
    PROVE  \E d \in Cut : Builds(p, c, d, x, q, w)
<1>0. t \in Seq(Seq(Unit)) BY DEF Lined
<1>1. PICK a \in Nat, k \in Nat, n \in Nat, l \in Nat, m \in Nat :
           a = c.done /\ k = c.k /\ n = Len(t) /\ l = last /\ m + 1 = l /\ l <= n /\ l > 0
  <2>1. Len(t) \in Nat BY <1>0, LenProperties
  <2>2. last \in Nat /\ last - 1 \in Nat /\ (last - 1) + 1 = last /\ last <= Len(t) /\ last > 0 BY <2>1, SMT
  <2> QED BY <2>1, <2>2 DEF Cut
<1>2. PICK b \in Nat, f \in Seq(Unit) : b = (IF l = 1 THEN k ELSE 0) /\ f = t[l]
  <2>1. t[l] \in Seq(Unit) BY <1>0, <1>1, ElementOfSeq
  <2>2. (IF l = 1 THEN k ELSE 0) \in Nat BY <1>1, SMT
  <2> QED BY <2>1, <2>2
<1>3. \A i \in 1 .. n : Piece(t[i], a + i, IF i = 1 THEN k ELSE 0, TRUE) /\ t[i] \in Seq(Unit)
  BY <1>0, <1>1, ElementOfSeq DEF Lined
<1>4. l \in 1 .. n /\ a + l \in Nat /\ Piece(f, a + l, b, TRUE)
  <2>1. l \in 1 .. n /\ a + l \in Nat BY <1>1, SMT
  <2> QED BY <1>2, <1>3, <2>1
<1>5. PICK y, z, o : /\ y = SubSeq(f, 1, used) /\ z = SubSeq(f, used + 1, Len(f)) /\ o = used
                     /\ o \in 1 .. Len(f) /\ o \in Nat /\ o > 0
  <2>1. used \in 1 .. Len(f) BY <1>1, <1>2
  <2>2. used \in Nat /\ used > 0 BY <2>1, SMT
  <2> QED BY <2>1, <2>2
<1>6. /\ y \in Seq(Unit) /\ Len(y) = o /\ Piece(y, a + l, b, o = Len(f))
      /\ o = Len(f) => z = << >>
      /\ o # Len(f) => z \in Seq(Unit) /\ Piece(z, a + l, b + o, TRUE)
  <2>1. PICK s \in Nat : s = a + l BY <1>4
  <2>2. Piece(f, s, b, TRUE) BY <1>4, <2>1
  <2>3. o \in 1 .. Len(f) BY <1>5
  <2>4. Split(SubSeq(f, 1, o), SubSeq(f, o + 1, Len(f)), s, b, o, Len(f)) BY <2>2, <2>3, PieceSplit
  <2>5. Split(y, z, s, b, o, Len(f)) BY <1>5, <2>4
  <2> QED BY <2>1, <2>5 DEF Split
<1>7. PICK g : g = SubSeq(t, 1, m) OBVIOUS
<1>8. g \in Seq(Seq(Unit)) /\ Len(g) = m /\ \A i \in 1 .. m : g[i] = t[i]
  <2>1. \A i \in 1 .. m : i \in 1 .. n BY <1>1, SMT
  <2>2. \A i \in 1 .. m : t[i] \in Seq(Unit) BY <1>3, <2>1
  <2>3. 1 \in Int /\ m \in Int /\ (IF 1 <= m THEN m - 1 + 1 ELSE 0) = m /\ m - 1 + 1 = m
    BY <1>1, SMT
  <2>4. /\ SubSeq(t, 1, m) \in Seq(Seq(Unit))
        /\ Len(SubSeq(t, 1, m)) = IF 1 <= m THEN m - 1 + 1 ELSE 0
        /\ \A i \in 1 .. m - 1 + 1 : SubSeq(t, 1, m)[i] = t[1 + i - 1]
    BY <2>2, <2>3, SubSeqProperties
  <2>5. \A i \in 1 .. m : 1 + i - 1 = i BY SMT
  <2> QED BY <1>7, <2>3, <2>4, <2>5
<1>9. PICK h : h = SubSeq(t, l + 1, n) OBVIOUS
<1>10. PICK r \in Nat : n = l + r
  <2>1. n - l \in Nat /\ n = l + (n - l) BY <1>1, SMT
  <2> QED BY <2>1
<1>11. h \in Seq(Seq(Unit)) /\ Len(h) = r /\ \A i \in 1 .. r : h[i] = t[l + i]
  <2>1. \A i \in l + 1 .. n : i \in 1 .. n BY <1>1, SMT
  <2>7. l + 1 \in Int /\ n \in Int BY <1>1, SMT
  <2>2. l + 1 \in Int /\ n \in Int /\ \A i \in l + 1 .. n : t[i] \in Seq(Unit) BY <1>3, <2>1, <2>7
  <2>3. PICK j \in Int : j = l + 1 BY <2>2
  <2>4. /\ SubSeq(t, j, n) \in Seq(Seq(Unit))
        /\ Len(SubSeq(t, j, n)) = IF j <= n THEN n - j + 1 ELSE 0
        /\ \A i \in 1 .. n - j + 1 : SubSeq(t, j, n)[i] = t[j + i - 1]
    <3>1. \A i \in j .. n : t[i] \in Seq(Unit) BY <2>2, <2>3
    <3> QED BY <3>1, SubSeqProperties
  <2>5. (IF j <= n THEN n - j + 1 ELSE 0) = r /\ n - j + 1 = r BY <1>10, <2>3, SMT
  <2>6. \A i \in 1 .. r : j + i - 1 = l + i BY <1>10, <2>3, SMT
  <2> QED BY <1>9, <2>3, <2>4, <2>5, <2>6
<1>12. p.segs = Append(g, y)
  <2>1. last - 1 = m BY <1>1, SMT
  <2> QED BY <1>1, <1>2, <1>5, <1>7, <2>1
<1>13. /\ p.segs \in Seq(Seq(Unit)) /\ Len(p.segs) = l /\ p.segs[l] = y
       /\ \A i \in 1 .. m : p.segs[i] = t[i]
  <2>1. /\ Append(g, y) \in Seq(Seq(Unit)) /\ Len(Append(g, y)) = Len(g) + 1
        /\ \A i \in 1 .. Len(g) : Append(g, y)[i] = g[i]
        /\ Append(g, y)[Len(g) + 1] = y
    <3>1. y \in Seq(Unit) /\ g \in Seq(Seq(Unit)) BY <1>6, <1>8
    <3> QED BY <3>1, AppendProperties
  <2> QED BY <1>1, <1>8, <1>12, <2>1
<1>14. p.end = (o = Len(f)) BY <1>1, <1>2, <1>5
<1>15. ASSUME NEW i \in 1 .. l
       PROVE Piece(p.segs[i], a + i, IF i = 1 THEN k ELSE 0, i < l \/ p.end)
  <2>1. CASE i = l
    <3>1. ~(i < l) BY <2>1, SMT
    <3>2. (i < l \/ p.end) = (o = Len(f)) BY <1>14, <3>1
    <3> QED BY <1>2, <1>6, <1>13, <2>1, <3>2
  <2>2. CASE i # l
    <3>1. i \in 1 .. m /\ i \in 1 .. n /\ i < l BY <1>1, <2>2, SMT
    <3>2. (i < l \/ p.end) = TRUE BY <3>1
    <3> QED BY <1>3, <1>13, <3>1, <3>2
  <2> QED BY <2>1, <2>2
<1>16. p.segs # << >>
  <2>1. l # 0 BY <1>1, SMT
  <2> QED BY <1>13, <2>1, EmptySeq
<1>17. \A i \in 1 .. r : l + i \in 1 .. n /\ (a + l) + i = a + (l + i) /\ l + i # 1 BY <1>1, <1>10, SMT
<1>18. w = (a + l) + r
  <2>1. w = a + n BY <1>1 DEF Lined
  <2> QED BY <1>10, <2>1, SMT
<1>19. \A i \in 1 .. r : Piece(h[i], (a + l) + i, 0, TRUE)
  <2> TAKE i \in 1 .. r
  <2>1. Piece(t[l + i], a + (l + i), 0, TRUE) BY <1>3, <1>17
  <2> QED BY <1>11, <1>17, <2>1
<1>20. CASE o = Len(f)
  <2>1. PICK d : d = [done |-> a + l, k |-> 0] OBVIOUS
  <2>2. d \in Cut /\ d.done = a + l /\ d.k = 0 BY <1>4, <2>1 DEF Cut
  <2>3. z = << >> /\ z \in Seq(Unit) BY <1>6, <1>20, EmptySeq
  <2>4. a <= a + l BY SMT
  <2>5. p.end = TRUE BY <1>14, <1>20
  <2>6. Carries(p, c, d) BY <1>1, <1>13, <1>15, <1>16, <2>2, <2>5 DEF Carries
  <2>7. Queued(z, h, d, w) BY <1>11, <1>18, <1>19, <2>2, <2>3 DEF Queued
  <2> QED BY <1>1, <1>2, <1>5, <1>9, <1>11, <1>13, <2>2, <2>3, <2>4, <2>6, <2>7 DEF Builds
<1>21. CASE o # Len(f)
  <2>0. o \in Nat /\ o > 0 BY <1>5
  <2>1. PICK e \in Nat, v \in Nat : e = a + m /\ v = b + o
    <3>1. a + m \in Nat /\ b + o \in Nat BY <2>0, SMT
    <3>2. PICK e, v : e = a + m /\ v = b + o OBVIOUS
    <3> QED BY <3>1, <3>2
  <2>9. PICK d : d = [done |-> e, k |-> v] OBVIOUS
  <2>2. d \in Cut /\ d.done = e /\ d.k = v /\ e + 1 = a + l /\ a <= e /\ v # 0
    <3>2. m + 1 = l /\ a \in Nat /\ m \in Nat /\ b \in Nat BY <1>1, <1>2
    <3>3. e + 1 = a + l /\ a <= e BY <2>1, <3>2, SMT
    <3>4. v # 0 BY <2>0, <2>1, <3>2, SMT
    <3>1. e + 1 = a + l /\ a <= e /\ v # 0 BY <3>3, <3>4
    <3> QED BY <2>1, <2>9, <3>1 DEF Cut
  <2>3. z \in Seq(Unit) /\ Piece(z, e + 1, v, TRUE) /\ z # << >> BY <1>6, <1>21, <2>1, <2>2 DEF Piece
  <2>5. p.end = FALSE BY <1>14, <1>21
  <2>6. v = (IF l = 1 THEN k ELSE 0) + Len(p.segs[l]) BY <1>2, <1>6, <1>13, <2>1
  <2>7. Carries(p, c, d) BY <1>1, <1>13, <1>15, <1>16, <2>2, <2>5, <2>6 DEF Carries
  <2>8. Queued(z, h, d, w) BY <1>11, <1>18, <1>19, <2>2, <2>3 DEF Queued
  <2> QED BY <1>1, <1>2, <1>5, <1>9, <1>11, <1>13, <2>2, <2>3, <2>7, <2>8 DEF Builds
<1> QED BY <1>20, <1>21

\* A new SDU joins the queue.
LEMMA WrittenSdu ==
    ASSUME NEW u \in Seq(Unit), NEW q \in Seq(Seq(Unit)), NEW c \in Cut, NEW w \in Nat,
           Queued(u, q, c, w), NEW length \in Nat, length # 0, NEW v \in Nat, v = w + 1,
           NEW x, x = Sdu(v, length), NEW y, y = Append(q, x)
    PROVE  y \in Seq(Seq(Unit)) /\ Queued(u, y, c, v)
<1>1. PICK a \in Nat, n \in Nat : a = (IF u = << >> THEN c.done ELSE c.done + 1) /\ n = Len(q)
  <2>1. c.done \in Nat /\ c.done + 1 \in Nat /\ Len(q) \in Nat BY LenProperties, SMT DEF Cut
  <2> QED BY <2>1
<1>2. v = a + (n + 1)
  <2>1. w = a + n BY <1>1 DEF Queued
  <2> QED BY <2>1, SMT
<1>3. x \in Seq(Unit) /\ Piece(x, v, 0, TRUE)
  <2>1. 0 \in Nat /\ length = 0 + length BY SMT
  <2>2. AreUnits(Units(v, 0, length, TRUE), v, 0, length, length, TRUE) BY <2>1, UnitsAre
  <2>3. x = Units(v, 0, length, TRUE) BY DEF Sdu
  <2>4. x \in Seq(Unit) /\ Len(x) = length BY <2>2, <2>3 DEF AreUnits
  <2> QED BY <2>1, <2>3, <2>4, EmptySeq DEF Piece
<1>4. /\ y \in Seq(Seq(Unit)) /\ Len(y) = n + 1 /\ \A i \in 1 .. n : y[i] = q[i]
      /\ y[n + 1] = x
  BY <1>1, <1>3, AppendProperties
<1>5. ASSUME NEW i \in 1 .. n + 1 PROVE Piece(y[i], a + i, 0, TRUE)
  <2>1. CASE i = n + 1 BY <1>2, <1>3, <1>4, <2>1
  <2>2. CASE i \in 1 .. n
    <3>1. Piece(q[i], a + i, 0, TRUE) BY <1>1, <2>2 DEF Queued
    <3> QED BY <1>4, <2>2, <3>1
  <2>3. i = n + 1 \/ i \in 1 .. n BY SMT
  <2> QED BY <2>1, <2>2, <2>3
<1> QED BY <1>1, <1>2, <1>4, <1>5 DEF Queued

-----------------------------------------------------------------------------
(***************************************************************************)
(* The inductive invariant.  There are cuts between the PDUs sent, and a   *)
(* number u that is vr_ur, such that                                       *)
(***************************************************************************)
Now(cut) == [high |-> um_highest, stop |-> um_highest, low |-> um_highest - MOD,
             sent |-> um_sent, cut |-> cut, gone |-> {air[i].n : i \in DOMAIN air},
             bad |-> broken]

UmTypes ==
    /\ um_sent \in Nat /\ um_highest \in Nat /\ um_written \in Nat
    /\ vt_us = um_sent % MOD /\ vr_uh = um_highest % MOD
    /\ vr_ux \in SN /\ t_reordering \in BOOLEAN
    /\ um_sdu \in Seq(Unit) /\ um_queue \in Seq(Seq(Unit))
    /\ air \in Seq(UmPdus) /\ broken \in SUBSET Nat
    /\ um_sent <= um_highest + WINDOW /\ um_highest <= um_sent + WINDOW
    /\ um_sent > 0 \/ t_reordering => um_written > 0

\* ... a PDU under way is what is between two cuts, and near the others;
Flying(p, cut, sent, high) ==
    /\ p.sn = p.n % MOD /\ p.n < sent /\ sent - p.n <= WINDOW /\ high - WINDOW <= p.n
    /\ Carries(p, cut[p.n], cut[p.n + 1])

\* ... what waits is behind the last cut;
Sent(cut) == /\ CutsInOrder(cut)
             /\ \A n \in Nat : um_sent <= n => cut[n] = cut[um_sent]
             /\ Queued(um_sdu, um_queue, cut[um_sent], um_written)
             /\ \A i \in DOMAIN air : Flying(air[i], cut, um_sent, um_highest)

\* ... the timer runs while there is a gap, and waits for a PDU not yet passed;
AwaitedAt(x, u) == /\ vr_ux = x % MOD /\ x <= um_highest /\ u <= x
                   /\ u = x => u = um_highest /\ 1 \in broken

Awaits(u) == /\ u < um_highest => t_reordering
             /\ t_reordering => \E x \in Nat : AwaitedAt(x, u)

\* ... and the receiver has delivered what it says here.
Received(cut, u) == Rests(Now(cut), Reassembly, u) /\ Prog(Now(cut), Reassembly, u)

UmFits(cut, u) == Sent(cut) /\ Awaits(u) /\ Received(cut, u)

UmInv == UmTypes /\ \E cut \in [Nat -> Cut], u \in Nat : UmFits(cut, u)

LEMMA NowSet ==
    ASSUME UmTypes, NEW cut \in [Nat -> Cut], CutsInOrder(cut)
    PROVE  Set(Now(cut))
<1>1. um_highest - WINDOW <= um_highest /\ um_highest <= um_highest /\ um_highest - MOD \in Int
  BY Sizes, SMT DEF UmTypes
<1>2. {air[i].n : i \in DOMAIN air} \in SUBSET Nat
  <2> SUFFICES ASSUME NEW i \in DOMAIN air PROVE air[i].n \in Nat OBVIOUS
  <2>1. air[i] \in UmPdus BY ElementOfSeq DEF UmTypes
  <2> QED BY <2>1 DEF UmPdus
<1> QED BY <1>1, <1>2 DEF Set, Settings, Now, UmTypes

LEMMA InitFits == ASSUME UmInit PROVE UmInv
<1>0. WINDOW \in Nat /\ WINDOW > 0 /\ MOD = 2 * WINDOW /\ MOD \in Nat /\ 0 % MOD = 0 /\ 0 \in SN
  BY Sizes, SMT DEF SN
<1>1. /\ << >> \in Seq(Unit) /\ << >> \in Seq(Seq(Unit)) /\ << >> \in Seq(UmPdus)
      /\ Len(<< >>) = 0 /\ DOMAIN << >> = {} /\ DOMAIN EmptyMap = {}
  BY SMT DEF EmptyMap
<1>2. PICK c : c = [done |-> 0, k |-> 0] OBVIOUS
<1>3. PICK cut : cut = [n \in Nat |-> c] OBVIOUS
<1>4. c \in Cut /\ c.done = 0 /\ c.k = 0 /\ cut \in [Nat -> Cut] /\ \A n \in Nat : cut[n] = c
  BY <1>2, <1>3 DEF Cut
<1>5. UmTypes
  <2>1. 0 <= 0 + WINDOW /\ ~(0 > 0) BY <1>0, SMT
  <2> QED BY <1>0, <1>1, <2>1 DEF UmTypes, UmInit
<1>6. Sent(cut)
  <2>1. Queued(<< >>, << >>, c, 0)
    <3>1. 0 = 0 + 0 /\ \A i \in 1 .. 0 : FALSE BY SMT
    <3> QED BY <1>1, <1>4, <3>1 DEF Queued
  <2>2. CutsInOrder(cut)
    <3>1. 0 <= 0 BY SMT
    <3> QED BY <1>4, <3>1 DEF CutsInOrder
  <2> QED BY <1>1, <1>4, <2>1, <2>2 DEF Sent, UmInit
<1>7. Awaits(0)
  <2>1. ~(0 < 0) BY SMT
  <2> QED BY <2>1 DEF Awaits, UmInit
<1>8. PICK e, r : e = Now(cut) /\ r = Reassembly OBVIOUS
<1>9. /\ e.high = 0 /\ e.stop = 0 /\ e.low = 0 - MOD /\ e.sent = 0 /\ e.cut = cut
  BY <1>8 DEF Now, UmInit
<1>10. /\ r.vr_ur = 0 /\ r.pdu_lost = FALSE /\ r.rx_sdu = << >> /\ r.window = EmptyMap /\ r.out = << >>
       /\ r \in Reassemblies
  <2>1. EmptyMap \in Windows
    <3>1. EmptyMap \in [{} -> UmPdus] BY <1>1, SMT DEF EmptyMap
    <3> QED BY <3>1 DEF Windows
  <2> QED BY <1>0, <1>1, <1>8, <2>1 DEF Reassembly, UmInit, Reassemblies
<1>11. 0 - MOD <= 0 /\ 0 - WINDOW <= 0 /\ 0 <= 0 /\ ~(0 < 0) /\ \A n \in Nat : ~(n < 0) BY <1>0, SMT
<1>12. Ordered(<< >>, 0)
  <2>1. \A i \in 1 .. 0 : FALSE BY SMT
  <2> QED BY <1>1, <2>1 DEF Ordered
<1>13. HasAll(<< >>, 0, 0)
  <2>1. \A s \in Nat : ~(0 < s /\ s <= 0) BY SMT
  <2> QED BY <2>1 DEF HasAll
<1>14. Basic(e, r, 0)
  BY <1>0, <1>1, <1>4, <1>9, <1>10, <1>11, <1>12 DEF Basic, InWindow, Holding, Accounted
<1>15. Rests(e, r, 0) BY <1>1, <1>9, <1>10, <1>11, <1>14 DEF Rests
<1>16. Clean(e, r, 0) BY <1>4, <1>9, <1>10, <1>11, <1>13 DEF Clean, UpToDate
<1>17. UmFits(cut, 0) BY <1>6, <1>7, <1>8, <1>15, <1>16 DEF UmFits, Received, Prog
<1>18. 0 \in Nat BY SMT
<1> QED BY <1>4, <1>5, <1>17, <1>18 DEF UmInv

\* What a step leaves is put together from its parts.
LEMMA FitsNext ==
    ASSUME UmTypes', NEW cut \in [Nat -> Cut], NEW u \in Nat, Sent(cut)', Awaits(u)',
           NEW f, NEW z, f = Now(cut)', z = Reassembly', Rests(f, z, u), Prog(f, z, u)
    PROVE  UmInv'
<1>1. Rests(Now(cut)', Reassembly', u) /\ Prog(Now(cut)', Reassembly', u) OBVIOUS
<1>2. Received(cut, u)' BY <1>1 DEF Received
<1>3. UmFits(cut, u)' BY <1>2 DEF UmFits
<1> QED BY <1>3 DEF UmInv

LEMMA StutterFits == ASSUME UmInv, UNCHANGED umVars PROVE UmInv'
<1> USE DEF umVars, umTx, umRx
<1>1. UmTypes' BY DEF UmInv, UmTypes
<1>2. PICK cut \in [Nat -> Cut], u \in Nat : UmFits(cut, u) BY DEF UmInv
<1>3. Sent(cut)' BY <1>2 DEF UmFits, Sent
<1>4. Awaits(u)' BY <1>2 DEF UmFits, Awaits, AwaitedAt
<1>5. Now(cut)' = Now(cut) /\ Reassembly' = Reassembly BY DEF Now, Reassembly
<1>6. PICK f, z : f = Now(cut)' /\ z = Reassembly' OBVIOUS
<1>7. Rests(f, z, u) /\ Prog(f, z, u) BY <1>2, <1>5, <1>6 DEF UmFits, Received
<1> QED BY <1>1, <1>3, <1>4, <1>6, <1>7, FitsNext

\* UmWriteSdu.
LEMMA WriteFits ==
    ASSUME UmInv, NEW length \in SDU_LENGTHS, UmWriteSdu(length)
    PROVE  UmInv'
<1>1. /\ um_queue' = Append(um_queue, Sdu(um_written + 1, length)) /\ um_written' = um_written + 1
      /\ UNCHANGED <<vt_us, um_sdu, um_sent, um_highest, umRx, air, broken>>
  BY DEF UmWriteSdu
<1>2. length \in Nat /\ length # 0 BY UmAssumption
<1>3. PICK cut \in [Nat -> Cut], u \in Nat : UmFits(cut, u) BY DEF UmInv
<1>4. UmTypes BY DEF UmInv
<1>5. PICK w \in Nat, v \in Nat : w = um_written /\ v = w + 1 /\ v > 0 BY <1>4, SMT DEF UmTypes
<1>6. PICK x, y : x = Sdu(v, length) /\ y = Append(um_queue, x) OBVIOUS
<1>7. um_queue' = y /\ um_written' = v BY <1>1, <1>5, <1>6
<1>8. y \in Seq(Seq(Unit)) /\ Queued(um_sdu, y, cut[um_sent], v)
  <2>1. um_sdu \in Seq(Unit) /\ um_queue \in Seq(Seq(Unit)) /\ cut[um_sent] \in Cut BY <1>4 DEF UmTypes
  <2>2. Queued(um_sdu, um_queue, cut[um_sent], w) BY <1>3, <1>5 DEF UmFits, Sent
  <2> QED BY <1>2, <1>5, <1>6, <2>1, <2>2, WrittenSdu
<1>9. UmTypes' BY <1>1, <1>4, <1>5, <1>7, <1>8 DEF UmTypes, umRx
<1>10. Sent(cut)' BY <1>1, <1>3, <1>7, <1>8 DEF UmFits, Sent
<1>11. Awaits(u)' BY <1>1, <1>3 DEF UmFits, Awaits, AwaitedAt, umRx
<1>12. PICK f, z : f = Now(cut)' /\ z = Reassembly' OBVIOUS
<1>13. Now(cut)' = Now(cut) /\ Reassembly' = Reassembly BY <1>1 DEF Now, Reassembly, umRx
<1>14. Rests(f, z, u) /\ Prog(f, z, u) BY <1>3, <1>12, <1>13 DEF UmFits, Received
<1> QED BY <1>9, <1>10, <1>11, <1>12, <1>14, FitsNext

-----------------------------------------------------------------------------
\* The positions after one more PDU.
LEMMA OneMore ==
    ASSUME NEW s \in Nat, NEW h \in Nat, s < h + WINDOW, h <= s + WINDOW
    PROVE  /\ s + 1 \in Nat /\ s + 1 > 0 /\ s < s + 1 /\ s + 1 <= h + WINDOW /\ h <= (s + 1) + WINDOW
           /\ (s + 1) - s <= WINDOW /\ s <= s /\ s <= s + 1 /\ h - WINDOW <= s
           /\ \A n \in Nat : n < s /\ s - n < WINDOW => n < s + 1 /\ (s + 1) - n <= WINDOW
           /\ \A n \in Nat : n < s => n <= s /\ n + 1 <= s /\ n + 1 \in Nat
           /\ \A n \in Nat : s + 1 <= n => ~(n <= s)
           /\ ~(s + 1 <= s)
BY Sizes, SMT

\* BuildUmdPdu: the cut behind the new PDU is a new one, all others stay.
LEMMA BuildFits ==
    ASSUME UmInv, NEW grant, BuildUmdPdu(grant)
    PROVE  UmInv'
<1>1. PICK last \in DOMAIN ToSend : \E used \in 1 .. Len(ToSend[last]) :
          /\ air' = Append(air, [sn |-> vt_us, n |-> um_sent,
                                 segs |-> Append(SubSeq(ToSend, 1, last - 1),
                                                 SubSeq(ToSend[last], 1, used)),
                                 start |-> StartAligned, end |-> used = Len(ToSend[last])])
          /\ um_sdu' = SubSeq(ToSend[last], used + 1, Len(ToSend[last]))
          /\ um_queue' = SubSeq(ToSend, last + 1, Len(ToSend))
  BY DEF BuildUmdPdu
<1>2. PICK used \in 1 .. Len(ToSend[last]) :
          /\ air' = Append(air, [sn |-> vt_us, n |-> um_sent,
                                 segs |-> Append(SubSeq(ToSend, 1, last - 1),
                                                 SubSeq(ToSend[last], 1, used)),
                                 start |-> StartAligned, end |-> used = Len(ToSend[last])])
          /\ um_sdu' = SubSeq(ToSend[last], used + 1, Len(ToSend[last]))
          /\ um_queue' = SubSeq(ToSend, last + 1, Len(ToSend))
  BY <1>1
<1>3. /\ vt_us' = Plus(vt_us, 1) /\ um_sent' = um_sent + 1 /\ WithinWindow
      /\ UNCHANGED <<um_written, um_highest, umRx, broken>>
  BY DEF BuildUmdPdu
<1>4. UmTypes BY DEF UmInv
<1>5. PICK cut \in [Nat -> Cut], u \in Nat : UmFits(cut, u) BY DEF UmInv
<1>6. PICK s \in Nat, h \in Nat, w \in Nat : s = um_sent /\ h = um_highest /\ w = um_written
  BY <1>4 DEF UmTypes
<1>7. PICK t : t = ToSend OBVIOUS
<1>8. PICK c : c = cut[s] OBVIOUS
<1>9. c \in Cut /\ Queued(um_sdu, um_queue, c, w) BY <1>5, <1>6, <1>8 DEF UmFits, Sent
<1>10. Lined(t, c, w)
  <2>1. t = IF um_sdu = << >> THEN um_queue ELSE <<um_sdu>> \o um_queue BY <1>7 DEF ToSend
  <2>2. um_sdu \in Seq(Unit) /\ um_queue \in Seq(Seq(Unit)) BY <1>4 DEF UmTypes
  <2> QED BY <1>9, <2>1, <2>2, QueuedLined
<1>11. PICK i \in 1 .. Len(t) : i = last
  <2>1. t \in Seq(Seq(Unit)) BY <1>10 DEF Lined
  <2>2. DOMAIN t = 1 .. Len(t) BY <2>1, LenProperties
  <2> QED BY <1>7, <2>2
<1>12. PICK o \in 1 .. Len(t[i]) : o = used BY <1>7, <1>11
<1>13. PICK p : p = [sn |-> vt_us, n |-> um_sent,
                     segs |-> Append(SubSeq(t, 1, i - 1), SubSeq(t[i], 1, o)),
                     start |-> StartAligned, end |-> o = Len(t[i])]
  OBVIOUS
<1>14. air' = Append(air, p) /\ um_sdu' = SubSeq(t[i], o + 1, Len(t[i])) /\ um_queue' = SubSeq(t, i + 1, Len(t))
  BY <1>2, <1>7, <1>11, <1>12, <1>13
<1>15. /\ p.segs = Append(SubSeq(t, 1, i - 1), SubSeq(t[i], 1, o))
       /\ p.start = (c.k = 0) /\ p.end = (o = Len(t[i])) /\ p.sn = s % MOD /\ p.n = s
       /\ p = [sn |-> p.sn, n |-> p.n, segs |-> p.segs, start |-> p.start, end |-> p.end]
  <2>1. StartAligned = (c.k = 0) BY <1>9 DEF StartAligned, Queued
  <2>2. vt_us = s % MOD BY <1>4, <1>6 DEF UmTypes
  <2> QED BY <1>6, <1>13, <2>1, <2>2
<1>16. PICK d \in Cut : Builds(p, c, d, um_sdu', um_queue', w)
  <2>1. um_sdu' = SubSeq(t[i], o + 1, Len(t[i])) /\ um_queue' = SubSeq(t, i + 1, Len(t)) BY <1>14
  <2>2. /\ p.segs = Append(SubSeq(t, 1, i - 1), SubSeq(t[i], 1, o))
        /\ p.start = (c.k = 0) /\ p.end = (o = Len(t[i]))
    BY <1>15
  <2> QED BY <1>9, <1>10, <2>1, <2>2, BuiltPdu
<1>17. p \in UmPdus
  <2>1. p.sn \in SN /\ p.start \in BOOLEAN /\ p.end \in BOOLEAN BY <1>15, SnType
  <2> QED BY <1>6, <1>15, <1>16, <2>1 DEF UmPdus, Builds
<1>18. PICK v \in Nat : v = s + 1 /\ um_sent' = v
  <2>1. s + 1 \in Nat BY SMT
  <2> QED BY <1>3, <1>6, <2>1
<1>19. s < h + WINDOW /\ h <= s + WINDOW /\ \A j \in DOMAIN air : s - air[j].n < WINDOW
  BY <1>3, <1>4, <1>6 DEF UmTypes, WithinWindow
<1>20. /\ v > 0 /\ s < v /\ v <= h + WINDOW /\ h <= v + WINDOW /\ v - s <= WINDOW /\ s <= s /\ s <= v /\ h - WINDOW <= s
       /\ \A n \in Nat : n < s /\ s - n < WINDOW => n < v /\ v - n <= WINDOW
       /\ \A n \in Nat : n < s => n <= s /\ n + 1 <= s /\ n + 1 \in Nat
       /\ \A n \in Nat : v <= n => ~(n <= s)
       /\ ~(v <= s)
  BY <1>18, <1>19, OneMore
<1>21. PICK new : new = [n \in Nat |-> IF n <= s THEN cut[n] ELSE d] OBVIOUS
<1>22. /\ new \in [Nat -> Cut] /\ \A n \in Nat : n <= s => new[n] = cut[n]
       /\ \A n \in Nat : ~(n <= s) => new[n] = d
       /\ new[s] = c /\ new[v] = d
  BY <1>8, <1>16, <1>18, <1>20, <1>21
<1>23. \A n \in Nat : /\ cut[n].done \in Nat /\ new[n].done \in Nat /\ cut[n].done <= new[n].done
                      /\ n <= s => cut[n].done <= c.done
  <2> TAKE n \in Nat
  <2>1. cut[n].done \in Nat /\ new[n].done \in Nat BY <1>22 DEF Cut
  <2>2. \A a \in Nat : a <= a BY SMT
  <2>3. n <= s => cut[n].done <= c.done BY <1>5, <1>8 DEF UmFits, Sent, CutsInOrder
  <2>4. CASE n <= s BY <1>22, <2>1, <2>2, <2>3, <2>4
  <2>5. CASE ~(n <= s)
    <3>1. s <= n BY <2>5, SMT
    <3>2. cut[n] = c BY <1>5, <1>6, <1>8, <3>1 DEF UmFits, Sent
    <3> QED BY <1>16, <1>22, <2>1, <2>5, <3>2 DEF Builds
  <2> QED BY <2>4, <2>5
<1>24. CutsInOrder(new)
  <2> SUFFICES ASSUME NEW a \in Nat, NEW b \in Nat, a <= b PROVE new[a].done <= new[b].done
    BY DEF CutsInOrder
  <2>1. CASE b <= s
    <3>1. a <= s BY <2>1, SMT
    <3>2. cut[a].done <= cut[b].done BY <1>5 DEF UmFits, Sent, CutsInOrder
    <3> QED BY <1>22, <2>1, <3>1, <3>2
  <2>2. CASE a <= s /\ ~(b <= s)
    <3>1. new[a] = cut[a] /\ new[b] = d /\ cut[a].done <= c.done BY <1>22, <1>23, <2>2
    <3>2. PICK x \in Nat, y \in Nat, z \in Nat : x = cut[a].done /\ y = c.done /\ z = d.done
      BY <1>9, <1>16, <1>23 DEF Cut
    <3>4. y <= z BY <1>16, <3>2 DEF Builds
    <3>3. x <= z BY <3>1, <3>2, <3>4, SMT
    <3> QED BY <3>1, <3>2, <3>3
  <2>3. CASE ~(a <= s) /\ ~(b <= s)
    <3>1. new[a] = d /\ new[b] = d /\ d.done \in Nat BY <1>16, <1>22, <2>3 DEF Cut
    <3>2. \A x \in Nat : x <= x BY SMT
    <3> QED BY <3>1, <3>2
  <2>4. ~(a <= s) => ~(b <= s) BY SMT
  <2> QED BY <2>1, <2>2, <2>3, <2>4
<1>25. /\ air \in Seq(UmPdus) /\ Append(air, p) \in Seq(UmPdus)
       /\ \A j \in DOMAIN Append(air, p) : (j \in DOMAIN air /\ Append(air, p)[j] = air[j]) \/ Append(air, p)[j] = p
       /\ \A j \in DOMAIN air : j \in DOMAIN Append(air, p) /\ Append(air, p)[j] = air[j]
       /\ \E j \in DOMAIN Append(air, p) : Append(air, p)[j] = p
  <2>1. air \in Seq(UmPdus) BY <1>4 DEF UmTypes
  <2>2. PICK l \in Nat : l = Len(air) BY <2>1, LenProperties
  <2>3. /\ Append(air, p) \in Seq(UmPdus) /\ Len(Append(air, p)) = l + 1
        /\ \A j \in 1 .. l : Append(air, p)[j] = air[j]
        /\ Append(air, p)[l + 1] = p
    BY <1>17, <2>1, <2>2, AppendProperties
  <2>4. DOMAIN air = 1 .. l /\ DOMAIN Append(air, p) = 1 .. l + 1 BY <2>1, <2>2, <2>3, LenProperties
  <2>5. l + 1 \in 1 .. l + 1 /\ \A j \in 1 .. l + 1 : j = l + 1 \/ j \in 1 .. l BY SMT
  <2>6. \A j \in 1 .. l : j \in 1 .. l + 1 BY SMT
  <2> QED BY <2>1, <2>3, <2>4, <2>5, <2>6
<1>26. \A j \in DOMAIN air : air[j] \in UmPdus /\ air[j].n \in Nat /\ Flying(air[j], cut, s, h)
  <2>1. \A j \in DOMAIN air : Flying(air[j], cut, s, h) BY <1>5, <1>6 DEF UmFits, Sent
  <2>2. \A j \in DOMAIN air : air[j] \in UmPdus BY <1>25, ElementOfSeq
  <2>3. \A q \in UmPdus : q.n \in Nat BY DEF UmPdus
  <2> QED BY <2>1, <2>2, <2>3
<1>27. UmTypes'
  <2>1. Plus(vt_us, 1) = v % MOD
    <3>1. vt_us = s % MOD /\ s \in Int /\ 1 \in Int BY <1>4, <1>6, SMT DEF UmTypes
    <3> QED BY <1>18, <3>1, SnPlus
  <2>2. w > 0
    <3>1. 1 <= Len(t) BY <1>10, <1>11, SMT
    <3>2. Len(t) \in Nat /\ c.done \in Nat /\ w = c.done + Len(t) BY <1>9, <1>10, LenProperties DEF Lined, Cut
    <3> QED BY <3>1, <3>2, SMT
  <2>3. um_sdu' \in Seq(Unit) /\ um_queue' \in Seq(Seq(Unit)) /\ air' \in Seq(UmPdus)
    BY <1>14, <1>16, <1>25 DEF Builds
  <2> QED BY <1>3, <1>4, <1>6, <1>18, <1>20, <2>1, <2>2, <2>3 DEF UmTypes, umRx
<1>28. \A j \in DOMAIN Append(air, p) : Flying(Append(air, p)[j], new, v, h)
  <2> TAKE j \in DOMAIN Append(air, p)
  <2>1. CASE j \in DOMAIN air /\ Append(air, p)[j] = air[j]
    <3>1. PICK n \in Nat : n = air[j].n BY <1>26, <2>1
    <3>2. n < s /\ s - n < WINDOW BY <1>19, <1>26, <2>1, <3>1 DEF Flying
    <3>3. n < v /\ v - n <= WINDOW /\ n <= s /\ n + 1 <= s /\ n + 1 \in Nat BY <1>20, <3>2
    <3>4. new[n] = cut[n] /\ new[n + 1] = cut[n + 1] BY <1>22, <3>3
    <3> QED BY <1>26, <2>1, <3>1, <3>3, <3>4 DEF Flying
  <2>2. CASE Append(air, p)[j] = p BY <1>15, <1>16, <1>18, <1>20, <1>22, <2>2 DEF Flying, Builds
  <2> QED BY <1>25, <2>1, <2>2
<1>29. Sent(new)'
  <2>1. \A n \in Nat : v <= n => new[n] = new[v] BY <1>20, <1>22
  <2>2. Queued(um_sdu', um_queue', new[v], w) BY <1>16, <1>22 DEF Builds
  <2> QED BY <1>3, <1>6, <1>14, <1>18, <1>24, <1>28, <2>1, <2>2 DEF Sent
<1>30. Awaits(u)' BY <1>3, <1>5 DEF UmFits, Awaits, AwaitedAt, umRx
<1>31. PICK e, f, r : e = Now(cut) /\ f = Now(new)' /\ r = Reassembly OBVIOUS
<1>32. r = Reassembly' BY <1>3, <1>31 DEF Reassembly, umRx
<1>33. /\ SameWindow(e, f) /\ e.sent = s /\ f.sent = e.sent + 1 /\ f.bad = e.bad
       /\ e.cut = cut /\ f.cut = new
       /\ e.gone = {air[j].n : j \in DOMAIN air}
       /\ f.gone = {Append(air, p)[j].n : j \in DOMAIN Append(air, p)}
  BY <1>3, <1>6, <1>14, <1>18, <1>31 DEF Now, SameWindow
<1>34. f.gone = e.gone \cup {e.sent}
  <2>0. PICK a : a = Append(air, p) OBVIOUS
  <2>1. f.gone = {a[j].n : j \in DOMAIN a} /\ e.gone = {air[j].n : j \in DOMAIN air}
    BY <1>33, <2>0
  <2>2. ASSUME NEW j \in DOMAIN a PROVE a[j].n \in e.gone \cup {e.sent}
    <3>1. (j \in DOMAIN air /\ a[j] = air[j]) \/ a[j] = p BY <1>25, <2>0
    <3> QED BY <1>15, <1>33, <2>1, <3>1
  <2>3. ASSUME NEW j \in DOMAIN air PROVE air[j].n \in f.gone
    <3>1. j \in DOMAIN a /\ a[j] = air[j] BY <1>25, <2>0
    <3> QED BY <2>1, <3>1
  <2>4. e.sent \in f.gone
    <3>1. PICK j \in DOMAIN a : a[j] = p BY <1>25, <2>0
    <3>2. a[j].n = e.sent BY <1>15, <1>33, <3>1
    <3> QED BY <2>1, <3>2
  <2> QED BY <2>1, <2>2, <2>3, <2>4
<1>35. Set(e) /\ Set(f)
  <2>1. CutsInOrder(cut) BY <1>5 DEF UmFits, Sent
  <2>2. Set(e) BY <1>4, <1>31, <2>1, NowSet
  <2>3. f \in Settings
    <3>1. f.gone \in SUBSET Nat /\ f.sent \in Nat
      <4>1. e.gone \in SUBSET Nat /\ e.sent \in Nat BY <2>2, SettingsType
      <4> QED BY <1>18, <1>33, <1>34, <4>1
    <3>2. f.high \in Nat /\ f.stop \in Nat /\ f.low \in Int /\ f.bad \in SUBSET Nat
      BY <1>33, <2>2, SettingsType DEF SameWindow
    <3>3. f = [high |-> f.high, stop |-> f.stop, low |-> f.low, sent |-> f.sent, cut |-> f.cut,
               gone |-> f.gone, bad |-> f.bad]
      BY <1>31 DEF Now
    <3> QED BY <1>22, <1>33, <3>1, <3>2, <3>3 DEF Settings
  <2> QED BY <1>24, <1>33, <2>2, <2>3 DEF Set, SameWindow
<1>36. Rests(f, r, u) /\ Prog(f, r, u)
  <2>1. Rests(e, r, u) /\ Prog(e, r, u) BY <1>5, <1>31 DEF UmFits, Received
  <2>2. \A n \in e.gone : n < e.sent BY <1>26, <1>33 DEF Flying
  <2>3. \A n \in Nat : n <= e.sent => f.cut[n] = e.cut[n] BY <1>22, <1>33
  <2>4. \A n \in Nat : e.cut[n].done <= f.cut[n].done BY <1>23, <1>33
  <2> QED BY <1>33, <1>34, <1>35, <2>1, <2>2, <2>3, <2>4, Sends
<1> QED BY <1>22, <1>27, <1>29, <1>30, <1>31, <1>32, <1>36, FitsNext

-----------------------------------------------------------------------------
(***************************************************************************)
(* A PDU arrives or is lost.                                               *)
(***************************************************************************)
LEMMA RemoveAtIs ==
    ASSUME NEW S, NEW s \in Seq(S), NEW i \in DOMAIN s
    PROVE  /\ RemoveAt(s, i) \in Seq(S)
           /\ DOMAIN RemoveAt(s, i) = 1 .. Len(s) - 1
           /\ \A j \in 1 .. Len(s) - 1 :
                 /\ RemoveAt(s, i)[j] = s[IF j < i THEN j ELSE j + 1]
                 /\ (IF j < i THEN j ELSE j + 1) \in DOMAIN s
<1> DEFINE a == SubSeq(s, 1, i - 1)
           b == SubSeq(s, i + 1, Len(s))
<1>1. Len(s) \in Nat /\ i \in 1 .. Len(s) /\ DOMAIN s = 1 .. Len(s)
  BY LenProperties
<1>2. \A j \in 1 .. Len(s) : s[j] \in S
  BY ElementOfSeq
<1>3. a \in Seq(S) /\ Len(a) = i - 1 /\ \A j \in 1 .. i - 1 : a[j] = s[j]
  BY <1>1, <1>2, SMT
<1>4. /\ b \in Seq(S)
      /\ Len(b) = IF i + 1 <= Len(s) THEN Len(s) - (i + 1) + 1 ELSE 0
      /\ \A j \in 1 .. Len(s) - (i + 1) + 1 : b[j] = s[i + 1 + j - 1]
  <2>1. i + 1 \in Int /\ Len(s) \in Int /\ \A j \in i + 1 .. Len(s) : s[j] \in S
    BY <1>1, <1>2, SMT
  <2> QED BY <2>1, SubSeqProperties
<1>5. RemoveAt(s, i) = a \o b
  BY DEF RemoveAt
<1> HIDE DEF a, b
<1>6. Len(a) + Len(b) = Len(s) - 1 /\ Len(a) \in Nat /\ Len(b) \in Nat
  <2>1. Len(a) = i - 1 /\ Len(b) = IF i + 1 <= Len(s) THEN Len(s) - (i + 1) + 1 ELSE 0
    BY <1>3, <1>4
  <2> QED BY <1>1, <2>1, SMT
<1>7. /\ a \o b \in Seq(S) /\ Len(a \o b) = Len(s) - 1
      /\ \A j \in 1 .. Len(s) - 1 : (a \o b)[j] = IF j <= Len(a) THEN a[j] ELSE b[j - Len(a)]
  <2>1. /\ a \o b \in Seq(S) /\ Len(a \o b) = Len(a) + Len(b)
        /\ \A j \in 1 .. Len(a) + Len(b) :
              (a \o b)[j] = IF j <= Len(a) THEN a[j] ELSE b[j - Len(a)]
    BY <1>3, <1>4, ConcatProperties
  <2> QED BY <1>6, <2>1
<1>8. DOMAIN (a \o b) = 1 .. Len(s) - 1
  BY <1>7, LenProperties
<1>9. ASSUME NEW j \in 1 .. Len(s) - 1
      PROVE  /\ (a \o b)[j] = s[IF j < i THEN j ELSE j + 1]
             /\ (IF j < i THEN j ELSE j + 1) \in DOMAIN s
  <2>1. CASE j < i
    <3>1. j \in 1 .. i - 1 /\ j <= Len(a) /\ j \in DOMAIN s
      BY <1>1, <1>3, <2>1, SMT
    <3> QED BY <1>3, <1>7, <2>1, <3>1
  <2>2. CASE ~(j < i)
    <3>1. /\ ~(j <= Len(a)) /\ j + 1 \in DOMAIN s
          /\ j - Len(a) \in 1 .. Len(s) - (i + 1) + 1
          /\ i + 1 + (j - Len(a)) - 1 = j + 1
      BY <1>1, <1>3, <2>2, SMT
    <3>2. b[j - Len(a)] = s[j + 1]
      BY <1>4, <3>1
    <3> QED BY <1>7, <2>2, <3>1, <3>2
  <2> QED BY <2>1, <2>2
<1> QED BY <1>5, <1>7, <1>8, <1>9

\* a is what is under way without PDU i.
IsFewer(a, s, i) ==
    /\ a \in Seq(UmPdus)
    /\ \A j \in DOMAIN a : \E m \in DOMAIN s : a[j] = s[m]
    /\ \A m \in DOMAIN s : m = i \/ \E j \in DOMAIN a : a[j] = s[m]

LEMMA Fewer ==
    ASSUME NEW s \in Seq(UmPdus), NEW i \in DOMAIN s
    PROVE  IsFewer(RemoveAt(s, i), s, i)
<1> DEFINE a == RemoveAt(s, i)
<1>1. /\ a \in Seq(UmPdus) /\ DOMAIN a = 1 .. Len(s) - 1
      /\ \A j \in 1 .. Len(s) - 1 :
            /\ a[j] = s[IF j < i THEN j ELSE j + 1]
            /\ (IF j < i THEN j ELSE j + 1) \in DOMAIN s
  BY RemoveAtIs
<1> HIDE DEF a
<1>2. PICK n \in Nat : n = Len(s) /\ DOMAIN s = 1 .. n BY LenProperties
<1>3. \A j \in DOMAIN a : \E m \in DOMAIN s : a[j] = s[m] BY <1>1
<1>4. ASSUME NEW m \in 1 .. n, m # i PROVE \E j \in DOMAIN a : a[j] = s[m]
  <2>1. CASE m < i
    <3>1. m \in 1 .. n - 1 BY <1>2, <2>1, SMT
    <3> QED BY <1>1, <1>2, <2>1, <3>1
  <2>2. CASE ~(m < i)
    <3>1. m - 1 \in 1 .. n - 1 /\ ~(m - 1 < i) /\ (m - 1) + 1 = m BY <1>2, <1>4, <2>2, SMT
    <3>2. PICK j : j = m - 1 OBVIOUS
    <3> QED BY <1>1, <1>2, <3>1, <3>2
  <2> QED BY <2>1, <2>2
<1>5. \A m \in DOMAIN s : m = i \/ \E j \in DOMAIN a : a[j] = s[m] BY <1>2, <1>4
<1>6. IsFewer(a, s, i) BY <1>1, <1>3, <1>5 DEF IsFewer
<1> QED BY <1>6 DEF a

\* The SDUs in a PDU; one of them is the first after the cut before it.
LEMMA CarriedIs ==
    ASSUME NEW p \in UmPdus, NEW c \in Cut, NEW d \in Cut, Carries(p, c, d)
    PROVE  Carried(p) \in SUBSET Nat /\ c.done + 1 \in Carried(p)
<1>1. p.segs \in Seq(Seq(Unit)) /\ c.done \in Nat /\ c.k \in Nat /\ p.end \in BOOLEAN BY DEF UmPdus, Cut
<1>2. Range(p.segs) \subseteq Seq(Unit)
  <2>1. \A i \in DOMAIN p.segs : p.segs[i] \in Seq(Unit) BY <1>1, ElementOfSeq
  <2> QED BY <2>1 DEF Range
<1>3. Carried(p) \in SUBSET Nat
  <2>1. ASSUME NEW s \in Seq(Unit), NEW k \in DOMAIN s PROVE s[k].sdu \in Nat
    <3>1. s[k] \in Unit BY ElementOfSeq
    <3> QED BY <3>1 DEF Unit
  <2> QED BY <1>2, <2>1 DEF Carried
<1>4. PICK s \in Seq(Unit) : s = p.segs[1] /\ s \in Range(p.segs) /\ 1 \in 1 .. Len(p.segs)
  <2>1. Len(p.segs) \in Nat /\ Len(p.segs) # 0 BY <1>1, EmptySeq, LenProperties DEF Carries
  <2>2. 1 \in 1 .. Len(p.segs) BY <2>1, SMT
  <2>3. p.segs[1] \in Seq(Unit) /\ DOMAIN p.segs = 1 .. Len(p.segs) BY <1>1, <2>2, ElementOfSeq, LenProperties
  <2>4. p.segs[1] \in Range(p.segs) BY <2>2, <2>3 DEF Range
  <2> QED BY <2>2, <2>3, <2>4
<1>5. PICK n \in Nat, ends \in BOOLEAN : n = c.done + 1 /\ ends = (1 < Len(p.segs) \/ p.end)
  <2>1. c.done + 1 \in Nat BY <1>1, SMT
  <2> QED BY <2>1
<1>6. Piece(s, n, c.k, ends) BY <1>4, <1>5 DEF Carries
<1>7. Len(s) \in Nat /\ Len(s) > 0 /\ s[1].sdu = n BY <1>1, <1>6, PieceIs
<1>8. 1 \in DOMAIN s
  <2>1. 1 \in 1 .. Len(s) BY <1>7, SMT
  <2> QED BY <2>1, LenProperties
<1>9. s[1].sdu \in Carried(p) BY <1>4, <1>8 DEF Carried
<1> QED BY <1>3, <1>5, <1>7, <1>9

\* A PDU is lost, or comes too late: the SDUs it carried are broken from now on.
LEMMA LostFits ==
    ASSUME UmInv, NEW i \in DOMAIN air, air' = RemoveAt(air, i), broken' = broken \union Carried(air[i]),
           UNCHANGED <<umTx, umRx, um_highest>>
    PROVE  UmInv'
<1> USE DEF umTx, umRx
<1>1. UmTypes BY DEF UmInv
<1>2. PICK cut \in [Nat -> Cut], u \in Nat : UmFits(cut, u) BY DEF UmInv
<1>3. PICK a, p : a = air' /\ p = air[i] OBVIOUS
<1>4. air \in Seq(UmPdus) /\ IsFewer(a, air, i) BY <1>1, <1>3, Fewer DEF UmTypes
<1>5. p \in UmPdus /\ p.n \in Nat /\ Carries(p, cut[p.n], cut[p.n + 1]) /\ cut[p.n] \in Cut /\ cut[p.n + 1] \in Cut
  <2>1. p \in UmPdus BY <1>3, <1>4, ElementOfSeq
  <2>2. p.n \in Nat /\ p.n + 1 \in Nat
    <3>1. p.n \in Nat BY <2>1 DEF UmPdus
    <3> QED BY <3>1, SMT
  <2>3. Carries(p, cut[p.n], cut[p.n + 1]) BY <1>2, <1>3 DEF UmFits, Sent, Flying
  <2> QED BY <2>1, <2>2, <2>3
<1>6. Carried(p) \in SUBSET Nat /\ cut[p.n].done + 1 \in Carried(p) BY <1>5, CarriedIs
<1>7. UmTypes' BY <1>1, <1>3, <1>4, <1>6 DEF UmTypes, IsFewer
<1>8. Sent(cut)'
  <2>1. ASSUME NEW j \in DOMAIN a PROVE Flying(a[j], cut, um_sent, um_highest)
    <3>1. PICK m \in DOMAIN air : a[j] = air[m] BY <1>4 DEF IsFewer
    <3> QED BY <1>2, <3>1 DEF UmFits, Sent
  <2> QED BY <1>2, <1>3, <2>1 DEF UmFits, Sent
<1>9. Awaits(u)' BY <1>2, <1>3 DEF UmFits, Awaits, AwaitedAt
<1>10. PICK e, f, r : e = Now(cut) /\ f = Now(cut)' /\ r = Reassembly OBVIOUS
<1>11. r = Reassembly' BY <1>10 DEF Reassembly
<1>12. /\ SameWindow(e, f) /\ f.sent = e.sent /\ f.cut = e.cut /\ e.cut = cut /\ e.bad = broken
       /\ f.bad = broken \union Carried(p)
       /\ e.gone = {air[j].n : j \in DOMAIN air} /\ f.gone = {a[j].n : j \in DOMAIN a}
  BY <1>3, <1>10 DEF Now, SameWindow
<1>13. CutsInOrder(cut) BY <1>2 DEF UmFits, Sent
<1>14. Set(e) BY <1>1, <1>10, <1>13, NowSet
<1>15. Set(f)
  <2>1. f.gone \in SUBSET Nat
    <3>1. \A j \in DOMAIN a : a[j] \in UmPdus BY <1>4, ElementOfSeq DEF IsFewer
    <3>2. \A q \in UmPdus : q.n \in Nat BY DEF UmPdus
    <3> QED BY <1>12, <3>1, <3>2
  <2>2. f.high \in Nat /\ f.stop \in Nat /\ f.low \in Int /\ f.bad \in SUBSET Nat /\ f.sent \in Nat
    BY <1>6, <1>12, <1>14, SettingsType DEF SameWindow
  <2>3. f = [high |-> f.high, stop |-> f.stop, low |-> f.low, sent |-> f.sent, cut |-> f.cut,
             gone |-> f.gone, bad |-> f.bad]
    BY <1>10 DEF Now
  <2>4. f \in Settings BY <1>12, <2>1, <2>2, <2>3 DEF Settings
  <2> QED BY <1>12, <1>13, <1>14, <2>4 DEF Set, SameWindow
<1>16. Rests(f, r, u) /\ Prog(f, r, u)
  <2>1. Rests(e, r, u) /\ Prog(e, r, u) BY <1>2, <1>10 DEF UmFits, Received
  <2>2. \A s \in e.bad : s \in f.bad BY <1>12
  <2>3. \A n \in e.gone : n \in f.gone \/ e.cut[n].done + 1 \in f.bad
    <3> TAKE n \in e.gone
    <3>1. PICK m \in DOMAIN air : n = air[m].n BY <1>12
    <3>2. CASE m = i BY <1>3, <1>6, <1>12, <3>1, <3>2
    <3>3. CASE m # i
      <4>1. PICK j \in DOMAIN a : a[j] = air[m] BY <1>4, <3>3 DEF IsFewer
      <4> QED BY <1>12, <3>1, <4>1
    <3> QED BY <3>2, <3>3
  <2> QED BY <1>12, <1>14, <1>15, <2>1, <2>2, <2>3, Loses
<1> QED BY <1>7, <1>8, <1>9, <1>10, <1>11, <1>16, FitsNext

\* A PDU that is not discarded is new, and not behind vr_ur.
LEMMA AcceptedIs ==
    ASSUME NEW h \in Nat, NEW n \in Nat, NEW u \in Nat, h - WINDOW <= n, n < h + WINDOW,
           h - WINDOW <= u, u <= h, vr_uh = h % MOD, vr_ur = u % MOD,
           NEW p, p.sn = n % MOD, ~Discards(p)
    PROVE  u <= n /\ n % MOD \notin DOMAIN um_window
<1>1. UM_OFFSET(n % MOD) = (n - h) + WINDOW
  <2>1. h - (WINDOW + MOD) <= n BY Sizes, SMT
  <2> QED BY <2>1, Ahead DEF UM_OFFSET
<1>2. UM_OFFSET(u % MOD) = (u - h) + WINDOW BY OffsetIs
<1>3. UM_OFFSET(Plus(vr_uh, MOD - WINDOW)) = 0
  <2>1. PICK x \in Int, y \in Int : x = h + (MOD - WINDOW) /\ y = h + WINDOW /\ x - y = 0
    <3>1. h + (MOD - WINDOW) \in Int /\ h + WINDOW \in Int /\ (h + (MOD - WINDOW)) - (h + WINDOW) = 0
      BY Sizes, SMT
    <3> QED BY <3>1
  <2>2. MOD - WINDOW \in Int /\ WINDOW \in Int BY Sizes, SMT
  <2>3. Plus(vr_uh, MOD - WINDOW) = x % MOD /\ Plus(vr_uh, WINDOW) = y % MOD BY <2>1, <2>2, SnPlus
  <2>4. Offset(x % MOD, y % MOD) = (x - y) % MOD BY SnOffset
  <2>5. 0 % MOD = 0 BY Sizes, SMT
  <2> QED BY <2>1, <2>3, <2>4, <2>5 DEF UM_OFFSET
<1>4. ~OutsideRxWindow(n % MOD) /\ n % MOD \notin DOMAIN um_window BY DEF Discards
<1>5. ~((n - h) + WINDOW >= 0 /\ (n - h) + WINDOW < (u - h) + WINDOW)
  BY <1>1, <1>2, <1>3, <1>4 DEF OutsideRxWindow
<1> QED BY <1>4, <1>5, Sizes, SMT

\* The number that vr_uh becomes.
Raised(h, n) == IF n < h THEN h ELSE n + 1

LEMMA RaisedIs ==
    ASSUME NEW h \in Nat, NEW n \in Nat, h - WINDOW <= n, n < h + WINDOW,
           NEW w, n % MOD \in DOMAIN w
    PROVE  /\ (IF InsideFor(h % MOD, w, n % MOD) THEN h % MOD ELSE Plus(n % MOD, 1)) = Raised(h, n) % MOD
           /\ Max({h, n + 1}) = Raised(h, n)
<1>1. Offset(n % MOD, Plus(h % MOD, WINDOW)) = (n - h) + WINDOW
  <2>1. h - (WINDOW + MOD) <= n BY Sizes, SMT
  <2> QED BY <2>1, Ahead
<1>2. Offset(h % MOD, Plus(h % MOD, WINDOW)) = (h - h) + WINDOW
  <2>1. h - (WINDOW + MOD) <= h /\ h < h + WINDOW /\ h - WINDOW <= h BY Sizes, SMT
  <2> QED BY <2>1, Ahead
<1>3. InsideFor(h % MOD, w, n % MOD) <=> n < h
  <2>1. (n - h) + WINDOW < (h - h) + WINDOW <=> n < h BY Sizes, SMT
  <2> QED BY <1>1, <1>2, <2>1 DEF InsideFor
<1>4. Plus(n % MOD, 1) = (n + 1) % MOD
  <2>1. n \in Int /\ 1 \in Int BY SMT
  <2> QED BY <2>1, SnPlus
<1>5. PICK g \in Nat : g = Raised(h, n) /\ g \in {h, n + 1} /\ g >= h /\ g >= n + 1
  <2>1. Raised(h, n) \in Nat /\ Raised(h, n) \in {h, n + 1} /\ Raised(h, n) >= h /\ Raised(h, n) >= n + 1
    BY SMT DEF Raised
  <2> QED BY <2>1
<1>6. PICK m : m = Max({h, n + 1}) OBVIOUS
<1>7. m \in {h, n + 1} /\ m >= h /\ m >= n + 1
  <2>1. \A y \in {h, n + 1} : g >= y BY <1>5
  <2> QED BY <1>5, <1>6, <2>1 DEF Max
<1>8. m = g BY <1>5, <1>7, SMT
<1> QED BY <1>3, <1>4, <1>5, <1>6, <1>8 DEF Raised

\* handle_data_pdu stops or starts the timer.
LEMMA TimerNext ==
    ASSUME NEW f, Set(f), NEW z, NEW v \in Nat, Rests(f, z, v), NEW h \in Nat, NEW n \in Nat, NEW u \in Nat,
           h - WINDOW <= u, n < h + WINDOW, f.high = Raised(h, n), h < n => f.stop = h,
           h = um_highest, um_highest' = f.high, t_reordering \in BOOLEAN,
           t_reordering => \E x \in Nat : AwaitedAt(x, u), Reorders(f.high % MOD, z)
    PROVE  Awaits(v)'
<1>0. z \in Reassemblies /\ Basic(f, z, v) /\ f.high - WINDOW <= v BY DEF Rests
<1>1. PICK g \in Nat, s \in Nat : g = f.high /\ s = f.stop /\ s <= g /\ v <= s /\ g - WINDOW <= v
  BY <1>0, SettingsType DEF Basic
<1>2. v <= g /\ g - (WINDOW + MOD) <= v /\ v < g + WINDOW /\ h <= g /\ g <= g
  <2>1. g = (IF n < h THEN h ELSE n + 1) BY <1>1 DEF Raised
  <2>2. v <= g /\ g - (WINDOW + MOD) <= v /\ v < g + WINDOW /\ g <= g BY <1>1, Sizes, SMT
  <2>3. h <= g BY <2>1, SMT
  <2> QED BY <2>2, <2>3
<1>3. StartsReordering(g % MOD, z) <=> v < g
  <2>1. z.vr_ur = v % MOD BY <1>0 DEF Basic
  <2>2. Offset(v % MOD, Plus(g % MOD, WINDOW)) = (v - g) + WINDOW BY <1>1, <1>2, Ahead
  <2>3. Offset(g % MOD, Plus(g % MOD, WINDOW)) = (g - g) + WINDOW
    <3>1. g - (WINDOW + MOD) <= g /\ g < g + WINDOW /\ g - WINDOW <= g BY Sizes, SMT
    <3> QED BY <3>1, Ahead
  <2>4. (g - g) + WINDOW > (v - g) + WINDOW <=> v < g BY Sizes, SMT
  <2> QED BY <2>1, <2>2, <2>3, <2>4 DEF StartsReordering
<1>4. CASE t_reordering /\ StillWaiting(g % MOD, z)
  <2>1. t_reordering' = t_reordering /\ vr_ux' = vr_ux BY <1>1, <1>4 DEF Reorders
  <2>2. PICK x \in Nat : vr_ux = x % MOD /\ x <= h /\ u <= x /\ (u = x => u = h)
    BY <1>4 DEF AwaitedAt
  <2>3. v < x
    <3>1. f.high = (IF n < h THEN h ELSE n + 1) /\ StillWaiting(f.high % MOD, z) BY <1>1, <1>4 DEF Raised
    <3> QED BY <2>2, <3>1, StillAhead
  <2>4. x <= g /\ v <= x /\ v # x BY <1>2, <2>2, <2>3, SMT
  <2>5. AwaitedAt(x, v)' BY <1>1, <2>1, <2>2, <2>4 DEF AwaitedAt
  <2> QED BY <1>4, <2>1, <2>5 DEF Awaits
<1>5. CASE ~(t_reordering /\ StillWaiting(g % MOD, z))
  <2>1. /\ t_reordering' = StartsReordering(g % MOD, z)
        /\ vr_ux' = IF StartsReordering(g % MOD, z) THEN g % MOD ELSE vr_ux
    BY <1>1, <1>5 DEF Reorders
  <2>2. ASSUME t_reordering' PROVE AwaitedAt(g, v)'
    <3>1. StartsReordering(g % MOD, z) BY <2>1, <2>2
    <3>2. v < g BY <1>3, <3>1
    <3>3. v <= g /\ v # g BY <3>2, SMT
    <3>4. vr_ux' = g % MOD BY <2>1, <3>1
    <3> QED BY <1>1, <1>2, <3>3, <3>4 DEF AwaitedAt
  <2>3. v < g => t_reordering' BY <1>3, <2>1
  <2>4. t_reordering' => \E x \in Nat : AwaitedAt(x, v)' BY <2>2
  <2> QED BY <1>1, <2>3, <2>4 DEF Awaits
<1> QED BY <1>4, <1>5

\* The positions when PDU n, one of those under way, arrives.
LEMMA RaisedNumbers ==
    ASSUME NEW s \in Nat, NEW h \in Nat, NEW n \in Nat, n < s, s <= h + WINDOW, h <= s + WINDOW, h - WINDOW <= n,
           NEW g, g = Raised(h, n)
    PROVE  /\ g \in Nat /\ s > 0 /\ n < h + WINDOW
           /\ \A q \in Nat : s - q <= WINDOW /\ h - WINDOW <= q => g - WINDOW <= q
           /\ s <= g + WINDOW /\ g <= s + WINDOW
           /\ g \in {h, n + 1} /\ g % MOD = (IF n < h THEN h ELSE n + 1) % MOD
<1>1. g = (IF n < h THEN h ELSE n + 1) BY DEF Raised
<1>2. CASE n < h
  <2>1. g = h BY <1>1, <1>2
  <2>2. s > 0 /\ n < h + WINDOW BY Sizes, SMT
  <2> QED BY <1>1, <1>2, <2>1, <2>2
<1>3. CASE ~(n < h)
  <2>1. g = n + 1 BY <1>1, <1>3
  <2>2. n + 1 \in Nat /\ s > 0 /\ n < h + WINDOW BY <1>3, Sizes, SMT
  <2>3. s <= (n + 1) + WINDOW /\ n + 1 <= s + WINDOW BY <1>3, Sizes, SMT
  <2>4. \A q \in Nat : s - q <= WINDOW => (n + 1) - WINDOW <= q BY Sizes, SMT
  <2> QED BY <1>1, <1>3, <2>1, <2>2, <2>3, <2>4
<1> QED BY <1>2, <1>3

\* HandleDataPdu, for a PDU that is not discarded.
LEMMA AcceptFits ==
    ASSUME UmInv, NEW i \in DOMAIN air, ~Discards(air[i]), UmPduArrives(i)
    PROVE  UmInv'
<1>1. UmTypes BY DEF UmInv
<1>2. PICK cut \in [Nat -> Cut], u \in Nat : UmFits(cut, u) BY DEF UmInv
<1>3. PICK a, p, e, r : a = air' /\ p = air[i] /\ e = Now(cut) /\ r = Reassembly OBVIOUS
<1>4. PICK s \in Nat, h \in Nat : s = um_sent /\ h = um_highest BY <1>1 DEF UmTypes
<1>5. /\ a = RemoveAt(air, i) /\ um_highest' = Max({h, p.n + 1}) /\ HandleDataPdu(p)
      /\ UNCHANGED <<umTx, broken>>
  BY <1>3, <1>4 DEF UmPduArrives
<1>6. air \in Seq(UmPdus) /\ IsFewer(a, air, i) BY <1>1, <1>5, Fewer DEF UmTypes
<1>7. \A j \in DOMAIN air : air[j] \in UmPdus /\ air[j].n \in Nat /\ Flying(air[j], cut, s, h)
  <2>1. \A j \in DOMAIN air : Flying(air[j], cut, s, h) BY <1>2, <1>4 DEF UmFits, Sent
  <2>2. \A j \in DOMAIN air : air[j] \in UmPdus BY <1>6, ElementOfSeq
  <2>3. \A q \in UmPdus : q.n \in Nat BY DEF UmPdus
  <2> QED BY <2>1, <2>2, <2>3
<1>8. PICK n \in Nat : /\ n = p.n /\ p \in UmPdus /\ p.sn = n % MOD /\ n < s /\ h - WINDOW <= n
                       /\ Carries(p, cut[n], cut[n + 1])
  BY <1>3, <1>7 DEF Flying
<1>9. PICK g : g = Raised(h, n) OBVIOUS
<1>10. s <= h + WINDOW /\ h <= s + WINDOW BY <1>1, <1>4 DEF UmTypes
<1>11. /\ g \in Nat /\ s > 0 /\ n < h + WINDOW /\ h - WINDOW <= n
       /\ \A q \in Nat : s - q <= WINDOW /\ h - WINDOW <= q => g - WINDOW <= q
       /\ s <= g + WINDOW /\ g <= s + WINDOW /\ g \in {h, n + 1}
  BY <1>8, <1>9, <1>10, RaisedNumbers
<1>12. Rests(e, r, u) /\ Prog(e, r, u) /\ r \in Reassemblies /\ Basic(e, r, u)
  BY <1>2, <1>3 DEF UmFits, Received, Rests
<1>13. /\ e.high = h /\ e.stop = h /\ e.low = h - MOD /\ e.sent = s /\ e.cut = cut
       /\ e.gone = {air[j].n : j \in DOMAIN air} /\ e.bad = broken
  BY <1>3, <1>4 DEF Now
<1>14. r.vr_ur = vr_ur /\ r.window = um_window BY <1>3 DEF Reassembly
<1>15. h - WINDOW <= u /\ u <= h /\ vr_ur = u % MOD /\ vr_uh = h % MOD
  BY <1>1, <1>4, <1>12, <1>13, <1>14 DEF Rests, Basic, UmTypes
<1>16. u <= n /\ n % MOD \notin DOMAIN um_window
  <2>1. ~Discards(p) BY <1>3
  <2> QED BY <1>8, <1>11, <1>15, <2>1, AcceptedIs
<1>17. PICK w : w = With(um_window, p.sn, p) OBVIOUS
<1>18. n % MOD \in DOMAIN w BY <1>8, <1>17 DEF With
<1>19. (IF InsideFor(vr_uh, w, p.sn) THEN vr_uh ELSE Plus(p.sn, 1)) = g % MOD /\ um_highest' = g
  BY <1>5, <1>8, <1>9, <1>11, <1>15, <1>18, RaisedIs
<1>20. PICK x, z : x = [r EXCEPT !.window = w] /\ z = reassemble_rx_sdus(g % MOD, x) OBVIOUS
<1>21. Becomes(z) /\ vr_uh' = g % MOD /\ Reorders(g % MOD, z)
  <2>1. ~Discards(p) BY <1>3
  <2> QED BY <1>3, <1>5, <1>17, <1>19, <1>20, <2>1 DEF HandleDataPdu
<1>22. PICK gone : gone = {a[j].n : j \in DOMAIN a} OBVIOUS
<1>23. /\ gone \in SUBSET Nat /\ (\A m \in e.gone : m = n \/ m \in gone)
       /\ \A j \in DOMAIN a : Flying(a[j], cut, s, g)
  <2>1. \A j \in DOMAIN a : \E m \in DOMAIN air : a[j] = air[m] BY <1>6 DEF IsFewer
  <2>2. \A j \in DOMAIN a : a[j].n \in Nat /\ Flying(a[j], cut, s, h) BY <1>7, <2>1
  <2>3. \A q : q.n \in Nat /\ Flying(q, cut, s, h) => Flying(q, cut, s, g) BY <1>11 DEF Flying
  <2>4. ASSUME NEW m \in DOMAIN air PROVE air[m].n = n \/ air[m].n \in gone
    <3>1. CASE m = i BY <1>3, <1>8, <3>1
    <3>2. CASE m # i
      <4>1. PICK j \in DOMAIN a : a[j] = air[m] BY <1>6, <3>2 DEF IsFewer
      <4> QED BY <1>22, <4>1
    <3> QED BY <3>1, <3>2
  <2> QED BY <1>13, <1>22, <2>2, <2>3, <2>4
<1>24. PICK f : f = [high |-> g, stop |-> IF h < n THEN h ELSE g, low |-> h - MOD, sent |-> s, cut |-> cut,
                     gone |-> gone, bad |-> broken]
  OBVIOUS
<1>25. /\ f.high = g /\ f.stop = (IF h < n THEN h ELSE g) /\ f.low = h - MOD /\ f.sent = s /\ f.cut = cut
       /\ f.gone = gone /\ f.bad = broken
  BY <1>24
<1>26. f \in Settings
  <2>1. h - MOD \in Int /\ (IF h < n THEN h ELSE g) \in Nat BY <1>11, Sizes, SMT
  <2>2. broken \in SUBSET Nat BY <1>1 DEF UmTypes
  <2> QED BY <1>11, <1>23, <1>24, <2>1, <2>2 DEF Settings
<1>27. Accepts(e, f, n)
  <2>1. f.high = (IF n < e.high THEN e.high ELSE n + 1) BY <1>9, <1>13, <1>25 DEF Raised
  <2> QED BY <1>13, <1>23, <1>25, <1>26, <2>1 DEF Accepts, Settings
<1>28. CutsInOrder(cut) BY <1>2 DEF UmFits, Sent
<1>29. Set(e) BY <1>1, <1>3, <1>28, NowSet
<1>30. Set(f) /\ Low(f, x, u, u)
  <2>1. x = [r EXCEPT !.window = With(r.window, p.sn, p)] BY <1>14, <1>17, <1>20
  <2>2. /\ e.stop = e.high /\ e.low = e.high - MOD /\ p.n = n /\ n < e.sent /\ n < e.high + WINDOW
        /\ Carries(p, e.cut[n], e.cut[n + 1]) /\ n % MOD \notin DOMAIN r.window
    BY <1>8, <1>11, <1>13, <1>14, <1>16
  <2> QED BY <1>8, <1>12, <1>16, <1>27, <1>29, <1>26, <2>1, <2>2, AcceptedLow
<1>31. PICK v \in Nat : u <= v /\ Rests(f, z, v) /\ Prog(f, z, v)
  <2>1. x \in Reassemblies BY <1>30 DEF Low
  <2>2. z = reassemble_rx_sdus(f.high % MOD, x) BY <1>20, <1>25
  <2> QED BY <1>30, <2>1, <2>2, ReassembleKeeps
<1>32. PICK k : k = Now(cut)' OBVIOUS
<1>33. /\ k.high = g /\ k.stop = g /\ k.low = g - MOD /\ k.sent = s /\ k.cut = cut
       /\ k.gone = gone /\ k.bad = broken
       /\ k = [high |-> k.high, stop |-> k.stop, low |-> k.low, sent |-> k.sent, cut |-> k.cut,
               gone |-> k.gone, bad |-> k.bad]
  BY <1>3, <1>4, <1>5, <1>19, <1>22, <1>32 DEF Now, umTx
<1>34. Set(k)
  <2>1. g - MOD \in Int /\ g <= g /\ g - WINDOW <= g BY <1>11, Sizes, SMT
  <2>2. k \in Settings BY <1>11, <1>26, <1>25, <1>33, <2>1 DEF Settings
  <2> QED BY <1>28, <1>33, <2>1, <2>2 DEF Set
<1>35. Rests(k, z, v) /\ Prog(k, z, v)
  <2>1. /\ k.high = f.high /\ k.stop = k.high /\ k.low = k.high - MOD /\ k.sent = f.sent /\ k.cut = f.cut
        /\ k.bad = f.bad /\ k.gone = f.gone
    BY <1>25, <1>33
  <2> QED BY <1>30, <1>31, <1>34, <2>1, RestsAgain
<1>36. z = Reassembly'
  <2>1. z \in Reassemblies BY <1>31 DEF Rests
  <2> QED BY <1>21, <2>1 DEF Becomes, Reassembly, Reassemblies
<1>37. Awaits(v)'
  <2>1. t_reordering \in BOOLEAN /\ (t_reordering => \E y \in Nat : AwaitedAt(y, u))
    BY <1>1, <1>2 DEF UmTypes, UmFits, Awaits
  <2>2. f.high = Raised(h, n) /\ (h < n => f.stop = h) /\ um_highest' = f.high /\ Reorders(f.high % MOD, z)
    BY <1>9, <1>19, <1>21, <1>25
  <2> QED BY <1>4, <1>11, <1>15, <1>30, <1>31, <2>1, <2>2, TimerNext
<1>38. Sent(cut)' BY <1>2, <1>3, <1>4, <1>5, <1>19, <1>23 DEF UmFits, Sent, umTx
<1>39. UmTypes'
  <2>1. vr_ux' \in SN /\ t_reordering' \in BOOLEAN
    <3>1. g % MOD \in SN BY <1>11, SnType
    <3>2. vr_ux \in SN /\ t_reordering \in BOOLEAN BY <1>1 DEF UmTypes
    <3>3. StartsReordering(g % MOD, z) \in BOOLEAN BY DEF StartsReordering
    <3> QED BY <1>21, <3>1, <3>2, <3>3 DEF Reorders
  <2>2. um_written > 0 BY <1>1, <1>4, <1>11 DEF UmTypes
  <2>3. a \in Seq(UmPdus) BY <1>6 DEF IsFewer
  <2> QED BY <1>1, <1>3, <1>4, <1>5, <1>11, <1>19, <1>21, <2>1, <2>2, <2>3 DEF UmTypes, umTx
<1> QED BY <1>32, <1>35, <1>36, <1>37, <1>38, <1>39, FitsNext

LEMMA ArriveFits ==
    ASSUME UmInv, NEW i \in DOMAIN air, UmPduArrives(i)
    PROVE  UmInv'
<1>1. CASE Discards(air[i])
  <2>1. /\ air' = RemoveAt(air, i) /\ broken' = broken \union Carried(air[i])
        /\ UNCHANGED <<umTx, umRx, um_highest>>
    BY <1>1 DEF UmPduArrives, HandleDataPdu
  <2> QED BY <2>1, LostFits
<1>2. CASE ~Discards(air[i]) BY <1>2, AcceptFits
<1> QED BY <1>1, <1>2

-----------------------------------------------------------------------------
(***************************************************************************)
(* The timer expires.                                                      *)
(***************************************************************************)
LEMMA ExpiredRests ==
    ASSUME UmTypes, t_reordering, NEW cut \in [Nat -> Cut], NEW u \in Nat, UmFits(cut, u),
           NEW e, e = Now(cut), NEW z, z = Expired
    PROVE  \E v \in Nat : /\ Rests(e, z, v) /\ Prog(e, z, v) /\ v <= um_highest
                          /\ (GapRemains(z) <=> v < um_highest)
<1>1. PICK h \in Nat : h = um_highest /\ vr_uh = h % MOD BY DEF UmTypes
<1>2. PICK x \in Nat : vr_ux = x % MOD /\ x <= h /\ u <= x /\ (u = x => u = h /\ 1 \in broken)
  BY <1>1 DEF UmFits, Awaits, AwaitedAt
<1>3. PICK r : r = Reassembly OBVIOUS
<1>4. /\ Rests(e, r, u) /\ Prog(e, r, u) /\ r \in Reassemblies /\ Basic(e, r, u) /\ e.high - WINDOW <= u
      /\ u % MOD \notin DOMAIN r.window
  BY <1>3 DEF UmFits, Received, Rests
<1>5. CutsInOrder(cut) BY DEF UmFits, Sent
<1>6. Set(e) BY <1>5, NowSet
<1>7. /\ e.high = h /\ e.stop = h /\ e.low = h - MOD /\ e.bad = broken
      /\ e = [high |-> e.high, stop |-> e.stop, low |-> e.low, sent |-> e.sent, cut |-> e.cut,
              gone |-> e.gone, bad |-> e.bad]
  BY <1>1 DEF Now
<1>8. PICK f : f = [high |-> e.high, stop |-> e.stop, low |-> h - WINDOW, sent |-> e.sent, cut |-> e.cut,
                    gone |-> e.gone, bad |-> e.bad]
  OBVIOUS
<1>9. /\ f.high = e.high /\ f.stop = e.stop /\ f.low = h - WINDOW /\ f.sent = e.sent /\ f.cut = e.cut
      /\ f.gone = e.gone /\ f.bad = e.bad
  BY <1>8
<1>10. Set(f)
  <2>1. h - WINDOW \in Int BY Sizes, SMT
  <2>2. f \in Settings BY <1>6, <1>8, <2>1 DEF Set, Settings
  <2> QED BY <1>6, <1>9, <2>2 DEF Set
<1>11. Skipping(f, x)
  <2>1. h - WINDOW <= x BY <1>2, <1>4, <1>7, Sizes, SMT
  <2> QED BY <1>1, <1>2, <1>7, <1>9, <2>1 DEF Skipping
<1>12. PICK c, y : c = Cleared(r) /\ y = [c EXCEPT !.pdu_lost = TRUE] OBVIOUS
<1>13. /\ y \in Reassemblies /\ y.vr_ur = r.vr_ur /\ y.window = r.window /\ y.out = r.out
       /\ y.rx_sdu = << >> /\ y.in = r.in
  <2>1. /\ c \in Reassemblies /\ c.vr_ur = r.vr_ur /\ c.window = r.window /\ c.out = r.out /\ c.rx_sdu = << >>
        /\ c.in = r.in
    BY <1>4, <1>12, ClearedType
  <2> QED BY <1>12, <2>1 DEF Reassemblies
<1>14. Rests(f, y, u)
  <2>1. Holding(f, y, u) BY <1>13 DEF Holding
  <2>2. InWindow(f, y.window, u) BY <1>4, <1>9, <1>13 DEF Basic, InWindow
  <2>3. Accounted(f, y.window, u) BY <1>4, <1>9, <1>13 DEF Basic, Accounted, Astray
  <2>4. f.low <= u BY <1>4, <1>7, <1>9
  <2>5. Basic(f, y, u) BY <1>4, <1>9, <1>13, <2>1, <2>2, <2>3, <2>4 DEF Basic
  <2> QED BY <1>4, <1>9, <1>13, <2>5 DEF Rests
<1>15. Pauses(f, y, u, u)
  <2>1. u <= u BY SMT
  <2>2. Doomed(e, r, u) => Doomed(f, y, u) BY <1>9, <1>13 DEF Doomed
  <2>3. Clean(e, r, u) => UpToDate(f, y, u) BY <1>9, <1>13 DEF Clean, UpToDate
  <2> QED BY <1>4, <1>14, <2>1, <2>2, <2>3 DEF Pauses, Prog
<1>16. z = Skips(y)
  <2>1. y = [Cleared(Reassembly) EXCEPT !.pdu_lost = TRUE] BY <1>3, <1>12
  <2> QED BY <2>1 DEF Expired
<1>17. PICK v \in Nat : Pauses(f, z, v, u) /\ x <= v BY <1>10, <1>11, <1>15, <1>16, SkipsEnd
<1>18. Rests(f, z, v) /\ u <= v /\ (v = u \/ Prog(f, z, v)) BY <1>17 DEF Pauses
<1>19. Prog(f, z, v)
  <2> SUFFICES ASSUME v = u PROVE Doomed(f, z, v) BY <1>18 DEF Prog
  <2>1. u = x BY <1>2, <1>17, SMT
  <2>2. 1 \in f.bad /\ 0 + 1 = 1 /\ 0 \in Nat BY <1>2, <1>7, <1>9, <2>1
  <2>3. HasAll(z.out, 0, 0)
    <3>1. \A q \in Nat : ~(0 < q /\ q <= 0) BY SMT
    <3> QED BY <3>1 DEF HasAll
  <2> QED BY <2>2, <2>3 DEF Doomed
<1>20. Rests(e, z, v) /\ Prog(e, z, v)
  <2>1. /\ e.high = f.high /\ e.stop = e.high /\ e.low = e.high - MOD /\ e.sent = f.sent /\ e.cut = f.cut
        /\ e.bad = f.bad /\ e.gone = f.gone
    BY <1>7, <1>9
  <2> QED BY <1>6, <1>10, <1>18, <1>19, <2>1, RestsAgain
<1>21. h - WINDOW <= v /\ v <= h /\ z.vr_ur = v % MOD BY <1>7, <1>20 DEF Rests, Basic
<1>22. GapRemains(z) <=> v < h
  <2>1. UM_OFFSET(v % MOD) = (v - h) + WINDOW BY <1>1, <1>21, OffsetIs
  <2>2. h - WINDOW <= h /\ h <= h BY Sizes, SMT
  <2>3. UM_OFFSET(h % MOD) = (h - h) + WINDOW BY <1>1, <2>2, OffsetIs
  <2>4. (h - h) + WINDOW > (v - h) + WINDOW <=> v < h BY Sizes, SMT
  <2> QED BY <1>1, <1>21, <2>1, <2>3, <2>4 DEF GapRemains
<1> QED BY <1>1, <1>20, <1>21, <1>22

\* UmTimerExpired.
LEMMA ExpireFits ==
    ASSUME UmInv, UmTimerExpired
    PROVE  UmInv'
<1>1. UmTypes BY DEF UmInv
<1>2. PICK cut \in [Nat -> Cut], u \in Nat : UmFits(cut, u) BY DEF UmInv
<1>3. PICK e, z : e = Now(cut) /\ z = Expired OBVIOUS
<1>4. /\ t_reordering /\ Becomes(z) /\ t_reordering' = GapRemains(z)
      /\ vr_ux' = (IF t_reordering' THEN vr_uh ELSE vr_ux)
      /\ UNCHANGED <<vr_uh, umTx, air, um_highest, broken>>
  BY <1>3 DEF UmTimerExpired
<1>5. PICK v \in Nat : Rests(e, z, v) /\ Prog(e, z, v) /\ v <= um_highest /\ (GapRemains(z) <=> v < um_highest)
  BY <1>1, <1>2, <1>3, <1>4, ExpiredRests
<1>6. e = Now(cut)' BY <1>3, <1>4 DEF Now, umTx
<1>7. z = Reassembly'
  <2>1. z \in Reassemblies BY <1>5 DEF Rests
  <2> QED BY <1>4, <2>1 DEF Becomes, Reassembly, Reassemblies
<1>8. PICK h \in Nat : h = um_highest /\ vr_uh = h % MOD BY <1>1 DEF UmTypes
<1>9. Awaits(v)'
  <2>1. ASSUME t_reordering' PROVE AwaitedAt(h, v)'
    <3>1. v < h BY <1>4, <1>5, <1>8, <2>1
    <3>2. v <= h /\ v # h /\ h <= h BY <3>1, SMT
    <3> QED BY <1>4, <1>8, <2>1, <3>2 DEF AwaitedAt
  <2>2. t_reordering' => \E x \in Nat : AwaitedAt(x, v)' BY <1>8, <2>1
  <2> QED BY <1>4, <1>5, <2>2 DEF Awaits
<1>10. Sent(cut)' BY <1>2, <1>4 DEF UmFits, Sent, umTx
<1>11. UmTypes'
  <2>1. vr_ux' \in SN
    <3>1. h % MOD \in SN /\ vr_ux \in SN BY <1>1, <1>8, SnType DEF UmTypes
    <3> QED BY <1>4, <1>8, <3>1
  <2>2. GapRemains(z) \in BOOLEAN BY DEF GapRemains
  <2> QED BY <1>1, <1>4, <2>1, <2>2 DEF UmTypes, umTx
<1> QED BY <1>5, <1>6, <1>7, <1>9, <1>10, <1>11, FitsNext

-----------------------------------------------------------------------------
(***************************************************************************)
(* Both ends are re-established.                                           *)
(***************************************************************************)
LEMMA Divided ==
    ASSUME NEW x \in Nat
    PROVE  \E q \in Int, j \in Nat : x = q * MOD + j /\ j < MOD /\ x % MOD = j
<1>0. MOD \in Nat \ {0} BY Sizes, SMT
<1>1. x = (x \div MOD) * MOD + (x % MOD) BY <1>0, SMT
<1>2. (x \div MOD) \in Int /\ x % MOD \in Nat /\ x % MOD < MOD BY <1>0, SMT
<1> QED BY <1>1, <1>2

\* PDUs are counted so that the next one keeps its SN.
LEMMA Recounted ==
    ASSUME NEW s \in Nat, NEW k, k = s % MOD, NEW h, h = s - k + (IF k < WINDOW THEN 0 ELSE MOD)
    PROVE  /\ h \in Nat /\ h % MOD = 0 /\ 0 \in SN /\ s <= h + WINDOW /\ h <= s + WINDOW
           /\ s = 0 => h <= s
<1>0. MOD \in Nat \ {0} /\ WINDOW \in Nat /\ MOD = 2 * WINDOW BY Sizes, SMT
<1>1. PICK q \in Int, j \in Nat : s = q * MOD + j /\ j < MOD /\ k = j BY Divided
<1>2. h = (s - j) + (IF j < WINDOW THEN 0 ELSE MOD) BY <1>1
<1>3. s - j \in Nat
  <2>1. q >= 0 BY <1>0, <1>1, SMT
  <2>2. q * MOD >= 0 BY <1>0, <2>1, SMT
  <2>3. q * MOD \in Int BY <1>0, SMT
  <2> QED BY <1>1, <2>2, <2>3, SMT
<1>4. 0 % MOD = 0 /\ 0 \in SN BY <1>0, SMT DEF SN
<1>5. CASE j < WINDOW
  <2>1. h = 0 + q * MOD /\ h = s - j BY <1>0, <1>1, <1>2, <1>5, SMT
  <2>2. (0 + q * MOD) % MOD = 0 % MOD
    <3>1. 0 \in Int BY SMT
    <3> QED BY <3>1, SnShift
  <2>3. h \in Nat /\ s <= h + WINDOW /\ h <= s + WINDOW /\ h <= s BY <1>0, <1>1, <1>2, <1>3, <1>5, <2>1, SMT
  <2> QED BY <1>4, <2>1, <2>2, <2>3
<1>6. CASE ~(j < WINDOW)
  <2>1. h = 0 + (q + 1) * MOD /\ h = (s - j) + MOD BY <1>0, <1>1, <1>2, <1>6, SMT
  <2>2. (0 + (q + 1) * MOD) % MOD = 0 % MOD
    <3>1. 0 \in Int /\ q + 1 \in Int BY SMT
    <3> QED BY <3>1, SnShift
  <2>3. h \in Nat /\ s <= h + WINDOW /\ h <= s + WINDOW BY <1>0, <1>1, <1>2, <1>3, <1>6, <2>1, SMT
  <2>4. s # 0 BY <1>0, <1>1, <1>2, <1>3, <1>6, SMT
  <2> QED BY <1>4, <2>1, <2>2, <2>3, <2>4
<1> QED BY <1>5, <1>6

\* Everything delivered was written.
LEMMA DeliveredWritten ==
    ASSUME UmTypes, NEW cut \in [Nat -> Cut], Sent(cut), NEW v \in Nat,
           NEW out \in Seq(Seq(Unit)), Ordered(out, cut[v].done)
    PROVE  Ordered(out, um_written)
<1>1. PICK s \in Nat, w \in Nat : s = um_sent /\ w = um_written BY DEF UmTypes
<1>2. PICK c \in Cut : c = cut[s] OBVIOUS
<1>3. PICK a \in Nat, b \in Nat : a = cut[v].done /\ b = c.done BY <1>2 DEF Cut
<1>4. a <= b
  <2>1. CASE v <= s BY <1>2, <1>3, <2>1 DEF Sent, CutsInOrder
  <2>2. CASE ~(v <= s)
    <3>1. s <= v BY <2>2, SMT
    <3>2. cut[v] = c BY <1>1, <1>2, <3>1 DEF Sent
    <3> QED BY <1>3, <3>2, SMT
  <2> QED BY <2>1, <2>2
<1>5. b <= w
  <2>1. PICK l \in Nat : l = Len(um_queue) BY LenProperties DEF UmTypes
  <2>2. w = (IF um_sdu = << >> THEN b ELSE b + 1) + l BY <1>1, <1>2, <1>3, <2>1 DEF Sent, Queued
  <2> QED BY <2>2, SMT
<1>6. a <= w BY <1>4, <1>5, SMT
<1> QED BY <1>1, <1>3, <1>6, OrderedUpTo

\* UmReestablish: numbers go on from a multiple of MOD, so that vr_ur is 0.
LEMMA ReestablishFits ==
    ASSUME UmInv, UmReestablish
    PROVE  UmInv'
<1>1. UmTypes BY DEF UmInv
<1>2. PICK old \in [Nat -> Cut], u \in Nat : UmFits(old, u) BY DEF UmInv
<1>3. PICK r : r = IF t_reordering THEN Expired ELSE Reassembly OBVIOUS
<1>4. /\ um_sdu' = << >> /\ um_queue' = << >> /\ air' = << >>
      /\ vr_ur_in_rx_sdu' = r.in /\ um_delivered' = r.out
      /\ t_reordering' = (t_reordering /\ GapRemains(r))
      /\ vr_ur' = 0 /\ vr_ux' = 0 /\ vr_uh' = 0
      /\ pdu_lost' = FALSE /\ rx_sdu' = << >> /\ um_window' = EmptyMap
      /\ broken' = 1 .. um_written
      /\ um_highest' = um_sent - vt_us + (IF vt_us < WINDOW THEN 0 ELSE MOD)
      /\ UNCHANGED <<vt_us, um_sent, um_written>>
  BY <1>3 DEF UmReestablish
<1>5. PICK s \in Nat, w \in Nat : s = um_sent /\ w = um_written
  BY <1>1 DEF UmTypes
<1>50. PICK h : h = um_highest' OBVIOUS
<1>6. h \in Nat /\ h % MOD = 0 /\ 0 \in SN /\ s <= h + WINDOW /\ h <= s + WINDOW /\ (s = 0 => h <= s)
  <2>1. PICK k : k = vt_us /\ k = s % MOD BY <1>1, <1>5, <1>50 DEF UmTypes
  <2>2. h = s - k + (IF k < WINDOW THEN 0 ELSE MOD) BY <1>4, <1>5, <1>50, <2>1
  <2> QED BY <2>1, <2>2, Recounted
<1>7. PICK v \in Nat : r \in Reassemblies /\ Ordered(r.out, old[v].done)
  <2>1. CASE t_reordering
    <3>1. PICK e, z : e = Now(old) /\ z = Expired OBVIOUS
    <3>2. PICK v \in Nat : Rests(e, z, v) BY <1>1, <1>2, <2>1, <3>1, ExpiredRests
    <3>3. e.cut = old BY <3>1 DEF Now
    <3>4. z \in Reassemblies /\ Ordered(z.out, old[v].done) BY <3>2, <3>3 DEF Rests, Basic
    <3> QED BY <1>3, <2>1, <3>1, <3>4
  <2>2. CASE ~t_reordering
    <3>1. PICK e, z : e = Now(old) /\ z = Reassembly OBVIOUS
    <3>2. Rests(e, z, u) BY <1>2, <3>1 DEF UmFits, Received
    <3>3. e.cut = old BY <3>1 DEF Now
    <3>4. z \in Reassemblies /\ Ordered(z.out, old[u].done) BY <3>2, <3>3 DEF Rests, Basic
    <3> QED BY <1>3, <2>2, <3>1, <3>4
  <2> QED BY <2>1, <2>2
<1>8. r.out \in Seq(Seq(Unit)) /\ r.in \in SN /\ Ordered(r.out, w)
  <2>1. r.out \in Seq(Seq(Unit)) /\ r.in \in SN BY <1>7 DEF Reassemblies
  <2>2. Sent(old) BY <1>2 DEF UmFits
  <2> QED BY <1>1, <1>5, <1>50, <1>7, <2>1, <2>2, DeliveredWritten
<1>9. PICK c : c = [done |-> w, k |-> 0] OBVIOUS
<1>10. PICK cut : cut = [n \in Nat |-> c] OBVIOUS
<1>11. c \in Cut /\ c.done = w /\ c.k = 0 /\ cut \in [Nat -> Cut] /\ \A n \in Nat : cut[n] = c
  <2>1. 0 \in Nat BY SMT
  <2> QED BY <1>9, <1>10, <2>1 DEF Cut
<1>12. /\ << >> \in Seq(Unit) /\ << >> \in Seq(Seq(Unit)) /\ << >> \in Seq(UmPdus)
       /\ Len(<< >>) = 0 /\ DOMAIN << >> = {} /\ DOMAIN EmptyMap = {}
  BY SMT DEF EmptyMap
<1>13. w > 0 => 1 \in 1 .. w BY SMT
<1>14. (s > 0 => w > 0) /\ (t_reordering => w > 0) BY <1>1, <1>5, <1>50 DEF UmTypes
<1>15. UmTypes'
  <2>1. 1 .. w \in SUBSET Nat BY SMT
  <2> QED BY <1>1, <1>4, <1>5, <1>50, <1>6, <1>12, <2>1 DEF UmTypes, GapRemains
<1>16. Sent(cut)'
  <2>1. Queued(<< >>, << >>, c, w)
    <3>1. w = w + 0 /\ \A i \in 1 .. 0 : FALSE BY SMT
    <3> QED BY <1>11, <1>12, <3>1 DEF Queued
  <2>2. CutsInOrder(cut)
    <3>1. w <= w BY SMT
    <3> QED BY <1>11, <3>1 DEF CutsInOrder
  <2> QED BY <1>4, <1>5, <1>50, <1>11, <1>12, <2>1, <2>2 DEF Sent
<1>17. Awaits(h)'
  <2>1. ASSUME t_reordering' PROVE AwaitedAt(h, h)'
    <3>1. 1 \in broken' BY <1>4, <1>5, <1>50, <1>13, <1>14, <2>1
    <3>2. h <= h BY <1>6, SMT
    <3> QED BY <1>4, <1>5, <1>50, <1>6, <3>1, <3>2 DEF AwaitedAt
  <2>2. t_reordering' => \E x \in Nat : AwaitedAt(x, h)' BY <1>6, <2>1
  <2>3. ~(h < h) BY <1>6, SMT
  <2> QED BY <1>5, <1>50, <2>2, <2>3 DEF Awaits
<1>18. PICK f, z : f = Now(cut)' /\ z = Reassembly' OBVIOUS
<1>19. /\ f.high = h /\ f.stop = h /\ f.low = h - MOD /\ f.sent = s /\ f.cut = cut /\ f.bad = 1 .. w
  BY <1>4, <1>5, <1>50, <1>18 DEF Now
<1>20. /\ z.vr_ur = 0 /\ z.pdu_lost = FALSE /\ z.rx_sdu = << >> /\ z.window = EmptyMap /\ z.out = r.out
       /\ z \in Reassemblies
  <2>1. EmptyMap \in Windows
    <3>1. EmptyMap \in [{} -> UmPdus] BY <1>12, SMT DEF EmptyMap
    <3> QED BY <3>1 DEF Windows
  <2> QED BY <1>4, <1>6, <1>8, <1>12, <1>18, <2>1 DEF Reassembly, Reassemblies
<1>21. h - MOD <= h /\ h - WINDOW <= h /\ h <= h /\ ~(h < h) BY <1>6, Sizes, SMT
<1>22. w > 0 => 1 \in f.bad BY <1>13, <1>19
<1>23. Accounted(f, z.window, h)
  <2> SUFFICES ASSUME NEW n \in Nat, n < s PROVE Astray(f, n) BY <1>19 DEF Accounted
  <2>1. s > 0 BY SMT
  <2> QED BY <1>14, <1>22, <2>1 DEF Astray
<1>24. Basic(f, z, h)
  BY <1>6, <1>8, <1>11, <1>12, <1>19, <1>20, <1>21, <1>23 DEF Basic, InWindow, Holding
<1>25. Rests(f, z, h) BY <1>6, <1>12, <1>19, <1>20, <1>21, <1>24 DEF Rests
<1>26. Prog(f, z, h)
  <2>0. \A q \in Nat : ~(0 < q /\ q <= 0) BY SMT
  <2>1. CASE w > 0
    <3>1. HasAll(z.out, 0, 0) BY <2>0 DEF HasAll
    <3>2. 0 + 1 = 1 /\ 0 \in Nat BY SMT
    <3> QED BY <1>22, <2>1, <3>1, <3>2 DEF Prog, Doomed
  <2>2. CASE ~(w > 0)
    <3>1. w = 0 /\ s = 0 BY <1>14, <2>2, SMT
    <3>2. h <= s BY <1>6, <3>1
    <3>3. HasAll(z.out, 0, w) BY <2>0, <3>1 DEF HasAll
    <3> QED BY <1>6, <1>11, <1>19, <1>20, <3>2, <3>3 DEF Prog, Clean, UpToDate
  <2> QED BY <2>1, <2>2
<1> QED BY <1>6, <1>11, <1>15, <1>16, <1>17, <1>18, <1>25, <1>26, FitsNext

-----------------------------------------------------------------------------
(***************************************************************************)
(* The invariant, and what follows from it.                                *)
(***************************************************************************)
LEMMA UmStep == UmInv /\ [UmNext]_umVars => UmInv'
<1> SUFFICES ASSUME UmInv, [UmNext]_umVars PROVE UmInv' OBVIOUS
<1>1. ASSUME NEW length \in SDU_LENGTHS, UmWriteSdu(length) PROVE UmInv' BY <1>1, WriteFits
<1>2. ASSUME NEW grant \in UM_GRANTS, BuildUmdPdu(grant) PROVE UmInv' BY <1>2, BuildFits
<1>3. ASSUME NEW i \in DOMAIN air, UmPduArrives(i) PROVE UmInv' BY <1>3, ArriveFits
<1>4. ASSUME NEW i \in DOMAIN air, UmPduLost(i) PROVE UmInv'
  <2>1. /\ air' = RemoveAt(air, i) /\ broken' = broken \union Carried(air[i])
        /\ UNCHANGED <<umTx, umRx, um_highest>>
    BY <1>4 DEF UmPduLost
  <2> QED BY <2>1, LostFits
<1>5. CASE UmTimerExpired BY <1>5, ExpireFits
<1>6. CASE UmReestablish BY <1>6, ReestablishFits
<1>7. CASE UNCHANGED umVars BY <1>7, StutterFits
<1> QED BY <1>1, <1>2, <1>3, <1>4, <1>5, <1>6, <1>7 DEF UmNext

LEMMA UmAlways == UmSpec => []UmInv
<1>1. UmInit => UmInv BY InitFits
<1>2. UmInv /\ [UmNext]_umVars => UmInv' BY UmStep
<1> QED BY <1>1, <1>2, PTL DEF UmSpec

\* What the invariant says of the receiver's variables.
LEMMA ReceiverIs ==
    ASSUME UmTypes, NEW cut \in [Nat -> Cut], NEW u \in Nat, UmFits(cut, u), NEW h, h = um_highest
    PROVE  /\ h \in Nat /\ vr_uh = h % MOD /\ vr_ur = u % MOD /\ h - WINDOW <= u /\ u <= h
           /\ pdu_lost \in BOOLEAN /\ vr_ur_in_rx_sdu \in SN
           /\ um_delivered \in Seq(Seq(Unit)) /\ Ordered(um_delivered, cut[u].done)
           /\ \A sn \in DOMAIN um_window :
                 sn \in SN /\ \E n \in Nat : sn = n % MOD /\ u < n /\ n < h
<1>1. PICK e, r : e = Now(cut) /\ r = Reassembly OBVIOUS
<1>2. r \in Reassemblies /\ Basic(e, r, u) /\ e.high - WINDOW <= u /\ u % MOD \notin DOMAIN r.window
  BY <1>1 DEF UmFits, Received, Rests
<1>3. e.high = h /\ e.stop = h /\ e.cut = cut BY <1>1 DEF Now
<1>4. /\ r.vr_ur = vr_ur /\ r.pdu_lost = pdu_lost /\ r.in = vr_ur_in_rx_sdu /\ r.window = um_window
      /\ r.out = um_delivered
  BY <1>1 DEF Reassembly
<1>5. /\ r.pdu_lost \in BOOLEAN /\ r.in \in SN /\ r.out \in Seq(Seq(Unit)) BY <1>2 DEF Reassemblies
<1>6. ASSUME NEW sn \in DOMAIN um_window
      PROVE sn \in SN /\ \E n \in Nat : sn = n % MOD /\ u < n /\ n < h
  <2>1. PICK n \in Nat : n = r.window[sn].n /\ sn \in SN BY <1>2, <1>4, WindowType
  <2>2. n % MOD = sn /\ u <= n /\ n < h BY <1>2, <1>3, <1>4, <2>1 DEF Basic, InWindow
  <2>3. n # u BY <1>2, <1>4, <2>2
  <2>4. u < n BY <2>2, <2>3, SMT
  <2> QED BY <2>1, <2>2, <2>4
<1> QED BY <1>2, <1>3, <1>4, <1>5, <1>6 DEF Basic, UmTypes

(***************************************************************************)
(* The members of the receiver keep their types: vr_ur is not ahead of     *)
(* vr_uh, and what is in rx_window is between them, although SNs wrap and  *)
(* both are reset when the bearer is re-established.                       *)
(***************************************************************************)
THEOREM UmTypeCorrect == UmSpec => []UmTypeOK
<1>1. UmInv => UmTypeOK
  <2> SUFFICES ASSUME UmInv PROVE UmTypeOK OBVIOUS
  <2>1. UmTypes BY DEF UmInv
  <2>2. PICK cut \in [Nat -> Cut], u \in Nat : UmFits(cut, u) BY DEF UmInv
  <2>3. PICK h : h = um_highest OBVIOUS
  <2>4. /\ h \in Nat /\ vr_uh = h % MOD /\ vr_ur = u % MOD /\ h - WINDOW <= u /\ u <= h
        /\ pdu_lost \in BOOLEAN /\ vr_ur_in_rx_sdu \in SN
        /\ \A sn \in DOMAIN um_window :
              sn \in SN /\ \E n \in Nat : sn = n % MOD /\ u < n /\ n < h
    BY <2>1, <2>2, <2>3, ReceiverIs
  <2>5. h - WINDOW <= h /\ h <= h BY <2>4, Sizes, SMT
  <2>6. UM_OFFSET(u % MOD) = (u - h) + WINDOW /\ UM_OFFSET(h % MOD) = (h - h) + WINDOW
    BY <2>4, <2>5, OffsetIs
  <2>7. UM_OFFSET(vr_ur) <= UM_OFFSET(vr_uh)
    <3>1. (u - h) + WINDOW <= (h - h) + WINDOW BY <2>4, Sizes, SMT
    <3> QED BY <2>4, <2>6, <3>1
  <2>8. ASSUME NEW sn \in DOMAIN um_window
        PROVE UM_OFFSET(vr_ur) < UM_OFFSET(sn) /\ UM_OFFSET(sn) < UM_OFFSET(vr_uh)
    <3>1. PICK n \in Nat : sn = n % MOD /\ u < n /\ n < h BY <2>4, <2>8
    <3>2. h - WINDOW <= n /\ n <= h BY <2>4, <3>1, Sizes, SMT
    <3>3. UM_OFFSET(n % MOD) = (n - h) + WINDOW BY <2>4, <3>2, OffsetIs
    <3>4. (u - h) + WINDOW < (n - h) + WINDOW /\ (n - h) + WINDOW < (h - h) + WINDOW
      BY <2>4, <3>1, Sizes, SMT
    <3> QED BY <2>4, <2>6, <3>1, <3>3, <3>4
  <2>9. {vt_us, vr_ur, vr_ux, vr_uh, vr_ur_in_rx_sdu} \union DOMAIN um_window \subseteq SN
    <3>1. vt_us \in SN /\ vr_ux \in SN BY <2>1, SnType DEF UmTypes
    <3>2. vr_ur \in SN /\ vr_uh \in SN BY <2>4, SnType
    <3> QED BY <2>4, <3>1, <3>2
  <2>10. t_reordering \in BOOLEAN BY <2>1 DEF UmTypes
  <2> QED BY <2>4, <2>7, <2>8, <2>9, <2>10 DEF UmTypeOK
<1> QED BY <1>1, UmAlways, PTL

\* What is delivered is whole and in order.
LEMMA DeliveredIs == ASSUME UmInv PROVE \E b \in Nat : Ordered(um_delivered, b) /\ um_delivered \in Seq(Seq(Unit))
<1>1. UmTypes BY DEF UmInv
<1>2. PICK cut \in [Nat -> Cut], u \in Nat : UmFits(cut, u) BY DEF UmInv
<1>3. um_delivered \in Seq(Seq(Unit)) /\ Ordered(um_delivered, cut[u].done) BY <1>1, <1>2, ReceiverIs
<1>4. cut[u].done \in Nat BY DEF Cut
<1> QED BY <1>3, <1>4

(***************************************************************************)
(* reassemble_rx_sdus hands only whole SDUs to PDCP, whatever PDUs are     *)
(* lost, late or reordered and whenever the timer expires or the bearer is *)
(* re-established.                                                         *)
(***************************************************************************)
THEOREM OnlyWholeSdus == UmSpec => []WholeSdus
<1>1. UmInv => WholeSdus
  <2> SUFFICES ASSUME UmInv PROVE WholeSdus OBVIOUS
  <2>1. PICK b \in Nat : Ordered(um_delivered, b) /\ um_delivered \in Seq(Seq(Unit)) BY DeliveredIs
  <2>2. DOMAIN um_delivered = 1 .. Len(um_delivered) BY <2>1, LenProperties
  <2> QED BY <2>1, <2>2 DEF WholeSdus, Ordered, Whole
<1> QED BY <1>1, UmAlways, PTL

(***************************************************************************)
(* reassemble_rx_sdus hands them up in the order in which they were        *)
(* written, and none twice.                                                *)
(***************************************************************************)
THEOREM UmInOrder == UmSpec => []SdusInOrder
<1>1. UmInv => SdusInOrder
  <2> SUFFICES ASSUME UmInv PROVE SdusInOrder OBVIOUS
  <2>1. PICK b \in Nat : Ordered(um_delivered, b) /\ um_delivered \in Seq(Seq(Unit)) BY DeliveredIs
  <2>2. DOMAIN um_delivered = 1 .. Len(um_delivered) BY <2>1, LenProperties
  <2> QED BY <2>1, <2>2 DEF SdusInOrder, Ordered
<1> QED BY <1>1, UmAlways, PTL

(***************************************************************************)
(* handle_data_pdu and timer_expired leave reordering_timer running while  *)
(* a PDU is missing below vr_uh.                                           *)
(***************************************************************************)
THEOREM GapAlwaysTimed == UmSpec => []UmGapIsTimed
<1>1. UmInv => UmGapIsTimed
  <2> SUFFICES ASSUME UmInv, UM_OFFSET(vr_ur) < UM_OFFSET(vr_uh) PROVE t_reordering BY DEF UmGapIsTimed
  <2>1. UmTypes BY DEF UmInv
  <2>2. PICK cut \in [Nat -> Cut], u \in Nat : UmFits(cut, u) BY DEF UmInv
  <2>3. PICK h : h = um_highest OBVIOUS
  <2>4. h \in Nat /\ vr_uh = h % MOD /\ vr_ur = u % MOD /\ h - WINDOW <= u /\ u <= h
    BY <2>1, <2>2, <2>3, ReceiverIs
  <2>5. h - WINDOW <= h /\ h <= h BY <2>4, Sizes, SMT
  <2>6. UM_OFFSET(u % MOD) = (u - h) + WINDOW /\ UM_OFFSET(h % MOD) = (h - h) + WINDOW
    BY <2>4, <2>5, OffsetIs
  <2>7. (u - h) + WINDOW < (h - h) + WINDOW BY <2>4, <2>6
  <2>8. u < h BY <2>4, <2>7, Sizes, SMT
  <2> QED BY <2>2, <2>3, <2>8 DEF UmFits, Awaits
<1> QED BY <1>1, UmAlways, PTL

(***************************************************************************)
(* When all that was written with try_write_sdu was sent, nothing is under *)
(* way and reordering_timer does not run, an SDU that lost nothing is      *)
(* missing only behind one that lost something.                            *)
(***************************************************************************)
THEOREM OnlyBehindBroken == UmSpec => []LostBehindBroken
<1>1. UmInv => LostBehindBroken
  <2> SUFFICES ASSUME UmInv, Settled, NEW n \in Missing PROVE broken \intersect (1 .. n - 1) # {}
    BY DEF LostBehindBroken
  <2>1. UmTypes BY DEF UmInv
  <2>2. PICK cut \in [Nat -> Cut], u \in Nat : UmFits(cut, u) BY DEF UmInv
  <2>3. PICK e, r : e = Now(cut) /\ r = Reassembly OBVIOUS
  <2>4. PICK s \in Nat, h \in Nat, w \in Nat : s = um_sent /\ h = um_highest /\ w = um_written
    BY <2>1 DEF UmTypes
  <2>5. /\ e.high = h /\ e.sent = s /\ e.cut = cut /\ e.bad = broken
        /\ e.gone = {air[i].n : i \in DOMAIN air} /\ r.out = um_delivered
    BY <2>3, <2>4 DEF Now, Reassembly
  <2>6. ToSend = << >> /\ air = << >> /\ ~t_reordering BY DEF Settled
  <2>7. e.gone = {} BY <2>5, <2>6
  <2>8. n \in Nat /\ 1 <= n /\ n <= w /\ n \notin broken /\ ~Has(r.out, n)
    <3>1. n \in 1 .. w /\ n \notin broken /\ n \notin {um_delivered[i][1].sdu : i \in DOMAIN um_delivered}
      BY <2>4 DEF Missing
    <3>2. um_delivered \in Seq(Seq(Unit)) BY <2>1, <2>2, ReceiverIs
    <3>3. DOMAIN um_delivered = 1 .. Len(um_delivered) BY <3>2, LenProperties
    <3>4. ~Has(r.out, n) BY <2>5, <3>1, <3>3 DEF Has
    <3>5. n \in Nat /\ 1 <= n /\ n <= w BY <3>1, SMT
    <3> QED BY <3>1, <3>4, <3>5
  <2>9. Prog(e, r, u) /\ Rests(e, r, u) BY <2>2, <2>3 DEF UmFits, Received
  <2>10. ASSUME NEW a \in Nat, HasAll(r.out, 0, a), a + 1 \in broken
         PROVE broken \intersect (1 .. n - 1) # {}
    <3>1. ~(0 < n /\ n <= a) BY <2>8, <2>10 DEF HasAll
    <3>2. n # a + 1 BY <2>8, <2>10
    <3>3. a + 1 \in 1 .. n - 1 BY <2>8, <3>1, <3>2, SMT
    <3> QED BY <2>10, <3>3
  <2>11. CASE Doomed(e, r, u) BY <2>5, <2>7, <2>10, <2>11 DEF Doomed
  <2>12. CASE Clean(e, r, u)
    <3>1. HasAll(r.out, 0, cut[u].done) /\ u <= s /\ cut[u].done \in Nat
      BY <2>5, <2>12 DEF Clean, UpToDate, Cut
    <3>2. CASE u = s
      <4>1. /\ Queued(um_sdu, um_queue, cut[s], w) /\ um_queue \in Seq(Seq(Unit)) /\ um_sdu \in Seq(Unit)
            /\ cut[s] \in Cut
        BY <2>1, <2>2, <2>4 DEF UmFits, Sent, UmTypes
      <4>2. Lined(ToSend, cut[s], w)
        <5>1. PICK t : t = ToSend OBVIOUS
        <5>2. t = IF um_sdu = << >> THEN um_queue ELSE <<um_sdu>> \o um_queue BY <5>1 DEF ToSend
        <5>3. Lined(t, cut[s], w) BY <4>1, <5>2, QueuedLined
        <5> QED BY <5>1, <5>3
      <4>3. w = cut[s].done + 0 BY <2>6, <4>2, EmptySeq DEF Lined
      <4>4. n <= cut[u].done BY <2>8, <3>1, <3>2, <4>3, SMT
      <4>5. 0 < n BY <2>8, SMT
      <4> QED BY <2>8, <3>1, <4>4, <4>5 DEF HasAll
    <3>3. CASE u # s
      <4>1. u < s /\ u <= u BY <3>1, <3>3, SMT
      <4>2. ~Stored(r.window, u) BY <2>9 DEF Rests, Stored
      <4>3. Astray(e, u) BY <2>5, <2>9, <4>1, <4>2 DEF Rests, Basic, Accounted
      <4>4. CASE cut[u].done + 1 \in broken BY <2>10, <3>1, <4>4
      <4>5. CASE 1 \in broken
        <5>1. n # 1 BY <2>8, <4>5
        <5>2. 1 \in 1 .. n - 1 BY <2>8, <5>1, SMT
        <5> QED BY <4>5, <5>2
      <4> QED BY <2>5, <2>7, <4>3, <4>4, <4>5 DEF Astray
    <3> QED BY <3>2, <3>3
  <2> QED BY <2>9, <2>11, <2>12 DEF Prog
<1> QED BY <1>1, UmAlways, PTL
=============================================================================
