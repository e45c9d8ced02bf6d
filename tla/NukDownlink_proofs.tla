------------------------- MODULE NukDownlink_proofs -------------------------
(***************************************************************************)
(* Proofs about the split bearer: decide_path and the commands that        *)
(* interleave with it (NukSplit), for every width of the counter and every *)
(* ratio, and the receiver (NukBearer, PdcpAm), for every sequence number  *)
(* length, window, skew and number of PDUs.                                *)
(***************************************************************************)
EXTENDS NukSplit, NukBearer, SequenceTheorems, FiniteSetTheorems, TLAPS

-----------------------------------------------------------------------------
(***************************************************************************)
(* The range of a sequence after an operation on it.                       *)
(***************************************************************************)
LEMMA RangeOfOne ==
    ASSUME NEW e PROVE Range(<<e>>) = {e}
BY SMT DEF Range

LEMMA RangeOfConcat ==
    ASSUME NEW S, NEW s \in Seq(S), NEW t \in Seq(S)
    PROVE  s \o t \in Seq(S) /\ Range(s \o t) = Range(s) \cup Range(t)
<1>1. /\ s \o t \in Seq(S) /\ Len(s \o t) = Len(s) + Len(t)
      /\ \A i \in 1 .. Len(s) + Len(t) :
            (s \o t)[i] = IF i <= Len(s) THEN s[i] ELSE t[i - Len(s)]
  BY ConcatProperties
<1>2. /\ Len(s) \in Nat /\ Len(t) \in Nat
      /\ DOMAIN s = 1 .. Len(s) /\ DOMAIN t = 1 .. Len(t)
      /\ DOMAIN (s \o t) = 1 .. Len(s) + Len(t)
  BY <1>1, LenProperties
<1> DEFINE c == s \o t
<1>3. \A i \in 1 .. Len(s) + Len(t) : c[i] = IF i <= Len(s) THEN s[i] ELSE t[i - Len(s)]
  BY <1>1
<1>4. DOMAIN c = 1 .. Len(s) + Len(t)
  BY <1>2
<1> HIDE DEF c
<1>5. Range(c) \subseteq Range(s) \cup Range(t)
  <2> SUFFICES ASSUME NEW i \in DOMAIN c PROVE c[i] \in Range(s) \cup Range(t)
    BY DEF Range
  <2>1. CASE i <= Len(s)
    <3>1. i \in DOMAIN s /\ c[i] = s[i] BY <1>2, <1>3, <1>4, <2>1, SMT
    <3> QED BY <3>1 DEF Range
  <2>2. CASE ~(i <= Len(s))
    <3>1. i - Len(s) \in DOMAIN t /\ c[i] = t[i - Len(s)] BY <1>2, <1>3, <1>4, <2>2, SMT
    <3> QED BY <3>1 DEF Range
  <2> QED BY <2>1, <2>2
<1>6. Range(s) \subseteq Range(c)
  <2> SUFFICES ASSUME NEW i \in DOMAIN s PROVE s[i] \in Range(c)
    BY DEF Range
  <2>1. i \in DOMAIN c /\ c[i] = s[i] BY <1>2, <1>3, <1>4, SMT
  <2> QED BY <2>1 DEF Range
<1>7. Range(t) \subseteq Range(c)
  <2> SUFFICES ASSUME NEW i \in DOMAIN t PROVE t[i] \in Range(c)
    BY DEF Range
  <2>1. i + Len(s) \in DOMAIN c /\ c[i + Len(s)] = t[i]
    <3>1. /\ i + Len(s) \in 1 .. Len(s) + Len(t) /\ ~(i + Len(s) <= Len(s))
          /\ (i + Len(s)) - Len(s) = i
      BY <1>2, SMT
    <3> QED BY <1>3, <1>4, <3>1
  <2> QED BY <2>1 DEF Range
<1> QED BY <1>1, <1>5, <1>6, <1>7 DEF c

LEMMA RangeOfTail ==
    ASSUME NEW S, NEW s \in Seq(S), s # << >>
    PROVE  /\ Head(s) \in S /\ Tail(s) \in Seq(S)
           /\ Range(s) = {Head(s)} \cup Range(Tail(s))
<1>1. s = <<Head(s)>> \o Tail(s) /\ Head(s) \in S /\ Tail(s) \in Seq(S)
  BY SMT
<1>2. <<Head(s)>> \in Seq(S)
  BY <1>1, SMT
<1>3. Range(<<Head(s)>> \o Tail(s)) = Range(<<Head(s)>>) \cup Range(Tail(s))
  BY <1>1, <1>2, RangeOfConcat, ZenonT(30)
<1> QED BY <1>1, <1>3, RangeOfOne

\* l remembers e last, and before it the end of s, in order.
Remembers(l, s, e) ==
    \A i \in 1 .. Len(l) :
        \/ i = Len(l) /\ l[i] = e
        \/ \E k \in 1 .. Len(s) : l[i] = s[k] /\ Len(l) - i = (Len(s) + 1) - k

\* Latest keeps the order, and the end.
LEMMA LatestIs ==
    ASSUME NEW S, NEW s \in Seq(S), NEW e \in S
    PROVE  Latest(Append(s, e)) \in Seq(S) /\ Remembers(Latest(Append(s, e)), s, e)
<1> DEFINE l == Latest(Append(s, e))
<1> DEFINE a == Append(s, e)
<1>1. /\ a \in Seq(S) /\ Len(a) = Len(s) + 1 /\ Len(s) \in Nat
      /\ \A i \in 1 .. Len(s) : a[i] = s[i]
      /\ a[Len(s) + 1] = e
  BY SMT
<1>2. \A i \in 1 .. Len(a) : a[i] \in S
  BY <1>1, ElementOfSeq
<1>l. l = Latest(a) BY DEF l
<1> HIDE DEF a, l
<1>3. PICK m \in {1, 2} : l = SubSeq(a, m, Len(a))
  BY <1>l DEF Latest
<1>4. /\ l \in Seq(S)
      /\ Len(l) = IF m <= Len(a) THEN Len(a) - m + 1 ELSE 0
      /\ \A i \in 1 .. Len(a) - m + 1 : l[i] = a[m + i - 1]
  <2>1. m \in Int /\ Len(a) \in Int /\ \A j \in m .. Len(a) : a[j] \in S
    BY <1>1, <1>2, SMT
  <2> QED BY <1>3, <2>1, SubSeqProperties
<1>5. ASSUME NEW i \in 1 .. Len(l)
      PROVE  \/ i = Len(l) /\ l[i] = e
             \/ \E k \in 1 .. Len(s) : l[i] = s[k] /\ Len(l) - i = (Len(s) + 1) - k
  <2>1. /\ i \in 1 .. Len(a) - m + 1 /\ m + i - 1 \in 1 .. Len(s) + 1
        /\ Len(l) - i = (Len(s) + 1) - (m + i - 1)
        /\ m + i - 1 = Len(s) + 1 => i = Len(l)
    BY <1>1, <1>4, SMT
  <2>2. l[i] = a[m + i - 1]
    BY <1>4, <2>1
  <2>3. CASE m + i - 1 = Len(s) + 1
    BY <1>1, <2>1, <2>2, <2>3
  <2>4. CASE m + i - 1 # Len(s) + 1
    <3>1. m + i - 1 \in 1 .. Len(s) BY <1>1, <2>1, <2>4, SMT
    <3>2. l[i] = s[m + i - 1] BY <1>1, <2>2, <3>1
    <3> QED BY <2>1, <3>1, <3>2
  <2> QED BY <2>3, <2>4
<1>6. l \in Seq(S) /\ Remembers(l, s, e) BY <1>4, <1>5 DEF Remembers
<1> QED BY <1>6 DEF l

\* What Latest keeps was there.
LEMMA RangeOfLatest ==
    ASSUME NEW S, NEW s \in Seq(S), NEW e \in S
    PROVE  /\ Latest(Append(s, e)) \in Seq(S)
           /\ Range(Latest(Append(s, e))) \subseteq Range(s) \cup {e}
<1> DEFINE l == Latest(Append(s, e))
<1>1. /\ l \in Seq(S)
      /\ \A i \in 1 .. Len(l) : l[i] = e \/ \E k \in 1 .. Len(s) : l[i] = s[k]
  <2>1. l \in Seq(S) /\ Remembers(l, s, e) BY LatestIs
  <2> QED BY <2>1 DEF Remembers
<1> HIDE DEF l
<1>2. DOMAIN l = 1 .. Len(l) /\ DOMAIN s = 1 .. Len(s) BY <1>1, LenProperties
<1> QED BY <1>1, <1>2 DEF Range, l

-----------------------------------------------------------------------------
(***************************************************************************)
(* The inductive invariant.  SettingsObeyed speaks of what decide_path     *)
(* returned; that it is kept depends on where decide_path may be while no  *)
(* command interferes, and that it never finds both ratios 0 depends on    *)
(* what the command being run has still to assign.                         *)
(***************************************************************************)
Uint8 == 0 .. U8 - 1

Paths == {0, ToMeNB, ToSeNB, Duplicated, Unknown}

Assignment ==
    [member : {"split_mode", "duplication_mode"}, value : BOOLEAN]
      \cup [member : {"ratio_MeNB", "ratio_SeNB", "split_count"}, value : Uint8]

Typed == SplitTypeOK /\ todo \in Seq(Assignment) /\ recent \in Seq(Paths)

\* A path is remembered, and a call counts as fresh, only between commands.
Quiet == fresh \/ recent # << >> => todo = << >>

\* The assignments in as, made to r, leave the ratios a and b.
Leaves(r, as, a, b) ==
    /\ \A x \in as : /\ x.member = "ratio_MeNB" => x.value = a
                     /\ x.member = "ratio_SeNB" => x.value = b
    /\ (\A x \in as : x.member # "ratio_MeNB") => r.ratio_MeNB = a
    /\ (\A x \in as : x.member # "ratio_SeNB") => r.ratio_SeNB = b

\* The command being run will not leave both ratios 0.
RatioAhead == \E a, b \in Uint8 : ~(a = 0 /\ b = 0) /\ Leaves(rlc, Range(todo), a, b)

\* A call that no command interferes with gets past a test only if it fails.
Passed ==
    /\ fresh /\ pc \notin {"idle", "duplication"} => ~rlc.duplication_mode
    /\ fresh /\ pc \notin {"idle", "duplication", "split"} => rlc.split_mode
    /\ pc \in {"read", "write"} => path \in {ToMeNB, ToSeNB}

\* What SettingsObeyed says of one path.
Obeys(p, r) ==
    /\ p = Duplicated <=> r.duplication_mode
    /\ ~r.duplication_mode /\ ~r.split_mode => p = ToMeNB
    /\ p # Unknown

Obeyed == \A p \in Range(recent) : Obeys(p, rlc)

SplitIInv == Typed /\ Quiet /\ RatioAhead /\ Passed /\ Obeyed

LEMMA ObeyedIsSettingsObeyed == Obeyed <=> SettingsObeyed
BY DEF Obeyed, Obeys, SettingsObeyed, Range

LEMMA U8Type == U8 \in Nat /\ U8 > 1 /\ 0 \in Uint8 /\ 1 \in Uint8
BY SplitAssumption, SMT DEF Uint8

\* The tests of decide_path, one by one.
LEMMA Tests ==
    /\ DOMAIN EarlyReturns = {"duplication", "split", "only_SeNB", "only_MeNB", "error"}
    /\ EarlyReturns["duplication"].holds <=> rlc.duplication_mode
    /\ EarlyReturns["duplication"].path = Duplicated /\ EarlyReturns["duplication"].next = "split"
    /\ EarlyReturns["split"].holds <=> ~rlc.split_mode
    /\ EarlyReturns["split"].path = ToMeNB /\ EarlyReturns["split"].next = "only_SeNB"
    /\ EarlyReturns["only_SeNB"].holds <=> (rlc.ratio_MeNB = 0 /\ rlc.ratio_SeNB # 0)
    /\ EarlyReturns["only_SeNB"].path = ToSeNB /\ EarlyReturns["only_SeNB"].next = "only_MeNB"
    /\ EarlyReturns["only_MeNB"].holds <=> (rlc.ratio_SeNB = 0 /\ rlc.ratio_MeNB # 0)
    /\ EarlyReturns["only_MeNB"].path = ToMeNB /\ EarlyReturns["only_MeNB"].next = "error"
    /\ EarlyReturns["error"].holds <=> (rlc.ratio_MeNB = 0 /\ rlc.ratio_SeNB = 0)
    /\ EarlyReturns["error"].path = Unknown /\ EarlyReturns["error"].next = "cycle"
BY Zenon DEF EarlyReturns, Duplicates

LEMMA InitIInv == SplitInit => SplitIInv
<1> SUFFICES ASSUME SplitInit PROVE SplitIInv
  OBVIOUS
<1>1. Typed
  <2>1. count = 0 /\ path = 0 /\ pc = "idle" /\ fresh = FALSE /\ todo = << >> /\ recent = << >>
    BY Zenon DEF SplitInit
  <2>2. rlc \in [split_mode : BOOLEAN, duplication_mode : BOOLEAN, ratio_MeNB : Uint8,
                 ratio_SeNB : Uint8, split_count : Uint8]
    BY U8Type, Zenon DEF SplitInit
  <2>3. << >> \in Seq(Assignment) /\ << >> \in Seq(Paths)
    BY SMT
  <2> QED BY <2>1, <2>2, <2>3, U8Type, Zenon DEF Typed, SplitTypeOK, Uint8
<1>2. Quiet
  BY Zenon DEF SplitInit, Quiet
<1>3. Range(<< >>) = {}
  BY SMT DEF Range
<1>4. RatioAhead
  <2>1. rlc.ratio_MeNB = 1 /\ rlc.ratio_SeNB = 0 /\ Range(todo) = {} BY <1>3 DEF SplitInit
  <2>2. Leaves(rlc, Range(todo), 1, 0) BY <2>1 DEF Leaves
  <2> QED BY <2>2, U8Type, SMT DEF RatioAhead
<1>5. Passed
  BY SMT DEF SplitInit, Passed
<1>6. Obeyed
  BY <1>3, Zenon DEF SplitInit, Obeyed
<1> QED BY <1>1, <1>2, <1>4, <1>5, <1>6 DEF SplitIInv

-----------------------------------------------------------------------------
(***************************************************************************)
(* The commands.                                                           *)
(***************************************************************************)
\* A command that does not touch the ratios.
LEMMA NoRatio ==
    ASSUME NEW c \in Seq(Assignment), Typed, RatioAhead, todo = << >>,
           \A x \in Range(c) : x.member \notin {"ratio_MeNB", "ratio_SeNB"}
    PROVE  \E a, b \in Uint8 : ~(a = 0 /\ b = 0) /\ Leaves(rlc, Range(c), a, b)
<1>1. PICK a, b \in Uint8 : ~(a = 0 /\ b = 0) /\ Leaves(rlc, Range(todo), a, b)
  BY DEF RatioAhead
<1>2. Range(todo) = {}
  BY SMT DEF Range
<1>3. rlc.ratio_MeNB = a /\ rlc.ratio_SeNB = b
  BY <1>1, <1>2, Zenon DEF Leaves
<1>4. Leaves(rlc, Range(c), a, b)
  BY <1>3, Zenon DEF Leaves
<1> QED BY <1>1, <1>4, Zenon

LEMMA SetType ==
    ASSUME NEW m, NEW v, [member |-> m, value |-> v] \in Assignment
    PROVE  Set(m, v) \in Seq(Assignment) /\ Range(Set(m, v)) = {[member |-> m, value |-> v]}
<1>1. Set(m, v) \in Seq(Assignment)
  BY SMT DEF Set
<1> QED BY <1>1, RangeOfOne, Zenon DEF Set

LEMMA MemberOf ==
    ASSUME NEW as, NEW m, NEW v, as \subseteq {[member |-> m, value |-> v]}
    PROVE  \A x \in as : x.member = m
<1> SUFFICES ASSUME NEW x \in as PROVE x.member = m
  OBVIOUS
<1>1. x = [member |-> m, value |-> v]
  BY Zenon
<1> QED BY <1>1, SMT

LEMMA Members ==
    /\ \A v \in BOOLEAN : /\ [member |-> "split_mode", value |-> v] \in Assignment
                         /\ [member |-> "duplication_mode", value |-> v] \in Assignment
    /\ \A v \in Uint8 : /\ [member |-> "ratio_MeNB", value |-> v] \in Assignment
                       /\ [member |-> "ratio_SeNB", value |-> v] \in Assignment
                       /\ [member |-> "split_count", value |-> v] \in Assignment
BY SMT DEF Assignment

\* Force set ratio: a command that sets the ratios does not leave both 0.
LEMMA SetSplitRatioLeaves ==
    ASSUME NEW m \in Nat, NEW s \in Nat
    PROVE  /\ SetSplitRatio(m, s) \in Seq(Assignment)
           /\ \E a, b \in Uint8 :
                 /\ ~(a = 0 /\ b = 0)
                 /\ \E z \in {{}, {[member |-> "split_count", value |-> 0]}} :
                       Range(SetSplitRatio(m, s))
                         = {[member |-> "ratio_MeNB", value |-> a],
                            [member |-> "ratio_SeNB", value |-> b]} \cup z
<1>1. CASE m % U8 = 0 /\ s % U8 = 0
  <2>1. SetSplitRatio(m, s) = Set("ratio_MeNB", 1) \o Set("ratio_SeNB", 0)
    BY <1>1, Zenon DEF SetSplitRatio
  <2>2. /\ Set("ratio_MeNB", 1) \in Seq(Assignment)
        /\ Range(Set("ratio_MeNB", 1)) = {[member |-> "ratio_MeNB", value |-> 1]}
        /\ Set("ratio_SeNB", 0) \in Seq(Assignment)
        /\ Range(Set("ratio_SeNB", 0)) = {[member |-> "ratio_SeNB", value |-> 0]}
    BY U8Type, Members, SetType, Zenon
  <2>3. /\ SetSplitRatio(m, s) \in Seq(Assignment)
        /\ Range(SetSplitRatio(m, s)) = {[member |-> "ratio_MeNB", value |-> 1],
                                          [member |-> "ratio_SeNB", value |-> 0]} \cup {}
    BY <2>1, <2>2, RangeOfConcat
  <2>4. 1 \in Uint8 /\ 0 \in Uint8 /\ 1 # 0 BY U8Type, SMT
  <2> QED BY <2>3, <2>4
<1>2. CASE ~(m % U8 = 0 /\ s % U8 = 0)
  <2> DEFINE c1 == Set("ratio_MeNB", m % U8)
             c2 == Set("ratio_SeNB", s % U8)
             c3 == Set("split_count", 0)
  <2>1. SetSplitRatio(m, s) = c1 \o c2 \o c3
    BY <1>2, Zenon DEF SetSplitRatio
  <2>2. m % U8 \in Uint8 /\ s % U8 \in Uint8
    BY U8Type, SMT DEF Uint8
  <2>3. /\ c1 \in Seq(Assignment) /\ Range(c1) = {[member |-> "ratio_MeNB", value |-> m % U8]}
        /\ c2 \in Seq(Assignment) /\ Range(c2) = {[member |-> "ratio_SeNB", value |-> s % U8]}
        /\ c3 \in Seq(Assignment) /\ Range(c3) = {[member |-> "split_count", value |-> 0]}
    BY <2>2, U8Type, Members, SetType, Zenon
  <2> HIDE DEF c1, c2, c3
  <2> DEFINE c12 == c1 \o c2
  <2>4. c12 \in Seq(Assignment) /\ Range(c12) = Range(c1) \cup Range(c2)
    BY <2>3, RangeOfConcat
  <2>5. SetSplitRatio(m, s) = c12 \o c3
    BY <2>1
  <2> HIDE DEF c12
  <2>6. c12 \o c3 \in Seq(Assignment) /\ Range(c12 \o c3) = Range(c12) \cup Range(c3)
    BY <2>3, <2>4, RangeOfConcat
  <2> QED BY <2>2, <2>3, <2>4, <2>5, <2>6, <1>2
<1> QED BY <1>1, <1>2

LEMMA RatiosLeft ==
    ASSUME NEW as, NEW a, NEW b, NEW other,
           as = {[member |-> "ratio_MeNB", value |-> a], [member |-> "ratio_SeNB", value |-> b]}
                  \cup other,
           \A x \in other : x.member \notin {"ratio_MeNB", "ratio_SeNB"}
    PROVE  Leaves(rlc, as, a, b)
<1>1. ASSUME NEW x \in as PROVE /\ x.member = "ratio_MeNB" => x.value = a
                                /\ x.member = "ratio_SeNB" => x.value = b
  <2>1. CASE x = [member |-> "ratio_MeNB", value |-> a] BY <2>1, SMT
  <2>2. CASE x = [member |-> "ratio_SeNB", value |-> b] BY <2>2, SMT
  <2>3. CASE x \in other BY <2>3, Zenon
  <2> QED BY <2>1, <2>2, <2>3
<1>2. ~\A x \in as : x.member # "ratio_MeNB"
  <2>1. [member |-> "ratio_MeNB", value |-> a] \in as BY Zenon
  <2> QED BY <2>1
<1>3. ~\A x \in as : x.member # "ratio_SeNB"
  <2>1. [member |-> "ratio_SeNB", value |-> b] \in as BY Zenon
  <2> QED BY <2>1
<1> QED BY <1>1, <1>2, <1>3, Zenon DEF Leaves

\* What a command has to assign is typed and does not leave both ratios 0.
LEMMA CommandLeaves ==
    ASSUME Typed, RatioAhead, Command
    PROVE  todo' \in Seq(Assignment) /\ RatioAhead'
<1> DEFINE Fine(c) == \E a, b \in Uint8 : ~(a = 0 /\ b = 0) /\ Leaves(rlc, Range(c), a, b)
<1> SUFFICES todo' \in Seq(Assignment) /\ Fine(todo')
  <2>1. rlc' = rlc
    BY Zenon DEF Command
  <2>2. ASSUME Fine(todo') PROVE RatioAhead'
    <3>1. PICK a, b \in Uint8 : ~(a = 0 /\ b = 0) /\ Leaves(rlc, Range(todo'), a, b)
      BY <2>2
    <3>2. Leaves(rlc', Range(todo'), a, b)
      BY <2>1, <3>1
    <3> QED BY <3>1, <3>2, Zenon DEF RatioAhead, Uint8
  <2> QED BY <2>2
<1>0. todo = << >> /\ rlc.split_mode \in BOOLEAN /\ rlc.duplication_mode \in BOOLEAN
  BY SMT DEF Command, Typed, SplitTypeOK
<1>1. CASE todo' = SetSplitMode /\ rlc.split_mode
  <2> DEFINE c == Set("split_mode", FALSE)
  <2>1. c \in Seq(Assignment) /\ Range(c) = {[member |-> "split_mode", value |-> FALSE]}
    BY Members, SetType, Zenon
  <2>2. todo' = c
    BY <1>1, Zenon DEF SetSplitMode
  <2> HIDE DEF c
  <2>3. \A x \in Range(c) : x.member \notin {"ratio_MeNB", "ratio_SeNB"}
    <3>1. \A x \in Range(c) : x.member = "split_mode" BY <2>1, MemberOf
    <3> QED BY <3>1, SMT
  <2> QED BY <1>0, <2>1, <2>3, <2>2, NoRatio
<1>2. CASE todo' = SetSplitMode /\ ~rlc.split_mode
  <2> DEFINE c1 == Set("split_mode", TRUE)
             c2 == Set("duplication_mode", FALSE)
             c3 == Set("split_count", 0)
             c4 == SetSplitRatio(1, 0)
             e1 == {[member |-> "split_mode", value |-> TRUE],
                    [member |-> "duplication_mode", value |-> FALSE],
                    [member |-> "split_count", value |-> 0]}
  <2>1. todo' = c1 \o c2 \o c3 \o c4
    BY <1>2, Zenon DEF SetSplitMode
  <2>2. /\ c1 \in Seq(Assignment) /\ Range(c1) = {[member |-> "split_mode", value |-> TRUE]}
        /\ c2 \in Seq(Assignment) /\ Range(c2) = {[member |-> "duplication_mode", value |-> FALSE]}
        /\ c3 \in Seq(Assignment) /\ Range(c3) = {[member |-> "split_count", value |-> 0]}
    BY U8Type, Members, SetType, Zenon
  <2>3. /\ c4 \in Seq(Assignment)
        /\ \E a, b \in Uint8 :
              /\ ~(a = 0 /\ b = 0)
              /\ \E z \in {{}, {[member |-> "split_count", value |-> 0]}} :
                    Range(c4) = {[member |-> "ratio_MeNB", value |-> a],
                                 [member |-> "ratio_SeNB", value |-> b]} \cup z
    BY SetSplitRatioLeaves
  <2> HIDE DEF c1, c2, c3, c4
  <2> DEFINE c12 == c1 \o c2
             c13 == c12 \o c3
             c14 == c13 \o c4
  <2>4. c12 \in Seq(Assignment) /\ Range(c12) = Range(c1) \cup Range(c2)
    BY <2>2, RangeOfConcat
  <2> HIDE DEF c12
  <2>5. c13 \in Seq(Assignment) /\ Range(c13) = Range(c12) \cup Range(c3)
    BY <2>2, <2>4, RangeOfConcat
  <2>6. Range(c13) = e1
    BY <2>2, <2>4, <2>5
  <2> HIDE DEF c13
  <2>7. c14 \in Seq(Assignment) /\ Range(c14) = e1 \cup Range(c4)
    BY <2>3, <2>5, <2>6, RangeOfConcat
  <2>8. todo' = c14
    BY <2>1 DEF c13, c12
  <2> HIDE DEF c14
  <2>9. PICK a, b \in Uint8, z \in {{}, {[member |-> "split_count", value |-> 0]}} :
            ~(a = 0 /\ b = 0) /\ Range(c4) = {[member |-> "ratio_MeNB", value |-> a],
                                            [member |-> "ratio_SeNB", value |-> b]} \cup z
    BY <2>3
  <2>10. Leaves(rlc, Range(c14), a, b)
    <3>1. Range(c14) = {[member |-> "ratio_MeNB", value |-> a],
                        [member |-> "ratio_SeNB", value |-> b]} \cup (e1 \cup z)
      BY <2>7, <2>9
    <3>2. \A x \in e1 \cup z : x.member \notin {"ratio_MeNB", "ratio_SeNB"}
      BY SMT
    <3> HIDE DEF e1
    <3> QED BY <3>1, <3>2, RatiosLeft
  <2> QED BY <2>7, <2>8, <2>9, <2>10
<1>3. CASE todo' = SetDuplicationMode
  <2> DEFINE c1 == Set("duplication_mode", ~rlc.duplication_mode)
             c2 == IF NUK_JIN_DEBUG /\ ~rlc.duplication_mode
                   THEN Set("split_mode", FALSE) ELSE << >>
             c  == c1 \o c2
  <2>1. /\ c1 \in Seq(Assignment)
        /\ Range(c1) = {[member |-> "duplication_mode", value |-> ~rlc.duplication_mode]}
    BY Members, SetType, Zenon
  <2>2. /\ Set("split_mode", FALSE) \in Seq(Assignment)
        /\ Range(Set("split_mode", FALSE)) = {[member |-> "split_mode", value |-> FALSE]}
    BY Members, SetType, Zenon
  <2>3. << >> \in Seq(Assignment) /\ Range(<< >>) = {}
    BY SMT DEF Range
  <2>4. c2 \in Seq(Assignment) /\ Range(c2) \subseteq {[member |-> "split_mode", value |-> FALSE]}
    BY <2>2, <2>3, Zenon
  <2>5. todo' = c
    BY <1>3, Zenon DEF SetDuplicationMode
  <2> HIDE DEF c1, c2
  <2>6. c \in Seq(Assignment) /\ Range(c) = Range(c1) \cup Range(c2)
    BY <2>1, <2>4, RangeOfConcat
  <2> HIDE DEF c
  <2>7. \A x \in Range(c) : x.member \notin {"ratio_MeNB", "ratio_SeNB"}
    <3>1. \A x \in Range(c1) : x.member = "duplication_mode" BY <2>1, MemberOf
    <3>2. \A x \in Range(c2) : x.member = "split_mode" BY <2>4, MemberOf
    <3> QED BY <2>6, <3>1, <3>2, SMT
  <2> QED BY <1>0, <2>5, <2>6, <2>7, NoRatio
<1>4. CASE \E m, s \in RATIOS : todo' = SetSplitRatio(m, s)
  <2>1. PICK m \in Nat, s \in Nat : todo' = SetSplitRatio(m, s)
    BY <1>4, SplitAssumption
  <2> DEFINE c == SetSplitRatio(m, s)
  <2>2. c \in Seq(Assignment)
    BY SetSplitRatioLeaves
  <2>3. \E a, b \in Uint8 :
          /\ ~(a = 0 /\ b = 0)
          /\ \E z \in {{}, {[member |-> "split_count", value |-> 0]}} :
                Range(c) = {[member |-> "ratio_MeNB", value |-> a],
                            [member |-> "ratio_SeNB", value |-> b]} \cup z
    BY SetSplitRatioLeaves
  <2> HIDE DEF c
  <2>4. PICK a, b \in Uint8, z \in {{}, {[member |-> "split_count", value |-> 0]}} :
            ~(a = 0 /\ b = 0) /\ Range(c) = {[member |-> "ratio_MeNB", value |-> a],
                                           [member |-> "ratio_SeNB", value |-> b]} \cup z
    BY <2>3
  <2>5. \A x \in z : x.member \notin {"ratio_MeNB", "ratio_SeNB"}
    BY SMT
  <2>6. Leaves(rlc, Range(c), a, b)
    BY <2>4, <2>5, RatiosLeft
  <2> QED BY <2>1, <2>2, <2>4, <2>6 DEF c
<1> QED BY <1>1, <1>2, <1>3, <1>4, Zenon DEF Command

LEMMA CommandIInv ==
    ASSUME SplitIInv, Command
    PROVE  SplitIInv'
<1>1. Typed /\ RatioAhead /\ Passed
  BY DEF SplitIInv
<1>2. todo' \in Seq(Assignment) /\ RatioAhead'
  BY <1>1, CommandLeaves
<1>3. fresh' = FALSE /\ recent' = << >> /\ UNCHANGED <<rlc, pc, count, path>>
  BY Zenon DEF Command
<1>4. << >> \in Seq(Paths) /\ Range(<< >>) = {}
  BY SMT DEF Range
<1>5. Typed'
  BY <1>1, <1>2, <1>3, <1>4, Tests, Zenon DEF Typed, SplitTypeOK, EarlyReturns
<1>6. Quiet'
  BY <1>3, Zenon DEF Quiet
<1>7. Passed'
  BY <1>1, <1>3, Zenon DEF Passed
<1>8. Obeyed'
  BY <1>3, <1>4, Zenon DEF Obeyed
<1> QED BY <1>2, <1>5, <1>6, <1>7, <1>8 DEF SplitIInv

LEMMA AssignIInv ==
    ASSUME SplitIInv, Assign
    PROVE  SplitIInv'
<1> DEFINE x == Head(todo)
<1>1. Typed /\ Quiet /\ RatioAhead /\ Passed /\ Obeyed
  BY DEF SplitIInv
<1>2. /\ todo # << >> /\ rlc' = [rlc EXCEPT ![x.member] = x.value] /\ todo' = Tail(todo)
      /\ UNCHANGED <<pc, count, path, fresh, recent>>
  BY DEF Assign
<1>3. /\ x \in Assignment /\ todo' \in Seq(Assignment)
      /\ Range(todo) = {x} \cup Range(todo')
  BY <1>1, <1>2, RangeOfTail DEF Typed
<1> HIDE DEF x
<1>4. fresh = FALSE /\ recent = << >>
  BY <1>1, <1>2, Zenon DEF Quiet, Typed, SplitTypeOK
<1>5. rlc' \in [split_mode : BOOLEAN, duplication_mode : BOOLEAN, ratio_MeNB : 0 .. U8 - 1,
                ratio_SeNB : 0 .. U8 - 1, split_count : 0 .. U8 - 1]
  <2>1. rlc \in [split_mode : BOOLEAN, duplication_mode : BOOLEAN, ratio_MeNB : Uint8,
                 ratio_SeNB : Uint8, split_count : Uint8]
    BY <1>1 DEF Typed, SplitTypeOK, Uint8
  <2>2. CASE x.member = "split_mode" /\ x.value \in BOOLEAN BY <1>2, <2>1, <2>2, SMT DEF Uint8
  <2>3. CASE x.member = "duplication_mode" /\ x.value \in BOOLEAN BY <1>2, <2>1, <2>3, SMT DEF Uint8
  <2>4. CASE x.member = "ratio_MeNB" /\ x.value \in Uint8 BY <1>2, <2>1, <2>4, SMT DEF Uint8
  <2>5. CASE x.member = "ratio_SeNB" /\ x.value \in Uint8 BY <1>2, <2>1, <2>5, SMT DEF Uint8
  <2>6. CASE x.member = "split_count" /\ x.value \in Uint8 BY <1>2, <2>1, <2>6, SMT DEF Uint8
  <2> QED BY <1>3, <2>2, <2>3, <2>4, <2>5, <2>6 DEF Assignment
<1>6. Typed'
  BY <1>1, <1>2, <1>3, <1>5, Tests, Zenon DEF Typed, SplitTypeOK, EarlyReturns
<1>7. RatioAhead'
  <2>1. PICK a, b \in Uint8 : ~(a = 0 /\ b = 0) /\ Leaves(rlc, Range(todo), a, b)
    BY <1>1 DEF RatioAhead
  <2>2. /\ x.member = "ratio_MeNB" => rlc'.ratio_MeNB = a
        /\ x.member # "ratio_MeNB" => rlc'.ratio_MeNB = rlc.ratio_MeNB
        /\ x.member = "ratio_SeNB" => rlc'.ratio_SeNB = b
        /\ x.member # "ratio_SeNB" => rlc'.ratio_SeNB = rlc.ratio_SeNB
    <3>1. /\ x.member = "ratio_MeNB" => x.value = a
          /\ x.member = "ratio_SeNB" => x.value = b
      BY <1>3, <2>1 DEF Leaves
    <3> QED BY <1>1, <1>2, <3>1, SMT DEF Typed, SplitTypeOK
  <2>3. Leaves(rlc', Range(todo'), a, b)
    BY <1>3, <2>1, <2>2 DEF Leaves
  <2> QED BY <2>1, <2>3, Zenon DEF RatioAhead, Uint8
<1>8. Quiet'
  BY <1>2, <1>4, Zenon DEF Quiet
<1>9. Passed'
  BY <1>1, <1>2, <1>4, Zenon DEF Passed
<1>10. Obeyed'
  <2>1. recent' = << >> BY <1>2, <1>4
  <2>2. Range(<< >>) = {} BY SMT DEF Range
  <2> QED BY <2>1, <2>2, Zenon DEF Obeyed
<1> QED BY <1>6, <1>7, <1>8, <1>9, <1>10 DEF SplitIInv

-----------------------------------------------------------------------------
(***************************************************************************)
(* decide_path.                                                            *)
(***************************************************************************)
\* Between commands the ratios are not both 0.
LEMMA RatioNow ==
    ASSUME RatioAhead, todo = << >>
    PROVE  ~(rlc.ratio_MeNB = 0 /\ rlc.ratio_SeNB = 0)
<1>1. PICK a, b \in Uint8 : ~(a = 0 /\ b = 0) /\ Leaves(rlc, Range(todo), a, b)
  BY DEF RatioAhead
<1>2. Range(todo) = {}
  BY SMT DEF Range
<1> QED BY <1>1, <1>2, Zenon DEF Leaves

\* decide_path does not change the ratios.
LEMMA RatioAheadKept ==
    ASSUME RatioAhead, todo' = todo,
           rlc'.ratio_MeNB = rlc.ratio_MeNB, rlc'.ratio_SeNB = rlc.ratio_SeNB
    PROVE  RatioAhead'
<1>1. PICK a, b \in Uint8 : ~(a = 0 /\ b = 0) /\ Leaves(rlc, Range(todo), a, b)
  BY DEF RatioAhead
<1>2. Leaves(rlc', Range(todo'), a, b)
  BY <1>1, Zenon DEF Leaves
<1> QED BY <1>1, <1>2, Zenon DEF RatioAhead, Uint8

LEMMA WriteSduIInv ==
    ASSUME SplitIInv, DecidePath
    PROVE  SplitIInv'
<1>1. Typed /\ Quiet /\ RatioAhead /\ Passed /\ Obeyed
  BY DEF SplitIInv
<1>2. /\ pc' = "duplication" /\ path' = 0 /\ fresh' = (todo = << >>)
      /\ rlc' = rlc /\ count' = count /\ todo' = todo /\ recent' = recent
  BY Zenon DEF DecidePath
<1>3. Typed'
  BY <1>1, <1>2, Tests, Zenon DEF Typed, SplitTypeOK, EarlyReturns
<1>4. Quiet'
  BY <1>1, <1>2, Zenon DEF Quiet
<1>5. RatioAhead'
  BY <1>1, <1>2, RatioAheadKept
<1>6. Passed'
  BY <1>2, SMT DEF Passed
<1>7. Obeyed'
  BY <1>1, <1>2, Zenon DEF Obeyed, Obeys
<1> QED BY <1>3, <1>4, <1>5, <1>6, <1>7 DEF SplitIInv

\* What a return adds to the remembered paths.
LEMMA ReturnIInv ==
    ASSUME SplitIInv, NEW p \in Paths, Return(p), fresh => Obeys(p, rlc),
           UNCHANGED <<todo, fresh>>,
           rlc'.split_mode = rlc.split_mode, rlc'.duplication_mode = rlc.duplication_mode
    PROVE  /\ pc' = "idle" /\ path' = p /\ recent' \in Seq(Paths)
           /\ Quiet' /\ Passed' /\ Obeyed'
<1>1. Typed /\ Quiet /\ Obeyed
  BY DEF SplitIInv
<1>2. pc' = "idle" /\ path' = p
  BY Zenon DEF Return
<1>3. /\ recent' \in Seq(Paths)
      /\ fresh => Range(recent') \subseteq Range(recent) \cup {p}
      /\ ~fresh => recent' = recent
  BY <1>1, RangeOfLatest DEF Typed, Return
<1>4. Quiet'
  BY <1>1, <1>3, Zenon DEF Quiet
<1>5. Passed'
  BY <1>2, SMT DEF Passed
<1>6. Obeyed'
  <2>1. \A q \in Range(recent') : Obeys(q, rlc)
    BY <1>1, <1>3 DEF Obeyed
  <2>2. \A q : Obeys(q, rlc) => Obeys(q, rlc')
    BY Zenon DEF Obeys
  <2> QED BY <2>1, <2>2, Zenon DEF Obeyed, Obeys
<1> QED BY <1>2, <1>3, <1>4, <1>5, <1>6

LEMMA TestIInv ==
    ASSUME SplitIInv, Test
    PROVE  SplitIInv'
<1> DEFINE e == EarlyReturns[pc]
<1>1. Typed /\ Quiet /\ RatioAhead /\ Passed /\ Obeyed
  BY DEF SplitIInv
<1>2. /\ rlc' = rlc /\ count' = count /\ todo' = todo /\ fresh' = fresh
      /\ pc \in {"duplication", "split", "only_SeNB", "only_MeNB", "error"}
  BY Tests, Zenon DEF Test
<1>3. RatioAhead'
  BY <1>1, <1>2, RatioAheadKept
<1>4. CASE e.holds
  <2>1. Return(e.path)
    BY <1>4, Zenon DEF Test
  <2>2. e.path \in Paths /\ (fresh => Obeys(e.path, rlc))
    <3> USE <1>1, <1>2, <1>4, Tests DEF Passed, Obeys, ToMeNB, ToSeNB, Duplicated, Unknown, Paths
    <3>1. CASE pc = "duplication" BY <3>1, SMT
    <3>2. CASE pc = "split" BY <3>2, SMT
    <3>3. CASE pc = "only_SeNB" BY <3>3, SMT
    <3>4. CASE pc = "only_MeNB" BY <3>4, SMT
    <3>5. CASE pc = "error"
      <4>1. ASSUME fresh PROVE FALSE
        <5>1. todo = << >> BY <4>1, Zenon DEF Quiet
        <5>2. rlc.ratio_MeNB = 0 /\ rlc.ratio_SeNB = 0 BY <3>5, SMT
        <5> QED BY ONLY <1>1, <5>1, <5>2, RatioNow, Zenon
      <4> QED BY <3>5, <4>1
    <3> QED BY <3>1, <3>2, <3>3, <3>4, <3>5
  <2> HIDE DEF e
  <2>3. /\ pc' = "idle" /\ path' = e.path /\ recent' \in Seq(Paths)
        /\ Quiet' /\ Passed' /\ Obeyed'
    BY <1>2, <2>1, <2>2, ReturnIInv
  <2>4. Typed'
    BY <1>1, <1>2, <2>2, <2>3, Tests, Zenon DEF Typed, SplitTypeOK, EarlyReturns, Paths
  <2> QED BY <1>3, <2>3, <2>4 DEF SplitIInv
<1>5. CASE ~e.holds
  <2>1. pc' = e.next /\ path' = path /\ recent' = recent
    BY <1>5, Zenon DEF Test
  <2>2. /\ e.next \in {"split", "only_SeNB", "only_MeNB", "error", "cycle"}
        /\ Passed'
    <3> USE <1>1, <1>2, <1>5, <2>1, Tests DEF Passed
    <3>1. CASE pc = "duplication" BY <3>1, SMT
    <3>2. CASE pc = "split" BY <3>2, SMT
    <3>3. CASE pc = "only_SeNB" BY <3>3, SMT
    <3>4. CASE pc = "only_MeNB" BY <3>4, SMT
    <3>5. CASE pc = "error"
      <4>1. e.next = "cycle" /\ pc' = "cycle" BY <3>5, SMT
      <4> QED BY <3>5, <4>1, SMT
    <3> QED BY <3>1, <3>2, <3>3, <3>4, <3>5
  <2> HIDE DEF e
  <2>3. Typed'
    BY <1>1, <1>2, <2>1, <2>2, Tests, Zenon DEF Typed, SplitTypeOK, EarlyReturns
  <2>4. Quiet'
    BY <1>1, <1>2, <2>1, Zenon DEF Quiet
  <2>5. Obeyed'
    BY <1>1, <1>2, <2>1, Zenon DEF Obeyed, Obeys
  <2> QED BY <1>3, <2>2, <2>3, <2>4, <2>5 DEF SplitIInv
<1> QED BY <1>4, <1>5

\* The steps between the tests and the return.
LEMMA CycleIInv ==
    ASSUME SplitIInv, CheckCycle \/ Compare \/ ReadCount
    PROVE  SplitIInv'
<1>1. Typed /\ Quiet /\ RatioAhead /\ Passed /\ Obeyed
  BY DEF SplitIInv
<1>2. /\ todo' = todo /\ fresh' = fresh /\ recent' = recent
      /\ rlc' = rlc \/ rlc' = [rlc EXCEPT !.split_count = 0]
  BY Zenon DEF CheckCycle, Compare, ReadCount
<1>3. /\ rlc' \in [split_mode : BOOLEAN, duplication_mode : BOOLEAN, ratio_MeNB : 0 .. U8 - 1,
                   ratio_SeNB : 0 .. U8 - 1, split_count : 0 .. U8 - 1]
      /\ rlc'.split_mode = rlc.split_mode /\ rlc'.duplication_mode = rlc.duplication_mode
      /\ rlc'.ratio_MeNB = rlc.ratio_MeNB /\ rlc'.ratio_SeNB = rlc.ratio_SeNB
  BY <1>1, <1>2, U8Type, SMT DEF Typed, SplitTypeOK, Uint8
<1>4. /\ count' = count \/ count' = rlc.split_count
      /\ pc' \in {"compare", "read", "write"}
      /\ path' = path \/ path' \in {ToMeNB, ToSeNB}
      /\ pc' # "compare" => path' \in {ToMeNB, ToSeNB}
      /\ pc \in {"cycle", "compare", "read"}
  BY <1>1, SMT DEF CheckCycle, Compare, ReadCount, Passed
<1>5. count' \in 0 .. U8 - 1
  BY <1>1, <1>4, SMT DEF Typed, SplitTypeOK
<1>6. Typed'
  BY <1>1, <1>2, <1>3, <1>4, <1>5, Tests, ZenonT(30) DEF Typed, SplitTypeOK, EarlyReturns
<1>7. Quiet'
  BY <1>1, <1>2, Zenon DEF Quiet
<1>8. RatioAhead'
  BY <1>1, <1>2, <1>3, RatioAheadKept
<1>9. Passed'
  BY <1>1, <1>2, <1>3, <1>4, SMT DEF Passed
<1>10. Obeyed'
  BY <1>1, <1>2, <1>3, Zenon DEF Obeyed, Obeys
<1> QED BY <1>6, <1>7, <1>8, <1>9, <1>10 DEF SplitIInv

LEMMA WriteCountIInv ==
    ASSUME SplitIInv, WriteCount
    PROVE  SplitIInv'
<1>1. Typed /\ Quiet /\ RatioAhead /\ Passed /\ Obeyed
  BY DEF SplitIInv
<1>2. /\ pc = "write" /\ rlc' = [rlc EXCEPT !.split_count = Incremented] /\ Return(path)
      /\ count' = count /\ todo' = todo /\ fresh' = fresh
  BY Zenon DEF WriteCount
<1>3. Incremented \in 0 .. U8 - 1
  BY <1>1, U8Type, SMT DEF Typed, SplitTypeOK, Incremented
<1>4. /\ rlc' \in [split_mode : BOOLEAN, duplication_mode : BOOLEAN, ratio_MeNB : 0 .. U8 - 1,
                   ratio_SeNB : 0 .. U8 - 1, split_count : 0 .. U8 - 1]
      /\ rlc'.split_mode = rlc.split_mode /\ rlc'.duplication_mode = rlc.duplication_mode
      /\ rlc'.ratio_MeNB = rlc.ratio_MeNB /\ rlc'.ratio_SeNB = rlc.ratio_SeNB
  BY <1>1, <1>2, <1>3, ZenonT(30) DEF Typed, SplitTypeOK
<1>5. path \in Paths /\ (fresh => Obeys(path, rlc))
  BY <1>1, <1>2, SMT DEF Passed, Obeys, Paths, ToMeNB, ToSeNB, Duplicated, Unknown
<1>6. /\ pc' = "idle" /\ path' = path /\ recent' \in Seq(Paths)
      /\ Quiet' /\ Passed' /\ Obeyed'
  BY <1>2, <1>4, <1>5, ReturnIInv
<1>7. Typed'
  BY <1>1, <1>2, <1>4, <1>6, Tests, Zenon DEF Typed, SplitTypeOK, EarlyReturns
<1>8. RatioAhead'
  BY <1>1, <1>2, <1>4, RatioAheadKept
<1> QED BY <1>6, <1>7, <1>8 DEF SplitIInv

-----------------------------------------------------------------------------
LEMMA StutterIInv ==
    ASSUME SplitIInv, UNCHANGED splitVars
    PROVE  SplitIInv'
<1>1. Typed /\ Quiet /\ RatioAhead /\ Passed /\ Obeyed
  BY DEF SplitIInv
<1>2. /\ rlc' = rlc /\ pc' = pc /\ count' = count /\ path' = path
      /\ todo' = todo /\ fresh' = fresh /\ recent' = recent
  BY Zenon DEF splitVars
<1>3. Typed' /\ Quiet' /\ Passed' /\ Obeyed'
  BY <1>1, <1>2, Zenon DEF Typed, SplitTypeOK, EarlyReturns, Quiet, Passed, Obeyed, Obeys
<1>4. RatioAhead'
  BY <1>1, <1>2, RatioAheadKept
<1> QED BY <1>3, <1>4 DEF SplitIInv

THEOREM Inductive == SplitSpec => []SplitIInv
<1>1. ASSUME SplitIInv, [SplitNext]_splitVars PROVE SplitIInv'
  BY <1>1, CommandIInv, AssignIInv, WriteSduIInv, TestIInv, CycleIInv, WriteCountIInv,
     StutterIInv, Zenon DEF SplitNext
<1> QED BY <1>1, InitIInv, PTL DEF SplitSpec

(***************************************************************************)
(* The members and the locals of decide_path keep their types, for every   *)
(* width of the counter: no test, no command and no interleaving of their  *)
(* unlocked assignments takes one of them out of its range.                *)
(***************************************************************************)
THEOREM TypeCorrect == SplitSpec => []SplitTypeOK
<1>1. SplitIInv => SplitTypeOK
  BY DEF SplitIInv, Typed
<1> QED BY <1>1, Inductive, PTL

(***************************************************************************)
(* Whatever modes and ratios decide_path and the commands saw of each      *)
(* other on the way, an SDU that comes after a command has ended goes      *)
(* where the command's modes send it, and is not dropped for want of a     *)
(* path.                                                                   *)
(***************************************************************************)
THEOREM SettingsObeyedAlways == SplitSpec => []SettingsObeyed
<1>1. SplitIInv => SettingsObeyed
  BY ObeyedIsSettingsObeyed DEF SplitIInv
<1> QED BY <1>1, Inductive, PTL
-----------------------------------------------------------------------------
(***************************************************************************)
(* Counting round a cycle.                                                 *)
(***************************************************************************)
LEMMA ModIs ==
    ASSUME NEW n \in Nat \ {0}, NEW y \in 0 .. n - 1, NEW m \in Int
    PROVE  (m * n + y) % n = y
BY SMT

LEMMA ModSplit ==
    ASSUME NEW n \in Nat \ {0}, NEW x \in Int
    PROVE  x % n \in 0 .. n - 1 /\ \E m \in Int : x = m * n + (x % n)
<1>1. x % n \in 0 .. n - 1 BY SMT
<1>2. x \div n \in Int /\ x = (x \div n) * n + (x % n) BY SMT
<1> QED BY <1>1, <1>2

LEMMA ModPlus ==
    ASSUME NEW n \in Nat \ {0}, NEW x \in Int, NEW j \in 0 .. n
    PROVE  (x + j) % n = IF (x % n) + j < n THEN (x % n) + j ELSE ((x % n) + j) - n
<1>1. PICK r \in 0 .. n - 1, m \in Int : r = x % n /\ x = m * n + r BY ModSplit
<1>2. CASE r + j < n
  <2>1. r + j \in 0 .. n - 1 BY <1>2, SMT
  <2>2. x + j = m * n + (r + j) BY <1>1, SMT
  <2>3. (m * n + (r + j)) % n = r + j BY <2>1, ModIs
  <2> QED BY <1>1, <1>2, <2>2, <2>3
<1>3. CASE ~(r + j < n)
  <2>1. r + j - n \in 0 .. n - 1 /\ m + 1 \in Int BY <1>3, SMT
  <2>2. x + j = (m + 1) * n + (r + j - n) BY <1>1, SMT
  <2>3. ((m + 1) * n + (r + j - n)) % n = r + j - n BY <2>1, ModIs
  <2> QED BY <1>1, <1>3, <2>2, <2>3
<1> QED BY <1>2, <1>3

LEMMA ModMinus ==
    ASSUME NEW n \in Nat \ {0}, NEW x \in Int
    PROVE  (x - n) % n = x % n
<1>1. PICK r \in 0 .. n - 1, m \in Int : r = x % n /\ x = m * n + r BY ModSplit
<1>2. m - 1 \in Int /\ x - n = (m - 1) * n + r BY <1>1, SMT
<1>3. ((m - 1) * n + r) % n = r BY <1>2, ModIs
<1> QED BY <1>1, <1>2, <1>3

\* M of any M + S consecutive numbers are below M on the cycle.
LEMMA ShareOfCycle ==
    ASSUME NEW M \in Nat \ {0}, NEW S \in Nat \ {0}, NEW x \in Int
    PROVE  Cardinality({j \in 1 .. M + S : (x + j) % (M + S) < M}) = M
<1> DEFINE n == M + S
<1>1. n \in Nat \ {0} /\ M < n BY SMT
<1>2. PICK r \in 0 .. n - 1 : r = x % n BY <1>1, ModSplit
<1>3. \A j \in 1 .. n : (x + j) % n = IF r + j < n THEN r + j ELSE (r + j) - n
  <2> SUFFICES ASSUME NEW j \in 1 .. n
               PROVE  (x + j) % n = IF r + j < n THEN r + j ELSE (r + j) - n
    OBVIOUS
  <2>1. j \in 0 .. n BY SMT
  <2> HIDE DEF n
  <2> QED BY <1>1, <1>2, <2>1, ModPlus
<1> DEFINE A == 1 .. M - 1 - r
           B == n - r .. n - r + M - 1
           C == n - r .. n
<1> HIDE DEF n
<1>4. {j \in 1 .. n : (x + j) % n < M} =
        {j \in 1 .. n : (IF r + j < n THEN r + j ELSE (r + j) - n) < M}
  BY <1>3
<1>5. CASE r >= M
  <2>1. {j \in 1 .. n : (IF r + j < n THEN r + j ELSE (r + j) - n) < M} = B
    BY <1>1, <1>5, SMT
  <2>2. n - r \in Int /\ n - r + M - 1 \in Int /\ n - r <= n - r + M - 1
        /\ (n - r + M - 1) - (n - r) + 1 = M
    BY <1>1, SMT
  <2>3. Cardinality(B) = M
    <3>1. PICK a \in Int, b \in Int : a = n - r /\ b = n - r + M - 1 BY <2>2
    <3>2. Cardinality(a .. b) = IF a > b THEN 0 ELSE b - a + 1 BY FS_Interval
    <3>3. ~(a > b) /\ b - a + 1 = M BY <1>1, <3>1, SMT
    <3> QED BY <3>1, <3>2, <3>3
  <2> QED BY <1>4, <2>1, <2>3 DEF n
<1>6. CASE r < M
  <2>1. {j \in 1 .. n : (IF r + j < n THEN r + j ELSE (r + j) - n) < M} = A \cup C
    BY <1>1, <1>6, SMT
  <2>2. A \cap C = {} BY <1>1, SMT
  <2>3. IsFiniteSet(A) /\ Cardinality(A) = M - 1 - r
    <3>1. PICK b \in Int : b = M - 1 - r BY SMT
    <3>2. IsFiniteSet(1 .. b) /\ Cardinality(1 .. b) = IF 1 > b THEN 0 ELSE b - 1 + 1 BY FS_Interval
    <3>3. (IF 1 > b THEN 0 ELSE b - 1 + 1) = b BY <1>6, <3>1, SMT
    <3> QED BY <3>1, <3>2, <3>3
  <2>4. IsFiniteSet(C) /\ Cardinality(C) = r + 1
    <3>1. PICK a \in Int : a = n - r BY <1>1, SMT
    <3>2. IsFiniteSet(a .. n) /\ Cardinality(a .. n) = IF a > n THEN 0 ELSE n - a + 1
      BY <1>1, FS_Interval
    <3>3. (IF a > n THEN 0 ELSE n - a + 1) = r + 1 BY <1>1, <3>1, SMT
    <3> QED BY <3>1, <3>2, <3>3
  <2>5. Cardinality(A \cup C) = Cardinality(A) + Cardinality(C) - Cardinality(A \cap C)
    BY <2>3, <2>4, FS_Union
  <2>6. Cardinality(A \cap C) = 0 BY <2>2, FS_EmptySet
  <2>7. (M - 1 - r) + (r + 1) - 0 = M BY SMT
  <2> QED BY <1>4, <2>1, <2>3, <2>4, <2>5, <2>6, <2>7 DEF n
<1> QED BY <1>1, <1>5, <1>6, SMT

-----------------------------------------------------------------------------
(***************************************************************************)
(* The shares.  While the settings stay, the SDUs remembered went round    *)
(* the cycle one after the other, and split_count, as the next SDU finds   *)
(* it, is where they have got to.                                          *)
(***************************************************************************)
Master == rlc.ratio_MeNB
Slave  == rlc.ratio_SeNB
Cycle  == Master + Slave

Due == rlc.split_mode /\ ~rlc.duplication_mode /\ Cycle <= U8

Route(x) == IF x < Master THEN ToMeNB ELSE ToSeNB

\* split_count after the check for the end of the cycle.
Phase == IF rlc.split_count >= Cycle THEN 0 ELSE rlc.split_count

InCycle == {"cycle", "compare", "read", "write"}

\* What a call that no command interferes with has found out.
Stages ==
    /\ ~fresh /\ pc # "idle" => recent = << >>
    /\ fresh /\ pc \in {"only_MeNB", "error"} \cup InCycle => ~(Master = 0 /\ Slave # 0)
    /\ fresh /\ pc \in {"error"} \cup InCycle => ~(Slave = 0 /\ Master # 0)
    /\ fresh /\ pc \in InCycle => ~(Slave = 0 /\ Master = 0)
    /\ fresh /\ pc \in {"compare", "read", "write"} => rlc.split_count < Cycle
    /\ fresh /\ pc \in {"read", "write"} => path = Route(rlc.split_count)
    /\ fresh /\ pc = "write" => count = rlc.split_count

SharesKept ==
    Due =>
      /\ Master = 0 /\ Slave # 0 => \A i \in 1 .. Len(recent) : recent[i] = ToSeNB
      /\ Slave = 0 /\ Master # 0 => \A i \in 1 .. Len(recent) : recent[i] = ToMeNB
      /\ Master # 0 /\ Slave # 0 =>
            \A i \in 1 .. Len(recent) :
                recent[i] = Route(((Phase - 1) - (Len(recent) - i)) % Cycle)

ShareInv == Stages /\ SharesKept

LEMMA RatioTypes ==
    ASSUME Typed
    PROVE  /\ Master \in Nat /\ Slave \in Nat /\ rlc.split_count \in Nat
           /\ Cycle \in Nat /\ Phase \in Nat
           /\ Cycle # 0 => Phase \in 0 .. Cycle - 1
           /\ Len(recent) \in Nat
<1>1. Master \in Nat /\ Slave \in Nat /\ rlc.split_count \in Nat
  <2>1. rlc \in [split_mode : BOOLEAN, duplication_mode : BOOLEAN, ratio_MeNB : 0 .. U8 - 1,
                 ratio_SeNB : 0 .. U8 - 1, split_count : 0 .. U8 - 1]
    BY DEF Typed, SplitTypeOK
  <2>2. \A n \in 0 .. U8 - 1 : n \in Nat BY U8Type, SMT
  <2> QED BY <2>1, <2>2 DEF Master, Slave
<1>2. Cycle \in Nat BY <1>1, SMT DEF Cycle
<1>3. Phase \in Nat /\ (Cycle # 0 => Phase \in 0 .. Cycle - 1) BY <1>1, <1>2, SMT DEF Phase
<1>4. Len(recent) \in Nat BY SMT DEF Typed
<1> QED BY <1>1, <1>2, <1>3, <1>4

LEMMA SharesOfNone == ASSUME recent = << >> PROVE SharesKept
<1>1. 1 .. Len(recent) = {} BY SMT
<1> QED BY <1>1 DEF SharesKept

LEMMA SharesSame ==
    ASSUME SharesKept, recent' = recent, Phase' = Phase,
           rlc'.split_mode = rlc.split_mode, rlc'.duplication_mode = rlc.duplication_mode,
           Master' = Master, Slave' = Slave
    PROVE  SharesKept'
<1>1. Cycle' = Cycle BY DEF Cycle
<1> QED BY <1>1 DEF SharesKept, Due, Route

\* An SDU takes its place in the cycle.
LEMMA SharesNext ==
    ASSUME Typed, SharesKept, NEW p \in Paths, recent' = Latest(Append(recent, p)),
           rlc'.split_mode = rlc.split_mode, rlc'.duplication_mode = rlc.duplication_mode,
           Master' = Master, Slave' = Slave,
           Due /\ Master = 0 /\ Slave # 0 => p = ToSeNB,
           Due /\ Slave = 0 /\ Master # 0 => p = ToMeNB,
           Due /\ Master # 0 /\ Slave # 0 =>
              p = Route(Phase) /\ Phase' = IF Phase + 1 = Cycle THEN 0 ELSE Phase + 1
    PROVE  SharesKept'
<1>0. Cycle' = Cycle /\ (Due' <=> Due) BY DEF Cycle, Due
<1>1. \A i \in 1 .. Len(recent') :
         \/ i = Len(recent') /\ recent'[i] = p
         \/ \E k \in 1 .. Len(recent) :
               recent'[i] = recent[k] /\ Len(recent') - i = (Len(recent) + 1) - k
  <2>1. recent \in Seq(Paths) BY DEF Typed
  <2>2. Remembers(Latest(Append(recent, p)), recent, p) BY <2>1, LatestIs
  <2>3. Remembers(recent', recent, p) BY <2>2
  <2> QED BY <2>3 DEF Remembers
<1>2. ASSUME Due, Master = 0, Slave # 0, NEW i \in 1 .. Len(recent') PROVE recent'[i] = ToSeNB
  BY <1>1, <1>2 DEF SharesKept
<1>3. ASSUME Due, Slave = 0, Master # 0, NEW i \in 1 .. Len(recent') PROVE recent'[i] = ToMeNB
  BY <1>1, <1>3 DEF SharesKept
<1>4. ASSUME Due, Master # 0, Slave # 0, NEW i \in 1 .. Len(recent')
      PROVE  recent'[i] = Route(((Phase' - 1) - (Len(recent') - i)) % Cycle)
  <2>1. PICK n \in Nat \ {0}, f \in Nat, g \in Nat :
            f \in 0 .. n - 1 /\ n = Cycle /\ f = Phase /\ g = Phase' /\ g = IF f + 1 = n THEN 0 ELSE f + 1
    <3>1. Cycle \in Nat \ {0} BY <1>4, RatioTypes, SMT DEF Cycle
    <3>2. Phase \in 0 .. Cycle - 1 BY <3>1, RatioTypes
    <3>3. Phase' = IF Phase + 1 = Cycle THEN 0 ELSE Phase + 1 BY <1>4
    <3>4. PICK m \in Nat \ {0}, e \in Nat : e \in 0 .. m - 1 /\ m = Cycle /\ e = Phase BY <3>1, <3>2
    <3>5. Phase' = (IF e + 1 = m THEN 0 ELSE e + 1) BY <3>3, <3>4
    <3>6. (IF e + 1 = m THEN 0 ELSE e + 1) \in Nat BY SMT
    <3> QED BY <3>4, <3>5, <3>6
  <2>2. p = Route(f) BY <1>4, <2>1
  <2>3. CASE i = Len(recent') /\ recent'[i] = p
    <3>1. Len(recent') - i = 0 BY <2>3, SMT
    <3>2. ((g - 1) - 0) % n = f
      <4>1. f % n = f
        <5>1. n \in Nat /\ f \in Nat /\ 0 <= f /\ f < n BY <2>1, SMT
        <5> QED BY ONLY <5>1, SMT
      <4>2. (f - n) % n = f % n
        <5>1. f \in Int BY SMT
        <5> QED BY <5>1, ModMinus
      <4>3. (g - 1) - 0 = f \/ (g - 1) - 0 = f - n BY <2>1, SMT
      <4> QED BY <4>1, <4>2, <4>3
    <3> QED BY <2>1, <2>2, <2>3, <3>1, <3>2
  <2>4. CASE \E k \in 1 .. Len(recent) :
                recent'[i] = recent[k] /\ Len(recent') - i = (Len(recent) + 1) - k
    <3>1. PICK k \in 1 .. Len(recent) :
              recent'[i] = recent[k] /\ Len(recent') - i = (Len(recent) + 1) - k
      BY <2>4
    <3>2. PICK l \in Nat : l = Len(recent) BY RatioTypes
    <3>3. recent[k] = Route(((f - 1) - (l - k)) % n) BY <1>4, <2>1, <3>2 DEF SharesKept
    <3>4. ((g - 1) - ((l + 1) - k)) % n = ((f - 1) - (l - k)) % n
      <4>1. k \in Int /\ (f - 1) - (l - k) \in Int BY <3>2, SMT
      <4>2. (((f - 1) - (l - k)) - n) % n = ((f - 1) - (l - k)) % n BY <4>1, ModMinus
      <4>3. \/ (g - 1) - ((l + 1) - k) = (f - 1) - (l - k)
            \/ (g - 1) - ((l + 1) - k) = ((f - 1) - (l - k)) - n
        BY <2>1, <4>1, SMT
      <4> QED BY <4>2, <4>3
    <3> QED BY <2>1, <3>1, <3>2, <3>3, <3>4
  <2> QED BY <1>1, <2>3, <2>4
<1>5. \A x : Route(x)' = Route(x) BY DEF Route
<1> QED BY <1>0, <1>2, <1>3, <1>4, <1>5 DEF SharesKept

LEMMA SharesOfNoneNext == ASSUME recent' = << >> PROVE SharesKept'
<1>1. 1 .. Len(recent') = {} BY SMT
<1> QED BY <1>1 DEF SharesKept

\* What a return does to the shares.
LEMMA ReturnShares ==
    ASSUME Typed, ShareInv, NEW p \in Paths, Return(p), pc # "idle",
           rlc'.split_mode = rlc.split_mode, rlc'.duplication_mode = rlc.duplication_mode,
           Master' = Master, Slave' = Slave,
           fresh =>
              /\ Due /\ Master = 0 /\ Slave # 0 => p = ToSeNB
              /\ Due /\ Slave = 0 /\ Master # 0 => p = ToMeNB
              /\ Due /\ Master # 0 /\ Slave # 0 =>
                    p = Route(Phase) /\ Phase' = IF Phase + 1 = Cycle THEN 0 ELSE Phase + 1
    PROVE  ShareInv'
<1>1. Stages /\ SharesKept BY DEF ShareInv
<1>2. pc' = "idle" BY Zenon DEF Return
<1>3. Stages' BY <1>2, SMT DEF Stages, InCycle
<1>4. CASE fresh
  <2>1. recent' = Latest(Append(recent, p)) BY <1>4, Zenon DEF Return
  <2> QED BY <1>1, <1>3, <1>4, <2>1, SharesNext DEF ShareInv
<1>5. CASE ~fresh
  <2>1. recent = << >> BY <1>1, <1>5, Zenon DEF Stages
  <2>2. recent' = << >> BY <1>5, <2>1, Zenon DEF Return
  <2>3. SharesKept' BY <2>2, SharesOfNoneNext
  <2> QED BY <1>3, <2>3 DEF ShareInv
<1> QED BY <1>4, <1>5

LEMMA InitShares == SplitInit => ShareInv
<1> SUFFICES ASSUME SplitInit PROVE ShareInv
  OBVIOUS
<1>1. pc = "idle" /\ recent = << >> BY Zenon DEF SplitInit
<1>2. Stages BY <1>1, SMT DEF Stages, InCycle
<1>3. SharesKept BY <1>1, SharesOfNone
<1> QED BY <1>2, <1>3 DEF ShareInv

LEMMA CommandShares ==
    ASSUME SplitIInv, Command \/ Assign
    PROVE  ShareInv'
<1>1. fresh' = FALSE /\ recent' = << >>
  <2>1. CASE Command BY <2>1, Zenon DEF Command
  <2>2. CASE Assign
    <3>1. todo # << >> /\ fresh' = fresh /\ recent' = recent BY <2>2, Zenon DEF Assign
    <3>2. Quiet /\ fresh \in BOOLEAN BY Zenon DEF SplitIInv, Typed, SplitTypeOK
    <3> QED BY <3>1, <3>2, Zenon DEF Quiet
  <2> QED BY <2>1, <2>2
<1>2. Stages' BY <1>1, Zenon DEF Stages
<1>3. SharesKept' BY <1>1, SharesOfNoneNext
<1> QED BY <1>2, <1>3 DEF ShareInv

LEMMA WriteSduShares ==
    ASSUME SplitIInv, ShareInv, DecidePath
    PROVE  ShareInv'
<1>1. Typed /\ Quiet /\ Stages /\ SharesKept BY DEF SplitIInv, ShareInv
<1>2. pc' = "duplication" /\ fresh' = (todo = << >>) /\ rlc' = rlc /\ recent' = recent
  BY Zenon DEF DecidePath
<1>3. ~fresh' => recent' = << >> BY <1>1, <1>2, Zenon DEF Quiet
<1>4. Stages' BY <1>2, <1>3, SMT DEF Stages, InCycle
<1>5. Phase' = Phase /\ Master' = Master /\ Slave' = Slave
  BY <1>2, Zenon DEF Phase, Cycle, Master, Slave
<1>6. SharesKept' BY <1>1, <1>2, <1>5, SharesSame
<1> QED BY <1>4, <1>6 DEF ShareInv

LEMMA TestShares ==
    ASSUME SplitIInv, ShareInv, Test
    PROVE  ShareInv'
<1> DEFINE e == EarlyReturns[pc]
<1>1. Typed /\ Stages /\ SharesKept BY DEF SplitIInv, ShareInv
<1>2. /\ rlc' = rlc /\ fresh' = fresh
      /\ pc \in {"duplication", "split", "only_SeNB", "only_MeNB", "error"}
  BY Tests, Zenon DEF Test
<1>3. Phase' = Phase /\ Master' = Master /\ Slave' = Slave
  BY <1>2, Zenon DEF Phase, Cycle, Master, Slave
<1>4. CASE e.holds
  <2>1. Return(e.path) /\ pc # "idle"
    BY <1>2, <1>4, Zenon DEF Test
  <2>2. /\ e.path \in Paths
        /\ fresh => /\ Due /\ Master = 0 /\ Slave # 0 => e.path = ToSeNB
                    /\ Due /\ Slave = 0 /\ Master # 0 => e.path = ToMeNB
                    /\ ~(Due /\ Master # 0 /\ Slave # 0)
    <3> USE <1>1, <1>2, <1>4, Tests
            DEF Due, Master, Slave, Stages, ToMeNB, ToSeNB, Duplicated, Unknown, Paths
    <3>1. CASE pc = "duplication" BY <3>1, SMT
    <3>2. CASE pc = "split" BY <3>2, SMT
    <3>3. CASE pc = "only_SeNB" BY <3>3, SMT
    <3>4. CASE pc = "only_MeNB" BY <3>4, SMT
    <3>5. CASE pc = "error" BY <3>5, SMT
    <3> QED BY <3>1, <3>2, <3>3, <3>4, <3>5
  <2> HIDE DEF e
  <2> QED BY <1>1, <1>2, <1>3, <2>1, <2>2, ReturnShares
<1>5. CASE ~e.holds
  <2>1. pc' = e.next /\ recent' = recent
    BY <1>5, Zenon DEF Test
  <2>2. Stages'
    <3> USE <1>1, <1>2, <1>3, <1>5, <2>1, Tests DEF Stages, InCycle, Master, Slave
    <3>1. CASE pc = "duplication" BY <3>1, SMT
    <3>2. CASE pc = "split" BY <3>2, SMT
    <3>3. CASE pc = "only_SeNB" BY <3>3, SMT
    <3>4. CASE pc = "only_MeNB" BY <3>4, SMT
    <3>5. CASE pc = "error" BY <3>5, SMT
    <3> QED BY <3>1, <3>2, <3>3, <3>4, <3>5
  <2> HIDE DEF e
  <2>3. SharesKept' BY <1>1, <1>2, <1>3, <2>1, SharesSame
  <2> QED BY <2>2, <2>3 DEF ShareInv
<1> QED BY <1>4, <1>5

LEMMA CycleShares ==
    ASSUME SplitIInv, ShareInv, CheckCycle \/ Compare \/ ReadCount
    PROVE  ShareInv'
<1>1. Typed /\ Stages /\ SharesKept BY DEF SplitIInv, ShareInv
<1>2. fresh' = fresh /\ recent' = recent
  BY Zenon DEF CheckCycle, Compare, ReadCount
<1>3. rlc \in [split_mode : BOOLEAN, duplication_mode : BOOLEAN, ratio_MeNB : 0 .. U8 - 1,
               ratio_SeNB : 0 .. U8 - 1, split_count : 0 .. U8 - 1]
  BY <1>1 DEF Typed, SplitTypeOK
<1>4. Master \in Nat /\ Slave \in Nat /\ rlc.split_count \in Nat /\ Cycle \in Nat
  BY <1>1, RatioTypes
<1>5. /\ rlc'.split_mode = rlc.split_mode /\ rlc'.duplication_mode = rlc.duplication_mode
      /\ Master' = Master /\ Slave' = Slave /\ Cycle' = Cycle
  <2>1. rlc' = rlc \/ rlc' = [rlc EXCEPT !.split_count = 0]
    BY Zenon DEF CheckCycle, Compare, ReadCount
  <2>2. /\ rlc'.split_mode = rlc.split_mode /\ rlc'.duplication_mode = rlc.duplication_mode
        /\ rlc'.ratio_MeNB = rlc.ratio_MeNB /\ rlc'.ratio_SeNB = rlc.ratio_SeNB
    BY <1>3, <2>1, SMT
  <2> QED BY <2>2, Zenon DEF Master, Slave, Cycle
<1>6. Stages' /\ Phase' = Phase
  <2>1. CASE CheckCycle
    <3>1. /\ pc = "cycle" /\ pc' = "compare"
          /\ rlc'.split_count = IF rlc.split_count >= Cycle THEN 0 ELSE rlc.split_count
      <4>1. rlc' = IF rlc.split_count >= Cycle THEN [rlc EXCEPT !.split_count = 0] ELSE rlc
        BY <2>1, Zenon DEF CheckCycle, CycleOver, Cycle, Master, Slave
      <4>2. pc = "cycle" /\ pc' = "compare" BY <2>1, Zenon DEF CheckCycle
      <4> QED BY <1>3, <4>1, <4>2, SMT
    <3>2. fresh => Cycle # 0 /\ ~(Master = 0 /\ Slave # 0) /\ ~(Slave = 0 /\ Master # 0)
                     /\ ~(Slave = 0 /\ Master = 0)
      BY <1>1, <1>4, <3>1, SMT DEF Stages, InCycle, Cycle
    <3>3. fresh => rlc'.split_count < Cycle BY <1>4, <3>1, <3>2, SMT
    <3>4. ~fresh => recent = << >> BY <1>1, <3>1, SMT DEF Stages
    <3>5. Phase' = Phase BY <1>4, <1>5, <3>1, SMT DEF Phase
    <3>6. Stages' BY <1>2, <1>5, <3>1, <3>2, <3>3, <3>4, SMT DEF Stages, InCycle
    <3> QED BY <3>5, <3>6
  <2>2. CASE Compare
    <3>1. pc = "compare" /\ pc' = "read" /\ rlc' = rlc /\ path' = Route(rlc.split_count)
      BY <2>2, Zenon DEF Compare, Route, Master
    <3>2. Route(rlc.split_count)' = Route(rlc.split_count)
      BY <1>5, <3>1, Zenon DEF Route
    <3>3. Phase' = Phase BY <1>5, <3>1, Zenon DEF Phase
    <3>4. Stages'
      <4>1. path' = Route(rlc.split_count)' BY <3>1, <3>2
      <4> QED BY <1>1, <1>2, <1>5, <3>1, <4>1, SMT DEF Stages, InCycle
    <3> QED BY <3>3, <3>4
  <2>3. CASE ReadCount
    <3>1. /\ pc = "read" /\ pc' = "write" /\ rlc' = rlc /\ path' = path
          /\ count' = rlc.split_count
      BY <2>3, Zenon DEF ReadCount
    <3>2. Route(rlc.split_count)' = Route(rlc.split_count)
      BY <1>5, <3>1, Zenon DEF Route
    <3>3. Phase' = Phase BY <1>5, <3>1, Zenon DEF Phase
    <3>4. Stages' BY <1>1, <1>2, <1>5, <3>1, <3>2, SMT DEF Stages, InCycle
    <3> QED BY <3>3, <3>4
  <2> QED BY <2>1, <2>2, <2>3
<1>7. SharesKept' BY <1>1, <1>2, <1>5, <1>6, SharesSame
<1> QED BY <1>6, <1>7 DEF ShareInv

\* split_count is one more, or the cycle starts again.
LEMMA WriteCountShares ==
    ASSUME SplitIInv, ShareInv, WriteCount
    PROVE  ShareInv'
<1>1. Typed /\ Passed /\ Stages /\ SharesKept BY DEF SplitIInv, ShareInv
<1>2. /\ pc = "write" /\ Return(path) /\ rlc' = [rlc EXCEPT !.split_count = Incremented]
  BY Zenon DEF WriteCount
<1>3. rlc \in [split_mode : BOOLEAN, duplication_mode : BOOLEAN, ratio_MeNB : 0 .. U8 - 1,
               ratio_SeNB : 0 .. U8 - 1, split_count : 0 .. U8 - 1]
  BY <1>1 DEF Typed, SplitTypeOK
<1>4. Master \in Nat /\ Slave \in Nat /\ rlc.split_count \in Nat /\ Cycle \in Nat
  BY <1>1, RatioTypes
<1>5. /\ rlc'.split_mode = rlc.split_mode /\ rlc'.duplication_mode = rlc.duplication_mode
      /\ Master' = Master /\ Slave' = Slave /\ Cycle' = Cycle
      /\ rlc'.split_count = Incremented
  <2>1. /\ rlc'.split_mode = rlc.split_mode /\ rlc'.duplication_mode = rlc.duplication_mode
        /\ rlc'.ratio_MeNB = rlc.ratio_MeNB /\ rlc'.ratio_SeNB = rlc.ratio_SeNB
        /\ rlc'.split_count = Incremented
    BY <1>2, <1>3, SMT
  <2> QED BY <2>1, Zenon DEF Master, Slave, Cycle
<1>6. path \in Paths BY <1>1, <1>2, SMT DEF Passed, Paths, ToMeNB, ToSeNB
<1>7. ASSUME fresh, Due
      PROVE  /\ ~(Master = 0 /\ Slave # 0) /\ ~(Slave = 0 /\ Master # 0)
             /\ path = Route(Phase) /\ Phase' = IF Phase + 1 = Cycle THEN 0 ELSE Phase + 1
  <2>1. /\ ~(Master = 0 /\ Slave # 0) /\ ~(Slave = 0 /\ Master # 0)
        /\ rlc.split_count < Cycle /\ path = Route(rlc.split_count) /\ count = rlc.split_count
    BY <1>1, <1>2, <1>7, SMT DEF Stages, InCycle
  <2>2. Phase = rlc.split_count BY <1>4, <2>1, SMT DEF Phase
  <2>3. Phase' = IF Phase + 1 = Cycle THEN 0 ELSE Phase + 1
    <3>1. PICK c \in Nat, n \in Nat, u \in Nat :
              c = rlc.split_count /\ n = Cycle /\ u = U8 /\ c < n /\ n <= u
      BY <1>4, <1>7, <2>1, U8Type DEF Due
    <3>2. rlc'.split_count = (c + 1) % u BY <1>5, <2>1, <3>1 DEF Incremented
    <3>3. (c + 1) % u = IF c + 1 = u THEN 0 ELSE c + 1
      <4>1. CASE c + 1 = u BY <3>1, <4>1, SMT
      <4>2. CASE c + 1 # u
        <5>1. c + 1 \in Nat /\ c + 1 < u BY <3>1, <4>2, SMT
        <5> QED BY <4>2, <5>1, SMT
      <4> QED BY <4>1, <4>2
    <3>4. Phase' = IF (c + 1) % u >= n THEN 0 ELSE (c + 1) % u
      BY <1>5, <3>1, <3>2 DEF Phase
    <3>5. (IF (c + 1) % u >= n THEN 0 ELSE (c + 1) % u) = IF c + 1 = n THEN 0 ELSE c + 1
      BY <3>1, <3>3, SMT
    <3> QED BY <2>2, <3>1, <3>4, <3>5
  <2> QED BY <2>1, <2>2, <2>3
<1> QED BY <1>1, <1>2, <1>5, <1>6, <1>7, ReturnShares DEF ShareInv

LEMMA StutterShares ==
    ASSUME ShareInv, UNCHANGED splitVars
    PROVE  ShareInv'
<1>1. /\ rlc' = rlc /\ pc' = pc /\ count' = count /\ path' = path
      /\ fresh' = fresh /\ recent' = recent
  BY Zenon DEF splitVars
<1>2. Phase' = Phase /\ Master' = Master /\ Slave' = Slave /\ Cycle' = Cycle
      /\ Route(rlc.split_count)' = Route(rlc.split_count)
  BY <1>1, Zenon DEF Phase, Cycle, Master, Slave, Route
<1>3. Stages' BY <1>1, <1>2, Zenon DEF ShareInv, Stages, InCycle
<1>4. SharesKept' BY <1>1, <1>2, SharesSame DEF ShareInv
<1> QED BY <1>3, <1>4 DEF ShareInv

\* What was remembered of a cycle has the shares of the cycle.
LEMMA KeptShares ==
    ASSUME Typed, SharesKept
    PROVE  RatioKept
<1>1. Master \in Nat /\ Slave \in Nat /\ Cycle \in Nat /\ Phase \in Nat /\ Len(recent) \in Nat
  BY RatioTypes
<1>2. ASSUME Due, NEW i \in 0 .. Len(recent) - Cycle
      PROVE  Cardinality({j \in 1 .. Cycle : recent[i + j] = ToMeNB}) = Master
  <2>1. \A j \in 1 .. Cycle : i + j \in 1 .. Len(recent) BY <1>1, SMT
  <2>2. CASE Master = 0
    <3>1. ASSUME NEW j \in 1 .. Cycle PROVE recent[i + j] # ToMeNB
      <4>1. Slave # 0 BY <1>1, <2>2, SMT DEF Cycle
      <4>2. recent[i + j] = ToSeNB BY <1>2, <2>1, <2>2, <4>1 DEF SharesKept
      <4> QED BY <4>2, SMT DEF ToMeNB, ToSeNB
    <3>2. {j \in 1 .. Cycle : recent[i + j] = ToMeNB} = {} BY <3>1
    <3> QED BY <2>2, <3>2, FS_EmptySet
  <2>3. CASE Master # 0 /\ Slave = 0
    <3>1. \A j \in 1 .. Cycle : recent[i + j] = ToMeNB BY <1>2, <2>1, <2>3 DEF SharesKept
    <3>2. {j \in 1 .. Cycle : recent[i + j] = ToMeNB} = 1 .. Cycle BY <3>1
    <3>3. PICK n \in Nat : n = Cycle /\ n = Master /\ n # 0 BY <1>1, <2>3, SMT DEF Cycle
    <3>4. Cardinality(1 .. n) = IF 1 > n THEN 0 ELSE n - 1 + 1 BY FS_Interval
    <3>5. (IF 1 > n THEN 0 ELSE n - 1 + 1) = n BY <3>3, SMT
    <3> QED BY <3>2, <3>3, <3>4, <3>5
  <2>4. CASE Master # 0 /\ Slave # 0
    <3>1. PICK m \in Nat \ {0}, s \in Nat \ {0}, f \in Nat, l \in Nat :
              m = Master /\ s = Slave /\ f = Phase /\ l = Len(recent)
      BY <1>1, <2>4
    <3>2. m + s = Cycle BY <3>1 DEF Cycle
    <3> DEFINE x == (f - 1) - (l - i)
    <3>3. x \in Int BY <1>1, SMT
    <3>4. ASSUME NEW j \in 1 .. m + s
          PROVE  recent[i + j] = ToMeNB <=> (x + j) % (m + s) < m
      <4>1. i + j \in 1 .. Len(recent) BY <2>1, <3>2
      <4>2. recent[i + j] = Route(((f - 1) - (l - (i + j))) % (m + s))
        BY <1>2, <2>4, <3>1, <3>2, <4>1 DEF SharesKept
      <4>3. (f - 1) - (l - (i + j)) = x + j BY <3>1, SMT
      <4>4. recent[i + j] = Route((x + j) % (m + s)) BY <4>2, <4>3
      <4> HIDE DEF x
      <4> QED BY <3>1, <4>4, SMT DEF Route, ToMeNB, ToSeNB
    <3>5. {j \in 1 .. Cycle : recent[i + j] = ToMeNB} = {j \in 1 .. m + s : (x + j) % (m + s) < m}
      BY <3>2, <3>4
    <3> HIDE DEF x
    <3>6. Cardinality({j \in 1 .. m + s : (x + j) % (m + s) < m}) = m BY <3>3, ShareOfCycle
    <3> QED BY <3>1, <3>5, <3>6
  <2> QED BY <2>2, <2>3, <2>4
<1> QED BY <1>2, Zenon DEF RatioKept, Due, Cycle, Master, Slave

(***************************************************************************)
(* "Check if count value up to one cycle": whatever split_count was left   *)
(* at by the unlocked accesses of earlier commands, and for every ratio    *)
(* whose cycle a uint8_t can count, the master gets its exact share of     *)
(* every M + S consecutive SDUs while the settings stay.                   *)
(***************************************************************************)
THEOREM RatioAlwaysKept == SplitSpec => []RatioKept
<1>1. ASSUME SplitIInv, ShareInv, [SplitNext]_splitVars PROVE ShareInv'
  BY <1>1, CommandShares, WriteSduShares, TestShares, CycleShares, WriteCountShares,
     StutterShares, Zenon DEF SplitNext
<1>2. SplitIInv /\ ShareInv => RatioKept
  BY KeptShares DEF SplitIInv, ShareInv
<1> QED BY <1>1, <1>2, InitShares, Inductive, PTL DEF SplitSpec

-----------------------------------------------------------------------------
(***************************************************************************)
(* Arithmetic of sequence numbers and COUNTs.                              *)
(***************************************************************************)
\* The sequence number of a COUNT with hyper frame number p.
LEMMA SnOf ==
    ASSUME NEW p \in Int, NEW s \in 0 .. SN_MOD - 1
    PROVE  (p * SN_MOD + s) % SN_MOD = s
<1>1. SN_MOD \in Nat \ {0} BY PdcpAssumption, SMT
<1> QED BY <1>1, SMT

\* The same for a remainder r that may reach into the hyper frames next to it.
LEMMA Residue ==
    ASSUME NEW q \in Int, NEW r \in Int, -SN_MOD <= r, r < 2 * SN_MOD
    PROVE  /\ r < 0 => (q * SN_MOD + r) % SN_MOD = r + SN_MOD
           /\ 0 <= r /\ r < SN_MOD => (q * SN_MOD + r) % SN_MOD = r
           /\ SN_MOD <= r => (q * SN_MOD + r) % SN_MOD = r - SN_MOD
<1>1. SN_MOD \in Nat \ {0} BY PdcpAssumption, SMT
<1>2. q * SN_MOD + r = (q - 1) * SN_MOD + (r + SN_MOD) BY <1>1, SMT
<1>3. q * SN_MOD + r = (q + 1) * SN_MOD + (r - SN_MOD) BY <1>1, SMT
<1>4. ASSUME r < 0 PROVE (q * SN_MOD + r) % SN_MOD = r + SN_MOD
  <2>1. q - 1 \in Int /\ r + SN_MOD \in 0 .. SN_MOD - 1 BY <1>1, <1>4, SMT
  <2>2. ((q - 1) * SN_MOD + (r + SN_MOD)) % SN_MOD = r + SN_MOD BY ONLY <2>1, SnOf, Zenon
  <2> QED BY ONLY <2>2, <1>2, Zenon
<1>5. ASSUME 0 <= r, r < SN_MOD PROVE (q * SN_MOD + r) % SN_MOD = r
  <2>1. r \in 0 .. SN_MOD - 1 BY <1>1, <1>5, SMT
  <2> QED BY ONLY <2>1, SnOf, q \in Int, Zenon
<1>6. ASSUME SN_MOD <= r PROVE (q * SN_MOD + r) % SN_MOD = r - SN_MOD
  <2>1. q + 1 \in Int /\ r - SN_MOD \in 0 .. SN_MOD - 1 BY <1>1, <1>6, SMT
  <2>2. ((q + 1) * SN_MOD + (r - SN_MOD)) % SN_MOD = r - SN_MOD BY ONLY <2>1, SnOf, Zenon
  <2> QED BY ONLY <2>2, <1>3, Zenon
<1> QED BY <1>4, <1>5, <1>6

\* The hyper frame number of a COUNT fits into the upper bits, which Count keeps.
LEMMA CountOf ==
    ASSUME NEW h \in Int, NEW s \in 0 .. SN_MOD - 1,
           0 <= h * SN_MOD + s, h * SN_MOD + s < SN_MOD * HFN_MOD
    PROVE  Count(h, s) = h * SN_MOD + s
<1>0. SN_MOD \in Nat \ {0} /\ HFN_MOD \in Nat \ {0} BY PdcpAssumption, SMT
<1>1. h >= 0
  <2> SUFFICES ASSUME h <= -1 PROVE FALSE BY <1>0, SMT
  <2>1. h * SN_MOD <= -SN_MOD BY <1>0, SMT
  <2> QED BY <1>0, <2>1, SMT
<1>2. h < HFN_MOD
  <2> SUFFICES ASSUME h >= HFN_MOD PROVE FALSE BY <1>0, SMT
  <2>1. h * SN_MOD >= HFN_MOD * SN_MOD BY <1>0, SMT
  <2> QED BY <1>0, <2>1, SMT
<1>3. h % HFN_MOD = h BY <1>0, <1>1, <1>2, SMT
<1> QED BY <1>3 DEF Count

-----------------------------------------------------------------------------
(***************************************************************************)
(* The PDUs on a leg after one has been added or taken off.                *)
(***************************************************************************)
LEMMA RangeOfAppend ==
    ASSUME NEW S, NEW s \in Seq(S), NEW e \in S
    PROVE  Append(s, e) \in Seq(S) /\ Range(Append(s, e)) \subseteq Range(s) \cup {e}
BY SMT DEF Range
LEMMA RangeOfRemoveAt ==
    ASSUME NEW S, NEW s \in Seq(S), NEW i \in DOMAIN s
    PROVE  RemoveAt(s, i) \in Seq(S) /\ Range(RemoveAt(s, i)) \subseteq Range(s)
<1> DEFINE a == SubSeq(s, 1, i - 1)
           b == SubSeq(s, i + 1, Len(s))
<1>1. Len(s) \in Nat /\ i \in 1 .. Len(s) /\ DOMAIN s = 1 .. Len(s)
  BY LenProperties
<1>2. \A j \in 1 .. Len(s) : s[j] \in S
  BY ElementOfSeq
<1>3. a \in Seq(S) /\ Len(a) = i - 1 /\ \A j \in 1 .. i - 1 : a[j] = s[j]
  BY <1>1, <1>2, SMT
<1>4. /\ b \in Seq(S)
      /\ Len(b) = IF i + 1 <= Len(s) THEN Len(s) - (i + 1) + 1 ELSE 0
      /\ \A j \in 1 .. Len(s) - (i + 1) + 1 : b[j] = s[i + 1 + j - 1]
  <2>1. i + 1 \in Int /\ Len(s) \in Int /\ \A j \in i + 1 .. Len(s) : s[j] \in S
    BY <1>1, <1>2, SMT
  <2> QED BY <2>1, SubSeqProperties
<1> HIDE DEF a, b
<1>5. a \o b \in Seq(S)
  BY <1>3, <1>4, ConcatProperties
<1>6. DOMAIN (a \o b) = 1 .. Len(a) + Len(b)
  BY <1>3, <1>4, ConcatProperties, LenProperties, SMTT(30)
<1>7. ASSUME NEW j \in DOMAIN (a \o b) PROVE (a \o b)[j] \in Range(s)
  <2>1. (a \o b)[j] = IF j <= Len(a) THEN a[j] ELSE b[j - Len(a)]
    <3>1. \A l \in 1 .. Len(a) + Len(b) :
             (a \o b)[l] = IF l <= Len(a) THEN a[l] ELSE b[l - Len(a)]
      BY <1>3, <1>4, ConcatProperties
    <3> QED BY <1>6, <1>7, <3>1
  <2>2. CASE j <= i - 1
    <3>1. j \in 1 .. i - 1 /\ j \in DOMAIN s
      BY <1>1, <1>3, <1>4, <1>6, <1>7, <2>2, SMT
    <3> QED BY <1>3, <2>1, <2>2, <3>1 DEF Range
  <2>3. CASE ~(j <= i - 1)
    <3> DEFINE k == j - Len(a)
    <3>1. /\ k \in 1 .. Len(s) - (i + 1) + 1
          /\ i + 1 + k - 1 = j + 1 /\ j + 1 \in 1 .. Len(s)
      <4>1. Len(a) = i - 1 /\ Len(b) = IF i + 1 <= Len(s) THEN Len(s) - (i + 1) + 1 ELSE 0
        BY <1>3, <1>4
      <4>2. j \in 1 .. Len(a) + Len(b)
        BY <1>6, <1>7
      <4> HIDE DEF k
      <4>3. k = j - (i - 1)
        BY <4>1 DEF k
      <4>4. j \in Int /\ i <= j /\ j <= Len(s) - 1 /\ i < Len(s)
        BY <1>1, <2>3, <4>1, <4>2, SMTT(30)
      <4> QED BY <1>1, <4>3, <4>4, SMT
    <3>2. b[k] = s[j + 1]
      BY <1>4, <3>1
    <3> QED BY <1>1, <1>3, <2>1, <2>3, <3>1, <3>2 DEF Range
  <2> QED BY <2>2, <2>3
<1>8. Range(a \o b) \subseteq Range(s)
  BY <1>7 DEF Range
<1> QED BY <1>5, <1>8 DEF RemoveAt, a, b

-----------------------------------------------------------------------------
(***************************************************************************)
(* The inductive invariant.  Position says what the three receiver         *)
(* variables stand for (NextFollowsHighest with the range of the sequence  *)
(* number); Skew bounds how far the COUNTs under way and the highest one   *)
(* received lie apart.                                                     *)
(***************************************************************************)
Position ==
    /\ highest \in Int /\ highest >= -1
    /\ rx_hfn \in Int
    /\ next_pdcp_rx_sn \in 0 .. SN_MOD - 1
    /\ NextFollowsHighest

Skew ==
    /\ menb \in Seq(Nat) /\ senb \in Seq(Nat)
    /\ tx_count \in 0 .. MAX_COUNT
    /\ highest < tx_count
    /\ tx_count <= highest + 1 + SKEW
    /\ \A c \in InFlight : c < tx_count /\ tx_count - c <= SKEW

LegsIInv == Position /\ Skew /\ CountMatches

-----------------------------------------------------------------------------
(***************************************************************************)
(* What handle_am_drb_pdu makes of a late PDU and of one ahead.            *)
(***************************************************************************)
\* A PDU that is not above the highest one received, or a second copy of it, is outside the
\* window, and gets the COUNT it was ciphered with all the same.
LEMMA LatePdu ==
    ASSUME Position, NEW c \in Nat,
           c <= highest, highest - c < REORDERING_WINDOW, c < SN_MOD * HFN_MOD
    PROVE  LET sn == c % SN_MOD
           IN  /\ OutsideWindow(sn)
               /\ Count(IF sn > next_pdcp_rx_sn THEN rx_hfn - 1 ELSE rx_hfn, sn) = c
<1> DEFINE sn == c % SN_MOD
           r  == next_pdcp_rx_sn - (highest + 1 - c)
<1>1. /\ SN_MOD \in Nat \ {0} /\ REORDERING_WINDOW \in Nat \ {0}
      /\ SN_MOD = 2 * REORDERING_WINDOW /\ HFN_MOD \in Nat \ {0}
  BY PdcpAssumption, SMT
<1>2. /\ highest \in Int /\ rx_hfn \in Int /\ next_pdcp_rx_sn \in 0 .. SN_MOD - 1
      /\ rx_hfn * SN_MOD + next_pdcp_rx_sn = highest + 1
      /\ last_submitted_pdcp_rx_sn = highest % SN_MOD
  BY DEF Position, NextFollowsHighest
<1>3. r \in Int /\ -SN_MOD <= r /\ r < SN_MOD /\ r < next_pdcp_rx_sn
  BY <1>1, <1>2, SMT
<1>4. c = rx_hfn * SN_MOD + r
  BY <1>1, <1>2, SMT
<1>5. highest = rx_hfn * SN_MOD + (next_pdcp_rx_sn - 1)
  BY <1>1, <1>2, SMT
<1>6. last_submitted_pdcp_rx_sn =
         IF next_pdcp_rx_sn = 0 THEN SN_MOD - 1 ELSE next_pdcp_rx_sn - 1
  BY <1>1, <1>2, <1>5, Residue, SMT
<1>7. sn = IF r < 0 THEN r + SN_MOD ELSE r
  <2>1. sn = (rx_hfn * SN_MOD + r) % SN_MOD
    BY <1>4
  <2> HIDE DEF r, sn
  <2>2. /\ r < 0 => (rx_hfn * SN_MOD + r) % SN_MOD = r + SN_MOD
        /\ 0 <= r /\ r < SN_MOD => (rx_hfn * SN_MOD + r) % SN_MOD = r
    <3>1. r \in Int /\ -SN_MOD <= r /\ r < 2 * SN_MOD
      BY <1>1, <1>3, SMT
    <3> QED BY <1>2, <3>1, Residue, Zenon
  <2> QED BY <1>1, <1>3, <2>1, <2>2, SMT
<1>8. OutsideWindow(sn)
  <2> HIDE DEF sn
  <2>1. r > next_pdcp_rx_sn - 1 - REORDERING_WINDOW
    BY <1>1, <1>2, SMT
  <2> QED BY <1>1, <1>2, <1>3, <1>6, <1>7, <2>1, SMT DEF OutsideWindow
<1>9. CASE r < 0
  <2>1. sn \in 0 .. SN_MOD - 1 /\ sn > next_pdcp_rx_sn
    BY <1>1, <1>2, <1>3, <1>7, <1>9, SMT
  <2>2. c = (rx_hfn - 1) * SN_MOD + sn
    BY <1>1, <1>2, <1>3, <1>4, <1>7, <1>9, SMT
  <2>3. Count(rx_hfn - 1, sn) = c
    BY <1>1, <1>2, <2>1, <2>2, CountOf, SMT
  <2> QED BY <1>8, <2>1, <2>3
<1>10. CASE r >= 0
  <2>1. sn \in 0 .. SN_MOD - 1 /\ ~(sn > next_pdcp_rx_sn)
    BY <1>1, <1>2, <1>3, <1>7, <1>10, SMT
  <2>2. c = rx_hfn * SN_MOD + sn
    BY <1>1, <1>2, <1>3, <1>4, <1>7, <1>10, SMT
  <2>3. Count(rx_hfn, sn) = c
    BY <1>1, <1>2, <2>1, <2>2, CountOf, SMT
  <2> QED BY <1>8, <2>1, <2>3
<1> QED BY <1>3, <1>9, <1>10, SMT

\* A PDU above the highest one received, but not by more than the window, is inside: it gets
\* its COUNT, and the receiver's variables move on to the COUNT after it.
LEMMA PduAhead ==
    ASSUME Position, NEW c \in Nat,
           highest < c, c - highest <= REORDERING_WINDOW, c < SN_MOD * HFN_MOD,
           HandleAmDrbPdu(c)
    PROVE  Position' /\ gw' = [sent |-> c, count |-> c] /\ highest' = c
<1> DEFINE sn == c % SN_MOD
           r  == next_pdcp_rx_sn + (c - highest - 1)
<1>1. /\ SN_MOD \in Nat \ {0} /\ REORDERING_WINDOW \in Nat \ {0}
      /\ SN_MOD = 2 * REORDERING_WINDOW /\ HFN_MOD \in Nat \ {0}
  BY PdcpAssumption, SMT
<1>2. /\ highest \in Int /\ highest >= -1
      /\ rx_hfn \in Int /\ next_pdcp_rx_sn \in 0 .. SN_MOD - 1
      /\ rx_hfn * SN_MOD + next_pdcp_rx_sn = highest + 1
      /\ last_submitted_pdcp_rx_sn = highest % SN_MOD
  BY DEF Position, NextFollowsHighest
<1>3. r \in Int /\ next_pdcp_rx_sn <= r /\ r < next_pdcp_rx_sn + REORDERING_WINDOW
  BY <1>1, <1>2, SMT
<1>4. c = rx_hfn * SN_MOD + r
  BY <1>1, <1>2, SMT
<1>5. highest = rx_hfn * SN_MOD + (next_pdcp_rx_sn - 1)
  BY <1>1, <1>2, SMT
<1>6. last_submitted_pdcp_rx_sn =
         IF next_pdcp_rx_sn = 0 THEN SN_MOD - 1 ELSE next_pdcp_rx_sn - 1
  BY <1>1, <1>2, <1>5, Residue, SMT
<1>7. sn = IF r >= SN_MOD THEN r - SN_MOD ELSE r
  <2>1. sn = (rx_hfn * SN_MOD + r) % SN_MOD
    BY <1>4
  <2> HIDE DEF r, sn
  <2>2. /\ SN_MOD <= r => (rx_hfn * SN_MOD + r) % SN_MOD = r - SN_MOD
        /\ 0 <= r /\ r < SN_MOD => (rx_hfn * SN_MOD + r) % SN_MOD = r
    <3>1. r \in Int /\ -SN_MOD <= r /\ r < 2 * SN_MOD
      BY <1>1, <1>2, <1>3, SMT
    <3> QED BY <1>2, <3>1, Residue, Zenon
  <2> QED BY <1>1, <1>2, <1>3, <2>1, <2>2, SMT
<1> HIDE DEF sn
<1>8. ~OutsideWindow(sn)
  <2> HIDE DEF r
  <2> QED BY <1>1, <1>2, <1>3, <1>6, <1>7, SMT DEF OutsideWindow
<1>9. /\ gw' = [sent |-> c, count |-> gw'.count] /\ highest' = c
      /\ last_submitted_pdcp_rx_sn' = c % SN_MOD
  BY <1>8, <1>2, SMT DEF HandleAmDrbPdu, Submit, sn
<1>10. CASE r >= SN_MOD
  <2>1. sn \in 0 .. SN_MOD - 1 /\ next_pdcp_rx_sn - sn > REORDERING_WINDOW
    BY <1>1, <1>2, <1>3, <1>7, <1>10, SMT
  <2>2. Wrapped(sn)
    BY <2>1 DEF Wrapped
  <2>3. rx_hfn' = rx_hfn + 1 /\ next_pdcp_rx_sn' = sn + 1 /\ gw'.count = Count(rx_hfn + 1, sn)
    BY <1>8, <2>2, SMT DEF HandleAmDrbPdu, Submit, sn
  <2>4. sn + 1 \in 0 .. SN_MOD - 1
    BY <1>1, <1>2, <2>1, SMT
  <2>5. c = (rx_hfn + 1) * SN_MOD + sn
    BY <1>1, <1>2, <1>3, <1>4, <1>7, <1>10, SMT
  <2>6. Count(rx_hfn + 1, sn) = c
    BY <1>1, <1>2, <2>1, <2>5, CountOf, SMT
  <2>7. gw' = [sent |-> c, count |-> c]
    BY <1>9, <2>3, <2>6
  <2>8. rx_hfn' * SN_MOD + next_pdcp_rx_sn' = c + 1
    <3>1. (rx_hfn + 1) * SN_MOD + (sn + 1) = c + 1
      BY <1>1, <1>2, <2>1, <2>5, SMT
    <3> QED BY <2>3, <3>1
  <2>9. rx_hfn' \in Int /\ next_pdcp_rx_sn' \in 0 .. SN_MOD - 1
    BY <1>2, <2>3, <2>4, SMT
  <2> QED BY <1>9, <2>7, <2>8, <2>9, SMT DEF Position, NextFollowsHighest
<1>11. CASE r < SN_MOD
  <2>1. /\ sn \in 0 .. SN_MOD - 1 /\ sn >= next_pdcp_rx_sn
        /\ sn - next_pdcp_rx_sn < REORDERING_WINDOW
    BY <1>1, <1>2, <1>3, <1>7, <1>11, SMT
  <2>2. ~Wrapped(sn) /\ ~OfPreviousHfn(sn) /\ ~(sn < next_pdcp_rx_sn)
    BY <1>1, <1>2, <2>1, SMT DEF Wrapped, OfPreviousHfn
  <2>3. /\ gw'.count = Count(rx_hfn, sn)
        /\ next_pdcp_rx_sn' = (sn + 1) % SN_MOD
        /\ rx_hfn' = IF sn + 1 = SN_MOD THEN rx_hfn + 1 ELSE rx_hfn
    BY <1>8, <2>2, SMT DEF HandleAmDrbPdu, Submit, sn
  <2>4. c = rx_hfn * SN_MOD + sn
    BY <1>1, <1>2, <1>3, <1>4, <1>7, <1>11, SMT
  <2>5. Count(rx_hfn, sn) = c
    BY <1>1, <1>2, <2>1, <2>4, CountOf, SMT
  <2>6. next_pdcp_rx_sn' = IF sn + 1 = SN_MOD THEN 0 ELSE sn + 1
    BY <1>1, <2>1, <2>3, SMT
  <2> QED BY <1>1, <1>2, <1>9, <2>1, <2>3, <2>4, <2>5, <2>6, SMT DEF Position, NextFollowsHighest
<1> QED BY <1>1, <1>3, <1>10, <1>11, SMT

-----------------------------------------------------------------------------
(***************************************************************************)
(* Whatever PDU under way is handled, the receiver keeps its position, the *)
(* COUNT is right, and the highest COUNT received stays below tx_count.    *)
(***************************************************************************)
LEMMA HandlePdu ==
    ASSUME LegsIInv, NEW c \in InFlight, HandleAmDrbPdu(c)
    PROVE  /\ Position' /\ CountMatches'
           /\ tx_count' = tx_count /\ highest' < tx_count /\ highest <= highest'
<1>1. /\ SKEW \in 1 .. REORDERING_WINDOW /\ REORDERING_WINDOW \in Nat
      /\ tx_count \in Nat /\ tx_count <= SN_MOD * HFN_MOD
  <2>1. SN_MOD \in Nat /\ HFN_MOD \in Nat BY PdcpAssumption, SMT
  <2>2. SN_MOD * HFN_MOD \in Nat BY <2>1, SMT
  <2>3. tx_count \in 0 .. MAX_COUNT BY DEF LegsIInv, Skew
  <2> QED BY <2>2, <2>3, PdcpAssumption, BearerAssumption, SMT
<1>2. c \in Nat /\ c < tx_count /\ tx_count - c <= SKEW
  BY SMT DEF LegsIInv, Skew, InFlight, Range
<1>3. highest \in Int /\ highest < tx_count /\ tx_count <= highest + 1 + SKEW
  BY DEF LegsIInv, Skew, Position
<1>4. SN_MOD * HFN_MOD \in Nat
  <2>1. SN_MOD \in Nat /\ HFN_MOD \in Nat BY PdcpAssumption, SMT
  <2> QED BY <2>1, SMT
<1>5. c < SN_MOD * HFN_MOD
  BY <1>1, <1>2, <1>4, SMT
<1>6. tx_count' = tx_count
  BY DEF HandleAmDrbPdu
<1>7. CASE c > highest
  <2>1. c - highest <= REORDERING_WINDOW
    BY <1>1, <1>2, <1>3, SMT
  <2>2. Position' /\ gw' = [sent |-> c, count |-> c] /\ highest' = c
    BY <1>2, <1>3, <1>5, <1>7, <2>1, PduAhead, SMT DEF LegsIInv
  <2>3. CountMatches'
    BY <2>2 DEF CountMatches
  <2> QED BY <1>2, <1>3, <1>6, <1>7, <2>2, <2>3, SMT
<1>8. CASE c <= highest
  <2> DEFINE sn == c % SN_MOD
  <2>1. highest - c < REORDERING_WINDOW
    BY <1>1, <1>2, <1>3, SMT
  <2>2. /\ OutsideWindow(sn)
        /\ Count(IF sn > next_pdcp_rx_sn THEN rx_hfn - 1 ELSE rx_hfn, sn) = c
    BY <1>2, <1>5, <1>8, <2>1, LatePdu DEF LegsIInv
  <2>3. /\ gw' = [sent |-> c, count |-> c]
        /\ highest' = highest
        /\ UNCHANGED <<rx_hfn, next_pdcp_rx_sn, last_submitted_pdcp_rx_sn>>
    BY <1>2, <1>3, <1>8, <2>2, SMT DEF HandleAmDrbPdu, Submit
  <2>4. CountMatches'
    BY <2>3 DEF CountMatches
  <2>5. Position'
    BY <2>3 DEF LegsIInv, Position, NextFollowsHighest
  <2> QED BY <1>3, <1>6, <2>3, <2>4, <2>5, SMT
<1> QED BY <1>2, <1>3, <1>7, <1>8, SMT

-----------------------------------------------------------------------------
\* What is bounded by a COUNT is bounded by a higher one.
LEMMA LaterHighest ==
    ASSUME NEW t \in Int, NEW h \in Int, NEW l \in Int, NEW k \in Int,
           t <= h + 1 + k, h <= l
    PROVE  t <= l + 1 + k
BY SMT

(***************************************************************************)
(* The invariant holds at first and is kept by every action.               *)
(***************************************************************************)
LEMMA IInvInit == Init => LegsIInv
<1> SUFFICES ASSUME Init PROVE LegsIInv OBVIOUS
<1> USE DEF Init, PdcpInit
<1>1. SN_MOD \in Nat \ {0} /\ SKEW \in Nat /\ MAX_COUNT \in Nat
  <2>1. SN_MOD \in Nat \ {0} /\ HFN_MOD \in Nat /\ REORDERING_WINDOW \in Nat
    BY PdcpAssumption, SMT
  <2>2. SN_MOD * HFN_MOD \in Nat BY <2>1, SMT
  <2> QED BY <2>1, <2>2, BearerAssumption, SMT
<1>2. Position
  <2>1. (-1) % SN_MOD = SN_MOD - 1 /\ 0 * SN_MOD = 0 BY <1>1, SMT
  <2> QED BY <1>1, <2>1, SMT DEF Position, NextFollowsHighest
<1>3. InFlight = {}
  BY DEF InFlight, Range
<1>4. Skew
  BY <1>1, <1>3, SMT DEF Skew
<1> QED BY <1>2, <1>4 DEF LegsIInv, CountMatches, NoPdu

LEMMA IInvNext == LegsIInv /\ [Next]_vars => LegsIInv'
<1> SUFFICES ASSUME LegsIInv, [Next]_vars PROVE LegsIInv'
  OBVIOUS
<1>1. SN_MOD \in Nat \ {0} /\ SKEW \in Nat /\ MAX_COUNT \in Nat
  <2>1. SN_MOD \in Nat \ {0} /\ HFN_MOD \in Nat /\ REORDERING_WINDOW \in Nat
    BY PdcpAssumption, SMT
  <2>2. SN_MOD * HFN_MOD \in Nat BY <2>1, SMT
  <2> QED BY <2>1, <2>2, BearerAssumption, SMT
<1>2. menb \in Seq(Nat) /\ senb \in Seq(Nat) /\ tx_count \in Nat /\ highest \in Int
  <2>1. menb \in Seq(Nat) /\ senb \in Seq(Nat) /\ highest \in Int /\ tx_count \in 0 .. MAX_COUNT
    BY DEF LegsIInv, Skew, Position
  <2> QED BY <1>1, <2>1, SMT
<1>3. ASSUME NEW c \in InFlight, HandleAmDrbPdu(c),
             menb' \in Seq(Nat), senb' \in Seq(Nat), InFlight' \subseteq InFlight
      PROVE  LegsIInv'
  <2>1. /\ Position' /\ CountMatches'
        /\ tx_count' = tx_count /\ highest' < tx_count /\ highest <= highest'
    BY <1>3, HandlePdu
  <2>2. highest' \in Int
    BY <2>1 DEF Position
  <2>3. Skew'
    <3>1. tx_count' \in 0 .. MAX_COUNT
      BY <2>1 DEF LegsIInv, Skew
    <3>2. highest' < tx_count' /\ tx_count' <= highest' + 1 + SKEW
      <4>1. tx_count <= highest + 1 + SKEW
        BY DEF LegsIInv, Skew
      <4>2. tx_count' = tx_count /\ highest' < tx_count /\ highest <= highest'
        BY <2>1
      <4>3. SKEW \in Int /\ tx_count \in Int /\ highest \in Int
        BY <1>1, <1>2, SMT
      <4>4. tx_count <= highest' + 1 + SKEW
        BY <2>2, <4>1, <4>2, <4>3, LaterHighest, Zenon
      <4> QED BY <4>2, <4>4
    <3>3. \A d \in InFlight' : d < tx_count' /\ tx_count' - d <= SKEW
      BY <1>3, <2>1 DEF LegsIInv, Skew
    <3> QED BY <1>3, <3>1, <3>2, <3>3 DEF Skew
  <2> QED BY <2>1, <2>3 DEF LegsIInv
<1>4. CASE WriteSduToLegs
  <2>1. UNCHANGED rxState /\ tx_count' = tx_count + 1 /\ tx_count < MAX_COUNT
    BY <1>4 DEF WriteSduToLegs, SendPdu
  <2>2. \A c \in InFlight \cup {highest + 1} : tx_count - c < SKEW
    BY <1>4 DEF WriteSduToLegs
  <2>3. menb' \in {menb, Append(menb, tx_count)} /\ senb' \in {senb, Append(senb, tx_count)}
    BY <1>4 DEF WriteSduToLegs
  <2>4. \A leg \in {menb, senb} :
           /\ Append(leg, tx_count) \in Seq(Nat)
           /\ Range(Append(leg, tx_count)) \subseteq Range(leg) \cup {tx_count}
    BY <1>2, RangeOfAppend
  <2>5. InFlight' \subseteq InFlight \cup {tx_count}
    BY <2>3, <2>4 DEF InFlight
  <2>6. \A c \in InFlight : c \in Nat /\ c < tx_count
    BY <1>2, SMT DEF LegsIInv, Skew, InFlight, Range
  <2>7. SKEW >= 1
    BY BearerAssumption, PdcpAssumption, SMT
  <2>8. Skew'
    <3>1. highest' = highest
      BY <2>1 DEF rxState
    <3>2. tx_count' \in 0 .. MAX_COUNT
      BY <1>1, <1>2, <2>1, SMT
    <3>3. highest' < tx_count' /\ tx_count' <= highest' + 1 + SKEW
      <4>1. tx_count - (highest + 1) < SKEW
        BY <2>2
      <4>2. highest < tx_count
        BY DEF LegsIInv, Skew
      <4> QED BY <1>1, <1>2, <2>1, <3>1, <4>1, <4>2, SMT
    <3>4. ASSUME NEW c \in InFlight' PROVE c < tx_count' /\ tx_count' - c <= SKEW
      BY <1>1, <1>2, <2>1, <2>2, <2>5, <2>6, <2>7, SMTT(30)
    <3>5. menb' \in Seq(Nat) /\ senb' \in Seq(Nat)
      BY <1>2, <2>3, <2>4
    <3> QED BY <3>2, <3>3, <3>4, <3>5 DEF Skew
  <2>9. Position' /\ CountMatches'
    BY <2>1 DEF LegsIInv, Position, NextFollowsHighest, CountMatches, rxState
  <2> QED BY <2>8, <2>9 DEF LegsIInv
<1>5. CASE FromMeNB
  <2>1. menb # << >> /\ menb' = Tail(menb) /\ senb' = senb /\ HandleAmDrbPdu(Head(menb))
    BY <1>5 DEF FromMeNB
  <2>2. Head(menb) \in InFlight /\ menb' \in Seq(Nat) /\ InFlight' \subseteq InFlight
    BY <1>2, <2>1, RangeOfTail DEF InFlight
  <2> QED BY <1>2, <1>3, <2>1, <2>2
<1>6. ASSUME NEW i \in DOMAIN senb, FromSeNB(i) PROVE LegsIInv'
  <2>1. senb' = RemoveAt(senb, i) /\ menb' = menb /\ HandleAmDrbPdu(senb[i])
    BY <1>6 DEF FromSeNB
  <2>2. senb[i] \in InFlight /\ senb' \in Seq(Nat) /\ InFlight' \subseteq InFlight
    <3>1. RemoveAt(senb, i) \in Seq(Nat) /\ Range(RemoveAt(senb, i)) \subseteq Range(senb)
      BY <1>2, <1>6, RangeOfRemoveAt
    <3>2. senb[i] \in Range(senb)
      BY <1>6 DEF Range
    <3> QED BY <2>1, <3>1, <3>2 DEF InFlight
  <2> QED BY <1>2, <1>3, <2>1, <2>2
<1>7. CASE UNCHANGED vars
  BY <1>7 DEF vars, pdcpVars, rxState, LegsIInv, Position, Skew, InFlight, Range, NextFollowsHighest,
              CountMatches
<1> QED BY <1>4, <1>5, <1>6, <1>7 DEF Next

LEMMA IInvAlways == Spec => []LegsIInv
BY IInvInit, IInvNext, PTL DEF Spec

(***************************************************************************)
(* Every PDU of a split or duplicated bearer is deciphered with the COUNT  *)
(* it was ciphered with (handle_am_drb_pdu), for every sequence number     *)
(* length, as long as the legs drift apart by at most the window.          *)
(***************************************************************************)
THEOREM CountMatchesAlways == Spec => []CountMatches
<1>1. LegsIInv => CountMatches BY DEF LegsIInv
<1> QED BY <1>1, IInvAlways, PTL

(***************************************************************************)
(* rx_hfn and next_pdcp_rx_sn always stand for the COUNT that follows the  *)
(* highest one received, and last_submitted_pdcp_rx_sn for that one.       *)
(***************************************************************************)
THEOREM NextFollowsHighestAlways == Spec => []NextFollowsHighest
<1>1. LegsIInv => NextFollowsHighest BY DEF LegsIInv, Position
<1> QED BY <1>1, IInvAlways, PTL
=============================================================================
