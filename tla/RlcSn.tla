------------------------------- MODULE RlcSn -------------------------------
(***************************************************************************)
(* Sequence-number arithmetic of the LTE RLC AM entity                     *)
(* (lib/src/upper/rlc_am_lte.cc).  A sequence number is 10 bits wide in    *)
(* the code, MOD is 1024 and RLC_AM_WINDOW_SIZE is 512; here both are      *)
(* parameters, related as they are in the code.                            *)
(***************************************************************************)
EXTENDS Integers, Sequences, FiniteSets

CONSTANTS
    WINDOW,  \* RLC_AM_WINDOW_SIZE
    MOD      \* size of the sequence number space

ASSUME WindowAssumption == WINDOW \in Nat \ {0}
ASSUME ModAssumption    == MOD = 2 * WINDOW

SN == 0 .. MOD - 1

(***************************************************************************)
(* TX_MOD_BASE(x) and RX_MOD_BASE(x): how far x is ahead of the low edge   *)
(* of a window.  The subtraction is done on uint32_t and the result taken  *)
(* modulo 1024, which divides 2^32: it is the mathematical modulo.         *)
(***************************************************************************)
Offset(x, base) == (x - base) % MOD

\* Mutant: the sum is not reduced.
PlusNoWrap(x, k) == x + k

Plus(x, k) == (x + k) % MOD

\* The numbers of the k consecutive SNs that start at base.
Span(base, k) == { x \in SN : Offset(x, base) < k }

\* The maps that std::map variables are modelled by: functions with a finite domain.
EmptyMap        == << >>
With(f, key, e) == [x \in DOMAIN f \cup {key} |-> IF x = key THEN e ELSE f[x]]
Without(f, S)   == [x \in DOMAIN f \ S |-> f[x]]

(***************************************************************************)
(* Where a loop that walks up from x while the SN is in S stops, counted   *)
(* in steps: while (S.end() != S.find(x)) x = (x + 1) % MOD.               *)
(***************************************************************************)
\* Mutant: "if" instead of "while".
RunLengthOnce(x, S) == IF x \in S THEN {1} ELSE {0}

RunLength(x, S) ==
    { k \in 0 .. MOD - 1 : /\ Plus(x, k) \notin S
                           /\ \A j \in 0 .. k - 1 : Plus(x, j) \in S }
=============================================================================
