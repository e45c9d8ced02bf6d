---------------------------- MODULE RlcDelivery ----------------------------
(***************************************************************************)
(* What an acknowledged-mode RLC bearer promises its users (PDCP on both   *)
(* sides): payloads are delivered in the order in which they were sent,    *)
(* none is skipped or delivered twice, and the sender lets go of a payload *)
(* only after it has been delivered; at most WINDOW payloads are sent and  *)
(* not let go.  Re-establishment starts afresh.                            *)
(***************************************************************************)
EXTENDS Naturals, Sequences

CONSTANT WINDOW

VARIABLES
    sent,       \* payloads sent: 0 .. sent - 1
    delivered,  \* payloads delivered, in order
    released    \* payloads the sender no longer keeps

vars == <<sent, delivered, released>>

Init == sent = 0 /\ delivered = << >> /\ released = 0

Send ==
    /\ sent - released < WINDOW
    /\ sent' = sent + 1
    /\ UNCHANGED <<delivered, released>>

Deliver ==
    /\ \E k \in 1 .. sent - Len(delivered) :
          delivered' = delivered \o [i \in 1 .. k |-> Len(delivered) + i - 1]
    /\ UNCHANGED <<sent, released>>

Release ==
    /\ released' \in released + 1 .. Len(delivered)
    /\ UNCHANGED <<sent, delivered>>

Reestablish ==
    /\ sent' = 0 /\ delivered' = << >> /\ released' = 0

Next == Send \/ Deliver \/ Release \/ Reestablish

Spec == Init /\ [][Next]_vars
=============================================================================
