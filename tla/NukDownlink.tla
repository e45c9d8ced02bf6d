---------------------------- MODULE NukDownlink -----------------------------
(***************************************************************************)
(* The sending side of the split bearer: the master's choice of the legs   *)
(* (NukSplit), its RLC AM transmitter (RlcAmTxAnyPeer), and what becomes   *)
(* of the PDUs on the legs (NukBearer).                                    *)
(*                                                                         *)
(* The three share no state.  NukBearer takes any choice of legs and the   *)
(* transmitter any SDU and any status PDU at any time, so none of them has *)
(* to wait for another and interleaving them adds nothing; each behaviour  *)
(* here is one of one part with the others at rest.                        *)
(***************************************************************************)
EXTENDS NukSplit, NukBearer, RlcAmTxAnyPeer

VARIABLE part

downlinkVars == <<part, splitVars, vars, txVars>>

DownlinkInit ==
    /\ part \in {"split", "transmitter", "legs"}
    /\ SplitInit
    /\ Init
    /\ TxInit

DownlinkNext ==
    /\ UNCHANGED part
    /\ \/ part = "split" /\ SplitNext /\ UNCHANGED <<vars, txVars>>
       \/ part = "legs" /\ Next /\ UNCHANGED <<splitVars, txVars>>
       \/ part = "transmitter" /\ TxNext /\ UNCHANGED <<splitVars, vars>>

DownlinkSpec == DownlinkInit /\ [][DownlinkNext]_downlinkVars
=============================================================================
