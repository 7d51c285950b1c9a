------------------------------ MODULE MCKitTo ------------------------------
(* A packet of this instance and the tunnel of another one share an        *)
(* application id; the packet and the own tunnel can be forwarded; a burst *)
(* fills the pipe.                                                         *)
EXTENDS KitTo

CONSTANTS tlm, sub, pub, a1, a2

MCAppIdOf == (tlm :> a1) @@ (sub :> a1) @@ (pub :> a2)

PTlm == [mid |-> tlm, filter |-> "some", forward |-> TRUE]
PSub == [mid |-> sub, filter |-> "some", forward |-> FALSE]
PPub == [mid |-> pub, filter |-> "some", forward |-> TRUE]

MCPkts == {PTlm, PSub, PPub}
MCFiles == {<<PTlm, PSub>>, <<PPub, PTlm>>}

MCPktCampaigns ==
  {[exact |-> TRUE, refuse |-> FALSE, unpackable |-> {}],
   [exact |-> TRUE, refuse |-> TRUE, unpackable |-> {tlm}],
   [exact |-> TRUE, refuse |-> TRUE, unpackable |-> {}],
   [exact |-> FALSE, refuse |-> FALSE, unpackable |-> {}]}
=============================================================================
