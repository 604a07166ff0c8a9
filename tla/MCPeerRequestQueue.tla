------------------------- MODULE MCPeerRequestQueue -------------------------
(***************************************************************************)
(* Instances of PeerRequestQueue for TLC.                                  *)
(***************************************************************************)
EXTENDS PeerRequestQueue, TLC

\* Peers are only compared with each other.
Symmetry == Permutations(Peers)

=============================================================================
