---------------------------- MODULE MCPeerManager ----------------------------
(***************************************************************************)
(* The instances of PeerManager that TLC checks.                           *)
(***************************************************************************)
EXTENDS PeerManager, TLC

Symmetry == Permutations(Peer) \cup Permutations(Conn)

=============================================================================
