--------------------------- MODULE MCPeerManager ---------------------------
(* Instances of PeerManager for TLC.                                        *)
EXTENDS PeerManager, TLC

AllKinds == {"add", "remove", "send", "close"}
NoClose == AllKinds \ {"close"}
Failures == {"error", "end", "broken"}
Traffic == {"msg", "end", "late"}

(* Peers and sinks are interchangeable; tasks are numbered.                 *)
Symmetry == Permutations(Peers) \cup Permutations(Sinks)
=============================================================================
