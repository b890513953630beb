---------------------------- MODULE MCPeerChannels ----------------------------
(* PeerChannels for TLC.  A pair at rest has no step left once its faults are *)
(* used up, so the runs allow deadlock.                                       *)
EXTENDS PeerChannels
=============================================================================
