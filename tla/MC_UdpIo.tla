------------------------------ MODULE MC_UdpIo ------------------------------
(* Instantiates UdpIo for TLC: two packets and two receive tokens, so that *)
(* two sends, a cancel of one of them, a receive restarted from its        *)
(* callback while the user still holds the first NET_BUF, and a pool      *)
(* exhausted by held buffers can all happen.                               *)
EXTENDS UdpIo, TLC

CONSTANTS p1, p2, r1, r2

MCPackets  == {p1, p2}
MCRxTokens == {r1, r2}

Symmetry == Permutations(MCPackets) \cup Permutations(MCRxTokens)
=============================================================================
