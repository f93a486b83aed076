----------------------------- MODULE MC_Ip4Route -----------------------------
(* Ip4Route on 2-bit addresses: a default route via 1, the connected      *)
(* network 2/1 and the host route 3/2 via 1, two sources, two route        *)
(* entries and two cache entries of memory, two hash buckets of one entry. *)
EXTENDS Ip4Route, TLC

CONSTANTS r1, r2, c1, c2

MCRoutes == {[dst |-> 0, len |-> 0, nh |-> 1],
             [dst |-> 2, len |-> 1, nh |-> 2],
             [dst |-> 3, len |-> 2, nh |-> 1]}
MCRouteIds == {r1, r2}
MCCacheIds == {c1, c2}

Symmetry == Permutations(MCRouteIds) \cup Permutations(MCCacheIds)
=============================================================================
