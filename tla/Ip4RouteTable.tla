--------------------------- MODULE Ip4RouteTable ---------------------------
(***************************************************************************)
(* What the IPv4 route table promises its owners, with the cache and the  *)
(* memory left out: a reference-counted table that holds a set of routes,  *)
(* each (destination, prefix length, next hop) triple at most once.  A     *)
(* route is added only when it is not in the table and deleted only when   *)
(* it is; the last owner's release empties the table.  Lookups do not      *)
(* change it.                                                              *)
(***************************************************************************)
EXTENDS Naturals

CONSTANTS Routes, MaxOwners

VARIABLES owners, table

absVars == <<owners, table>>

AbsInit == owners = 0 /\ table = {}

AbsCreate == owners = 0 /\ owners' = 1 /\ UNCHANGED table

AbsShare == owners \in 1 .. (MaxOwners - 1) /\ owners' = owners + 1 /\ UNCHANGED table

AbsFree ==
  /\ owners >= 1
  /\ owners' = owners - 1
  /\ table' = IF owners = 1 THEN {} ELSE table

AbsAdd(r) == owners >= 1 /\ r \notin table /\ table' = table \cup {r} /\ UNCHANGED owners

AbsDel(r) == owners >= 1 /\ r \in table /\ table' = table \ {r} /\ UNCHANGED owners

AbsNext ==
  \/ AbsCreate \/ AbsShare \/ AbsFree
  \/ \E r \in Routes : AbsAdd(r) \/ AbsDel(r)

AbsSpec == AbsInit /\ [][AbsNext]_absVars
=============================================================================
