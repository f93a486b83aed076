------------------------------ MODULE Ip4Route ------------------------------
(***************************************************************************)
(* The IPv4 route table of Ip4Route.h: route entries partitioned by prefix *)
(* length, the route cache embedded in the table (a hash table of          *)
(* (destination, source) -> next hop bindings, each tagged with the route  *)
(* entry it came from), the resolver Ip4Route, and the reference counts of *)
(* the table and of the cache entries.  The header declares the types, the *)
(* cache constants and the hash; the operations are modelled from their    *)
(* description in spec.md.                                                 *)
(*                                                                         *)
(* Addresses are W-bit numbers and a netmask is represented by its prefix  *)
(* length (the mask is contiguous by contract).  Route and cache entries   *)
(* are memory blocks named by RouteIds and CacheIds; an allocation takes a *)
(* block that is not live, so freed memory is reused.  The order of a      *)
(* bucket (insertion at the head) is kept as an insertion stamp.           *)
(***************************************************************************)
EXTENDS Integers, FiniteSets

CONSTANTS
  W,            \* address width in bits (32 in the code)
  Routes,       \* the (destination, prefix length, next hop) triples used
  Sources,      \* the source addresses the transport routes from
  RedirectHops, \* next hops that ICMP redirects may install
  RouteIds,     \* memory for IP4_ROUTE_ENTRYs
  CacheIds,     \* memory for IP4_ROUTE_CACHE_ENTRYs
  HashSize,     \* IP4_ROUTE_CACHE_HASH
  CacheMax,     \* IP4_ROUTE_CACHE_MAX
  MaxOwners,    \* bound on the owners sharing the table
  MaxStamp,     \* bound on the insertions (route and cache) of a run
  MaxRefs,      \* bound on the references one caller set holds on an entry
  NoId,         \* NULL
  LiteralHandout \* TRUE: Ip4Route hands out the cache's own reference

Addr == 0 .. (2^W - 1)

ASSUME ConstantsAssumption ==
  /\ W \in Nat
  /\ Routes \subseteq [dst : Addr, len : 0 .. W, nh : Addr]
  /\ Sources \subseteq Addr /\ RedirectHops \subseteq Addr
  /\ HashSize \in Nat \ {0} /\ CacheMax \in Nat \ {0}
  /\ MaxOwners \in Nat \ {0} /\ MaxStamp \in Nat /\ MaxRefs \in Nat \ {0}
  /\ NoId \notin RouteIds \cup CacheIds
  /\ LiteralHandout \in BOOLEAN

VARIABLES
  tblRef,       \* IP4_ROUTE_TABLE.RefCnt; 0: no table
  rLive,        \* route entries linked in the table's RouteArea
  rInfo,        \* rInfo[i]: the triple of route entry i
  rStamp,       \* insertion stamp of route entry i (larger: nearer the head)
  cLive,        \* allocated cache entries
  cInfo,        \* cInfo[c]: [dst, src, nh, tag] of cache entry c
  cStamp,       \* insertion stamp of cache entry c
  cRef,         \* IP4_ROUTE_CACHE_ENTRY.RefCnt
  inCache,      \* cache entries linked in a CacheBucket
  held,         \* held[c]: references to c the callers own
  redirected,   \* cache entries whose next hop a redirect overwrote
  clock,        \* the next insertion stamp
  last          \* [op, status, entry] of the last call

tableVars == <<tblRef, rLive, rInfo, rStamp>>
cacheVars == <<cLive, cInfo, cStamp, cRef, inCache, held, redirected>>
vars == <<tableVars, cacheVars, clock, last>>

CacheRecs == [dst : Addr, src : Sources, nh : Addr, tag : RouteIds]

\* Block contents of memory that is not allocated.
NoRoute == [dst |-> 0, len |-> 0, nh |-> 0]
NoCache == [dst |-> 0, src |-> 0, nh |-> 0, tag |-> NoId]

-----------------------------------------------------------------------------
(***************************************************************************)
(* Addresses, the hash and the longest-prefix match.                       *)
(***************************************************************************)

\* Dst AND Netmask for the contiguous mask of prefix length len.
Net(d, len) == (d \div 2^(W - len)) * 2^(W - len)

\* The entry's network covers d: (d AND entry.netmask) == entry.destination.
Covers(r, d) == Net(d, r.len) = r.dst

\* IP4_DIRECT_ROUTE: the next hop of a connected network is the packet's
\* destination itself.
EffNextHop(r, d) == IF r.nh = r.dst THEN d ELSE r.nh

\* Dst ^ Src on W bits.
BitXor(a, b) ==
  LET x[k \in 0 .. W] ==
        IF k = 0 THEN 0
        ELSE x[k - 1] + ((a \div 2^(k - 1) + b \div 2^(k - 1)) % 2) * 2^(k - 1)
  IN  x[W]

\* IP4_ROUTE_CACHE_HASH (Dst, Src).
CacheHash(d, s) == BitXor(d, s) % HashSize

\* RouteArea[l]: the live route entries of prefix length l.
Area(l) == {i \in rLive : rInfo[i].len = l}

\* The walk of RouteArea[l] from its head for destination d.  Entries are
\* inserted at the head, so the walk meets them by decreasing insertion
\* stamp; it returns the first whose network covers d, NoId at the end.
AreaWalk(l, d) ==
  LET at(t) == {i \in Area(l) : rStamp[i] = t /\ Covers(rInfo[i], d)}
      walk[t \in -1 .. MaxStamp] ==
        IF t < 0 THEN NoId
        ELSE IF at(t) # {} THEN CHOOSE i \in at(t) : TRUE
        ELSE walk[t - 1]
  IN  walk[MaxStamp]

\* The loop over the buckets from index top down to 0, stopping at the
\* first bucket whose walk finds an entry.
ScanFrom(top, d) ==
  LET scan[l \in -1 .. W] ==
        IF l < 0 THEN NoId
        ELSE IF AreaWalk(l, d) # NoId THEN AreaWalk(l, d)
        ELSE scan[l - 1]
  IN  scan[top]

\* (Mutant: the scan starts one bucket below the host routes.)
LpmScanBelowMax(d) == ScanFrom(W - 1, d)

\* The resolver's scan: from prefix length W (IP4_MASK_MAX) down to 0.
LpmScan(d) == ScanFrom(W, d)

-----------------------------------------------------------------------------
(***************************************************************************)
(* The table.                                                              *)
(***************************************************************************)

\* Ip4CreateRouteTable: fails only when the pool is exhausted.
Ip4CreateRouteTable ==
  /\ tblRef = 0
  /\ \/ tblRef' = 1 /\ last' = [op |-> "Create", status |-> "Success", entry |-> NoId]
     \/ UNCHANGED tblRef /\ last' = [op |-> "Create", status |-> "OutOfResources", entry |-> NoId]
  /\ UNCHANGED <<rLive, rInfo, rStamp, cacheVars, clock>>

\* Another owner takes a reference on the table.
ShareTable ==
  /\ tblRef \in 1 .. (MaxOwners - 1)
  /\ tblRef' = tblRef + 1
  /\ last' = [op |-> "Share", status |-> "Success", entry |-> NoId]
  /\ UNCHANGED <<rLive, rInfo, rStamp, cacheVars, clock>>

\* Release the table's reference of each cache entry in S: the entry is
\* unlinked, and freed when that was its last reference.
ReleaseLinked(S) ==
  /\ inCache' = inCache \ S
  /\ cRef'    = [c \in CacheIds |-> IF c \in S THEN cRef[c] - 1 ELSE cRef[c]]
  /\ cLive'   = cLive \ {c \in S : cRef[c] = 1}
  /\ cInfo'   = [c \in CacheIds |-> IF c \in S /\ cRef[c] = 1 THEN NoCache
                                    ELSE cInfo[c]]
  /\ redirected' = redirected \ {c \in S : cRef[c] = 1}

\* (Mutant: the last release leaves the route entries linked.)
Ip4FreeRouteTableKeepRoutes ==
  /\ tblRef >= 1
  /\ tblRef' = tblRef - 1
  /\ IF tblRef = 1 THEN ReleaseLinked(inCache)
     ELSE UNCHANGED <<cLive, cInfo, cRef, inCache, redirected>>
  /\ last' = [op |-> "Free", status |-> "Success", entry |-> NoId]
  /\ UNCHANGED <<rLive, rInfo, rStamp, cStamp, held, clock>>

\* Ip4FreeRouteTable: drop one reference; the last one frees every route
\* entry and releases every cache entry.
Ip4FreeRouteTable ==
  /\ tblRef >= 1
  /\ tblRef' = tblRef - 1
  /\ IF tblRef = 1
     THEN /\ rLive' = {}
          /\ rInfo' = [i \in RouteIds |-> NoRoute]
          /\ ReleaseLinked(inCache)
     ELSE UNCHANGED <<rLive, rInfo, cLive, cInfo, cRef, inCache, redirected>>
  /\ last' = [op |-> "Free", status |-> "Success", entry |-> NoId]
  /\ UNCHANGED <<rStamp, cStamp, held, clock>>

\* (Mutant: the duplicate check is missing.)
Ip4AddRouteNoDupCheck(r) ==
  /\ tblRef >= 1
  /\ clock < MaxStamp
  /\ \E i \in RouteIds \ rLive :
       /\ rLive'  = rLive \cup {i}
       /\ rInfo'  = [rInfo EXCEPT ![i] = r]
       /\ rStamp' = [rStamp EXCEPT ![i] = clock]
       /\ last' = [op |-> "Add", status |-> "Success", entry |-> i]
  /\ clock' = clock + 1
  /\ UNCHANGED <<tblRef, cacheVars>>

\* Ip4AddRoute: reject a duplicate triple, otherwise link a new entry at
\* the head of its bucket; the cache is left alone.
Ip4AddRoute(r) ==
  /\ tblRef >= 1
  /\ \/ /\ \E i \in rLive : rInfo[i] = r
        /\ last' = [op |-> "Add", status |-> "AccessDenied", entry |-> NoId]
        /\ UNCHANGED <<rLive, rInfo, rStamp, clock>>
     \/ /\ \A i \in rLive : rInfo[i] # r
        /\ last' = [op |-> "Add", status |-> "OutOfResources", entry |-> NoId]
        /\ UNCHANGED <<rLive, rInfo, rStamp, clock>>
     \/ /\ \A i \in rLive : rInfo[i] # r
        /\ clock < MaxStamp
        /\ \E i \in RouteIds \ rLive :
             /\ rLive'  = rLive \cup {i}
             /\ rInfo'  = [rInfo EXCEPT ![i] = r]
             /\ rStamp' = [rStamp EXCEPT ![i] = clock]
             /\ last' = [op |-> "Add", status |-> "Success", entry |-> i]
        /\ clock' = clock + 1
  /\ UNCHANGED <<tblRef, cacheVars>>

\* (Mutant: the cache is not invalidated.)
TaggedNone(i) == {}

\* The cache entries spawned from route entry i.
Tagged(i) == {c \in inCache : cInfo[c].tag = i}

\* Ip4DelRoute: unlink the entry with that triple, release every cache
\* entry tagged with it, and free it.
Ip4DelRoute(r) ==
  /\ tblRef >= 1
  /\ \/ /\ \A i \in rLive : rInfo[i] # r
        /\ last' = [op |-> "Del", status |-> "NotFound", entry |-> NoId]
        /\ UNCHANGED <<rLive, rInfo, cLive, cInfo, cRef, inCache, redirected>>
     \/ \E i \in rLive :
          /\ rInfo[i] = r
          /\ rLive' = rLive \ {i}
          /\ rInfo' = [rInfo EXCEPT ![i] = NoRoute]
          /\ ReleaseLinked(Tagged(i))
          /\ last' = [op |-> "Del", status |-> "Success", entry |-> i]
  /\ UNCHANGED <<tblRef, rStamp, cStamp, held, clock>>

-----------------------------------------------------------------------------
(***************************************************************************)
(* The cache and the resolver.                                             *)
(***************************************************************************)

\* The linked cache entry for (d, s), found by scanning its hash bucket.
CacheLookup(d, s) ==
  {c \in inCache : CacheHash(cInfo[c].dst, cInfo[c].src) = CacheHash(d, s)
                   /\ cInfo[c].dst = d /\ cInfo[c].src = s}

\* A caller takes a reference on cache entry c.
HandOut(c) ==
  /\ held[c] < MaxRefs
  /\ cRef' = [cRef EXCEPT ![c] = @ + 1]
  /\ held' = [held EXCEPT ![c] = @ + 1]

\* Ip4FindRouteCache: the entry for (d, s), with a reference for the caller.
Ip4FindRouteCache(d, s) ==
  /\ tblRef >= 1
  /\ \/ /\ CacheLookup(d, s) = {}
        /\ last' = [op |-> "Find", status |-> "NotFound", entry |-> NoId]
        /\ UNCHANGED cacheVars
     \/ \E c \in CacheLookup(d, s) :
          /\ HandOut(c)
          /\ last' = [op |-> "Find", status |-> "Success", entry |-> c]
          /\ UNCHANGED <<cLive, cInfo, cStamp, inCache, redirected>>
  /\ UNCHANGED <<tableVars, clock>>

\* The entries of the hash bucket h.
Bucket(h) == {c \in inCache : CacheHash(cInfo[c].dst, cInfo[c].src) = h}

\* The least recently inserted entries of S (one: stamps are distinct).
Oldest(S) == {c \in S : \A x \in S : cStamp[c] <= cStamp[x]}

\* (Mutant: the bucket is not bounded.)
EvictedNone(d, s) == {}

\* The entries evicted to make room in the bucket of (d, s).
Evicted(d, s) ==
  IF Cardinality(Bucket(CacheHash(d, s))) >= CacheMax
  THEN Oldest(Bucket(CacheHash(d, s))) ELSE {}

\* (Mutant: the caller gets the cache's own reference.)
FreshRefsShared == 1

\* References a freshly inserted entry has: the cache's own, plus the
\* caller's unless Ip4Route hands out the cache's own.
FreshRefs == IF LiteralHandout THEN 1 ELSE 2

\* Ip4Route on a miss: the route entry m resolves d; a new cache entry c,
\* tagged with m, is linked at the head of its bucket (a full bucket first
\* releases its oldest entry) and returned to the caller.
InsertResolved(d, s, m) ==
  \E c \in CacheIds \ cLive :
    LET ev == Evicted(d, s) IN
    /\ inCache' = (inCache \ ev) \cup {c}
    /\ cRef'    = [x \in CacheIds |-> IF x = c THEN FreshRefs
                                      ELSE IF x \in ev THEN cRef[x] - 1
                                      ELSE cRef[x]]
    /\ cLive'   = (cLive \ {x \in ev : cRef[x] = 1}) \cup {c}
    /\ cInfo'   = [x \in CacheIds |->
                     IF x = c THEN [dst |-> d, src |-> s,
                                    nh |-> EffNextHop(rInfo[m], d), tag |-> m]
                     ELSE IF x \in ev /\ cRef[x] = 1 THEN NoCache
                     ELSE cInfo[x]]
    /\ cStamp'  = [cStamp EXCEPT ![c] = clock]
    /\ held'    = [held EXCEPT ![c] = 1]
    /\ redirected' = redirected \ ({c} \cup {x \in ev : cRef[x] = 1})
    /\ last' = [op |-> "Route", status |-> "Success", entry |-> c]

\* Ip4Route (RtTable, Dest, Src).
Ip4Route(d, s) ==
  /\ tblRef >= 1
  /\ \/ \E c \in CacheLookup(d, s) :
          /\ HandOut(c)
          /\ last' = [op |-> "Route", status |-> "Success", entry |-> c]
          /\ UNCHANGED <<cLive, cInfo, cStamp, inCache, redirected, clock>>
     \/ /\ CacheLookup(d, s) = {}
        /\ LpmScan(d) = NoId
        /\ last' = [op |-> "Route", status |-> "Unreachable", entry |-> NoId]
        /\ UNCHANGED <<cacheVars, clock>>
     \/ /\ CacheLookup(d, s) = {}
        /\ LpmScan(d) # NoId
        /\ last' = [op |-> "Route", status |-> "OutOfResources", entry |-> NoId]
        /\ UNCHANGED <<cacheVars, clock>>
     \/ /\ CacheLookup(d, s) = {}
        /\ clock < MaxStamp
        /\ \E m \in rLive : m = LpmScan(d) /\ InsertResolved(d, s, m)
        /\ clock' = clock + 1
  /\ UNCHANGED tableVars

\* The ICMP redirect path: a caller holding entry c (from
\* Ip4FindRouteCache) overwrites its next hop in place.
IcmpRedirect(c, nh) ==
  /\ held[c] >= 1
  /\ cInfo' = [cInfo EXCEPT ![c].nh = nh]
  /\ redirected' = redirected \cup {c}
  /\ last' = [op |-> "Redirect", status |-> "Success", entry |-> c]
  /\ UNCHANGED <<tableVars, cLive, cStamp, cRef, inCache, held, clock>>

\* (Mutant: a caller releases an entry it does not hold.)
Ip4FreeRouteCacheEntryUnheld(c) ==
  /\ c \in cLive
  /\ held' = [held EXCEPT ![c] = @ - 1]
  /\ cRef' = [cRef EXCEPT ![c] = @ - 1]
  /\ IF cRef[c] = 1
     THEN /\ cLive' = cLive \ {c}
          /\ cInfo' = [cInfo EXCEPT ![c] = NoCache]
          /\ redirected' = redirected \ {c}
     ELSE UNCHANGED <<cLive, cInfo, redirected>>
  /\ last' = [op |-> "Release", status |-> "Success", entry |-> c]
  /\ UNCHANGED <<tableVars, cStamp, inCache, clock>>

\* Ip4FreeRouteCacheEntry by a caller: drop its reference, free the entry
\* on the last one.
Ip4FreeRouteCacheEntry(c) ==
  /\ held[c] >= 1
  /\ held' = [held EXCEPT ![c] = @ - 1]
  /\ cRef' = [cRef EXCEPT ![c] = @ - 1]
  /\ IF cRef[c] = 1
     THEN /\ cLive' = cLive \ {c}
          /\ cInfo' = [cInfo EXCEPT ![c] = NoCache]
          /\ redirected' = redirected \ {c}
     ELSE UNCHANGED <<cLive, cInfo, redirected>>
  /\ last' = [op |-> "Release", status |-> "Success", entry |-> c]
  /\ UNCHANGED <<tableVars, cStamp, inCache, clock>>

-----------------------------------------------------------------------------
Init ==
  /\ tblRef = 0
  /\ rLive = {} /\ rInfo = [i \in RouteIds |-> NoRoute]
  /\ rStamp = [i \in RouteIds |-> 0]
  /\ cLive = {} /\ cInfo = [c \in CacheIds |-> NoCache]
  /\ cStamp = [c \in CacheIds |-> 0]
  /\ cRef = [c \in CacheIds |-> 0]
  /\ inCache = {} /\ held = [c \in CacheIds |-> 0]
  /\ redirected = {}
  /\ clock = 0
  /\ last = [op |-> "None", status |-> "Success", entry |-> NoId]

Next ==
  \/ Ip4CreateRouteTable
  \/ ShareTable
  \/ Ip4FreeRouteTable
  \/ \E r \in Routes : Ip4AddRoute(r) \/ Ip4DelRoute(r)
  \/ \E d \in Addr, s \in Sources : Ip4FindRouteCache(d, s) \/ Ip4Route(d, s)
  \/ \E c \in CacheIds, nh \in RedirectHops : IcmpRedirect(c, nh)
  \/ \E c \in CacheIds : Ip4FreeRouteCacheEntry(c)

Spec == Init /\ [][Next]_vars

\* The triples in the table.
RouteSet == {rInfo[i] : i \in rLive}

Abs == INSTANCE Ip4RouteTable WITH owners <- tblRef, table <- RouteSet

-----------------------------------------------------------------------------
(***************************************************************************)
(* Properties.                                                             *)
(***************************************************************************)

\* The route entries and the cache entries hold values of their types, and
\* the reference counts are natural numbers.
TypeOK ==
  /\ tblRef \in 0 .. MaxOwners
  /\ rLive \subseteq RouteIds
  /\ rInfo \in [RouteIds -> Routes \cup {NoRoute}]
  /\ rStamp \in [RouteIds -> 0 .. MaxStamp]
  /\ cLive \subseteq CacheIds
  /\ cInfo \in [CacheIds -> CacheRecs \cup {NoCache}]
  /\ cStamp \in [CacheIds -> 0 .. MaxStamp]
  /\ cRef \in [CacheIds -> Nat]
  /\ inCache \subseteq CacheIds
  /\ held \in [CacheIds -> 0 .. MaxRefs]
  /\ redirected \subseteq CacheIds
  /\ clock \in 0 .. MaxStamp

\* No cache entry is linked in a bucket, or held by a caller, after its
\* memory was freed (a later allocation would reuse it under them).
CacheEntriesAllocated ==
  /\ inCache \subseteq cLive
  /\ \A c \in CacheIds : held[c] > 0 => c \in cLive

\* The reference count of every allocated cache entry is the cache's own
\* reference (while it is linked in a bucket) plus those its callers hold;
\* no entry is linked, or held, after it is freed.  This is what the
\* release paths of eviction, Ip4DelRoute, Ip4FreeRouteTable and
\* Ip4FreeRouteCacheEntry have to keep between them.
CacheRefCounts ==
  /\ CacheEntriesAllocated
  /\ \A c \in cLive :
       cRef[c] = (IF c \in inCache THEN 1 ELSE 0) + held[c] /\ cRef[c] >= 1

\* Every linked cache entry is tagged with a route entry still in the
\* table and, unless a redirect overwrote it, carries that route's next
\* hop: Ip4DelRoute leaves no cache entry of a deleted route, even when the
\* route's memory is reused by a later Ip4AddRoute.
CacheConsistent ==
  \A c \in inCache :
    /\ cInfo[c].tag \in rLive
    /\ c \notin redirected =>
         cInfo[c].nh = EffNextHop(rInfo[cInfo[c].tag], cInfo[c].dst)

\* No hash bucket holds more than IP4_ROUTE_CACHE_MAX entries, and no two
\* linked entries are for the same (destination, source) pair.
CacheBounded ==
  /\ \A h \in 0 .. (HashSize - 1) : Cardinality(Bucket(h)) <= CacheMax
  /\ \A c, x \in inCache :
       cInfo[c].dst = cInfo[x].dst /\ cInfo[c].src = cInfo[x].src => c = x

\* The longest-prefix match by definition: among the live routes covering
\* d, one of the longest prefix, the newest among those.
LongestMatch(d) ==
  LET M == {i \in rLive : Covers(rInfo[i], d)}
  IN  IF M = {} THEN NoId
      ELSE CHOOSE i \in M :
             \A j \in M : \/ rInfo[j].len < rInfo[i].len
                          \/ rInfo[j].len = rInfo[i].len /\ rStamp[j] <= rStamp[i]

\* The resolver's two nested loops (buckets from the longest prefix down,
\* each walked from its head) find the longest-prefix match for every
\* destination, whatever order the routes were added and deleted in.
LongestPrefixMatch == \A d \in Addr : LpmScan(d) = LongestMatch(d)

\* The table implements Ip4RouteTable: every step of the table, the cache
\* and the resolver either leaves the set of routes and the owner count as
\* they are or is an abstract create, share, free, add or delete.  In
\* particular Ip4AddRoute never links a second entry with the same triple,
\* so Ip4DelRoute of a triple removes it from the table.
RouteTableRefinement == Abs!AbsSpec

\* spec.md, section 8: the next hop Ip4Route returns is the one of the
\* route with the longest prefix covering the destination, regardless of
\* the order the routes were added in (an entry a redirect updated aside).
RouteReturnsLongestPrefix ==
  [][ last'.op = "Route" /\ last'.entry # NoId /\ last'.entry \notin redirected'
      => LET c == last'.entry IN
         /\ LongestMatch(cInfo'[c].dst) # NoId
         /\ cInfo'[c].nh = EffNextHop(rInfo[LongestMatch(cInfo'[c].dst)],
                                      cInfo'[c].dst) ]_vars


=============================================================================
