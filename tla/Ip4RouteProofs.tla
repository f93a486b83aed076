--------------------------- MODULE Ip4RouteProofs ---------------------------
(***************************************************************************)
(* Proofs about the route table of Ip4Route, for every address width and  *)
(* every set of routes, sources and memory blocks.                         *)
(***************************************************************************)
EXTENDS Ip4Route, FiniteSetTheorems, TLAPS

USE ConstantsAssumption

(***************************************************************************)
(* The table invariant: route entries are memory blocks holding triples,  *)
(* and no two live entries hold the same triple.                           *)
(***************************************************************************)
RouteUnique == \A i, j \in rLive : i # j => rInfo[i] # rInfo[j]

TabInv ==
  /\ rLive \subseteq RouteIds
  /\ rInfo \in [RouteIds -> Routes \cup {NoRoute}]
  /\ RouteUnique

\* The cache and resolver operations leave the table alone.
LEMMA CacheStepsKeepTable ==
  ASSUME [Next]_vars,
         ~ Ip4CreateRouteTable, ~ ShareTable, ~ Ip4FreeRouteTable,
         ~ \E r \in Routes : Ip4AddRoute(r) \/ Ip4DelRoute(r)
  PROVE  UNCHANGED tableVars
<1>1. CASE \E d \in Addr, s \in Sources : Ip4FindRouteCache(d, s) \/ Ip4Route(d, s)
  BY <1>1 DEF Ip4FindRouteCache, Ip4Route
<1>2. CASE \E c \in CacheIds, nh \in RedirectHops : IcmpRedirect(c, nh)
  BY <1>2 DEF IcmpRedirect
<1>3. CASE \E c \in CacheIds : Ip4FreeRouteCacheEntry(c)
  BY <1>3 DEF Ip4FreeRouteCacheEntry
<1>4. CASE UNCHANGED vars
  BY <1>4 DEF vars
<1>. QED  BY <1>1, <1>2, <1>3, <1>4 DEF Next

\* Every step keeps the table invariant: Ip4AddRoute never links a second
\* entry with a triple already in the table.
LEMMA TabInvStep == TabInv /\ [Next]_vars => TabInv'
<1> SUFFICES ASSUME TabInv, [Next]_vars PROVE TabInv'
  OBVIOUS
<1> USE DEF TabInv, RouteUnique
<1>1. CASE Ip4CreateRouteTable
  BY <1>1 DEF Ip4CreateRouteTable
<1>2. CASE ShareTable
  BY <1>2 DEF ShareTable
<1>3. CASE Ip4FreeRouteTable
  BY <1>3 DEF Ip4FreeRouteTable
<1>4. ASSUME NEW r \in Routes, Ip4AddRoute(r) PROVE TabInv'
  BY <1>4 DEF Ip4AddRoute
<1>5. ASSUME NEW r \in Routes, Ip4DelRoute(r) PROVE TabInv'
  BY <1>5 DEF Ip4DelRoute
<1>6. CASE ~ Ip4CreateRouteTable /\ ~ ShareTable /\ ~ Ip4FreeRouteTable
           /\ ~ \E r \in Routes : Ip4AddRoute(r) \/ Ip4DelRoute(r)
  BY <1>6, CacheStepsKeepTable DEF tableVars
<1>. QED  BY <1>1, <1>2, <1>3, <1>4, <1>5, <1>6

\* Ip4AddRoute never links a second entry with a triple already in the
\* table, so the table invariant holds in every reachable state.
THEOREM TableInvariant == Spec => []TabInv
<1>1. Init => TabInv
  BY DEF Init, TabInv, RouteUnique
<1>. QED  BY <1>1, TabInvStep, PTL DEF Spec

\* The refinement: the route table, with its cache, its memory and its
\* resolver, implements the abstract reference-counted set of routes
\* Ip4RouteTable under owners <- tblRef, table <- RouteSet.
THEOREM Refinement == Spec => RouteTableRefinement
<1>1. Init => Abs!AbsInit
  BY DEF Init, Abs!AbsInit, RouteSet
<1>2. TabInv /\ [Next]_vars => [Abs!AbsNext]_<<tblRef, RouteSet>>
  <2> SUFFICES ASSUME TabInv, [Next]_vars
               PROVE  [Abs!AbsNext]_<<tblRef, RouteSet>>
    OBVIOUS
  <2> USE DEF TabInv, RouteUnique
  <2>1. CASE Ip4CreateRouteTable
    <3>1. CASE tblRef' = 1
      BY <2>1, <3>1 DEF Ip4CreateRouteTable, Abs!AbsNext, Abs!AbsCreate, RouteSet
    <3>2. CASE tblRef' # 1
      BY <2>1, <3>2 DEF Ip4CreateRouteTable, RouteSet
    <3>. QED  BY <3>1, <3>2
  <2>2. CASE ShareTable
    BY <2>2 DEF ShareTable, Abs!AbsNext, Abs!AbsShare, RouteSet
  <2>3. CASE Ip4FreeRouteTable
    <3>1. CASE tblRef = 1
      BY <2>3, <3>1 DEF Ip4FreeRouteTable, Abs!AbsNext, Abs!AbsFree, RouteSet
    <3>2. CASE tblRef # 1
      BY <2>3, <3>2 DEF Ip4FreeRouteTable, Abs!AbsNext, Abs!AbsFree, RouteSet
    <3>. QED  BY <3>1, <3>2
  <2>4. ASSUME NEW r \in Routes, Ip4AddRoute(r)
        PROVE  [Abs!AbsNext]_<<tblRef, RouteSet>>
    <3>1. CASE \E i \in RouteIds \ rLive :
                 /\ rLive'  = rLive \cup {i}
                 /\ rInfo'  = [rInfo EXCEPT ![i] = r]
                 /\ \A j \in rLive : rInfo[j] # r
                 /\ tblRef >= 1 /\ tblRef' = tblRef
      <4>1. PICK i \in RouteIds \ rLive :
                 /\ rLive'  = rLive \cup {i}
                 /\ rInfo'  = [rInfo EXCEPT ![i] = r]
                 /\ \A j \in rLive : rInfo[j] # r
                 /\ tblRef >= 1 /\ tblRef' = tblRef
        BY <3>1
      <4>2. RouteSet' = RouteSet \cup {r}
        BY <4>1 DEF RouteSet
      <4>3. r \notin RouteSet
        BY <4>1 DEF RouteSet
      <4>. QED  BY <4>1, <4>2, <4>3 DEF Abs!AbsNext, Abs!AbsAdd
    <3>2. CASE UNCHANGED <<rLive, rInfo, tblRef>>
      BY <3>2 DEF RouteSet
    <3>. QED  BY <2>4, <3>1, <3>2 DEF Ip4AddRoute
  <2>5. ASSUME NEW r \in Routes, Ip4DelRoute(r)
        PROVE  [Abs!AbsNext]_<<tblRef, RouteSet>>
    <3>1. CASE \E i \in rLive : /\ rInfo[i] = r
                                /\ rLive' = rLive \ {i}
                                /\ rInfo' = [rInfo EXCEPT ![i] = NoRoute]
                                /\ tblRef >= 1 /\ tblRef' = tblRef
      <4>1. PICK i \in rLive : /\ rInfo[i] = r
                               /\ rLive' = rLive \ {i}
                               /\ rInfo' = [rInfo EXCEPT ![i] = NoRoute]
                               /\ tblRef >= 1 /\ tblRef' = tblRef
        BY <3>1
      <4>2. RouteSet' = RouteSet \ {r}
        BY <4>1 DEF RouteSet
      <4>3. r \in RouteSet
        BY <4>1 DEF RouteSet
      <4>. QED  BY <4>1, <4>2, <4>3 DEF Abs!AbsNext, Abs!AbsDel
    <3>2. CASE UNCHANGED <<rLive, rInfo, tblRef>>
      BY <3>2 DEF RouteSet
    <3>. QED  BY <2>5, <3>1, <3>2 DEF Ip4DelRoute
  <2>6. CASE ~ Ip4CreateRouteTable /\ ~ ShareTable /\ ~ Ip4FreeRouteTable
             /\ ~ \E r \in Routes : Ip4AddRoute(r) \/ Ip4DelRoute(r)
    BY <2>6, CacheStepsKeepTable DEF tableVars, RouteSet
  <2>. QED  BY <2>1, <2>2, <2>3, <2>4, <2>5, <2>6
<1>. QED  BY <1>1, <1>2, TableInvariant, PTL
          DEF Spec, RouteTableRefinement, Abs!AbsSpec, Abs!absVars

-----------------------------------------------------------------------------
(***************************************************************************)
(* Reference counts of the cache.  The inductive invariant adds to        *)
(* TypeOK and CacheRefCounts that allocated blocks hold values of their    *)
(* types: the resolver reads the next hop of the live route it matched,    *)
(* and a redirect overwrites a field of a live cache entry.                *)
(***************************************************************************)
CacheInv ==
  /\ cLive \subseteq CacheIds
  /\ cInfo \in [CacheIds -> CacheRecs \cup {NoCache}]
  /\ cRef \in [CacheIds -> Nat]
  /\ inCache \subseteq CacheIds
  /\ held \in [CacheIds -> 0 .. MaxRefs]
  /\ redirected \subseteq CacheIds
  /\ \A c \in cLive : cInfo[c] \in CacheRecs
  /\ CacheRefCounts

OtherInv ==
  /\ tblRef \in 0 .. MaxOwners
  /\ rLive \subseteq RouteIds
  /\ rInfo \in [RouteIds -> Routes \cup {NoRoute}]
  /\ rStamp \in [RouteIds -> 0 .. MaxStamp]
  /\ cStamp \in [CacheIds -> 0 .. MaxStamp]
  /\ clock \in 0 .. MaxStamp
  /\ \A i \in rLive : rInfo[i] \in Routes

RefInv == OtherInv /\ CacheInv

\* Releasing the cache's reference of linked entries keeps the cache
\* invariant: an entry is freed only when no caller holds it.
LEMMA ReleaseLinkedKeeps ==
  ASSUME CacheInv, NEW S, S \subseteq inCache, ReleaseLinked(S), held' = held
  PROVE  CacheInv'
<1> USE DEF CacheInv, CacheRefCounts, CacheEntriesAllocated, ReleaseLinked
<1>1. cRef' \in [CacheIds -> Nat]
  BY SMT
<1>2. \A c \in cLive' : cRef'[c] = (IF c \in inCache' THEN 1 ELSE 0) + held'[c]
                        /\ cRef'[c] >= 1
  BY SMT
<1>3. cInfo' \in [CacheIds -> CacheRecs \cup {NoCache}]
      /\ \A c \in cLive' : cInfo'[c] \in CacheRecs
  BY SMT
<1>4. \A c \in CacheIds : held'[c] > 0 => c \in cLive'
  BY SMT
<1>. QED  BY <1>1, <1>2, <1>3, <1>4

\* The entries a full bucket evicts are linked ones.
LEMMA EvictedLinked ==
  ASSUME NEW d, NEW s PROVE Evicted(d, s) \subseteq inCache
BY DEF Evicted, Oldest, Bucket

\* With Ip4Route giving the caller a reference of its own, every step
\* keeps the cache's reference counts exact.
LEMMA RefInvStep ==
  ASSUME ~LiteralHandout PROVE RefInv /\ [Next]_vars => RefInv'
<1> SUFFICES ASSUME RefInv, [Next]_vars PROVE RefInv'
  OBVIOUS
<1> USE DEF RefInv, OtherInv
<1>1. CASE Ip4CreateRouteTable
  BY <1>1 DEF Ip4CreateRouteTable, cacheVars, CacheInv, CacheRefCounts, CacheEntriesAllocated
<1>2. CASE ShareTable
  BY <1>2 DEF ShareTable, cacheVars, CacheInv, CacheRefCounts, CacheEntriesAllocated
<1>3. CASE Ip4FreeRouteTable
  <2>1. CASE tblRef = 1
    <3>1. CacheInv'
      BY <1>3, <2>1, ReleaseLinkedKeeps DEF Ip4FreeRouteTable
    <3>. QED  BY <1>3, <2>1, <3>1 DEF Ip4FreeRouteTable
  <2>2. CASE tblRef # 1
    BY <1>3, <2>2 DEF Ip4FreeRouteTable, CacheInv, CacheRefCounts, CacheEntriesAllocated
  <2>. QED  BY <2>1, <2>2
<1>4. ASSUME NEW r \in Routes, Ip4AddRoute(r) PROVE RefInv'
  BY <1>4 DEF Ip4AddRoute, cacheVars, CacheInv, CacheRefCounts, CacheEntriesAllocated
<1>5. ASSUME NEW r \in Routes, Ip4DelRoute(r) PROVE RefInv'
  <2>1. CASE \E i \in rLive : /\ rInfo[i] = r
                              /\ rLive' = rLive \ {i}
                              /\ rInfo' = [rInfo EXCEPT ![i] = NoRoute]
                              /\ ReleaseLinked(Tagged(i))
    <3>1. PICK i \in rLive : /\ rInfo[i] = r
                             /\ rLive' = rLive \ {i}
                             /\ rInfo' = [rInfo EXCEPT ![i] = NoRoute]
                             /\ ReleaseLinked(Tagged(i))
      BY <2>1
    <3>2. CacheInv'
      BY <1>5, <3>1, ReleaseLinkedKeeps DEF Ip4DelRoute, Tagged
    <3>. QED  BY <1>5, <3>1, <3>2 DEF Ip4DelRoute
  <2>2. CASE UNCHANGED <<rLive, rInfo, cLive, cInfo, cRef, inCache, redirected>>
    BY <1>5, <2>2 DEF Ip4DelRoute, CacheInv, CacheRefCounts, CacheEntriesAllocated
  <2>. QED  BY <1>5, <2>1, <2>2 DEF Ip4DelRoute
<1>6. ASSUME NEW d \in Addr, NEW s \in Sources, Ip4FindRouteCache(d, s)
      PROVE  RefInv'
  BY <1>6 DEF Ip4FindRouteCache, HandOut, CacheLookup, cacheVars, tableVars,
             CacheInv, CacheRefCounts, CacheEntriesAllocated
<1>7. ASSUME NEW d \in Addr, NEW s \in Sources, Ip4Route(d, s)
      PROVE  RefInv'
  <2>1. CASE \E c \in CacheLookup(d, s) :
               /\ HandOut(c)
               /\ UNCHANGED <<cLive, cInfo, cStamp, inCache, redirected, clock>>
    BY <1>7, <2>1 DEF Ip4Route, HandOut, CacheLookup, tableVars,
                      CacheInv, CacheRefCounts, CacheEntriesAllocated
  <2>2. CASE UNCHANGED <<cacheVars, clock>>
    BY <1>7, <2>2 DEF Ip4Route, cacheVars, tableVars, CacheInv, CacheRefCounts, CacheEntriesAllocated
  <2>3. CASE /\ clock < MaxStamp /\ clock' = clock + 1
             /\ \E m \in rLive : InsertResolved(d, s, m)
    <3>1. PICK m \in rLive : InsertResolved(d, s, m)
      BY <2>3
    <3>2. PICK c \in CacheIds \ cLive :
            LET ev == Evicted(d, s) IN
            /\ inCache' = (inCache \ ev) \cup {c}
            /\ cRef'    = [x \in CacheIds |-> IF x = c THEN FreshRefs
                                              ELSE IF x \in ev THEN cRef[x] - 1
                                              ELSE cRef[x]]
            /\ cLive'   = (cLive \ {x \in ev : cRef[x] = 1}) \cup {c}
            /\ cInfo'   = [x \in CacheIds |->
                             IF x = c THEN [dst |-> d, src |-> s,
                                            nh |-> EffNextHop(rInfo[m], d), tag |-> m]
                             ELSE IF x \in ev /\ cRef[x] = 1 THEN NoCache
                             ELSE cInfo[x]]
            /\ cStamp'  = [cStamp EXCEPT ![c] = clock]
            /\ held'    = [held EXCEPT ![c] = 1]
            /\ redirected' = redirected \ ({c} \cup {x \in ev : cRef[x] = 1})
      BY <3>1 DEF InsertResolved
    <3> DEFINE ev == Evicted(d, s)
    <3>3. ev \subseteq inCache /\ c \notin ev /\ c \notin inCache /\ held[c] = 0
      BY <3>2, EvictedLinked DEF CacheInv, CacheRefCounts, CacheEntriesAllocated
    <3>4. FreshRefs = 2
      BY DEF FreshRefs
    <3>5. [dst |-> d, src |-> s, nh |-> EffNextHop(rInfo[m], d), tag |-> m] \in CacheRecs
      BY DEF CacheRecs, EffNextHop
    <3>6. cRef' \in [CacheIds -> Nat]
      BY <3>2, <3>3, <3>4 DEF CacheInv, CacheRefCounts, CacheEntriesAllocated
    <3>7. \A x \in cLive' : cRef'[x] = (IF x \in inCache' THEN 1 ELSE 0) + held'[x]
                            /\ cRef'[x] >= 1
      BY <3>2, <3>3, <3>4 DEF CacheInv, CacheRefCounts, CacheEntriesAllocated
    <3>8. cInfo' \in [CacheIds -> CacheRecs \cup {NoCache}]
          /\ \A x \in cLive' : cInfo'[x] \in CacheRecs
      BY <3>2, <3>3, <3>5 DEF CacheInv
    <3>9. /\ inCache' \subseteq cLive'
          /\ \A x \in CacheIds : held'[x] > 0 => x \in cLive'
          /\ held' \in [CacheIds -> 0 .. MaxRefs]
      BY <3>2, <3>3 DEF CacheInv, CacheRefCounts, CacheEntriesAllocated
    <3>10. CacheInv'
      BY <3>2, <3>6, <3>7, <3>8, <3>9 DEF CacheInv, CacheRefCounts, CacheEntriesAllocated
    <3>. QED  BY <1>7, <2>3, <3>2, <3>10 DEF Ip4Route, tableVars
  <2>. QED  BY <1>7, <2>1, <2>2, <2>3 DEF Ip4Route
<1>8. ASSUME NEW c \in CacheIds, NEW nh \in RedirectHops, IcmpRedirect(c, nh)
      PROVE  RefInv'
  BY <1>8 DEF IcmpRedirect, tableVars, CacheInv, CacheRefCounts, CacheEntriesAllocated, CacheRecs
<1>9. ASSUME NEW c \in CacheIds, Ip4FreeRouteCacheEntry(c) PROVE RefInv'
  BY <1>9 DEF Ip4FreeRouteCacheEntry, tableVars, CacheInv, CacheRefCounts, CacheEntriesAllocated
<1>10. CASE UNCHANGED vars
  BY <1>10 DEF vars, tableVars, cacheVars, CacheInv, CacheRefCounts, CacheEntriesAllocated
<1>. QED  BY <1>1, <1>2, <1>3, <1>4, <1>5, <1>6, <1>7, <1>8, <1>9, <1>10 DEF Next

\* With Ip4Route giving the caller a reference of its own, the cache's
\* reference counts are exact in every reachable state: eviction,
\* Ip4DelRoute's invalidation, the last Ip4FreeRouteTable and the callers'
\* Ip4FreeRouteCacheEntry free an entry only when no reference is left.
THEOREM RefCountSafety == ~LiteralHandout => (Spec => []CacheRefCounts)
<1> SUFFICES ASSUME ~LiteralHandout PROVE Spec => []CacheRefCounts
  OBVIOUS
<1>1. Init => RefInv
  BY DEF Init, RefInv, OtherInv, CacheInv, CacheRefCounts, CacheEntriesAllocated
<1>2. RefInv /\ [Next]_vars => RefInv'
  BY RefInvStep
<1>3. RefInv => CacheRefCounts
  BY DEF RefInv, CacheInv
<1>. QED  BY <1>1, <1>2, <1>3, PTL DEF Spec

-----------------------------------------------------------------------------
(***************************************************************************)
(* Cache consistency.  Its step needs the reference counts (an entry a    *)
(* caller frees on its last reference is not linked) and the types of    *)
(* live cache entries (a redirect changes only the next hop); a new entry  *)
(* is tagged with the live route the scan returned, whichever it is.       *)
(***************************************************************************)
LEMMA ConsistentStep ==
  RefInv /\ CacheConsistent /\ [Next]_vars => CacheConsistent'
<1> SUFFICES ASSUME RefInv, CacheConsistent, [Next]_vars
             PROVE  CacheConsistent'
  OBVIOUS
<1> USE DEF RefInv, OtherInv, CacheInv
<1> DEFINE Good(c) ==
      /\ cInfo[c].tag \in rLive
      /\ c \notin redirected =>
           cInfo[c].nh = EffNextHop(rInfo[cInfo[c].tag], cInfo[c].dst)
<1>a. \A c \in inCache : Good(c)
  BY DEF CacheConsistent
\* A step that keeps the linked entries' records, only drops linked
\* entries and redirect marks of entries it unlinks, and keeps the triple
\* of every route a linked entry is tagged with.
<1> DEFINE Kept ==
      /\ inCache' \subseteq inCache
      /\ \A c \in inCache' : /\ cInfo'[c] = cInfo[c]
                             /\ c \in redirected' <=> c \in redirected
                             /\ cInfo[c].tag \in rLive'
                             /\ rInfo'[cInfo[c].tag] = rInfo[cInfo[c].tag]
<1>b. Kept => CacheConsistent'
  BY <1>a DEF CacheConsistent
\* Kept holds when the table's routes and the linked entries stay as they are.
<1>c. UNCHANGED <<rLive, rInfo, cInfo, inCache, redirected>> => Kept
  BY <1>a
<1>1. CASE Ip4CreateRouteTable
  BY <1>1, <1>b, <1>c DEF Ip4CreateRouteTable, cacheVars
<1>2. CASE ShareTable
  BY <1>2, <1>b, <1>c DEF ShareTable, cacheVars
<1>3. CASE Ip4FreeRouteTable
  <2>1. CASE tblRef = 1
    BY <1>3, <2>1 DEF Ip4FreeRouteTable, ReleaseLinked, CacheConsistent
  <2>2. CASE tblRef # 1
    BY <1>3, <2>2, <1>b, <1>c DEF Ip4FreeRouteTable
  <2>. QED  BY <2>1, <2>2
<1>4. ASSUME NEW r \in Routes, Ip4AddRoute(r) PROVE CacheConsistent'
  <2>1. \A c \in inCache : cInfo[c].tag \in rLive
    BY <1>a
  <2>2. rLive \subseteq rLive' /\ \A i \in rLive : rInfo'[i] = rInfo[i]
    BY <1>4 DEF Ip4AddRoute
  <2>. QED  BY <1>4, <1>b, <2>1, <2>2 DEF Ip4AddRoute, cacheVars
<1>5. ASSUME NEW r \in Routes, Ip4DelRoute(r) PROVE CacheConsistent'
  <2>1. CASE \E i \in rLive : /\ rInfo[i] = r
                              /\ rLive' = rLive \ {i}
                              /\ rInfo' = [rInfo EXCEPT ![i] = NoRoute]
                              /\ ReleaseLinked(Tagged(i))
    <3>1. PICK i \in rLive : /\ rInfo[i] = r
                             /\ rLive' = rLive \ {i}
                             /\ rInfo' = [rInfo EXCEPT ![i] = NoRoute]
                             /\ ReleaseLinked(Tagged(i))
      BY <2>1
    <3>2. inCache' = {c \in inCache : cInfo[c].tag # i}
      BY <3>1 DEF ReleaseLinked, Tagged
    <3>3. \A c \in inCache' : cInfo'[c] = cInfo[c] /\ (c \in redirected' <=> c \in redirected)
      BY <3>1, <3>2 DEF ReleaseLinked, Tagged
    <3>4. \A c \in inCache' : cInfo[c].tag \in rLive' /\ rInfo'[cInfo[c].tag] = rInfo[cInfo[c].tag]
      BY <3>1, <3>2, <1>a
    <3>5. Kept
      BY <3>2, <3>3, <3>4
    <3>. QED  BY <1>b, <3>5
  <2>2. CASE UNCHANGED <<rLive, rInfo, cLive, cInfo, cRef, inCache, redirected>>
    BY <2>2, <1>b, <1>c
  <2>. QED  BY <1>5, <2>1, <2>2 DEF Ip4DelRoute
<1>6. ASSUME NEW d \in Addr, NEW s \in Sources, Ip4FindRouteCache(d, s)
      PROVE  CacheConsistent'
  BY <1>6, <1>b, <1>c DEF Ip4FindRouteCache, tableVars, cacheVars
<1>7. ASSUME NEW d \in Addr, NEW s \in Sources, Ip4Route(d, s)
      PROVE  CacheConsistent'
  <2>1. CASE UNCHANGED <<cInfo, inCache, redirected>>
    BY <1>7, <2>1, <1>b, <1>c DEF Ip4Route, tableVars
  <2>2. CASE \E m \in rLive : m = LpmScan(d) /\ InsertResolved(d, s, m)
    <3>1. PICK m \in rLive : m = LpmScan(d) /\ InsertResolved(d, s, m)
      BY <2>2
    <3>3. PICK c \in CacheIds \ cLive :
            LET ev == Evicted(d, s) IN
            /\ inCache' = (inCache \ ev) \cup {c}
            /\ cInfo'   = [x \in CacheIds |->
                             IF x = c THEN [dst |-> d, src |-> s,
                                            nh |-> EffNextHop(rInfo[m], d), tag |-> m]
                             ELSE IF x \in ev /\ cRef[x] = 1 THEN NoCache
                             ELSE cInfo[x]]
            /\ redirected' = redirected \ ({c} \cup {x \in ev : cRef[x] = 1})
      BY <3>1 DEF InsertResolved
    <3>4. UNCHANGED <<rLive, rInfo>>
      BY <1>7 DEF Ip4Route, tableVars
    <3>5. c \notin inCache
      BY <3>3 DEF CacheRefCounts, CacheEntriesAllocated
    <3>6. Good(c)'
      BY <3>1, <3>3, <3>4
    <3>7. \A x \in inCache' \ {c} : Good(x)'
      BY <3>3, <3>4, <3>5, <1>a
    <3>. QED  BY <3>6, <3>7 DEF CacheConsistent
  <2>. QED  BY <1>7, <2>1, <2>2 DEF Ip4Route, cacheVars
<1>8. ASSUME NEW c \in CacheIds, NEW nh \in RedirectHops, IcmpRedirect(c, nh)
      PROVE  CacheConsistent'
  <2>1. c \in cLive
    BY <1>8 DEF IcmpRedirect, CacheRefCounts, CacheEntriesAllocated
  <2>2. cInfo[c] \in CacheRecs
    BY <2>1
  <2>3. cInfo'[c].tag = cInfo[c].tag /\ cInfo'[c].dst = cInfo[c].dst
    BY <1>8, <2>2 DEF IcmpRedirect, CacheRecs
  <2>4. \A x \in inCache' \ {c} : Good(x)'
    BY <1>8, <1>a DEF IcmpRedirect, tableVars
  <2>5. c \in inCache' => Good(c)'
    BY <1>8, <1>a, <2>3 DEF IcmpRedirect, tableVars
  <2>. QED  BY <2>4, <2>5 DEF CacheConsistent
<1>9. ASSUME NEW c \in CacheIds, Ip4FreeRouteCacheEntry(c) PROVE CacheConsistent'
  <2>1. cRef[c] = 1 => c \notin inCache
    BY <1>9 DEF Ip4FreeRouteCacheEntry, CacheRefCounts, CacheEntriesAllocated
  <2>2. Kept
    BY <1>9, <2>1, <1>a DEF Ip4FreeRouteCacheEntry, tableVars
  <2>. QED  BY <2>2, <1>b
<1>10. CASE UNCHANGED vars
  BY <1>10, <1>b, <1>c DEF vars, tableVars, cacheVars
<1>. QED  BY <1>1, <1>2, <1>3, <1>4, <1>5, <1>6, <1>7, <1>8, <1>9, <1>10 DEF Next

\* With Ip4Route giving the caller a reference of its own, every linked
\* cache entry is tagged with a live route and, unless a redirect
\* overwrote it, carries that route's next hop
\* (CacheConsistent): Ip4DelRoute leaves no entry of a deleted route.
THEOREM CacheConsistency == ~LiteralHandout => (Spec => []CacheConsistent)
<1> SUFFICES ASSUME ~LiteralHandout PROVE Spec => []CacheConsistent
  OBVIOUS
<1> DEFINE ConsInv == RefInv /\ CacheConsistent
<1>1. Init => ConsInv
  BY DEF Init, RefInv, OtherInv, CacheInv, CacheRefCounts, CacheEntriesAllocated,
         CacheConsistent
<1>2. ConsInv /\ [Next]_vars => ConsInv'
  <2> SUFFICES ASSUME ConsInv, [Next]_vars PROVE ConsInv'
    OBVIOUS
  <2>1. RefInv'
    BY RefInvStep
  <2>2. CacheConsistent'
    BY ConsistentStep
  <2>. QED  BY <2>1, <2>2
<1>. QED  BY <1>1, <1>2, PTL DEF Spec

-----------------------------------------------------------------------------
(***************************************************************************)
(* Bounded buckets.  Eviction removes the oldest entry of a full bucket:  *)
(* for that entry to exist, CacheStampInv keeps the linked entries a      *)
(* finite set, stamped before the clock, every non-empty subset of which  *)
(* has an oldest member.                                                   *)
(***************************************************************************)
HasOldest(T) == \E o \in T : \A x \in T : cStamp[o] <= cStamp[x]

CacheStampInv ==
  /\ IsFiniteSet(inCache)
  /\ \A x \in inCache : cStamp[x] < clock
  /\ \A T \in SUBSET inCache : T # {} => HasOldest(T)

\* A step that only unlinks cache entries, keeps the stamps of the others
\* and does not turn the clock back keeps CacheStampInv.
LEMMA UnlinkKeepsCacheStampInv ==
  ASSUME CacheStampInv, inCache \subseteq CacheIds,
         cStamp \in [CacheIds -> Int], inCache' \subseteq inCache,
         \A x \in inCache' : cStamp'[x] = cStamp[x],
         clock' \in Int, clock \in Int, clock' >= clock
  PROVE  CacheStampInv'
<1>1. IsFiniteSet(inCache')
  BY FS_Subset DEF CacheStampInv
<1>2. \A x \in inCache' : cStamp'[x] < clock'
  BY DEF CacheStampInv, OtherInv
<1>3. ASSUME NEW T \in SUBSET inCache', T # {} PROVE HasOldest(T)'
  BY <1>3 DEF CacheStampInv, HasOldest
<1>. QED  BY <1>1, <1>2, <1>3 DEF CacheStampInv

\* Ip4Route links a fresh entry stamped with the clock: it is the youngest
\* of every set of linked entries it is in.
LEMMA InsertKeepsCacheStampInv ==
  ASSUME CacheStampInv, inCache \subseteq CacheIds,
         NEW c \in CacheIds \ inCache, NEW E,
         inCache' = (inCache \ E) \cup {c},
         cStamp \in [CacheIds -> Int], cStamp' = [cStamp EXCEPT ![c] = clock],
         clock \in Int, clock' = clock + 1
  PROVE  CacheStampInv'
<1>1. IsFiniteSet(inCache')
  BY FS_Difference, FS_AddElement DEF CacheStampInv
<1>2. \A x \in inCache' : cStamp'[x] < clock'
  BY DEF CacheStampInv
<1>3. ASSUME NEW T \in SUBSET inCache', T # {} PROVE HasOldest(T)'
  <2>1. CASE T = {c}
    BY <2>1 DEF HasOldest
  <2>2. CASE T # {c}
    <3>1. T \ {c} \in SUBSET inCache /\ T \ {c} # {}
      BY <1>3, <2>2
    <3>2. PICK o \in T \ {c} : \A x \in T \ {c} : cStamp[o] <= cStamp[x]
      BY <3>1 DEF CacheStampInv, HasOldest
    <3>3. cStamp[o] < clock
      BY <3>1, <3>2 DEF CacheStampInv
    <3>4. \A x \in T : cStamp'[o] <= cStamp'[x]
      BY <1>3, <3>1, <3>2, <3>3
    <3>. QED  BY <3>1, <3>4 DEF HasOldest
  <2>. QED  BY <2>1, <2>2
<1>. QED  BY <1>1, <1>2, <1>3 DEF CacheStampInv

\* Every step keeps CacheStampInv.
LEMMA CacheStampInvStep ==
  RefInv /\ CacheStampInv /\ [Next]_vars => CacheStampInv'
<1> SUFFICES ASSUME RefInv, CacheStampInv, [Next]_vars PROVE CacheStampInv'
  OBVIOUS
<1> USE DEF RefInv, OtherInv
<1> DEFINE Unlinks == /\ inCache' \subseteq inCache
                      /\ \A x \in inCache' : cStamp'[x] = cStamp[x]
                      /\ clock' \in Int /\ clock \in Int /\ clock' >= clock
<1>a. Unlinks => CacheStampInv'
  BY UnlinkKeepsCacheStampInv DEF CacheInv
<1>1. CASE Ip4CreateRouteTable
  BY <1>1, <1>a DEF Ip4CreateRouteTable, cacheVars
<1>2. CASE ShareTable
  BY <1>2, <1>a DEF ShareTable, cacheVars
<1>3. CASE Ip4FreeRouteTable
  BY <1>3, <1>a DEF Ip4FreeRouteTable, ReleaseLinked
<1>4. ASSUME NEW r \in Routes, Ip4AddRoute(r) PROVE CacheStampInv'
  BY <1>4, <1>a DEF Ip4AddRoute, cacheVars
<1>5. ASSUME NEW r \in Routes, Ip4DelRoute(r) PROVE CacheStampInv'
  BY <1>5, <1>a DEF Ip4DelRoute, ReleaseLinked
<1>6. ASSUME NEW d \in Addr, NEW s \in Sources, Ip4FindRouteCache(d, s)
      PROVE  CacheStampInv'
  BY <1>6, <1>a DEF Ip4FindRouteCache, cacheVars
<1>7. ASSUME NEW d \in Addr, NEW s \in Sources, Ip4Route(d, s)
      PROVE  CacheStampInv'
  <2>1. CASE UNCHANGED <<inCache, cStamp, clock>>
    BY <2>1, <1>a
  <2>2. CASE /\ clock' = clock + 1
             /\ \E m \in rLive : InsertResolved(d, s, m)
    <3>1. PICK m \in rLive : InsertResolved(d, s, m)
      BY <2>2
    <3>2. PICK c \in CacheIds \ cLive :
            /\ inCache' = (inCache \ Evicted(d, s)) \cup {c}
            /\ cStamp'  = [cStamp EXCEPT ![c] = clock]
      BY <3>1 DEF InsertResolved
    <3>3. c \notin inCache
      BY <3>2 DEF CacheInv, CacheRefCounts, CacheEntriesAllocated
    <3>4. /\ inCache \subseteq CacheIds
          /\ cStamp \in [CacheIds -> Int]
          /\ clock \in Int
      BY DEF CacheInv
    <3>. QED  BY <2>2, <3>2, <3>3, <3>4, InsertKeepsCacheStampInv, Zenon
  <2>. QED  BY <1>7, <2>1, <2>2 DEF Ip4Route, cacheVars
<1>8. ASSUME NEW c \in CacheIds, NEW nh \in RedirectHops, IcmpRedirect(c, nh)
      PROVE  CacheStampInv'
  BY <1>8, <1>a DEF IcmpRedirect
<1>9. ASSUME NEW c \in CacheIds, Ip4FreeRouteCacheEntry(c) PROVE CacheStampInv'
  BY <1>9, <1>a DEF Ip4FreeRouteCacheEntry
<1>10. CASE UNCHANGED vars
  BY <1>10, <1>a DEF vars, cacheVars
<1>. QED  BY <1>1, <1>2, <1>3, <1>4, <1>5, <1>6, <1>7, <1>8, <1>9, <1>10 DEF Next

\* A step that only unlinks entries and keeps the destination and source
\* of those still linked keeps every bucket bounded and the keys unique.
LEMMA UnlinkKeepsBounded ==
  ASSUME CacheStampInv, CacheBounded, CacheMax \in Nat,
         inCache' \subseteq inCache,
         \A x \in inCache' : /\ cInfo'[x].dst = cInfo[x].dst
                             /\ cInfo'[x].src = cInfo[x].src
  PROVE  CacheBounded'
<1>1. ASSUME NEW h \in 0 .. (HashSize - 1)
      PROVE  Cardinality(Bucket(h)') <= CacheMax
  <2>1. Bucket(h)' \subseteq Bucket(h)
    BY DEF Bucket
  <2>2. IsFiniteSet(Bucket(h))
    BY FS_Subset DEF CacheStampInv, Bucket
  <2>3. /\ IsFiniteSet(Bucket(h)')
        /\ Cardinality(Bucket(h)') <= Cardinality(Bucket(h))
    BY <2>1, <2>2, FS_Subset
  <2>4. Cardinality(Bucket(h)) \in Nat /\ Cardinality(Bucket(h)') \in Nat
    BY <2>2, <2>3, FS_CardinalityType
  <2>. QED  BY <1>1, <2>3, <2>4 DEF CacheBounded
<1>2. \A c, x \in inCache' :
        cInfo'[c].dst = cInfo'[x].dst /\ cInfo'[c].src = cInfo'[x].src => c = x
  BY DEF CacheBounded
<1>. QED  BY <1>1, <1>2 DEF CacheBounded

\* Linking a fresh entry for (d, s), when no linked entry has that key,
\* after evicting the oldest entry of its bucket if the bucket is full,
\* keeps every bucket bounded and the keys unique.
LEMMA InsertKeepsBounded ==
  ASSUME CacheStampInv, CacheBounded, CacheMax \in Nat \ {0},
         NEW d, NEW s, CacheLookup(d, s) = {},
         NEW c, c \notin inCache,
         inCache' = (inCache \ Evicted(d, s)) \cup {c},
         cInfo'[c].dst = d, cInfo'[c].src = s,
         \A x \in inCache \ Evicted(d, s) : cInfo'[x] = cInfo[x]
  PROVE  CacheBounded'
<1> DEFINE h0 == CacheHash(d, s)
           B  == Bucket(h0)
           ev == Evicted(d, s)
<1>1. IsFiniteSet(B)
  BY FS_Subset DEF CacheStampInv, Bucket
<1>2. c \notin B
  BY DEF Bucket
<1>5. Cardinality(B) \in Nat
  BY <1>1, FS_CardinalityType
<1>3. ASSUME NEW h \in 0 .. (HashSize - 1)
      PROVE  Cardinality(Bucket(h)') <= CacheMax
  <2>1. CASE h # h0
    <3>1. Bucket(h)' \subseteq Bucket(h)
      BY <2>1 DEF Bucket
    <3>2. IsFiniteSet(Bucket(h))
      BY FS_Subset DEF CacheStampInv, Bucket
    <3>3. /\ IsFiniteSet(Bucket(h)')
          /\ Cardinality(Bucket(h)') <= Cardinality(Bucket(h))
      BY <3>1, <3>2, FS_Subset
    <3>4. Cardinality(Bucket(h)) \in Nat /\ Cardinality(Bucket(h)') \in Nat
      BY <3>2, <3>3, FS_CardinalityType
    <3>. QED  BY <1>3, <3>3, <3>4 DEF CacheBounded
  <2>2. CASE h = h0
    <3>1. Bucket(h)' \subseteq (B \ ev) \cup {c}
      BY <2>2 DEF Bucket
    <3>2. Cardinality(B) <= CacheMax
      BY <1>3, <2>2 DEF CacheBounded
    <3>3. /\ IsFiniteSet(B \ ev)
          /\ Cardinality(B \ ev) + 1 <= CacheMax
      <4>1. CASE Cardinality(B) < CacheMax
        <5>1. ev = {}
          BY <4>1, <1>5 DEF Evicted
        <5>. QED  BY <1>1, <4>1, <5>1, FS_CardinalityType
      <4>2. CASE Cardinality(B) >= CacheMax
        <5>1. ev = Oldest(B)
          BY <4>2 DEF Evicted
        <5>2. B # {}
          BY <1>1, <4>2, FS_EmptySet
        <5>3. PICK o \in B : \A x \in B : cStamp[o] <= cStamp[x]
          BY <5>2 DEF CacheStampInv, HasOldest, Bucket
        <5>4. B \ ev \subseteq B \ {o}
          BY <5>1, <5>3 DEF Oldest
        <5>5. IsFiniteSet(B \ {o}) /\ Cardinality(B \ {o}) = Cardinality(B) - 1
          BY <1>1, FS_RemoveElement
        <5>6. IsFiniteSet(B \ ev) /\ Cardinality(B \ ev) <= Cardinality(B \ {o})
          BY <5>4, <5>5, FS_Subset
        <5>. QED  BY <1>1, <3>2, <5>5, <5>6, FS_CardinalityType
      <4>. QED  BY <4>1, <4>2, <1>1, FS_CardinalityType
    <3>4. IsFiniteSet((B \ ev) \cup {c})
          /\ Cardinality((B \ ev) \cup {c}) = Cardinality(B \ ev) + 1
      <4>1. c \notin B \ ev
        BY <1>2
      <4>. QED  BY <3>3, <4>1, FS_AddElement
    <3>5. IsFiniteSet(Bucket(h)')
          /\ Cardinality(Bucket(h)') <= Cardinality((B \ ev) \cup {c})
      BY <3>1, <3>4, FS_Subset
    <3>6. /\ Cardinality(Bucket(h)') \in Nat
          /\ Cardinality((B \ ev) \cup {c}) \in Nat
          /\ Cardinality(B \ ev) \in Nat
      BY <3>3, <3>4, <3>5, FS_CardinalityType
    <3>. QED  BY <3>3, <3>4, <3>5, <3>6
  <2>. QED  BY <2>1, <2>2
<1>4. ASSUME NEW x \in inCache', NEW y \in inCache',
             cInfo'[x].dst = cInfo'[y].dst, cInfo'[x].src = cInfo'[y].src
      PROVE  x = y
  <2>1. ASSUME NEW z \in inCache \ ev, cInfo'[z].dst = d, cInfo'[z].src = s
        PROVE  FALSE
    BY <2>1 DEF CacheLookup
  <2>2. CASE x = c /\ y = c
    BY <2>2
  <2>3. CASE x = c /\ y # c
    BY <1>4, <2>1, <2>3
  <2>4. CASE x # c /\ y = c
    BY <1>4, <2>1, <2>4
  <2>5. CASE x # c /\ y # c
    BY <1>4, <2>5 DEF CacheBounded
  <2>. QED  BY <2>2, <2>3, <2>4, <2>5
<1>. QED  BY <1>3, <1>4 DEF CacheBounded

\* Every step keeps the buckets bounded and the keys unique.
LEMMA BoundedStep ==
  RefInv /\ CacheStampInv /\ CacheBounded /\ [Next]_vars => CacheBounded'
<1> SUFFICES ASSUME RefInv, CacheStampInv, CacheBounded, [Next]_vars
             PROVE  CacheBounded'
  OBVIOUS
<1> USE DEF RefInv
<1>0. CacheMax \in Nat \ {0}
  BY DEF ConstantsAssumption
<1> DEFINE Kept == /\ inCache' \subseteq inCache
                   /\ \A x \in inCache' : /\ cInfo'[x].dst = cInfo[x].dst
                                          /\ cInfo'[x].src = cInfo[x].src
<1>a. Kept => CacheBounded'
  BY <1>0, UnlinkKeepsBounded
<1>b. UNCHANGED <<inCache, cInfo>> => Kept
  OBVIOUS
<1>1. CASE Ip4CreateRouteTable
  BY <1>1, <1>a, <1>b DEF Ip4CreateRouteTable, cacheVars
<1>2. CASE ShareTable
  BY <1>2, <1>a, <1>b DEF ShareTable, cacheVars
<1>3. CASE Ip4FreeRouteTable
  <2>. Kept
    BY <1>3 DEF Ip4FreeRouteTable, ReleaseLinked, CacheInv
  <2>. QED  BY <1>a
<1>4. ASSUME NEW r \in Routes, Ip4AddRoute(r) PROVE CacheBounded'
  BY <1>4, <1>a, <1>b DEF Ip4AddRoute, cacheVars
<1>5. ASSUME NEW r \in Routes, Ip4DelRoute(r) PROVE CacheBounded'
  <2>. Kept
    BY <1>5 DEF Ip4DelRoute, ReleaseLinked, CacheInv, cacheVars
  <2>. QED  BY <1>a
<1>6. ASSUME NEW d \in Addr, NEW s \in Sources, Ip4FindRouteCache(d, s)
      PROVE  CacheBounded'
  BY <1>6, <1>a, <1>b DEF Ip4FindRouteCache, cacheVars
<1>7. ASSUME NEW d \in Addr, NEW s \in Sources, Ip4Route(d, s)
      PROVE  CacheBounded'
  <2>1. CASE UNCHANGED <<inCache, cInfo>>
    BY <2>1, <1>a, <1>b
  <2>2. CASE /\ CacheLookup(d, s) = {}
             /\ \E m \in rLive : InsertResolved(d, s, m)
    <3>1. PICK m \in rLive : InsertResolved(d, s, m)
      BY <2>2
    <3>2. PICK c \in CacheIds \ cLive :
            /\ inCache' = (inCache \ Evicted(d, s)) \cup {c}
            /\ cInfo'   = [x \in CacheIds |->
                             IF x = c THEN [dst |-> d, src |-> s,
                                            nh |-> EffNextHop(rInfo[m], d),
                                            tag |-> m]
                             ELSE IF x \in Evicted(d, s) /\ cRef[x] = 1
                                  THEN NoCache
                             ELSE cInfo[x]]
      BY <3>1 DEF InsertResolved
    <3>3. c \notin inCache
      BY <3>2 DEF CacheInv, CacheRefCounts, CacheEntriesAllocated
    <3>4. cInfo'[c].dst = d /\ cInfo'[c].src = s
      BY <3>2
    <3>5. \A x \in inCache \ Evicted(d, s) : cInfo'[x] = cInfo[x]
      BY <3>2, <3>3 DEF CacheInv
    <3>. QED  BY <1>0, <2>2, <3>2, <3>3, <3>4, <3>5, InsertKeepsBounded
  <2>. QED  BY <1>7, <2>1, <2>2 DEF Ip4Route, cacheVars
<1>8. ASSUME NEW c \in CacheIds, NEW nh \in RedirectHops, IcmpRedirect(c, nh)
      PROVE  CacheBounded'
  <2>. Kept
    BY <1>8 DEF IcmpRedirect, CacheInv, CacheRefCounts, CacheEntriesAllocated,
              CacheRecs
  <2>. QED  BY <1>a
<1>9. ASSUME NEW c \in CacheIds, Ip4FreeRouteCacheEntry(c) PROVE CacheBounded'
  <2>. Kept
    BY <1>9 DEF Ip4FreeRouteCacheEntry, CacheInv, CacheRefCounts,
              CacheEntriesAllocated
  <2>. QED  BY <1>a
<1>10. CASE UNCHANGED vars
  BY <1>10, <1>a, <1>b DEF vars, cacheVars
<1>. QED  BY <1>1, <1>2, <1>3, <1>4, <1>5, <1>6, <1>7, <1>8, <1>9, <1>10 DEF Next

\* The route cache stays within its size: no bucket holds more than
\* CacheMax entries (Ip4Route evicts the oldest of a full bucket before it
\* links a new one) and no two linked entries have the same destination
\* and source (Ip4Route inserts only after a lookup misses).
THEOREM CacheBoundedHolds == ~LiteralHandout => (Spec => []CacheBounded)
<1> SUFFICES ASSUME ~LiteralHandout PROVE Spec => []CacheBounded
  OBVIOUS
<1> DEFINE BoundInv == RefInv /\ CacheStampInv /\ CacheBounded
<1>1. Init => BoundInv
  <2> SUFFICES ASSUME Init PROVE BoundInv
    OBVIOUS
  <2>1. RefInv
    BY DEF Init, RefInv, OtherInv, CacheInv, CacheRefCounts, CacheEntriesAllocated
  <2>2. inCache = {}
    BY DEF Init
  <2>3. CacheStampInv
    BY <2>2, FS_EmptySet DEF CacheStampInv
  <2>4. \A h \in 0 .. (HashSize - 1) : Bucket(h) = {}
    BY <2>2 DEF Bucket
  <2>5. Cardinality({}) = 0
    BY FS_EmptySet
  <2>6. CacheBounded
    BY <2>2, <2>4, <2>5 DEF CacheBounded, ConstantsAssumption
  <2>. QED  BY <2>1, <2>3, <2>6
<1>2. BoundInv /\ [Next]_vars => BoundInv'
  <2> SUFFICES ASSUME BoundInv, [Next]_vars PROVE BoundInv'
    OBVIOUS
  <2>1. RefInv'
    BY RefInvStep
  <2>2. CacheStampInv'
    BY CacheStampInvStep
  <2>3. CacheBounded'
    BY BoundedStep
  <2>. QED  BY <2>1, <2>2, <2>3
<1>. QED  BY <1>1, <1>2, PTL DEF Spec

\* Every variable of the route table and its cache stays in its type as
\* long as Ip4Route hands the caller a reference of its own: then no
\* release takes a reference count below zero.
THEOREM TypeCorrect == ~LiteralHandout => (Spec => []TypeOK)
<1> SUFFICES ASSUME ~LiteralHandout PROVE Spec => []TypeOK
  OBVIOUS
<1>1. Init => RefInv
  BY DEF Init, RefInv, OtherInv, CacheInv, CacheRefCounts, CacheEntriesAllocated
<1>2. RefInv => TypeOK
  BY DEF RefInv, OtherInv, CacheInv, TypeOK
<1>. QED  BY <1>1, <1>2, RefInvStep, PTL DEF Spec

=============================================================================
