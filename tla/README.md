# Verification of the UDP IO port and its neighbours

TLA+ models, TLC runs and TLAPS proofs for the code under `src/`:

| source | what it is |
|---|---|
| `src/unnamed/part_000` | `Udp4Io.c`: the UDP IO port used by the DHCP, MTFTP and IP4 config drivers |
| `src/unnamed/part_001` | `Ip4Route.h`: declarations of the IPv4 route table, route cache and resolver (no bodies) |
| `src/unnamed/part_002` | `Print.c`: `PrintInternal`, its wrappers and `ValueToString` |
| `src/Library/PlatformBdsLibNull/BdsPlatform.c` | empty platform BDS hooks (not modelled, see §1) |

## 1. Inventory

### The UDP IO port (`Udp4Io.c`)

**State.** A `UDP_IO_PORT` has a UDP4 service child (`UdpHandle`), opened
`BY_DRIVER` (`Udp`). It also has the list `SentDatagram` of `UDP_TX_TOKEN`s
handed to `Udp->Transmit`, and the single receive request `RecvRequest`, a
`UDP_RX_TOKEN` handed to `Udp->Receive`. Every token owns an event whose
notify function runs at `TPL_CALLBACK`: `UdpIoOnDgramSent` for TX,
`UdpIoOnDgramRcvd` for RX. An RX token whose datagram went up as a `NET_BUF`
lives on until the user frees the buffer. `UdpIoRecycleDgram` then signals
UDP's `RecycleSignal` and frees the token.

**Operations.**

| operation | what it does |
|---|---|
| `UdpIoCreatePort` | allocate, create the child, open it, configure it, get the mode data; a goto ladder unwinds a failure |
| `UdpIoSendDatagram` | `UdpIoWrapTx`, then `Transmit`, then link the token |
| `UdpIoCancelSentDatagram` | run `UdpIoCancelDgrams` with `UdpIoCancelSingleDgram` |
| `UdpIoFreePort` | cancel all TX tokens; cancel and free the receive token without its callback; close and destroy the child |
| `UdpIoCleanPort` | the same, but `Configure(NULL)` in place of the close and destroy |
| `UdpIoRecvDatagram` | refuse a second request; `UdpIoCreateRxToken`, then `Receive`, then record the token |

The notify callbacks and `UdpIoRecycleDgram` complete the picture.

**Interactions.** The caller of the port is one thread of control. The UDP
driver completes tokens asynchronously and signals their events. The event
dispatcher runs the notify functions. The user's callbacks run inside them
and may call the port again: the receive callback may restart the receive,
which is why `RecvRequest` is cleared first (line 637).

**What is hard.**
* **Where the notify functions run.** A notify runs when the TPL drops below
  `TPL_CALLBACK`. `Cancel`, `Transmit` and `Receive` raise and restore the
  TPL themselves, so a caller that runs below `TPL_CALLBACK` gets the notify
  *inside* those calls, between two lines of the port's code. A caller that
  runs at `TPL_CALLBACK`, as the network drivers do, gets it only once it
  has returned.
* **Which callback runs.** A token can be completed by UDP, cancelled by the
  port, or aborted by `Configure(NULL)` and child destruction. Each packet
  must get exactly one callback.
* **Pending notifies.** `CloseEvent` silently drops a notify that is still
  pending.
* **Error paths.** Every error path must free exactly what it allocated.

### The IPv4 route table (`Ip4Route.h`)

The repository holds only the types, the cache constants and the
prototypes. These are `IP4_ROUTE_CACHE_HASH = 31`,
`IP4_ROUTE_CACHE_MAX = 64` and the hash `(Dst ^ Src) % 31`. The prototypes
are `Ip4CreateRouteTable`, `Ip4AddRoute`, `Ip4DelRoute`,
`Ip4FindRouteCache`, `Ip4Route` and the rest. `spec.md` describes the
behaviour: longest-prefix match, a cache tagged by route entry, and
reference counts.

### Print helpers (`Print.c`)

* `PrintInternal` formats into a buffer. It then splits the buffer at
  `NARROW_CHAR`/`WIDE_CHAR` and prints each piece with bit 7 of the attribute
  cleared or set.
* `ValueToString` converts an `INT64` to decimal digits with optional comma
  grouping, in a 30-character temporary buffer.

### Platform BDS null library

Ten hooks the BDS core calls: connect the consoles, run the boot
sequence, load driver options, run diagnostics, apply the boot policy,
react to success or failure, act when no console is found, and lock the
flash. Every body returns at once and changes no state. Three hooks return
`EFI_SUCCESS`. The header comments of two of them promise work their bodies
do not do: `PlatformBdsConnectConsole` and `PlatformBdsLockNonUpdatableFlash`.
This library is not modelled: it has no state machine, and any property of
it would restate a `return` statement.

## 2. Modules

| module | models | contents |
|---|---|---|
| `UdpIo` | `Udp4Io.c` | the port, the UDP driver and the dispatcher as environment; properties |
| `UdpIoTxContract` | — | abstract spec: the port's transmit contract as its user sees it |
| `MC_UdpIo` | — | two packets, two RX tokens, symmetry, for TLC |
| `UdpIoProofs` | — | TLAPS proofs of the type invariant, the TX and RX safety invariants, `PortAbsentClean`, and the refinement of `UdpIoTxContract` |
| `Ip4Route` | `Ip4Route.h`, `spec.md` | route table, cache, resolver and reference counts; properties; the refinement mapping |
| `Ip4RouteTable` | — | abstract spec: a reference-counted set of routes |
| `MC_Ip4Route` | — | 2-bit addresses, three routes, two blocks of each kind, symmetry |
| `Ip4RouteProofs` | — | TLAPS proofs of the refinement, the type invariant, the cache's reference counts, consistency and bounds |

### How `UdpIo` corresponds to the code

**Variables.**

| variable | code |
|---|---|
| `port`, `child`, `opened` | the port exists and is configured; `UdpHandle` exists; the protocol is open |
| `sent` | the packets whose TX token is linked in `SentDatagram` |
| `udpTx`, `txSignaled` | TX tokens queued in UDP, and those whose event is signalled but whose notify has not run |
| `recvReq` | `RecvRequest` |
| `rxLive` | allocated RX tokens |
| `udpRx`, `rxSignaled` | RX tokens queued in UDP, and those signalled but not yet run |
| `rxData` | signalled RX tokens that carry `RxData` |
| `rxHeld` | tokens whose `NET_BUF` the user holds |
| `udpBufs` | UDP receive buffers not yet recycled |
| `owed` | a history variable: callbacks the port still owes per packet |
| `rxRet` | the status `UdpIoRecvDatagram` returned in this step |

A TX token is named by its packet. `UdpIoCancelSingleDgram` compares tokens
by packet, and a user never posts a packet twice before its callback.

**The caller's program counter `pc`.** It splits a port operation at every
UDP call after which the code goes on:

| `pc.op` | where the caller is |
|---|---|
| `SendInsert` | between `Transmit` and `NetListInsertHead` (lines 521–528) |
| `Cancel`, `CancelCb` | in the `NET_LIST_FOR_EACH_SAFE` loop. `Cancel` is before an entry; `CancelCb` is between `Udp->Cancel` (360) and the callback and free (361–362). `pc.todo` is the selected tokens not yet reached. `pc.then` says whether the loop belongs to `UdpIoCancelSentDatagram`, `UdpIoFreePort` or `UdpIoCleanPort` |
| `RxFree` | between the cancel of the receive token and its free (396–397, 447–448) |
| `RecvSet` | between `Receive` and `RecvRequest = Token` (718–725) |

The tail of `UdpIoFreePort` and `UdpIoCleanPort` (`PortTail`) is one step
with the last step before it, as in the code. That tail is the close and
destroy, or `Configure(NULL)`, which aborts and signals whatever UDP still
holds.

**`SyncNotify`.** This constant chooses the TPL of the caller:

* `FALSE`: the caller runs at `TPL_CALLBACK`. A notify runs only when
  `pc = Idle` (`CanDispatch`).
* `TRUE`: the caller runs below `TPL_CALLBACK`. A signalled notify runs
  before the caller's next step (`CallerMayRun`), that is, inside the UDP
  call that signalled it.

**`NestedCancel`.** When this constant is TRUE (at `TPL_CALLBACK`), the
owner's callback run by the cancel loop (line 361) may call
`UdpIoCancelSentDatagram` for another linked packet `q`. That nested call
unlinks, cancels, calls back and frees `q` before it returns, so it is one
step inside `CancelCallBack`. `NET_LIST_FOR_EACH_SAFE` has already read
`Next`. If `Next` was `q`, the loop goes on at `q`'s freed entry (state
`CancelFreed`, resolved by `CancelDgram`). Otherwise the loop no longer
reaches `q`. Every other run sets it FALSE.

**Actions.**

* **Failure paths.** The `Alloc`/`CreateEvent` failures and UDP's
  rejections are disjuncts of the actions. `FailPoints` names the failure
  points of `UdpIoCreatePort`.
* **The receive callback.** `UdpIoOnDgramRcvd` chooses a delivery (error,
  `NetbufFromExt` failure, buffer kept, buffer freed in the callback). It
  also chooses whether the user's callback calls `UdpIoRecvDatagram` again.
  That call's outcomes are `RecvOutcomes` with `RecvRequest` already cleared.
* **The environment.** `UdpTransmitDone` and `UdpReceiveDone` are UDP
  completing a token. They stand for code outside the repository.

**The transmit contract.** `UdpIoTxContract` is what the port's user can
observe of transmission. It has two variables: whether the port exists
(`open`) and, per packet, whether a callback is owed (`due`). Its actions
are `Create`, `Accept(p)` (only on an open port, with nothing owed for
`p`), `CallBack(S)` (settles owed callbacks) and `Free` (only with nothing
owed). `UdpIo` instantiates it as `TxContract`, with
`open <- port # "Absent"` and `due <- owed`. `TxContractRefinement` is
`TxContract!Spec`. It is proved (section 5), not listed in a run: the
invariants of udpio_safety already imply every step of it, so no code
mutant can break it without first breaking one of them. TLC does find it
violated with `NestedCancel` TRUE, where a nested cancel calls back two
packets in one step and may then call one of them back twice.

### How `Ip4Route` corresponds to the code and to `spec.md`

The header gives the types, `IP4_ROUTE_CACHE_HASH`, `IP4_ROUTE_CACHE_MAX`,
the hash macro (`CacheHash`, with `BitXor` as XOR on W bits) and the doc
comments of the operations, including their status codes. `spec.md` gives
the bodies. Those definitions are marked `spec_modelled` in the map.

**Variables.**

| variable | code |
|---|---|
| `tblRef` | `IP4_ROUTE_TABLE.RefCnt` (0: no table) |
| `rLive`, `rInfo`, `rStamp` | the `IP4_ROUTE_ENTRY`s linked in `RouteArea`, their triple, their position from the head |
| `cLive`, `cInfo`, `cStamp`, `cRef` | allocated `IP4_ROUTE_CACHE_ENTRY`s: `Dest`, `Src`, `NextHop`, `Tag`, bucket position, `RefCnt` |
| `inCache` | entries linked in a `CacheBucket` |
| `held`, `redirected`, `clock`, `last` | history: callers' references, entries a redirect changed, the insertion counter, the last call and its status |

**Actions.** There is one action per operation:

* `Ip4CreateRouteTable` and `ShareTable` create the table and add an owner.
* `Ip4FreeRouteTable`: the last release frees the routes and releases every
  cache entry through `ReleaseLinked`.
* `Ip4AddRoute` has three outcomes: `EFI_ACCESS_DENIED` for a duplicate,
  `EFI_OUT_OF_RESOURCES`, or success. The cache is untouched.
* `Ip4DelRoute` returns `EFI_NOT_FOUND`, or unlinks the route and releases
  `Tagged(i)`.
* `Ip4FindRouteCache` looks up an entry and hands out a reference.
* `Ip4Route` has four outcomes:
  * a cache hit;
  * unreachable;
  * allocation failure;
  * `InsertResolved`: evict the oldest entry of a full bucket, link the
    new one and hand it out.
* `IcmpRedirect` overwrites an entry's next hop in place.
* `Ip4FreeRouteCacheEntry` drops a caller's reference.

How memory is modelled:
* Blocks are model values.
* An allocation takes any block that is not live, so memory is reused.
* Allocation may always fail.

`LpmScan` is the resolver's scan of `spec.md` 4.3 as two nested loops.
`ScanFrom(top, d)` is the outer loop over `RouteArea[l]`, from `l = top`
down to 0, stopping at the first list whose walk finds an entry.
`AreaWalk(l, d)` is the inner walk of one list from its head: entries are
inserted at the head, so it visits them by decreasing insertion stamp and
returns the first whose network covers `d`. `LpmScan(d)` starts at
`l = W` (`IP4_MASK_MAX`). Both loops are recursive functions over a
bounded index (`f[l \in -1 .. W]`), not recursive operators.
The constant `LiteralHandout` chooses how to read the fresh-insert
reference (see the findings).

## 3. Runs

The `udpio_*` runs use `MC_UdpIo`, with packets `{p1, p2}` and RX tokens
`{r1, r2}`. The `ip4route_*` runs use `MC_Ip4Route`.

| run | cfg | expect | checks |
|---|---|---|---|
| udpio_safety | `UdpIo_safety.cfg` | pass | `TypeOK`, `TxCallbackOwed`, `RxOneRequest`, `RxTokensAccounted`, `PortAbsentClean`, at `TPL_CALLBACK` |
| udpio_liveness | `UdpIo_liveness.cfg` | pass | `TxCallbackEventually` under `FairSpec` |
| udpio_sync_notify | `UdpIo_sync_notify.cfg` | violation | `TxCallbackAtMostOnce` below `TPL_CALLBACK` |
| udpio_sync_recv | `UdpIo_sync_recv.cfg` | violation | `RxOneRequest` below `TPL_CALLBACK` |
| udpio_recycle | `UdpIo_recycle.cfg` | violation | `RxBufferRecycled` at `TPL_CALLBACK` |
| udpio_recycle_child | `UdpIo_recycle_child.cfg` | violation | `RecycleSignalsLiveChild` (action property) |
| udpio_nested_cancel | `UdpIo_nested_cancel.cfg` | violation | `TxCallbackAtMostOnce` with `NestedCancel = TRUE` |
| ip4route_safety | `Ip4Route_safety.cfg` | pass | `TypeOK`, `CacheRefCounts`, `CacheConsistent`, `CacheBounded`, `LongestPrefixMatch`, `RouteTableRefinement` |
| ip4route_literal | `Ip4Route_literal.cfg` | violation | `CacheEntriesAllocated` with `LiteralHandout = TRUE` |
| ip4route_stale | `Ip4Route_stale.cfg` | violation | `RouteReturnsLongestPrefix` |

**Properties.**

* **`TxCallbackOwed`.** The port owes exactly one callback for every packet
  in flight and none for any other. A packet is in flight when it is linked,
  or held by the caller between `Transmit` and the insert, or held between
  unlinking and the callback. Every token UDP holds or has signalled is in
  flight. A lost callback, a double callback, and a notify on a token the
  port no longer tracks all break it.
* **`RxOneRequest`.** UDP holds or has completed at most one receive of the
  port, and it is the tracked one. A non-NULL `RecvRequest` is really
  outstanding.
* **`RxTokensAccounted`.** Every allocated RX token is either the tracked
  request or the token of a held buffer. Only signalled tokens carry data.
* **`PortAbsentClean`.** A port that was freed, or failed during creation,
  leaves no child and no open protocol. An unconfigured child holds no
  request.
* **`TxCallbackEventually`.** Liveness: every accepted packet is eventually
  called back.

**Route table properties.**

* **`CacheRefCounts`.** Every allocated cache entry's count is 1 for the
  bucket link plus the references callers hold. No freed entry is linked or
  held (`CacheEntriesAllocated`). Breaking it takes a caller holding an
  entry across eviction, `Ip4DelRoute` or the last `Ip4FreeRouteTable`.
* **`CacheConsistent`.** Every linked entry is tagged with a live route.
  Unless redirected, its next hop is that route's effective next hop. This
  holds even when a deleted route's memory is reused by a later add. That
  the tag's network covers the entry's destination follows from this and
  `LongestPrefixMatch`: the tag is the route the scan resolved.
* **`CacheBounded`.** No bucket exceeds `IP4_ROUTE_CACHE_MAX`. No two
  entries share a (destination, source) pair.
* **`LongestPrefixMatch`.** The resolver's two nested loops (`LpmScan`:
  the lists from prefix length 32 down, each walked from its head) return
  the reference `LongestMatch`, the longest covering prefix with the newest
  winning ties, for every destination and every reachable table. An
  off-by-one at either end of the outer loop misses the host routes or the
  default route.
* **`RouteTableRefinement`.** `Abs!AbsSpec`, where `Abs` is
  `INSTANCE Ip4RouteTable WITH owners <- tblRef, table <- RouteSet`.
* **`RouteReturnsLongestPrefix`.** An action property, the promise of
  `spec.md` §8. It is checked only in the violation run.

The bounds of `MC_Ip4Route`:
* W = 2, with the routes 0/0 via 1, 2/1 direct, and 3/2 via 1. These nest,
  so there is a default, a network and a host route.
* Sources are `{0, 1}`.
* There are two route blocks for three routes, so allocation runs out and
  memory is reused.
* There are two cache blocks, `HashSize = 2` and `CacheMax = 1`, so a
  bucket fills and evicts.
* There is one reference per caller per entry.
* At most 4 insertions.

The run reaches 522,672 distinct states at depth 13 in under two minutes,
and fires every action and branch. Symmetry over the blocks is sound: only
stamps order blocks, and they are distinct.

**Bounds.** Two packets are enough for a cancel of one packet while the
other is in flight, and for `UdpIoFreePort` with two tokens in the loop. Two
RX tokens are enough for a receive restarted from the callback while the
user still holds the first `NET_BUF`, and for the pool running out. The
safety run reaches 1284 distinct states (depth 22) and fires every action.
The liveness run reaches 3957 states.

**Fairness.**

* **UDP completions.** Weak fairness on `UdpTransmitDone`: UDP completes,
  times out or fails every transmit it accepted.
* **The caller's continuation steps.** Weak fairness: the port's code never
  blocks between two of its steps.
* **`UdpIoOnDgramSent`.** Strong fairness. The dispatch is enabled only while
  the caller is out of the port, and a caller may leave and enter again
  forever. But every time the TPL drops, the dispatcher runs all pending
  notifies, so a notify that is enabled again and again does run.

No fairness is given to the caller's own calls. The user need never call
again.

**Mutants.** Each property of a passing run has a mutant of the code that
breaks it:

| mutant | property it breaks |
|---|---|
| `AddTokUnconditional` | `TypeOK` |
| `UdpIoOnDgramSentKeepsLink` | `TxCallbackOwed` |
| `RecvOutcomesUnchecked` (no `EFI_ALREADY_STARTED` check) | `RxOneRequest` |
| `FreesTokenMutant` (the `NetbufFromExt` failure path keeps the token) | `RxTokensAccounted` |
| `ReachesCloseProtocolMutant` (a failed `Configure` skips `CLOSE_PROTOCOL`) | `PortAbsentClean` |
| `CancelCallBackSilent` | `TxCallbackEventually` |
| `Ip4FreeRouteCacheEntryUnheld` (release without holding) | `TypeOK` (Ip4Route) |
| `FreshRefsShared` (caller gets the cache's reference) | `CacheRefCounts` |
| `TaggedNone` (no invalidation on delete) | `CacheConsistent` |
| `EvictedNone` (no eviction) | `CacheBounded` |
| `LpmScanBelowMax` (outer loop starts at prefix length 31) | `LongestPrefixMatch` |
| `Ip4FreeRouteTableKeepRoutes` (last release keeps routes) | `RouteTableRefinement` |

## 4. Findings

* **Double TX callback below `TPL_CALLBACK` (udpio_sync_notify).** The
  trace is: send, link, cancel. `Udp->Cancel` runs the notify, which calls
  back and frees the token. Then lines 361–362 call back and free it again.
  The file never says the port must be used at `TPL_CALLBACK`. This is a
  spec gap.
* **Receive restarted and then overwritten (udpio_sync_recv).** Below
  `TPL_CALLBACK`, a `Receive` that completes before returning runs
  `UdpIoOnDgramRcvd` before line 725 records the token. The `ASSERT` at 630
  fails. A receive restarted in that callback is then overwritten by the
  token the callback freed.
* **Lost receive buffer (udpio_recycle), even at `TPL_CALLBACK`.** Take a
  receive that UDP has completed with data whose notify has not run yet.
  `UdpIoFreePort` or `UdpIoCleanPort` frees its token, and `CloseEvent`
  drops the notify. `RecycleSignal` is then never signalled, so UDP never
  gets its buffer back. Every other path that drops a datagram signals it
  (lines 597 and 662).

* **Recycle into a destroyed child (udpio_recycle_child).** The user
  keeps a `NET_BUF`, then calls `UdpIoFreePort`. The port destroys the UDP
  child. When the user frees the buffer, `UdpIoRecycleDgram` (line 597)
  signals the `RecycleSignal` of the destroyed child's receive. Nothing in
  the file asks the user to free held buffers first. This is a spec gap.
* **A callback cancelling the next datagram (udpio_nested_cancel).** The
  trace has 11 steps:
  * send p1 and p2, then call `UdpIoFreePort`;
  * the loop cancels p1, and p1's callback cancels p2, the loop's cached
    `Next`;
  * the loop reads p2's freed token, selects it again and calls p2's owner
    back a second time (line 355).

  Nothing in the file forbids a callback from cancelling another
  datagram. This is a spec gap.
* **The fresh cache entry's reference (ip4route_literal).** `spec.md` 4.2
  says a new cache entry starts with refCount 1 as the table's reference.
  4.3 step 5 hands that same reference to the caller. Together they give a
  6-step trace: add a route, then route through it. Now `cRef = 1` with the
  entry both linked and held. Delete the route, and the entry is freed
  while the caller still holds it. The caller needs its own reference.
* **Stale cache after `Ip4AddRoute` (ip4route_stale).** 4.1 says adding a
  route need not touch the cache. The trace:
  * add the default route via 1, then route 2, which resolves through it;
  * add the connected network 2/1, then release;
  * route 2 again.

  The cache hit returns gateway 1. The longest prefix, 2/1, makes the next
  hop 2 itself. This is against §8's longest-prefix guarantee.
## 5. Proofs

### `UdpIoProofs`

* **`TypeCorrect`: `Spec => []TypeOK`.** The argument is `TypeInit` and
  `TypeStep`: the initial state, then one step per action, for every value
  of the constants and either value of `SyncNotify`. It uses four lemmas:
  * `PcRecords` and `PcFields`: the records `pc` takes, and their fields;
  * `RecvOutcomeType`: what a receive outcome holds;
  * `AddTokType`: `AddTok` keeps a set of tokens a set of tokens.
* **`TxSafety`: `~SyncNotify /\ ~NestedCancel => (Spec => []TxCallbackOwed)`.** The
  invariant alone is not inductive. A step from the `SendInsert` state must
  know that the packet is not yet linked. A step from the `CancelCb` state
  must know that the packet is neither linked nor queued in UDP. The
  strengthening `TxInv == TxCallbackOwed /\ PcTokenUnlinked` adds exactly
  this. It was checked with TLC as an invariant first. The proof then shows
  `Init => TxInv` and `TypeOK /\ TxInv /\ [Next]_vars => TxInv'` (lemma
  `TxInvStep`, one case per action), and combines them with `TypeCorrect` by PTL. The
  hypothesis `~SyncNotify` is used in exactly one place: `UdpIoOnDgramSent`
  runs only when `pc = Idle`. The hypothesis `~NestedCancel` keeps the loop
  off freed entries, which is the conjunct `pc.op # "CancelFreed"` of
  `PcTokenUnlinked`.
* **`TxAtMostOnceAtCallback`.** A corollary: at `TPL_CALLBACK` no packet is
  called back twice. The udpio_sync_notify run shows that this fails below
  `TPL_CALLBACK`. The udpio_nested_cancel run shows that it fails when a
  callback cancels another datagram. `TypeCorrect` holds for every value of
  both constants.
* **`RxInvariant`: `~SyncNotify => (Spec => []RxInv)`.** `RxInv` is
  `TypeOK /\ RxPcInv /\ RxOneRequest /\ RxTokensAccounted /\ PortAbsentClean`.
  The three properties are not inductive alone. `RxPcInv` adds what holds
  while the caller is inside the port's code:
  * between `Receive` and recording the token (`RecvSet`), and between
    cancelling the request and freeing it (`RxFree`), `RecvRequest` is
    NULL;
  * in `RxFree` the token is no longer queued in UDP and no datagram is
    linked;
  * in the cancel loop of `UdpIoFreePort` and `UdpIoCleanPort`, every
    linked datagram is still ahead of the loop (`sent \subseteq pc.todo`);
  * a caller inside the port has a port;
  * a completed receive is not queued;
  * UDP holds nothing of a child that is not configured.

  TLC checked `RxInv` as an invariant first, with `NestedCancel` FALSE and
  TRUE. Lemma `RxInvStep` has one case per action. Each case proves the
  non-Boolean part (`Goal`) by SMT and the `child`/`opened` equalities
  (`Bools`) by Zenon. The hypothesis `~SyncNotify` is what makes
  `UdpIoOnDgramRcvd` run only at `pc = Idle`, where the signalled token is
  `RecvRequest`. The udpio_sync_recv run shows that `RxOneRequest` fails
  without it. `RecvOutcomeGuard` states when `Receive` can succeed or
  report `EFI_ALREADY_STARTED`.
  `RxOneRequestHolds`, `RxTokensAccountedHolds` and `PortAbsentCleanHolds`
  are its corollaries.

* **`TxContractRefines`: `~SyncNotify /\ ~NestedCancel => (Spec => TxContractRefinement)`.**
  The invariant is `RefInv == TxInv /\ RxInv`. Its step (`RefInvStep`)
  is `TxInvStep` and `RxInvStep` together. Lemma `TxContractInit` maps the
  initial state to the contract's. Lemma `TxContractStep` maps each step:
  * a successful `UdpIoCreatePort` is `Create`;
  * a datagram accepted by `UdpIoSendDatagram` is `Accept(p)`
    (`owed[p] = 0` is its guard);
  * the callback in `UdpIoOnDgramSent` or in the cancel loop is
    `CallBack({p})`, since `TxCallbackOwed` gives `owed[p] = 1` for a
    signalled or unlinked token;
  * the tail of `UdpIoFreePort` is `Free`.

  `Free` needs two facts from `RxPcInv`: the cancel loop has emptied
  `SentDatagram` when the tail runs, and the caller holds no packet there.
  `TxCallbackOwed` then gives `owed = 0` everywhere. Every other step,
  including the tail of `UdpIoCleanPort` and `UserConfigure`, leaves the
  port existing and `owed` unchanged, so it is a stutter. The hypothesis
  `~NestedCancel` excludes the step that calls two packets back.

### `Ip4RouteProofs`

* **`TableInvariant`: `Spec => []TabInv`.** No two live route entries hold
  one triple. This is what makes `Ip4DelRoute` of a triple remove it from
  the abstract set.
* **`Refinement`: `Spec => RouteTableRefinement`.** The initial state maps
  to `AbsInit`. Under `TabInv`, each step maps to an abstract step or a
  stutter:
  * create, share and free map to the abstract create, share and free;
  * a successful add or delete maps to `AbsAdd` or `AbsDel`;
  * failures, and every cache and resolver step, are stutters
    (lemma `CacheStepsKeepTable`).
* **`RefCountSafety`: `~LiteralHandout => (Spec => []CacheRefCounts)`.**
  `CacheRefCounts` is not inductive alone. The strengthening `RefInv` adds:
  * the types;
  * a live route's triple is in `Routes`, so the resolver's next hop is an
    address;
  * a live cache entry is a record, so a redirect keeps it one.

  Two lemmas carry the argument. `ReleaseLinkedKeeps`: releasing the
  cache's references frees only entries no caller holds. `EvictedLinked`:
  eviction takes a linked entry. The insertion step is split per conjunct.
  It uses that a block not live is neither linked nor held, and that the
  fresh entry gets two references. The hypothesis `~LiteralHandout` is
  exactly that second fact. `RefInvStep` is the step lemma.
* **`TypeCorrect`: `~LiteralHandout => (Spec => []TypeOK)`.** A corollary of
  `RefInv`. The hypothesis is needed: with `LiteralHandout` a reference
  count goes below zero. TLC finds this for `TypeOK` under the
  ip4route_literal configuration, after an entry is freed under its
  holder (the run's violation).
* **`CacheConsistency`: `~LiteralHandout => (Spec => []CacheConsistent)`.**
  The invariant is `RefInv /\ CacheConsistent`. The insertion case needs
  only that the inserted entry is tagged with the live route the scan
  found (`Ip4Route` inserts only when `LpmScan(d)` is in `rLive`), so it
  holds whatever the scan computes. Deletion and the
  last free unlink every entry tagged with the route they remove.
* **`CacheBoundedHolds`: `~LiteralHandout => (Spec => []CacheBounded)`.**
  The invariant is `RefInv /\ CacheStampInv /\ CacheBounded`.
  `CacheStampInv` carries three facts about the linked entries:
  * they form a finite set;
  * their stamps are below the clock;
  * every non-empty set of them has an oldest member.

  This last fact is what makes a full bucket's eviction remove at least one
  entry. `InsertKeepsBounded` counts with the `FiniteSetTheorems` lemmas
  (`FS_Subset`, `FS_AddElement`, `FS_RemoveElement`):
  * a bucket below the bound grows by one;
  * a full bucket loses its oldest entry and gains the new one;
  * other buckets only shrink.

  Keys stay unique because `Ip4Route` inserts only after the lookup of
  `(d, s)` missed.

Only TLC checks the following:

* **Liveness** (`TxCallbackEventually`). TLAPS here does not handle fairness
  or `ENABLED`.
* **The violation runs' properties** (`RxBufferRecycled`,
  `RecycleSignalsLiveChild`, `RouteReturnsLongestPrefix`,
  `CacheEntriesAllocated` under `LiteralHandout`). They are false of the code, and TLC gives
  the counterexample.
* **`LongestPrefixMatch`.** `LpmScan` is two recursive functions over the
  prefix length and the insertion stamp. What a recursive definition
  computes for every input needs induction over data, and the prover
  cannot instantiate the library's induction theorems. TLC checks it on
  every state of the ip4route_safety run.
* **Induction over data** in general, for the same reason: any future
  recursive algorithm (`ValueToString`) stays with TLC. `CacheBoundedHolds`
  avoids it by carrying the existence of an oldest entry in
  `CacheStampInv`.

## 6. Not modelled, and the plan

* **`Ip4Route.h`, remainder.** `Ip4BuildEfiRouteTable` is not modelled.
  It is a read-only export that changes no state. Table chaining
  (`Next`) is not modelled either. Route-entry references held outside the
  table are not modelled, because no operation in `spec.md` hands them
  out.
* **`Print.c`.** Next: `ValueToString` as a function over bounded `INT64`
  values, including `-2^63`, checked against a reference decimal rendering.
  `PrintInternal`'s segment split will be checked against a reference split.
  The `@return Length of string printed` of the wrappers is to be compared
  with `PrintInternal`'s `return EFI_SUCCESS`.
* **`UdpIoCancelDgrams` re-entrancy, remainder.** A callback that sends a
  new packet from inside the cancel loop is not modelled. Neither is a
  nested cancel below `TPL_CALLBACK`, or a nested cancel nested once more.
* **`BdsPlatform.c`.** Every hook returns at once and changes no state.
  The one disagreement worth noting, `PlatformBdsConnectConsole` returning
  `EFI_SUCCESS` without connecting a console against its header comment
  (line 53, and `PlatformBdsLockNonUpdatableFlash` at line 187 likewise),
  is visible in the source and needs no model.
