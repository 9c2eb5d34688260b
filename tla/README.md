# Offline route studio: TLA+ verification

This directory holds TLA+ models of the offline routing demonstration, the TLC
configurations that check them on small instances, and theorems that TLAPS
proves for every instance. Every definition is translated from the source;
`PROJECT.json` ("map") names the lines each one stands for.

## The system

A person draws a route on a map by control points. Each pair of neighbouring
points is joined by a *leg* that a local router (contraction hierarchies in
Rust, bound natively on the phone and as WebAssembly in the browser) computes
offline. The drawn route is a *draft* with undo and redo; a finished draft is
confirmed and published through an HTTP API (a Worker over a D1 database),
where it lives for 24 hours and is listed to people nearby.

| Component | State it keeps | Operations | What makes it correct |
|---|---|---|---|
| Route studio, `packages/route-studio/index.js` | the draft: name, control points and their ids, loop flag, routed legs, invalidated legs, trim, revision, status; undo and redo stacks | edits, previews, `setLegResult`, undo, redo, prepare / begin / fail / complete / resume publication, serialize, restore | ids never collide; every stale leg is invalidated; the leg array fits the points; the trim fits the route; undo and redo lose nothing; revisions are never reused; only a whole route is published |
| Segments API, `apps/api/src/index.ts` and `migrations/` | tables `segments`, `segment_cells`; rate limiter | publish v1 / v2, nearby v1 / v2, lazy purge of expired rows | one publication per idempotency key and lifetime, under any race, retry, cancellation or database failure; answers agree with the store; nothing outlives its time; nothing published goes unlisted |
| Mobile controller, `apps/mobile/app.js`, `App.tsx`, `draftStore.ts` | the state record with the draft, publish status, pending key, move target; the persistence queue; the saved envelope | the edits of the studio each followed by routing of the invalidated legs, request / cancel / confirm publication, resume, new draft, boot | a publication is made once; the saved envelope never loses the key of a publication in flight; the status shown agrees with the draft |
| Viewer studio, `apps/viewer/src/components/RouteStudio.tsx`, `lib/router.ts`, `lib/viewer-state.ts` | draft, phase, routing token, confirmation with key, local storage, segment list | edits with a delayed routing, save, review, publish, return to editing, list refresh | a late routing result never overwrites a newer draft; the phase ends; a published segment is not lost from the list |
| Native runtime, `crates/cch-routing-lite-ffi`, `crates/tile-server-lite`, `packages/offline-router`, `offlineLifecycle.ts` | registry of router handles and buffers, process-wide tile server | load, route, free, start and stop the server, boot | no use after free, a double free is harmless, a live session keeps its tile server |
| CCH routing, `crates/cch-routing-lite/src` | immutable graph, order, shortcuts, weights | order, fill, customize, validate, query, unpack | the distance is the shortest, the unpacked path is a path of that length |
| PMTiles archive, `crates/tile-server-lite` | immutable directory | tile id, directory lookup, range parsing | every tile of the archive is found, no other one |
| Live verifier, `tools/live/verify-api-lib.mjs` | the step it is at, the row it was told, its timer | resolve, health, publish, replay, conflict, nearby | a pass means the route was published once and is listed; it leaves nothing else behind; it ends |
| Shared codecs, `packages/shared` | none | polyline, cells, bounding boxes, metrics | decode after encode is the identity on the grid; a segment is listed in each cell it touches |

Calls go from the clients to the route studio (plain functions on an immutable
draft), to the router (asynchronous on the phone), and to the API (HTTP,
retried by the person under the same key). The API's handlers share the
database and nothing else. The live verifier is a client of the deployed API that
nobody watches: it sends each call once and reports whether the service works.

Hard behaviours: the draft is read, an `await` passes, and it is written; legs
are routed one by one while further edits arrive; a request is retried while
the first one may still run; the insert of a publication may be committed and
reported as failed; rows expire under the requests that read them; the app may
die between a publication and the save of its outcome; the tile server is
global to the process while its owners come and go. `PROJECT.json` lists every
hazard at its line, with the properties that would catch it.


## Modules

| Module | Models | Stands on |
|---|---|---|
| `RouteEdits` | the pure producers of `packages/route-studio/index.js`: what each edit does to the working copy of a draft | community modules only |
| `RouteDraft` | `commit`, `mutate`, undo, redo and the publication lifecycle around those producers | `RouteEdits`, and `EditHistory` as an abstract specification |
| `EditHistory` | what undo and redo promise: a timeline with a cursor | |
| `SegmentsApi` | the publish and nearby handlers of the Worker as concurrent requests over one table | |
| `SpatialIndex` | the integer part of `packages/shared`: cells, boxes, the polyline codec | community modules only |
| `RoutePayload` | a route from the legs of a draft through its body, its row and its cells to the list of another client | `SpatialIndex` |
| `RoutePayloadProofs` | the theorems of `RoutePayload` and the lemmas they need | `RoutePayload`, TLAPS |
| `LiveVerifier` | the live verifier, its timer and its network, run on the API while others publish | `SegmentsApi`, whose requests its calls are |
| `LiveVerifierProofs` | theorems of `SegmentsApi` and of `LiveVerifier` | `LiveVerifier`, TLAPS |
| `MobileStudio` | the phone's controller, its screen, its saved file and the requests it has in flight | what `SegmentsApi` shows of a key, as one step |
| `MobileStudioProofs` | theorems of `MobileStudio` | `MobileStudio`, TLAPS |
| `ViewerStudio` | the viewer's editor in its page: the routing timer and its token, local storage, the confirmation, the list | what `RouteDraft` shows of edits and `SegmentsApi` of a key, as one step each |
| `ViewerStudioProofs` | theorems of `ViewerStudio` | `ViewerStudio`, TLAPS |
| `CchPack` | how a routing pack is built (order, fill, customization), validated, altered on disk and loaded | community modules only |
| `CchRouter` | `route_many` over a loaded pack: the two upward searches of each leg, their meeting, unpacking | `CchPack` |
| `CchProofs` | theorems of `CchPack` and `CchRouter` | `CchRouter`, TLAPS |
| `RoutingFfi` | the C ABI of the router: its registries of handles and of buffers under calls of several threads | |
| `RoutingFfiProofs` | theorems of `RoutingFfi` | `RoutingFfi`, TLAPS |
| `NativeRuntime` | mounts of the phone app that boot, fail and are collected around the tile server of the process | what `RoutingFfi` shows of handles, as one step |
| `NativeRuntimeProofs` | theorems of `NativeRuntime` | `NativeRuntime`, TLAPS |
| `RouteDraftProofs` | theorems of `RouteDraft` and the lemmas they need | `RouteDraft`, TLAPS |
| `MCRouteDraft`, `MCSegmentsApi`, `MCLiveVerifier`, `MCRoutePayload`, `MCCchRouter`, `MCRoutingFfi` | instances for TLC; `MobileStudio`, `ViewerStudio` and `NativeRuntime` need none | |

Operators named `Slip...` sit before the definition they vary: each is a
plausible programming slip. With a slip in place of its neighbour the model
breaks a property; `PROJECT.json` ("mutants") says which. The `Slip` operators
are used by nothing else.

### RouteEdits and RouteDraft

`draft` is the object `createDraft` returns without its history, one field per
field of the code (`invalidated` is `invalidatedLegIndexes`, `nextNumber` is
`nextControlPointNumber`). `undoStack` and `redoStack` are its two stacks of
snapshots. Each exported function is an action of the same name. A function
that throws leaves the draft alone, so its action is not enabled. The guard
`Editable` is that of `mutate`; `commit` stamps a new revision, pushes the old
snapshot within `historyLimit` and clears redo. Previews (`setControlPointPreview`)
and routed legs (`setLegResult`) change the draft in place without a revision.

Indexes are 1-based. Of a leg's geometry the model keeps which two places it was
routed between and one length, `LegMetres`. A leg can therefore be *stale*
(joining places its neighbours no longer hold), *missing* (`NoLeg`, the code's
`undefined` that was assigned) or a *hole* (`Hole`, a slot that assigning
`length` opened). The code treats the last two differently, because `some()`
skips holes. `SetLegResult` routes between the ends the leg has now; results that
arrive late are the clients' concern, and they rely on `RevisionsNameVersions`.

`EditHistory` knows no stacks. `RouteDraft` maps its two stacks and its draft to
one timeline (`Timeline`, revisions and status left out) and the cursor behind
the undo stack; `ImplementsEditHistory` says each step is a step of that
timeline or a stutter.

### SegmentsApi

`store` is table `segments` with its `segment_cells` (a row and its cells are
inserted by one batch, deleted by one batch). `req[r]` is what the handler of
request `r` has read so far: `pc` names the await it is stopped at. The steps are
the code's: the rate limiter and then the clock (`Limit`), the purge batch
(`Purge`), the select by key (`Select`), the insert batch (`Insert`, or
`InsertRejected` when the UNIQUE column says no, or `InsertFaults` when D1 reports a
failure whether or not it committed), the second select after that (`Reselect`), and
the one query of nearby (`Query`). `DatabaseFaults` fails any other call, `Cancel`
ends a handler between any two steps. A retry is another member of `Requests` that
uses the same key. `published` is a history variable of every row inserted and the
tick of its insert; `known` and `faulted` are history fields of a request.

Time runs in ticks, `minuteIso` cuts it to minutes of `Minute` ticks, and `Ttl` is the
24 hours. The one assumption about time is `2 * MaxStall + Minute <= Ttl`: a request
takes far less than half a day. Without it a request that stalls for a day could
purge by a clock from before another's life.

### SpatialIndex and RoutePayload

A route is followed from the studio to another client. `Composed`, `Trimmed` and
`ControlIndexes` are what `getComposedGeometry`, `trimGeometry` and `buildPublishPayload` make of
the legs of a draft; `Accepts` is the validation of the API, `NewRow` what it inserts (box,
cells, encoded geometry), `Found` the query of nearby, and `DecodePolyline6` what a client draws.
`Prepare`, `Publish` and `Nearby` are these three hand-overs, one action each; `ForeignBodies` are
bodies of v1 and v2 that no studio of this repository has prepared.

Lengths are integers, and the two roundings of the code keep their own units: `Micro` is the
sixth decimal of a degree, to which the API rounds coordinates, `Metre` the metre, in which a
person trims. `MCRoutePayload` takes `Metre` and `Micro` in the ratio 3 to 2, so that the two never
fall together by accident, cells of two such units, and polyline groups of two bits, so that
coordinates take more than one. The distance between two points is |dx| + |dy|; nothing depends
on it but the order of points along the route. Cells are found by the code's clipping of a
segment against each closed tile, division cleared away (`SegmentIntersectsClosedTile`), and
`ListedWhereItRuns` holds them against a separate definition of a segment that meets a box
(`Meets`: no axis and no side of the segment parts them).

What the model shows and no property forbids: of two points at one place, `findIndex` takes the
first for a control point; joints whose legs do not share a point shift every later anchor; a
route of more than sixteen legs, of too many points or over too wide an area is prepared and then
refused by the API, and so are a route higher or lower than the API takes (`Elevations`; the studio
rounds an elevation and bounds none), a routing with neighbours that the sixth decimal makes one
(`Blurred`), a trim that starts where it ends, and one that cuts a segment so close to its end that
the two are one when rounded (`Cuts`). `PreparedIsAccepted` names these exceptions, and shows that
there are no others among the checks of geometry and control points. Names are the one part of a body
that both sides check and the model does not: each rewrites a name before it counts code points.

`InOrder` is the increasing enumeration of a set, `[...new Set(selected)].sort` of the code; it is
chosen by that property because the sort of the library, which enumerates permutations, is opaque to
the prover.

### LiveVerifier

The module extends `SegmentsApi`: the four publishing and reading calls of the verifier
(`PublishCall`, `ReplayCall`, `ConflictCall`, `NearbyCall`) are requests of the API, and every other
request is another client's. `verifier` is its program counter (`step`, and the `phase` of the
step: about to send, waiting for headers, reading the body), what it was told, and its outcome.
`sent` are calls on their way: one may be lost, or arrive after its timer has fired (`CallArrives`
needs no verifier that waits). `RequestTimesOut` may come in any phase, for the code clears its timer
after the body. `HeadersArrive` holds the Worker's status against the statuses each step
allows; `PayloadAccepted` is the contract of its body: the bytes it may take, the records it may
hold, the row the replay and the list must repeat. `disturbed` is a history variable: the run
failed for the URL, the resolver, the network or a failure of D1, not for what the API answered.

What the model shows and no property forbids: the list of nearby is bounded by the API in rows
and by the verifier in bytes, and some rows that the API stores are none that the verifier admits.
So a deployed API that does all it should fails its smoke test once others have published enough, or
one such row. `HealthyApiPasses` names the five ways:

- the list is full of rows at least as new (`ListLimit`);
- the rows are longer together than the verifier reads (`WithinBytes`);
- a geometry is longer than it admits (`LongBodies`);
- a route has no length: two equal points through v1, or neighbours less than half a metre apart, are
  stored with distance 0 (`apps/api/src/index.ts:236`), and the verifier wants a positive one
  (`verify-api-lib.mjs:262`; `FlatBodies`);
- a name has more than 80 UTF-16 units (`verify-api-lib.mjs:263`), where the API counts 80 code
  points (`index.ts:274`; `WideNames`). Only a v2 row has a name of its own (`Named`): one of v1 is
  listed as "Legacy segment".

### MobileStudio

`mem` is the controller's state record, as far as it is not the screen's, with
`mem.env` the part `draftStore` saves. `queue` is the chain of `persistence`
promises, `disk` the file. `ops` holds the operations under way: `run()` and the
trim handles start one, and it stops at its save, at its request, at the save of
the outcome, or between the two taps of a link. `shown` and `busy` are the
screen's copy: what a person can touch is decided by what is shown, what the touch
then does by what the controller holds, and the two differ while an operation is
under way. `net`, `server` and `sent` are the requests on their way, those the API
holds, and every request ever sent. `doubt` is a history variable: the id of a
publication that may have been stored while the person has neither been told nor
done anything that abandons it. A restart that finds a torn file, or none, ends the doubt too: the
id is gone with the draft, and `RetryKeepsRequestId` claims nothing of that case.

The native router answers in the turn that asks, so an edit and the routing of its
legs are one step, and what the edits do to a draft (that is `RouteDraft`) is one
choice of a resulting route. The API is one step, `Receive`: it stores the first
request of a key and no other, which is what `SegmentsApi` shows as
`KeyPublishesOnce`. It never forgets one, so that of the phone and of the page *is stored* means *has
been stored*, and may have expired since. A link may open at any moment, a save may fail or leave a torn
file, and the app may die anywhere, within a save too.

### ViewerStudio

`draft` is `draftRef.current`, which the rendered copy never lags behind between two
events; `phase` is `routePhase`, `token` is `routeToken.current`. `timer` is the draft and
token the pending time-out closed over, `routings` those that routers are at work on:
`TimerFires` is the callback up to its `await`, `RoutingSucceeds` and `RoutingFails` what
follows it, behind the comparison of token and revision (`IsCurrent`). The router is a
promise, so edits, trims, saves and other routings come in between, though the
WebAssembly router settles at once: the component is written for any `LocalRouter`.
`confirmation` is the dialog with its payload and key, `request` what `publishConfirmed`
awaits with the draft it closed over, `net` and `server` as on the phone. `list` is the
answer to the page's only read of the segments, `segments` and `selected` are the reducer's
(`nextViewerState`). `asked` is a history variable: the revision whose routing was last
asked for.

Names are left out, because they are typed before a save or a review; the revision they
make stays, since `IsCurrent` looks at it. Only a reload reads local storage, so
`UpdateDraft` leaves there either the new draft or what was there before (the effect has
not run yet, or could not write).

What the model shows and no property forbids: a reload forgets the key of a request
whose answer was lost; a restored draft with missing legs is not routed until it is
edited; a list that arrives after a publication it does not contain takes that
publication off the page. Two pages on one local storage are not modelled: each writes
its own draft over the other's.

### CchPack and CchRouter

`stage` is where the pack is on its way: read, filled, customized, written, loaded, or
refused. `Eliminate` is one turn of the elimination loop of `CchStructure::build`,
`Customize` one turn of the loop over bottoms of `CchWeights::customize`, so that
invariants can speak of the ranks below `bottom`. An upward arc is the pair of its ranks;
the code's index into its arrays appears only where `validate_witness` compares indices
(`Before`). A witness is the original arc itself, a triangle (the two upward arcs from its
bottom), or `NoWitness`. `LoadPack` repeats the validation that `WritePack` made, because the file
may have changed between the two: `Alter` gives one arc another cost, another witness, or both, one way.
`Infinite` stands for `u64::MAX`, and costs that reach it overflow; the sum over the legs, which is
no cost of an arc, may reach it, and overflows above it (`Answer`).

`request` is what the router is asked, with each control given as the node it snaps to, or
`Nowhere`. `legs` are those already routed, `search` is the state of both calls of
`upward_search`, the forward one first; `Settle` takes one entry from a queue, and an entry
that was overtaken changes nothing. `FinishLeg` is the rest of `query` with `unpack`,
`original_node_path` and the check of the target. The limit of `unpack_arc` on its depth is left
out: a witness that passed validation leads to arcs of a lower rank.

`Distance` is the definition the router is held to: the least cost of a way of at most
so many arcs, straight from the graph.

### RoutingFfi

`routers`, `nextHandle`, `buffers`, `nextToken` are the four statics of the crate; `heap` is the
set of addresses the allocator has given out. A call is cut where the code takes or leaves a
lock: `DrawHandle` is `routing_router_load` up to the lock of `ROUTERS`, `Register` the rest of it;
`Begin` is a routing call up to its clone of the `Arc`, after which a free of its handle no
longer concerns it; `Allocate` is `write_owned_buffer` up to the lock of `BUFFERS`, `Write` what
it does under it. The two frees hold their lock throughout and are one step each.

The caller is the foreign code of any binding, within what the comments of the crate ask of
it. It may pass any handle, may keep, copy and drop `RoutingBuffer` values (`CopyBuffer`), and may
free any of them at any time, but it leaves the storage alone that a call under way writes to
(`InUse`). A call whose handle is not registered has no effect and is no action. `given`,
`freed` and `released` are history variables: the pack each handle was returned for, the
handles and the tokens that were freed.

### NativeRuntime

`phase` is how far each mount's `prepareOfflineFixture` and `startOfflineRuntime` came: its
assets are being copied, the old server is stopped (`cleared`), its own runs and the pack is
being read, it is ready, it failed, or the JavaScript runtime ended underneath it (`gone`).
`object` and `routers` are the bridge objects that exist and those that hold a handle,
`server` is `FFI_SERVER`, by the mount that started it. Unmounting sets a flag and stops nothing,
so that an older mount's boot goes on; `Destroy` is the destructor, which comes whenever the
collector does. `calm` is a history variable: the mounts that started the server while no other
was booting and no other object existed.

What the model shows and no property forbids: the comment at `offlineLifecycle.ts:13` says that
stopping first makes a relaunch deterministic, and that holds of calm starts only
(`SoleBootIsServed`). The destructor stops the server of the process, whoever started it; an
older object that is collected after the relaunch leaves the new mount ready without its map.
So does an older boot that overlaps, by the stop it begins with, by the one in its `catch`, or
by starting its own server at another port.

## Runs

| Run | What it asks | Bounds, and why they are enough | Result |
|---|---|---|---|
| `route_edits` | unique ids, no holes, edits invalidate each leg they make stale | four points are the fewest with a leg that is next to neither end of an edit; five revisions build them and edit once more; two places suffice to make legs differ; one level of undo is enough for ids to come back | holds |
| `route_lifecycle` | revisions, trims, what is published, the timeline | two points, so that six revisions reach trims, undo, redo and the whole lifecycle; a history of two, so that it overflows | holds |
| `route_stale_legs` | a whole open route follows its control points | as `route_edits` | violated, see Findings |
| `segments_api` | once per key and lifetime, answers, expiry, listing | three requests: two race for a key while a third reads or retries; a wide and a narrow body, one key or none; five ticks let a row of four live and end; a list of two with a seed and two rows overflows | holds |
| `route_payload` | what is prepared is accepted, control points, cells and lists | routes of one to three legs over three places, with corners, with repeated places and with every trim of whole metres, the fewest with an inner joint that a trim cuts off; one route that climbs above the API's elevations and one body below them; segments between all pairs of 25 places, in every direction and along grid lines; all boxes between those places; three by three cells, so that a segment can cross one without a point in it; limits of points and controls just below the longest route, so that they are met and exceeded | holds |
| `live_verifier` | what a pass means, what is left behind, why a healthy API fails, the end of a run | the four calls of the verifier and one publication of another client, of an ordinary, a long, a flat, a wide-named or a heavy body, one for each way to fail that is not the number of rows, under its own key or none; a list of two with a seed, so that it overflows; two families of addresses, one public and one private; one tick, as a run takes less than a minute | holds, with fairness |
| `mobile_studio` | keys, retries, restarts, confirmations, the end of a publication | two operations at once, the fewest that interleave; two ids, one failed save, two names; one route, since a route matters as *some* or *none* and names tell bodies apart | holds, with fairness |
| `mobile_failed_key` | "retry keeps the same draft and request ID" | as above | violated |
| `viewer_studio` | late routings, the end of a routing, the confirmation, what is published, the list | three edits and two routings at work: the fewest with which a routing is overtaken, and overtaken again; two ids, one reload; one drawing, since a routing is of an older draft exactly if revisions differ; one trim and the full route | holds, with fairness |
| `cch_router` | fill and costs, packing, shortest and real routes | four nodes, the fewest with a shortcut below a shortcut and a rank outside every path; every graph of at most four arcs of which all but one weigh 1 and that one at most 3, so that a way by two or three arcs is shorter than, as long as, or longer than one by fewer; one spatial ordering, which is not its own inverse, and suffices because the graphs are all those of the labelled nodes; ranks that are no permutation; three graphs whose packs are altered in the cost, the witness, or both, of one arc, in every way; all pairs of nodes and six other requests, `MaxControls` of 3 in place of 16; `Infinite` is the least that `CchAssumption` and `CchRouterAssumption` allow, and the sums of these requests do not overflow, not even over altered packs | holds |
| `routing_ffi` | handles, generations of buffers, payloads | two threads race for each registry; three handles and three tokens, so that one can be freed, given again (by a slip) and freed again; two storages, one for a stale copy; two addresses, so that one is reused while the other is held; counts from 0 to one above `MaxControls`, of 2 in place of 16 | holds |
| `native_runtime` | leaks, a sole boot's server | four mounts: the last can be mounted while two older objects await their end and a third boot still runs | holds |

No run checks a type invariant, as each is proved: of the route draft, of the API and its verifier, of
the phone and the page, of the router's pack, of the C ABI and of the native runtime.

The bounds `MaxPoints`, `MaxRevision`, `MaxReady`, `MaxStall`, `MaxClock`, `MaxOps`, `MaxKeys`,
`MaxFailures`, `MaxRoutings`, `MaxReloads`, `MaxHandle`, `MaxToken`, `MaxControls` and `MaxMounts`
stand in guards or in the sets inputs come from. `MaxPoints`, `MaxPointsV1`, `MaxControls`, `MaxSpan` and
`Elevations` of `RoutePayload`, `ListLimit` of the API and `MaxResponseBytes` of its verifier are limits of the
code itself, at small values; `MaxWeight` bounds the weights of the graphs. At `MaxRevision` and
`MaxClock` a behaviour ends, and so the runs of the route draft, of the viewer, of the API and of
its verifier do not check deadlock; nor do `route_payload`, whose route is looked for once,
`cch_router`, whose router is asked once, and `native_runtime`, whose last mount is the last. The
theorems hold for every value of the bounds.

`segments_api` uses symmetry of the requests, `routing_ffi` of threads, packs, storages and
addresses; they check invariants only.
`ConfirmedIsSent`, `PublishedIsStored`, `LateRoutingKeepsDraft` and
`EditsInvalidateStaleLegs` are about steps, `ImplementsEditHistory` is a refinement,
`PublicationEnds`, `RoutingComesToAnEnd` and `VerifierEnds` are liveness properties, and the others are
invariants.

## Fairness

Three modules state a liveness property, two under a `FairSpec` and one under its `LiveSpec`.

`MobileStudio`, `PublicationEnds`: the file system ends each save (with success or
failure) and `fetch` ends each request (the platform's time-out included). Nothing is
assumed of the person, and not that a request arrives.

`ViewerStudio`, `RoutingComesToAnEnd`: a time-out of 0 ms fires, unless it is cleared,
and the router settles each promise (with a route or a failure). The property names its
exception: when the draft was trimmed, or saved under a name, while the router was at work,
the result is dropped and the page stays at "Routing locally…" with a leg missing until the
next edit. The test that a routing is still of the current draft
(`RouteStudio.tsx:156`) compares revisions, and those two operations make a revision but
ask for no routing.

`LiveVerifier`, `VerifierEnds`: the verifier's own process runs (it starts, and sends the call it is
at), and its timers fire when nothing cleared them. Nothing is asked of the network, the Worker
or the resolvers: a call may hang at any byte. It is why the timer has to cover the body
(`clearTimeout` stands in the `finally` of the whole exchange): a timer that covered the headers
only would let a run hang, and that is the mutant of this property.

Every other property is a safety property.

## What is proved

`RouteDraftProofs` proves, for every value of the constants that
`LegMetresAssumption`, `SentinelsAssumption` and `RouteDraftAssumption` allow (places
and names are any sets; the sentinels differ from them; the history limit is
positive), and with no bound on the number of points or of the history:

- `TypeCorrect`, `IdsStayUnique`, `NoHoles`, `SelectionsFit`, `HistoryStaysBounded`,
  `RevisionsStayDistinct`, `PublicationIsWhole`: the types, the shared bound of the two stacks, and
  the invariants that `route_edits` and `route_lifecycle` check.
- `Invariance`: the inductive invariant `IInv` they all follow from.
- `StacksAreATimeline`: the refinement of `EditHistory`. Each step of the two stacks is a step of
  the timeline or a stutter; redo needs `HistoryIsBounded`, without which `pushHistory` would drop a
  version that the timeline keeps, and a step of the lifecycle changes no content.
- `StaleLegsAreInvalidated`: the action property `EditsInvalidateStaleLegs`, with its two named
  exceptions. For each producer a lemma (`AddPointMatches` ... `SetLegMatches`) shows that a leg it
  does not invalidate was there before and still has its two ends.

None of the invariants is inductive alone. Undo brings an old version back, so all
that is to hold of the draft must hold of each snapshot too: `IInv` states
`WellFormed` of the draft and of both stacks (types, unique ids below the counter, one
slot per leg, the trim within the route, and that a closed loop has two points, without
which the leg count and the array part ways on removal). Snapshots are also in status
`draft`, else undo could leave the lifecycle. `HistoryIsBounded` is needed so that
redo never drops an entry, and `RevisionsNameVersions` orders both stacks, whose mutual
distinctness survives an undo only because of that order.

The argument has three layers. First, each pure producer keeps `WellFormed`
(`AddPointFits` ... `TrimFits`), from lemmas on removing, inserting and moving an element
of a sequence. Then each wrapper (`Commit`, `Mutate`, `UndoDraft`, `RedoDraft`,
`Transition`) keeps `IInv` when given such a producer. The theorems combine the two.

`CchProofs` proves, for every graph, ordering and request that `CchAssumption`,
`WitnessAssumption` and `CchRouterAssumption` allow. The latter two keep the markers `NoWitness`,
`None` and `Nowhere` apart from arcs, ranks, nodes, requests and errors; and `CchRouterAssumption`
says that as many longest ways as a request may have legs cost at most a u64: 16 legs, fewer than
2^21 nodes (a pack unpacks to at most 32 MiB, `lib.rs:221`, and holds two 64-bit coordinates of each) and
arcs below 2^32 stay below 2^57.

- `PackTypeCorrect`: costs and witnesses keep their types, in altered packs too.
- `TrianglesHold`: the higher neighbours of every rank become a clique, and once a rank has
  been customized no lower triangle through it is cheaper than the arc above it, in either
  direction. It is why the two upward searches find shortest paths, and so what makes the
  ordering a matter of speed alone, as `ordering.rs` says.
- `BuilderRefusesNoGraph`: of a valid graph no cost overflows, and what is built passes the
  validation, its own and that of whoever loads it (`ValidGraphsArePacked`).
- `RouterFindsShortest`: of a pack that was built, the answer costs what Bellman and Ford's
  `Least` says of every leg, and is `NoRoute` exactly if some leg has no way
  (`RoutesAreShortest`).
- `RouterRealizesRoutes`: of any pack that passes validation, an altered one included, a route
  runs along original arcs from control to control, has each joint once and costs what its arcs
  cost; the check of an unpacked path never fires, and of a built pack no sum overflows, neither within a
  leg nor over the legs of a request (`RoutesAreRealized`). The sums over an altered pack may overflow, and then the answer is that
  error: validation bounds each cost, not what a path of several costs.
- `RouterKeepsPack`: a router reads its pack and never changes it, so what holds of
  packs holds of loaded ones while they are asked.

The invariant is inductive with `PackTypeOK` beside it. Its step rests on which arcs a turn
of a loop touches: `Eliminate` adds arcs, and `Customize` lowers costs, only of arcs whose
lower end is above the current bottom, so that neither disturbs the triangles of the ranks
before it. The exclusion of an altered pack is needed, as validation accepts a pack whose
costs were raised together with their witnesses: such a pack routes along real arcs
(`RoutesAreRealized`), and not always along the shortest.

What triangles do not give is how large a cost can get: a bound of the form "at most so much
per turn" would double with every turn. So `CustomInv` holds the customized costs against
tables of Floyd and Warshall, one for each turn (`Tabled`): each table is what its predecessor
and the ways through one more rank give (`Swept`), an arc whose lower rank has not had its turn
costs what the table of `bottom` says (`Agrees`), one whose lower rank has had it keeps what it
said then (`Frozen`). What a table says of two ranks is the cost of a way through any rank at
most once (`Simple`), because a way that meets a rank twice could leave out what lies between;
such a way has fewer arcs than there are nodes, and so costs `LongestWay` at most
(`SimpleIsBounded`), which is admitted and twice of which does not overflow. That
each cost has a witness the validation accepts (`Witnessed`) follows for the arcs a turn
improves, and stays so because their two lower sides never change again.

The same tables say what a router finds (`RouterFindsShortest`). The last of them has the
distances (`DistanceIsTable`): `Least` is at most what a table says, because it is one of the
potentials that no way of a `Simple` table can beat (`Potentials`, `Spanned`), and at least that,
because a `Closed` table obeys every arc. An upward search from a rank finds, of each
rank r above, the entry of the table of the turn of r (`SearchEnds`): by then the ways through
ranks below r are in, and an upward path is a way through no other. Its invariant is Dijkstra's: `Rooted` (each rank reached has
a parent reached before, over an arc that has a cost) and `Explored` (no cost is too low, and what
is not queued has been relaxed), from which an entry taken from the queue is final
(`FirstIsRight`) and no sum overflows (`SearchFits`). The backward search is the same over the
tables turned around (`Along`). A way of the last table has a highest rank, where both searches
meet (`WaysAreMeetings`), so that the cheapest meeting costs the distance
(`MeetingIsShortest`). What is unpacked `Leads` from end to end, by induction over the ranks
that witnesses and parents descend through, and so the router's check of the path does not fail
(`EdgesConnect`). `RouterInv` adds the legs: each that is done weighs its distance, which is at most
`LongestWay`, so that their sum fits (`SumFits`), and the search under way is that of the next. Recursive functions (`Least`, `Unpacked`, `Climb`, and those
inside `Sum` and `FlattenSeq`) are
shown to satisfy their own equations by `Recursion`, from a level that every call descends.

What an altered pack keeps is that the two sides of a witness cost what its arc does. From that,
by induction over the lower ends, an arc unpacks to arcs of its cost (`UnpackedCosts`). A search
keeps `Paid`: a rank costs what its parent does and the arc between them, and no entry of the queue
is below the parent, so that it is never found at less afterwards; and so the way to a rank costs
what the search says of it (`ClimbCosts`). `RealWay` puts the arcs of a way, its cost and its nodes
together; two that meet are one again, with their joint once (`RealWaysJoin`), and `RealInv` says
that every leg is one (`LegsReal`). An induction over the legs makes one of them all.

`RoutingFfiProofs` proves, for any threads, packs, storages and addresses that `FfiAssumption`
allows:

- `FfiTypeCorrect`, `HandlesAreNeverReused`, `StaleFreesAreHarmless`, `NoPayloadIsLost`: the types and the
  three invariants of `routing_ffi`.

What the invariants lack is what calls hold between two locks. `HandlesArePrivate` says that a
handle that was drawn and is not registered yet is known to nobody and drawn by one thread;
`TokensArePrivate` says the same of tokens, and that all values with one token have one
address: without it, freeing one value could take away what a copy with another address
owns. Each action has its lemma, and `CallKeeps` serves those that change a call alone.

`NativeRuntimeProofs` proves, for any number of mounts, `RuntimeLeaksNothing` and
`SoleBootKeepsItsServer`. The invariant adds that a boot past its first native call has its object
(`BootsHaveObjects`), and that while a calm mount is on the screen no other can act
(`CalmStaysAlone`): a new one would have to be mounted first.

`LiveVerifierProofs` proves of the API, for any requests, keys, bodies and times that
`SegmentsApiAssumption` allows, the one assumption they cite, `ApiTypeCorrect`, `KeysPublishOnce`, `AnswersMatch`, `LosersDoNotFail`, `NothingStays` and
`NothingGoesUnlisted`: every property of `segments_api`. The invariant has three layers.
`RecordsOK` says of all that was ever inserted that it lives `Ttl` from the minute its request
read, and is in the table or has expired. `InTimeBounds` says that no handler acts on a clock older
than `MaxStall`. `PurgedFor`, `RivalsAreNew` and `RivalStays` say what a handler has seen and
nobody may change until it acts: after its purge no row has expired by its clock, after its select
a row of its key can only be newer than its arrival, and once its insert was rejected the row
that won is there until it selects it. The last is the heart of `LosersDoNotFail`: another
handler's purge spares that row, because `2 * MaxStall + Minute <= Ttl` (`PurgeSpares`).

Of the verifier it proves, for any other clients, sizes and times that
`LiveVerifierAssumption` allows, `VerifierTypeCorrect`, `VerifierLeavesItsRoute`,
`PassingMeansListed` and `HealthyApisPass`: every property of `live_verifier` but its
liveness. They stand on `VerifiedApiIsApi`: whatever the verifier does, the API below it
behaves as `SegmentsApi` says, so that its invariant holds here as well. As the verifier's
timers and those of its calls end long before a row expires (`MaxClock < Ttl`), the table
only grows while it runs. So the row its first call was told of is there when the replay and
the conflict probe select by key, however late they are handled and whatever others publish in
between (`PublishCallOK`); neither of the two can get as far as an insert. `NearbyCallOK` says
the same of the list: it holds the row, or it is full of rows at least as new. `VerdictOK`
ties the outcome to those answers.

`MobileStudioProofs` proves, for any routes, names and number of ids and however many operations
are under way at once, `MobileTypeCorrect`, `KeysNameBodies`, `RetriesKeepTheirId`, `RetriesArePossible`,
`RestartsLoseNothing`, `ConfirmedBodiesAreSent` and `PublishedBodiesAreStored`: every property of
`mobile_studio` but its liveness. An id is held in many places at once, in memory, in envelopes
that wait to be saved, in the file, by operations and by requests; `ClaimsAgree` says that all who
hold one claim the same body for it. `SavedBeforeSent` and `DoubtIsSaved` say that an id is in the
file before it is sent, which is what a restart needs; `KeyStays` that what is queued does not take
it out again; `ScreenIsLocked` what the person cannot touch while a publication is under way.
`AdvanceKeeps` carries the invariant over the steps that leave the controller's state alone and
`PersistKeeps` over those that change it, so that each action's lemma says only what is its own.
`NoFileAssumption` says that a missing file is no envelope.

`ViewerStudioProofs` proves `ViewerTypes`, `ConfirmationsAreCurrent`, `PublishedDraftsAreStored`,
`ListsAreSound` and `LateRoutingsKeepTheDraft`, for any drawings, trims, routings, ids and reloads:
every property of `viewer_studio` but its liveness. That a route is listed once is an induction
over the list: `Without` keeps its entries but those with the id (`WithoutIsSound`), and what is
put in front has that id. The invariant adds
`PendingAreOfVersions` (tokens tell routings apart, and one that `IsCurrent` was asked for the draft
as it is now, because an edit takes a new token and any other change a new revision),
`RequestIsCurrent` (while a request is awaited neither draft nor dialog changes) and
`StorageIsStored` (what local storage calls published is stored, as a reload will show it).
`NothingAssumption` says that the absent dialog and request are no dialog and no request.

`RoutePayloadProofs` proves `RoutesAreListed`, which is `ListedWhereItRuns`,
`ControlPointsAreJoints`, which is `ControlsAreJoints`, and `PreparedRoutesAreAccepted`, which is
`PreparedIsAccepted`. They hold for any size of cells and number of tiles, any groups of the polyline,
any units, drafts, trims, bodies of other clients and boxes that `RoutePayloadAssumption` and
`SpatialIndexAssumption` allow: points are integers, a leg has two points or more, a trim does not end
before it starts (`trimDraft` and `clampSelectionToGeometry` see to that), a box is not inside out, and
the area the API admits lies on the grid. The argument has five parts.

- A box that a route runs through shares a cell with it. `Meets` says only that no line parts the
  segment from the box; the parts of the segment within the box's range of longitudes, and those
  within its range of latitudes, are two intervals of fractions, and they overlap
  (`RangesHaveCommonPart`, from the corners on both sides of the segment's line). So there is a
  point in common, at n of d parts of the way (`MeetingIsPassing`). Its cell lies between the
  corner cells of the box, and the clipping finds that the segment touches it
  (`PassedBoxHasCell`), clamping at the edge of the grid included; and the bounding boxes of the two
  overlap (`PassedBoxOverlaps`).
- What was encoded is decoded. Zigzag is undone (`ZigZagsBack`), the groups of a number are read back
  as that number whatever was read before (`GroupsAreRead`), and so the steps read are the
  differences encoded (`PolylineIsRead`), whose sums are the points (`PolylineReturns`).
- What is published are points: composing, profiles, interpolation, rounding and trimming keep
  places places (`ComposedIsGeometry`, `PointAtIsPlace`, `TrimmedIsGeometry`). `PointAt` is where
  it could go wrong: the first point of the route at or past the distance must exist
  (`ProfileRises`).
- The indexes of control points survive composing and trimming. Legs that start where the one before
  ended lie in the composed route one after another, each ending at the cursor that `Anchors` keeps
  (`LegsAreInPlace`), and at the length of the legs so far (`LegProfile`), so that an anchor is the
  last point of its leg and within the trim exactly if the joint is (`JointsAreAnchors`). A point
  that the trim keeps is in what it returns (`KeptIsInTrimmed`); the one that `findIndex` takes for it is
  at the same place, and a control point or an end (`JointsAreControls`). The order of a set of indexes exists and has all of them (`OrderExists`,
  `InOrderHasAll`), from 1 to the last (`OrderIsValid`).
- What is prepared has no two neighbours in one place. Each step of a composed route is a step of one
  of its legs (`RouteIsSharp`), so that a routing the sixth decimal does not blur makes a route whose
  profile strictly climbs (`SharpClimbs`). Of such a route the trim returns the point it starts at,
  the points between two indexes, and the point it ends at (`SelectionHolds`). A trim at a point of the
  route returns that very point (`PointOfRoute`: interpolation is exact at both ends of a segment,
  `BetweenEnds`), the neighbour of the next one kept; so the only pairs that rounding can make one are
  at an end where the trim cuts a segment (`TrimTellsApart`). This is where the exceptions of
  `PreparedIsAccepted` come from, and why there are no more.

The invariant says what each hand-over has made of what the one before gave it: a body of places that
is the draft's, a refusal of a body that the API does not accept, the row of that body, the answer of
that row. Each recursive function is shown to satisfy its own equation by `FollowingExists`, and used
by `Induction`.

Only model-checked: the three liveness properties, `PublicationEnds`, `RoutingComesToAnEnd` and
`VerifierEnds`, as liveness under fairness is beyond the prover. Every other property of the runs that
pass is a theorem.

## Findings

Two runs state what the repository says and find it violated.

1. `route_stale_legs` (`packages/route-studio/index.js:75`): `removeControlPoint` cuts
   a point out of `controlPoints` but never splices `legResults`, so that each later leg
   holds the geometry of its predecessor's place and is not invalidated.
2. `mobile_failed_key` (`apps/mobile/app.js:260`): cancelling while the publication is under way
   drops the request id; if it then fails, the retry draws a new id.

Met while modelling, and in no run, as no text of the repository says otherwise plainly enough:

- Opening a loop leaves the number of the leg that is gone among the invalidated ones
  (`index.js:474`); nothing can route it, and the route cannot be published until another edit
  overwrites the list.
- A restart of the phone app forgets that a draft was published (`app.js:161`), and the button to
  resume it is not shown, though `RestartBringsBack` holds of all that the envelope has.
- The limits and roundings that `PreparedIsAccepted` excepts, and the ways in which a healthy API
  fails its verifier that `HealthyApiPasses` names.

`EditsInvalidateStaleLegs` excepts, by name, a removal (finding 1) and closed loops of two
points, whose closing leg a move does not invalidate: that too is in the code, and its
exception is the only reason the property holds there.

## Not modelled, and why

- Geometry, distances, elevation profiles, projections: floating point. The models keep
  what tells geometries apart.
- Of the API, the parsing of JSON, headers and names, and the rounding and listing of elevations:
  `SegmentsApi` has one refusal, as a refused request changes nothing; what makes a body or a box valid
  is in `RoutePayload`, the range of its elevations included.
- Map rendering (`MapCanvas`), lists and response validation of the viewer, the WebAssembly
  binding: no protocol state.
- The PMTiles archive: its bytes are read and never written, by one thread per request, without
  state between requests.
- Fixtures, audits, builds and deployment tools: scripts that a person runs on files. Of the live
  verifier, the grammar of its command line and URL and the ranges of addresses that are not
  public are a choice between accepted and refused.
- The build of the phone app without an API: `requestPublish` only reports it.
- Of the router: snapping by distance, lengths and elevations, the layout of arrays and
  its validation, compression with its limit of 32 MiB on what a pack unpacks to, the benchmark.
- Of the native runtime: the status of each thread's last load, null arguments, counters that
  run over 2^64, panics and poisoned locks; the answers of the tile server; the bridge's parsing
  of payloads; a port that the system gives out again; the copying of assets over files that
  an older server has mapped.
- The profile cursor of both clients, two pages on one local storage, the phone's list of
  nearby segments.

## Plan

In order of importance; the first ten are done.

1. `RouteEdits`, `RouteDraft`, `EditHistory`: the core every client uses.
2. Proofs of the route draft's invariants.
3. `SegmentsApi`: publications under races and faults.
4. `MobileStudio`: the phone's controller over its file and the API.
5. `ViewerStudio`: edits against the routing timer and its token, the confirmation and its
   key, local storage and reload, the list that arrives after a publication.
6. `RoutingFfi` and `NativeRuntime`: router handles and buffers with their generations, the
   tile server of the process, overlapping boots, and the proofs of both.
7. `CchPack` and `CchRouter`: order, fill, customization, query and unpacking over small
   graphs, against the shortest path by definition; written with recursive functions and
   folds, so that invariants of the parts can be proved.
8. `SpatialIndex` and `RoutePayload`: cells, boxes, the polyline codec, trims and control points,
   from the draft to the list of another client.
9. `LiveVerifier`: the smoke test of the deployment, composed with the API.
10. Proofs: the refinement of `EditHistory` and `EditsInvalidateStaleLegs`; all of the safety of the
    API, its verifier, the phone, the viewer, the native runtime and the router; `ListedWhereItRuns`,
    `ControlsAreJoints` and `PreparedIsAccepted`.
11. `PmTiles`: tile ids, directory lookup and ranges, over bounded inputs.
12. An abstract publish-once store which `SegmentsApi` implements and `MobileStudio` and
    `ViewerStudio` use, in place of the step `Receive`.
