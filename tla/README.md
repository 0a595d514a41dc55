# AUV sonar gateway: verification development

The gateway (Go, `src/`) receives packets of a multibeam sonar over TCP and
UDP, and positions of an inertial navigation system (INS) over UDP. It cuts the
byte streams into frames, decodes them, traces each beam through the sound
speed profile to a point, caches the resulting point cloud frames, fills the
voids in them by interpolation, and writes everything to Redis.

This directory holds TLA+ models of its concurrent and stateful parts, TLC
configurations that check them on small instances, and proofs, checked by
TLAPS, of the safety properties of every state machine among them, for all
values of the constants.

1. [Inventory](#1-inventory)
2. [Modules](#2-modules)
3. [Correspondence to the code](#3-correspondence-to-the-code)
4. [Runs: what is checked, bounds, fairness](#4-runs)
5. [Disagreements with the code's own words](#5-disagreements)
6. [Proofs](#6-proofs)
7. [What is not modelled, and why](#7-not-modelled)
8. [Plan](#8-plan)
9. [Running it](#9-running-it)

## 1. Inventory

Goroutines: `acceptLoop` and one `handleConnection` per connection (TCP); one
`receiveLoop` each for the UDP sonar and the INS; `listenSSP` (Redis
subscription); one fill goroutine for each triggered fill; the tickers of the
metrics log and of `PublishStatsPeriodically`; and the main goroutine, which
runs `Gateway.Stop` on a signal.

| Component | State | Operations | What makes it correct |
|---|---|---|---|
| Assembler (`framing/assembler.go`) | buffer `buf[readPos:writePos]`, state machine, scan offset, counters, `a.mu` | `Feed` (+ `Stats`, `Reset`) | every frame of the stream comes out once and whole, however it was cut; no index outside the buffer; the loop ends |
| Safe processor (`framing/safe_processor.go`) | consecutive errors, `sp.mu`, callbacks | `Feed`, `handleValidFrame`, `handleAssemblerError` | errors are counted and lead to a resynchronisation |
| TCP server (`tcp/server.go`) | map `conns` by remote address, counters, `running`, WaitGroup | `Start`, `acceptLoop`, `handleConnection`, `Stop` | every served connection is tracked, the limit holds, `Stop` returns and leaves nothing |
| UDP receiver (`multicast/receiver.go`) | socket, `running`, an assembler | `Start`, `receiveLoop`, `Stop` | as the TCP handlers |
| INS processor, reader (`framing/ins_processor.go`, `ins/reader.go`) | linear buffer, `latestTS`, `latest`, counters | `Feed`, resynchronisation on timestamps, `Stop` | no byte in two frames, no acceptable frame skipped |
| Packet decoder (`uper/decoder.go`) | none | bit reading | bits are read where they stand, lengths agree with the framing |
| Beam processor, ray tracer, transform (`beam`, `ssp`, `coord`) | pointer to the profile, counters | `ProcessPing`, `UpdateProfile`, `Trace` | no update spoils a trace under way |
| Reorganizer (`pointcloud/reorganizer.go`) | map by ping counter, heap by timestamp, order of arrival, `r.mu` | `SubmitFrame`, eviction, fills, `Flush` | the three views agree; the newest frames survive to shutdown |
| Void filler, grid (`voidfill`) | grid, stats, `vf.mu` | `FillFrames`, `GetStats` | measurements untouched, accounts add up, calls return |
| Kriging (`kriging`) | none kept between calls | `selectNeighbors`, solver, variogram | the nearest samples are used; the rest is numeric |
| Redis hub (`redis/hub.go`) | client, `running`, counters | `Publish…`, `GetLatestSSP`, `GetFramesInRange`, `listenSSP` | the last profile announced is in force, a range of time gives its frames |
| Gateway (`cmd/gateway/main.go`) | the parts | `Init`, `Start`, `Stop` | shutdown loses nothing it need not lose, and ends |

How they interact: a receiving goroutine calls `Feed` of its own assembler,
whose frame handler calls, synchronously and with `a.mu` and `sp.mu` held, the
decoder, then the ping handler: `PublishPing`, then `ProcessPing`, then
`SubmitFrame` under `r.mu`. A fill goroutine goes from a
snapshot of the cache to `FillFrames` under `vf.mu` to `PublishFrame`. `Flush`
takes `vf.mu` with `r.mu` held. All of it shares one Redis client.

The hard behaviours are: what a chunk boundary or an error leaves behind in a
buffer; callbacks that come back to a mutex their caller holds; deferred
clean-ups of an old connection that meet a new one; three containers for one
cache with keys that wrap; reads made after an unlock; and the order in which
shutdown takes the parts down; updates of the sound speed profile that race
start-up and the traces under way; and keys in Redis that come again.
`PROJECT.json` lists the hazards with their
lines and the properties that watch each of them.

## 2. Modules

| Module | What it is |
|---|---|
| `Frames` | wire format of the sonar stream: sync word, header, length field |
| `FrameStream` | abstract specification of framing, without a buffer |
| `Assembler` | `SlidingWindowAssembler` under `SafeFrameProcessor`; implements `FrameStream` |
| `AssemblerProofs` | invariance and refinement proofs about `Assembler`; what the two length rules of `Decoder` make of each other, for the code's constants |
| `Decoder` | the bit reader, `handleValidFrame` and when a packet decodes, as operators |
| `TCPServer` | accept loop, handlers, `Stop` |
| `TCPServerProofs` | invariance proofs about `TCPServer` |
| `FrameWindow` | abstract specification of the frame cache: a window of the newest frames |
| `Reorganizer` | map, heap, order, fill goroutines, `Flush`; implements `FrameWindow` |
| `ReorganizerProofs` | invariance and refinement proofs about `Reorganizer` |
| `SpatialGrid` | the grid of the void filler, as operators |
| `Kriging` | the selection of the nearest samples, as operators |
| `VoidFiller` | `FillFrames` by several goroutines; extends `SpatialGrid` and `Kriging` |
| `GridProofs` | lemmas about the operators of `SpatialGrid` and `Kriging`: loops, grids, neighbourhoods, quickselect |
| `VoidFillerProofs` | invariance proofs about `VoidFiller`: its accounts, the data in its grid, its results |
| `INSReader` | INS framing and the reader around it |
| `INSReaderProofs` | proofs of invariants and action properties of `INSReader` |
| `FrameStore` | the frames in Redis, as operators |
| `RedisHub` | the sound speed profile from `Init` to `Stop`, and the frames published; extends `FrameStore` |
| `RedisHubProofs` | invariance proofs about `RedisHub` |
| `Gateway` | all goroutines against `Gateway.Stop`, each part reduced to what the others see of it |
| `GatewayProofs` | invariance proofs about `Gateway` |
| `MC*` | the instance of each module that TLC checks |

`Gateway` is the composition. It does not instantiate the component modules:
their product is out of reach, and shutdown depends on little of each. What it
takes from them is shown there: a connection handler ends once its socket is
closed, unless its `Feed` has blocked itself (`TCPServer`, `Assembler`),
`SubmitFrame` keeps the newest frames and returns (`Reorganizer`), `FillFrames`
returns or, with `AutoFitVariogram`, locks `vf.mu` twice (`VoidFiller`), `Stop`
of the INS reader returns (`INSReader`).

**Defect definitions.** Next to a definition there may be another whose comment
begins with *Defect*: a mistake it might plausibly have had. Such a definition
is not part of `Next`. `PROJECT.json` pairs each property of a passing run with
one of them under which TLC finds that property violated, so that no property
is vacuous.

## 3. Correspondence to the code

`PROJECT.json` maps every definition to its lines. The essentials:

**`Frames`, `Assembler`.** `a.mu` is held through all of `Feed`, so `pc` only
tells whether a call is in progress; a step is `Feed` up to the loop, or one
pass of the loop of `runStateMachineLocked`, that is, one `handle…Locked`. The
buffer is `readPos` plus the unread bytes `window`; `writePos` is derived. The
bytes below `readPos` and above `writePos` are never read again and are left
out. `Verdict` is what `handleValidFrame` says of a frame (in the instance for
TLC, and in the code, that of `Decoder`), `ErrorsOf` how often
an undecodable frame is counted (twice: once there, once through `onError`).
`SelfLock` is the call of the locking `Reset()` from inside `Feed`: no action
leaves `pc = "blocked"`. The type `ValidatingAssembler` replaces the frame
handler with its own, which `NewSafeSonarProcessor` then replaces again, so
that `ValidateSonarFrame` never runs; the models therefore have no such step.

**`Decoder`.** `ReadBits` follows the loop of the code, byte by byte. A read
succeeds exactly if its bits are there, so that of `Decode` and `decodeBeam`
only the sum of the widths remains: 256 bits of header and 64 for a beam.
`handleValidFrame`, in bytes, has 20 and 10 (and `model/sonar.go` names 160 and
80 bits). `MCAssembler` reads its lengths and beam counts with `ReadBits` and
takes `handleValidFrame` for `Verdict`, with smaller sizes of the same kind:
valid frames that do not decode and decodable ones that are refused.

**`FrameStream`.** One unbounded sequence `pending` and four ways for bytes to
leave it: in a frame, skipped because no frame begins with them, given up in a
stretch without any sync word, or lost in an overrun after a rejected frame.
The mapping is `pending <- window`, `stalled <- state = "FrameReady" /\ pc #
"run"`.

**`TCPServer`.** A critical section of `s.mu` is one step, and so is every
blocking call. The deferred function of `handleConnection` is two steps,
because `wg.Done()` comes before the map is cleaned up. The peers, the kernel's
queue and its refusal of an address in use are the environment. `AddrReuse` is
whether a peer may return from the address of a connection it lost before the
server is done with that connection. A `Feed` is reduced to how it ends: it
returns (`FeedReturns`), or it reports too many errors and locks the mutex it
holds (`FeedBlocks`, the `blocked` of `Assembler`), after which the handler
stays where it is.

**`Reorganizer`.** Frames are numbered as submitted; `ping` is their counter,
`Ts` their clock, which may run backwards. `SubmitFrame` is three kinds of step
under one `r.mu`, so that the loop of evictions can be seen not to end. Popping
equal timestamps from a heap gives any order, hence `Sorted` is a set. Fill
goroutines are records in `fills`; two with the same snapshot and position are
one, which loses nothing, since each hands over the same points.
`triggerFillLocked` and `Flush` fill only with two frames or more. In the
mapping to `FrameWindow` a frame counts as submitted when `SubmitFrame` lets go
of `r.mu`, and the window is closed when `Flush` does.

**`SpatialGrid`, `VoidFiller`.** Coordinates are integers and `CellSize` divides
the plane evenly; of a cell's points the positions are kept, in order, and
depths are reduced to *measured* or *interpolated*. Because
`NewSpatialGrid` adds one row and one column beyond the range and the upper
bound is excluded, the last row and column are void in every grid, so the early
return for `VoidCells == 0` is a branch that is never taken in practice; the
model has it all the same. An interpolated cell counts as a neighbour of the
cells after it, as in the code, so filling spreads. `OrdinaryKriging.Interpolate`
fails for too few neighbours (`MinKrigingNeighbors`) and succeeds otherwise, by
its own fallback if the system is singular. The void cells still to come are a
set, `todo`, of which `FirstCell` takes the next in the order of `GetVoidCells`,
column by column. `AddPoints` puts the points
of a batch into their cells one after the other, as the code's loop does; the
function is defined on how many have been added. Of more than `MaxKrigingNeighbors`
it takes the nearest, found by the quickselect of `Kriging`, which compares
squares of distances: its loop is a function of the number of iterations made,
whose values are the array and the range still to be searched. `vf.mu` is `mu`; `ReadPoints` and `Analyze` are the two reads made
after it is released. `reported` is the `FilledCells` that `FillFrames` works
out, the points returned less the points given. `pc = "autofit"` is the second `Lock` of `vf.mu` in
`UpdateVariogramFromGrid`; no action leaves it.
Inverse distances always succeed in the model: `fallbackIDW` fails only if the
weights of all neighbours, the inverse fourth powers of their distances, add up
to less than 1e-12, that is, if all are a kilometre away, and the neighbours
are those of a few cells around.

**`INSReader`.** Each byte of the buffer carries its place in the stream, which
the code does not store and the properties need. `ValidTS` is
`isValidTimestamp` with its signed difference; at 64 bits it cannot wrap into
the window for timestamps near the clock. `SetDataHandler` is called once
before `Start`, so the data handler is fixed. The clock may move between any
two steps.

**`RedisHub`, `FrameStore`.** `gw` follows the calls of `Gateway.Init` that
concern the profile: `Connect`, `GetLatestSSP` and the making of the beam
processor, `SetSSPUpdateHandler`, the two commands of `PublishSSP`. A pipeline
is not a transaction, so its commands are steps of their own, between which
those of other clients may come; the client or the server may fail before
either. The other programs publish with the same two commands. `channel` holds
all messages ever published, `from` and `heard` say which the subscription has
missed and delivered: go-redis delivers in order, loses what is published while
its connection is down, and subscribes again by itself. The handler is read
when a message is handled. `Trace` reads the pointer `rt.profile` anew at each of
its tests; `beam` is one beam's trace, with the profiles in force during it. A
pointer is replaced at once or not at all on the platforms Go supports, so the
data race amounts to that choice. After a `Connect` that failed the client
exists and is used, and `Disconnect` does nothing. `PublishFrame` indexes a frame
under the hour of the wall clock, and `GetFramesInRange`, which nothing in
the gateway calls, looks under the hours of its own arguments; `wall` is that
clock.

**`Gateway`.** A receiver is at one of `read`, `publish`, `process`, `submit`;
a call of Redis is one step whose result does not matter to its caller, as in
the code, which only logs it. `stop` follows `Gateway.Stop`: TCP, UDP, INS,
`Flush`, `Disconnect`, `printFinalStats`, which waits for `vf.mu` when a fill is
under way. `r.mu` is held while `Flushing`. Two goroutines may lock a mutex they hold:
a receiver is then `blocked` for good (`FeedBlocks`), and `vfmu` is `hung`
(`SelfLock`, in a fill goroutine or in `Flush`). Either may happen or not, as
the bytes and the grid have it.

## 4. Runs

Every passing run finishes in under two minutes with two workers and fires
every action of its module.

| Run | States | Question |
|---|---|---|
| `assembler` | 750,800 | however a stream of good, refused, undecodable, mis-sized frames and noise is cut: does framing do what `FrameStream` says? |
| `tcp` | 664,107 | connections, peers that go silent, leave or return, and `Stop` at any moment: is anything lost, untracked, or left running? |
| `reorganizer` | 123,043 | do map, heap and order agree on the newest frames, and does shutdown hand over exactly those? |
| `voidfiller` | 104,588 | two goroutines, three batches, kept and fresh grids, limits: do the accounts add up, is a measurement ever overwritten, are the nearest samples taken? |
| `insreader` | 316,956 | is a byte ever used twice, a good frame skipped or left lying? |
| `redis` | 229,893 | start-up, updates, lost connections, traces and shutdown in any order: which profile is in force, and what does a range of time find? |
| `gateway` | 257,964 | shutdown against everything that runs: what can hold it up, and does it lose frames? |
| `assembler_selflock`, `tcp_reuse`, `reorganizer_repeat`, `voidfiller_autofit`, `insreader_overrun` | – | each refutes one thing the code says of itself, section 5 |

### What each passing run shows

`assembler`:
- `BufferBounded`: no index outside the buffer.
- `AlignedOnSync`: header and payload are read where the sync word was found.
- `ScanSkipsNoSync`: the scan offset passes over no sync word, split ones included.
- `HealthyFeedFits`: unless the last frame was rejected, the next chunk fits.
- `StatsReconcile`: the counters of the metrics log add up at every step.
- `ImplementsFrameStream`: refinement of the abstract stream.
- `FeedTerminates`: the loop returns (or hangs at its own mutex, section 5).

`tcp`: `ConnsReconcile` (opened minus closed is the size of the map),
`ServedIsTracked`, `ServingBounded` (at most `maxConns`, plus one accepted
during `Stop`), `QuietAfterStop`, `StopEndsOrFeedBlocks` (`Stop` returns, unless
it waits for a handler whose `Feed` has blocked itself, as in disagreement 1;
silent peers and connections accepted meanwhile do not hold it up).

`reorganizer`: `CacheIsNewest`, `FlushHandsNewest`, `SubmitTerminates` (the
loop of evictions never finds `frameOrder` empty), `ImplementsFrameWindow` (a
fill works on the window as it was when it was triggered, and what is handed
over is a window or its frames in order of time).

`voidfiller`: `AccountsAgree`, `GridIsBatch`, `EligibleFilled`, `NearestChosen`
(quickselect against its definition, on the neighbours that occur), `OwnResult` (for calls that no other overtook; an overtaken one may return the
grid of another batch; nor does it report more cells filled than its patch has),
`CallsReturn`.

`insreader`: `NothingPlausibleLeft`, `FramesFollow`, `NoFrameSkipped`,
`StopTerminates`.

`redis`:
- `InForceIsAnnounced`: from the gateway's own announcement on, the profile in
  force is the last decodable one announced, unless it came before the
  subscription or is still under way. It holds because the handler is set
  before `PublishSSP`: a message that finds no handler is followed by the
  gateway's own.
- `TracesSound`: a beam is traced in the way that suits the profile used.
- `RangeFindsFrames`: a frame stored in the hour of its own clock is found until
  its counter comes again, and nothing is found that does not share a counter
  with a frame of the range.
- `UpdatesArrive`: an update that a subscription is there for is put in force.

`gateway`, with `AutoFitVariogram` as the gateway has it:
- `HubOutlivesLinks`: no link and no cached frame comes after `Disconnect`.
- `NothingLeftBehind`: where `Stop` ends, the newest frames were handed over.
- `StopEndsOrHangs`: `Stop` ends, or waits for a goroutine that has locked a
  mutex it holds, in a `Feed` or a fill (disagreements 1 and 4). There is no
  third way to hold it up, such as `Flush`, which waits for the filler with
  `r.mu` held, and receivers that wait for `r.mu`.

### Bounds, and why they are enough

- `Assembler.cfg`: sync word of 2 bytes, header 3, frames of 3 or 4, buffer
  4 × 4 = 16 (in the code, four times the longest frame), at most 20 bytes received. The chunks split a
  frame in the sync word, in the header and in the payload, put a sync word
  inside a payload, and give lengths outside the limits; 20 bytes go past the
  16 of the buffer, so compaction, giving up and overrun all occur. The limit
  of 4 errors is never passed within 20 bytes unless several frames in a row
  are bad, and both cases occur. The proofs lift all these bounds.
- `TCPServer.cfg`: three connections from three addresses, a limit of two: one
  to refuse, one to replace, one to arrive during `Stop`.
- `Reorganizer.cfg`: seven frames through a cache of three, fills every two:
  every frame position is evicted, a counter comes round again after its frame
  has gone, up to three fills are under way.
- `VoidFiller.cfg`: cells of two units, radius one, two calls of two
  goroutines over three batches. The second batch fits on the grid of the first
  with a point on its upper bound; the third does not fit; the first fits on
  the grid of the third. Limits of 0 (none) and 3 per tick; with and without
  the fallback. Four samples at most, so that most interpolations select.
- `INSReader.cfg`: frames of 4 bytes with timestamps of 2 in a buffer of 16
  (in the code 32, 8 and 1024; what matters, and is assumed, is that a frame
  fits in a quarter of the buffer), 22 bytes received, which overruns it.
- `RedisHub.cfg`: two other programs at a time, with profiles of none, one and
  two entries and one that cannot be decoded; one lost connection; and, in
  behaviours of their own (`Loads`), three frames with one counter, two of them
  a frame and the filled one made from it, the third of the next hour (`LastHour`
  is 1). Profiles and frames do not touch each other's state, so nothing is
  missed by taking them apart.
- `Gateway.cfg`: two handlers, UDP and INS, three pings through a cache of two
  with a fill at every frame: the first finds too few frames to fill, a frame is
  evicted, two fills may overlap, and `Flush` meets them. The counting of frames
  between fills is left to `Reorganizer`, where fills come every two. Any
  receiver of sonar data may block itself, and any fill hang.

`NConn`, `NFrames`, `NCalls`, `NPings`, `MaxBytes`, `MaxNow`, `Loads`,
`LastHour` and `NDrops` are the only bounds that the code does not have. Because they are reached, and because a
gateway nobody sends to or a stopped one has nothing to do, the configurations
say `CHECK_DEADLOCK FALSE`, but for `RedisHub.cfg`, where only a gateway that
has stopped may stand still; that nobody hangs in the middle of something is
stated by the liveness properties instead.

### Fairness

Weak fairness of what a goroutine does by itself: a goroutine that can run
does, as Go's scheduler has it. A mutex that is free again and again is not
assumed to be obtained by a particular waiter, except in `Gateway`, where
contention ends because the pings do. No fairness for the environment: no peer
has to connect, send or leave, no datagram has to come, nobody has to call
`Stop`, and the clock need not move. Nor has any `Feed` or fill to lock itself:
that is allowed, not required. In `RedisHub` the listener runs on and the
library subscribes again; nobody has to publish, and `Init` need not go on. A `Stop` that has begun goes on. Redis
calls return, since the client has its timeouts. In `VoidFiller`, a call is
followed from the moment it has `vf.mu`.

## 5. Disagreements

Five runs expect a violation. Each confirms, on a shortest trace, that the code
does not do what its own messages say. Details are in `PROJECT.json` under
`findings`.

1. `assembler_selflock` — after `maxConsecutiveErrors` errors in a row,
   `handleAssemblerError` calls `assembler.Reset()`, which locks the `a.mu` its
   own caller holds. "triggering resync" never happens; the receiver hangs.
2. `tcp_reuse` — a peer that reconnects from the same address before its old
   handler has unregistered loses its entry in `conns` to that handler; `Stop`
   does not close it and waits for it for ever.
3. `reorganizer_repeat` — a ping counter that repeats while cached (two sonars,
   or both links) replaces the map's entry but leaves the old frame in the
   heap, which outgrows the "Frame cache: %d frames" of the start-up log.
4. `voidfiller_autofit` — with `AutoFitVariogram`, which
   `DefaultFillerConfig` sets and the gateway keeps, the first fill locks
   `vf.mu` twice and never returns. For the gateway this means that two frames
   in the cache are enough for `Stop` not to end: `Flush` hangs in its own fill,
   or behind a fill goroutine, `Disconnect` is not reached, and the frames that
   `Flush` has taken out of the cache are not published. "=== AUV Sonar Gateway
   stopped ===" is reached only if no fill has met a void cell. `Gateway` has
   these steps (`FillHangs`, `FlushHangs`).
5. `insreader_overrun` — "INS buffer overrun, resetting" keeps up to 31 bytes,
   so a frame may be pieced together across the datagram that was dropped.

The passing runs say what holds otherwise. Some set the constants that exclude
a disagreement: `AddrReuse` and `PingsRepeat` are FALSE, and `voidfiller`
describes the filler as it would behave without the automatic fit. The others
have the fault in them and name it in their liveness property:
`FeedTerminates` accepts the blocked state, `StopEndsOrFeedBlocks` a `Stop` that
waits for a blocked handler, and `StopEndsOrHangs` one that waits for that or for
`vf.mu`. `gateway` runs with the automatic fit on.

Smaller observations, of which no property is made, because nothing in the
repository says otherwise:

- `FillFrames` passes on a fresh `PatchFillResult` and discards the one of
  `ProcessAndFill`, so the "Last Patch" line of the metrics log shows 0 for
  kriging, IDW and time. Its `FilledCells` is the number of cells with data
  minus the number of points, which is negative where cells hold several points:
  never more than were filled (`OwnResult`), often fewer.
- Two fill goroutines may finish in either order, so that `filledPoints` may go
  back to an older snapshot.
- `Init` writes the profile it read back to `ssp:latest`; a newer one that
  another program published in between is overwritten.
- The beams of one ping may be traced with different profiles.
- A filled frame has the counter of the last frame of its snapshot, and
  overwrites the hash of that frame if it was stored. Frames that leave the
  cache by eviction are published only as part of a filled one.
- A packet of exactly the bytes that the decoder reads is refused from seven
  beams on (theorem `ExactLength`).

## 6. Proofs

Every safety invariant, every action property and both refinements that a
passing run checks are theorems: they hold for all values of the constants that
satisfy the named assumptions of the modules. Of each liveness property,
the part that is not fairness is a theorem as well (*Progress* below).

`AssemblerProofs` proves, for every alphabet, sync word, header and frame
sizes, verdict, set of chunks and error limit that satisfy
`AssemblerAssumption` (the sync word is shorter than a header, a header no
longer than the shortest frame, a chunk no longer than the longest frame: the
callers read at most 32768 bytes (TCP) and 65535 (UDP), the longest frame has
65535, and the buffer holds four of these):

| Theorem | States |
|---|---|
| `Invariance` | `Spec => []IInv` |
| `TypeCorrect` | `TypeOK` |
| `NoIndexOutOfRange` | `BufferBounded` |
| `ReadsBehindSync` | `AlignedOnSync` |
| `SyncNeverLost` | `ScanSkipsNoSync` |
| `OverrunOnlyAfterRejection` | `HealthyFeedFits` |
| `CountersReconcile` | `StatsReconcile` |
| `Refinement` | `ImplementsFrameStream` |
| `FeedIsBounded` | a `Feed` makes a bounded number of passes |

The argument. `TypeOK`, `BufferBounded`, `AlignedOnSync` and `ScanSkipsNoSync`
are not inductive together, for two reasons, and `IInv` adds what is missing:

- `ScanWithin`: an offset that was scanned lies a whole sync word before the
  end of what is buffered. Without it, bytes that arrive later could complete a
  sync word at an offset already skipped; `SyncAtAppend` says that this is the
  only danger, since what stands within the old bytes does not change.
- `IdleRoom`: when `Feed` has returned without an error, either less than a
  frame is buffered, or the state machine is looking for a sync word and uses
  at most half of the buffer. With it `HealthyFeedFits` follows: less than a
  quarter is compacted, and a half leaves room for two frames. A rejected frame
  is the exception, as `Feed` then returns with the rest not looked at.

Each action preserves `IInv` in a lemma of its own (`FeedInv`, `FindSyncInv`,
…). `StatsReconcile` needs `IInv` for the overrun: a reset that threw away a
header being read would break the sums, and `OverrunState` shows that it happens
only in the state `FRAME_READY`. The refinement proof uses the same facts: every
`FindSync` is a `Skip`, because offsets before the one found hold no sync word,
the scanned ones by `ScanSkipsNoSync`; `GiveUp` needs that no offset at all does;
`RejectHeader` skips one byte whose header was read there (`AlignedOnSync`); and
an overrun is a step of the abstract stream only after a rejection.

The last section of `AssemblerProofs` takes `Decoder` with the constants of the code and proves
`TakenIsWhole` (a frame taken holds all the beams it states), `ExactLength` and
`UndecodableOnlyIf` (of the valid frames of 40 bytes or more only those of two to
five beams can fail in the decoder) for every length.

`RedisHubProofs` proves, for any number of other programs, profiles, frames, lost
connections and hours that satisfy `RedisHubAssumption` (the default profile can
be decoded and has layers):

| Theorem | States |
|---|---|
| `TypeCorrect` | `TypeOK` |
| `LastAnnouncedInForce` | `InForceIsAnnounced` |
| `UpdatesSpoilNoTrace` | `TracesSound` |
| `RangesAreComplete` | `RangeFindsFrames` |
| `UpdatesGetNearer` | each step of `listenSSP` brings an update nearer |

`InForceIsAnnounced` speaks only of states where everything published was heard,
and is not inductive. `Announced` says the same of the messages heard so far,
from the gateway's own one on; `Known` says that this one was published with the
handler set and can be decoded, so that the last decodable message is never
an earlier one. `Shape` ties the handler to the steps of `Init`. For
`TracesSound`, `InSight` adds that the profile in force is among those a trace
under way has seen. For `RangeFindsFrames`, `IndexIsLast` and `HashIsLast` say
what is in Redis after any number of commands: under an hour and a counter the
entry of the last frame indexed so, under a counter the hash of the last frame
stored. If a frame's counter was not used again, both are its own, and its hour
lies between those of the ends of the range (`HourInRange`).

`TCPServerProofs`, for any number of connections and addresses and any limit:

| Theorem | States | Needs |
|---|---|---|
| `TypeCorrect` | `TypeOK` | – |
| `NothingRunsAfterStop` | `QuietAfterStop` | – |
| `NeverUndercounts` | the map is no larger than opened minus closed | – |
| `ServedInMap` | `ServedIsTracked` | `~AddrReuse` |
| `CountersAgree` | `ConnsReconcile` | `~AddrReuse` |
| `LimitHolds` | `ServingBounded` | `~AddrReuse` |
| `StopAwaitsNoPeer` | no handler that `Stop` waits for waits for its peer: it nears its end or has blocked itself | `~AddrReuse` |

The first three rest on `IInv`: what `acceptLoop` has in hand (`InHand`), which
sockets are open (`Sockets`), how far `Stop` has come (`Stopping`), and that no
connection is counted before it is accepted (`Counted`, which bounds the
counters). The others are false when an address comes back too early, which
is disagreement 2 of section 5. Without that, `Distinct` says that connections
the server is not done with have different addresses, and `Registered` that the
map leads from an address to the connection that has it: so the deferred
`delete` of a handler removes its own entry. `LimitHolds` also needs that after
the sweep only the one connection that `acceptLoop` has in hand can be added
(`Bounded`).

`ReorganizerProofs`, for any number of frames, cache size, fill interval,
counters and timestamps: `TypeCorrect` (`TypeOK`) without condition and, with
`~PingsRepeat` (disagreement 3 otherwise), `CacheHoldsNewest` (`CacheIsNewest`),
`FlushHandsOver` (`FlushHandsNewest`) and `Refinement` (`ImplementsFrameWindow`).
`CacheIsNewest` speaks of moments when `r.mu` is free. `Ordered` extends it to
those within `SubmitFrame`, when there may be one frame too many, and ties the
three containers together: `frameOrder` has the counters of the newest frames in
the order of their arrival, the heap these frames, and the map one entry for
each, so the counter at the head of `frameOrder` is always that of the oldest
frame in the heap. `Flushed` says what `Flush` works on between its steps,
`Snapshots` that no two fill goroutines have the same frames, without which a fill could
be handed over twice, and `Pieces` that goroutines hand over at least two frames
at a time, so that single frames come from `Flush` alone.

`INSReaderProofs`, for any datagrams, clock and window that satisfy
`INSReaderAssumption`: `TypeCorrect` (`TypeOK`, with the bounds of the buffer),
`NothingWaits` (`NothingPlausibleLeft`), and the action properties
`FramesInOrder` (`FramesFollow`) and `SkipsNoFrame` (`NoFrameSkipped`). Of the
assumption, that a datagram is a non-empty sequence of bytes and a timestamp a
natural number are the types of the code; that a frame fits in a quarter of the
buffer (32 of 1024 bytes in the code) is what keeps an overrun, which drops all
but the last bytes, from leaving bytes that were already read. `InOrder` keeps
the order of the bytes through compaction and overruns; `Behindhand`
that the last frame lies before everything unread and has set the clock.

`GatewayProofs`, for any number of handlers, pings and cached frames:
`TypeCorrect` (`TypeOK`), `ClientClosedLast` (`HubOutlivesLinks`) and
`NewestHandedOver` (`NothingLeftBehind`). `Down` relates each phase of
`Gateway.Stop` to the goroutines that have ended by then; `Kept` says where the
newest frames are in each phase: in the cache, in the hands of `Flush`, or
handed over. These hold with the two self-locks among the steps; `InsUnblocked`
says that the INS link, which has no such `Feed`, is never one of those blocked.

`VoidFillerProofs`, for any number of goroutines, batches, cells, search radius
and tick, with and without IDW and the automatic fit:

| Theorem | States | Rests on |
|---|---|---|
| `TypeCorrect` | `TypeOK` | `IInv`, `Data` |
| `AccountsHold` | `AccountsAgree` | `IInv` |
| `OwnVoidsFilled` | each interpolation fills another void cell of the call's own grid | `IInv` |
| `DataInvariance` | `Spec => [](IInv /\ Data)` | |
| `GridHoldsBatch` | `GridIsBatch` | `Data` |
| `EligibleCellsFilled` | `EligibleFilled` | `Data` |
| `OwnResultReturned` | `OwnResult` | `Data` |
| `NearestAreChosen` | `NearestChosen` | `Data`, `QuickSelected` |
| `CallsGoForward` | a call has only so many steps to make | `IInv` |

The first invariant, `IInv`, counts. `AccountsAgree` speaks of
finished patches and of moments when `vf.mu` is free. In between, `PatchAdds`
counts the cells to come as well; `StatsAdd` adds to `stats.filled` what the
holder of `vf.mu` has filled and not yet counted there (`Pending`), and says that
the cells detected leave room for all voids of its patch, which the limit of a
tick may turn into skipped ones in one step. `Exclusive` says that one caller
holds `vf.mu`, and that those about to read the grid meanwhile are marked as
overtaken.

The second, `Data`, is about points, and is inductive together with `IInv` only:
that the grid at hand is the call's own, and that the cell filled was void, are
facts of `IInv`. `Fits` says that the batch lies within the bounds that the grid
was laid out for, `Measured` that the cells with data are those that the batch
hits and those filled since, and that the others are void. A void cell passed
over had too few neighbours when its turn came, measured and interpolated ones
together; `Few` keeps of this that it has too few measured ones, which fills do
not change, while the neighbours of either kind may well be enough by the end
of the patch. A call that has released `vf.mu` keeps what it has read, unless it
is marked as overtaken.

`GridProofs` holds what this needs of the operators. A loop of the code is a
recursive function there, on the number of its iterations. That such a function
exists (`LoopRuns`), and that what each iteration keeps holds at the end
(`LoopKeeps`), is proved by a first iteration after which it would not hold,
since the library's induction theorems cannot be used. With these two the
lemmas about `AddPoints`, about the neighbours collected cell by cell, and about
quickselect are proved one iteration at a time. `QuickSelected`: before each
iteration the items before `lo` are no farther than the others and those after
`hi` no nearer, `k` lies between, and the range gets shorter, so when as many
iterations are over as there are items, the first `k` are the nearest.
`PartitionItems` keeps the items and splits the range at its pivot. The other lemmas
say that a batch has bounds, that a grid made or used
again is empty and finite, that `GetVoidCells` has a first cell, and
(`SameCell`) that a cell is found again from its centre.

**Progress.** Fairness and ENABLED are out of the prover's reach, so no liveness
property is a theorem. What can be proved is that the loops are finite and
that nobody is waited for in vain; with that, a liveness property needs only that
a goroutine that can run does.

| Theorem | Of the property | States |
|---|---|---|
| `AssemblerProofs!FeedIsBounded` | `FeedTerminates` | each pass ends the `Feed` or lowers `PassesLeft`, which is at most four times the capacity and 3. A header that is refused consumes one byte and goes back to looking for a word, so bytes count four times and the state makes up for the rest. |
| `INSReaderProofs!FeedIsBounded` | `StopTerminates` | each pass of `processLocked` leaves the loop or takes a byte off the buffer, and nothing is added meanwhile |
| `ReorganizerProofs!EvictionEnds` | `SubmitTerminates` | `frameOrder` has a counter to evict while the cache is over its limit, also when counters repeat, because every key of the map is in it (`Listed`) |
| `TCPServerProofs!StopAwaitsNoPeer` | `StopEndsOrFeedBlocks` | after the sweep no handler is in a `Read` on an open socket, also the one accepted after it, and every step leads nearer to the end or into a `Feed` that blocks itself |
| `VoidFillerProofs!CallsGoForward` | `CallsReturn` | a step takes a call to a later stage, or leaves fewer void cells to come; other callers change neither |
| `RedisHubProofs!UpdatesGetNearer` | `UpdatesArrive` | after every step an update is still to come or in force, and each step of `listenSSP` leaves one message fewer before it, until the connection is lost or the client closed (`ClientUp`: by `Disconnect` only) |
| `GatewayProofs!OnlySelfLocks`, `LinksWindDown` | `StopEndsOrHangs` | the two self-locks are all that can hold up `Stop`: whoever it waits for has ended, can move, or is a sonar receiver blocked in its own `Feed`; `vf.mu` is held by one fill or by `Flush` (`Held`), and is `hung` only with `AutoFitVariogram`; no receiver wants the `r.mu` that `Flush` holds; a receiver whose link is down is at most four steps from its end, or was blocked before |

Model-checked only:

- the liveness properties themselves: `FeedTerminates`, `SubmitTerminates`,
  `CallsReturn`, `StopTerminates` of the INS reader, `StopEndsOrFeedBlocks`,
  `StopEndsOrHangs` and `UpdatesArrive`;
- the violations of section 5, which are counterexamples;
- that bits are read in the order of the code: `MCAssembler` compares `ReadBits`
  with a reference for all data of two short bytes (`ReaderIsRight`). It computes
  with powers of two, which the provers do not interpret, and recurses over the
  bytes of the data. The proofs about `Assembler` do not depend on it, because
  `Verdict` is a parameter there.

## 7. Not modelled

- Floating-point computation: kriging weights, variograms, the geometry of rays,
  coordinate transforms (`coord/transform.go`, which has no state). The variogram fit (`UpdateVariogramFromGrid`) would need `IsEdge`
  and depths, but is never reached past its first statement (finding 4).
- Operations without a caller: `Reset` and `DrainTo` of the assembler from
  outside, `Reset` of the processors, `ForceFill`, `SetSlidingWindow`,
  `SpatialVoxelGrid`, `ReadConstrainedWholeNumber`, `ReadBitField`, `ByteAlign`
  and `GetLatestINS`. (`GetFramesInRange` has none either, but it is what the
  frames are stored for, and is modelled.)
- The metrics log and the statistics published every ten seconds, which read
  counters and change nothing but the log; statistics that no property relates
  to, JSON, configuration and log texts.
- Errors of `Init` and `Start` that end the process at once.
- The library `go-redis`: a call returns, and after `Close` fails; its
  subscription is as described in section 3, except that it also drops messages
  when its buffer of 100 is full for a minute. Keys never expire in the model.

## 8. Plan

Written, in this order: `Frames`, `FrameStream`, `Assembler` and its
proofs, `TCPServer`, `Reorganizer`, `SpatialGrid`, `VoidFiller`, `INSReader`,
`Gateway`, `FrameStore`, `RedisHub` and its proofs, `Kriging`, `Decoder` and its
proofs, `FrameWindow`; then the proofs about `Gateway`, `Reorganizer`,
`TCPServer`, `INSReader` and `VoidFiller`, with those about its grid; and last
the progress theorems.

The state that the repository's code keeps is modelled, with the exceptions of
section 7, and every safety property that a passing run checks is proved.
Left:
1. `Reorganizer` with repeating counters: by how much the heap can then outgrow
   the map (disagreement 3).
2. `INSReader`: what an overrun can piece together at most (disagreement 5), as
   an invariant.

## 9. Running it

    tlc -workers 2 -config Assembler.cfg MCAssembler
    tlapm AssemblerProofs.tla

and likewise for the other configurations; `PROJECT.json` names the module of
each.
