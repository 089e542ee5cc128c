# TLA+ models of the traffic system's location service

The repository turns drivers' GPS points into congestion states. This directory
holds TLA+ modules translated from its Go code (`src/services/location-service`,
written `L/` below), TLC configurations that check them on small instances, and
TLAPS proofs for every value of their constants.

## The system

| Part | State it keeps | Operations | Talks to |
|---|---|---|---|
| HTTP handler (`L/internal/httpapi`) | none | `POST /locations`: decode, canonicalize, read the clock, `Process` | pipeline, one goroutine per request |
| Canonicalizer (`L/internal/gps`) | none | `Canonicalize`, `parseRecordedAt` | - |
| Pipeline (`L/internal/pipeline`) | none of its own | `Process`: buffer, match, add each observation, flush | all below |
| Trace buffer (`L/internal/trace`) | points per driver, under one mutex | `Add` | - |
| Matchers (`L/main.go`, `L/internal/matching`) | none | `vehicleMatcher.Match`, `encodeGPX`, `adaptResponse` | GraphHopper over HTTP |
| Traffic processor (`L/internal/traffic`) | last time per driver, open windows, pending windows, reference speeds, under one mutex | `Add`, `Flush` | calculator, reference store |
| Calculator (`L/internal/traffic/calculator.go`) | none | `Calculate` | reference store |
| Demo calculator (`L/internal/mapview/congestion.go`) | per call | `Calculate`: reads a file, makes traces, one processor of its own | matcher |
| Edge reader (`L/internal/mapview/edges.go`, `L/internal/tile38`) | one connection per call | `ReadAll`, `ReadBounds`, `ReadDistance` | Tile38 over TCP |
| Map page (`L/internal/mapview/web/map.html`) | edges, layers, keys shown | `loadEdges`, `calculateCongestion` | `GET /v1/graph-edges`, `POST /v1/demo/congestion` |
| Importer (`L/cmd/graph-edge-importer`) | lines read and processed | validate and `SET` a file's features, one by one | Tile38, a file |
| Benchmark targets (`L/cmd/gps-vegeta-targets`) | drivers read, cycle | write recorded points as requests, cycle after cycle | a file, Vegeta, which posts to the handler |
| Matching demo (`L/cmd/matching-demo`) | none | match one fixed trace | GraphHopper |
| Server (`L/main.go`) | configuration | start, serve, drain on a signal | all above |

**What is hard here.** Requests run concurrently and hold no lock across a
whole `Process`: the buffer's lock is taken once, the processor's once per
observation and once for the flush, and the matcher is called in between. So
traces of one driver can overtake each other, and `now`, read before all of
that, may be old when it is used. Traces overlap on purpose, so the processor
must recognise repeats. Several steps can fail half-way: the matcher, one
observation of a trace, one window of a flush, one `SET` of an import. Nothing
runs on a timer: only requests close windows. Nothing is persisted, so a
restart forgets what clients may send again; and nothing but the end of the
drain limits how long a body may take. In the map page, loads of edges and the
painting of a demo interleave at every await.

**What makes each part correct.** The buffer: bounded, rising traces, no point
skipped, no new point overdue unless a panic left it. The matchers: each answer on its own point, nothing
that the processor cannot use. The processor: a driver's observations in order
and at most once, every counted sample in exactly one window and reported once,
and at last if flushes keep coming. The calculator: the median, and a level that follows the evidence.
The service: no point counted twice or silently skipped, every request
answered or cut off with the server, and over all its lives no point reported
more often than it was sent. The demo: an answer equal to a direct count. The
reader: no edge twice; unless it says so, none missing that a scan found stored
when it began, nor, while nothing is imported, from a search. The importer: a
success means all is stored, and a traversal key means one feature. The page: the
newest edges, coloured by one demo. The generators: every event once, a
driver's times rising.

## Modules

`TraceBuffer`, `DriverState`, `Aggregator`, `ReferenceSpeeds`, `Calculator`,
`TrafficProcessor` and `Matching` each model one part: its variables and one
action, or operator, per outcome of an operation. They have no next-state
relation of their own, so that they can be closed by an environment (the
`...Stream` modules) or composed (`Pipeline`, `Service`, `DemoCongestion`); so
does `Importer`, whose steps `EdgeReader` composes with the reader's.

| Module | Code | State and actions |
|---|---|---|
| `TraceBuffer` | `trace/buffer.go` | `config`, `pointsByDriver`; `AddRefused`, `AddBuffered`, `AddEmitted`, `AddPanicked` are the outcomes of `Buffer.Add` |
| `TraceFeed` | abstract | the accepted points of a driver and the intervals cut from them |
| `TraceStream` | `TraceBuffer` called with any event in any order | histories `accepted`, `traces`, `outcome` |
| `Observation` | `traffic/observation.go` | `IsValid`, `CanAggregate`; `ZeroTime` is Go's zero time |
| `DriverState` | `traffic/driver_state.go` | last time per driver; repeated, older, remembered |
| `Aggregator` | `traffic/aggregator.go` | open windows; `Aggregate`, `Close` |
| `ReferenceSpeeds` | `traffic/reference_speed.go` | last maximum speed per segment |
| `Calculator` | `traffic/calculator.go` | `Calculate` as an operator; ratios are pairs compared by cross-multiplication |
| `TrafficProcessor` | `traffic/processor.go` | the four above and `pendingWindows`; `AddRecordError`, `AddStateError`, `AddRepeated`, `AddNoted`, `AddAggregated`, `FlushDone` |
| `PointLedger` | abstract | samples counted once in order, reported once |
| `TrafficStream` | `TrafficProcessor` called with any observation and any time | histories `taken`, `reported` |
| `WindowGrowth` | `Calculator` on a growing window | `samples`, `reference` |
| `Canonical` | `gps/canonical.go`, the decoder of `httpapi/handler.go` | `DecodeRefused`, `CanonicalizeRefused`, `Canonicalize` as operators on payloads |
| `Matching` | `main.go` `vehicleMatcher`, `matching/graphhopper` | what is refused, how answers join points |
| `MatchCall` | `Canonical` and `Matching` on one call | posted payloads, then declined, or a trace, then an error or observations |
| `Pipeline` | `httpapi/handler.go`, `pipeline/pipeline.go` over `TraceBuffer`, `Matching` and `TrafficProcessor` | `requests[r]` is a goroutine's place, event, `now`, trace and observations left; one action per lock-held step |
| `Service` | `main.go` `run` around `Pipeline` | `server`, `starts`, a connection whose body has not come; `Signal`, `Drained`, `DrainTimesOut`, `Crash`, `Start` |
| `DemoCongestion` | `mapview/congestion.go` over `TrafficProcessor` and `Matching` | the loop over drivers and traces, one step per trace and per observation, one flush |
| `Importer` | `cmd/graph-edge-importer` | `run`, `file`, what was `written`; one action per outcome of a line |
| `EdgeReader` | `mapview/edges.go`, `tile38/client.go` over `Importer` | one page per step; `Import` is any step of the importer and what becomes of its collection |
| `MapPage` | `mapview/web/map.html` | picker, timer, loads, `allEdges`, `edgeLayer`, demo; an action per stretch between two awaits |
| `Selection` | the loops that pick elements of a list | `SelectAt`, for `DemoCongestion` and `BenchTargets` |
| `BenchTargets` | `cmd/gps-vegeta-targets` | one generator per shard: its drivers and the variables of its loops; `WriteTarget`, `PassDriver`, `NextCycle` are their turns |
| `MC...` | - | values for TLC |
| `TraceStreamProofs`, `TrafficStreamProofs`, `ServiceProofs`, `MapPageProofs`, `EdgeReaderProofs`, `MatchCallProofs`, `DemoCongestionProofs` | - | theorems about the module they are named for; `TrafficStreamProofs` also about `WindowGrowth`, `DemoCongestionProofs` also about `BenchTargets`, the other reader of recorded files |
| `TrafficProcessorProofs` | - | lemmas about `TrafficProcessor` and `Calculator` for the proofs of `TrafficStream`, `WindowGrowth` and `Service` |

Abstractions. Times are integers. Coordinates, bearings, names and the texts of
errors are left out. The graph version is a constant of the process. A window
is its key and the sequence of its samples; a sample keeps its time, which the
code drops, so that samples can be told apart. Speeds are whole numbers, so
float64 rounding and overflow are outside the model; seconds of a time stamp
are kept in tenths of a millisecond, so that its rounding is inside. An int64 of the
importer keeps its width: `TwoTo63` is a constant, and so is what the machine's
conversion makes of 2^63 (`OutOfRange`). Trimming
and upper and lower case are tables over the texts that occur. A payload and a
feature are functions from field names to values, so that a field may be
absent, unknown, or (in a feature) of the wrong type; what the decoder refuses
for a wrong type or for text after the object is left out. A benchmark target is
taken as written when it is encoded: the buffered writer's last `Flush` is
deferred and its error ignored. GraphHopper and Tile38
are external: the first may answer anything or fail, the second lists a
collection by id (SCAN) or in any order that a write may change (INTERSECTS).
A definition whose comment begins "The same ..." or describes a changed
comparison (`ValidateLoose`, `NeverOlder`, `DrainForever`, ...) is a plausible
bug; the manifest names, for every property, the one that violates it.

## Runs

| Run | Instance | Shows |
|---|---|---|
| `trace_stream` | 2 drivers, times 1..5, up to 4 accepted points each, every configuration with maxPoints up to 4 | the buffer's promises, and that it implements `TraceFeed`; deadlock is checked |
| `match_call` | one or two payloads: plain ones with any answer of up to 3 entries; ones with any one field odd, and all pairs of clock readings around a full hour, with a plain answer | the time recorded is the time taken, answers meet their points, what passes fits the processor |
| `window_growth` | up to 6 samples of 2 drivers, 3 speeds, 2 references or none | median, confidence, monotone levels |
| `traffic_stream` | 2 drivers, 3 times and one in the window of the zero time, every kind of observation, flushes at 2 times, 3 samples, both kinds of store | order, no loss or repeat, refinement of `PointLedger`; if flushes keep coming, every sample reported at last |
| `service` | 3 concurrent requests of one driver in one life of the server, or 4 in a row over two lives; 2 clock readings, one overlap point, and an overlap that panics, with offline points and changes of vehicle, a signal, a drain and a crash at any moment | the service's promises under every interleaving, and that requests and drains end |
| `demo_congestion` | 7 recorded files and an unreadable one, traces of 4 points that share 2, a budget of 2 traces | the answer is the direct count |
| `edge_reader` | 2 collections of up to 4 objects, the directions of a road not equally long, pages of 2, 2 runs of the importer over files of 2 or 3 features, 85 of them with properties that are wrong, unusual or at the end of an int64 of 4 bits | completeness, limits, distance, termination; keys belong to one feature, successful runs stored their file |
| `map_page` | 3 distances over 6 directions of 4 roads, 4 changes of the picker, 2 demos of up to 2 states, a patient and a hasty user | the newest load wins, one demo's colours, the picked distance, the button comes back |
| `bench_targets` | 7 files of up to 5 rows and 3 drivers around a full minute or the zero time, with every combination of limits; 2 shards, up to 9 targets each | each event once, times that rise across cycles |
| `pipeline_overlap` | 4 requests, two overlap points | **violated**: see Findings |
| `trace_panic` | as `trace_stream` | **violated**: see Findings |
| `targets_refused` | as `bench_targets` | **violated**: see Findings |

Bounds. The buffer's code compares lengths only with the configuration, and
with maxPoints up to 4 every order of minPoints, overlapPoints and maxPoints
occurs, as does a second trace that starts with an overlap. The processor looks
at one observation, one driver's last time and one window at a time: two
drivers and times on both sides of a window's end reach every branch, and three
samples allow a window that is reported, reopened by a late sample, and closed
again. Overtaking needs two requests with traces; a third one provides the
first point. A point can be reported before a restart and sent again after it
with two requests in each life, hence four in a row. Six samples are twice three, so that confidence can be full in one
of its terms and not in the other. Two overlapping traces, and a driver left
when the budget is spent, fit in six points. A shifted page needs a full page
before and an object after it: four objects and pages of two. One failed run of
an import and one after it are enough to leave a file half stored and complete
it. A late demo needs one pick after it was asked; four picks allow that twice.
Nine targets are at least two whole cycles of either shard and the beginning of
another. `Service` lets one body at a time be late, which is as many as the
drain needs to be stuck.

`CHECK_DEADLOCK FALSE` is set where the system may stop: a call that has been
answered, a window at its bound, a bounded number of requests.

Fairness. `TrafficStream` assumes none. Nothing in the code promises a flush:
there is no timer, a service that receives no request closes no window, and a
request that the buffer, the matcher or the processor refuses returns before its
`Flush` (pipeline.go:69, 76, 81), as in the first finding.
So `EventuallyReported` names flushes as its hypothesis: if flushes at a time
`now` are not put off for ever while windows are due, nor fail for ever for an
external store's sake (`FlushesKeepComing`), then every sample of a window that
ended by `now` is reported. Without the hypothesis TLC finds it violated; with
it the property is about the processor, which must not lose a window that
failed, was retried or was reopened. `Pipeline` and
`Service` assume that each request's goroutine runs on (the mutexes are held
only for finite work, and `http.Client.Timeout` bounds the match), and
`Service` that the context of `Shutdown` ends (`context.WithTimeout`, ten
seconds); nothing is assumed of clients, who may keep a body back for ever.
`EdgeReader` assumes that the reader runs on: every command has a five-second
deadline. `MapPage` assumes that the demo's request is answered or its
connection breaks, and that the browser's timers fire; loads of edges may hang.

## Findings

1. `pipeline_overlap`, `DuplicatesIgnored`. `DefaultBufferConfig`, `main.go:408`
   and `docker-compose.yml:120` keep two overlap points. The first of them is
   then older than the driver's last timestamp when the next trace is added, so
   `DriverStateBuffer.Add` (driver_state.go:51) returns an error instead of
   ignoring it: the request is answered 500, the new points of the trace are
   dropped and no window is flushed. The client did nothing wrong: it sent its
   points in order and waited for each answer. With one overlap point, the only
   value the pipeline's test uses, it cannot happen (`SerialNeverOlder`). The
   demo has the same overlap (`congestion.go:116`); there the whole answer
   becomes a 422.
2. `trace_panic`, `EmitsAtMaxDuration`. `Validate` accepts an overlap longer
   than minPoints, and `Add` then panics when maxDuration is reached early
   (buffer.go:103). The buffer still stays bounded (`BufferBounded`) and recovers
   once it holds overlapPoints points.
3. `targets_refused`, `TargetsDecode`. `gps-vegeta-targets` writes bodies with
   the fields `event_id`, `recorded_at_ms`, `longitude`, ... for the
   "location-service GPS endpoint" (its main.go:126), which decodes with
   `DisallowUnknownFields` (handler.go:101) and answers each of them 400.

Seen while modelling, and part of the models: a date in the year one opens a
window at Go's zero time, which `Calculate` refuses for ever, so that every
later flush returns an error (`OnlyZeroWindowPends` says that it is the only
such window); an OFFLINE point is accepted by `Canonicalize` and refused by the
processor, which fails its trace; the states that a failing flush did calculate
are lost to the caller; a demo that answers late cuts the edges loaded since to
its own distance until the next load (`PatientViewIsAsPicked` is stated for a
user who waits), and one without states leaves the old colours on the map; the
page compares its 500 km limit with the picker and not with the edges that it
sends; the importer compares `edge_id` and `traversal_key`
as float64s, in which `math.MaxInt64` is 2^63, so that 2^63 passes (main.go:347),
and where the conversion to int64 then yields -2^63, twice that is 0, the
traversal key of edge 0 (`OneFeaturePerKey` is stated for edge ids that an int64
holds; without that TLC finds it violated); generators take a time of zero
milliseconds for "no minimum yet"
(`DriverTimesRise` therefore supposes `NoneAtZero`: a point at the first moment
of 1970 makes the next one the minimum, and cycles then overlap by that much),
and accept seconds of NaN.

## Proofs

Every theorem holds for any values of the constants that satisfy the named
assumptions of the module it is about; the invariants below were checked by TLC
on the run's instance before they were proved.

**The trace buffer** (`TraceStreamProofs`, from `EventAssumption` and
`ConfigAssumption`):

- `TypeCorrect`: the types, which give the lengths and indices below.
- `BufferIsBounded`: inductive together with the type; an emission leaves
  overlapPoints < maxPoints points, and anything else fewer than maxPoints,
  since `ShouldEmit` was false or the slice was too short.
- `PanicNeedsLongOverlap`: from the type and one step.
- `NothingIsOverdue`: points that are enough and span maxDuration are the overlap
  of the last trace, or too few for the overlap's slice, which only happens
  before a driver's first trace. The strengthening (`OverlapKept`) is that after
  a trace a buffer never holds fewer than overlapPoints points, so that a panic
  cannot follow one.
- `TracesAlwaysRise`: a point is appended only if newer than the last one held.
- `BufferIsSuffix` (the strengthening): what a driver's buffer holds is the end
  of what was accepted from it. With it, `StreamAlwaysRises`: if the overlap is
  positive the last point accepted is still in the buffer, so "newer than the
  last held" is "newer than all accepted".
- `BufferImplementsFeed`: `Spec => ImplementsFeed`. The abstract index is the
  position of the oldest point held; a stored point is `Take`, an emission
  `Cut`, a refusal a stutter, and a panic a `Take`.

**The traffic processor** (`TrafficStreamProofs`, from `ObservationAssumption`
and `WindowAssumption`; `TrafficProcessorProofs` holds the lemmas about `Add`
and `Flush` that the service's proofs use too):

- `TypeCorrect`; `DriversInOrder`: the last time of a driver bounds every
  sample taken from it; `SamplesStayInTheirWindow`: by the arithmetic of
  truncation; `ZeroWindowAlonePends`: strengthened by "every recorded speed is
  positive", without which a lookup could fail.
- `EverySampleOnce`: strengthened by "every sample taken is in exactly one
  open, pending or reported window, and these hold no other". It needs
  `DriversInOrder`, which makes samples distinct.
- `ProcessorImplementsLedger`: from the same invariant. An aggregated
  observation opens its sample, a noted one moves its driver's time on, a flush
  reports the samples of the windows that did not fail.

**The service** (`ServiceProofs`, for any number of requests, any drivers,
events and answers, and every configuration that `Validate` accepts, across
drains, crashes and restarts):

- `PointsCountedInOrder`: the processor remembers the newest point it noted of
  each driver, whatever request brought it.
- `FlushesOnlyNoted`: what a request has left to add is the end of its trace,
  and the rest of its trace is noted. A refused point ends the request, so only
  a whole trace reaches the flush.
- `NotedStaysBehind`: whatever is noted, or on its way in a trace, is not newer
  than the last point in its driver's buffer, which an overlap keeps there.
- `SerialClientNeverOlder`: a client that waits has one request at a time for a
  driver; with one overlap point the trace starts where the driver's last one
  ended, so the first point can be repeated but never older.
- `ReportsOnlyWhatCame`: within a life a point is in at most one window, as
  the windows' samples have distinct times; across lives, a point that a new
  process counts was sent to it again. Inductive is: the copies of a point that
  earlier lives reported, and one more if it is in flight, buffered or noted
  now, are no more than were sent.

**The calculator** (`TrafficStreamProofs`, for windows of any length, any
speeds and references, from `GrowthAssumption`; the lemmas about sorted lists are in
`TrafficProcessorProofs`). A sorted list is defined by what its places hold, and
that such values exist is a lemma. `MedianInTheMiddle`: a value has at most half
of the samples on either side exactly if it lies between the two middle places.
`EvidenceKeepsItsWeight`: samples and drivers only become more, and confidence is a minimum of
two ratios that rise with them. `LevelFollowsTheSample`: an added sample at the
median or above cannot lower the value at a middle place, and levels are
monotone in the median.

**The map page** (`MapPageProofs`): `NewestLoadStays` from "every fetch under
way is the newest's", since `abort()` ends the others. `ColoursNeverMix`: the
marks on the layer and on the edges are all of one demo, and while a demo is
painting they are its own. `PatientSeesThePick`: for a user who waits, at most
one of a timer, a load and a demo is under way, and it bears the picked
distance.

**The edge reader and the importer** (`EdgeReaderProofs`):
`KeysNameFeatures` by the arithmetic of the key: the keys of edge ids that an
int64 holds are less than 2^64, and wrapping is injective there. `FeaturesAnsweredOnce`: by
induction over the page, as a feature is appended only when its id is not yet
among the features. `NothingIsLost`: each object stored at the start is already
among the features, or lies at or beyond the cursor, or in a later collection;
a write cannot put a stored object before the cursor of a SCAN, because a
listing by id only gains objects in front of it, which moves it back.
`SuccessMeansStored`: all lines that a run has processed are in its collection,
and no write removes an id. `BoundsStopRight`: the page that overflows fills the
answer to its limit, and its first new object beyond the room left is in the
collection and not in the answer; it stays so, because no write removes an id
and no step touches the features of an answer that is done. `StopsRight`: for
`ReadDistance`, what the loop has counted is the sum over the first feature of
each road, so an answer is truncated exactly at the target; it was below the
target before its last page, and the beginning of a list has no more metres than
the list. `Fresh`, `CountEdges` and `MetresOf` are recursive functions, and the
lemma `CountingUp` (induction over a set of indices, from well-foundedness) is
what makes their results provable.

**Matching and canonicalization** (`MatchCallProofs`), from the invariant that
a trace has the canonical points of its posts, none of which is declined, and
that observations come from an answer that passed every check:
`AnswersMeetTheirPoints` by the pigeonhole principle (as many answers as
points, at distinct indices in range, leave no point out);
`PointsKeepTheirTime` by the arithmetic of minutes and rounding;
`ObservationsAreFit` check by check.

**The demo** (`DemoCongestionProofs`, for any files, trace lengths, steps and
budgets): `BudgetIsKept` from "the traces tried are all those of the drivers
finished and those before `start` of the first driver left", with the step's
multiples, so that the next trace is neither repeated nor skipped; a match adds
at most `TracePoints` observations to what is left to add. `AnswersAreExact`
from two facts that every `Add` keeps: the open windows are the direct count of
the observations added so far, and the processor has of each driver the newest
time added. The second makes "same time as the driver's last" mean "added
before": an observation is a repeat or newer than everything of its driver, or
the calculation has failed. The flush is a window after the newest time, so
every window has ended. What the filters of the loop keep (`SelectAt`, a
recursive function) is shown to exist and to grow with its list by
`CountingUp`, the induction over a set of indices.

**The benchmark targets** (`DemoCongestionProofs`, for any recorded files, flags
and numbers of shards, from `BenchAssumption`). What `ReadCSV` has after each row
(`ReadCSVRight`, by `CountingUp`): drivers with an id of their own, the points of
each from its own rows in their order, and bounds of them all. The invariant
`BenchInv` says of each generator that the targets written are those of the
places (cycle, sequence, driver) that its loops have passed: each target is that
of such a place, each such place with a point has its target, and the targets of
one driver are in the order of cycles and sequences. `EventsWrittenOnce`: within
a shard by that order, between shards because a driver's place in the reading
decides its shard; a generator that is done has passed every place of every
cycle. `TimesRiseInAllCycles`: within a cycle the points rise as in the file,
and a later cycle is later by more than the whole file spans.

Assumptions that the proofs brought to light, each stated by name in the module
of the constant: sequences are sequences and sets of inputs are what the types
say; an edge collection holds objects of one graph version with unique ids
(Tile38 replaces an object with the same id); a payload's two readings of the
phone's clock are less than an hour apart (`ClockAssumption`: with exactly an
hour between them the minute agrees and the recorded time is wrong); a speed
limit is a multiple of 18 km/h, so that its conversion is exact
(`CallAssumption`); the conversion of 2^63 to int64 yields some int64
(`ImporterAssumption`); a recorded file has finitely many drivers and its times are
not before the zero time (`DemoAssumption`); the minute of a recorded row is a
whole number or missing (`BenchAssumption`); references are positive
(`GrowthAssumption`, as `Calculate` has them checked).

Every invariant and every safety action property of a passing run, and both
refinements, are proved. Only model-checked are the liveness properties, which
the prover cannot reach: `EventuallyReported` (its hypothesis is one of
fairness), `EveryRequestEnds`,
`StopsInTime`, `ReadEnds` and `ButtonComesBack`.

## Not modelled

Left out: string and float parsing, RESP and GPX framing, the page's popups,
counters and styles, `loadConfig` and the environment helpers, `parseBounds`
and `parseDistanceKM` (one string in, one refusal out), `matching-demo` (one
call with a fixed trace), `NewDemoFlow` (a constant record that no route
serves), images and compose files.
