# HiveMind gateway: a TLA+ model

This directory holds a specification of the HiveMind gateway
(`internal/...`, Go), the TLC configurations that check it on small
instances, and TLAPS proofs of its main theorems for every value of the
constants. HiveMind is an OpenAI-compatible gateway in front of several LLM
backends: it authenticates a request, has it scanned for personal data, limits
its rate, attributes it to a consumer, and forwards it along a chain of
backends that a background health checker keeps an eye on, or answers it itself
by asking a panel of models ("fusion").

Source paths below are relative to the repository (`src/` in `PROJECT.json`).

## 1. The system

```
             auth -> PII middleware -> rate limiter -> usage tracker -> router
                       |   ^               |                             |   |
                 PII Shield client     token buckets            forwardChain  fusion engine
                 (circuit breaker)                                   |   |         |
        Reload --> new PII client, new limiter, new chains      IsHealthy|   backendCaller
          |                                                          |   |         |
          +------> HealthChecker.UpdateConfig ---> states, gauge <-- probes ---> backends
```

| Part | State it keeps | Operations | Shared with, and how |
|---|---|---|---|
| Health checker (`gateway/health.go`) | configuration, state and failure count per backend name, Prometheus gauge | tick, probe, apply verdict, `UpdateConfig`, `IsHealthy`, admin page | probes run without the lock and apply verdicts under `hc.mu`; read by every request; replaced by reloads |
| Router (`gateway/proxy.go`, `fallback.go`) | the chain of each model, fixed when the handler is built | `routeRequest`, `forwardChain`, `forwardAttempt`, `ModifyResponse`, `ErrorHandler` | asks the health checker before every attempt |
| Gateway (`gateway/gateway.go`) | `cfg`, `liveHandler`, servers | `New`, `Run`, `Reload`, `Shutdown` | swaps handlers under requests in flight |
| Rate limiter (`gateway/ratelimit.go`) | a bucket per consumer | `getBucket` (read lock, then write lock), `take`, `Update` | all handlers of a chain |
| PII shield (`pii/client.go`, `middleware.go`) | time of the first failure | `Scan`, the two passes of the middleware | all handlers of a chain share one client |
| Fusion (`fusion/*.go`, `proxy.go`) | panels; per request: results of the panel, one deadline | `RunFusion`: deliberate, fan out, judge, synthesize | goroutines per panelist, the router's chains, the health checker |
| Usage tracker (`gateway/consumer.go`) | counts per consumer, a file | record, periodic persist, stop | all handlers, a ticker, shutdown |
| Model lifecycle (`models/lifecycle.go`) | PID files, processes | Load, Unload, Swap, list | separate commands on one directory |
| RAG (`rag/*.go`) | points in Qdrant | inject context into a request; ingest a posted batch | request path before the compressor; the admin server |
| Claude CLI proxy (`claude-cli-proxy/*.py`) | child processes | call, stream, health | is itself one of the backends |
| Auth, compressor, configuration, scanner, GGUF, VRAM | none that lasts | pure or I/O | request path; commands |

### What makes each part correct

* **Health checker** - verdicts of probes of different rounds are applied in any
  order and on either side of a reload; still, a backend is out of rotation
  exactly when its last run of failures is long enough, only a success (or its
  removal) brings it back, and what lasts is eventually seen.
* **Router** - no interleaving of probes, reloads and failures makes a walk miss a
  usable backend, pass over a better one, label an answer wrongly or count it
  twice; every request ends, unless a backend begins a body and never ends it.
* **Rate limiter** - racing first requests get one bucket; whatever they
  interleave, admissions fit burst plus refill in every window; Retry-After is
  long enough.
* **PII shield** - nothing passes unscanned against the chain's policy; the breaker
  opens only without successes and, when the shield is gone, does open; every
  request is answered.
* **Fusion** - no goroutine outlives its stage; quorum decides exactly once, when all
  seats have settled; what the deadline cuts short is never passed off as an answer;
  the request ends although backends hang.
* **Gateway lifecycle and usage tracker** - a clean shutdown has saved every request
  recorded; a crash leaves a whole file behind; a reload leaves one configuration
  in force in all parts.
* **Model lifecycle** - although nothing locks the PID files, no server is lost and no
  stranger is signalled except where two commands met, a loader was killed or overlooked
  a running server, or a file had outlived its server; an undisturbed `Swap` leaves only
  its own server running and those it failed to list or to unload.
* **RAG** - a batch is stored whole or not at all, and Qdrant has accepted all of it when the client was told so;
  what a document says stays inside one closed block however it is cut; every
  request goes on whatever embedder, Qdrant and compressor do.

`PROJECT.json` lists every hazard with the line it bites at and the properties
that cover it; those without a property have a note that says why.

## 2. Modules

| Module | Models | Extends / instantiates |
|---|---|---|
| `HealthChecker` | `health.go`, the health gauge of `metrics.go` | |
| `Failover` | routing of `proxy.go`, `fallback.go`, the two steps of `Gateway.Reload` | EXTENDS `HealthChecker`: requests, probes and reloads run together |
| `RoutePromise` | what routing promises (abstract) | instantiated by `Failover` |
| `RateLimiter` | `ratelimit.go` | |
| `RatePromise` | what rate limiting promises (abstract) | instantiated by `RateLimiter` |
| `PiiShield` | `pii/client.go`, `pii/middleware.go` | |
| `Fusion` | `RunFusion` and `backendCaller` | |
| `FusionPromise` | what a fusion tier promises (abstract) | instantiated by `Fusion` |
| `GatewayLifecycle` | `Run`, `Reload`, `Shutdown` of `gateway.go`, the usage tracker `consumer.go`, `auth.go` | |
| `ModelLifecycle` | `models/lifecycle.go`, `launcher.go`, the estimate of `vram/calculator.go` | |
| `Retrieval` | `rag/*.go`, `compress.go`, their part of `routeRequest` | |
| `MC*` | instances for TLC | |
| `*Proofs` | theorems of the module they extend (`FailoverProofs` also extends `HealthCheckerProofs`) | TLAPS |

Operators whose comment begins with *Mutant* are not part of the model: each is
a wrong version of the definition after it, named in `PROJECT.json`, and each
property has at least one that breaks it. Variables and record fields marked
*auxiliary* remember history for a property; no guard reads them.

### HealthChecker

`cfg` and `states` are `hc.cfg` and `hc.states`. A tick (`CheckAll`) starts one
goroutine per entry of the configuration snapshot; a goroutine is a record of
`probes` that first gets its answer (`ProbeAnswered`, no lock held, the server's
condition at that moment) and later applies it (`ProbeApplied`, the critical
section of `checkOne`, which ignores names removed meanwhile). Because entries
are names with a URL, a reload may move a backend, list one name twice or
remove and re-add it while probes of its former life are in flight.
`UpdateConfig` keeps known names, starts new ones fresh, drops the rest.
`IsHealthy` and `HealthStatus` are the readers.

`Overlap` is how many rounds may have probes in flight. The client's timeout is
5 s and the interval is configurable, so rounds may overlap; a slot is reused
only once its probes have been applied. `FailureCap` caps a counter that only
`Threshold` is compared with.

### Failover

A request copies the chain of the live handler when it arrives and walks it in
`Precedes` order; a body that cannot be read or names no model is a `BadRequest`, an
unknown model a 404. `Skip` and `Send` consult `IsHealthy` at that moment. A round trip is
`Deliver`, then `Headers`, then the body. With validation on, `ModifyResponse` looks at the
body of every response whose content type is `application/json`, whatever its status, before
anything goes to the client: one that is a completion goes on (`Validated`), any other, a JSON
error page included, is given up and the chain advances (`Rejected`). A response of
another content type (an event stream, an HTML error page), and every response without
validation, is passed on as it is. `Answer` is the end of the copied body, `TransportError`
is `ErrorHandler` (no connection, no headers in time, a body that breaks off while it is
validated), `Abort` is ReverseProxy's panic when a connection breaks after headers have
gone out. `Exhausted` is the 503. `ClientGone` cancels the request's context.
What a server would say is its condition: a completion, as JSON or as a stream (`up`), a 200 that is no
completion, as JSON (`garbled`) or not (`foreign`), an error page, as JSON (`failing`) or not (`broken`).
A reload is two actions, `ReloadHealth` then `ReloadHandler`, as in `Gateway.Reload`.
A server that goes down takes with it the calls it was answering (`Breaks`).

The auxiliary `usable` keeps the entries of a request's chain that were up and
in rotation in *every* state since it arrived; `BestUsableAnswers` is stated with
it (no refusal while one is left, no answer from behind one), so it holds the
code to nothing that the race between a check and an attempt makes impossible.

`RoutePromise` knows neither health nor servers: candidates are ruled out
strictly in order, the answer is that of the first one left, and only without
candidates is a request refused. `KeepsPromise` is the refinement, with
`remaining` mapped to the untried part of the chain.

What a request goes through before routing is in `Retrieval`; the bytes
of bodies are abstracted away.

### RateLimiter

Time is in seconds and tokens in sixtieths, so that the arithmetic of `take` is
exact in integers: a bucket gains `requests_per_minute` sixtieths per second. The
code's floats round; the model does not. A handler is between `getBucket`'s
two critical sections (`Lookup`, then `CreateFinds` or `CreateMakes` with the limits it
read before) and `take` (`Take`). Buckets live in `heap` because a handler may hold
one across a reload. `window` counts, from an arbitrary moment on, what an
arbitrary limiter admitted of an arbitrary consumer: its nondeterministic choice
makes `WindowBound` a statement about all windows.

`RatePromise` knows no heap, no dates and no race: each consumer has one bucket in each
set of limits, all buckets are refilled every second, and a request is admitted or refused
at one moment. `KeepsPromise` is the refinement. `Level` maps a bucket that is
refilled only when somebody takes from it to what it would hold if it were refilled now,
and a bucket not made yet to a full one; `Served` maps a handler between its
critical sections to one that is waiting for its answer. That two racing first requests
might get two buckets, or that a lazy refill might differ from a steady one, would
each be a step the promise does not have.

`RateLimiter.Update` is in the code but has no caller; it is left out (section 6).

### PiiShield

A scan is three steps: the look at the breaker (`FindsOpen`, `Ask`), the POST
(`PostAnswered`, `PostFails`), and the record of its outcome (`RecordFailure`,
`RecordSuccess`), between which other requests run. Times are ages that stop
growing at `CbTimeout`, the only value they are compared with. An answer that is
no known decision changes nothing; one that does not decode is a 503. The
middleware scans the request, lets `next` write into its recorder, whose headers go
straight to the client, and scans the response. Every reload builds a client
with a closed breaker and its own bypass policy.

### Fusion

`stage` is where `RunFusion` is; each call it makes (deliberator, one per seat,
judge, synthesizer) is a record of `calls` that walks the chain of its model
as `backendCaller` does: `Unhealthy`, `Send`, `RoundTripFails`, `Responds`, `Reads`,
`ReadFails`, `Exhausted`. Calls of the panel interleave freely. Whatever a backend
answers, an error page included, is a result; a body that breaks off ends the
call. `expired` is the one context of the request: afterwards every round trip
fails at once. `Count` is the code after `wg.Wait()`; a failed judge leads to the
synthesizer all the same, and a failed synthesizer to a 200 with a placeholder.
`routable` is the health checker seen from outside: it may change at any step.

`FusionPromise` says that seats settle once, are counted when all have settled,
and decide the request exactly by quorum, and that only a request whose panel
was never asked can be dropped.

### GatewayLifecycle

The command that calls `New`, `Run`, `Reload` and `Shutdown` is not in the repository.
The module assumes that it makes the four calls at any moment and beside each other,
one `Reload` at a time and `Shutdown` once per process.

`Run` is five actions (`RunStart` ... `RunListen`), a `Reload` four (`Reload`, `ReloadHealth`, `ReloadBuild`,
`ReloadStore`), because both store into `currentProxy` and `liveHandler` without a lock.
Which configuration `g.cfg`, the health checker, the proxy shown to `/panels` and the
live chain belong to are the variables `cfg`, `checked`, `current`, `live`; `boot` is the one
the usage tracker keeps for good. A request passes the tables of the live chain
(`Authorized`), is attributed by the tracker's (`Identify`), and is counted when it
returns (`Served`) unless it panicked (`Aborted`). The persistence goroutine takes a
snapshot under the lock (`Snapshots`, on a tick or the closed channel), writes the
temporary file in two steps and renames it; creating, writing and renaming may
each fail. `Restart` may come at any step and keeps nothing but `usage.json`, which
the next process never reads: what an earlier process left in it is therefore one
value, `"left"`. Token counts are added where the request count is and are left out.

`raced` marks that a `Reload` began between `Run`'s look at `g.cfg` and its last
store: then `ConfigInForce` does not hold until the next `Reload` (section 6).

### ModelLifecycle

Every command is a process with a record in `cmd`; `Begin` is a user's `load`, `unload` or
`swap` (the command line is not in the repository), and a command may be killed at any
step (`CommandDies`). `pidfile` is `/var/run/hivemind`, `proc` the machine's process table.
`Load` is `Look` (file, estimate, not running), `Start`, and `os.WriteFile` in its two steps
`Truncate` and `Write`, whose failure kills the child (`WriteFails`); `Unload` is `Read`, `Signal`,
`Remove`; a `Swap` lists what runs (`List`), unloads it in any order, ignoring errors, and
loads. `ListRunning` looks at all files in one step, and may not find some or all of what runs:
a directory or a file that cannot be read, or a server the user may not signal, which
`isRunning` takes for gone. For the same reasons a `Load` may take a running model for one
that is not (`Overlook`); `Read` may fail on a file that is there, and `Signal` may be refused. What
becomes of them at a `Swap`, the code drops; the auxiliary `missed` of a command remembers
the running models it has failed to list or to unload. `SIGTERM` only asks: a server ends
when it likes (`Ends`), and may crash unasked. A PID is used again for other
programs as soon as its process is gone, except while the command that started
it still holds it as a child. Of other programs some may be signalled by the
commands' user and some may not (`foreign`).

`Fits` is `vram.Estimate` in eighths of a MiB, which makes it exact in integers.
`clash` and `stale` are auxiliary: names two commands have met on (or whose
loader was killed or overlooked a running server), and names whose PID file has outlived
its server. The properties name exactly these two ways in which the unlocked files go wrong.

### Retrieval

A batch posted to `/admin/ingest` is embedded document by document (`Embed`,
`EmbedFails`) and stored by one PUT (`Upsert`), which lives on in `wire` after the call
that sent it has given up (`GivesUp`): it may still be accepted, refused or lost, and the
client may post again, which stores the documents under new ids (`nr`). The PUT does not ask
Qdrant to wait (`ingest.go:167`), so a status below 300 (`Accepts`) only says that the upsert is in
`taken`; Qdrant applies it to `index` at any time after, or never (`Applies`). An error may
hide an upsert that was accepted even so (`Refuses`). That Qdrant applies one PUT whole is
an assumption about Qdrant.

A routed request keeps the configuration of the chain it arrived on. With RAG its
last user message is embedded, searched for, and the results become a block
(`Block`) that is cut at `MaxContext` (`Capped`) and put into the first system message
(`Prepended`); each failure leaves the body as it came. A body that gets a block is decoded
and encoded anew, which keeps of each message its role and content only (`Reencoded`; a null
content becomes empty, tool calls and names are lost) and of the request `model`, `messages`
and `stream`. Then the compressor may
replace it (`Compress`). Text is a sequence of tokens of which only our two
delimiters matter: a cut inside a delimiter leaves something that is none.
Ingestion and search meet in `index`, when a consumer's collection is the one
the ingester was started with.

## 3. Runs

| Run | Instance | Shows |
|---|---|---|
| `Health` | one name on two servers, four configurations (either, both, none), threshold 2, two overlapping rounds, any reload at any time | verdicts, state table and gauge stay consistent; recovery needs a success; lasting conditions become verdicts that stay; the admin page recovers |
| `Failover` | chain of two, one without a priority and listed first in the file, a reload that takes the fallback away and back, validation on; the primary up (JSON or a stream), with error pages in JSON or not, or down, its fallback up; an unknown model, a bad request; fairness | the router's safety properties, `KeepsPromise`, every request ends or waits for the rest of a body |
| `RateLimiter` | two handlers of one consumer, two configurations (25/min burst 2 for it by name; 60/min burst 1 by default), one reload, 4 s, 3 buckets; symmetric in handlers | the cap in every window, honest Retry-After, and `KeepsPromise`: one bucket each, whose lazy refill nobody can tell from a steady one |
| `Pii` | two requests at a time, one reload with either policy, timeout of 1 tick, fairness | breaker and policy; the breaker settles, every request is answered |
| `Fusion` | panel of three over two backends: one seat per order of the two, one without a fallback; a judge nobody serves; unset quorum | pipeline, quorum, nothing synthesized after the deadline, termination |
| `Lifecycle` | two handlers, an API key that one of two configurations knows, authentication enforced, two requests recorded per process, any number of reloads, crashes and restarts | `usage.json` is never torn nor taken back, a clean `Shutdown` has saved everything recorded, one configuration is in force after a reload, `Shutdown` returns |
| `Models` | two commands, two model names (one fits only without draft steps), two PIDs, any number of commands, crashes, kills, strangers, and failures to list, read, write and signal; symmetric in commands and PIDs | no server lost, a `Swap` clears, strangers safe |
| `Retrieval` | one batch of two documents posted twice, a third without text in stock; six configurations (no RAG, default collection, the ingester's; compressor on or off), four bodies, three results at most, a cap of six tokens; fairness | whole batches, one sealed block, every call ends |
| `RateUnlimited`, `PiiOpenForever`, `PiiFraming`, `FusionNull` | | the four disagreements of section 6 |

### Why the bounds are enough

* *Threshold 2, Overlap 2*: a verdict needs two failures, so counts below, at and
  above the threshold occur, and a probe of the previous round may be applied
  after one of the current. More rounds only add more stale probes of the same
  kind; the proofs cover every number.
* *One request in the Failover run*: requests do not write anything that others
  read (health states are written by probes and reloads only), so a second one
  adds nothing to a first one's behaviour. The theorems hold for any set of requests.
* *Chains of two*: every way to pass over a backend before another exists; longer
  chains are covered by the proofs. That `Precedes` is the stable sort of the source on
  all priorities and positions is an `ASSUME` of `MCFailover` (`ChainOrder`).
* *4 seconds, burst 1 and 2*: refill at 25 and 60 per minute reaches fractional
  tokens, the cap of the burst, and refusals followed by kept promises within 3
  seconds (Retry-After at 25/min is at most 3).
* *Handlers are interchangeable* in the `RateLimiter` run: nothing but `handler` and `Served` is indexed by
  them, no liveness is checked there, and a refinement of steps is as symmetric as the steps.
* *Two limiters*: requests in the old chain run beside those of the new one.
* *One tick of breaker timeout*: before and after the timeout differ, and the code
  compares times with nothing else; the theorems hold for any number.
* *Three seats, quorum 2*: quorum met with a straggler, just met, just missed.

* *Two recorded requests, two consumers*: a snapshot can be older than, equal to and
  overtaken by the counts, of one consumer and of two; a persist may be under way
  when `Shutdown` comes, with a request in hand.
* *The primary's conditions*: a completion, an error page that validation sees and one that
  it does not, and none at all are all that `Headers` and what follows tell apart; a 200 that is no completion
  takes the same steps as an error page. The theorems hold for every condition of every server.
* *Two commands, names and PIDs*: two commands can meet on one name or work beside
  each other; one PID can come back while the other is in use. Every hazard of
  section 1 needs no more, and the theorems hold for any number.
* *Estimates*: `FitsAtTheLimit` in `MCModelLifecycle` checks the last value that fits and the first
  that does not, in each of file size, context and draft steps.
* *Six tokens of cap*: the two documents and their repetitions give blocks below, at,
  one over and far past the cap, cut before, in and after document delimiters.
* *Two configurations*: that one is told from the other is all the lifecycle needs.

`CHECK_DEADLOCK` is never switched off.

### Fairness

* `HealthChecker.FairSpec`: the ticker never stops, a GET ends by the client's timeout,
  and the lock is never held across a call, so `CheckAll` and the probes are weakly
  fair. Servers and operators are not.
* `Failover.RouteFairSpec`: a handler goroutine runs; a server that accepts a
  connection sends headers within `ResponseHeaderTimeout` (`proxy.go:46`) or counts as down. Nothing
  limits a body, neither the one `ModifyResponse` reads nor the one ReverseProxy copies, so no
  step is fair while one is under way (`InTransfer`: the connection stands and the client
  waits). `EveryRequestEnds` accordingly says that a request ends or is in a transfer for ever.
* `PiiShield.FairSpec`: handlers run, the shield client's timeout ends a POST, the handler behind
  the middleware returns, time passes. `BusySpec` adds that requests keep coming; it is
  used for one counterexample only.
* `Fusion.FairSpec`: goroutines run and the deadline passes. Backends owe nothing: they may
  accept a call and never answer it.

* `Retrieval.FairSpec`: every HTTP client of these calls has a time limit (60 s for ingestion, 10 s
  for embedding, 5 s for the search, the compressor's own), so each handler goes on.
  Qdrant, clients and reloads owe nothing. `ModelLifecycle` assumes no fairness: commands may be killed.
* `GatewayLifecycle.FairSpec`: the persistence goroutine runs and its file operations return
  (weak fairness); `select` chooses at random among ready channels, so a closed `stopCh`
  is not passed over for ever although ticks keep coming (strong fairness); `Shutdown`'s
  deadline passes. Handlers may hang, and neither ticks, reloads nor restarts are fair.

## 4. Proofs

All theorems are `Spec => ...` for arbitrary constants under the modules' named
`ASSUME`s, which say only that constants have their types, thresholds and
timeouts are positive, configurations are finite, and entries of one configuration have distinct places
in the file; `Fusion` also assumes its calls to be told apart, and `Retrieval` that a
configuration gives no collection of the name of a marker, that the cap is positive (8192 in
`rag/middleware.go:42`) and that documents and bodies are sequences of their tokens and messages.

* **HealthCheckerProofs**: `HealthInv` = types, table, verdicts and gauge together. The
  gauge is related to the verdict only through the failure count, and counts
  are meaningful only for names in the table, hence one invariant. Theorems
  `TypeCorrect`, `StatesCoverConfig`, `VerdictTheorem`, `GaugeTheorem`, `RecoveryTheorem`.
* **FailoverProofs**: `RouteInv` adds, per request, `WalkOK` (what was tried precedes
  what is left, the backend in hand is the first of what is left) and `UsableOK`
  (the auxiliary set is inside the chain, usable now, and untouched by the walk
  unless the client left). `RouteStepIsHealthStep` shows that routing steps do not disturb the
  health checker, whose invariant is reused. Theorems: type correctness, best
  usable, counting and labelling, live chains, justified skips (`LiveChainsCovered` and `SkipJustified` are
  proved only), and `RefinementTheorem`: `RouteSpec => KeepsPromise`. `HealthBesideRouting`
  (`RouteSpec => Spec` of `HealthChecker`) carries the theorems of `HealthCheckerProofs` over to the
  composition. What progress rests on is proved too: `NeverStuckTheorem` (an active request
  always satisfies the guard of one of its handler's actions; the first of what is left of a chain exists because a
  configuration is finite and its order total, `HasFirst`) and `WorkShrinksTheorem` (each step of the handler lowers
  `Work`, nothing raises it: at most 5n + 1 steps over n backends, whatever probes and reloads do).
* **RateLimiterProofs**: each bucket is within its burst and dated in the past, belongs
  to one limiter and consumer, and the key of the argument: what the observed
  window has admitted plus what the bucket still holds is at most burst plus refill. Theorems: types, `WindowBoundTheorem`,
  `RetryAfterTheorem`, `RateRefinement` (`Spec => KeepsPromise`), and `OneBucketTheorem` and
  `BucketsTheorem`, whose properties no run repeats: the refinement would fail without them.
  In `RateRefinement` a tick is the step `Second` because refilling over m + 1 seconds is
  refilling over m and then over one (`TickRefills`), `CreateMakes` a stutter because a
  bucket not made counts as full, and `Take` an `Admit` or a `Refuse` because what `take` computes
  is the bucket's `Level` at that moment (`AvailableAtOnce`).
* **PiiShieldProofs**: a failing client's last success is not after its first failure
  (`BreakerOK`), and each request is honest about why its body went on (`Honest`).
  Theorems: types, `OpenMeansNoSuccessTheorem`, `NothingPassesTheorem`.
* **FusionProofs**: `FusionInv` says of each call what it may rely on (`CallOK`: no backend it has
  left behind is steady) and of the pipeline which seats have settled (`PipelineOK`).
  `CallAdvances` reduces every step of `backendCaller` to one shape. Theorems: types,
  `NothingLeftBehindTheorem`, `NoFalseExhaustionTheorem`, `NoLateSynthesisTheorem`,
  `FusionRefinement`. `NoLateSynthesisTheorem` rests on an invariant of the cut-off: once the deadline has passed
  with the synthesizer still to come (`Late`), its call can only be on its way along the chain or have failed, which
  every step keeps (`CutOffStays`). For progress: `CallsShrinkTheorem` (a call takes at most 3n + 1 steps over
  n backends) and `WaitsForBackendsTheorem` (a request that has begun waits for nobody but a
  backend, and for that only before its deadline), from `Launched`: each stage has started its calls.
* **GatewayLifecycleProofs**: `LifecycleInv` = types, `ConfigInv` (what `Run` read is what is loaded until
  it has seeded the live handler), `StopInv` (who has started, who was told to stop, what is
  in hand) and `UsageInv`: file of this process <= snapshot on its way <= counts, and once the
  drained tracker takes its last snapshot, snapshot = counts. Theorems: types, `FileTrueTheorem`,
  `FileGrowsTheorem`, `CleanShutdownTheorem`, `ConfigInForceTheorem`.

* **ModelLifecycleProofs**: that no server is lost rests on what each command at work on its
  name knows. `ModelInv` therefore says of every command what it holds (`HolderOK`,
  `LoaderOK`: whoever starts or holds a server is the only one for its name and the file is
  out of date; `UnloaderOK`: the file still has the PID that was read, and after
  the signal nothing of the name runs on), that overlapping commands have left a
  mark (`Exclusive`), and, for `Swap`, that what runs on is still on its list or was missed (`SwapOK`).
  A `Load` that overlooks a server leaves a mark as well (`OverlookKept`).
  Theorems: `ModelTypeCorrect`, `NothingLostTheorem`, `SwapClearsTheorem`, `StrangersSafeTheorem`, and
  `FilesTheorem`, whose property no run repeats: a PID file not stale or contested names
  its model's server. Steps of one command are shown to leave the others' knowledge
  alone (`Follows`, `Effects`, `Kept`), so each conjunct is proved once per action.
* **RetrievalProofs**: `IngestInv` says that what is embedded and what is to do make up the batch,
  that every upsert under way or taken is whole, and that a post whose call was accepted has its upsert in `taken`. `RequestInv` says that a request's body is still what the
  client asked until the search has answered, and from then on either that or its
  re-encoded messages behind one sealed block (`Augmented`; `ReencodedMessages`: these are messages again, of the
  same roles and contents). Theorems: `RetrievalTypeCorrect`, `WholeBatchesTheorem`
  and `ContextSealedTheorem`. The last is about sequences of any length, as a block is built from any
  number of results of any length and cut anywhere, and needs induction, which is done here
  by minimal counterexample: a nonempty set of naturals has a least member (`Least`, from
  `NatLessThanWellFounded`), hence a set of naturals with 0 that is closed under successor up
  to n has all up to n (`Upwards`), hence a token occurs in a flattened sequence only if it
  occurs in one of its parts (`Flattened`). `BlockShape` and `CappedSealed` then show that a block
  has its opening delimiter only at the start and its closing one only at the end, however it was cut.

Each module's runs check on their instances the same properties its theorems
prove in general, where not said otherwise. `Launched`, `NeverStuck`, `WorkShrinks`, `CallsShrink` and
`WaitsForBackendsOnly` are defined with their proofs and are no property of a run.

**Only model-checked**: liveness (`VerdictSettles`, `PageRecovers`,
`EveryRequestEnds`, `BreakerSettles`, `EveryRequestAnswered`, `EveryFusionEnds`,
`ShutdownReturns`, `EveryCallEnds`). For `EveryRequestEnds` and `EveryFusionEnds` the
steps of the argument are theorems (no state without a step, a measure that only falls), and
only the last one, from fairness to the end, is left to TLC. Liveness under fairness and `ENABLED` are out of the
prover's reach; so are the library's induction theorems, which take an operator as
parameter (see `RetrievalProofs` for the way round), and `RECURSIVE` operators, of which there are none. Every
invariant, action property and refinement that a passing run checks is a theorem.

## 5. Not modelled, and why

* Claude CLI proxy: a Python sidecar; the gateway sees one more backend that may hang or fail.
* The commands around the packages (`hivemind-ctl`, the gateway's `main`): not in the repository.
* `nvml.go`: runs `nvidia-smi` and parses its table. Scores and ranks of search results.
* `RateLimiter.Update` and `Engine.Reload`: nothing calls them.
* The admin, metrics and panels pages: they read what the modules keep.
* `RunFusionStream`: with the chain as built, no request gets past its Flusher check
  (section 6), so it is unreachable; prompts and transforms are wording.
* Configuration parsing, GGUF reading, model scanning: sequential, no interleaving; the modules
  take what `validate` accepts as constants.
* VRAM figures, histograms, logging, latency.
* Scripts, launchers and overlays: installation tooling.

## 6. Where the code and its comments disagree

Shown by a run:

1. `RateUnlimited` - `openclaude` is documented as unlimited (`DEPLOY-CONTRACT.md:136`) and configured
   with 0 and 0; only the default section turns 0 into a built-in value, so every
   request of it is refused.
2. `PiiOpenForever` - an open breaker never asks the shield again, and only an answer
   clears `firstFailure`: after an outage of 30 s it stays open until a reload or restart, against "zero when healthy" (`client.go:35`).
3. `PiiFraming` - a blocked *response* keeps the Content-Length that the backend's answer had set,
   under a shorter or longer body (`middleware.go:73`, comment at `:83`).
4. `FusionNull` - a deliberator that answers `null` decodes into a nil map without an error and the
   write to it panics (`fusion.go:243`): no response at all.

Observed while reading, not checked by a run:

* A backend removed while unhealthy and added again is routable, but its gauge still says 0
  until its next probe (`metrics.go:55`, `health.go:113`).
* `IsHealthy` is false for names it does not know (`health.go:201`), against its comment at `:194`: during a reload,
  a request on an old chain passes over backends nobody confirmed unhealthy. `SkipJustified` states what does hold.
* Rate-limit tables *are* rebuilt by a reload (`gateway.go:70`), against the comment at `gateway.go:104`.
* The breaker opens on the time since the first failure (`client.go:95`): one failed scan and 30
  quiet seconds open it although nothing was tried since. `OpenMeansNoSuccess` states what does hold.
* `RateLimiter.Update`, if it were called: `getBucket` reads the limits under the read lock and creates
  the bucket under the write lock (`ratelimit.go:97`, `:118`), so a request that spans it would put the
  old limits into the new table, against "new limits take effect on the next request" (`:79`).
* A `Reload` that comes while `Run` is starting is overwritten in `liveHandler` by `Run`'s older
  snapshot (`gateway.go:141`), while the health checker keeps the new configuration;
  `ConfigInForce` excludes exactly this with `raced`. Two `Reload`s at a time would
  interleave likewise: `g.mu` guards only `g.cfg`.
* `Shutdown` before `Run` has registered its servers reports success, and `Run` goes on to serve
  (`gateway.go:176-199`). `CleanShutdown` therefore requires that it saw them.
* When the deadline of `Shutdown` passes, the tracker is not stopped and its last flush is lost
  (`gateway.go:196`). A second `Shutdown` closes a closed channel (`consumer.go:124`).
* After a graceful `Shutdown`, `Run` never returns: nothing sends to its channel (`gateway.go:170`).
* `usage.json` is never read: the first persist after a restart replaces all earlier counts by
  the new process's.
* The tracker keeps the API keys of the start (`consumer.go:42`), so a consumer whose key a reload adds is let
  in (`gateway.go:80`) and counted under `__default__`.
* `Swap` does not replace "atomically" (`lifecycle.go:95`) nor "without downtime" (`README.md:188`): it unloads
  first, does not wait for memory to be freed, and a `Load` that is then refused
  or fails leaves nothing running. It also unloads the model it is asked to load.
* `Swap` drops the errors of `ListRunning` and `Unload` (`lifecycle.go:99`, `:101`): when the directory or a file cannot
  be read, or a server may not be signalled, it loads beside servers that run on. `SwapClears` says that
  these are the only ones (`missed`).
* `Load` drops the error of `readPID`, and `isRunning` takes a refused signal for a process that is gone (`lifecycle.go:46`, `:166`):
  a second server of the model is started and the first one's PID overwritten (`Overlook`).
* Two `Load`s of one name may both find it not running (`lifecycle.go:46`): one of the two servers is then
  in no PID file and cannot be unloaded. `NothingLost` and `StrangersSafe` name this case.
* Names with and without `.gguf` resolve to one file (`lifecycle.go:131`) but to two PID files, so one
  model can be loaded twice.
* A PID in a file whose server has crashed may belong to another program: `Load` then refuses, `Unload`
  signals that program (`lifecycle.go:86`).
* A request that gets context loses every field but `model`, `messages` and `stream` (`rag/middleware.go:64`, `:121`):
  temperature, tools and the like do not reach the backend. Of each message it loses all but role and content
  (`:70`): `tool_calls`, `tool_call_id` and `name` are gone and a null content becomes an empty string. A content that is
  a list of parts does not decode, and the body goes on as it came.
* An ingest answered with the number of documents ingested says that Qdrant has accepted them (`ingest.go:167`, `:180`): the PUT
  is sent without `?wait=true`, so they may be applied, and found by a search, later or not at all.
* With response validation a backend's own error page in JSON, a 4xx for a bad request included, counts as a backend that failed
  (`proxy.go:240`): the request is made at the next backend, and when all say the same the client gets a 503 that
  does not tell why. An error page of another content type is passed on.
* No time limit ends a body (`proxy.go:46` limits headers only): a backend that stops half-way through one holds its
  request, and with validation the fallback, for as long as the client waits.
* Results without text still lead to a block, an empty one (`rag/middleware.go:110`, `:201`).
* Without a collection in the configuration, ingestion stores into `hivemind` (`ingest.go:132`) and
  requests search `knowledge_graph` (`rag/middleware.go:102`).
* `SIGHUP` is documented to reload RAG (`README.md:209`), but ingestion keeps the configuration of the start (`gateway.go:133`).
* Streamed fusion requests always get "streaming not supported": the usage tracker's response writer (`consumer.go:172`)
  and the PII recorder hide the Flusher that `proxy.go:443` asks for.

## 7. Plan

Done in this order, the request path first: `HealthChecker`, `Failover` with
`RoutePromise`, `RateLimiter`, `PiiShield`, `Fusion` with `FusionPromise`, `GatewayLifecycle`,
`ModelLifecycle`, `Retrieval`, `RatePromise`; each with its runs and theorems.

Next:

1. `RequestPath`: authentication, PII, rate limiting, tracking and routing of one request as a
   composition: a refused request is neither forwarded nor counted.
2. `ClaudeProxy`: blocking calls in an asynchronous server beside the health probes that wait
   for them (`server.py:41`), composed with `HealthChecker`.

## 8. Running

```
tlc -workers 2 -config Health.cfg MCHealthChecker
tlapm FailoverProofs.tla
```

`PROJECT.json` pairs every configuration with its module and lists the properties it checks.
The passing runs take between 10 seconds and three minutes each.
