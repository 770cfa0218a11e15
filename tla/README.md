# A verification development for onpar

onpar moves LLM traffic from an incumbent model to a candidate, under evidence.
A Rust gateway (`onpar-gateway/`) splits and mirrors requests. A Python engine
(`src/onpar/`) collects evidence, asks a statistical gate what it permits and
keeps the state of a migration on disk. This directory models the parts of the
system in which orderings, failures and boundaries decide whether its promises
hold. TLC checks the models on small instances, and TLAPS proves the most
important properties for every instance.

Paths of the repository are given as the code has them: `proxy.rs` is
`onpar-gateway/src/proxy.rs`, `gate.py` is `src/onpar/prove/gate.py`, and so on.

Contents: [1 inventory](#1-inventory), [2 modules](#2-modules-and-the-code),
[3 runs](#3-runs), [4 fairness](#4-fairness), [5 proofs](#5-proofs),
[6 disagreements](#6-where-the-code-and-its-words-disagree),
[7 limits](#7-what-is-not-modelled), [8 plan](#8-plan).

## 1 Inventory

### The gateway (Rust)

| Component | State | Operations | What makes it correct |
|---|---|---|---|
| Router (`router.rs`) | default route, overrides by cluster, each with backends, phase, failover | `set_phase`, `route_for`, `decide` | a key stays on its side of a split; a change moves one route; failover goes to the incumbent only |
| Control surface (`control.rs`, `main.rs`) | the router behind a read-write lock; the history of changes behind a mutex | POST `/control/phase`; start-up flags | no share of traffic reaches the candidate without a confirmed change; the history misses nothing |
| Datapath (`proxy.rs`, `meter.rs`) | per request: decision, stream, meter; per process: records and mirror records, both capped | `chat_completions`, failover, streaming, the mirror task, `FinishOnDrop` | one record and one capture for every answered request; mirror evidence is never lost |
| Capture store (`capture/store.rs`) | key file, log file, writer mutex | `load_or_create_key`, `append`, `read_all` | what was written can be read back after crashes and restarts |
| SSE decoder (`sse.rs`) | pending bytes, resynchronisation flag, drop counter | `push` | chunk boundaries are invisible; a discard costs one frame |
| Engine telemetry, host stats (`telemetry.rs`, `host.rs`) | none between requests | parse, format | not modelled |

The components share one process. A phase change takes the write lock of the
router while requests are in flight. Each request clones its decision out of
the router and uses the clone after several awaits. The mirror task outlives
the request that spawned it, and a capture is appended by a blocking task after
the response.

### The engine (Python)

| Component | State | Operations | What makes it correct |
|---|---|---|---|
| Quality gate (`prove/gate.py`, `prove/stats.py`) | none; asked about readings, health, pins, rung | `decide` | no advance without proof; no rollback on an unmeasured judge alone; pinned clusters have no say |
| Migration loop (`migrate.py`, `cmd_migrate` in `cli.py`) | one state file per migration | load, run the suite, `step`, save; the operator edits the rung | one candidate per file; a rung the operator wrote stands; only justified proposals |
| Atomic updates (`atomicio.py`) | a file, its lock file, scratch files | `update_json`, `atomic_write` | readers see whole files, also after a crash; no update is lost |
| Fit and engines (`fit.py`, `engines.py`, `hardware*.py`) | none; catalogue entries, machines and profiles go in | detect, `solve`, `rank`, `where`, quantisation, knobs, command lines | the doors into the solver agree about one machine; what is planned fits what the engine will allocate |
| Launch and measurement (`launch.py`, `measure.py`) | the engine's process group, its port, a measurement | `plan`, `resolve_weights`, `serve`, `Endpoint.stop`, `measure` | what is started fits; a launch is never left hanging; silence about survivors means there are none |
| Model cache (`cache.py`) | `cache.json` with one state per root; the engines' own cache | `pin`, `unpin`, `ls`, `evict` | an eviction keeps pins and the recently used; pins stand unless a command on the same root overlaps, or an old file is first saved by another root |
| Kubernetes operator (`k8s/`) | the API's objects; what one pass has read of them | node reading, planning, apply, status, demotion | shards fit their devices; a regressed workload is walked down whatever fails; the loop converges |
| Collector (`prove/collect.py`) | replies in hand, the resume ledger | ask with retries, record, resume | replies stand at their own question; no answer is lost or bought twice; every run ends |
| Graders, judge, report (`prove/graders.py`, `judge.py`, `equivalence.py`, `__init__.py`) | none | grade, judge, calibrate, score, split the traffic | nothing is claimed that the counts do not say |
| Receipt, cost and guard (`prove/receipt.py`, `prove/cost.py`, `guard.py`) | a receipt in a file | issue, write, read, verify, check against today | an altered receipt is refused or still follows from its counts; an honest one reproduces; "holds" means today's mix |
| Session and intent (`session.py`, `intent.py`, `plan.py`) | requirements, what was explicit, answered and asked; the saved file | sentences, machines, answers, resume, answer | explicit answers outrank prose; a question is put once; every answer runs where it says |
| MCP server (`mcp.py`) | the request in hand; the eval root on disk | framing, dispatch, tools, resources | every request has one reply, whatever came before it |
| Catalogue and watch (`catalog.py`, `catalog_update.py`, `watch.py`) | catalogue files, the parse cache, staged files | load, propose and apply, `catalog-add`, the scheduled watch | the cache is what the files say; an applied entry says what its config says; every listed model is staged in the end |
| Box and packs, hosting, clustering, rendering surfaces, core library, release tooling | little or none | rendering, tables, pure functions | see section 7 |

The engine and the gateway meet in two places: the capture log, and the phase
changes that an operator posts after the gate has permitted them.
Scheduled and manual rounds of the migration loop share their state file with
each other and with the operator's editor, and nothing locks it. The solver of
`fit.py` is called by the launcher, the operator and the session, each of which
rounds or repeats its sizing in its own way. The catalogue is read by a
long-lived server while reviewers, `catalog-add` and a scheduled watch write its
files. The collector's answers become scores, the scores a receipt, and the
receipt is read long afterwards by the guard.

### What is hard here

The hazards are listed one by one, with their lines, in `PROJECT.json`. In
short:

* two phase changes at once, and what each believes it replaces;
* a decision that is stale by the time it is used, after a rollback;
* a stream that may end, fail or be abandoned at any byte, and must be
  recorded once;
* a mirror whose errors must become evidence;
* record lists at their cap, frames at their cap, a history at its limit;
* crashes in the middle of a key, a frame, a rename, and reads of a key that fail;
* evidence exactly on a threshold, evidence about clusters that were pinned
  since, an empty set of judged clusters;
* rounds and edits that overlap on an unlocked file, and cache commands that do;
* a pass of the operator over a listing that people have changed since, with
  calls that fail in the middle of it;
* an engine that forks, is orphaned, dies or never answers while it is probed
  and stopped, and slots that an engine allocates before anybody asks for them;
* a ledger cut in the middle of a line and appended to;
* a receipt edited on its way to its reader, or read when the traffic has moved;
* values that come from prose, from answers and from a resumed file in any order;
* files that change while a long-lived process reads them.

## 2 Modules and the code

`PROJECT.json` maps every definition to the lines it models. Definitions whose
comment starts with "Variant:" or "Mutant:" are not part of the model: each one
is a plausible bug, and substituting it for the definition next to it makes the
property it is paired with fail.

| Module | Models | Composition |
|---|---|---|
| `Routing` | `router.rs`: phases, routes, `decide` | pure definitions |
| `Control` | `control.rs`, the start-up rules of `main.rs` | extends `Routing` |
| `Metering` | what metering promises, abstractly | specification of `Gateway` |
| `Gateway` | `proxy.rs`, `meter.rs` | extends `Control`: requests and phase changes interleave; implements `Metering` |
| `CaptureStore` | `capture/store.rs` | on its own |
| `SseDecoder` | `sse.rs`, against a line-by-line reading | on its own |
| `Gate` | `prove/gate.py` and the test it takes from `prove/stats.py` | pure definitions |
| `Rollout` | a migration on the ladder under the gate | extends `Gate` |
| `Migration` | `migrate.py`, `cmd_migrate` | extends `Gate`; relies on what `AtomicIO` shows of a save |
| `AtomicIO` | `atomicio.py` over a file system with a page cache | on its own |
| `Planner` | `fit.py`, `plan.py`, the sizing of `engines.py`, `hardware*.py`, entries of `catalog.py` | pure definitions |
| `Operator` | `k8s/nodes.py`, `k8s/reconcile.py`, `k8s/controller.py` | extends `Planner` |
| `Launch` | `launch.py`, `measure.py` | extends `Planner` |
| `HubCache` | `cache.py` | on its own |
| `AnswerBook` | what a resume ledger promises, abstractly | specification of `Collect` |
| `Collect` | `prove/collect.py` | implements `AnswerBook` |
| `Graders` | `prove/graders.py`, `prove/judge.py` | pure definitions |
| `Report` | `prove/__init__.py`, `equivalence.py`, `stats.py`, `cost.py`, `receipt.py`, `guard.py` | extends `Graders`, instantiates `Gate` |
| `Evidence` | the life of a receipt | extends `Report` |
| `Intent` | `intent.py` | extends `Planner` |
| `Session` | `session.py`, `plan.py`, `build --save` | extends `Intent` |
| `Mcp` | `mcp.py` | on its own |
| `Catalog` | `catalog.py`, `catalog_update.py`, `watch.py` and the commands that write their files | on its own |
| `MC...` | instances for TLC | see below |
| `GatewayProofs` | theorems about `Control` and `Gateway` | extends `Gateway` |
| `GateProofs` | theorems about `Rollout` and `Migration` | extends both |
| `StorageProofs` | theorems about `AtomicIO` and `CaptureStore` | extends both |
| `MachineProofs` | theorems about `Launch` and `HubCache` | extends both |
| `AgentProofs` | theorems about `Session`, `Catalog` and `Mcp` | extends all three |
| `OperatorProofs`, `CollectProofs`, `EvidenceProofs` | theorems about the module of that name | extends it |

Some MC modules hold several components that share no state (`MCStorage`,
`MCGate`, `MCMachine`, `MCAgent`, `MCEvidence`). In them a behaviour is one or the
other: each disjunct of the next-state relation moves one component while the
others are still as they started. Nothing is gained from interleaving what
cannot meet, and nothing is lost, since every component has all its own
interleavings.

**Routing.** A phase is a tagged record. A canary's percentage is any `u8`, as
in the code, so the clamp to 100 is part of the model. The FNV-1a fold is the
constant `Bucket`, any function from keys into `0..99`: no property depends on
which function it is, only on its being one.

**Control.** One handler per request to `/control/phase`. `Receive` is
everything before the lock (token, blank reason), `LockAndRead` takes the write
lock and reads the phase to be replaced, `RefuseEscalation` and `Apply` are the
two ways out, both of which release it, and `RecordTransition` appends to the
history, which happens after the release. `applied` is an observation: the
changes in the order they took effect.

**Gateway.** A request's `at` is the await point it is suspended at. `Start`
covers the code from the parsed body to the first send: the decision under the
read lock, and the spawned mirror. A transport error is `FailOver` when the
decision names a fallback and `UpstreamUnreachable` otherwise. A response with
headers of any status is an answer, as in the code. `FinishOnDrop` is the guard
that records a stream, whether it is drained or dropped. `ClientGone` drops a
handler at an await. The mirror task has its own actions, and
`MirrorUsageSplit` is the JSON body that arrives in more than one chunk.

**CaptureStore.** Bytes are cells: a frame is a length, a nonce and ciphertext
cells that remember the capture and the key they were made from, which is
exactly what authenticated decryption can tell. A crash or a failing write
leaves any proper prefix of a frame, or a torn length that decodes to anything.
`Records` is the loop of `read_all`, and `ReadAll` leaves out what decrypts and does
not parse (`Illegible`), as the code does without a word. A start whose read of the
key fails makes a new one, whatever is in the file (`StartKeying`). `replaced` is an
observation: a good key was written over.

**SseDecoder.** Byte by byte, over an alphabet that separates line feed,
carriage return, the start of a data field and everything else. `Reference`
reads the whole stream line by line and is the specification.

**Gate, Rollout.** Proportions are kept as counts, and the bar as any fraction between
0 and 1. "The whole Wilson interval
lies on one side of the bar" is equivalent to the score test, so the comparison
is exact in integers. `Decide` has the code's order of checks. `Rollout` lets
evidence, health and pins change at any time, and applies rollbacks and
advances as `gate.py` says they are applied.

**Migration.** `Load`, `Step` and `Save` are the parts of a round between which
others may act: the suite that runs between load and save takes long. `Exit`
stands for every way a round ends without saving. `SetStage` and `Finish` are
the operator editing or removing the file.

**AtomicIO.** One action per system call. What a path names and what it names
on the disk are separate variables, and so are the data of a file and whether
it has reached the disk. The kernel may write back at any time (`WriteBack`), a
process may be killed and the machine may stop between any two calls. `Degrade`
is the path without a lock, which the code takes with a warning. The unlink of a
scratch file may fail, and a machine crash may bring a scratch name back.

**Planner.** The sizing arithmetic over integers: memory in tenths of a GB,
context in blocks of 512 tokens, fractions in percent. The solver is linear in
all of them, so its comparisons are kept, and figures are rounded the way `int()`
rounds. `Solve` is one sizing, `BestQuant` the precision chosen among those a
model publishes, `Ranked` and `Rejected` the two halves of `rank`, `Placements` the
order of `where`, `Knobs` and what follows it the settings of an engine and what
its command line spells. `None` is the empty set or `Unknown`.

**Operator.** One action per kubectl call of a pass (`ReadNodes`,
`ListWorkloads`, then for each workload `ApplyObjects`, `PatchStatus`, `Demote`), each
of which may fail and then goes to `ReportFailure`. `Verdict` is `reconcile` as a
function of the listed spec, phase, annotation and nodes. People edit specs,
phases and nodes and the gate annotates between any two calls. `nodes` and
`listed` are what the pass read and may be stale. `edited` is an observation. A node
has, beside what the API says of it, the cards and the memory it really has, which
no operation reads: `Truthful` says how the two go together, the label in MiB or,
where it is large enough, in bytes.

**Launch.** `PlanLaunch` is `plan` with its second sizing, `ResolveWeights` the
walk through the candidate repos of the model index, `Spawn`, `Poll` and `Healthy` the
loop of `serve`, `StopList`, `Terminate` and `Reap` the parts of `Endpoint.stop`
between which the engine forks (`Fork`), dies (`Exit`), or is orphaned. Another
server may hold the port. `Measurer` is `measure` against what is served.

**HubCache.** `cmd` is what each running command has read. `Start` reads the
state, `Save` writes all of it back, `MakePlan` lists the cache and `Evict` removes
one repo. `Use` is an engine that downloads or reads. Access times are the order
of `disk`. A root is that of the environment a command runs in, and a file of the
format from before pins were per root speaks of the root of whoever reads it
(`AllStates`). `overlap`, `handed` and `wanted` are observations.

**Collect, AnswerBook.** `task` is where each item's request stands in the pool,
`ordered` the replies in hand, `ledger` the lines of the file as they can be read.
The cache key is the code's. An exception that no handler of `_ask` names
(`Escapes`) is raised out of the pool (`Raise`), and the collection ends once the pool is
done (`Abandon`). A kill may leave the start of a line, or all of it
but the newline, and the next write lands on the same line. `AnswerBook` says what
such a ledger is good for: answers are added and kept, a cut line costs at most
the one answer written after it.

**Graders, Report, Evidence.** A text is a record of what the graders read in
it. The judge is what it says of each order of two answers of known merit, one of
several outcomes where an endpoint's text decides. `Run` scores the items, `HybridFor`
splits the traffic, `Suite` issues the receipt, `FromJson` is the constructor with its
checks. `Edit` changes one thing of the file, with its digest left, sealed again or
gone. `Reproduce` is the same suite in another order and on another day, `Guard` the
check against a world. An interval stands for the counts it follows from, a digest
for what it covers.

**Intent, Session.** A text is the sequence of phrases the regular expressions
find. A turn applies what was said, then the machine, then the answers, then one
step, and raises where the code raises. `Resume` reads what `Save` wrote. `given` and
`put` are observations.

**Mcp.** What stands on stdin is a set of messages, well-formed or not, in
either framing. `ReadMessage` and `AnswerRequest` are the two halves of an iteration of
`serve`, between which others write the root. A path that a caller names goes through
`expanduser` (`Expanded`), the full path of a listing does not.

**Catalog.** `LoadBegin`, `LoadRead` (one per file, in the order of `Place`) and `LoadEnd` are
the reader with its cache, keyed by the fingerprint taken before the first read. `Review` and `Apply` are the
two halves of `catalog --apply`, `AddTruncate` and `AddWrite` a `write_text`, `Watch...` the
scheduled run. `timer` is what becomes of the schedule that `install_schedule` prints:
launchd's interval counts from the moment it is loaded, systemd's `OnUnitActiveSec=` from
the last activation of the service, so it waits until somebody starts the service
(`StartService`), and again after a `Reboot`. `RunByHand` is no activation.

## 3 Runs

| Run | States | Shows |
|---|---|---|
| `control` | 119,788 | Two concurrent changes, every phase, percentages below and above 100: shares are confirmed, the history is complete, and every accepted change settles |
| `gateway` | 1,311,836 | Two requests and a phase change: the candidate serves only what was approved; one record and one capture per answer; the cap drops the oldest; accounts stand for good |
| `gateway_live` | 105,386 | A mirrored request leaves a mirror record, whatever becomes of the request or the candidate |
| `storage` | 1,248,452 | Captures, one of them illegible, over three starts with crashes, failing writes and failing reads of the key; every stream of up to nine bytes in every cut into chunks of one or two; two updates of a JSON file with and without the lock, with failing calls, kills and machine crashes |
| `gate` | 94,606 | Evidence on both sides of every threshold for two clusters on every rung; three overlapping rounds for two candidates, with edits and removals |
| `operator` | 73,530 | Two workloads over clusters that change, with failing calls, edits and annotations: what is applied fits real cards, a regressed workload is walked down, the loop converges |
| `machine` | 383,462 | A launch with an engine that forks, dies, hangs or holds the port, on seven machines; cache commands that overlap over two roots, and an old state file |
| `evidence` | 170,317 | Collections killed, ended by an exception and resumed; a suite, its receipt, every single edit of it, its reproduction and its guard |
| `agent` | 453,388 | A conversation in any order; a session of the MCP server; the catalogue with its readers, reviewers and a watch whose timer counts or waits |
| `capture_torn`, `capture_key`, `operator_raise` | | A statement of the repository that the code does not keep: section 6 |

Several properties are conjunctions of named parts that belong to one question,
so that one run can ask it:

| Property | Parts |
|---|---|
| `RecordsComplete` | `GatewayTypeOK`, `ExactlyOneRecord`, `NewestRetained` |
| `LogFaithful` | `StoreTypeOK`, `KeyOnDiskFitsLog`, `CleanLogReadable`, `ReadNeverInvents` |
| `DecodingFaithful` | `DecoderTypeOK`, `ChunkingInvisible`, `DiscardCostsOneFrame` |
| `RollbackSound` | `RolloutTypeOK`, `RollbackIsMeasured`, `PinnedHaveNoSay`, `ProvenRegressionRollsBack` |
| `HistorySound` | `OneCandidate`, `LatestRunKept` |
| `SizingSound` | `LaunchedAllocationFits`, `DoorsAgree` |
| `IssuedSaysTheReport` | `NoTrafficLeftOut`, `SameSplit`, `SavingIsCovered`, `JudgeHeardOnPasses` |
| `ConversationKept` | `ExplicitOutranksProse`, `ResumeLosesNothing`, `AnswerRunsHere` |

### Refinement

`Gateway` implements `Metering`. There a request ends once, and the step that ends it with
an answer writes its account and changes what can be read; nothing else is ever written.
The mapping takes the requests in one of the final places for ended, the record that
`finish` would write of an answered request for its account, and the three lists as
they are. `AnswersMetered` is the abstract specification under this mapping, checked as a
property of `gateway`. Beyond `RecordsComplete` it says that no later step of anybody
rewrites what a request was answered, or what was recorded of it.

`Collect` implements `AnswerBook`. The refinement mapping reads the ledger the way a
later run would: `book` is the set of questions whose line can be read, `debt` is 1
while the file ends in the middle of a line. `LedgerKeepsAnswers` is the abstract
specification under this mapping, checked as a property of `evidence`.

### Bounds, and why they are enough

* `control`: a race needs two handlers. Two clusters, one of which is not the
  one that changes, are what isolation needs. 50 and 200 are percentages on
  both sides of the clamp; the start flags add 5, 100 and 200.
* `gateway`: two requests and `MaxRecords` 1 put the lists over their cap. `k2`'s
  bucket is exactly the canary's percentage. There is one phase change; any
  number of them, requests and clusters are covered by the theorem
  `ServesOnlyApproved`. Requests are interchangeable, so their symmetry is used.
* `gateway_live` has no phase change, because the mirror task never looks at the
  router again after its request has started. It uses no symmetry, which would
  not be sound for liveness.
* `storage`: capture sizes 1, 2 and 3 make a torn frame of one capture swallow whole
  frames of another. Three starts allow a key to be torn, created, loaded and replaced.
  The decoder's cap is 3 bytes and the longest terminator 3, so that a stream of
  nine bytes holds an oversized frame, its terminator and frames behind it.
  Chunks of one and two bytes split every terminator in every way. A lost update of
  a JSON file needs two writers; an older entry is there or not. The theorems cover any
  number of writers.
* `gate`: the counts are none, just too few, just enough, suspicious,
  inconclusive, proven below, the smallest perfect score that proves a bar of
  90% (35 of 35) and the one just short of it. The health signals lie on both
  sides of each limit. `History` 2 and three rounds reach the trim, two candidates
  the refusal. The theorems cover any number of all of these.
* `operator`: two workloads, because a failure on one must not stop the other,
  and `MaxEvents` 2, because a lost race needs one edit and a failed call. The node
  lists hold cards of one true size with a label in MiB and one in bytes, a TPU slice, a
  fractional device count, missing labels and a CPU. The names need to be
  made valid for Kubernetes, each in its own way. One start has a workload at `cut` that is marked
  as regressed beside one whose spec is malformed.
* `machine`: three processes are an engine, a worker and one more that is forked
  while the workers are listed. One poll before the deadline has a probe on
  either side of it, a second run finds what a first one left. The requests reach
  every engine, the slots that do not fit and the smaller window in which they
  do, a forced engine on the wrong hardware, a precision nobody publishes and a
  model that does not fit. Three repos of sizes 1, 2 and 4 make every budget
  choose between them; two commands and two operations are what an overlap needs.
  `DoorsAgree` is evaluated for every request over contexts 1 to 10 and
  concurrencies 1 to 40, which lie on both sides of every limit there.
* `evidence`: five items are enough to prove a bar of one half when all of them
  pass, and not when one fails. Two items, three runs and two kills
  reach a ledger torn, appended to and torn again. The guard's worlds have every
  mix of three clusters in steps that lie on both sides of a fifth and a tenth.
* `agent`: three turns are a value, what might override it and a resumption. The
  sentences and answers touch every field, some with the wrong type. Three
  messages are enough for a bad one between two good ones, in both framings. One
  catalogue drop-in stands in front of an entry and one does not; `MAX_PER_RUN` 1 with
  two repos of one name needs several runs of the watch. One of two files under the
  root has a tilde in front of its name.

Deadlock is not checked where the model's actors all finish or reach a bound
(every handler, request, round and writer acts once, streams, turns and edits
are bounded): a state in which all are done is the expected end. `operator` never
ends, and there it is checked.

## 4 Fairness

* `ControlSpec`: a handler that has been started has no await point left, so the
  runtime's thread runs it to its end. `Receive` has no fairness: nobody has to
  ask. The lock is granted once it is free, and only finitely many handlers
  compete for it.
* `Gateway!FairSpec`: an awaited upstream answers or its connection fails, in the
  end. This is the environment's part. The client that `main.rs` builds sets no
  timeout, so the gateway itself guarantees it only as far as the kernel does.
  Under an upstream that stays silent for ever, the mirror record would never
  come, and `PROJECT.json` lists that as a hazard without a property.
  `MirrorUsage` and `ClientGone` have no fairness.
* `AtomicIO!FairSpec`: a process that can take its next step is scheduled. A lock
  is released by the kernel when its holder dies, so nobody waits for a dead
  process.
* `Operator!FairSpec`: `run` never exits and every kubectl call has a timeout, so
  the controller takes its next step. Which way a call ends has no fairness.
  The bound on events says that failures and edits stop in the end, which
  `RegressionRetreats` and `Converges` need; the code keeps trying for ever.
* `Launch!LaunchFairSpec`: the launcher's own steps end, since each probe has a
  timeout inside the deadline of `serve`, and the signals of `stop` have one too.
  The engine has no fairness: it may hang, fork or die.
* `MCEvidence`: the pool's workers and the main thread keep running, and a request
  ends (its socket has a timeout, and an exception that escapes ends it too). How it ends has no fairness, so `RunsEnd` holds
  for an endpoint that asks to be tried again for ever.
* `Catalog!CatalogSpec`: a timer that counts runs the watch again and again. A timer that
  waits for the first activation of its service runs nothing (`WatchBegin` is not enabled),
  and nobody has to activate it or to run the watch by hand. `EveryListedModelStaged` is
  therefore about schedules that count from some point on; with the printed systemd unit
  alone nothing is staged (section 6). Kills, failed fetches and reboots are bounded by
  `MaxFaults`.

All other runs check safety only, under specifications without fairness.

## 5 Proofs

Every theorem holds for every value of the constants under the assumptions
named in the modules. These fix types (`Bucket` maps keys into `0..99`,
percentages are `u8`, phase changes are well-formed, the bar is a fraction strictly
between 0 and 1, a frame has at least one cell of ciphertext, a text is a sequence, a repo's size and a
node's figures are numbers, the models of a launch have the positive figures and known precisions
that `catalog.load` asks for, the catalogue of a session has one model under an id), say that the values which stand for "nothing" differ
from the real ones, and that `HISTORY` and the record cap are positive. `Migration`
also assumes that suites carry no judge-only readings, since `cmd_migrate` ends
the round for a judged suite. Three things are assumed to be finite, because sums need
it: the clusters of the traffic a guard is shown and those that a proof has shares of
(`EvidenceAssumption`, which also says that a proof's items are a list), and the repos
of a model cache (`HubCacheAssumption`). `CatalogAssumption` says that the installed rows have
every field, and that the built-in file, which is read anyway, is none of those that people
put in or that `$ONPAR_CATALOG` names. Apart from that the theorems hold for any number of handlers, clusters, requests,
writers, rounds, captures, commands, processes, workloads, items or files. TLC
evaluates the assumptions in every run.

### The gateway: `GatewayProofs`

| Theorem | Says |
|---|---|
| `TypeCorrect` | the type invariant of `Control`; recorded shares are at most 100 |
| `EscalationConfirmed` | only a confirmed write raises the share of any target |
| `MoveAlone` | a change moves only its own route and those that inherit it |
| `Sticky` | no key leaves the candidate unless the share of its target falls |
| `ShareApproved` | a share on the candidate was confirmed at that height or above |
| `Chain` | each change replaced what the previous change of its target wrote |
| `History` | every applied change is recorded exactly once |
| `ServesOnlyApproved` | the candidate serves only buckets whose share was approved |
| `EveryAnswerRecorded` | `RecordsComplete`: one record and one capture for each answer, the newest kept |
| `GatewayMeters` | `AnswersMetered`: the gateway implements `Metering` |

None of the first seven is inductive as it stands. `LockInv` says that a handler
between lock and release holds the lock, hence is alone, and that what it read is
still what the router holds. That fact turns the comparison in `Escalates` into one
with the present share, which `EscalationConfirmed` and `ShareApproved` need.
`TableInv` ties the routing table to the changes applied so far: a target's
phase is what its latest change wrote. `Chain` needs it because the next change
reads the table and not the list. `RecordInv` says which handlers own an entry
of `applied` and of `transitions`, so that appending cannot produce a second
one.

For `ServesOnlyApproved`, a request uses a clone of the decision, so the property
cannot be argued from the router as it is now. `Approved` adds to it that every
route keeps the incumbent of the command line (`Anchored`), that shares are
approved, and that the fallback of every decision taken is the incumbent or
nothing (`Chosen`). Then `Start` picks the candidate only under an approved share
that covers the bucket, the changes applied only grow, so that a later rollback
cannot take the approval back, and a failover leads to the incumbent. Requests that
were decided before a rollback may still be served by the candidate. That is what
the code does, and the property allows it because it asks for an approval that was
given, not for one that still stands.

`EveryAnswerRecorded` rests on `Complete`: each request is accounted for
(`Accounted`), with exactly one entry in the log of records if it was answered and
none before, the same for its capture, and the ring of records is the end of that
log. Nothing is recorded of a request before the step that answers it, whatever
becomes of it earlier, so what that step appends is its only entry; a position in a
log is named by the request, so that the append cannot be somebody else's.

`GatewayMeters` needs the same invariant. `StepMeters` sorts the steps into those that end no
request (`NothingEnds`), those that end one without an answer (`EndsUnanswered`), and the two
that conclude one (`EndsAnswered`), after which the ring holds what `Metering` says can be
read (`EndIsNewest`).

### The migration: `GateProofs`

`RollbacksAreSound`, `AdvancesAreProven`, for any clusters, evidence and health signals
and any bar that is a fraction strictly between 0 and 1, which every float is that
`check_bar` accepts. The types (readings of clusters, a rung of the ladder) are inductive,
because an advance goes to the next rung only (`AdvanceSays`, `NextIsAbove`). The
rest follows from what `decide` is of any state with these types: `WaysOut` splits
it into its four ways out in the code's order, `AnswerFields` and `ProposeFields` say
what comes out of each. That pinned clusters have no say is shown by deciding
twice, with their readings and without, and comparing way by way (`PinnedSilent`).

`OneMigration`, `HistoriesSound`, `EditsStand`, `ShadowOnly`. The state a round holds in
memory must satisfy what the file does, since it will become the file
(`Histories`). `Carried` says that after a quiet edit the file and every round under
way hold the rung the operator wrote. `Tallied`, for `HistoriesSound`, says of whose
rounds a history consists: the file's are over, and a round under way holds such a
history with at most its own run behind it, so that no append repeats one;
trimming drops a prefix and keeps this (`TrimTail`). `ShadowOnly` rests on the lemma
`AdvanceFromShadow` about `Gate!Decide`: without health, a rung with live traffic
never advances.

### What is on disk: `StorageProofs`

`TypeCorrect`, `ReadersSeeWhole`, `UpdatesKept`, `ScratchGone`, of `AtomicIO`.
`ReadersSeeWhole` holds with or without the lock: `Private` says that a writer
works on a file of its own, which nobody can read before the rename, and that it
is whole and synced by then; `Published` says that what the path names, now or
after a crash, is whole and on the disk. `UpdatesKept` needs the lock: `Serial` says
that at most its holder is under way, and `Stored` that what the holder is about
to store contains all that was acknowledged. `ScratchGone` is about calls that
returned True: the rename took their scratch name away, so it does not matter whether
the unlink works, and after the directory was synced a crash cannot bring it back. Of
other calls a scratch file may stay, since `atomicio.py:146` suppresses the error.

`StoreTyped`, `KeyFitsLog`, `ReadersHonest`, of `CaptureStore`, for any captures of any
size and any number of starts. `KeyKept` says that every cell of the log was made
under the key in the file, that the key in memory is that key, and that there is
no log before there is a key: a torn key file can only be found by a start that
finds nothing sealed. All of that holds until a start whose read of a good key
failed writes over it, which is the condition of `KeyFitsLog`; `capture_key` shows the
step. `ReadersHonest` has no such condition for what is returned, only for that it is
all: under another key the reader refuses. It is about what `read_all` returns. `Shape` says
what any log looks like: the frames of `written` up to some point, one after the other,
and behind them nothing, a part of a frame, or such a part with whatever was
appended to it. The lemmas follow the reader down such a log: it reads each frame
as its capture (`ReadsFrame`, by induction on the number of frames in `ReadsFrames`),
and at a part of a frame it ends without an error or refuses
(`ReadsBroken`). It never takes the frames behind a torn one for a capture, because
the cells it would decrypt do not belong together. `FrameShapes` and `TornShapes` say
that appending, whole or torn, keeps the shape.

### The machine: `MachineProofs`

`SizingAlwaysSound`, of `Launch`, for any model, machine and request with positive figures.
Its invariant, `PlanIsSized`, only says that what is launched is `Sized` of the request:
that is two lines, and the rest is arithmetic over the solver. `LaunchedAllocationFits` follows
the plan through its second sizing: `FittingIs` says what the first one chose,
`SlotsWithin` that the slots an engine gets never exceed what the plan was sized for, and
`LaunchableFits` that what llama.cpp multiplies together again then fits. The four ways into the
solver agree (`DoorsAlwaysAgree`) by two facts about rounded division (`Quotient`, `Fraction`),
with which each inverse of `solve` is the largest value `solve` accepts (`ContextDoor`,
`ConcurrencyDoor`); a model that was rejected misses by something, because what the
rejection reports is its smallest precision, and a precision that fits makes that one fit
(`SmallestIs`, `FitsBelow`, `Refused`); a fuller batch never costs more per token
(`FullerIsCheaper`); and a batch never reads more than all experts (`OptimismBounded`). The run
evaluates the last four for contexts 1 to 10 and concurrencies 1 to 40; the lemmas hold for all.

`EvictionsSound`, of `HubCache`: `plan_eviction` deletes the least recently used first and stops
as soon as the cache fits, so an entry it takes is `Due`: with every older one gone that was not
pinned, the cache was still too big. `PlannedIsDue` says so of the plan. `EvictionsDue` carries it from the listing to the
last deletion of a command, through whatever other commands and engines do to the disk in between,
because it speaks of what the plan had seen.

`PinsKept`: `PinsTold` says what each running command is about to write back. If no
other command on its root has saved since it read, that is what people were told
plus its own change, so saving loses nothing; otherwise the root is in `overlap`. A
file of the old format is whichever root's reads it, so its first save settles
whose it is, and the other roots are `handed`: the default root can lose its pins that
way (section 6).

`StopTells`: `Seen` follows a process of the engine through `stop`. While the engine
runs it is a descendant of the engine or has escaped. Once the listing was taken it
is on the list or escaped, and in the end it is dead, among the survivors or
escaped. A fork after the listing is an escape by definition of the observation,
which is what the code cannot see.

### The operator: `OperatorProofs`

`RaisesOnlyStale` rests on `AsListed`: between the listing and the end of the pass,
the phase of a workload still to be reconciled is the one the pass listed, unless
a person changed it. One rung down from what was read is then not above what is
overwritten. The theorem says how far the rule that the controller never raises a
phase holds; the rule itself fails (`operator_raise`, section 6).

`ShardsAlwaysFit` says of an applied Deployment that a node of the list that was read
really has the cards and the memory. `NodesAssumption` says that labels are truthful,
in one unit or the other, and `ReadTruly` that `nodes.py` then reads what is there: the
threshold tells the units apart (`LabelRead`) and a count is read as it stands or
refused (`Counted`). The rest is arithmetic over `solve`, `TensorParallel` and the
device count of the manifest (`ShardsFit`, `CardsHold`), and needs only the part of
`AsListed` that says where a pass's nodes and specs come from.

### The evidence: `CollectProofs`, `EvidenceProofs`

`RepliesHonest`, `BoughtOnce`, `LedgerIsBook`. `Honest` relates the three places an
answer lies in: the task of the pool, the reply in hand and the line of the ledger.
All three hold what the engine gave for their question, an open line is the last
one, a collection that an exception has ended records nothing more, and a run that
resumes has no item on the way whose answer its ledger held.
`BoughtOnce` has a condition that the proof brought out: the run asks each question
once (`AsksOnce`). An eval set that puts one question twice buys it twice, because
what is missing is decided before anything is asked (`collect.py`). `LedgerIsBook`
is the refinement: every step of `Collect` is a step of `AnswerBook` or none, under
the mapping of section 3.

`AcceptedStands`: `Taken` says that what was read came from the file as it is and
passed the constructor's checks in the constructor's order; the digest then covers
what was read. `SameMix` is about sums: a guard that finds neither `traffic_moved` nor
`traffic_uncovered` was shown traffic whose share in the proven clusters is close to
the receipt's. A distance of mixes bounds the difference of any part of them by
half (`SumHalf`, `DistanceIsSum`). The sums are the folds of the community modules, and
`SumMix`, `SumPartOf` and their like say of them what addition does: the
order of taking elements makes no difference, and a sum is that of its parts.
`GuardSaw` says that what was found is what `Check` finds of the receipt in hand.

`ReproductionsVerify`: the same questions in another order score the same, because what
`Run` counts are places of the list, and a reordering is a bijection of places
(`Reordered`, `AsMany`, `SameRun`). So the suite says the same, day and build apart
(`SameSuite`), and `verify` finds nothing exactly where the digests of that part agree
(`VerifySays`). `Reproduced` says that a verdict is of the receipt that was read and of
a run of the work that was proved.

`IssuedHonestly`: `Untouched` says that the file, until somebody edits it, is what the
suite issued, and that its reader got that. The rest compares two ways to the same
figures. The groups of the receipt list the scores of a band (`Listed`, `IssuedSays`), a
run scores each cluster with traffic once (`RunScores`), and the share that moves, a sum
along a list on one side and over the scores on the other, is one sum over clusters
(`MovableShareIsSum`, `SplitsAsScored`). A judge is heard only where the graders did not fail
an item, so one that approves agrees with them (`ApprovalAgrees`), provided no prompt was
asked twice (`MergedIsItem`).

### What an agent works with: `AgentProofs`

`ConversationStands` and `QuestionsOnce`, of `Session`, for any sentences, answers and
machines. The property says that a field that was given holds what was given; that is
not inductive, because the next sentence overwrites every field that is not in
`explicit`. `Honours` therefore says that what was given is in `explicit` and in
`stated`, and that what was put is in `asked`. `Formed` says that the evidence is what
is read in the text: that is why a file without the evidence loses nothing
(`FormedSurvives`). Both are asked of the live session and of the session that the
saved file would be read back as, with what had been given and put when it was
saved, so that a resumption is no special case. A turn is followed through its inputs
in order, each of which may be refused after the one before was applied
(`ToldIsSound`, `PlacedIsSound`, `AnsweredIsSound`), to its one step (`StepProceeds`), which
turns the stage, chooses a model once and puts a question that is open
(`WorthAskingIsOpen`). That an answer would run needs nothing but the form of a session:
`AnswersRun` holds whatever the conversation was. A ranking is an order of the catalogue
(`RankingOrders`), so that some candidates have a foremost one (`ForemostIs`); what is named is a
candidate, found again by its id (`NamedRuns`, `ModelByItsId`), and fits at the precision named
(`NamedFits`); and if nothing fits, what is offered in its place was tried (`InsteadRuns`).

`RepliesAreHonest`, of `Mcp`, for anything on stdin and any names under the root:
`RepliesMatchRequests` asks for an order-preserving
bijection from the replies that name a request onto the requests taken. It is almost inductive:
`RepliesInv` adds that the request in hand is the last message taken. `ReadMatches` shows that
what is taken is owed nothing while it is in hand, or ever if it is no request, the answer to an
empty array included, which names none; `AnswerMatches` extends the bijection at its end.

`CacheCurrent`: what lies in the cache under the present fingerprint is what the
files say. `CatalogInv` has three parts. `Dated`: every file's mtime is before the
clock, so that a write gets one that no fingerprint holds. `ReaderBacked`: of each
file that the load has read, either the file is no longer the one whose mtime the
fingerprint holds, or it says what was read (`Backed`). `CacheBacked`: each entry of
the cache was made of such files. `DiskStep` is all that the proof needs of the nine
actions that touch the disk: a file is kept, removed, or newer than everything
before. If the key were taken after the reading, `Backed` would fail where a file is
replaced between the two. The property has a condition, that no file the environment
names is missing; section 6 says what happens otherwise.

`UpdatesAreReviewed`, the action property `AppliedIsConfirmed` of `Catalog`, needs `ReviewInv`: the
built-in file has the fields that a review compares, whoever adds a model writes under its
repo's name, and every proposal in hand was made of an entry reviewed. `BuiltInStays`
says that only an update writes the built-in file, so a step that changes it is one; `RevisedConfirms`
that a row its own proposal is applied to says what its config says; and
`UpdatesConfirm` that a row which was reviewed gets no other proposal than its own, whichever
of several the update would choose.

### Where the proofs corrected the models

* `Report!Belongs` and `FromJson`: the code asks its questions in an order, and a claim
  without items may state any interval. Arms of a CASE that overlap are in no order,
  whereas TLC takes the first that holds; where the code's order decides, the modules
  now write IF ... ELSE IF.
* `Evidence`: a work that is `None` would be taken for no work.
* `Evidence!ReproductionVerifies` said that a reproduction verifies a receipt with the same
  claims, bar and format. That is false once a file may be edited twice: a claim filed
  elsewhere and filed back stands in another place of its group, and the digest covers
  lists in their order (`_canonical`, `receipt.py`), so an honest run does not verify it.
  The property now says what is compared: everything but the day and the build.
* `Catalog`: a cache entry made while a named file was missing is not what the
  files say (section 6), which the condition of `CacheIsCurrent` now leaves out.
* `Catalog!AppliedIsConfirmed` said that an update leaves every entry it proposes about saying
  what its config says. That is false if a drop-in of another repo stood in front of a
  shipped entry during the review and was taken out since (section 6), and of the rows
  before the last one with an id, which `apply_proposals` does not touch. The updater now
  keeps the entries it reviewed (`specs`), only the last row of an id is written, the
  property is about the rows that were reviewed, and the run has such a drop-in.
* `Collect!OnlyMissingBought`: needs `AsksOnce`, as above.
* `Launch!DoorsAgree` said that a fuller batch never costs more per token, also of a batch so
  slow that its tokens per second round to none, for which the code gives no cost. The
  clause is now about batches that have one.
* `HubCache!EvictionKeepsPinsAndRecency` said what a step of an eviction may take. It now says
  besides that no other step takes a repo away.
* `Operator!DeployedShardsFit` compared the plan with nodes as they were read. It now
  compares it with what the nodes have, so that a misread unit breaks it.
* `Report!Issue` merged two records with `@@`, of which the prover knows nothing; it now
  says which of the two each field comes from.
* `HubCache`, `Planner`, `Session` and `Mcp` sorted and filtered sequences (`SortSeq`, `SelectSeq`),
  recursive functions of which a proof can say nothing. What they decide is now said of
  sets and ranks: the entries an eviction tries before another, the model no other is ranked
  ahead of, the first `LIST_LIMIT` names that pass.

### What is only model-checked

* Liveness (`ChangeSettles`, `MirrorLeavesEvidence`, `EveryCallEnds`, `LaunchSettles`,
  `RegressionRetreats`, `Converges`, `RunsEnd`, `EveryListedModelStaged`): outside what the
  prover supports.
* `DecodingFaithful`: what the decoder's fold computes for every stream, against a
  reference that reads line by line, is an induction over data by two recursive
  definitions at once. TLC enumerates every input up to the bounds.

The properties `EscalationStepsConfirmed`, `ChangesChain`, `ClustersMoveAlone`,
`BucketsSticky`, `ControlTypeOK`, `ScratchRemoved` and `AtomicIO!TypeOK` are proved for every
instance, and no run lists them besides.

## 6 Where the code and its words disagree

Three runs end in a counterexample, which shows a statement of the repository that
the code does not keep:

* `capture_torn`: `store.rs:287-289` promises that a crash in the middle of an
  append costs the last capture and not the corpus. A restart appends behind
  the torn record, and what follows can no longer be read.
* `capture_key`: `store.rs:158` says "Load a key from `path`, generating one if absent."
  Every error of the read, and not only a missing file, leads to a new key, which is
  written over the old one (`store.rs:166-180`). The log cannot be opened any more.
* `operator_raise`: `controller.py:23-25` says of `spec.phase` that the controller lowers it
  and "never raises it", `reconcile.py:89` "Only ever lower." The patch carries a phase
  computed from the listing: when a person has lowered the phase further since, it
  raises it. `RaisesOnlyStale` proves that this is the only way.

Seen while modelling, and without a run of their own. The models do what the
code does, so the properties are stated so as to allow it.

In the gateway and the migration:

* `proxy.rs:47` calls the history "Every phase change applied to this process, oldest
  first." The router's lock is dropped before the history is written
  (`control.rs:215`, `240`), so two concurrent changes can be recorded in the
  opposite order. `HistoryComplete` asks for each of them, not for the order.
* `meter.rs:56` says of `Unreported` that "The upstream reported nothing." The mirror
  task feeds each chunk of a JSON body to the meter as if it were the body
  (`proxy.rs:255`, `meter.rs:112`), so a body in two chunks counts as unreported.
* `proxy.rs:554-557`: an answer whose body fails, or whose client leaves before
  the headers, is never recorded, although `meter.rs:3` says "Every request that
  crosses the gateway is metered".
* `proxy.rs:555`: the error after a failover names the backend of the decision,
  not the one that failed.
* `store.rs:323`: a record that decrypts and does not parse is passed over, and neither the
  caller nor the log is told. `LogFaithful` is about the others.
* `sse.rs:100`: the counter counts how often the cap was hit, so one very long
  frame counts several times. `DiscardCostsOneFrame` is therefore a bound.
* `gate.py:447` says that "One deterministic trigger anywhere in the set is enough to
  act on". When an uncalibrated judge alone proves a regression, the gate holds
  (`gate.py:370`) before it looks at what the graders suspect.
* `migrate.py:89-90` says of the rung "This module never changes it". An edit made
  while a round is under way is overwritten when the round saves the state it
  loaded earlier. `QuietEditsStand` is restricted to edits made between rounds.
* `migrate.py:18-20` says that the gateway applies rollbacks by itself. No code of
  the gateway does.
* The loop passes no health to the gate, so it can propose the first canary and
  nothing beyond it (`ProposesOnlyFromShadow`).
* `atomicio.py:35-41` derives the scratch name from the identity of the path
  object. Two threads that share the object get the same name. The lock hides
  this whenever there is one.

On a machine and in a cluster:

* `reconcile.py:285-322`: the Deployment carries no node selector, so the scheduler may
  put it on a node other than the one it was sized for. `DeployedShardsFit` says that
  there is one it fits.
* `cache.py:450-451` says that an old file is "attributed to the default
  cache root, which is the only cache it could have meant". It is attributed to the root
  in the environment of the command that reads it (`cache.py:460`), and the first save
  files its pins there. `PinsAsTold` leaves out the roots that lose theirs so (`handed`).
* `cache.py:478-492` reads, changes and writes its state without `update_json`,
  although `launch.py:423-424` says that all callers share one implementation. Two
  commands on one root can lose a pin (`overlap`).
* `launch.py:1031`: what is said to have been stopped may have forked after the
  workers were listed, or been cut off from the engine before (`escaped`).
* A machine without an accelerator can be given vLLM by the recommendation when
  the concurrency asks for it, which the launcher then refuses.
* A mixed rig is told by the names of the cards, so two cards of one name and
  different memory are taken for equal.
* There is no repository name for some precisions of MLX, which are then not
  launched although they fit.
* `meets_requirements` is true of a plan that does not fit.

In the evidence:

* `collect.py:325` says of `_ask` "Never raises." An `IncompleteRead` while a
  body is read (`collect.py:259`, `261`), or `tool_calls` that are no list (`295`), escapes
  it, and `future.result()` (`673`) ends the collection (`Escapes`). What a resumed run
  finds is sound all the same (`LedgerKeepsAnswers`, `OnlyMissingBought`), but an answer that
  landed and was not recorded is bought again.
* The judge is asked only about items that the graders had not failed, so the
  calibration (`prove/__init__.py:331`, `_judged` at 173) cannot find out a judge that
  approves of everything. `JudgeHeardOnPasses` states this.
* A judge that cannot be reached leaves its items out, which can promote a
  cluster whose graded items alone pass.
* The cache key of the resume ledger has neither `max_tokens` nor the temperature.
* A torn line costs the answer written after it, besides the one that was torn.
* A guard shown fingerprints for none of the receipt's models says "holds".

In the session and the catalogue:

* A session may print a fitting model beside the plan of one that was chosen on
  an earlier machine. `AnswerRunsHere` is about what it prints as its answer.
* A session in its first stage jumps to the proof once everything is known.
* A later sentence that corrects an earlier one is not heard: the first match
  in the whole text wins.
* `set(concurrency=0)` is stored before the step that refuses it.
* `onpar build --json` ignores `--save`.
* `mcp.py:849-850` says "A malformed line is one bad message, not a dead
  session." A line whose bytes are not UTF-8 raises a `UnicodeDecodeError`, which
  nothing catches, and the server ends. `RepliesMatchRequests` is about what was
  taken before.
* `tests/test_mcp_resources.py:120-122` says that "everything listed can be read".
  `expanduser` (`mcp.py:241`) is applied to the relative path of a URI (`mcp.py:991`) and
  to the full path of a listing (`mcp.py:961`), so `~x.json` is listed, and reading it
  fails or leads to a home directory (`Homes`).
* A framed message that is malformed, `null` or cut off is taken for the end of
  the input. An empty array is answered and any other array ends the session.
* A listing cut off at `LIST_LIMIT` does not say so. `resources/read` serves an altered
  receipt that `onpar_receipt` refuses.
* A drop-in with the id of a shipped entry stands in front of it. What is proposed is
  made of the drop-in, and applied to the shipped entry (`catalog_update.py:475-484`),
  which is given the figures of the drop-in's repo and marked verified. What is loaded
  does not change before the drop-in is taken out. `catalog-add` validates less than the
  loader, and a file it leaves half written makes `load` fail.
* `catalog.py:132` says of a file that is missing from the fingerprint "missing: _read
  raises with the name". The fingerprint of a missing file is a key like any other
  (`catalog.py:262`). A load that took it, and found the file when it came to read it,
  keeps its models under that key. Once the file is taken out again `load` answers
  with the models of a file that is gone, and nothing is raised. This needs a file
  that `$ONPAR_CATALOG` names, so `CacheIsCurrent` asks that none of those is missing.
* `watch.py:351` names the timer "Run onpar model discovery every
  {interval_hours}h". Its only trigger is `OnUnitActiveSec=` (`watch.py:354`), which counts from
  the last activation of the service: as installed, and after every boot, it never elapses.
  (`Persistent=` beside it is ignored.) Models that were promoted stay listed as pending.

## 7 What is not modelled

`PROJECT.json` has a line for every component. Not modelled as a whole:

* engine telemetry and host statistics: text and counters parsed for one reply;
  no state survives a request;
* box and packs, hosting: bills of materials, price tables and rendered
  commands; one call, one output;
* clustering of captured traffic: a deterministic function of the characters of
  prompts, which a model would replace by its result;
* the core library: licence tables, references and flags, whose unit tests
  enumerate their cases;
* release tooling, the workbench, the SDK and the desktop shell: they edit the
  repository, or render what the modelled parts return.

Within the modelled components:

* the bytes of requests, model rewriting, headers, transcript text, reasons: no
  property looks at them;
* what redaction finds, only that it may refuse a text;
* floating-point rounding, in the gate (`gate.py:256`, a cluster a tenth below the
  bar) and in the planner: comparisons are exact here;
* two gateways on one capture log (`store.rs:134`), which the code itself excludes;
* one scratch name shared by two threads of one process (`atomicio.py:42`);
* an upstream that never answers and never closes (`main.rs:188`);
* the equivalence matrix, kappa, and the statistics nothing decides on;
* engine flags that sizing does not rest on, and the table of kernels;
* the conversation's wording, and `advise.py`, `brief.py` and `posttrain.py`;
* symbolic links between the blobs of one cached repository;
* the text of custom resource definitions, and of timers but for what triggers them.

## 8 Plan

Done: every component of section 1 that keeps state or decides something, with
the compositions of section 2, the refinements of `AnswerBook` and `Metering`, and the proofs of
section 5, which cover every safety property of the runs but `DecodingFaithful`.

Next:

1. Composition of the migration loop with the gateway's control surface: an
   operator who posts what the loop proposes.
