# mcp-sandboxd, specified

TLA+ modules that model mcp-sandboxd, TLC configurations that check them on
small instances, and TLAPS proofs about them for all instances. Every
definition is taken from the Go source; `PROJECT.json` (`map`) names the lines
each one stands for, the hazards of the code at their lines, and the properties
that watch them.

To check a module: `tlc -config MCBroker_stream.cfg MCBroker`. To check
proofs: `tlapm BrokerProofs.tla`.

## The system

mcp-sandboxd is an MCP server. A client names a sandbox by an *identifier* and
asks for a *run*: a list of commands to execute there. The server creates the
sandbox (a Docker container or a Kubernetes pod) when it is needed, executes the
commands, streams their output as server-sent events, copies `/artifacts` out of
the sandbox, and lets a reaper delete sandboxes whose TTL has passed.

| Part (below `src/internal`) | State | Operations | Module |
|---|---|---|---|
| `runs/lock.go`: FIFO lock, one per identifier | `queue`, `locked`, a channel per waiter | Acquire, release, ctx end | `FIFOMutex` (what it promises), `FIFOLock` |
| `runs/manager.go`: run manager | `runs`, `brokers`, `latestRunByIdentifier`, `locks`, the `Run` structs, all under `m.mu`; metrics | RunSandbox, executeRun, failRun, extractArtifacts, evictIfNeeded | `CommandLoop` (what it promises), `RunManager`, `RunLock`, `RunLoop` |
| `sse/sse.go` and the SSE handler | history, subscribers, closed; one channel per client | Publish, Subscribe and its replay, cancel, Close | `Broker` |
| `sandbox/manager.go`: Docker backend | `sandboxesByIdentifier` under `m.mu`; containers and labels at the daemon | Ensure, Delete, Restart, ReapOnce | `SandboxManager` |
| `sandbox/kubernetes/manager.go`: Kubernetes backend | the same map; pods and labels at the API server | the same, with polling | `KubernetesManager` |
| `reaper/reaper.go` | a ticker | ReapOnce every `REAPER_INTERVAL_MS` (5 s by default), 30 s at most per pass | in both backend modules, its goroutine in `ToolCalls` |
| `artifacts/extract.go`, `CopyArtifacts` of the executors | a directory per run, two counters | one tar entry after another, ListFiles | `Extraction` |
| `execCommand`, `eventWriter`, the executors' `Exec` | the output captured so far, its mark; `CommandResult`s that are shared with pollers | start, write, wait, record | `Execution` |
| `config`, `mcp/handler.go`, `mcp/timeouts.go`, `normalize.go`, the checks and the wait of RunSandbox, `main.go`, `server/app.go`, `reaper.go`'s goroutine | `Config`; a context per call; the channels of Stop | Load, tools/call, RunSandbox, Shutdown, Close, Stop | `ToolCalls` |
| metrics, debug page, smoke client, devwatch | none, or write-only | | not modelled, see below |

How they interact: the HTTP handler of a `run_sandbox` call registers a run with
the run manager, starts a goroutine for it and may wait for the run's `Done`
channel. The goroutine takes the identifier's FIFO lock when the request says
`lock_sandbox`, calls Ensure of the backend, executes each command there,
publishes to the run's broker, extracts, settles, and closes `Done`. Other
requests evict old runs meanwhile, and close their brokers. The reaper shares
nothing with the runs but the backend's map and the daemon.

### What is hard here

- **Locks are short.** `m.mu` of the run manager and of the backends is never
  held across a call to a daemon, an `Acquire`, or a `Publish`. What was read
  under it is stale afterwards: the run looked up by extractArtifacts, the
  expiry compared by the reaper, the container adopted by Ensure.
- **Three unlocked steps of the broker**: the replay of the history, the send of
  a replayed event, and the closing of a channel after its subscription is gone.
- **Two lives of a run.** A run *ends* (`EndedAt`) before its goroutine is done
  when it fails, and after it when it succeeds; only the former can be evicted
  at work.
- **Failure.** Each call to a daemon may fail between two changes of the map;
  the process may die at any of them; only containers, pods and labels survive.
- **Time.** 24 hours for the lock, per-command timeouts, an await timeout, TTLs,
  a reaper that looks at the clock once per pass.
- **Limits.** History and channels of 200 events, `MAX_RUNS`, extraction limits,
  the bytes captured of an output, the width of a `time.Duration`.
- **Shared results.** executeRun writes a command's result without the mutex, and
  `Get` hands the same structures to a poller, which encodes them.
- **A sandbox is nobody's.** Its TTL is extended when a run begins and not while
  it executes; the reaper and other requests do not ask who works in it.

### What makes each part correct

- Lock: one holder, first come first served, no channel closed twice, nobody
  starves.
- Run manager: each run settles once, with the outcome its commands justify, is
  announced to its subscribers in order, is retained until it has ended, gives
  its lock back and closes `Done`.
- Broker: nobody sends on or closes a closed channel; no event twice; what is
  missing was dropped at a full channel; no handler is left behind.
- Backends: an identifier gets its own sandbox, made under the policy in force;
  nothing that a caller was promised is taken down early; nothing stays for ever.
- Execution: a status tells what became of the process, a captured output is
  whole or marked, what a poll was told stays, commands do not overlap, the
  sandbox is not taken without cause, and every command comes to its end unless
  something that it leaves behind holds its output open.
- Tool calls: the configuration is sane whatever the environment says; what is
  started can be executed; an error means that nothing was; a wait is as long as
  asked for; a call is answered in time; a signal ends the process.
- Extraction: the limits hold at every moment, what is listed is whole, and what
  fits is not refused.

## The modules

A step of a module is one critical section of the code's mutex, one select, or
one call to a daemon: whatever cannot be interleaved with another goroutine. An
action carries the name of its function, or of what it does in it. Integers that
are never compared with a width are mathematical; `Extraction` wraps its int64.

**`FIFOMutex`, `FIFOLock`.** The abstract mutex has a line and whoever is
inside. `FIFOLock` has the code's queue, its flag and its channels; a waiter's
channel is made by one Acquire and known to nobody else, so the caller stands
for it. The end of a context is a step of its own: the two critical sections of
a caller that gives up have a gap between them, into which a release may come.

**`RunManager`.** `handler[r]` is where RunSandbox is, `exec[r]` where the
goroutine is. `run[r]` are the structs, which survive their eviction because the
goroutine has a pointer; `runs` are the keys of the map. A run ends under the mutex
and is counted behind it, which are two steps (`Conclude` in Fail and Settle, then
Count). `line` and `holding` are
the lock, seen as the abstract mutex plus the 24-hour timeout whose error
executeRun drops: a run that timed out executes without the lock. `RunLock` maps
them to `FIFOMutex`, an instance of which `LockIsFIFOMutex` is. `RunLoop` maps one
run, `WatchedRun`, to `CommandLoop`. A command returns
with a status that the environment chooses; the deny list, `allow_failure` and
`continue_on_error` decide what becomes of the run. The clock counts readings of
`time.Now`, which are taken to be distinct. Age-based eviction (7 days) is part of
the same action as eviction by number; `EndedBefore` is its cutoff, and an
extraction (2 minutes at most) is taken not to last 7 days. The panic of a nil
dereference ends the process: `alive = FALSE`.

**`CommandLoop`.** What a run promises about its commands, with nothing of how they
are executed: the first command without a result is the next; it is handed over,
or refused because it is denied; a result is given once; a failure that is not
allowed spoils the run and stops it, unless it is to continue; the verdict follows
from what spoiled it. Two modules implement it, each with a property
`LoopAsPromised`: `RunManager`, where a command takes one step among many runs, and
`Execution`, where it takes many.

**`Broker`.** Events are numbers, the run's last one is `LastEvent`. A handler
finds the broker (or makes a fresh one when the run has been evicted:
"orphaned"), subscribes, replays, reads and cancels. A send to a closed channel
is a stage of its own, "panicked". `received`, `channel`, `replay` and `dropped`
account for each event once. The panic in a replay is recovered by net/http.

**`SandboxManager`.** Containers have an id of their own, a state and labels
(identifier, policy, expiry). Ensure, Delete and Restart are sequences of critical
sections and daemon calls with the program counters `pc` and `then`; the code's
helpers (findByIdentifier, create, ensureRunning, extend) are actions. The policy
fingerprint may change when the process restarts. `lease`, `overlapping` and
`disturbed` are history variables, in no variable of the program: until when the
last Ensure that returned the container promised it; the identifiers whose calls
overlap, with one another or with what the reaper does to them, until all are back;
and those for which no call has returned a sandbox since then that overlapped with
nothing. A call that fails does not end a disturbance: what the calls before it
left behind may still be there.

**`KubernetesManager`.** The same control over a different world: a pod is known
by its name, so a deletion by name hits whichever pod has it by then; pods
become ready by themselves and Ensure polls; a context that ends makes every
later call of the request fail; and the reaper has all labels from one list.

**`Extraction`.** A tree below `/artifacts`, archived in one of two shapes: Docker
prefixes entries with `artifacts/`, `tar -C /artifacts -cf - .` in the pod with
`./`. Of the names of a file with hard links the first is the file, the others arrive
as links, which are skipped in silence, as a name is with `..` between backslashes
(`Climbs`). One action reads one entry and skips, creates, refuses, cannot open, writes
or breaks off. A file that cannot be copied may stay behind, short or, if only its close
fails, with all of its bytes (`ShortCopy`). A tree is finite, and what is in it lies
below directories (`IsTree`). `RunManager`'s ExtractOk is `Finish`, its ExtractFails the rest.

**`Execution`.** `RunManager` takes a command for one step (`ExecCommand`,
`CommandReturns`); here the step is open. A command is a process in a container
(`process[i]`), Deliver is one chunk of its stream, `buf` and `truncated` are
`eventWriter`'s. The Docker executor waits for the end of the stream and then polls
for ten minutes at most (`deadline`); the Kubernetes executor has the exit code from
the stream. Bytes are numbered, so that what is captured can be compared with
what was printed. A command that has ended, well or not, may leave a child behind with
the output open (`Lingers`), and a connection may hang (`StreamHangs`): the stream has
no end then (`AllDelivered`). RecordFlags, RecordText and RecordStatus are the unlocked
assignments of `manager.go:314-329`, with the text and the time of the end `Torn` in
between, since a string and a time are more than one word. Deny, RefusalEnds and
RefusalCoded are those of a denied command (`manager.go:297-301`), whose status comes
first. `sandbox` is the container that serves the identifier; Look,
Stop and Remove are a deletion by the reaper or by a client, and OtherEnsure is a
request with a TTL of its own. A process keeps what became of it (`cut`, `left`,
`printed`), and `owed` and `disturbed` say what the run was promised; no variable
of the program holds these. While a result is recorded, the sandbox rests: what it
does then commutes with the recording.

**`ToolCalls`.** `config` is what Load returns, with the multiplications that wrap.
A call goes through serveHTTP, Ping, the checks of toolsCall and RunSandbox, the
backend's operation and the select of RunSandbox; `left` and `waitLeft` are what is
left of its two contexts. A run works for some time, an operation takes some time
and fails or not: the details are those of the other modules. `server` is where
main is, `reaper` its goroutine. `waited`, `prepared` and `late` are history
variables; `late` has the places where time passed beyond the deadline of a call.

`MC*` modules give the constants values for TLC.

How the modules fit: `ToolCalls`' Operate and Spawn are RunSandbox as `RunManager`'s
Submit and EvictAndSpawn begin and end it; RunEnds is `RunManager`'s CloseDone.
`RunManager`'s ExecCommand and CommandReturns are `Execution`'s steps from
StartCommand to RecordStatus, its EnsureOk is Prepare, and its ExtractOk is
`Extraction`'s Finish. `Execution`'s sandbox is what `SandboxManager` and
`KubernetesManager` do for one identifier, without their failures, which they have in
full. Two seams are joined by checked refinements: the lock (`RunLock`), and the
commands of a run, where both sides implement `CommandLoop`. The other seams are by
the same names of the same lines.

### Abstractions worth knowing

- Commands, environments and error texts have no contents; output is numbered
  bytes, and one stream stands for stdout and stderr.
- In `Execution` creating and attaching to an exec is one step: between them nothing
  is recorded. A command ends with 0, 1 or 124; 137 is a killed one's.
- Unlocked writes become visible to a poll in the order of the program, and a poll
  reads a whole result at one moment. (A data race may show more than that.)
- In `ToolCalls` Go's int is as wide as a duration, and the clients of Docker and
  Kubernetes return when the context that they are given ends.
- The reaper's look at a record (`m.mu`) and the reading of its expiry just after
  are one step; `extend` in between would only make the value that is read newer.
  A torn read of the two words of the time is not modelled.
- Pulling or building the image is one step that may fail.
- A label that does not parse, for which the reaper falls back to the default
  TTL, does not occur: the code writes all labels itself.
- Pod names are taken to tell identifiers apart.
- Names in an archive come from a real directory: no element `..`, no leading `/`.
  Whether a name has a `..` between backslashes is a property of the name. Two
  files are told apart by where they come from, not by their bytes.
- `hdr.Size` is the number of bytes that follow, or the stream breaks.

## The runs

| Run | Instance | What it shows |
|---|---|---|
| `lock` | 4 callers, 3 of which may give up | no channel is closed twice, refinement of `FIFOMutex` (one holder, first come first served); a patient caller starves only by the lost grant (below) |
| `runs_loop` | 2 runs of 2 commands, 1 retained; three requests with denied, lenient and failing commands between them, fair | a run is counted once, frozen after its end, its outcome justified and announced, events in order, `latest` only for extracted runs, an awaited answer is whole; a run is a `CommandLoop`; every run ends and closes `Done` |
| `runs_crowd` | 3 runs on a sandbox, 2 retained, with and without the lock | the inductive invariant (runs are retained until they end, locked runs do not overlap, no lock leaks); the oldest that ended is evicted; the lock is the abstract mutex |
| `broker_stream` | 2 clients, history and buffers of 2, 3 events, fair | no panic but the recovered one, each event accounted for once and in order, every handler that found the broker returns |
| `sandbox_world` | 2 calls, 1 identifier, one failure or restart with a new policy at any step, fair | nobody gets a sandbox of an old policy; everything is removed at last; nothing is reaped early |
| `pods` | the same for pods, with contexts that end and pods that stop | the same |
| `extract_limits` | every tree over 5 paths, with hard links and a name that is skipped, 2 shapes, 6 sets of limits | limits, wholeness, and no refusal without cause |
| `execution` | 2 commands, or 3 with a denied one, both executors, children left behind, outputs of 0 to 3 bytes with a limit of 2, one trouble or other request at any step, fair | `StatusIsTrue`, `WholeOrMarked`, `OneAtATime`, `TakenForCause`, `ToldIsFinal`, refinement of `CommandLoop`, `CommandsReturn`, the inductive invariant |
| `calls` | a call of 7 kinds and a short one, both backends, a 4-bit duration, a signal, fair | `AwaitHonoured`, `AnsweredInTime`, `SignalEnds`, `CallsAreAnswered`, the inductive invariant |
| `runs_evicted_early`, `sandbox_kept`, `extract_backends` | | the counterexamples below |

**Bounds.** Two threads suffice for the races of check and use, and for any
overlap of two calls; the third run and the fourth lock caller are for orders
among waiters and evicted runs. Histories and buffers of two overflow with three
events. One trouble (`MaxTrouble`: a failed call, a lost container, an ended
context or a restart) per behaviour, at every step; two troubles at once are the
next instance and too large for TLC. That an identifier never gets another one's
sandbox needs two identifiers, and is proved for any number of them. `LastCall` bounds when
calls begin, so that "at last" can be asked. TTLs are one tick, so that every
expiry can fall between any two steps. Int64 is cut to 4 bits, which the sums of
the trees overflow. In `execution` a second is two units and a command has one or
three of them, so that rounding shows; `MaxWait` is as short as a rounded limit, so
that one command can outlast it; TTLs are shorter than what the commands may take. In `calls`
a wait is below 30 s, above it, and so long that it wraps; settings are unset, zero,
negative, and wrap to zero or below; `prepared` stops counting above the cushion.

**Deadlock** is not reported where the system may rest: all runs have ended, the
lock is lost, clients are gone, the extraction or the run is over, the process has
ended.

**Fairness**, and why the code justifies it:

- `FIFOLock`, `RunManager`: each goroutine goes on. Acquire has a deadline of 24
  hours, Ensure of 45 s, the extraction of 2 minutes; an await has a timeout. A
  command has none: it is executed under `context.Background()` (`manager.go:313`).
  That it returns is an assumption of `RunManager`, and of its `RunsEnd`; when it does
  is the subject of `Execution`.
- `Broker`: the run publishes its events, and a client reads, or hangs up and has
  its context cancelled.
- `Execution`: executeRun is scheduled, time passes, timeout(1) keeps its limit, a
  stream delivers what was printed, a deletion that was begun goes on. No process
  has to end by itself, nor to close its output, and nobody has to reap:
  `CommandsReturn` rests on the time limit alone, and so it says that a run is over at
  last, or stuck for ever at a stream that a child holds open or that hangs. The
  inspections of waitDockerExec have no deadline either; that each of them returns is
  assumed.
- `ToolCalls`: a handler that waits for nothing goes on, and so does one whose
  context has ended, but for the Ping of Kubernetes; time passes; a pass of the
  reaper ends (30 s). The end of the reaper is strongly fair: its select chooses at
  random among the channels that are ready, so it does not take the ticker for ever.
- Backends: calls go on, the reaper's ticker fires, time passes. A crash, a
  failure, a hang-up and a beginning call are never required.

**Mutants.** Each property is tested for its teeth: modules hold plausible
mistakes next to the actions they vary (`LeaveInQueue`, `ExtendForgets`,
`TooMuchAfterwards`, `InspectOnce`, `LimitRoundedDown`, ...), and `PROJECT.json`
(`mutants`) says which property each one breaks. No specification uses them.

## What the checks found

1. **A failed run is evicted at work** (`runs_evicted_early`). failRun sets
   `EndedAt` before extractArtifacts runs. Another request may evict the run in
   between, the look-up at `manager.go:675` then returns nil, and the goroutine
   panics, which takes the server down. That this is the only way is proved
   (`OnlyExtractionCrashes`).
2. **The reaper deletes what was just extended** (`sandbox_kept`). It compares the
   expiry and deletes in two steps; an Ensure in between returns the sandbox with
   a new lease (`sandbox/api.go:8`). `ReapsOnlyExpired` shows that calls that do
   not overlap with the reaper's deletion, or with one another, are safe.
3. **Kubernetes flattens artifacts** (`extract_backends`). The first path element
   is stripped after `Clean` has already removed the pod's `./`, so `sub/a` is
   served as `a`, and may replace another file or be blocked by a directory
   (`README.md:37` says that the backends are the same).

Seen while modelling, and stated by no run:

- The lock's grant is lost when a context ends just as release closes the
  channel (`lock.go:41`): the lock stays locked. It takes a waiter of 24 hours;
  `StarvedOnlyByLostGrant` excludes every other way to starve.
- create stores its record unconditionally, over the extension of an Ensure that
  adopted the container meanwhile.
- Two Ensures that find the same outdated pod: the second deletes, by name, the
  good one of the first.
- Docker's archive has an entry for `artifacts` itself, which becomes a directory
  of the run: a file `/artifacts/artifacts` fails the extraction
  (`FailsForCause`).
- Artifacts are passed over in silence: the further names of a file with hard links, and
  files with `..` between backslashes in their names, are neither copied nor reported
  (`extract.go:52-63`, `143-144`; `docs/architecture.md:54` says that `/artifacts` is
  copied). `ListedIsWhole` says that with Docker nothing else is left out.
- A command may hold its run beyond its time limit. timeout(1) limits the process; the
  executors then wait for the end of its output without a deadline
  (`docker_executor.go:53`, `kubernetes_executor.go:53`). A child in the background that
  has the output open keeps the run, and its lock, until the sandbox is deleted, which
  each request for it puts off (`docs/security.md:44` says that commands are prevented
  from running indefinitely). `CommandsReturn` says that nothing else holds a run, but a
  connection that hangs.
- `MAX_RUNS` bounds what is retained, not what executes (`docs/configuration.md:85`
  and `docs/security.md:43` say concurrent runs).
- A client that asks for the events of an evicted run gets a fresh broker that
  nobody publishes to or closes, and waits until it hangs up (`orphaned`).
- An awaited run may be evicted before it is copied; the final summary is null.
- The terminal event is dropped when a client's channel is full
  (`OnlyFullChannelsLoseTheEnd`).
- Docker's exec: the error of the stream is dropped (`docker_executor.go:53`), so an
  output that was cut off counts as whole (the exception of `WholeOrMarked`). A
  command with more time than ten minutes that closes its output, or a connection
  that breaks, lets waitDockerExec give up while the command works on, and the next
  command starts beside it (the exceptions of `OneAtATime`).
- A denied command is `failed` before it has an end and an exit code
  (`manager.go:297-299`): a poll in between reads exit code 0 (the exception of
  `ToldIsFinal` and `ToldIsWhole`).
- A run is counted in `runs_total` a moment after it has ended (`Counted`).
- An older run that extracts later takes the `latest` alias back from a newer one.
- A command that exits with 124 or 137 by itself is reported as timed out.
- A run that takes longer than its TTL loses its sandbox at work; before that
  nobody takes it who has not asked for it (`TakenForCause`).
- The Kubernetes client's Ping ignores its context, so a call may outlast its
  deadline there, and nowhere else (`AnsweredInTime`).
- An `await_timeout_ms` that does not fit a duration wraps, and the wait ends at
  once or at the usual deadline (the exception of `AwaitHonoured`).
- A notification is not told of an error, and its run is started.

## What is proved

TLAPS checks these for every value of the constants, under the named assumptions
of the modules (`...Assumption`), which only say what a constant is. Every safety
and action property of a passing run is stated by one of these theorems.

| Module | Theorems |
|---|---|
| `FIFOLockProofs` | `InvariantHolds`, `MutualExclusionHolds`, `NoDoubleCloseHolds`, `Refinement` (of `FIFOMutex`) |
| `RunManagerProofs` | `TypeCorrect`, `InvariantHolds`, `UnendedRunsAreRetained`, `OnlyExtractionCrashes`, `LockedRunsAreSerialized`, `NoLockLeaks`, `EndedRunsAreFrozen`, `ResultsAreWhole`, `AwaitedRunsAreWhole`, `LatestLeadsToArtifacts`, `ResultsMayBeUsedHolds`, `RunsAreCountedOnce`, `OutcomesAreJustified`, `StreamsAreOrdered`, `OutcomesAreAnnounced`, `StreamTellsOutcomeHolds`, `OldestIsEvictedFirst`, `RunsUseAFIFOMutex` (refinement of `FIFOMutex`), `RunsKeepTheirPromise` (refinement of `CommandLoop`) |
| `BrokerProofs` | `InvariantHolds`, `SubscribersAreOpenHolds`, `OnceAndInOrderHolds`, `NothingSlipsThroughHolds` |
| `SandboxManagerProofs` | `InvariantHolds`, `OwnSandboxHolds`, `LeasesAreKept`, `ReapsOnlyExpiredHolds` |
| `KubernetesManagerProofs` | `InvariantHolds`, `OwnPolicyHolds`, `LeasesAreKept`, `ReapsOnlyExpiredHolds` |
| `ExtractionProofs` | `InvariantHolds`, `ListedIsWholeHolds`, `LimitsHold`, `DiskWithinLimitsHolds`, `FailsForCauseHolds` |
| `ExecutionProofs` | `InvariantHolds`, `CapturedPrefixHolds`, `OneSandboxHolds`, `ToldIsFinalHolds`, `ToldIsWholeHolds`, `StatusIsTrueHolds`, `WholeOrMarkedHolds`, `OneAtATimeHolds`, `TakenForCauseHolds`, `LoopAsPromisedHolds` (refinement of `CommandLoop`) |
| `ToolCallsProofs` | `InvariantHolds`, `ErrorMeansNoRunHolds`, `AwaitHonouredHolds`, `AnsweredInTimeHolds` |

Each proof has the same shape: an inductive invariant `IInv`, that Init implies
it, that each action keeps it, and that the property follows. Runs check `IInv`
where it says something that no other property of the run does; the invariants of
the lock, of the backends and of the extraction are in no run, only proved.
Why the properties are not inductive alone:

- *FIFOLock*: two holders are excluded because a granted waiter is at the front
  (`GrantIsAtFront`), queues have no duplicates, and a busy queue is locked.
- *RunManager*: `PhasesAgree` ties what a goroutine may do next to the struct, to
  membership of the map and to the lock. A run without an end is retained because
  eviction takes from `EndedRuns` only; the nil dereference is left for the phase in
  which the run has ended and extracts. Three more invariants stand on this one, each
  for a question of its own. `ResultsInv`, what a client is given: behind the
  extraction the artifacts are decided, Done is closed after that, and `latest` leads
  only there. `LoopInv`, the loop of executeRun: `next` separates the commands that
  ran from those that did not, `failure` is what they did, and when the loop is over,
  one of three reasons holds (`LoopOver`). `StreamInv`, the stream: its last event and
  whether it has a terminal one follow from where the goroutine is, and only a run
  that has ended loses its broker. That a run is counted once is a statement about the
  cardinality of those that ended in a state and are past the metric. `OldestIsEvictedFirst` needs that few
  runs are retained (`FewRetained`: finitely many), and a fact about the selection of
  `evictIfNeeded`, whose operator counts for each run those that ended before it: of
  the runs that are kept take the one that ended first; all that ended before it are
  dropped, and those are at least as many as are too many (`FirstEndedDrops`).
  `RunsUseAFIFOMutex` maps each step to one of the mutex of any one identifier, or to
  a stutter. `RunsKeepTheirPromise` maps the goroutine of any one run to the loop;
  that a command is executed when it is its turn is `LoopInv`, that the run is found
  when it starts is `IInv`.
- *Broker*: a subscribed client's handler is between Subscribe and its cancel, and
  its channel is open (`SubscriptionsMatchHandlers`, `SubscribersAreOpen`); cancel
  and Close both take the subscription away before they close the channel.
  `OnceAndInOrder` needs to know where an event may be: those of the replay are
  of before the client joined, and nothing is newer than what was published
  (`DeliveriesArePublished`). `NothingSlipsThrough` needs in addition that the
  history has no gap and ends with what was published last (`HistoryIsNewest`); then
  a new subscriber starts where its history does, and each step moves an event from
  one of its three sequences to the next, or drops it.
- *Backends*: what a thread holds, what the map holds and what the labels say
  agree in identifier and, for the current process, policy. Only a restart
  changes the policy, and it forgets threads and map together. What is promised
  (`LeasesAreKept`, from `LeaseInv`) holds for an identifier that is not disturbed:
  it has one container, or pod, which the map has with an expiry no earlier than
  the lease, and neither a call nor the reaper is on its way to take it down. The
  reaper then cannot delete before the lease is over, whatever fails elsewhere.
- *Extraction*: files on the disk are whole while the extraction goes on, are no more
  than the counter, and with Docker hold all that has been read; `DockerKeepsPaths` is
  the fact about sequences behind it. The limit on all bytes, and that nothing is
  refused which fits, are about sums over the files on the disk and in the sandbox.
  `Reckoning` relates the two and the code's counter: the counter never runs ahead of
  the files that were read, so that it refuses or wraps only if the files in the
  sandbox are too much; and when the limits fit an int64 together, it is no less than
  what is on the disk and within the limit. A sum is a fold over a set; that it is as
  large as its parts is an induction over finite sets, done without an induction
  principle: of the subsets for which a statement is false there would be a smallest
  one (`Smallest`).
- *Execution*: that nothing which was told changes is no invariant. It follows from
  where the loop is: only the command at `next` is written to, before its status
  or, if it is denied, by the two steps behind it (`ResultsInOrder`). That the commands share a container needs that processes
  are started in the order of the loop (`OnlyStarted`) and that containers are
  numbered in the order of their creation (`SandboxIds`). That a status is true is
  not inductive either: `Truth` follows a command from its process to what Exec
  returns, to what is stored, and to what stays; it holds the time a process has run
  against its limit, and the executor's patience against both, from which it also
  follows that commands do not overlap, and that what completed is whole.
  `TakenForCause` speaks of the sandbox only; it is kept because nobody is about to
  delete it and its expiry is not before the time that the run was given
  (`SandboxKept`). For the refinement of `CommandLoop`, `InTurn` adds that all
  commands behind `next` have a result.
- *ToolCalls*: `AwaitHonoured` is an account of time: until a call waits, what is
  left of its deadline and what its sandbox has taken make up the whole; from then
  on what it has waited is added (`TimeAccounted`). The rest is arithmetic: a wait
  that fits a duration together with the cushion is not changed by wrapping.
  `ErrorMeansNoRun` needs `RunsAreBehindCalls`, the end of the process
  `ClosedForCause`. `AnsweredInTime` is an invariant of its own.

**Only model-checked:** liveness (`RunsEnd`, `HandlersReturn`, `NothingIsLeft` of
both backends, `StarvedOnlyByLostGrant`, `CommandsReturn`, `SignalEnds`,
`CallsAreAnswered`, `OnlyFullChannelsLoseTheEnd`). The prover has no ENABLED, and
each of these rests on fairness. The three counterexamples are TLC's, too.

## Not modelled, and why

- **Command lines, users, environment variables, deny list patterns**: strings.
  `RunManager` has whether a command is denied; the order in which `executeRun` looks
  is in its Denied.
- **The shapes of JSON** that `envvars.go` and `optstring.go` accept, and the encoding
  of requests and answers.
- **initialize, ping, tools/list, sessions**: no state is kept.
- **The other settings**: strings and lists, read once. That extraction limits below
  zero count as none is in `Extraction`'s Exceeds.
- **How a backend is found** (sockets, kubeconfig) and what a container or pod is
  made of: once, or no control.
- **Metrics and debug page**: nothing reads them back (`runs_total` is modelled, for
  `AccountedOnce`).
- **Smoke client, devwatch**: not part of the server.
- **Artifact downloads and manifests**: read-only. A status poll is what `ToldIsFinal`
  and `ToldIsWhole` are about.
- **All modules in one**: the state space of a run, its broker, its backend and its
  commands together is out of TLC's reach; `Execution` has of the backend what a run
  meets, and `ToolCalls` of a run how long it takes.
