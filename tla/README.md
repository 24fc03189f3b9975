# Verification of geyserlite

geyserlite runs the Bedrock proxy Geyser, compiled with GraalVM `native-image`,
under a Go (or Rust) program: as a shared library loaded into the process
(*embedded mode*) or as a child process (*subprocess mode*). Besides starting,
supervising and stopping Geyser, it carries the *verified ingress*: a hand-off
in which the native side reports a Bedrock connection, Gate binds a correlation
to it for at most five seconds, and the native side delivers a frame that its
verifier produced for that correlation.

This directory holds TLA+ modules of the parts with concurrency and failure in
them, TLC configurations that check small instances, and TLAPS proofs. Every
definition is translated from the source; `PROJECT.json` maps each to its lines.

## 1. Inventory

| Part | State | Operations | Talks to |
|---|---|---|---|
| Broker, `go/ingress.go` | active flag, generation, native assign function, fatal callback, open handles with their age, pending assignments with their timers, two bounded queues | activate, deactivate, failGeneration, open (with eviction), assign, expire, deliver | the runner of the mode below it, Gate above it |
| Embedded runner, `go/embedded.go` | supervisor goroutine, OS-locked isolate goroutine, health poller, their channels | run, pollHealth, callOnAttachedThread | GeyserBridge through the C ABI, the callback generation |
| Callback generation, `go/embedded_ingress.go` | gate, in-flight group, fatal channel; process-wide `roots.current` | enter, closeGate, fail, the two trampolines, startIngressGeneration, stopIngressGeneration | broker, IngressTransport |
| GeyserBridge, IngressTransport, VerifiedIngressHooks (Java overlay) | latch, running flag, transport with its monitor, callback pointers, connections and assignments | geyser_init, run, shutdown, status, set_ingress_callbacks, assign_verified_ingress | Geyser's own threads |
| Subprocess supervisor, `go/subprocess.go`, `go/backoff.go` | attempt counter, backoff, child, health flag | run, runOnce, pipeToLogger | os/exec, the ingress session |
| Ingress session, `go/subprocess_ingress.go` | gate, pending acknowledgements with timers, sequence numbers, close-once state, key | assign, readLoop, close, expirePending, wait | broker, socket |
| Ingress endpoint of the child, `VerifiedIngressSubprocess.java` | connections, assignments, correlations, sequence numbers | open, close, readAssignment, expire, closeTransport | socket, Geyser's threads |
| Server, `go/server.go` | started flag, cancel function, done channel | New, Start, Stop, Healthy, Assign | runner, broker |
| Asset cache, `go/download.go`, `go/embed.go`, `go/locate.go` | files below the user's cache directory | downloadAsset, extractEmbeddedAsset, locate | file system, release server |
| Set-up, `go/integration/gate`, `go/options.go`, `go/config.go`, the first part of both `run`s | options, temporary directory with key.bin and config.yml, the working directory of the process | gate.New, New, validate, locate, renderConfig, Chdir and the deferred calls | file system, runner |
| PlayerEventExecutors (Java overlay) | current group, retired groups | next, replace, shutdown | Netty |
| Rust crate, `rust/src` | like the Go library, without the ingress | run, run_once | tokio |

Hard behaviours: goroutines, native threads and timers that meet in the broker
in any order; work begun in one native generation and finished in the next;
callback pointers shared by every server of the process; GraalVM threads that
must be out of an isolate before it is torn down; a context canceled at any
moment of a start; children that crash, hang or close their socket; two clocks
of expiry for the same assignment in two processes. `PROJECT.json` lists them
as hazards, each at its line.

What makes each part correct:

* Broker: a pending assignment always has an open handle; nothing outlives its
  generation; what is published was assigned, on those terms and once; the owner
  hears of every failure; nothing stays pending forever; memory is bounded.
* Embedded runner: shutdown begins only after the ingress is drained; no call
  reaches a torn-down isolate; a callback enters only its own generation;
  Start and Stop return when they should and nothing is leaked.
* Supervisor: nothing of one child is left when the next starts; the result
  says what happened; cancellation ends the run whatever the child does.
* Asset cache: a path that is returned holds the whole asset, whatever other
  processes do or leave behind when they are killed; errors leave nothing.
* Set-up: a server runs with what was configured, in the documented precedence,
  and everything it set up is undone.
* Session and child: honest peers never break the protocol; every call returns
  as long as the child reads; a session that failed is drained; the key is not
  used after it was wiped.

## 2. Modules

`IngressBroker` models `ingressBroker`. All of its state is guarded by `b.mu`,
so each critical section is one action. What the code does before taking the
lock (the lifetime check on the clock) or after releasing it (the call of
`assignNative`, of the fatal callback, of `closeHandle`) is a step of its own:
`caller[c]` and `deliverer[d]` are the goroutines between two such steps,
`fatalCalls` the fatal callbacks that are about to run. `timer.Stop` does not
stop a timer whose goroutine has started; `expiring` holds those goroutines.
Time is an integer clock that may advance between any two steps. `assign` and
its timer keep an expiry in full, while `deliver` compares milliseconds and
publishes `time.UnixMilli` of them: a millisecond has `Milli` instants, and
`UnixMilli` and `TimeOfMilli` convert. Two assignments whose expiries lie in one
millisecond are not told apart, and a frame may show an expiry that is up to a
millisecond earlier than the one assigned (`FramesGranted` says exactly this).
Calls that return an error and change nothing are left out as stuttering. Handles are
never reused within a generation, because both native sides number connections
with a counter (`IngressTransport.java:61`, `VerifiedIngressSubprocess.java:99`);
they are reused across generations, which is what makes late goroutines
dangerous. `reported`, `granted` and `published` are history variables that
the properties speak about; `published` is the sequence of all frames of the
generation, so that a second frame of a connection would show.

`EmbeddedLifecycle` models one or more servers in embedded mode: `main` is the
goroutine in `embeddedRunner.run`, `iso` the isolate goroutine, `health` the
poller, `assigner` a goroutine inside `assignNative` with the native thread it
attaches, `opener` a Geyser thread that reports a connection, `stopper` a call
of `Server.Stop`. Every channel operation, `ctx.Err()` check, gate and wait of
the code is a step. `latch`, `running`, `registered` and `TransportLive` are
the state of GeyserBridge and IngressTransport. The broker is reduced to its
active flag and to the outcome of a call: it may succeed only while active, and
any error fails the generation, as `newCallbackRoots` does. `NativeAssign` takes
the synchronized sections of `IngressTransport.assign` (`IngressTransport.java:183-213`)
as one step, with its error returns as one: its maps are not modelled, and no
property speaks of what differs between them.

`SubprocessSupervisor` models `subprocessRunner.run` and `runOnce`. The child,
and the watcher that os/exec starts for a command with a context, are external:
they are modelled from how `subprocess.go` sets `cmd.Cancel` and `WaitDelay`.
Whether the platform has the ingress socket is chosen initially, whether a
child ignores SIGTERM when it is started.

`SubprocessIngress` models one launch of the verified ingress in subprocess
mode: the session (`closing` is how far `close` has got, `caller[c]` a goroutine
inside `assign` with its waiter channel, `reader` the goroutine in `readLoop`,
`owner` the part of `runOnce` that closes and drains the session), the two
directions of the socket, and the child (`childReader` is its reader thread;
`open` and `close` come from Geyser's threads). `SOCK_SEQPACKET` keeps packets
whole and in order; what is unread is lost when a side closes. The direction to
the child holds `Capacity` packets. `assign` writes under `writeMu` (`writing` is
who holds it) and without a deadline: `AssignWrite` waits while the socket is
full and the child lives, and every other caller waits in `AssignLock`. The
direction to the parent has no bound: its reader never takes `writeMu` and only
pauses for the broker's lock, so that a full socket there is a delay of the child
and nothing the parent waits for. Instants of this module are milliseconds of
the wire; `IngressBroker` has the conversion. The broker is
reduced to its open handles, its pending assignments and its timers, with the
refusals that close a handle before the session is asked (`AssignInvalid`) and the
two critical sections of `deliverIPCFrame` kept apart; a full queue is a failure
that may happen at any open or delivery. Eviction of unassigned handles is left
to `IngressBroker`. A packet stands for what `decodeAuthenticatedPacket` accepts:
both ends hold the key, so only the sequence number can be wrong. The session
notifies a waiter just after releasing its mutex; the two are one step here,
since an expiry that slips in between leads `assign` to the same result.

`HandOff` is the abstract specification of the verified ingress, whatever
carries it: a connection is reported once, bound at most once to a correlation
that no other bound connection has, published at most once under the terms it
is bound with at that moment, and a connection that was given up stays given up.
`frames` is the log of what was published; `Publish` is the only action that
appends to it, and it ends the binding. It is refined twice, by `IngressBroker`
and by `SubprocessIngress` (`KeepsPromise` in each). The refinement mapping takes
the phase of a connection from the handle map and the pending assignments as long
as it is in them, its terms from the pending entry, and `frames` from the frames
that `deliver` built. A `deliver` that left its entry in the maps, published an
entry twice, or put anything but the terms of the entry into the frame would
append to the log in a step that is none of `HandOff`'s. For the broker the
frame shows the expiry cut to the millisecond. A new generation is `HandOff`'s
`Renew`. The refinement is about safety only; that every binding ends is
`PendingResolved`, `AssignReturns` and `SessionDrained`.

`AssetCache` models what several processes do in the cache directory:
`extractEmbeddedAsset` in builds that carry the asset, `downloadAsset` in the
others. A file is its content, every system call of the code is a step that may
fail, a process may be killed between any two of them and inside a write, and
what it left is found by the next. The open and the write of `os.WriteFile` on
the shared `.tmp` and the rename are separate steps; a descriptor follows its
file when another process renames it. `os.Remove` may fail too, and its error is
ignored: the temporary file then stays, known to no call (`orphans`). The
extraction compares sizes (`SizeMatches`); that a file of the right size holds the
asset is not checked by the code and is assumed of the files found initially
(`Init`), so that `SoloExtractionSound` does not cover a file that something else
damaged without changing its length. The mirror is external and may list and
serve anything. `overlapped` and `orphans` are history variables.

`ServerSetup` models the way from a configuration to the start of Geyser and
back: Gate's `toOptions` and key decoding or a direct call of `New`, `validate`,
`locateBinary`/`locateLibrary`, the temporary directory, `buildConfigMap` with
`mergeMap` and `splitHostPort`, the change of the working directory and the
deferred calls. Each server of the process has its own request. The leaves of the
configuration carry their YAML type; addresses are sequences of characters.
`mergeMap` calls itself only where both sides hold a map, and the side it writes
to is the baseline, three levels deep: the recursion is written out as
`mergeMap`, `mergeSection` and `mergeLeaves`, and the theorem `MergeUnrolled`
(section 5) shows that nothing is lost by that, however deep the overrides are.
A path of the properties has up to three keys; a leaf below is part of what the
third key holds. What happens
between `running` and `RunEnds` belongs to the two modules of the modes.
`os.RemoveAll` may fail and leave the directory with some of its files
(`leftover`), which the code does not notice; the deferred `os.Chdir` back to a
directory that exists is assumed to succeed. `IsNumber` and `Atoi` are
`strconv.Atoi`: an optional sign, digits, and an error beyond `MaxInt`.
`ConfigPrecedence` compares the rendered tree with a table of paths that knows
nothing of merging, and an address with the four forms it may be written in.
A map of another Go type than `map[string]any` inside the overrides is a leaf for
`mergeMap`, and so it is here: it replaces what it meets.

`MCIngressBroker`, `MCEmbeddedLifecycle`, `MCSubprocessIngress`, `MCAssetCache`
and `MCServerSetup` hold symmetry, state constraints and the enumerated inputs
for TLC.

The proofs are in eight modules that extend the modules they are about:
`IngressBrokerProofs` and `IngressBrokerSafety` (which extends it),
`EmbeddedProofs`, `SupervisorProofs`, `AssetCacheProofs`, `ServerSetupProofs`,
`SubprocessIngressProofs` and `SubprocessIngressRefinement` (which extends it).

Operators with a comment that begins with "Fault" are mutations used to show
that a property can fail; no specification uses them.

## 3. Runs

| Run | Module | Result | Properties | What it shows |
|---|---|---|---|---|
| `BrokerSafety` | `MCIngressBroker` | pass | `TypeOK`, `PendingHandleOpen`, `HandlesBounded`, `GenerationIsolated`, `FailureReported`, `FramesGranted`, `RejectedStaysClosed`, `StaleGenerationHarmless`, `KeepsPromise`, `ExpireOnlyExpired` | The broker in four situations, each explored in full within its own bounds: one connection across two generations, two connections against deliveries and timers, two concurrent assignments, and more connections than the handle map holds. The maps stay consistent, a published frame is what was assigned (its expiry cut to the millisecond) and is published once, late goroutines of an earlier generation and late timers are harmless, the owner learns of a failure, and the broker implements HandOff. |
| `BrokerLiveness` | `MCIngressBroker` | pass | `PendingResolved` | Every pending assignment is resolved although the native side may never answer. |
| `EmbeddedServer` | `MCEmbeddedLifecycle` | pass | `TypeOK`, `DrainedBeforeShutdown`, `NoCallIntoTornIsolate`, `NoOrphanedRun`, `IsolateReleased`, `ShutdownHeard` | One embedded server through every start, cancellation, failure and stop order, with attaching threads failing: the ingress is drained before shutdown, no attached thread is in a torn-down isolate, run never returns while Geyser runs, an abandoned start releases its isolate and the callback roots in the end, and a shutdown that meets a running geyser_run ends it. |
| `EmbeddedServers` | `MCEmbeddedLifecycle` | pass | `VerifiedOwnGeneration` | Two embedded servers of one process share the callback roots: the verified callback of an assignment never enters the other server's generation. |
| `EmbeddedLostShutdown` | `MCEmbeddedLifecycle` | violation | `StopCompletes` | A shutdown that arrives before geyser_run installs its fresh latch is lost, and Stop never returns. |
| `Supervisor` | `SubprocessSupervisor` | pass | `TypeOK`, `NothingLeftBetweenRuns`, `NilOnlyAfterCleanExit`, `CanceledReturns`, `FailureHandled` | The restart loop with crashes, session failures and cancellations in any order, with and without the ingress socket, and with children that ignore SIGTERM: the backoff stays in its limits, nothing of a child is left before the next one, nil means a clean exit, a canceled run returns, and a child whose session failed is replaced if it obeys SIGTERM. |
| `SubprocessSession` | `MCSubprocessIngress` | pass | `TypeOK`, `HonestPeers`, `WipedKeyUnused`, `PublishedAsProduced`, `ChildMapsAgree`, `RefusedNotPublished` | Two connections and two concurrent assignments through the session, the socket and the child, with expiries, duplicates, queue failures, closings and the child's death at any step: correct peers never end each other's session, the key is wiped only when nothing can use it, a frame is published only under the lifetime and correlation it was produced for, and a refused assignment publishes nothing unless it expired or the session ended meanwhile. |
| `SubprocessDrain` | `MCSubprocessIngress` | pass | `KeepsPromise`, `AssignReturns`, `SessionDrained` | On a socket that holds one packet, with a child that answers and with one that stops reading: every call of AssignConnection returns, unless a living child never reads again and the write, which has no deadline, stays blocked; every session that has failed is drained all the same; and session, socket and child together implement HandOff, no connection published twice. |
| `AssetCache` | `MCAssetCache` | pass | `TypeOK`, `DownloadedVerified`, `NoTempLeft`, `SoloExtractionSound` | Three processes share the cache directory, fail at any system call and are killed between any two of them or inside a write: a downloaded path keeps holding the asset whose sum was fetched, no temporary download is shared, or left behind by an error when it could be removed, and an extraction that runs alone is sound whatever was left before. |
| `ExtractionRace` | `AssetCache` | violation | `ExtractedWhole` | Two processes that extract the embedded asset at the same time share one temporary name: one truncates it between the other's write and rename, and the other returns the path of an empty file. |
| `ServerSetup` | `MCServerSetup` | pass | `TypeOK`, `ConfigPrecedence`, `RunsAsConfigured`, `SetupUndone` | Every configuration of the enumerated sets from Gate's adapter or a direct call to a running server and back, with every system call failing: config.yml holds the overrides over the typed options over the baseline and every address is split right, the server runs what was asked for with the asset of the documented order, and whatever was set up is undone as far as the files can be removed. |
| `SharedDirectory` | `MCServerSetup` | violation | `OwnWorkingDirectory` | The working directory belongs to the process: when a second embedded server starts, the first one no longer runs in its own directory. |

### Bounds

*Broker.* The bounds `MaxGeneration`, `MaxTime`, `MaxLifetime`, `HandleTTL`,
`MaxHandles`, `Capacity` stand for unbounded counters (the first two), five
seconds, one minute, 4096 and 256. A millisecond has two instants (`Milli`), so
that an expiry may lose a part on its way and two expiries may fall together.
`BrokerSafety` uses three handles, two correlations, two
assigning goroutines, one delivering goroutine, two generations, a handle map
of two and queues of one, so that eviction by age and by count, overflow of
either queue, duplicates of handle and of correlation, expiry, reassignment
after expiry and leftovers of an earlier generation all happen. Explored
together these are too many states; the constraint `Situations` explores in
full four situations that together contain them: one connection across two
generations, two connections against deliveries and timers, two concurrent
assignments, and more connections than the map holds.

*Embedded.* One server for everything that concerns a single life cycle, with
`graal_attach_thread` allowed to fail; two servers for what they share, the
callback roots, with cancellation from the contexts only (`OnlyContexts`),
since Stop adds nothing but a wait. A server is started once, as the code
demands.

*Supervisor.* Three children and a backoff of 1, 2, 3: the cap is reached, and
the retry limit ends the loop.

*Session.* Two connections, two correlations, two concurrent calls and two
instants beyond the first: a correlation is released by an expiry or a
duplicate and assigned to the other connection while answers for the first are
still on the socket. A handle is assigned once, so sequence numbers are bounded
by the number of connections. The socket holds both requests; that a write
blocks is the subject of the liveness run, whose socket holds one. Its
constraint `Situations` explores two cases in full: `Answering`, one caller and
two connections that share a correlation, against a child that answers or not,
dies or closes at any step; and `Silent`, a child that never reads, where one
assignment fills the socket, a second blocks in its write and a third waits for
`writeMu` beyond its expiry. The constraint bounds only what Gate and the child
begin, for which no fairness is assumed, so that it hides no step that a fair
behaviour must take.

*Asset cache.* Three processes, two releases a mirror may alternate between and
two temporary names: two processes meet in every step while a third comes later
and finds what they left. Calls repeat without a bound. The race needs two.

*Set-up.* One server; for the working directory two. All texts of up to four
characters (`:`, `[`, `]`, `-`, `+`, a digit, a letter) to listen on and of up to
three upstream; ports at either end of an int, which is taken as 65535
(`MaxInt`) because TLC's own integers have 32 bits; 216 override trees that
replace, extend or remove at every depth, for every authentication; 3840
configurations of Gate; every combination of paths, environment, embedded asset,
installed asset, mirror and `Offline`, in both modes. Kinds of input that do not
interact are varied apart.

`CHECK_DEADLOCK FALSE` is set where the system really stops: a broker at the
end of its clock, servers that have returned, a session that is drained,
a cache whose temporary names are used up by killed processes.

### Fairness

*Broker.* The clock advances, an armed timer fires, and its goroutine obtains
the lock. Nothing is assumed of the native side, of Gate or of consumers.

*Embedded.* Weak fairness for goroutines and native threads that always can go
on; strong fairness for the three that need the monitor of the transport, which
other threads take and release forever. Nothing makes a context be canceled, a
connection be opened or Geyser end by itself.

*Supervisor.* The supervisor, os/exec's watcher and the readers run; a reader
meets the end of its pipe or socket once the child is gone; a child that does
not ignore SIGTERM ends after it. A child never has to end otherwise.

*Session.* The goroutines of the session, the reader and `runOnce` run and the
clock advances. Weak fairness is enough for `writeMu`, since a handle is assigned
once and the mutex taken finitely often. Of the child only that it ends after `runOnce` has sent SIGTERM
(see the deviations below for one that does not); it may stop reading, answering
or reporting at any time.

*Asset cache, set-up.* No liveness is stated and no fairness assumed.

## 4. What the violations show

* `EmbeddedLostShutdown`: the supervisor may call `geyser_shutdown` right after
  the hand-over, before `geyser_run` has installed its fresh latch. The count
  goes to the old latch, Geyser boots and waits forever, and so do `run` at its
  receive of `runDone` and `Stop`. The comment in `GeyserBridge.shutdown` says
  that such a call pre-arms the latch.
* `ExtractionRace`: both processes write to `<path>.tmp`. When the second opens
  it with `O_TRUNC` between the first one's write and rename, the first renames
  an empty file into place and returns its path; the second then writes into the
  installed file, and its rename fails.
  `SoloExtractionSound` is what remains true, and the next call repairs the file,
  because its size is compared. (Only the size is; the comment at `embed.go:18-19`
  speaks of the sum.)
* `SharedDirectory`: `os.Chdir` moves the whole process. A second embedded server
  is refused, but only by `startIngressGeneration`, after it has changed the
  directory and initialised its isolate; meanwhile the first one runs in the
  directory of the second. If the first returns in between, the second
  initialises in the directory the process was started in. `docs/architecture.md:119`
  puts several instances per process out of scope; it is the comment in
  `embedded.go` that the run contradicts.

Noted without a run:

* A cancellation during isolate creation lets `run`, and so `Stop`, return while
  the isolate goroutine is still at work (`embedded.go:163`); the deferred removal
  of the working directory runs under it. `IsolateReleased` is what remains true.
* When `geyser_run` has returned by itself, unregistering does nothing
  (`GeyserBridge.java:211`), but the callback pointers are still set: a Geyser
  thread that read the sink before may invoke the open callback after
  `roots.current` has passed to another server. `VerifiedOwnGeneration` says that
  this cannot happen to the verified callback.
* After a session failure the supervisor sends SIGTERM and waits without a limit
  (`subprocess.go:192`); os/exec's kill belongs to the context only. Hence the
  condition in `FailureHandled`.
* `assign` writes to the child under `writeMu` and without a deadline
  (`subprocess_ingress.go:302-312`). While a living child does not read and the
  socket is full, neither an acknowledgement nor the expiry wakes the writer, and
  the callers behind it wait for the mutex past their own expiries.
  `AssignReturns` says that this is the only way for a call not to return, and
  `SessionDrained` that closing the connection ends it.
* `deliverIPCFrame` compares the handle of a frame, releases the lock, and
  `deliver` looks the correlation up again without the handle (`ingress.go:398`).
  If meanwhile a duplicate assignment closes the first connection and Gate
  assigns the same correlation, with the same expiry, to another, the frame is
  published for that one. `PublishedAsProduced` and `FramesGranted` are what
  remains true: neither ties a frame to the connection it was produced for.
* `newBackoff` gives a policy without a maximum the maximum of one minute, also
  when its minimum is longer (`backoff.go:17`): the first delay is then longer
  than all others.
* An `AuthType` outside the enumeration is written as floodgate
  (`geyserlite.go:38`), without a key and without the HAProxy header.
* An unbracketed IPv6 address is split at its last colon, and a port is not
  checked for its range (`config.go:181`, `config.go:201`).

Also: a child that exits with 0 closes its socket too, and if the select at
`subprocess.go:188` sees the session first its io.EOF becomes the result and the
child is restarted, although `RestartPolicy` speaks of crashes; `Assign` may
refuse an assignment whose frame Gate has just received, when the goroutine
wakes after the expiry (`RefusedNotPublished` says that this and the end of the
session are the only cases); `MaxRetries` counts starts, so that 1 means no
restart (`subprocess.go:60`); `backoff.reset` is never called although
`backoff.go:6-8` says the backoff resets on a clean run.

## 5. Proofs

Every invariant and every safety property of the passing runs is a theorem for
all values of the constants:

| Module | Theorem | Property | What it establishes |
|---|---|---|---|
| `IngressBrokerProofs` | `TypeCorrect` | `TypeOK` | The broker is type correct for all sets of handles, correlations and goroutines and all bounds; in particular neither queue ever exceeds its capacity. |
| `IngressBrokerProofs` | `PendingConsistent` | `PendingHandleOpen` | In every reachable state every pending assignment belongs to an open handle and no handle has two, for any number of concurrent callers, deliveries, timers and generations. |
| `IngressBrokerSafety` | `Isolation` | `GenerationIsolated` | Nothing survives its generation: an inactive broker holds nothing, queued events are of the current generation, and an assignment calls the native side of its own generation, over any number of generations. |
| `IngressBrokerSafety` | `FramesAsGranted` | `FramesGranted` | Every queued frame carries the generation, handle and correlation of an assignment that the broker admitted, and its expiry cut to the millisecond: never later and less than a millisecond earlier, whatever the native side delivers. |
| `IngressBrokerSafety` | `FailuresReachOwner` | `FailureReported` | While a generation that the broker failed by itself has not been closed by its owner, the fatal callback is on its way. |
| `IngressBrokerSafety` | `HandleMapBounded` | `HandlesBounded` | The handle map never exceeds MaxHandles, whatever the limit is and however many connections are reported. |
| `IngressBrokerSafety` | `RefusalIsFinal` | `RejectedStaysClosed` | A connection whose assignment was refused is neither open nor pending again in its generation. |
| `IngressBrokerSafety` | `ExpiryIsSound` | `ExpireOnlyExpired` | An expire goroutine, however late it runs, removes only assignments whose lifetime is over. |
| `IngressBrokerSafety` | `LeftoversHarmless` | `StaleGenerationHarmless` | A goroutine left over from an earlier generation (an assign, a delivery, a timer, a fatal callback) changes nothing of the current one. |
| `IngressBrokerSafety` | `BrokerKeepsPromise` | `KeepsPromise` | The broker implements HandOff, read off its maps and the log of its frames: a connection is published only while it is bound, under the terms it was bound with (cut to the millisecond), and never again after that. |
| `SupervisorProofs` | `SupervisorTypeCorrect` | `TypeOK` | The restart loop is type correct for every retry limit and backoff policy, contradictory ones included; the delay stays between the limits that newBackoff makes of the policy, or is one of them. |
| `SupervisorProofs` | `CleanBetweenRuns` | `NothingLeftBetweenRuns` | Between two children no process, session, output reader or health flag of the earlier one is left. |
| `SupervisorProofs` | `NilMeansCleanExit` | `NilOnlyAfterCleanExit` | run returns nil only after a child that exited cleanly by itself, without a termination or a cancellation. |
| `EmbeddedProofs` | `EmbeddedTypeCorrect` | `TypeOK` | The embedded runner is type correct for any number of servers in the process. |
| `EmbeddedProofs` | `OwnGeneration` | `VerifiedOwnGeneration` | The verified callback of an assignment never enters the generation of another server, for any number of servers that share the callback roots. |
| `EmbeddedProofs` | `ShutdownAfterDrain` | `DrainedBeforeShutdown` | The shutdown of Geyser begins only when no ingress call is in flight and the callback roots are released. |
| `EmbeddedProofs` | `TornIsolateLeftAlone` | `NoCallIntoTornIsolate` | No thread that the Go side attached is inside, or about to call into, an isolate that was torn down. |
| `EmbeddedProofs` | `RunNotOrphaned` | `NoOrphanedRun` | run does not return while the isolate it took over runs Geyser, and leaves no server that reports healthy. |
| `AssetCacheProofs` | `CacheTypeCorrect` | `TypeOK` | The cache directory and the calls in it are type correct for any number of processes, releases and temporary names. |
| `AssetCacheProofs` | `DownloadsStayVerified` | `DownloadedVerified` | The path a download returned keeps holding the asset whose sum was fetched, whatever other processes do or leave behind when they are killed. |
| `AssetCacheProofs` | `TempsOwned` | `NoTempLeft` | A temporary download belongs to exactly one call that is under way, was left by a killed process, or could not be removed. |
| `AssetCacheProofs` | `SoloExtraction` | `SoloExtractionSound` | An extraction that meets no other returns the path of the whole asset, whatever was left in the cache before. |
| `ServerSetupProofs` | `SetupTypeCorrect` | `TypeOK` | The set-up is type correct for any number of servers and any requests; a temporary directory exists exactly while run owns it or if it could not be removed, and a port that no override replaced is an int, whatever the address was. |
| `ServerSetupProofs` | `PrecedenceKept` | `ConfigPrecedence` | config.yml holds every override, the typed option or the baseline wherever no override speaks and nothing else, for every tree of overrides; and every address of one of the four forms is split at the right place, however long it is. |
| `ServerSetupProofs` | `ConfigurationRuns` | `RunsAsConfigured` | A server runs with the mode and authentication it was asked for, the first asset of the documented order that was given on any host, and key.bin exactly if it needs it. |
| `ServerSetupProofs` | `SetupIsUndone` | `SetupUndone` | However many servers ended, in any order and at any failed step, their directories are gone unless os.RemoveAll failed; with only one embedded among them the process is back where it was, if Getwd could tell. |
| `ServerSetupProofs` | `MergeUnrolled` | - | buildConfigMap is what it is with any operator that satisfies the recursive equation of the code's mergeMap: stopping at the third level loses nothing, however deep the overrides are. |
| `SubprocessIngressProofs` | `SessionTypeCorrect` | `TypeOK` | The session, the socket and the child are type correct for any number of connections, correlations and callers. |
| `SubprocessIngressProofs` | `PeersTrusted` | `HonestPeers` | A correct parent and a correct child never make each other end the session for a violation of the protocol. |
| `SubprocessIngressProofs` | `KeyWipedLast` | `WipedKeyUnused` | Once the key is wiped the reader has ended, the session is closed and no call that could use the key is in flight. |
| `SubprocessIngressProofs` | `FramesAsProduced` | `PublishedAsProduced` | A frame is published only under the correlation and lifetime it was produced for, although the lookup and the delivery are two critical sections. |
| `SubprocessIngressProofs` | `ChildMapsInStep` | `ChildMapsAgree` | In the child a correlation is taken exactly as long as its assignment is held, between any two steps of its threads. |
| `SubprocessIngressProofs` | `RefusalsHonoured` | `RefusedNotPublished` | A refused assignment publishes nothing unless its lifetime is over or the session has begun to close. |
| `SubprocessIngressRefinement` | `SessionKeepsPromise` | `KeepsPromise` | The session, the socket and the child together implement HandOff, read off the broker's maps and the log of published frames: every frame has the terms of the pending assignment it consumes, and no connection is published twice. |

### Assumptions

They are the `ASSUME`s of the modules, which TLC evaluates on every run.

* Broker: the zero handle and the zero correlation are not handles or
  correlations (`HandleAssumption`, `CorrelationAssumption`); the bounds are
  natural numbers, map size, capacity and the instants of a millisecond positive
  (`BoundAssumption`).
* Embedded: `NoServer` is no server, `AttachFails` is a Boolean.
* Supervisor: the policy's three values are integers, positive or not, and
  `MaxRuns`, the bound on the number of children, is positive.
* Session: the clock and the longest lifetime are natural numbers
  (`TimeAssumption`), the socket holds at least one packet (`CapacityAssumption`).
  Nothing is assumed of `Handles`, `Correlations` or
  `Callers`, which may be infinite.
* Asset cache: a release is not one of the words that stand for other contents
  of a file (`ReleaseAssumption`), and a name that `os.CreateTemp` chooses is
  none of the fixed names (`TempAssumption`).
* Set-up: a server's directory is neither `Home` nor the mark for none
  (`ServerAssumption`); a request is a direct call with every field of `Options`
  or comes from Gate, its addresses are strings of any length, and the switches
  are Booleans (`CaseAssumption`); `MaxInt` is a natural number
  (`IntAssumption`). Nothing is assumed of the overrides, the paths, the
  environment or the number of servers.

### Broker

*Type correctness* needs a strengthening, `TypeInv`: the numbers of `generation`,
`fatal` and `assignNative` agree (`GenerationInv`), so that a queued event has a
generation in range, and a goroutine past the lifetime check carries a real
handle and correlation (`AssignmentInv`), so that what it inserts is a pending
entry. Each action that deletes from the two maps is an instance of restricting
both to a subset of their domains, which the lemmas `WithoutFacts`,
`RestrictFacts` and `Delete...` treat once.

*Consistency of the maps* (`PendingHandleOpen`) is inductive together with type
correctness. Its interesting cases are eviction, where `SurvivorsSpareAssigning`
shows that the survivors contain every handle in assignment, and the duplicate
paths of `assign`, where the entry of the correlation and those of the handle go
together with both handles.

*The other safety properties* (`IngressBrokerSafety`) rest on one lemma,
`StepEffect`: whatever goroutine takes a step, what it does to the maps, the
queues and the history is of one of a few kinds (`Effect`: activation, the end
of the generation, a report, an admission, a publication, the removal of some
handles with their assignments, a timer, the two receives, or nothing). The
invariant `SafetyInv` is then proved kind by kind. `FramesGranted` is not
inductive, since a frame is queued from a pending entry: `GrantInv` adds that
every pending entry was admitted, and the bounds on the expiry come from the
conversion there and back. `HistoryInv` says that a handle is reported before it
is anything else and is in no map once a frame of it is in the log; `CallerInv` and
`RejectedInv` that a refused call was about a handle that was reported and is
closed, so that it cannot be reported again; `ExpiredInv` that an expire
goroutine exists only for an instant that has passed; `BoundInv` that the handle
map is finite, which the cardinality argument for eviction needs.

*The refinement* (the last part of `IngressBrokerSafety`) tabulates the phase and
the terms of a handle (`PhaseTable`, `TermsTable`), so that each kind of step is
compared with one action of `HandOff`. The tables follow from `SafetyInv`: no
handle of the log is open, and a handle has at most one pending entry, so that the
`CHOOSE` of the mapping has only one candidate. For a publication the frame that
`DeliverPublish` appends, built from the delivered milliseconds, is compared with
the frame of the entry's terms; `SameExpiry` makes them equal. A second frame of a
handle would need an entry that is still pending, which `HistoryInv` excludes.

### Embedded runner

`PhaseInv` says where the supervisor and the isolate goroutine can be at the
same time: they meet at the hand-over and at the tear-down only. `HealthInv`
gives the life of the poller. `RootsInv` is the heart: `roots.current` is a
server's exactly while one of its goroutines is between the compare-and-swap and
the end of the drain, and a generation past its gate has a closed gate and an
inactive broker. From it follows `FlightInv`: calls are in flight only in the
generation that holds `roots.current`, so that releasing it needs them drained.
The five properties are consequences.

### Supervisor

`RunInv` says what exists of a child at each step of `runOnce`, `TermInv` and
`ErrorInv` why it ends: before the session fails a SIGTERM comes from os/exec's
watcher only, and only after a cancellation. `NilOnlyAfterCleanExit` needs both,
since the error that `runOnce` returns is decided steps before `run` looks at it.

### Asset cache

`TempInv` gives each temporary file to the one call that created it, with the
wanted content once it was verified; `CachedInv` says that a content-addressed
name never holds anything but nothing, an empty file or its own content;
`ReturnedInv` that a download returns one of two names that no later call
damages. `SoloInv` is the argument for extraction: an overlap is noticed by both
calls, so that a call that overlapped with none finds its temporary file as it
left it, and after its return every later call stops at the size check; that the
size suffices needs that the files of an extraction hold only prefixes of the
asset.

### Set-up

`OptionsInv` says that the options are still the ones asked for, `SourceInv` that
what was located is the first of what was given, `FilesInv` that the directory
fills step by step with what belongs to these options. `SetupUndone` also needs
to know where the process can be (`DirectoryInv`): only an embedded server that
has changed directory can have left the process in its own or in another's
`prev`, and one that was to return to `Home` and is still the directory of the
process was overtaken by another embedded server. Without the last part the
statement about a single embedded server is not inductive.

`ConfigPrecedence` is about data. `MergeMapShape` describes a merge by the keys of
the result and what is under them, once for each level (`Merged1` to `Merged3`);
from it follow, by the length of the path, that an override is found where it was
put (`MergedOver`), that what it spares is found unchanged (`MergedUnder`) and that
nothing else is there (`MergedOnly`). `BaseIsTree` applies them to baseline and
typed options, `BuiltConfig` to the overrides. For the addresses, `SplitPlain`
and `SplitBracketed` show that the last colon, or the closing bracket, of a text
written in one of the four forms is where the host ends; `SplitReads` joins them.
What `strconv.Atoi` computes stays opaque: the port is proved to be that of the
right digits. `LocateFirst` compares `locate` with the documented order.

`MergeUnrolled` is about the model itself. For any operator `R` that satisfies on
the maps of the configuration the equation that the code's recursion states,
merging with `R` is merging with `mergeMap`: the maps of the configuration are
three deep (`BaselineDeep`, `BaseDeep`), so that `R` has nothing to enter at the
third level.

### Session, socket and child

The invariant follows an assignment on its way. `SequenceInv` numbers the
packets on the socket. `OpenInv` and `OnceInv` say that a connection is reported
once and that everything in the callers, the maps, the two directions of the
socket, the child, the history (`Carried`) that speaks of a connection speaks of
the same assignment; a connection that can still be assigned (`Unbound`) is
spoken of nowhere. `StageInv` orders the places: not yet written, requested,
being answered, acknowledgement on the socket, acknowledged, framed. Every step
leaves each connection where it is or advances it (`Advance`). `UniqueInv` says
that no place holds two. `FrameInv` says that a frame on the socket has its
positive acknowledgement before it: with `StageInv` this is why `readLoop` never
meets a second acknowledgement or a frame that was not acknowledged
(`HonestPeers`). `RefusedInv` says what a refusal means: the lifetime is over,
the session is closing, or the child has answered and will never produce the
frame (`Lost`), and what is lost stays so. `DeliverInv` bridges the two critical
sections of `deliverIPCFrame`. `CloseInv` accounts for the entry that a late
`assign` inserts into a closed session, which its own goroutine removes; without
it the key could be wiped under that goroutine.

`SubprocessIngressRefinement` adds that the broker's two maps agree and that a
broker whose session is closing is empty (`MapInv`, `ActiveInv`), sorts the
steps into six kinds by what `HandOff` sees of them, and maps each kind;
`LogAppends` and `LogKept` say what a step does to the log of frames. Most
steps are invisible; the reader's open is a report, `assign`'s admission a
binding, the delivery a publication, and the rest are ways to give up.

### Only model-checked

* Liveness: `PendingResolved`, `CanceledReturns`, `FailureHandled`,
  `IsolateReleased`, `ShutdownHeard`, `AssignReturns`, `SessionDrained`.
  Liveness under fairness is out of reach of the prover used here.

## 6. Not modelled

The content of frames and the cryptography of packets (opaque here), with the
hand-written protobuf scan of `extractIngressCorrelation`; the boot of Geyser
itself and the patches to it, the trace handlers and the skin decoder; the lines
of checksums.txt and the asset names per platform; the Fly.io helpers, examples,
probes and build scripts. Of the native `IngressTransport` only the monitor and
the callback pointers are modelled, not its maps of connections and assignments.
`PlayerEventExecutors` and the Rust supervisor are listed with their hazards; the
latter repeats the restart loop without the ingress. The double read of
`GeyserBridge.ingress` (line 211), where `run` may set the field to null between
the two, is listed as a hazard only.

## 7. Plan

Every safety property of the passing runs is proved; liveness stays with TLC.

Models, if more are wanted: the maps of `IngressTransport.java` as a third
refinement of `HandOff`; replacement against shutdown in `PlayerEventExecutors`;
the Rust supervisor where it differs from the Go one.
