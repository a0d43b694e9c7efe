# A TLA+ development of ko

ko is a node agent that reports what happens to the outgoing TCP connections of
the containers on a Kubernetes node. Four eBPF programs follow every socket from
`connect(2)` to its end and put events into a ring buffer; a Go process filters
them, adds the container's names and prints them. This directory holds TLA+
models of these parts, the TLC runs that check them on small instances, and
TLAPS proofs of the most important properties.

Paths below are relative to the repository, `src/` here.

## 1. Inventory

| Component | State | Operations | Interacts with |
| --- | --- | --- | --- |
| eBPF connection tracker (`pkg/tracer/c/tracer.bpf.c`) | `ko_sock_ctx` (LRU hash: socket address -> identity and time of last probe), `ko_events` (ring buffer), drop counters | `ko_sock_state`, `ko_retransmit`, `ko_probe`, `ko_destroy_sock`, all through `submit_conn_evt` | fired by the TCP stack, per socket under its lock; read by `Tracer.Run` |
| eBPF filter program (same file) | `ko_filter_prog`, `ko_filter_cfg`, `ko_cgroup_verdict` | `ko_filter_eval`, `ko_ip_in_set` | called by `submit_conn_evt`; maps written by `cel.go` |
| CEL filter compiler (`pkg/filter`) | none (a compiled `Set`) | `Compile`, `BPFProg`, `Evaluate`, `VerdictMask` | result loaded into the kernel and evaluated in Go |
| `Tracer.Run` (`pkg/tracer/tracer.go`) | the record in hand, the `events` channel (256) | attach, read, decode, resolve, send | reads the ring, asks for attributes, blocks on the channel |
| verdict cache (`pkg/tracer/cel.go`) | `ko_cgroup_verdict` | `startFilters`, `syncOnce`, `resolveFilter` | kontext, the eBPF filter |
| drop counters, program statistics (`metrics.go`, `progstats.go`) | last values seen | periodic reads | per-CPU maps, Prometheus |
| kontext (`pkg/kontext`) | `byCgroup`, `lastSync`, `syncMu` | `Run`, `GetContainerInfo`, `ensureSynced`, `Sync` | cgroup filesystem, container runtime; called by the tracer's filter and by the consumer |
| node agent (`cmd/ko/node-agent`) | an errgroup and its context | `run`, `App.Run`, `consumeEvents`, `push`, `serveMetrics` | starts everything, cancels everything |
| stdout exporter (`pkg/exporters`) | a queue (1024) | `Push`, `Run`, `logEvent` | fed by the consumer, writes lines |
| configuration, cluster agent, generated bindings | none | decoding; a stub; - | - |

What is hard to test here:

* **Kernel.** Socket addresses are reused; the map is an LRU that may evict
  anybody; programs are attached one after the other to a running system; the
  kernel silently skips a raw tracepoint program that is already active on the
  CPU; the agent restarts under live connections. Correct means: an event names
  the connection it is about, a connection ends at most once and never silently,
  nothing follows its end.
* **Filters.** One question (which filter takes this event?) has two
  implementations, the kernel's three-valued walk and CEL in Go, which share the
  work differently for every event, depending on verdicts that come and go.
  The kernel's part goes through a compiler of its own, which must turn every
  comparison, negation and prefix list into predicates that mean the same. Correct
  means: whoever decides, the answer is CEL's.
* **Verdicts.** What the kernel knows of a container is an entry in an LRU map,
  written by a periodic pass over a snapshot and by the read loop after a lookup,
  from a cache that is itself rebuilt by overlapping Syncs. Each writer may hold
  something old. Correct means: an entry may be old but is its cgroup's own, and no
  wrong entry stays.
* **Pipeline.** Five goroutines, two kinds of queues, a mutex held across a call
  to the container runtime, and a context that anybody may cancel. Correct means:
  order kept, nothing lost except where the code says so, no stall, no goroutine
  that stops alone, a complete stop.
* **kontext.** Three goroutines run overlapping, unsynchronised Syncs over a
  world that changes meanwhile. Correct means: miss-driven Syncs are rare, and the
  cache is eventually right.

`PROJECT.json` lists these as hazards, line by line, with the properties that
cover them and a note where none does.

## 2. Modules

### ConnTracker, ConnLog, ConnTrackerProofs

`ConnTracker` has one action per tracepoint, in which the TCP stack moves and the
program, if it runs, does the whole of its work: `Connect` and `Transition`
(`inet_sock_set_state` -> `ko_sock_state`), `Retransmit`, `Probe`, `Destroy`; and
the agent's `Attach`, `Read` and `Restart`. Programs keep their names:
`ko_sock_state(s, old, new)` has a disjunct per early return and per branch of the
C function, `submit_conn_evt` the filter's drop, the successful reservation and
the failed one.

*Atomicity.* The kernel calls the tracepoints of one socket with that socket
locked (or in softirq with the lock owned), so two programs never work on the
same map entry at once; programs of different sockets meet in the LRU's eviction
(`Capture` may remove any set of other entries) and in the ring buffer, whose
reservations are serialised. One hazard remains outside: an eviction that
recycles the element *between* the lookup of a pointer and the copy through it
(hazard at `tracer.bpf.c:572`, not modelled).

*Environment.* `TcpEdge` lists the transitions Linux makes; FIN_WAIT1,
FIN_WAIT2, CLOSING and TIME_WAIT are one state, so are CLOSE_WAIT and LAST_ACK,
because the programs never tell them apart. SYN retries do not pass through
`tcp_set_state`, so `SYN_SENT -> SYN_SENT` (guarded against in the code) has no
edge. Every `connect` has a fresh number, which stands for everything captured
there (pid, comm, cgroup, start time). An event holds both the identity it
carries (`from`) and the connection the socket really has (`conn`); the second is
history and read by properties only. `missed` counts the runs that should have
touched an entry and did not happen: not attached yet, or skipped by the kernel. A
failing `bpf_map_update_elem` behaves like a missed run.

`ConnLog` is the promise to the reader of the ring: per connection, samples while
it is tracked, then at most one lifecycle event, nothing duplicated or reordered.
`ImplementsConnLog` is the refinement, with `Phase` and `Log` as the mapping.

### FilterWalk, FilterProgram, FilterWalkProofs

`FilterProgram` is `Compile`: the layout of the flat stream and the limits it
enforces, as pure operators. `FilterWalk` takes *any* set of streams and models
one event at a time through `ko_filter_eval` (an action per kind of predicate, so
that verdict entries can appear and vanish between two of them) and `Decide` in
the read loop, while `startFilters` loads (`LoadProg`) and enables (`Enable`) the
filters. What an event makes of a predicate is one bit, and a verdict entry, when it
is there, is taken to be right. The next two sections discharge these assumptions:
`FilterCompile` shows where the bits are CEL's, `Verdicts` when entries are right.

### FilterCompile, FilterPreds, IpSet and their Proofs

`FilterPreds` has the comparisons: what one means in CEL (`CelLeaf`), the predicates
`compile.go` makes of it or of its negation (`leafPreds` with `cmpPreds`, `typePreds`,
`cmpField`, `inPreds`, `negInPreds`, `ipInPreds`, `attrPred` and its shared atoms),
`VerdictMask`, and what the kernel (`KernelHolds`) and the machine of the tests in
`vm.go` (`MachineHolds`) make of a predicate. A string is the sequence of its words,
because `fmt.Sprint` joins an atom's values with spaces when it builds its key; masks
are sets of bits; integers have `IntBits` bits.

`FilterCompile` has the expressions. An expression is the sequence of its calls, each
behind the calls it is applied to: so CEL (`Cel`), the compiler (`conj`, with its
negated form `negConj` under the sign TRUE) and the list of filters with its one list
of atoms (`CompileFilters`) are functions defined along a sequence. `Walk` is the walk
over a part of the stream: `RunPreds` goes to its end, `ko_filter_eval` to the end of the
kernel's array (`InArray`), which is as long as the limit `Compile` enforces
(`filter.MaxPreds`, `KO_MAX_PREDS`). `Evaluate` is the reference. The state is small: a configuration is compiled in `Init`, then events
arrive, of cgroups with and without a (right) verdict entry. What comes before (parsing,
type checking, the textual rewriting of `not in`) is left out, and so are comparisons of
addresses as strings, which are always left to CEL.

`IpSet` has the three implementations of `ip_in(address, cidrs)`: `AddrInCIDRs` (CEL,
over the bits of an address from the most significant one), `ko_ip_in_set` (the kernel:
little-endian words and shifts; a left shift of an exclusive or is zero where the low
bits agree) and `evIPInSet` (the Go machine the property tests compare with CEL). A byte
is the function of its bits. Byte and address sizes are constants in the code's
proportions; strings that do not parse are one value, `NotACidr`.

### Verdicts, VerdictsProofs

`ko_cgroup_verdict` with everybody who touches it: `Sync*` is `syncOnce` (a snapshot
of kontext's cache, one update per container, then one visit per key of the map that
deletes what the snapshot lacks; a failed update ends the pass), called by
`startFilters` before the switch is thrown (`Enable`) and by a ticker afterwards; `Tr*` is the
read loop with `resolveFilter` (cache lookup, Sync on a miss, second lookup, write);
`Evict` is the LRU; `Emit` is the kernel deciding an event by the entry it finds; the
cache is replaced by the Syncs of kontext's loop, of the consumer and of the tracer,
each of which takes a picture of the node and stores it later. `Kontext` has the
steps within a Sync; here it is two. An entry is named by the attributes it was
computed from, `Match` says what the filters make of them. The consumer looks up
containers only for events, so only once `startFilters` has finished. Cgroup ids are
taken to be below 2^32, where the key of kontext's cache is the id itself. Whether a miss finds a
recent Sync (`minSyncInterval`) is a free choice. A Sync fails only in the runtime's
list, since `walkCgroups` swallows the errors of its callback. Without a container
runtime there are no attributes and the module says nothing. The map iterator of
cilium/ebpf restarts when the key it stands on is deleted and gives up after
`max_entries` steps, with an error `syncOnce` does not read; the model's iterator
visits every key (hazard at `cel.go:82`).

### Pipeline, PipelineProofs

The goroutines of `App.Run`: `Tr*` is `Tracer.Run`, `Co*` `consumeEvents` and
`push`, `Ex*` an exporter, `Ko*` `kontext.Run`, `Metrics*` the HTTP server,
`Signal` the signal context. A goroutine has a program counter and the record in
its hand; channels are bounded sequences. Each blocking point of the code is a
step boundary: the ring read, the send `select`, the mutex, the runtime's answer,
the consumer's and the exporters' `select`, the write. `conf` is chosen in `Init`:
with and without filters, `verify`, a container runtime and metrics. Records are
numbers; whether one decodes, which filter takes it, and whether a lookup hits
are free choices. Left out: Prometheus counters, the line's layout, and which of
several errors `errg.Wait` returns.

### Kontext, KontextProofs

Run, `GetContainerInfo`, `ensureSynced` and `Sync`, with a step boundary wherever
shared state or the clock is read or written: the cache lookup, the load of `lastSync`
(an atomic) and the `time.Since` of what was loaded, the mutex, every directory of the
walk, the list, the store, the reading of the clock and the store of what was read
(`ReadClock`, `Stamp`: one line of Go, `kontext.go:245`, but two steps). The clock is
taken to be monotonic (`lastSync` is wall-clock time, which an administrator may set
back). `walkCgroups` keeps the low 32 bits of an inode number as the key while lookups
use the whole id: `Key` with `KeyBits`. Containers are created, started, ended and
removed at any moment, and a later one may get the cgroup id of an earlier one. Two
history variables serve `MissesSpaced`: when the last miss-driven Sync began
(`lastMiss`), and that the loop has stored a time from before it (`slipped`). The
answer of the runtime may be an error; then containers stay without names.
`ErrContainerNotFound` and success are the same return: what the caller does with
it is in Pipeline.

## 3. Runs

| Run | Shows |
| --- | --- |
| `evict` | Two sockets, a map with one entry, a ring with one record, one missed run: `EndsAccounted`, `ProbeSpacing`, refinement of `ConnLog`, type |
| `reuse` | One address reused by two sockets (accepted or connecting, two connects), retransmissions, a skipped run, attachment one by one, one restart: `Attribution`, `AtMostOneEnd` |
| `filter_walk` | All streams `Compile` makes of up to 3 filters with up to 2 predicates: `DecisionExact`, `DeferOnlyIfNeeded`, type |
| `filter_full` | *violation*: a stream `Compile` accepts but the kernel cannot hold loses events |
| `compile` | Every kind of comparison, doubly negated, in pairs, under a negated conjunction, in two filters with shared atoms; every IPv4 prefix of 4 bits, a choice of 16-bit IPv6 and v4-mapped ones, lists of up to 3; streams longer than the array: `KernelExactOnPlain`, `MachineExactOnPlain` |
| `compile_odd` | *violation*: expressions that are pushed down with another meaning than CEL's |
| `prefix_bits` | *violation*: the kernel disagrees with CEL on prefixes that end inside a byte |
| `pipeline` | 13 of the 16 configurations, 4 records, channel and queues of two: `InOrder`, `NothingLost`, `NoSilentStop`, `Delivered`, `Stops`, type |
| `pipeline_stuck` | The output hangs for ever, 6 records: `NeverStalls` |
| `kontext` | Two callers and the loop, a container, one failed answer: `MissesSpaced`, `Converges`, type |
| `verdicts` | One cgroup in any initial state, one failed call: `VerdictsOwn`, `SettledStays`, `VerdictsConverge`, `DecisionsConverge`, type |
| `verify_mismatch` | *violation*: `verify` counts differences of age between the verdict entry and the cache |

**Bounds, and why they are enough.** `evict`: two sockets and one entry is the
smallest instance in which an insert must evict; a ring of one is full after one
unread record; time 2 with interval 1 gives two probes with a blocked one between.
`reuse`: misattribution needs one address, a previous owner and a next one; one
skip plus programs that are not attached yet give two misses on one entry, so that
both sides of the condition in `Attribution` occur (with `missed < 3` in its place
the run fails). `filter_walk`: three filters of two predicates have a first, a
middle and a last filter with each value in each position; streams that do not fit
are included and excused by `Fits`; the limit is one below the array so that a
single userspace marker does not overflow it. `compile`: the five statistics differ in
every event, so that no two fields can be confused; values 0 to 3 lie below, at and
above the literals; three atoms reject some configurations, as 64 do; bytes of two bits have
prefixes that end inside and at them, words of four bytes have every position of
the mapped form's zeros, ones and address, and near misses of it; three prefixes
exceed `MaxIPSet`; the limit is the length of the longest filter, so that no
configuration is lost to it, and a userspace filter behind one that fills the array
does not fit (without `Fits` in `KernelExactOnPlain` the run fails). `pipeline`: a
channel and queues of two can hold records in either order, and four records fill a
queue while others wait before it; the metrics server meets the other goroutines in the
shared context only and is left out where filters and lookups already make the largest
configurations. `pipeline_stuck`: ring, tracer, channel, consumer, queue and exporter
hold one each, and the sixth record is behind a full pipeline. `kontext`: two
callers can both be behind the lock; the clock leaves room for a second miss-driven Sync
at the end of the interval, with the loop's stamp in between (without the exception for
`slipped` the run fails); a container that comes and goes, with one failed answer,
produces every cache content. Its one id is its own key; ids that share their low bits,
or exceed them, and ids that are used again are in the module and in the theorems, not in
the run.
`verdicts`: entries of different cgroups meet only in snapshots and pictures, which
copy each on its own, so one cgroup shows what can happen to an entry; its three
possible values (none, empty, the container's) are told apart by the filters. Of
`VerdictsOwn` one cgroup shows the half about time (no attributes before the
container ran); that entries do not get mixed up between cgroups is in the theorem.
The theorems below remove the bounds from every safety property that a passing run
checks.

**Fairness.** ConnTracker, FilterWalk and FilterCompile have none: only safety is claimed.
Pipeline: weak fairness of every goroutine's steps (the Go scheduler runs what can
run) and strong fairness of the stop branch of each `select`, because Go picks
among ready cases at random, so a `Done` channel that stays ready is not passed
over for ever. The runtime is assumed to answer (the tracer asks it with
`context.Background()`, so without this nothing could be said of shutdown; see the
hazard at `node_agent.go:126`). `NeverStalls` assumes nothing of an exporter's
output; `Delivered` and `Stops` assume that it takes every line. The kernel is
never obliged to produce, nor a signal to come. Kontext: the scheduler, the
runtime's answer and the ticker; nothing makes a container start or a caller call.
Verdicts: both tickers, the scheduler, and that whoever holds kontext's lock releases
it; nothing makes events arrive, containers change, entries be evicted or the consumer
miss. `VerdictsConverge` holds because containers end up in a state they keep
(a cgroup id is not used again) and every pass rewrites what the snapshot has and
deletes the rest. Convergence has two halves: that everything becomes right needs
fairness and is TLC's; that what is right stays so (`SettledStays`) does not, and is
proved.

**Deadlock** is checked except in the ConnTracker runs (all sockets may be used up
and everything read: the bounded system simply ends) and in `pipeline_stuck` (a
hanging output may stop the agent's shutdown for good, as in the code).

**Mutants.** Each property of a passing run has a mutated definition beside the
original (marked "Mutation of") that a plausible bug would produce and under which
the property fails.

## 4. Findings

1. `filter.go:171` counts only pushed-down filters against `MaxPreds`, the stream
   also has a marker per userspace filter. A longer stream is cut off in the kernel
   and the filters behind the cut never see an event (`filter_full`).
2. `tracer.bpf.c:281` argues that comparing the low bits of little-endian words
   preserves the compared set. It does so for prefixes that end at a byte only:
   172.17.0.2 is in 172.16.0.0/12, one of `ko_private_cidrs`, for CEL and not for
   the kernel (`prefix_bits`). No other length is safe: `KernelExactIffWholeBytes`
   proves that each of them misjudges some address. The property test uses whole-byte prefixes, and
   compares CEL with the Go machine, which is exact.
3. `README.md:24` says that mismatches between kernel and CEL "must stay zero". The
   compiler pushes down five kinds of expressions with another meaning
   (`compile_odd`): a field on the right of a comparison (`compile.go:219`: the
   comparison is negated where it should be mirrored, `100 < ko_rtt_us` becomes
   `ko_rtt_us >= 100` and `5 == ko_error` becomes `ko_error != 5`); an order of event
   types (`compile.go:232`: no predicate at all, always true); a negative literal
   (`compile.go:241`: a huge unsigned one); lists whose values contain spaces
   (`compile.go:316`: `["a b"]` and `["a", "b"]` share an atom); a v4-mapped prefix
   (`compile.go:366`). With the prefixes of finding 2, and the streams of finding 1
   that do not fit, there are no others: `KernelDecidesPlain` proves it for every
   type-checked expression of the model.
4. The same sentence of `README.md:24` cannot hold for another reason: the kernel
   decides by the verdict entry, `verifyBpfDecision` (`cel.go:124`) by the cache as it is
   when the event is read. The entry was written from an earlier snapshot of the cache,
   and the cache may be replaced while an event waits in the ring, so the two may be of
   different ages; both sides evaluate the filters correctly and the event is counted
   as a mismatch (`verify_mismatch`; in TLC's trace the loop stores a picture in which
   the container has exited after `syncOnce` took its snapshot, so that the entry is
   older than the cache). `DecisionsConverge` shows that such mismatches stop once
   containers rest.

Four smaller divergences have no run of their own. The comment at `kontext.go:176` says
that miss-triggered syncs are rate-limited. The loop reads the clock and stores it without
the lock (`kontext.go:245`); when it stores a time from before a miss-driven Sync over
the stamp of that Sync, the next one may come less than `minSyncInterval` after it. This is
the exception in `MissesSpaced`. The others are visible in `ConnTracker`.
A simultaneous open leaves SYN_SENT for SYN_RECV and is reported as failed, which the
comment at `tracer.bpf.c:591` excludes. `close(2)` while connecting leaves `sk_err` at
0, while `stdout.go:79` says failed connections always carry an errno. The close event
is sent when ESTABLISHED is left, so that later retransmissions and a later reset are
not in the "final stats" of `README.md:16`.

## 5. Proofs

`ConnTrackerProofs` proves, for any set of sockets, any map size, ring size,
interval and any bounds:

* `Invariance`: `Spec => []IInv`. The properties are not inductive by themselves.
  `CtxOK` ties an entry to its socket: it belongs to a started, unended connection,
  it is the socket's own connection until two runs were missed, and while none was
  missed the socket is in SYN_SENT or ESTABLISHED (so that any exit from there goes
  through the branch that ends it). `CtxInjective` says that no identity is in two
  entries, without which one connection could be ended at two addresses. `Fresh`
  says that numbers not yet given out occur nowhere. `RingOK` ties a record to the
  map: a lifecycle event was counted, a probe is not later than the time in its
  connection's entry.
* From it `TypeCorrect`, `AttributionSafe`, `OneEnd` (`AtMostOneEnd` and
  `EndIsLast`), `ProbesSpaced` and `EndsAreAccounted`.

The proof has a lemma per kind of effect (`SampleStep`, `QuietStep`, `MissedStep`,
`EndStep`, `CaptureStep`, `ForgetStep`, `RestartStep`) and a lemma per action that
reduces it to them. Assumptions: `ConnTrackerAssumption` (the bounds are natural
numbers, sizes and the interval positive).

`FilterWalkProofs` proves, for any set of streams that end in an END marker and any
array size, `WalkInvariance`, `WalkTypeCorrect`, `DecisionIsExact` and
`DefersOnlyIfNeeded`. The
inductive invariant `WalkInv` says of the walk that every filter before position
`k` is pushed down and false and that `res` summarises the predicates of the
current filter (`WalkOK`), of its result that it is justified (`RetOK`), and of
the loading order that an enabled filter has its program (`LoadOK`).

`ConnTrackerProofs` also proves the refinement, `TrackerImplementsConnLog`: under the
mapping (`Phase`, `Log`) the initial states are `ConnLog`'s and every step of the tracker is
one of its steps or changes nothing it sees. It rests on `IInv`: the connection a
program writes about is the one whose identity is in the entry, which `CtxOK` says is
started and unended, so that its phase is the one `ConnLog`'s action asks for, and
`CtxInjective` says that no other connection's phase moves. `PhaseOf` and
`TrackedPhase` read a connection's phase off the map, `LogAppend` and `SubmitWrites`
say what a record in the ring does to the log, and there is a lemma for each kind of
step (`SampleObserves`, `EndFinishes`, `DestroyLoses`, `ConnectStarts`, and `Invisible`
for what is a stutter). An insert that evicts
entries is a `Start` that pushes others out, a restart is a `Reset`.

`PipelineProofs` proves, for any number of exporters and records, any capacities and
any of the configurations, `PipelineInvariance` (`PInv`), and from it
`PipelineTypeCorrect`, `DeliveryInOrder`, `OnlyFullQueuesLose` and
`NoGoroutineStopsAlone`. `InOrder` and `NothingLost` speak of the line of an exporter:
what it has written, followed by its hand, its queue, the consumer's hand, the
channel and the tracer's hand. To show that a step only moves a record along the
line one must know where records are: `HandsOK` says at which points of its loop a
goroutine has one. `AcceptOK` says that accepted records were read and that the one
being looked up is not accepted yet, so that accepting it puts it at the end of the line.
`CloseOK` (only a cancelled context closes the reader) is what makes the tracer's
silent return harmless, and `MutexOK` ties `syncMu` to the point where its holder
waits for the runtime. The proof first shows, action by action, that the control
part is kept (`Control...`), then that each action leaves a line as it is, moves a
record within it, adds the next one at its end, or takes out one that a full queue
drops. The lemmas on sequences in between (`HeadMoves`, `TailMoves`, `SortedJoin`,
`ToSetJoin`, `MiddleDropped`) know nothing of the pipeline. Assumption:
`PipelineAssumption` (capacities are positive, as those of the code are).

`KontextProofs` proves, for any callers, containers and cgroups, any interval and any
bounds, `KontextInvariance` (`KInv`), `KontextTypeCorrect`, `MissSyncsExclude` and the
action property `MissSyncsAreSpaced`. `MissesSpaced` compares the begins of two Syncs,
but the code compares with `lastSync`, the end of any Sync, which the loop moves
without the lock. `ClockOK` bridges the two: while nobody holds the lock, the last
miss began no later than the last stamp, unless the loop has `slipped` an older one in;
what a caller loads behind the lock and what it will stamp are no older either. It needs
`LockOK`, that only the holder of the lock is between taking it and stamping, and
`PastOK`, that no stored time and no time in a goroutine's hand lies in the future.
Assumption: `KontextAssumption` (the interval is positive; cgroup ids are numbers;
"loop" and "none" are not names of callers).

`VerdictsProofs` proves, for any set of cgroups, any attributes and any filters,
`VerdictsInvariance` (`VInv`), `VerdictsTypeCorrect` and `VerdictsAreOwn`. An entry is
written from a snapshot of a cache that was stored from a picture taken earlier still:
`PicturesOwn` says `Own` of everything that may yet be written, in the pictures of
unfinished Syncs, the cache, the snapshot of `syncOnce` and the attributes in the
hand of the read loop. `Own` is kept by what happens to containers in the meantime because
one that has run is never again one that has not. `LockOK` says that the picture the
tracer stores is its own. Assumption: `VerdictsAssumption` (there is a cgroup;
attributes are not the empty ones; a ring has room for a record).

The same module proves the action property `RightStaysRight` (`SettledStays`). `Settled`
has a part for each place a container's attributes can be in: the cache, the pictures,
the snapshot, the map, the ring and the hand of the read loop. Each step copies from one
such place to another, so its target is right because its source was (`SettledParts`
puts the parts together; `SettledKontext`, `SettledSyncOnce` and so on, one lemma per
goroutine). A failed Sync is excused by the statement, since it stores a picture without
names; a failed update, an eviction and a miss within `minSyncInterval` are not.

`IpSetProofs` proves, for every size of bytes and addresses, every address and every list
of prefixes that are not v4-mapped: `MachineIsExact`, `KernelIsExactOnWholeBytes`, and
`KernelExactIffWholeBytes`, which names the prefixes on which the kernel is right. The
argument is one of positions: bit `i` of an address, counted from the most significant
one, is bit `ByteBits - 1 - i % ByteBits` of byte `i \div ByteBits`, whereas the kernel's
mask covers the bits from the least significant one. The first `n` bits and the low `n`
bits are the same set of bits exactly when `n` ends at a byte; for any other `n` the proof
gives the address that differs in one bit of the difference. Assumption:
`IpSetAssumption` (sizes are positive, IPv4 addresses have an even number of bytes).

`FilterPredsProofs` proves `LeafIsExact`: the predicates of a plain comparison, or of its
negation, hold of an event exactly when CEL says so, under the verdict mask of any list of
atoms that begins with the atoms so far. An ATTR predicate refers to the first atom with its
key, perhaps one of another filter. `SameKey` shows that two atoms with one key compare
alike, since with values of one word each the key determines the values; and a
predicate keeps its meaning when atoms are added behind (`Extends`). Assumption:
`FilterPredsAssumption` (there are bits; the built-in lists hold prefixes).

`FilterCompileProofs` proves the two invariants of the run `compile`, `MachineDecidesPlain`
and `KernelDecidesPlain`, for every list of expressions, of any length and depth, and every
event. The invariant of the states is simple (`CompileInv`: the set is what was compiled
of the configuration); the work is in the operators, in four inductions:

* over the calls of an expression: `CodeIsRight`. The code of a call, for either sign and
  any atoms, fails or means the call; `&&` joins conjunctions (`BothSure`), `!` changes the
  sign, `||` and a negated `&&` fail.
* over the filters: `FiltersAreRight`. Each filter is left to userspace or its predicates
  mean its expression, under the atoms of *all* filters.
* over the stream: `StreamAt`. The segments of the filters lie in it one behind the other.
* over the walk: `WalkIsRight`. Within a filter, `res` is TRUE only if all predicates so
  far hold and FALSE only if one does not (`Within`); at a marker, the filters passed are all
  false, or the result is the first true one, or the walk gave up (`Passed`).

A function that is defined by recursion has its defining equation only if there is such a
function; `ValsExist`, `CodeExists`, `FiltersExist`, `FlatExists` and `WalkExists` show
this. The kernel's walk ends with the array. What it has found by then it would have at the
end of the stream too (`ResultStays`), so an index is right of every accepted list; a drop
is right of a stream that fits, and `KernelDecidesPlain` says no more, because of finding
1. All inductions are by least counterexample (`Least`), which the provers can
instantiate. Assumption: `FilterCompileAssumption` (configurations are lists of
expressions, the operands of a call come before it, comparisons are type-checked, events
have the fields of events) and `FilterProgramAssumption` (the limit is a natural number).

Only model-checked: the liveness properties (`Delivered`, `Stops`, `NeverStalls`,
`Converges`, `VerdictsConverge`, `DecisionsConverge`). They need fairness, which is out of
the prover's reach.

## 6. Not modelled

* Drop counters and program statistics: periodic copies of kernel counters into
  Prometheus counters that nothing in the program reads back. Drops counted after the
  last tick are never published (`cel.go:141`).
* The recycling of an LRU element under a reader's pointer (`tracer.bpf.c:572`).
* Parsing and type checking of CEL (cel-go), and the rewriting of `not in` in the text
  of an expression.
* The limit of the map iterator in `syncOnce` (`cel.go:82`).
* The extraction of a container id from a cgroup path and the start-up probing of
  runtime sockets: string functions and I/O without shared state.
* Cgroup ids of 2^32 and more in `Verdicts`: `kontext.go:268` keeps the low 32 bits, "where
  the id lives", so the cache would never answer for such an id (in `Kontext` it does not).
* YAML decoding, the cluster agent (a stub), generated bindings, vendored headers.

## 7. Plan

Modelled and checked: every component that keeps state the program acts on. What is
left, in this order:

1. Element slots in `ko_sock_ctx`, to model recycling under a reader's pointer.
2. The counters, with an accounting identity over all stages.
