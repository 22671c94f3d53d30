# A verification of the benchmark lab

TLA+ specifications of `benchmark-lab/`, the Go program that broadcasts
numbered messages over many transports and reports latency, loss, duplication
and reordering per client. TLC checks the specifications on small instances;
TLAPS proves most of their safety properties for all instances. The code is the
reference; every definition that models code is listed with its lines in the
`map` of `PROJECT.json`. Paths below are relative to `benchmark-lab/`.

## 1. The system

The runner (`internal/scenarios`) starts a transport, which in a benchmark also
starts its own clients. It broadcasts for the warmup, resets the Recorder
(`pkg/metrics`), broadcasts for the measurement, and then reads the Recorder.
The transport (`internal/tcp`, `udp`, `sse`, `http1`, `http2`, `http3`,
`websocket`, `webtransport`, `webrtc`) numbers the messages. Each client's
receive goroutine hands each message to the runner's RecvHandler, which feeds
the Recorder and, in it, that client's sequence tracker. The same servers and
clients are also programs under `cmd/`. Beside them the lab has structures that
goroutines share and that are measured by themselves: the fan-out strategies of
`internal/broadcast`, the connection registry of `pkg/transport`, the market
router of `pkg/market`. All messages are frames of `pkg/wire`.

| Part | Module | Run |
|---|---|---|
| Sequence tracker, `pkg/metrics/sequence.go` | `SequenceTracker`, `SequenceTrackerAtomics` | `tracker`, `tracker_flush`, `shared_structures` |
| Recorder and runner, `pkg/metrics/recorder.go`, `internal/scenarios/runner.go` | `Measurement` | `measurement*` |
| TCP server, its clients as readers, resource sampler, bench transport | `TCPServer` | `tcp*` |
| TCP client as a sender | `TCPClient` | `shared_structures` |
| HTTP/1.1, HTTP/2, HTTP/3, SSE, gorilla, gobwas and coder WebSockets, WebTransport, WebRTC, UDP: server, client, bench transport, programs | `Session` and one module each (`HTTP1`, `HTTP2`, `HTTP3`, `SSE`, `Gorilla`, `Gobwas`, `Coder`, `WebTransport`, `WebRTC`, `UDP`), `Transports`, `MCTransports` | `transports`, `transports_live` |
| Fan-out strategies and registry | `Fanout` and one module each (`NaiveBroadcaster`, `ShardedBroadcaster`, `WorkerPoolBroadcaster`, `EpollBroadcaster`, `IOUringBroadcaster`, `Registry`), `SyncBroadcast`, `Broadcasters` | `shared_structures`, `sharded_remove` |
| Market router | `Router` | `shared_structures` |
| Wire codec | `Wire` | `shared_structures` |

Modules whose name ends in `_proofs` hold theorems (section 5).

## 2. The modules

**`SequenceTracker`** is the tracker with one step per call: all mutators hold
the mutex throughout. Its bit mask is a set of slots `<<word, bit>>`, computed
by `wordIndex` and `bitMask` as in the code. `ObserveAhead`,
`ObserveDuplicate` and `ObserveGapFill` are the branches of `Observe`. History
variables record what arrived, which numbers first came below the window
(`tooOld`), which came late but inside it (`late`), and whether `Flush` was
called; the properties compare the counters with them. `MaxSeq` is far below
2^64 - 1, so that `seq + 1` does not overflow.

**`SequenceTrackerAtomics`** is the same code at the grain of its atomic
operations, with a reader (`Snapshot`; `LossRate` performs the first two of its
loads) that takes no lock. It instantiates `SequenceTracker` with the counters
*as the call in progress will leave them*, and implements it.

**`Measurement`** is one run of the runner with the Recorder. Every client has
one receive goroutine whose handler is four steps: the shared counters
(`RecordSample`), the lookup under `connMu` (`LookupConn`), the tracker
(`TrackerObserve`), and the section under `cs.mu` (`ConnStatUpdate`). The
runner's `Reset` is two steps, `Snapshot` two, and `ConnSnapshots` two for each
connection. A per-connection tracker is the set of numbers that it counted,
which the theorems about `SequenceTracker` justify as long as the window is not
left. A broadcast reaches any subset of the clients; what is in flight arrives
in any order and, up to `MaxDups` times, twice. A handler that still holds a
`connStat` of the map that `Reset` replaced writes where nobody reads; `gen`
tells the two maps apart.

**`TCPServer`** is the TCP server with callers of `Start` and `Stop`, a
broadcasting goroutine, accept loops, the sampler, and for every connection
`handleConn` and both pumps. `Start` and `Stop` are split at every access to
shared state. A write takes three steps, so that a pump can be blocked in
`conn.Write` on a client that does not read. `Stop`'s `Range` visits the
connections one by one. `Embedded` says who the clients are: those of
`tcpBenchTransport`, which are all registered before a run and closed before the
server is stopped, or independent ones. `registry.Snapshot` is one step here;
`Registry` shows what it returns when it is not.

**`TCPClient`** is the other direction: goroutines that call `Send` and
`SendSync`, both pumps, and the goroutine that calls `Dial` and `Close`, again
and again, as a comment in `Dial` allows. `c.writeCh` survives a `Close`, so
frames queued for one connection go out on the next. A second `Start` of the
recorder's sampler, which `cmd/tcp-client` performs, ends in a close of a closed
channel; `crashed` is that state.

**`Session`** declares the state that ten protocols share: the server, its table
of sessions, the sessions (handler, queue, message being written, frames on the
way, both ends of the connection), the clients, the publisher and the bench
transport or program. Each protocol's module is written from its own source and
has one action per goroutine or call (`handleStream`, `serveWS`, `writePump`,
`Broadcast`, `Send`, `Stop`, `BenchStart`, ...), whose disjuncts are its steps: a
session is in the table (`stored`) before the answer to its client is flushed
(`serving`), and what is broadcast in between waits in its queue.
`Transports` puts them side by side: a behaviour is one of the protocol that
`proto` names, and the properties are what the lab relies on whichever it
measures. Faults: the network breaks a connection (`NetworkCut`), the host of a
client vanishes without a word (`PeerVanishes`), writes fail or time out,
datagrams are lost, duplicated (a retry of `batchSend` starts from the beginning)
and reordered. A server program exits when `Stop` returns, and a bench run that
fails to start is given up: there a behaviour ends (`Over`).

**`Fanout`** does the same for the fan-out strategies, whose modules extend it and
prefix the interface's names with their own (`NaiveAdd`, `PoolBroadcast`,
`ShardedStop`, `RegistrySnapshot`, ...); `Broadcasters` extends them all. A Go slice is a view of an
array that other views share, because `runShard` iterates its copy of the slice
after `RUnlock` while `Remove` swaps and clears entries of the same array: it can
skip a writer, serve one twice or call a nil one. `past.torn` records where that
happened; `AtMostOnce` and `NothingForgotten` exempt exactly these deliveries and show
that nothing else has such effects, and `RemoveIsSafe` exempts nothing (finding 6). A
member of `Writer` is an entry of the list: in the io_uring broadcaster, whose `Add`
appends a descriptor without looking whether it is there, one connection can have
several, is written to once for each, and loses one of them in a `Remove`. Likewise
`past.lapse` is a failed or interrupted `io_uring_enter`, after which the rings hold entries of another call. Edge-triggered
events are modelled as such: one `epoll_wait` consumes an event, and only
`EPOLL_CTL_MOD` raises the next. The rings' kernel side, the pool of `ants` and
the writes are external. **`SyncBroadcast`** is the abstract specification: a call
writes at most once to each writer that is registered at some time during the
call, and when it returns has written to, or been refused by, every writer that
was registered throughout. The naive and worker-pool broadcasters and
`Registry.Snapshot` implement it (`ImplementsSync`).

**`Router`** takes one shard's lock at a time: `Subscribe`, `Unsubscribe` and
`UnsubscribeAll` go over their instruments in steps, and `Route` holds the read
lock of one instrument while it calls its subscribers.

**`Wire`** encodes and decodes frames byte by byte, for bytes of any even base
(256 in the code): the truncation of a length to 32 bits, the two's complement of
times, the order of `Decode`'s checks. A batch is what `EncodeAppend` builds.

**`SharedStructures`** composes the tracker's atomics, the fan-out family, the
router, the TCP client and the codec for TLC; a behaviour uses one of them.

## 3. The runs

| Run | Instance | Shows |
|---|---|---|
| `tracker` | window 4, words of 2 bits, numbers 0..8, 6 arrivals | the mask is exact inside the window, `Delivered` and `Reordered` are exact, `Flush` never overcounts |
| `tracker_flush` | numbers 0..5 | *violated:* `Flush` does not declare everything missing (finding 1) |
| `shared_structures` | tracker: window 2, numbers 0..2, 3 arrivals. Fan-out: 2 calls, up to 3 writers in 2 shards, channels, rings and batches of 1, 2 workers, a Remove, a failed write. Router: 2 instruments, 2 ticks. TCP client: 2 senders, 3 frames, queue and socket of 1, 2 connections. Codec: 2 frames, base 4 | the atomics implement the tracker, and lock-free reads are bounded; no message is delivered twice, forgotten, left behind by `Stop`, reordered within a shard, or left without a wakeup; errors belong to the call that gets them; synchronous strategies and the registry implement `SyncBroadcast`; a closed connection is forgotten by the router; frames that `Send` accepted go out once and in order; frames of a batch decode to what they were |
| `measurement` | 2 clients, 3 broadcasts, or 2 and a duplicated delivery, at most 1 in the warmup | with handlers running through `Reset` and the snapshots the throughput is never inflated and a reported loss is at most one too small; without such handlers loss and receive count are exact; `Run` returns |
| `measurement_loss` | 2 clients, 2 broadcasts | *violated:* a received message is reported as lost (finding 2) |
| `measurement_warmup` | 2 clients, 2 broadcasts, 1 in the warmup | *violated:* warmup messages are counted (finding 3) |
| `sharded_remove` | the sharded broadcaster: 1 call, 2 writers of one shard, a Remove | *violated:* a Remove makes the goroutine of the shard call a nil writer (finding 6) |
| `tcp` | 2 connections of bench clients, 2 messages, queue and socket of 1 frame | each client reads a prefix of what was queued for it, an open connection loses nothing, queued frames arrive, Broadcast returns, dead clients leave the registry, Stop returns and all connections end up closed |
| `tcp_late_conn` | 1 independent connection | *violated:* Stop leaves a connection open (finding 4) |
| `tcp_restart` | one caller, 2 Starts | *violated:* Start after Stop panics (finding 5) |
| `transports` | each of ten protocols, with all its delivery modes: 2 clients, 2 calls (gorilla and coder 1), queue and connection of 1 frame, 1 cut, clients that reconnect do so once, bench transport | order and single delivery, every frame accounted for, the table holds exactly the sessions that are served, readiness means subscribed, a resumed SSE stream lacks only the known window. Where a protocol promises less, the property says which and what |
| `transports_live` | the same with 1 client, 1 call (gorilla, coder, SSE and WebTransport 2), bench transport and programs | order across the connections of a client, dead peers leave, a bench Stop ends every goroutine, queues empty, Broadcast returns, clients reconnect and UDP peers come back |

The bounds are small because the interesting cases are: a full queue needs one
place, a stale bit one lap of the ring (nine numbers over a window of four are two
laps and a bit, and a jump can be wider than the window), a torn report two clients
and a message between two reads, a torn iteration two writers of one shard, a
resumption two events and one break. `measurement` needs three broadcasts: a client
that heard the first of them only must be charged with two. The TCP client was also
checked with five frames and a queue of two. `tcp` has the clients of a benchmark,
because with others `StopClosesAll` fails (finding 4); its two invariants were also
checked with independent ones, and are proved for both. Base 4 keeps the codec's "64-bit"
numbers within TLC's integers; the ends of all ranges are among the values, and the
proof is for every base.

Deadlock is checked where calls must not be stuck: in `tracker`, `measurement` and
`shared_structures`, whose `AtRest` steps allow a rest only when no call is open. It
is not checked for servers, which may come to rest: nobody is obliged to call them.

Symmetry is used for connections, writers of one shard, workers, senders and
clients, in runs without liveness properties.

**Fairness.** The Go scheduler runs every goroutine that can run, so each
goroutine's steps are weakly fair; timers expire, so the phases of `Measurement`
end, read deadlines pass and a bench run is stopped. The clients' receive goroutines
are goroutines too: they read what arrives (`ClientRead` in TCP, `Reading` in the
other protocols). Nothing is assumed of the network, nor that anybody dials, closes,
publishes, sends a signal, or calls Start, Stop, Broadcast or Send. A Broadcast that
has begun goes on.

**Mutants.** Every property of a passing run has a mutant: a definition with a
plausible bug (`ObserveAhead_KeepOnJump`, `Offer_DropOldest`, `Overflows_AtEnd`, ...),
defined just before the definition it replaces, under which TLC finds the property
violated.

## 4. Findings

1. `Flush` looks only from the frontier on, although its comment says
   `[0, lastSentSeq]`; beyond the frontier it trusts bits of the previous lap.
2. `ConnSnapshots` reads clients one after the other, and a client's tracker
   before its last number, while messages still arrive: a client can be charged
   with the loss of a message that it received.
3. `Run` resets the Recorder while warmup messages are in flight; they are
   counted in the measurement.
4. A connection accepted before `Stop` and registered after its `Range` is not
   closed; its pumps keep `Stop` waiting or outlive it. In a benchmark this does
   not happen (`tcp`), since all clients are registered before.
5. `Start` after `Stop` panics: the sampler's channels are not recreated.
6. `Remove` of the sharded broadcaster moves and clears entries of an array that the
   goroutine of the shard iterates over without the lock. The goroutine calls a nil
   writer and panics; if an `Add` fills the place first, the writer that was moved is
   skipped, and one that was removed and added again gets the message twice. The
   interface says of `Remove`: "Safe to call concurrently."

Seen while modelling, and part of the models:

- two concurrent calls of the TCP server's `Stop` close `s.done` twice;
- `cmd/tcp-client` starts its recorder and `Dial` starts it again, so that `Close`
  ends in a panic of the second sampler loop;
- the datagram and unidirstream modes of the HTTP/3 server reach no session, and
  bidistream mode of WebTransport can wait for a client for ever;
- an HTTP/3 or SSE client that reconnects before the server has noticed the break
  can be left without broadcasts: the handler of its old stream deletes the table's
  entry for the client's ID, which is that of the new stream. The client is connected,
  notices nothing and gets nothing (`Displaced`), although BENCHMARKING.md:148 has
  "auto-reconnect built in" for SSE. `Reconnects` and `TableIsServing` name this case;
- the coder server gives every read 60 s and its clients send nothing, so it drops
  every client after 60 s; the client reconnects under a new ID, and what is
  broadcast meanwhile is not sent to it;
- the gobwas client keeps the reader that `ws.Dial` returns, which is nil unless the
  server's first frame came with the answer to the upgrade; with a nil one the first
  read panics. `Reconnects` and `BenchStopEndsAll` name the crash;
- the WebRTC server stores a peer before it registers the callbacks that would delete
  it, and forgets one whose offer fails half way: such peers stay (`Abandoned`);
- `Stop` of the WebSocket servers does not end the connections that were upgraded;
  they end when their clients do, as those of a bench transport do before it;
- `waitForConns` of the WebSocket servers counts connections: one client that came
  back can be counted twice, in the place of one that is not subscribed yet;
- a reconnect of the gobwas client that meets its `Close` leaves a reader behind;
- `connFd` asks for an interface whose method returns the package's own
  `syscallRawConn`. No connection of the standard library has such a method, so `Add`
  of the epoll and io_uring broadcasters fails for them; the models take connections
  that have it.

## 5. Proofs

Each theorem is for every value of the constants that the named assumption of its
module allows, hence for any number of connections, messages and steps. The shape is
always the same: an inductive invariant, one lemma per action, and the property as a
consequence. TLC checked every inductive invariant before it was proved, on instances
of the size of the runs:

| Invariant | Module | Distinct states |
|---|---|---|
| `IndInv` | `Structures_proofs` | 217,755 |
| `AInv` | `Structures_proofs` | 71,072 |
| `MInv` | `Measurement_proofs` | 2,290,596 |
| `StreamInv` | `TCPServer_proofs` | 978,795 |
| `ClientInv` | `TCPClient_proofs` | 1,601,230 |
| `RouterInv` | `Structures_proofs` | 25,146 |
| `WireInv` | `Structures_proofs` | 1,333 |
| `WakeInv` | `Fanout_proofs` | 126,844 (1 connection) |
| `SyncInv` | `Fanout_proofs` | 900,495 |
| `ShardInv` | `Sharded_proofs` | 8,360,722 |
| `RingInv` | `Broadcasters_proofs` | 4,230,056 (3 writers, rings of 2) |
| `EpollInv` | `Broadcasters_proofs` | 7,869,928 (2 connections, 1 worker), 37,626 (1 connection, 2 workers) |

**The tracker** (`Structures_proofs`): `TypeCorrect`, `MaskIsExact`, `DeliveredIsExact`,
`ReorderedIsExact`, `FlushIsSound`. `TrackerAssumption`: word and window sizes are
positive, and the window is smaller than a word or a multiple of it, which holds of
two powers of two. The numbers in a window fall into different slots
(`SlotInjective`, from facts about `\div` and `%`), so that a step disturbs the bit of
no other number in the new window. `WindowExact` alone is not inductive: a number
ahead of the frontier must be known not to have arrived, and one below to be late.
`IndInv` adds that the frontier is one past the highest number that arrived, and that
`tooOld` and `late` are disjoint parts of `arrived`.

**The tracker at the grain of its atomics** (`Structures_proofs`): `SnapshotIsBounded`, and
`AtomicsImplementTracker`: initial states map to initial states, and every atomic
operation to a step of `SequenceTracker` or a stutter. The bounds of a snapshot need
to be known for the values still to be loaded too, and that a reader which runs while
`Reset` stores its zeros is marked.

**The router** (`Structures_proofs`): `RouterForgets`. The invariant says that every shard which
`UnsubscribeAll` has *passed* has forgotten the connection, and that the subscribers
which a `Route` still has to serve are subscribed, because it holds the lock.

**The TCP server** (`TCPServer_proofs`): `ClientsReadAPrefix`, `OpenConnectionsKeepAll`. What was queued
for a connection whose ends are open is what was read, followed by the socket, the
frame in the write pump's hand and the queue; for any connection, what was read and
is in the socket is a prefix of what was queued. Nothing flows before a connection is
registered, and the number being broadcast is larger than any queued for the peers it
has still to reach: hence increasing.

**The TCP client** (`TCPClient_proofs`): `AcceptedKeepOrder`. The accepted frames without the lost ones
are the written ones that were accepted, the frame in the write pump's hand and the
queue, in this order. That no frame goes out twice needs that a call under way has a
number of its own which is nowhere yet; that a connection loses at most one frame
needs that the write pump of the last connection is gone before the next `Dial`.
Induction over the length of a sequence shows that filters distribute over
concatenation; it is done with a well-founded order and the set of counterexamples,
which the library's `WFMin` takes as a parameter, since no operator can be passed.

**Measurement** (`Measurement_proofs`): `NeverInflated`, `QuietReportIsExact`, `LossUnderstated`.
`MeasurementAssumption`: finitely many clients. Sums over clients exist and grow by
one with one of their terms, by the same kind of induction. `MInv` says for every
connection which numbers its tracker counted that the `connStat` does not know yet (at
most one: its handler is between the two), and that the shared counter exceeds what the
`connStat`s of the current map count by at most the handlers that have added to the
former and have still to add to the latter. From there on the three properties are about what
the runner read in which order: the bounds that `ConnSnapshots` reads cover all but one
of what it found the tracker to have counted; without a handler under way nothing
changed between two reads, and `tracker`, `connStat` and shared counter agree.

**The broadcasters** (`Fanout_proofs` for the epoll strategy's wake-ups and the
strategies whose calls wait, `Sharded_proofs`, `Broadcasters_proofs` for io_uring, the
epoll strategy and what holds of all), from `FanoutAssumption`: positive sizes, finitely many shards
and a function from writers to them. A behaviour is one of some strategy, and each
theorem is about all of them; each strategy has an invariant of its own.

- `NoWakeupIsLost`. `NoLostWakeup` speaks of registered connections only; inductive
  (`WakeInv`) is that *every* non-empty queue has an armed event, a worker or a call
  that will see to it, with empty queues for unregistered writers, and slices that hold
  no nil below their length.
- `SynchronousCalls`: the naive broadcaster, the worker pool and the registry implement
  `SyncBroadcast`, step by step. What a call owes is in one of its tasks, or in a shard
  that it has still to visit; what is in a task may be written and has not been
  (`SyncInv`).
- `StopDrainsChannels`, `OneOrderForAll`. In a shard a message is in the channel, then
  with the goroutine, then with the writers, and these three are in one order for all
  writers of the shard; a goroutine that has ended leaves only messages of calls that
  `Stop` overtook. An iteration that no `Remove` met serves the writers of the slice
  that it copied, each once: for that, `ShardInv` says of each array which entries
  below the length of the copy are still those that were copied. The order of the naive
  broadcaster comes from `SyncInv`: one call holds the lock.
- `ErrorsAreTheCalls`. As long as no `io_uring_enter` failed, the rings hold only writes
  of the call that holds their lock, as many as completions are still to come, and an
  error is in the call or in a completion to be drained (`RingInv`). After a failure
  only types and bounds are kept.
- `DeliveredAtMostOnce`, `NoMessageForgotten`: from the invariants above and `EpollInv`,
  which says for each message and connection that the message is in the queue, with one
  worker or with the writer, never in two of these, and only where its call has been.

**The wire codec** (`Structures_proofs`): `BatchesRoundTrip`. `WireAssumption`: the base is even and at least
2, magic number and limit fit 32 bits, numbers and times their 64 bits, and payloads
are shorter than 2^32 bytes (the code truncates longer lengths). Division gives the
four digits of a number and what is above them, which is nothing for a number of 32
bits; a 64-bit number is two such; fields keep their place under concatenation. The
invariant says where in the buffer each frame lies, byte for byte.

Only model-checked:

- liveness (`RunTerminates`, and the leads-to properties of `tcp` and `transports_live`),
  which the prover does not reach;
- the safety properties of `Transports` (`TypeOK`, `InOrder`, `Accounted`,
  `TableIsServing`, `ReadyMeansSubscribed`, `ResumeMissesOnlyTheWindow`): an invariant for each of the ten protocols is still to be written.

## 6. Not modelled

- Messages from clients to the servers of the ten protocols: they reach the receive
  handler and the Recorder, and change no state of a server that a property is about.
- Byte counters, histograms and percentiles: every method of the histogram is one
  critical section around an external library.
- Setting up and unmapping io_uring, and its `Close` against a call under way; without
  a ring it is the epoll broadcaster. Replacing a writer by another one of the same ID.
- A bench run whose `Start` fails: what it leaves running is owned by nobody.
- The pool of encode buffers and `Checksum`, which nothing calls. The tick codec: a
  fixed layout without a length, a limit or an error.
- Generators: random bytes, and one counter that is only added to atomically.
- Result collectors: a slice behind a lock, and SQL. Network emulation: calls of `tc`.
- The live UI: it offers events to a buffered channel per browser and drops what does
  not fit, under one lock; nothing is promised about what a browser sees.
- Formatting, reports, certificates, command lines, tables of scenarios, and the
  samples that the resource sampler takes from the operating system.

The hazards of the code, with the properties that cover each, are in `PROJECT.json`.
