# Verification of the Actr runtime

TLA+ models of the runtime that hosts one Actr actor (`src/core/hyper`,
`src/core/runtime-mailbox`), checked with TLC on small instances and proved with
TLAPS where a proof is within reach. Paths below are relative to `src/`.

## 1. The system

An Actr *node* hosts one actor. Peers reach it over WebRTC or WebSocket.

* **Inbound.** RPC envelopes take the State Path: a receive task of a gate stores the
  envelope in the SQLite **mailbox**; one **mailbox loop** takes batches from it; each
  record is **admitted** (ACL, **deduplication**, conflict key, **scheduler**); the
  scheduler starts the job, which calls the **actor runner**, the task that owns the
  workload; a **continuation** per record records the completion for duplicates, sends
  the reply and acks the row. Data chunks take the Fast Path: a receive task dispatches
  them to the worker of their **stream**.
* **Outbound.** A call goes through a **gate**, which registers it for its response and
  refuses it while the peer's connection is being recovered or closed; **peer
  transport** maps the peer to a **destination transport**, created by whoever needs it
  first; that sends on the best wire of a **wire pool**.
* **Connections.** The **signaling client** keeps one socket to the server, with a
  receiver task, a ping task and a reconnect manager. **Heartbeat**, **network events**
  and **credential renewal** (up to a new identity, the *hard rebind*) all drive it. The
  **WebRTC coordinator** creates, restarts and closes the sessions with peers and
  broadcasts events that the outbound gate listens to.

`actrix/` is the server side (signaling, identity, TURN); `cli/`, `bindings/` and
`tools/` surround the whole.

### 1.1 Inventory

| Part | State | Operations | What makes it hard | Module |
|---|---|---|---|---|
| dispatch scheduler `core/hyper/src/dispatch/scheduler.rs` | semaphore, intake channel, per-key queues, round robin, active keys, in-flight set, intake lock, cancel token | `submit`, `shutdown`, `Drop`, `run`, `enqueue`, `pump`, `start`, `on_complete`, `drop_queued` | submitters, shutdown and drop race the task; a lost wake-up; permits on every exit path; barrier against fairness | `DispatchScheduler` |
| deduplication `lifecycle/dedup.rs`, `node.rs` | entry per request id, watch channels | `check_or_mark`, `complete`, `evict_expired`, `wait_for_inflight_duplicate` | retries before, during, after the handler; TTL edges; a handler that hangs | `Dedup` |
| mailbox `core/runtime-mailbox/src/sqlite.rs`, watchdog in `node.rs` | messages table, dead letter table, edge flag | `enqueue`, `dequeue`, `ack`, `fire_if_rising` | equal timestamps, batch limits, statements failing half way, overtaking reports | `Mailbox`, `Backpressure` |
| State Path `node.rs`, `actr_ref.rs` | loop position, batch, admission gate, continuations, stop coordinator | mailbox loop, `admit_incoming`, `mailbox_reply_and_ack`, `spawn_workload_stop_task`, `wait_for_shutdown` | shutdown against batch admission, forced aborts, crash between any two steps | `InboundPath` |
| actor runner `executor.rs` | command channel, barrier slot, dispatches in flight, intake lock | `call_*`, `run_loop`, `run_loop_interleaved`, `stop_intake`, `shutdown`, `abort` | panics, deadlines and lost callers in the middle of guest code | `ActorRunner` |
| data chunk streams `inbound/data_chunk_registry.rs` | callback, worker and generation of a stream, its queue | `register`, `unregister`, `dispatch`, `clear`, `shutdown` | a drained worker against its successor; back-pressure across an unregistration | `DataChunkRegistry` |
| wire pool, destination transport `transport/{wire_pool,dest_transport}.rs` | status per wire, ready watch, closed flag | `add_connection`, `mark_connection_closed*`, `send`, `close_all` | slots and watch are written in two steps; connects ending after close; stale wires | `WirePool` |
| peer transport `transport/peer_transport.rs` | Connecting/Connected map, cancel tokens, closing peers, monitors | `get_or_create_transport`, `close_transport*`, `close_all` | waiters and creators, close during creation, deadlines in the middle | `PeerTransport` |
| outbound gates `outbound/{peer_gate,host_gate}.rs`, `transport/correlation.rs`, `wire/webrtc/{coordinator,connection}.rs` as they use it | pending requests, closing and recovering peers, session of the peer | `send_request`, preflight, event listener, `begin_network_recovery` | late, lost and stale events; a response racing a deadline and a sweep | `OutboundGates` |
| signaling client `wire/webrtc/signaling.rs` | connected, connecting, suppressed, generation, socket halves, tasks | `connect_once`, `disconnect`, `probe_alive`, reconnect manager | reconnect against explicit disconnect; tasks of an old socket | `Signaling` |
| session, credentials, heartbeat, network events `lifecycle/{session_state,credential_manager,heartbeat,network_event}.rs` | phase, generation, renewing flag | renew, hard rebind, reconnect, recovery actions | four tasks drive one client | `Session` |
| conflict keys `dispatch/conflict_key.rs` | compiled rules | key derivation | pure function | |
| WebSocket wires, lanes, media registry | channels | framing | I/O | |
| hosts of guest code `wasm/`, `dynclib/` | engine store | ABI calls | engine-specific | |
| servers `actrix/crates/*` | registries, key and nonce tables | request handlers | mostly SQL statements | |
| `cli/`, `bindings/`, `tools/`, `core/{config,pack,protocol,service-compat}` | files | parsing, generation | not concurrent | |

What must be true, in the order of importance given to it here:

1. A message is not acknowledged unhandled; an ordered shutdown loses nothing.
2. Handlers of one conflict key run one at a time in arrival order; a Serial one
   runs alone; `on_stop` is last; chunks of one stream are handled in order.
3. A retry never re-enters its own handler, and is answered with its own result.
4. No bounded resource (slot, queue place, dedup marker, batch guard, pending entry,
   connection attempt) leaks.
5. Nothing waits for ever: submissions, duplicates, calls, stored messages,
   sends, shutdown.
6. After a panic or a deadline an interleaved actor's state is not touched again.
7. What is late about an old wire, transport, session or identity does not hit its
   successor; what was closed on purpose does not come back by itself.

The hazards at their lines, with the properties that would catch them, are in
`PROJECT.json`.

## 2. Modules

| Module | Models | Built on |
|---|---|---|
| `KeyedDispatch` | what the scheduler promises, from its module documentation | |
| `DispatchScheduler` | `scheduler.rs`, one action per await-free stretch of code | refines `KeyedDispatch` |
| `Dedup` | `DedupState` and its users in `admit_incoming` | |
| `Mailbox` | the messages table; each operation is atomic under the connection mutex | |
| `Backpressure` | several enqueuing tasks, depth reports, the watchdog | `Mailbox` |
| `InboundPath` | mailbox loop, admission, continuations, shutdown, aborts, restart | `Mailbox`, `KeyedDispatch` |
| `ActorRunner` | both command loops and the handle | |
| `DataChunkRegistry` | one stream: receive tasks, workers, registrations, shutdown | |
| `WirePool` | one destination: connection tasks, slots and watch, senders, closers | |
| `PeerTransport` | one destination's entry, its creators, waiters, monitors and closers | |
| `Signaling` | the signaling client, its sockets and its reconnect manager | |
| `Session` | the tasks that drive the client, phase and generation | `Signaling` |
| `OutboundGates` | requests, their registrations, sessions of one peer and the event listener | |
| `AdmissionProofs` | what each step of `InboundPath` does, `AdmissionInv` | |
| `StatePathProofs` | the other theorems about `InboundPath` | `AdmissionProofs` |
| `HandlerProofs` | theorems about `ActorRunner`, `Dedup` and `Backpressure` | |
| `TransportProofs` | theorems about `PeerTransport` and `WirePool` | |
| other `*Proofs` | theorems about the module of the name | |
| `MC*` | constants and symmetry for TLC | |

Definitions keep the names of the functions they translate where the code has one. The
state machines of `Dedup`, `Backpressure` and `WirePool` have names of their own
(`DedupInit`, `WatchNext`, `PoolSpec`...), so that one proof module can extend two components.
Operators whose comment begins with "Mutant" are deliberately wrong variants of the
definition that follows them. They are not part of any specification: substituting
one for its original must make a property fail.

### DispatchScheduler

`phase[j]` follows a job from the caller through `submit` (`waiting` for a slot,
`sending`), the channel (`sent`), its key's queue (`queued`), the in-flight set
(`running`) to `done`, `rejected` (scheduler closed) or `dropped` (task ended under
it). `pc` is the position of the task. `shut` and `handle` are the progress of
`shutdown` and the life of the handle. `before` is a history variable: the jobs
outstanding when a job was sent. `tokio::select!` is `biased`, but a branch may
become ready between two polls, so any ready branch may be next. The lock is
write-preferring: a queued `shutdown` keeps new readers out. `spawn`'s
normalisation of both sizes is part of the model. The dispatch body is the
environment: `Complete(j)` is its end, the reply and the return of the permit.

### Dedup

Deliveries are arrivals of envelopes; several may share a request id. Instants are
ages that stop growing at the TTL, the only value the code compares them with, so
time is unbounded. A run's result is its number, which makes "answered with the
result of its own run" a statement about numbers. The TTL is measured from
`received_at`, as in the code. An entry of one request id is a tell or a request,
never both: retries repeat the envelope.

### Mailbox and Backpressure

`created_at` may be equal for two rows, and rows with equal sort keys come out in
any order. The wall clock is assumed not to step back; RFC 3339 texts in UTC sort
like the instants they denote. `dequeue` selects, marks and sorts; `ack` deletes.
`enqueue` counts under the mutex and reports after releasing it, hence two steps.

### InboundPath

`loop` is the position of the mailbox loop, `cont[m]` that of a record's
continuation, which moves only where the loop polls its `FuturesUnordered` (or,
without a scheduler, awaits it inline). `gate` is the batch admission lock that the
stop coordinator (`stop`) takes for writing. A dead-letter write and an ack may fail.
`AbortStop` and `AbortLoop` are the 5 s limits of `wait_for_shutdown`. `Restart` is
a crash at any point: only the tables survive. The scheduler appears as its promise,
`KeyedDispatch`, with the slot limit added; that the scheduler keeps the promise is
proved (section 5). Dedup appears with time abstracted: a completed entry may expire
and a waiting duplicate give up at any moment.

Left out: envelopes whose caller id does not decode (a request is then not
answered); the early returns for a missing identity or credential, which start-up
excludes; the in-process lane; errors in converting a row.

### ActorRunner

`pc[c]` follows a command from its caller through the channel to guest code.
`barrier` is the command that waits for the dispatches in flight, and in the serial
loop the one command that runs. `OnStop` and `Shutdown` are the commands of the stop
coordinator. Guest code may succeed, panic, exceed its deadline (interleaved
dispatches only), or lose its caller. `Abort` may come at any time; the stop
coordinator may still go on after it, which is more than the code does. When every
handle is dropped, `Drop` aborts the task, so the end of the loop on a closed channel
adds no behaviour. An interleaved loop answers hooks and data chunks without guest
code.

### DataChunkRegistry

One stream; streams share only the shutdown flag. `cb` and `wk` are the entry's
callback and worker, `wst[g]` the worker of generation `g`, `use` and `cap` what a
receive task captured under the map lock and uses after it. A reliable dispatcher waits
for a place in the queue, a latency-first one drops the chunk. `since`, `ran` and `lost`
are history: the oldest callback a chunk may be given to, the callbacks started, the
chunks that were not accepted. `shutdown` may be dropped at its await, which aborts the
workers it took.

### WirePool

`slot` and `watch` are separate because the code writes the slot under the lock and
broadcasts the watch after it; every property of the module is about that gap. `wire`
is the connection itself. It may die at any time and be noticed late. A sender is
inside `send_with_identity`: it samples the watch, looks for a lane, sends, retries once
with a new lane, evicts a wire that is gone and marks the sample unseen. A WebSocket
wire whose lane fails with another error is not evicted, and the send goes back to
waiting; `SendSettles` exempts that case. `smart_reconnect` is the health checker's.
A connect that ends after `close_all` leaves an open wire that no slot holds.

### PeerTransport

`map` and `token` are written under two locks, so each is a step. An attempt
that sees its token cancelled closes what it built. After its last look at the token
it publishes without another check (`peer_transport.rs:344`): a close in between is
undone, and a transport published meanwhile by a second attempt is replaced while it is
open. Waiters subscribe
after they looked (`peer_transport.rs:209`); the wake-up that falls between is lost and
the deadline of the call ends the wait. `close_transport_if_webrtc_session` compares and
closes in two steps. A request whose deadline passes starts a clean-up of its own; a
tell or a stream send does not. `MCPeerTransportTell.cfg` shows that a tell whose budget
ends during the attempt leaves the destination Connecting with nobody at work, so
later callers wait for their deadline. The assumption `Expires \subseteq Request` of the
theorem `ConnectingIsOwned` is therefore needed.

### Signaling and Session

`Signaling` has the client's operations and tasks, `Session` the four tasks that call
them and the complete next-state relation. `pc[t]` is the place inside the client,
`stage[t]` the place in the task's own code. A socket is dialled with an identity
(`who`). Merged into one step: the swap of the tasks with their abort, a ping round
under the sink lock, the installation of the stream with `connected` and the lifted
suppression, publication of an event (the hook only enqueues), and the start of
receiver and ping with the release of the flag. Time-outs of waits may come at any time
and stand for a missed `notify_waiters`.

The model shows these behaviours, which the properties are stated around: a receiver
that was detached clears `connected` of the next socket when it ends; the sink is
replaced without a close; the manager may pass its last check and be undone just after
it (the exceptions in `StaysDown`); a reconnect of the heartbeat during a rebind keeps
the old identity (`crossed`, which is about the last rebind); `trigger_renewal` ignores `RealmUnavailable`. Which actions
a batch of network events is folded into is reduced to the set of actions that may
follow.

### OutboundGates

One peer, because the records of different peers are independent. Sessions are
numbered in the order of their creation, and one is inserted only when none is present.
The coordinator's side is `cur`, `conn`, `restart`, `guard` and `marking` (the session
that `begin_network_recovery` read under one lock and is about to mark under another);
the gate's side is `rec`, `closing`, `pending` and the listener `lis`, which takes an
event from `evs`, may lag and then loses the oldest, and handles each in several steps.
`lis.stale` says that the closed session is not the transport's. The coordinator's own
look at the event stream may come at any time, and a session counts as "up once" from
the moment it left `new`: both allow more than the code does. A response's removal from
the map and its `oneshot` send are one step. A wire may report an error for what it
delivered, so a response can meet a request that is about to take its entry back. The
requests of the in-process transport share the calls but none of the peer's records:
their entry goes with the guard object of `correlation.rs`.

What the model shows without it being a property: a sweep fails every pending request
to the peer, also one that travels over WebSocket or is being sent on a newer session;
the deadline of `HostGate::send_request` covers the wait and not the send on the lane; a
close that is handled after the pool dropped the wire is stale, and its requests wait
for their deadline; the entry of a caller that was dropped stays in `pending_requests`.

Left out: tells and stream sends, which register nothing; notices of uncertain stream
chunks; `wait_cleanup_complete`; media; `fail_where` and `complete_from_envelope`, which
only tests call.

## 3. Runs

The comment above each property in its module says what it means.

| Run | Instance | Distinct states | Question |
|---|---|---|---|
| `scheduler` | 3 recurring jobs, 2 scoped keys and Serial, C = 2, M = 2 | 78,438 | refinement of `KeyedDispatch`, lost wake-ups, slots, lossless drain; every submission is answered, Serial is not starved, shutdown ends |
| `dedup` | 3 deliveries, 2 ids, TTL 2, two timeouts | 495,640 | no re-entry, exact markers, own answers, runs a TTL apart, duplicates answered |
| `mailbox_order` | 4 messages, 2 priorities, batches of 2 | 5,020,957 | FIFO per priority across batches, High first, first overload signalled |
| `inbound` | 2 messages of every kind, both modes, aborts, 1 restart | 3,966,772 | acks are justified, one run per request, arrival order |
| `inbound_liveness` | 2 requests, caps of 1 | 165,648 | stored messages are processed, shutdown ends |
| `inbound_crash` | 1 request, 1 restart | | **violated**, see below |
| `runner` | 2 commands, channel of 1, both modes | 32,687 | barriers run alone, lossless stop, fail closed, shutdown ends |
| `wire_pool` | 2 wire types, WebRTC rebuilt once, 1 sender, 1 closer | 390,297 | no wire is missed, evictions hit dead wires, a send settles |
| `transport` | a request, a tell, a `close_all`, 2 attempts | 1,627,650 | what is mapped is open, owned and watched; guarded removals |
| `streams` | a reliable and a latency-first task, 2 chunks each, queue of 1, 2 registrations | 353,204 | one worker, order, accepted chunks delivered, fresh callback, no orphan, dispatch returns |
| `session` | 3 tasks and the manager, 2 sockets, 1 fault, 2 calls | 5,444,379 | disconnects last, a rebind is clean, no socket is replaced |
| `outbound` | 1 request through either gate, 2 sessions, 3 changes, 2 events before the listener | 6,706,904 | registrations are exact, stale closes and events are harmless |

Why the bounds suffice for the questions: three jobs over two keys and Serial with C = 2
and M = 2 give two running, or one running and one held back by its key or by the
barrier, while the third waits for a slot, and each comes back. That the budget holds
when more is admitted than may run is proved (section 5). Three deliveries give an
original, a duplicate in flight and one after an eviction. Four messages in batches of
two give a split of equal priorities over batches. Two messages are an original and its
retry, or two of one key. A channel or queue of one place makes senders wait. Two wires,
transports, registrations, sockets or sessions are an old one and its successor, which
is what every stale-event question needs; theorems remove the bound for most of them.
Two calls of the signaling client are a rebind against a reconnect. Three changes let a
session come up, fail and close. Symmetry is used in safety runs only.

Deadlock checking is off where the system may really stop: after shutdown, after all
jobs, messages or calls of the instance are used up.

Some properties are not in a run because a theorem states them for every instance:
`FifoPerKey`, `AdmissionBarrier` and the inductive invariant of the scheduler,
`OnStopLast` of the runner, `ReadyExact` of the wire pool and `OneConnector` of the
signaling client.

### Where code and comments disagree

The run `inbound_crash` shows the first. The others are instances kept beside the runs;
each configuration checks the one property named, and TLC answers with a trace.

* `inbound_crash`, `AtLeastOnce`: the "at-least-once" mailbox never hands out again what
  was `Inflight` when the process died.
* `MCDispatchSchedulerStarve.cfg`, `NoKeyStarves`: the module documentation promises that
  "no key starves"; `pump` serves a Serial queue that is refilled before it empties
  without end, and scoped keys wait for ever.
* `MCDedupLate.cfg`, `CachedForTtl`: "caching the response ... for a fixed TTL" is measured
  from the arrival, so the response of a handler slower than the TTL is evicted by the
  next delivery and a retry re-runs it.
* `MCBackpressureHook.cfg`, `HookOncePerCrossing`: the hook is to fire "once per rising-edge
  crossing"; overtaking reports make it fire twice for one, and a fall between two
  enqueues goes unseen.
* `MCPeerTransportTell.cfg`, `ConnectingHasOwner` with a tell that meets its deadline: the
  destination stays Connecting (section 2).
* `MCSessionRebinding.cfg`, `RebindingEnds`: when the connect that ends a rebind fails after
  the commit, signaling comes back through the manager and the session stays
  `Rebinding`; `set_active` is documented as the "Transition back to `Active` after
  signaling reconnect succeeds" (`session_state.rs:200`).
* `MCOutboundGatesGuard.cfg`, `GuardKept`: the session stored in the guard "keeps late events
  from older sessions from unblocking a newer recovery" (`peer_gate.rs:79`).
  `begin_network_recovery` may announce a session that was replaced since it looked; the
  gate takes it over, and the next preflight drops it.
* `MCOutboundGatesBlocked.cfg`, `BlockEnds`: `closing_peers` is to "Block new requests to peers
  being cleaned up" (`peer_gate.rs:63`). A close that is handled while an attempt to
  connect runs leaves the peer there after its guard is gone. Every later request is
  refused at the door until the remote side brings a session up.

## 4. Fairness

* Scheduler: the executor polls a task that can go on (weak fairness of the task's
  steps and of senders). `tokio`'s semaphore is FIFO and `FuturesUnordered` polls in
  wake order, so a waiter or a completed dispatch is not passed over for ever (strong
  fairness of `SubmitAcquire` and `Complete`). Dispatches end. Callers need not submit
  and nobody needs to shut down.
* Dedup: timers fire; handlers need not return. `DuplicatesAnswered` holds without it.
* State Path: the tasks run, handlers return, `dequeue` does not fail for ever;
  continuations are polled each time the loop comes back to its select (strong
  fairness). Arrivals, expiry, shutdown, aborts and crashes are not assumed.
* Runner: the loop and the callers are polled, guest code ends; the channel is FIFO
  for waiting senders (strong fairness of `Send`).
* Wire pool: connection tasks, sends and closes in progress are polled. Nobody has to
  send, close or check the health, and wires need not come up.
* Streams: receive tasks and workers are polled and callbacks return. Nobody has to
  register, unregister or shut down.
* Peer transport, session and outbound gates state safety only and have no fairness.
  Their waits end by deadlines and timers that the models let expire at any time.

## 5. Proofs

All theorems hold for every value of the constants under the named `ASSUME`s, which
only fix types, the finiteness of the sets of jobs and messages, that the distinguished
values differ and that the roles of tasks are disjoint.

**Scheduler.** `FifoPerKey` is not inductive: it needs to know where each job is.
`Placement` ties every job's phase to exactly one place in channel, queues or
in-flight set; `AdmissionOrder` says that channel and queues are sorted by admission
and that what is in the channel came after what left it; `ReadyExact` characterises
the round robin; `Lifecycle` relates token, lock and task; `PumpSettled` says why the
last `pump` stopped. Together with the properties they are `SchedulerInv`, which
`InvariantCorrect` proves. The order part (`Core`) is proved first, one lemma per kind of
step, then the admission barrier, then budget and drain on top. `NoLostWakeup` follows
from `SchedulerInv`; `PermitsConserved` is a separate induction with finite
cardinalities.

**Refinement.** `SchedulerRefines`, at the end of `DispatchSchedulerProofs`: under the mapping of phases to stages each step of
`DispatchScheduler` is a step of `KeyedDispatch` or leaves its state alone.
`SubmitSend` is an admission, `Recv` and `Drain` accept, the pump steps start (FIFO,
barrier and budget from `SchedulerInv`), `Complete` finishes, and only after the handle
was dropped does the end of the task discard jobs. This is what lets `InboundPath` use
`KeyedDispatch`.

**State Path.** `PathInv` has six parts, and each property needs several. `BatchExact`: a record
that was not admitted yet has left no trace. `Placed`: continuation, job and handler of a
record are where each other's place says. `Marked`: an entry in flight belongs to one
record, from `check_or_mark` to `complete`. These three are `AdmissionInv`, which is inductive
without the others and through restarts and forced aborts (`AdmissionCorrect`);
`OneRunPerRequest` is a consequence.
`Justified`: results, those of continuations and the cached ones, are true, so that the
ack that follows has its reason. Alone it is not inductive: a job that the scheduler
discarded would resolve as "terminated". `Ordered` excludes that for a shutdown that
nobody cuts short: no batch is under admission once the scheduler is closed, and no job
is left when the runner closes. Together they give `AcksJustified`, restarts and forced
aborts included. `ArrivalOrder`: what came in earlier is not behind in the table, the rest
of the batch or the scheduler's queues; `HandlersKeepArrivalOrder` follows from it at the two
steps that start a handler. The proof describes each action once (the lemmas `...Does`: what
the step does to the records it touches, and that it leaves the others alone) and then
takes the parts one at a time, one step per action.

**Mailbox.** `HandedFirst` makes `FifoPerPriority` inductive: what is still queued came in no
earlier than anything of its priority that was handed out. `CrossingKnown` does it for
`FirstOverloadSignalled`: a crossing was signalled, or a report that will signal it is under
way, or its enqueue failed to count.

**Dedup.** `DedupInv` adds `RunBookkeeping`: an entry's age is the time since its run
started, cached and delivered values come from the last run, and a waiter's run is the
last one. `RunsSpacedCorrect` then follows from the first of these.

**Runner.** `RunnerInv` adds `ChannelExact`, `BarrierExact`, `StopOrder` and `EndExact`.
`StopOrder` carries the argument: nobody is sending once `on_stop` is sent, and
nothing but `Shutdown` is behind it in the channel.

**Wire pool.** `NoMissedWire` compares a sender's sample with the slots, two writes
apart. `PoolInv` adds `ReadyExact` (watch and slots differ only while a writer still has
to broadcast), `SampleLatest` (a sample that is still the latest equals the watch),
`TaskWires` (a task has brought its wire up before it writes the slot) and `HeldWires` (what
slots, senders and closers hold has been up, and what a sender is about to evict is down
for good). From the last, an eviction fails only the slot of a dead wire
(`EvictionHitsDead`).

**Peer transport.** `MappedIsOpen` needs to know which attempt may still publish:
`AttemptInv` says where the creator of each attempt is and that the attempts are
distinct, `MappedInv` that a mapped transport has a monitor and no closer that took it.
`OwnerInv` on top gives `ConnectingIsOwned`: the owner of a Connecting entry is its
creator, a closer, or the clean-up that its request will start.

**Streams.** `RegistryInv` says that every worker that may still run is the entry's or the
one whose handle shutdown or clear took, that it has not set its flag, and that
generations above `spawned` are unborn. `SingleWorker` and `NoOrphans` follow. `StreamInv` adds
what is inside the queues. `Freshness`: a callback is captured after the dispatch began.
`Ordered`: a queue holds what its receive task sent, in order, and a worker serves a queue of
chunks that are younger than those that have run. `Counted`: each worker has used up a
registration, and senders belong to workers that exist. `Served`: until the shutdown a
worker with a sender serves its queue. `FreshCallback`, `FifoPerStream` and `AcceptedDelivered`
follow.

**Session.** `SessionInv`: the connecting flag is held by exactly one task, whoever holds it
before it installs its stream finds the client down, and the manager is outside the
client between attempts. The first two give `NoReplace`, all three `StaysDown`. `RebindInv`
carries `RebindClean` through the several steps of a hard rebind. `KeptDown`: while the
suppression of its disconnect stands, whoever dials is a reconnect of an older
generation, which will find itself cancelled and bring the client down again.
`AllCurrent`: once the rebind has connected, every socket that is read, held or installed
was dialled with the new identity, that reconnect apart. `crossed` records that another
task lifted the suppression in between; then nothing is claimed.

**Outbound gates.** `GateInv` has two halves that hardly touch. For the requests, `Unsent`
adds to `PendingExact` that nobody answers a request that has not registered; then each
step changes one request and the sweep answers all registered ones. For the sessions,
`OrderInv` says that sessions are created in order, that the peer's session, the one about
to be marked and the guarded one are *known* (created, and not later than the peer's), and
that every event in the channel is true: a close is of a closed session, a recovery of a
known one. `ListenerInv` carries that into the several steps in which the listener handles
an event. All steps but those of the listener and the creation of a session are `Calm`,
and calm steps keep both. A stale close then never reaches the sweep, because a wire to a
closed session is never made, and what the listener remembers is not older than what it
guards, because only events of the peer's session get that far. The start of a recovery is
the exception in `GuardNotOlder`, and `GuardKept` (section 3) shows that it is needed.

Only model-checked: all liveness, because fairness and ENABLED are outside the prover's
reach. Every safety property of a passing run is also a theorem.

## 6. Not modelled, and the plan

Pure functions, parsing, code generation, user interface, engines and protocol
libraries are left out (reasons per part in `PROJECT.json`). The repository is large
and most of it is of these kinds: servers over SQL, bindings, generators and tests. The
models cover the concurrent core of the node. Of that core the following is still open,
in the order in which it is planned:

1. **Negotiation in the WebRTC coordinator**: offers and answers that cross, roles, ICE
   restarts with their retries and the messages of an old session. `OutboundGates` has
   only what the gate can see of it. Two peers over a network that reorders.
2. **Network events**: how a settle window is folded into the strongest action and how
   older snapshots lose (`connection_supervisor.rs`), as operators against a reference
   definition.
3. **Activity of outbound chunk streams** (`data_chunk_activity.rs`): which streams are told
   that delivery is uncertain when a session ends.
4. **Composition of `OutboundGates` with `PeerTransport` and `WirePool`**: today the gate
   module reduces the transport to four states. A refinement of that reduction by
   `PeerTransport` would justify it the way `KeyedDispatch` is justified.
5. **Conflict keys**: derivation against a reference definition over small inputs.
6. **The signaling server** (`actrix/crates/signaling`): client registry, relay and presence.
