# grpcq, specified and checked

grpcq carries gRPC-style calls over message queues. A *producer* turns a call
into a message and gives it to a *queue adapter*; a *worker* leases messages
from the adapter, runs the handler that a *registry* holds for the topic and
action, and settles each message with an ack or a nack. The same design exists
three times, in Go (`go/`), Rust (`rust/src/`) and TypeScript
(`typescript/src/`), and the three differ exactly where it is hard: goroutines
with a semaphore and a WaitGroup, futures of one task that move only while
somebody polls them, and continuations of an event loop.

This directory holds TLA+ modules for the workers, the worker pools and the
in-memory queues of the three runtimes and, for Go, for the whole way of a call:
clients, producer, HTTP endpoint, SQS, registry, server and the application
around it; TLC configurations that check them on small instances; and TLAPS
proofs of their safety properties for instances of every size. `PROJECT.json` lists the
components, the runs, which source lines each definition stands for (`map`),
for every property a faulty form of the code that breaks it (`mutants`), the
hazards of the code and the disagreements between code and comments that the
models show (`findings`).

    tlc -workers 2 -config MCGoWorker.cfg MCGoWorker     # any run: see "Runs"
    tlapm GoWorker_proofs.tla                            # any *_proofs module

## 1. Inventory

| Part | Source | State it keeps | Operations | What makes it correct |
|---|---|---|---|---|
| Go Worker | `go/core/worker.go` 1-178 | position of the Start loop, batch in hand, semaphore, WaitGroup, `stopCh`, `done`, `startErr` | Start, Stop | never more handlers than `Concurrency`; Stop returns, and only after the drain; a message is in one place; a failed one is retried |
| Go WorkerPool | `go/core/worker.go` 180-261 | derived context, runner goroutines, listener, `errCh`, `doneCh` | Start, Stop | one failure stops all; every branch drains; a healthy stop is no error |
| Go in-memory adapter | `go/adapters/memory/adapter.go` | mutex, channel per queue, flags of each receipt | Publish, Consume, Ack, Nack, Clear, QueueDepth | all-or-nothing publish, one delivery at a time, Clear final |
| Go HTTP adapter | `go/adapters/memory/http_adapter.go` | none of its own; requests on the wire | `RemoteAdapter.Publish`, the handler of `NewPublishHandler` | an answer is true; the queue is the one the caller named; a call returns |
| Go SQS adapter | `go/adapters/sqs/adapter.go` | client and queue URLs; a receipt handle per message | Publish in chunks of ten, Consume, Ack, Nack | success means all sent; nothing is deleted unhandled; repeats only after an expired lease |
| Rust / TypeScript SQS adapters | `rust/src/adapters/sqs.rs`, `typescript/src/adapters/sqs.ts` | client; receipt state | as in Go | as in Go |
| Rust Worker | `rust/src/core.rs` 337-545, 654-711 | `in_flight` futures, tokens, state, done signal | start, stop | as in Go, with handlers that move only when polled |
| Rust WorkerPool | `rust/src/core.rs` 547-652 | `tasks`, stop token, worker states | start, stop | stop is final; start returns when all ended |
| Rust CancellationToken, Signal | `rust/src/signal.rs`, `core.rs` | a flag and its listeners | set, wait | no wake-up is lost |
| Rust in-memory adapter | `rust/src/adapters/memory.rs` | locked deques, receipt state | publish, consume, ack, nack, clear | as in Go, one lock per operation |
| TypeScript Worker | `typescript/src/worker.ts` 1-207 | InFlightPool with its single waiter, abort controllers | start, stop | as in Go; no lost wake-up |
| TypeScript WorkerPool | `typescript/src/worker.ts` 210-280 | combined signal, result | start, stop | one failure stops all |
| TypeScript in-memory adapter | `typescript/src/adapters/memory.ts` | arrays per queue | publish, consume, ack, nack, clear | as in Rust |
| Go Registry | `go/core/registry.go` | handlers by topic and action, a read-write lock | Register, Handle | no handler runs after its replacement has returned; Register is not starved |
| Rust / TypeScript registries | `core.rs`, `registry.ts` | handlers by topic and action | register, handle | - |
| Go Producer | `go/core/producer.go` | none | Send, SendBatch | nothing is published unless all of it is valid |
| Go clients | `go/grpcq/client.go`, `go/grpc/client.go` | options | `Client.Invoke`, `AsyncClientConn.Invoke` | the message carries the service and method of the call |
| Go Server | `go/grpcq/server.go`, wrappers in `go/grpc/server.go` | context and its cancel, worker, registry | Start, Stop, RegisterMethod | acked means served; shutdown drains |
| Go example application | `go/examples/userservice` | main's select, HTTP server, result channels | runAsyncServer, runDemo, runAsyncClient | exits when told to, and only drained |
| Rust / TypeScript producers, servers, clients | `core.rs`, `server.rs`, `client.rs`, `producer.ts`, `server.ts`, `client.ts` | the running worker | send, start, stop, invoke | - |
| TypeScript codec | `typescript/src/message.ts` | none | encode, decode | decode after encode is the identity |
| Code generators | `cmd/protoc-gen-grpcq`, `rust/grpcq-build` | none | print source text | - |

How they interact. Producer -> adapter `Publish`; worker -> adapter `Consume`,
which returns items with receipts; worker -> registry -> handler; worker ->
receipt `Ack` or `Nack`; the `Nack` of the in-memory adapters appends to the
queue and drops the message when the queue is full. A pool starts its workers
under a context (Go), a token (Rust) or a signal (TypeScript) that it derives
from the caller's, and passes stops and errors on. All workers of a pool share
one queue.

What is hard. Shutdown in the middle of anything: between two receives of
Consume, between two items of a batch, between an ack and the release of its
slot, while the worker waits for a slot, for a timer or for another worker.
Two signals that are ready together, of which a select takes either. A capacity
counted under a lock and used after somebody without the lock has filled the
queue. Futures that nobody polls. A request that takes effect though its answer
is lost, or that arrives after its sender has given up. A lease that ends while
the handler still runs, a delete that fails after the handler succeeded, a
process that dies in between. A handler replaced while messages are being
served. The list, with lines, is `hazards` in
`PROJECT.json`.

## 2. Modules and how they correspond to the code

Three modules are abstract specifications, each of a promise that several parts
of the code make together. `Delivery` is the life of one message (`unsent`,
`queued`, `leased`, `running`, `succeeded` or `failed`, `acked` or `lost`),
whoever holds it. Its actions are what the interfaces of `go/core/types.go`
promise: `Publish`, `Lease`, `Begin`, `Finish`, `Ack` only after a success,
`Nack` only after a failure, and `Abandon`, which loses leased messages and only
after a shutdown signal.

`Custody` is the contract between any worker and an in-memory queue, for all
three runtimes: who has a message (nobody yet, the queue, a worker, or nobody any more
because it is acked or lost), with the capacity of the queue. A message leaves
the queue for one worker only, and is lost only if it is given back to a full
queue or in a shutdown. It is coarser than `Delivery`, which lets nobody abandon a
message whose handler runs: a cancelled Rust worker does that.

`AtLeastOnce` is what is left of both on SQS, where a lease may run out and a
handle go stale: a message is removed only after a success, for good, and
until a lease of it has run out it is handled with success at most once, under
the lease, and is not given back after that. The refinement mappings
(`ImplementsDelivery`, `ImplementsCustody`, `ImplementsAtLeastOnce`) are at the end of
the modules that implement them.

**Go.** A step is the code between two points where another goroutine can
interfere.

- `GoWorker`: any number of workers on one queue. `pc[w]` is the position of
  `Start`: `top` (the select at the head of the loop), `consume`, `poll`
  (`waitForNextPoll`), `dispatch` (the select before each item), `drain` (the
  deferred `wg.Wait`), `done`. Each select has one action per case
  (`TopCancelled`, `TopStopped`, `TopDefault`, ...), so several cases that are
  ready are a nondeterministic choice, as in Go; a `default` case is guarded by
  the absence of the others. The goroutine of a message goes `running`,
  `succeeded`/`failed`, (`Ack`, `Nack`, `NackOverflow`), then `ReleaseSlot`, then
  `WgDone`: the order in which the deferred calls run. `releasing` and `exiting`
  count the goroutines between these last steps. `lost` collects the messages
  that left the queue and that nobody will settle: items of a batch dropped by
  a shutdown, messages that a cancelled Consume had received, requeues into a full channel.
  `ConsumeFails` is an adapter that returns an error (the SQS one can).
- `GoPool` extends it with the goroutines of `WorkerPool.Start`: one runner per
  worker, the listener, the closer of `doneCh`, the final select with its three
  branches, and `Stop`. Cancelling the parent reaches the derived context a
  moment later (`PropagateCancel`).
- `GoMemory` opens the adapter: the mutex, the channel, and the receipts, with
  publishers, consumers and `Clear` in between each other. `Clear` replaces the channel, so channels
  have generations; a receipt remembers the one it came from, as the closure
  `requeue` does. A message is nacked, acked or nacked again in any order.

- `GoPublish` puts the callers in front of `GoMemory`. `request[p]` is what a
  caller asks for: a stub over `AsyncClientConn` (a method path), a call of
  `Client.Invoke` (whose options may name another queue) or a batch
  (topics and actions), a queue, and
  whether the adapter is local or remote. `Accepted` is every test of
  `Invoke`, `Send` and `SendBatch`; names are sequences of tokens, so that
  `parseMethodName`, `validateQueueName`, `url.PathEscape` and the two
  unescapings of the path can be modelled by what they do. `client[p]` is the
  call as its caller sees it (`ok`, `error`, `unknown` after `client.Do`
  failed), `wire[p]` the HTTP request, which may be lost or arrive at any later
  time, `pub[p]` the call of `Adapter.Publish` behind it.
- `GoSqs` runs the loop, slots and goroutines of `GoWorker` on SQS. The
  `Messages` of the worker are here receipts, a body with one of its handles.
  `store[b]` is what SQS, which is external, has of a body: `absent`,
  `visible`, `leased` or `deleted`. Requests fail (`PublishBatchFails`,
  `ReceiveFails`, `AckFails`, `NackFails`) or take effect though the caller sees
  an error (a subset of a chunk is stored, leases are taken by an answer that
  is lost; a delete whose answer is lost is `AckApplied`, since the worker only
  logs the error). `ReceiveGarbled` is a batch with a body that does not
  decode. `Expire` ends a lease, also of a message in a goroutine; `Crash`
  takes the process down and allows a restart.
- `GoRegistry` is the read-write lock of the registry: `readers`, and the one
  waiting writer (`pending`), which keeps later readers out as `sync.RWMutex`
  does.
- `GoServer` composes `GoWorker` and `GoRegistry` (a handler's return is a step of
  both) with `Server.Start`, `Stop` and `RegisterMethod`, the wrapped handlers
  (lookup, unmarshalling, and the tests that `invokeUnaryMethod` makes by
  reflection: `Callable`) and the main goroutine of the example:
  its select over signal, HTTP error, timer and result, `Stop`, the wait for
  the result, the shutdown of the HTTP server, the exit. `cancelSet` is
  `s.cancel != nil`.

**Rust.** `RustWorker` has one task per worker. The loop of `run` is the
actions `Top*`, `Consume*`, `Wait*`, `Push*`, `Drained`; the futures of
`in_flight` advance (`Handle`, `Ack`, `Nack`) only in the states in which `run`
polls them (`Polling`: it waits for a slot, for the timer or for the drain).
`Abort` is the `?` after `await_with_signals`: `run` returns and the futures in
`in_flight` are dropped with their messages (`dropped`). `RustPool` adds
`WorkerPool::start`: the workers are themselves futures of the task of the pool
and move only while it polls `tasks` (`Polled`); `SelectStop`, `SelectCancelled`
and `SelectError` await `stop_all` and poll nothing meanwhile.

**TypeScript.** In `TsWorker` one continuation runs at a time, from one await to
the next; `turn` names the loop that is in the middle of its synchronous
steps. `slotWait`, `itemWait` and `drainWait` await the single waiter of
InFlightPool, `race` is the `Promise.race` with the timer. The pool holds a
promise from `add` until its `finally` has run: `active[w]` has the messages
whose promise is pending, `settled[w]` counts the promises that have settled and
are still in the set. They are counted and not named by their message, because a
message that was nacked can be consumed and added again before its first promise
has left (`Ack` and `Nack` settle a promise, `Ended` takes one out and wakes the
waiter). `TsPool` adds the
combined signal, `Promise.allSettled` and `stop`.

**Proofs.** `SequenceFacts` (lemmas on sequences), `GoWorker_proofs`,
`GoPool_proofs`, `GoServer_proofs` (with the registry), `GoSqs_proofs`,
`GoPublish_proofs` (with the in-memory adapter), `RustPool_proofs` and
`TsPool_proofs` (each with its worker): section 5. The named parts of the
inductive invariants (`Shape`, `Stages`, `LedgerOf`, ...) stand next to the
properties in the module of the component.

The data is abstract throughout: a message is a model value; topics, payloads,
metadata, logging and timing are left out. Definitions whose comment begins
"A fault" are not part of a specification: they are the faulty forms of the
operation below them that the `mutants` of `PROJECT.json` put in its place, to
show that the property would notice.

## 3. Runs

| Run | Model | Shows |
|---|---|---|
| `go_worker` | 1 worker, 3 messages, batch 2, concurrency 2, 2 places, 2 callers of Stop | the bound on handlers, the drain on Stop, `ImplementsDelivery`, `ImplementsCustody`; every caller of Stop returns, every queued message is acked across failures and requeues unless the worker ends or a requeue overflows |
| `go_pool` | 2 workers, 1 message, 1 caller of Stop | one place per message with two Consume loops, no loss without a shutdown when there is room, all branches of the pool drain, a failure stops all, a clean stop is no error, Stop and cancel return |
| `go_pool_error` | 1 worker | **violated**: the error of a worker can be dropped |
| `go_publish` | a stub over HTTP or a client with options on the adapter (1 message, 5 requests), a batch over HTTP (2 messages, 3 requests), 1 consumer, 1 Clear, 2 places | what an answer tells the caller, however late the request arrives; messages reach the queue, topic and action asked for; a message has one place whatever acks and nacks its receipts see; Clear is final; the mutex is given back, unless its holder is blocked for ever in the send of finding 2 or in the receive of Clear |
| `go_memory_blocks` | 2 publishers, 1 consumer | **violated**: a send of Publish can block with the mutex held |
| `go_sqs` | 1 worker, 2 messages in 2 chunks, batch 2, concurrency 1, 2 handles per message, crashes | success of Publish means all sent and a failed chunk is the last, `ImplementsAtLeastOnce` (nothing is deleted unhandled), overlapping and repeated handling need an expired lease, every message is removed in the end |
| `go_server` | 1 server, 2 messages (one does not decode), 2 handlers for one method (one cannot be called), 1 place | the process exits only drained, acked means served once, no replaced handler runs on, a signal ends the process, Register returns |
| `rust_worker` | 1 worker, 3 messages, batch 2, concurrency 2, 2 places, 1 caller | the bound, stop is final even on an idle worker, `ImplementsCustody`, shutdown and delivery complete, and without a cancelled token every handler in flight is driven to its end, whatever ends the loop |
| `rust_worker_drain` | the same | **violated**: a cancelled worker drops the handlers in flight |
| `rust_pool_stop` | 1 worker, 1 message | **violated**: a stop during work leaves the pool waiting for itself |
| `ts_worker` | 1 worker, 3 messages, batch 2, concurrency 2, 2 places, 1 caller | as `rust_worker`, with a drain on every way out and no lost wake-up |
| `ts_pool_error` | 2 workers, 1 message | **violated**: a failed worker does not stop the others |

**Bounds.** Two workers are what it takes to interleave two Consume loops, to
give one message to two workers, and to have one worker fail while the other
works; no action involves three (`go_pool`). A batch larger than the free slots
makes the dispatch of an item wait, so that signals meet a batch half
dispatched (three messages and two slots in `go_worker`, two and one in
`go_sqs`). A queue with room for all separates the losses of shutdown from those
of overflow (`go_pool`); a queue with fewer places than messages makes the
overflow of Nack happen (`go_worker`,
`go_server`, `go_publish`, `rust_worker`, `ts_worker`).
Each message is published once; it is redelivered without bound.
`MaxExiting` bounds the goroutines of a worker between `<-sem` and `wg.Done`,
which the code does not bound; a run leaves out the orders in which more of
them pile up there, and the theorems hold for every value of it. In `GoPublish`
every caller and every clearer makes one call; a retry is another call, since
`Send` gives each message a new id. In `GoSqs` the limits of ten are
`SendLimit` and `ReceiveLimit`, one and two in the run, so that a parcel of two has
two chunks; `Handles` bounds the receipts of one body that are in use at a
time, and two are enough for a stale one and a fresh one; one worker can hold
both, so `OverlapNeedsExpiry` is exercised without a second. The names of
`go_publish` include one with an escape in it (`a%41`), a dot segment, a path
that is no method, a batch that is too large and an action that is blank. No
run uses symmetry: those with interchangeable constants check liveness.

**Deadlock.** Every configuration allows the system to stop: a worker that has
returned from Start does nothing more, and a queue whose messages are all acked
is quiet. Progress is stated by the liveness properties instead.

**Fairness.** Nothing ever forces a publisher, a Start, a Stop or a
cancellation. In all three runtimes handlers are assumed to return: the code has
no timeout for them.
- Go: the scheduler runs every runnable goroutine and timers fire, so each
  goroutine has weak fairness on the disjunction of its steps. A select that has two
  cases ready may take the same one for ever, which weak fairness on the
  disjunction allows. `EventuallySettled` also needs `HandlersRecover` (strong
  fairness of a success): a handler that is called for the same message again
  and again succeeds at some time. That is an assumption on handlers, not on the code.
- Go server: the same, for the goroutine of Start, the worker, the main
  goroutine from the signal on, and Register; `sync.RWMutex` grants the lock to
  a goroutine that waits for it. Nothing forces a signal, a registration or a client.
- Go in-memory adapter: the goroutine that holds `a.mu` goes on. When it waits
  for the channel it stands in the channel's queue of waiters, which Go serves in
  order, so a channel that has room (or a message) again and again lets it
  through: strong fairness. Nothing forces a consumer to come or a receipt to be
  settled, so it may also wait for ever (`Blocked`); both ways happen in the run,
  `MutexReleased` is violated when either is taken out of `Blocked`. Callers,
  requests and answers are not fair: that a remote call returns is just the timeout
  of the `http.Client` of `NewRemoteAdapter`, and is not stated.
- SQS: leases run out; a visible message is given in the end to a worker that keeps
  asking, a handler that is retried succeeds in the end, and a deletion that
  is tried again and again is done in the end (strong fairness): assumptions on
  the service and the handlers, under which the worker and the adapter must make
  the progress. Crashes may stop all workers, which the property allows for;
  it also excuses a worker that has ended with an error, so it says nothing of a
  body that never decodes and ends one worker after another.
- Rust: `run` has weak fairness. Each future has strong fairness, because it is
  enabled only while `run` polls and every wait polls all woken futures before
  it takes the timer. In the pool the same holds per round of polling. This
  presumes a positive poll interval: with zero and an empty in-memory queue,
  `wait_for_next_poll` returns at once and `run` does not yield to its executor.
- TypeScript: the event loop serves every ready continuation in turn; since a
  continuation is disabled while another one is in its synchronous part,
  this is strong fairness. It presumes `pollIntervalMs > 0`. Zero is taken as it is
  (`worker.ts` has a default but no lower limit), and then a loop on an
  empty in-memory queue goes round on microtasks alone: no timer, abort or message
  from outside gets a turn.

## 4. Findings

1. `go/core/worker.go:251`: when the last worker fails, `errCh` and `doneCh` are
   both ready and the select may return nil; `TestWorkerPoolErrorPropagation`
   expects the error every time.
2. `go/adapters/memory/adapter.go:111`: the comment says the sends never block
   after the capacity check. Nack sends without the mutex, so one can fill the
   channel in between; Publish then blocks with the mutex held, and so does
   every Consume that needs it.
3. `rust/src/core.rs:397`: every wait of `Worker::run` for a slot, the adapter or the
   timer ends with `?` when the token is cancelled, which leaves `run` before its drain
   and drops the handlers in flight; their messages are neither acked nor nacked.
   The test `worker_waits_for_in_flight_work_before_returning_on_cancellation`
   (`rust/tests/runtime.rs:339`) and `README.md:338` say that the worker waits. The
   test passes because its handler blocks the thread, so that `run` cannot look
   at the token before the handler has ended.
4. `rust/src/core.rs:603`: `WorkerPool::start` awaits `stop_all`, which waits for
   workers that only `start` polls. With work in flight, neither start nor stop returns.
5. `typescript/src/worker.ts:249`: `allSettled` waits for all workers before the
   comment's "If any worker failed, stop all" happens.

Two more are visible in the models and have no run. `Server.Stop`
(`go/grpcq/server.go:153`) cancels the context and returns, so handlers may
still run; its comment (line 146) says that it "waits for the worker to complete". The
example waits for the result of `Start` itself, which is why `ExitDrains` holds. A
signal that reaches the example before `Server.Start` has set `s.cancel` makes
`Stop` return "server not started" and main wait for a result that never comes
(`SignalExits` speaks of a server that has started).

## 5. Proofs

The theorems hold for every value of the constants that satisfies the
assumptions. These are: limits are positive (`LimitsAssumption`; the
constructors replace limits that are not), there are finitely many messages
(`MessagesAssumption`), workers of a pool (`PoolAssumption`) and calls of Clear
(`ClearersAssumption`), the messages of a call are a nonempty sequence and no
message is sent twice (`PayloadAssumption`, `SqsAssumption`), a server has one
worker (`ServerAssumption`), names are sequences of tokens and a call through a gRPC
connection has a path that does not parse, or the path "/service/method" of the
method its caller means, in which the method has no slash, as in generated
stubs (`RequestsAssumption`). The theorems on the Rust pool have the hypothesis
`PoolCallers \cup {Pool} \subseteq Callers`: the pool and its callers are among those
who call `stop` on the workers, as they are in the code.

| Module | Inductive invariant | Properties proved |
|---|---|---|
| `GoWorker_proofs` | `IndInv` | `TypeOK`, `ConcurrencyBound`, `StopDrains`, `Conservation`, `LossNeedsCause`; the refinements `ImplementsDelivery`, `ImplementsCustody` |
| `GoPool_proofs` | `PoolInv` | `PoolSpec => Spec`; `PoolDrains`, `CleanStop`, `ErrChHasRoom`; for the pool also `Conservation`, `LossNeedsCause`, `ImplementsDelivery`, `ImplementsCustody` |
| `GoServer_proofs` | `ServerInv` | `ServerSpec => Spec`; `NoStaleHandler`, `ExitDrains`, `ServedOnce`; for the server also `ImplementsDelivery`, `ImplementsCustody` |
| `GoSqs_proofs` | `SqsInv` | `DeletedWasHandled`, `PublishContract`, `OverlapNeedsExpiry`, `AgainNeedsExpiry`; the refinement `ImplementsAtLeastOnce` |
| `GoPublish_proofs` | `MemoryInv`, with `ClientShape` and `Admitted` for the clients | `ClearIsFinal`, `Conservation` of the adapter; `PublishSpec => Spec`; `AnswerIsTrue`, `Routed` |
| `RustPool_proofs` | `IndInv`, with `PoolShape` for the pool | `ConcurrencyBound`, `StopIsFinal`, `Conservation`; `PoolSpec => Spec`; `PoolStopIsFinal`; `ImplementsCustody` for workers and pool |
| `TsPool_proofs` | `IndInv`, with `PoolShape` for the pool | `ConcurrencyBound`, `WorkerDrains`, `NoLostWakeup`, `Conservation`; for the pool all of these but `WorkerDrains`, and `PoolStopIsFinal`; `ImplementsCustody` for workers and pool |

Every invariant, every action property and every refinement that a run checks as
a property to hold is proved; only liveness is left to TLC. Some of the proved
invariants are in no run, because the refinements that the runs check say more:
`Conservation` of the Rust and TypeScript workers, `DeletedWasHandled`,
`LossNeedsCause` of a single Go worker.

**Go worker.** `IndInv` is `TypeOK /\ Shape /\ Slots /\ Conservation`.
`ConcurrencyBound` alone is not inductive: `Dispatch` tests the semaphore, not
the handlers. `Slots` ties them: slots taken = goroutines in `processMessage`
plus those about to give back their slot, the WaitGroup = slots plus the
goroutines that have given theirs back. `StopDrains` needs the WaitGroup
half of it at `Done`, and that nothing is spawned afterwards, which is `Shape`:
what the position of `Start` says of its batch, and that a Stop has returned only from a worker
that is done. `Conservation` needs that a batch and a queue hold no message
twice, so that taking the head removes the message, and is itself needed by `Slots`: the
dispatched message must be one the worker does not already hold, or the
cardinality would not grow. The step is proved one action at a time, for the
worker that moves and for the others.

`LossNeedsCause` follows by counting: before any signal only `NackOverflow`
could lose a message; the channel is injective and does not contain the message in the
hand of the goroutine, hence its length is below the number of messages and
there was room. For the refinement each message has one place
(`Conservation`), so its status is a function of the place (`StatusDetermined`);
a step that moves one message is a `Move` of `Delivery`, `Leave` is an `Abandon`
of what was in the batch or a stutter, the first signal is `Close`.

**Custody.** The state of `Custody` is read off with sets: the ranges of the
queue, what the workers hold (`InCustody`), and what is left of the messages. A
step of the code takes the head of a sequence, moves a set of messages, or
drops a batch; that this is one step of the contract is set algebra over
`Conservation`, which makes the sets disjoint. That the queue has
room in the code exactly when it has in the contract is `RangeCardinality`: a
queue that holds no message twice has as many messages as places taken. The
cause of a loss is the guard of the action that loses: `Overflow` only with a
full queue, `Abandon` only after a signal, which for the TypeScript pool has
to be shown of the combined signal too (`PoolStepInCustody`); its workers share the
loop, so `PoolSpec` is not shown to imply `Spec` there.

**Compositions.** Pool and server are shown to *run* the worker: each of their
steps is a step of `GoWorker` or leaves its variables alone (`PoolRunsWorkers`,
`ServerRunsWorker`). The invariant of the worker and its refinement then hold in
the composition without a second proof, and only what the composition adds is left:

- Pool: `Stages` is the chain that a drained Stop rests on (Stop returned, hence
  Start; hence `doneCh` closed; hence all runners exited; hence every worker
  done, and drained by `Slots`). `ErrorsCaused` follows each error from the
  worker's `startErr` through `errCh` to the result, with the fact that the derived
  context has a deadline only if the parent has ended. `Len(errCh)` is at most
  the number of runners that have ended, so the non-blocking send never drops an
  error; the one of finding 1 is dropped by the final select instead.
- Server: a reader of the registry is a message in `processMessage`
  (`ReadersHeld`), so a drained worker has no handler left; main is past its wait only when the
  worker is done (`MainWaited`); `Tally` counts the methods that ended well by the
  place of the message, and since a message has one place and an acked one never
  comes back, the count is at most one.

**SQS.** `Spec` of the worker does not hold of `GoSqs` as it stands (a
crash empties hands without any settlement, and a body has several receipts), so the
invariant is a new one. `LedgerOf(b)` is the heart: as long as no lease of `b` has
run out there is at most one receipt in use, none while SQS may give `b` out,
and once `b` was handled that receipt can only delete it. `OverlapNeedsExpiry` and
`AgainNeedsExpiry` are two consequences of it; neither is inductive alone, since
a handler that succeeds again is excluded only by what the other receipts may
do. `Published` follows the chunks: SQS took all that is before `sent`, and
nothing behind the chunk in progress. The chunks are cut by position (`CutFacts`), which
needs no induction. For the refinement the ledger supplies the guards of
`AtLeastOnce`: the one receipt of a message whose leases have all held is the
one whose handler ends (`Succeed`), deletes (`Remove`) or gives back. A
crash is a stutter, and a failed request is one too or, if it took effect though
its answer was lost, the step that it would have been.

**In-memory adapter and clients.** `Conservation` counts the places of a message
(`Cardinality(Places(m)) = 1`), which no step preserves by itself. `OncePlaced`
says the same without counting: the sequences of the publishers, of the
channels and of the consumers each hold a message once (`Distinct`), and their contents,
the open receipts, the acked and the gone messages are six disjoint sets
(`Apart`) that have every message. A step moves a message from one to another, and
six set identities remain. `ClearIsFinal` needs that the receipt of a message
knows the channel it came from (`ReceiptShape`), and `CallShape` that there is a
channel left for each Clear still to come. The clients then run the adapter
(`PublishRunsAdapter`), and `ClientShape` says that a request is served at most once: an
answer is the result of the one call of `Publish` behind it, and after an error
no request is left on the wire.

`Routed` has a half about control and one about data. `Admitted` is the
first: what is on the wire or in the adapter was `Accepted`, since only
the tests of the producer stand before both. The second says of an accepted request
that the name it carries survives one escaping and two unescapings
(`PlainNames`) and that `parseMethodName` finds the service and the method that
`FullMethod` put together (`ParsesBack`: the last slash is the one before the
method). Escaping joins pieces with `FlattenSeq`, a recursive function, so this is an
induction over the name. It goes without an induction rule: the prefixes
of the name solve the recursive equation, so that the function chosen
satisfies it, and the least index at which some solution is not that prefix
(`LeastNumber`) would be preceded by one at which it is (`FlattenSingles`).

**Rust.** `StopIsFinal` of an idle worker rests on `ShapeOf`: a call of `stop` sets
the token before it looks, so a worker that starts afterwards leaves at its
first look at the token, and a worker found running is left only when it is done.
The pool adds which workers have been joined and which calls of `stop_all` have come to their
end. The theorem on the pool says what holds *when* it returns; that it need not return is
finding 4.

**TypeScript.** `NoLostWakeup` is part of `ShapeOf`: a loop sets the waiter only
when the set is not empty, and the promise that leaves it takes the waiter
along. The proof showed that promises must be counted and not identified with
messages (section 2): with a set of messages the bound could not be shown for a message
that is added twice. In the pool several loops share the event loop;
`PoolInvariance` shows that the invariant survives their turns and
that after `stop` every worker is `Finished`: its loop can only end.

**Only model-checked.** Liveness (`StopReturns`, `EventuallySettled`,
`ErrorStopsPool`, `PoolStopReturns`, `PoolCancelReturns`, `ShutdownCompletes`,
`InFlightSettles`, `MutexReleased`, `EventuallyRemoved`, `SignalExits`, `RegisterReturns`):
fairness and ENABLED are out of the reach of the prover.
The violated properties of the findings.


## 6. Not modelled

- Generators and generated protobuf code: they print text from a descriptor, or
  are printed. The synchronous modes of the example are plain gRPC.
- Rust and TypeScript producers, registries, servers and clients: the checks of
  the Go producer again, lookups without a lock, and calls passed on. Their SQS
  adapters would use the SQS of `GoSqs`; the Rust receipt, which sets its state
  before the request, is the part that differs.
- The TypeScript codec: bytes in, bytes out, no state over time.
- In `GoSqs` a cancelled context is not a signal of its own: it makes requests
  fail and the worker end, which `ReceiveFails`, `AckFails`, `NackFails` and
  `Crash` do at any time.
- In `GoPublish` a batch is not empty and every message can be marshalled: an
  empty one returns at once and the other case is an error before anything is
  sent, like `tooLarge`. Requests of foreign HTTP clients are left out.
- Metadata, ids, timestamps, logging, `QueueDepth`, and the reading methods of
  the registry: no state depends on them.
- `ServerAdapter` of `go/grpc/server.go` collects handlers in a slice;
  `NewStream` and `RemoteAdapter.Consume` always fail.
- A second `Start` on the same Go worker panics (`done` is closed twice) and is
  outside its contract. `Stop` on a Go worker that was never started waits for
  ever; the models contain it, and the liveness properties speak of started
  workers. `s.cancel` of the server is read and written without
  synchronisation; the model makes the write one step.
- Rust's `Signal::wait` is a flag that wakes every waiter, without the steps of
  registering a listener. Batched publishing and `clear` in Rust and TypeScript,
  and queues other than the one the workers poll, are left out of the worker models.

## 7. Plan

What would extend the development, in this order:

1. The positive properties of `RustPool` and `TsPool`, which are proved, in a run each, with a
   signal that was aborted before start.
2. The Rust SQS receipt, which sets its state before the request, on the SQS of
   `GoSqs` and against `AtLeastOnce`.
3. The Rust and TypeScript servers, to the extent that they do more than pass calls on.
