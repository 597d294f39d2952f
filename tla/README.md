# TLA+ models of ram-coffers

The repository runs mixture-of-experts models over many small machines. Each machine keeps
a few experts in memory; a layer of the model picks experts for a token, sends its
activation to the machines that hold them and sums what comes back. The arithmetic is
ordinary. What is hard is the distribution: a batch must not silently lose a contribution, a
retry must not run an expert twice, an answer must reach the request it was computed for, a
thread must never wait for something nobody will do any more, and the plan that says which
machine holds what must neither lose an expert nor overfill a machine. This directory models
that part, checks it with TLC and proves the core of it with TLAPS.

Two clusters are modelled, `src/ps3-cluster/ps3_cluster/` and
`src/gen9-cluster/gen9_cluster/`; they share ideas but no code. `PROJECT.json` maps every
definition to the lines it stands for, and lists the hazards of the code at their lines with
the properties that watch them.

## The systems

### ps3-cluster

    model layer                     hierarchy.py   HierarchicalExpertDispatcher, HierarchicalStage
      |  one batch per group, one request id, retried under LinkRetryPolicy
      v
    call_batch / PendingBatch       hierarchy.py
      |  pooled sockets, frames correlated by key
      v
    PersistentSocketTransport       transport.py   pool of _Connection, endpoints, cooldowns
      |  P3XC frames                protocol.py, batch.py
      v
    _UpstreamHandler                coordinator.py one thread per frame
      v
    BaseCoordinator.handle_batch    coordinator.py closed check, then the dedup cache
      v
    DedupCache.run                  dedup.py       one execution per request id
      v
    SubclusterCoordinator._serve_batch -> DistributedExpertDispatcher
      |                                            coordinator.py, dispatch.py
      |  one request per expert, replicas, RetryPolicy, one deadline for the stage
      v
    PersistentSocketTransport  ->  worker consoles  node.py

A `RegionalCoordinator` can stand between the layer and the subclusters: it is a coordinator
towards its caller and a layer towards its subclusters. One cluster file
(`deployment.py`, written by `tools/gen_cluster_config.py`) tells every tier which consoles
belong to which head, which heads to which region, and where everybody is.

### gen9-cluster

    plan_split                      planner.py     inventory, console table, checkpoint -> plan
      |  who holds which expert, who hosts which block
      v
    FleetCoordinator.forward        coordinator.py shelf by shelf
      v
    ShelfCoordinator.run            coordinator.py block on the host, then
    ExpertDispatcher.run_layer      dispatch.py    one batch per console, failover to replicas
      v
    ConnectionPool, NodeConnection  transport.py   ids per connection, a reader per socket
      |  frames                     protocol.py
      v
    NodeServer                      node.py        a thread per peer; DedupCache; ShardStore

| component | state it keeps | operations | what makes it correct |
|---|---|---|---|
| `DedupCache` | `_slots`, `_bytes`, a `_Slot` per call with event, frame, error | `run`, `replay`, `clear` | concurrent retries share one execution; what is replayed belongs to the same id and content and is not stale; failures are forgotten; nobody waits for nobody |
| `_Connection`, `_Pending` | `_pending`, `_poisoned`, `_closed`, an event per request | `send`, `wait`, `cancel`, `_deliver`, `_retire`, `close` | every reply to its own request; no lost wakeup |
| `PersistentSocketTransport` | a pool per peer, `_dead_until`, `_closed` | `_acquire`, `_connect`, `submit_raw`, `close` | no socket outlives `close`; every endpoint is tried |
| `DistributedExpertDispatcher` | executor, closed flag; per stage futures and trails | `submit_expert_stage`, `_call_expert`, `gather`, `close` | an expert is computed at most once; all contributions or an error; the deadline holds |
| `BaseCoordinator`, `SubclusterCoordinator` | `_closed`, the cache, the dispatcher | `handle_batch`, `_serve_batch`, `close` | a batch taken on is answered, also while closing; the reasons reported are true |
| `call_batch`, `PendingBatch` | one attempt at a time | `call_batch`, `wait`, `cancel` | a retry executes at most once; `safe_to_retry` is true |
| `HierarchicalStage`, `RegionalCoordinator` | futures per group | submit, await, close | all groups or an error; nobody waits for ever; the reasons passed on are true |
| `protocol.py`, `batch.py`, gen9 `protocol.py` | none | encode, decode | the two ends agree; a payload of the wrong length is refused |
| `deployment.py`, `subcluster.py`, the generator | the cluster file | validate, dict round trip, plans per tier, reductions | one owner per expert at every tier; addresses do not collide |
| gen9 `NodeConnection`, `ConnectionPool` | `_sock`, `_closed`, `_next_id`, `_pending`; the pooled objects | `connect`, `request`, `close`, `get`, `drop` | every reply to its own request; a loss is told; sequential use leaks nothing |
| gen9 `ExpertDispatcher`, coordinators | `_down`, futures, batch ids | `forward`, `run_layer`, `_call_unit` | every routed expert counted once or the token fails; every token ends; no failure without a cause |
| gen9 `ShardStore`, `NodeServer` | resident experts and bytes | `put`, `get`, load, batch, block, status | the budget is never exceeded; acknowledged experts are there |
| gen9 planner, inventory, hardware, model | a plan | `plan_split` | every block hosted once, every expert placed once, no unit planned beyond its memory |
| kernels, FP8, backends, command lines, the llama.cpp headers, the NUMA script, experiments | none | numeric code, start-up | out of scope |

Threads: callers of a layer, an executor per dispatcher, a reader per connection, a handler per
connection or frame accepted by a server, threads that close. They share the cache, the pools,
the connections and the closed flags. Each lock protects its own table only and is
left before anything blocks (gen9's `request` holds its connection's lock over a write), so
the hazards are the windows between two critical sections. The network may lose a peer at any
time; nothing is persisted, so a restart means an empty cache and an empty store.

## Modules

| module | models | a process is |
|---|---|---|
| `SingleFlight` | what the cache promises | a call of `run` |
| `DedupCache` | `dedup.py` | a call of `run` or `replay` |
| `Connection` | `_Connection`, its reader, the peer | a request, the reader, the peer |
| `ConnectionPool` | `PersistentSocketTransport` towards one peer | a `submit_raw` |
| `ExpertStage` | a batch inside a subcluster coordinator | the serving thread, a pool thread per expert, consoles, the closing thread |
| `BatchLink` | a batch over the link, its retries and the processes that serve it | the caller, a handler per attempt, processes |
| `RegionalStage` | a batch inside a regional coordinator, with its hierarchical stage | the serving thread, a pool thread per head, the heads, the closing thread |
| `Gen9Connection` | gen9 `transport.py` towards one console | callers, the closing thread, a reader per socket, the console |
| `Gen9Layer` | gen9 `coordinator.py`, `dispatch.py` and the consoles' caches | a token, the call of a batch, consoles |
| `Gen9Node` | gen9 `node.py` | a handler thread |
| `Cells` | byte strings as sequences of cells (width, value) | |
| `Gen9Wire`, `P3xcWire` | the codecs of both clusters | |
| `Ps3Deployment` | cluster file, generator, grouping plans, order of the reductions | |
| `Wire` | a message, or a cluster file, on its way | encode, resize, decode |
| `Gen9Hardware`, `Gen9Model` | console table, downbinning, inventory entries; bytes of a checkpoint | |
| `Gen9Planner` | `plan_split` | one planning run |
| `ByteBudgetProofs` | theorems about `DedupCache`, `Gen9Node` and `Gen9Planner` | |
| `*Proofs` | theorems about the module of that name | |
| `MC*` | the small instances | |

The modules form two stacks. Each abstracts the one below to what that one guarantees:
`BatchLink` uses a cache that behaves as `SingleFlight` says, connections that hand a reply
to its own attempt (`OwnReply`), sends that fail in the ways `ConnectionPool` can end, and
executions that end as `ExpertStage` can. `ExpertStage` uses the ends of a transport call in the
same way, and `RegionalStage` the ends of a `call_batch` and the answers of a subcluster
coordinator. `Gen9Layer` uses a connection as `Gen9Connection` leaves it: a caller is told
its own reply, an error, or times out; and a console as a store that has an expert or has not.

**DedupCache.** One action per point where another thread can see a difference: taking the
lock, a turn of a loop under it, leaving it, and setting a slot's event, which the code does
*without* the lock. `table` is `_slots`, `bytes` is `_bytes`, `slot[c]` is the `_Slot` that
call `c` made, which lives on after the table dropped it, and `joined[c]` is the reference a
retry carries out of the lock. Sizes are abstract bytes, the clock is a counter that moves
while the lock is free.

**Connection.** `pending` and `poisoned` are the two tables under `_state_lock`. Between them
and the threads lie the windows of the code: the reader picks a slot under the lock and
completes it after (`reader.at = "delivering"`), and a thread that retires the connection
empties the table under the lock and fails the slots one by one after it (`doomed`). `frame`
says how far the frame of a request got. The peer is a worker, which answers in order and
answers a misrouted request with an ERR under its own key, or a coordinator, which answers
in any order (`InOrder`). The fallback of `_deliver` from an exact key to a unique token id
is `SlotFor`.

**ConnectionPool.** `_acquire` is split where the code is: look at the pool under the lock
(`LookClosed`, `Reuse`, `Exhausted`, `Grow`), connect outside it, one endpoint after another
in the order read before (`ConnectAccepted`, `ConnectRefused`, `GiveUp`), add under the lock
(`Add`, `AddClosed`), send after it. A connection is named after the call that opened it.

**ExpertStage.** The serving thread admits the batch, takes the executor, submits one call per
position, gathers in order under one deadline and answers. A pool thread chooses a console,
connects, sends, and on a failure that its `RetryPolicy` admits tries the next console. A frame
that was sent may be executed long after its call gave up. `close` is four steps of another
thread: the flag, the executor, waiting for the calls, the transport.

**BatchLink.** The caller sends attempts under one request id and decides after each failure
with `MayRetry`. Each attempt that arrived has a handler of its own in the process it reached:
it refuses, executes, or joins an execution the cache knows, and answers whether or not the
caller still waits. An execution ends with rows, a BERR, an exception, or `blameless`: a BERR whose
every named reason is in `_NEVER_RAN`, which `safe_to_retry` calls safe (errors.py:117-122) whether it is
the answer of a refusal or the end of an execution. A process may lose the answer (an expired or evicted
slot, an execution that raised) or crash and restart; each such loss ends an epoch.

**RegionalStage.** The serving thread submits one `call_batch` per head, awaits them in group
order under one deadline and answers with the first failure. `call` is the pool thread of a
head, `frame` what became of its frame, which the head may still execute after the call gave
up; `outcome` is what the future holds for the thread that awaits it. A call that the deadline
overtook goes on, and `close` waits for it. A head names what its own stage found (`Named`): experts
it could not reach, which is true; and, when its transport closes under a frame that is out,
`ERR_SHUTTING_DOWN` for an expert that runs or may run yet (coordinator.py:101-102, 294-304), which the
region passes on as it came. Heads in group order are numbers: `group_by_subcluster` sorts by group id, as
`_await_all` does. The stage of a layer is the same without the handler. The heads are taken to run under
the default `RetryPolicy`, which repeats only what was not sent.

**Gen9Connection.** `pool` is the pool's entry for the console, `sock`, `closed`, `nextId` and
`pending` are the fields of each `NodeConnection`, named after the `get` that made it. A
socket is a number; `reader[s]` is the thread the dial of socket `s` started. It serves the
*object*, and reads whatever socket the object has when it starts to run, which is how two
readers can come to share one. `wire[s]` are frames sent and not yet answered. `request` is
cut where it takes and leaves `_lock` and where it blocks, `close` where it goes from the socket to
`_fail_all`; `writer` is a thread that holds `_lock` across steps.

**Gen9Layer.** A token goes through the layers: the block on the shelf's host, then one batch per
console that owns routed experts, each with the failover of `_call_unit`, then the sum. Grouping
reads `_down` anew for each expert, so a mark set meanwhile can split the experts of one console.
`runs[u]` is the console's cache, which may also be full of batches under way and refuse one
(`Deliver`). A socket has no timeout once it is connected, and a request is written under its
connection's `_lock`: a console that stops reading (`full`) holds up the thread that writes and all who
want the lock (`AskHost`, `Ask`; `WriteHost`, `Write` once it reads again). A connection dropped by one
thread fails everybody who waits on it; it is closed without `_lock`, so a blocked write is cut short, and
who was behind it finds no socket and fails with an error that is not retried (`Cut`). Attempts are counted
as `range(max_retries + 1)` counts them, whatever has been tried. The dispatcher's executor
(32 threads unless told otherwise) is taken to have one for every batch.

**Gen9Node.** `store` and `resident` are the two fields of `ShardStore`. `put` is one step (it
holds the lock); a shard is put expert by expert and a batch reads expert by expert, one step each.

**Wire.** A payload is a sequence of cells, each a value and its width in bytes; cutting inside a
cell leaves a cell of another width, so a reader that meets it knows. The codecs compute offsets,
counts, flags and limits from the cells as the code does from the bytes. A message is encoded, may lose or
gain bytes at its end, and is decoded. Cluster files are generated by the rules of
`gen_cluster_config.py` or listed by hand, go through `to_dict` and `from_dict`, and are then read
by each tier.

**Gen9Planner.** One action per turn of `plan_split`'s loops: load the inventory or refuse it, deal
units into shelves, promise each shelf its quota and deal out the layers that are over one by one, give
each shelf in turn its range and a host (or skip it, or fail), place the experts of each layer one unit
at a time (the RAM of the shelf by share, then its drives, then other shelves), place the ends of the
model. A unit whose turn it is takes a shard or is passed by. The console table is the one of
`hardware.py`, in megabytes; the sizes of `model.py` are computed, not listed. The plans, and the
inputs that raise, were compared with those of the real `planner.py` on all 816 inputs of the run, and are
the same. The code's floats (headroom, quotas, shares, hunger of a shelf) are exact fractions here. One
loop of the code is not an action: `while sum(quotas) > n_blocks` (planner.py:397) never runs, since
quotas are rounded down (`SharesAtMost`, `QuotasInv` of the proofs).

Operators such as `JoinAnyContent`, `ExecuteAgain` or `RespondPartly`, preceded by `Fault:`, are
not part of any `Next`. They are plausible bugs next to the definition they stand in for; each
property was seen to fail with one of them in place (`mutants` in `PROJECT.json`).

## What the runs check

| run | instance | distinct states | result |
|---|---|---|---|
| `dedup` | 3 calls, 3 ids, 2 slots, 2 bytes, ttl 1, clock to 2 | 535 k | holds |
| `connection` | 3 requests, two with one key, one misrouted; replies in any order | 168 k | holds |
| `pool` | 3 calls, 2 keys, 2 endpoints, pool of 2 | 1.09 M | holds |
| `stage` | 2 experts, one with a standby console, 2 attempts | 286 k | holds |
| `stage_safe` | the same under the default policy | | violated |
| `link` | up to 3 attempts, 2 processes, each loses an answer once, every policy | 1.15 M | holds |
| `region` | 3 experts under 2 heads | 127 k | holds |
| `g9_connection` | 2 callers with a request each, a closer, 2 sockets | 209 k | holds |
| `g9_layer` | 2 tokens, a dense and a MoE layer, 2 consoles, one replica, one loss or stall | 125 k | holds |
| `g9_node` | 2 peers, 2 experts of two sizes and tiers, 3 loads, a budget of 6 | 467 k | holds |
| `wire` | every kind of message, cut at every byte; 368 cluster files | 21 k | holds |
| `planner` | 816 inputs of up to five consoles | 13 k | holds |

- `dedup`: a running batch whose response fits the budget is the one its id maps to
  (`FittingInFlightTracked`); the byte count covers what is retained as long as nothing
  oversized was computed (`FittingBytesCovered`); whoever waits waits for a call that is still at
  work on the slot (`WaiterHasWorker`); nothing older than the ttl is joined
  (`NoStaleReplay`); and the cache implements `SingleFlight` for responses that fit
  (`SingleFlightPromise`).
- `connection`: a reply reaches its own request, late answers and reused keys included
  (`OwnReply`); no lost wakeup (`WaiterReachable`); and a waiter is served without its own
  timeout, whether the peer answers or dies (`WaiterServed`).
- `pool`: no open socket outside the pool of an open transport except in the hands of a thread
  that will close or add it (`NoSocketLeak`); a call gives a peer up only after every endpoint
  refused it, however the cooldowns move (`EveryEndpointTried`).
- `stage`: at most one attempt at an expert can have computed (`AtMostOnce`); rows mean that
  every expert answered (`RowsComplete`); a batch taken on is answered although consoles may stay
  silent and the coordinator may be closed meanwhile (`BatchAnswered`).
- `link`: one execution per process and epoch under every policy (`OncePerProcess`), one in the
  cluster without `retry_ambiguous` (`AtMostOnce`); without it, an error that is safe to retry hides no
  execution: the batch ran nowhere, or only in the execution whose BERR the error is
  (`CautiousSafeHidesNoRun`); and the call returns (`CallReturns`). That the BERR of an execution is
  itself true of its experts is another claim, and false (`stage_safe` below).
- `region`: rows are never a short sum (`RowsComplete`); a stage that returned in time left no
  call behind (`AwaitedInTime`); a safe reason is true of an expert under the head that fronts it,
  where `ERR_SHUTTING_DOWN` counts only while the region's transport is open and only if the head did not
  name it of its own consoles (`OwnSafeReasonTrue`); a batch taken on is answered (`BatchAnswered`) and
  `close()` returns (`CloseReturns`), although heads may stay silent.
- `g9_connection`: a caller is given the reply to its own request, over whatever sockets and readers
  its object has had (`OwnReply`); a waiter is in the table of the object it holds
  (`WaiterReachable`); threads that do not overlap leave no socket behind
  (`SequentialLeavesNothing`); and who waits while a reader still watches a lost socket is told, not
  left to its timeout (`LossIsTold`).
- `g9_layer`: a sum counts every routed expert once (`SumComplete`); a console is asked only for experts
  it holds, as owner and as replica (`HoldersAsked`); tokens that share consoles, connections and
  caches do not make each other fail while nothing goes wrong at a console
  (`NoFailureWithoutFault`); every token ends, unless it stays for ever in a write to a console
  that does not read (`TokenEnds`): a silent console holds nobody up for ever, and neither does another
  token's write that blocks. The bug it was tried with is a `close()` that takes `_lock`.
- `g9_node`: what is in memory stays within the budget however loads overlap, replace and move
  experts (`StoredWithinBudget`); it is counted to the byte while no key was put twice
  (`BudgetExact`); an acknowledged expert is never reported missing (`AckedServed`).
- `wire`: what the encoder lets through is decoded to itself (`RoundTrip`); no payload of the wrong
  length becomes a batch, rows or a sum (`ResizedRejected`); an accepted cluster file gives each
  position one head, the one that runs the expert, at every tier, and one place in the reduction
  (`OneOwner`); generated addresses do not collide within a tier (`AddressesDistinct`).
- `planner`: no unit is asked to hold more than it can, whichever step added it
  (`WithinCapacity`); blocks are hosted once, in order, experts placed once on units their stage asks,
  and the bytes of all units are those of the model (`PlanWhole`); a recorded loss never adds memory
  or bandwidth, and a sandbox takes the slowest tiers first (`LossTakesAway`).

### Where the code and its documentation differ

`stage_safe` shows one: the error of a batch names only the experts that failed, so it reads as
safe to retry although another expert of the batch ran; `README.md` of ps3-cluster, `hierarchy.py`
and `errors.py` say that it is safe only when no expert can have run. A second way there is a reason that is
itself untrue: a head that closes names the experts of frames that are out with `ERR_SHUTTING_DOWN`
(`failure_reason`, coordinator.py:101-102), which is in `_NEVER_RAN` (errors.py:28-29). `ExpertStage` and
`RegionalStage` reach it; `OwnSafeReasonTrue` and `CautiousSafeHidesNoRun` say what is left.

The models show more, for which there is no run of their own. The property that a run does
check says what remains true.

- *dedup.* An oversized response pops its id without looking whose slot it is (`dedup.py:231`);
  after an eviction in the window between `done.set()` and the lock that can be a running
  batch, which a retry then executes a second time (lines 32-34 promise otherwise). A slot
  evicted in that window subtracts bytes that were never added, the clamp at zero
  eats the bytes of other frames, and later frames are admitted above `max_bytes` (line 264
  against 35-39). Both need a response larger than the whole budget.
- *transport.* The ERR of a misrouted request can complete a request that shares its token, whose
  output then goes to the misrouted one (line 266 against 24-36); `OwnReply` covers tokens that are
  not shared by two keys. The bound of the pool is tested before connecting and not again
  (line 419 against 306-307).
- *hierarchy.* With `retry_ambiguous`, `call_batch` raises the last attempt's error alone, which can
  be a safe one after an earlier attempt ran. A region whose head names no failure reports every expert of the
  batch under that head, also those that another head fronts and that may have run
  (`_link_error`, `_forward_error`).
- *gen9 dispatch.* The module says that a timeout can be re-dispatched (lines 25-27) and
  `errors.py` has an `ExpertTimeout` for it; nothing raises that, a timeout is a `TimeoutError_`, which is
  not retried, and the token fails where a replica was free. Attempts never return to the console
  that failed, so the replay from its dedup cache that lines 30-33 call the common case does not occur.
  A replica that was already asked for another batch of the same layer has that batch's id with
  other content: it answers a mismatch and the token fails. An expert failure on the
  host is reported as a lost host. Dropping a connection can fail other tokens that wait on it, which
  fail over in turn.
- *transport.* `connect_timeout` and `request_timeout` bound the connect and the wait, not the write: both
  transports put the socket back to no timeout (ps3 transport.py:143, gen9 transport.py:83) before
  `sendall`, so a peer that stops reading can hold a sender for ever. In gen9 it also holds `_lock`.
- *gen9 transport.* A connection that `get` replaces while it is dialing, or that `request` dials again
  after it was dropped, ends with a socket nobody closes. After the reader has
  failed everyone the object still counts as connected, and the next request on it may wait
  for its own timeout.
- *gen9 node.* Storing an expert again adds its bytes and keeps those of the copy it replaces:
  the budget shrinks with every reload. The dedup cache replays rows of weights that have been
  reloaded since.
- *gen9 planner.* `_usable_fast` counts every tier of at least 200 GB/s as fast, so nothing falls to the slow
  one its caller documents (`_tier_for`). Rounding of shares sends experts to SSD while RAM of the
  shelf is free. What a shelf cannot host is spilled with a floor division and its
  remainder is lost (the plan then raises); a shelf that can host nothing raises although others could.
  The ends of the model that go to SSD are not held to the half-drive rule. The final norm and head are
  placed nowhere. A unit that loses its last CU can be credited with more throughput.
- *wire.* A hello accepts a shortened last text; a BERR cut by exactly its id is one without id;
  `encode_batch_contributions` lets duplicate experts through that the decoder rejects.
- *deployment.* Ids of replicas are not checked for uniqueness; from a hundred heads on one host on,
  head ports run into the region ports; rounding up may deal fewer regions than were asked for; an
  empty config saves and does not load.

### Bounds, and why they are enough

`DedupCache`: three calls are an owner, a retry and a stranger that evicts. Two slots and two bytes
make both eviction loops run, turn by turn, with something left over, and sizes 1, 2 and 3 lie below,
at and above the budget. `Ttl = 1` with a clock of three instants has fresh, just valid and stale
slots. `MixedRequests` has one id with two contents and a `replay`. `Connection`: two requests with one
key are needed to reuse it, a third to be misrouted. `ConnectionPool`: three calls overfill a pool of
two; with the same key they exhaust it, with two keys they share a connection. `ExpertStage`: two
positions, because a partial failure needs one that runs and one that fails, and two attempts, because
a retry is one step. `BatchLink`: three attempts allow a retry of a retry; two processes and one loss
each give crash, restart and failover in any order. `RegionalStage`: two heads, because siblings are
what the await order is about, and two experts under one of them, so that a head can run a part of its
batch.

`Gen9Connection`: two callers share or replace a connection, one that drops it after an error and one
that does not; the second socket is the redial. Longer histories of one object are covered by the
proofs. `Gen9Layer`: expert `e1` on both consoles and `e2` on one give a batch with a replica and one
without; two tokens give shared connections and caches, and a writer behind a writer; a loss and a return
give failover, and a console marked down between two groupings; a console may lose its connection or stop
reading once, and go on or not. `Gen9Node`: the budget holds one copy of everything and not every
combination of a reload. `Wire`: lists and vectors of zero to three entries, ids absent, zero and other,
limits at and over, and every value of a P3XC request at and over its range (experts of 16 bits,
replicas of 8, request ids up to `MaxRequestId`, which stands for 2^64 - 1, deadlines up to an hour); clusters of up to six experts in up to three tiers. `Gen9Planner`: every SKU, damaged in
each way the inventory can record, two attentions, with and without dense layers, shared experts and an
MTP head; 249 of the 816 inputs end in a plan and 567 in an error, at every place that raises.

`MaxTime`, `MaxEpoch`, `MaxSockets`, `MaxFaults`, `MaxLoads` and the rounds of callers are
the only bounds on counters. Symmetry (of the calls in `dedup`; of calls and keys in `pool`)
is used in runs without liveness only. Deadlock is checked in `g9_node`, which never
stops. Everywhere else the calls, tokens, messages or plans of the instance can all be over, where nothing
is left to do, and the check is off; that they get there is what the liveness properties say.

### Fairness

- `Connection`: threads run, and a peer that is up answers what it was sent. Timeouts, `close` and the
  loss of the peer are possible and never assumed.
- `ExpertStage`: the serving thread runs and the deadline passes. No console has to answer and no
  call has to end.
- `BatchLink`: the caller runs, and its wait has a timeout (`GiveUp`). No process has to answer. That the
  caller runs includes its write, which in the code has no timeout (transport.py:143, 184): `CallReturns` says
  nothing of a peer that keeps its connection and never reads again.
- `RegionalStage`: the serving thread and the pool threads run, the deadline passes, a call ends by its
  own timeout at the latest, and `close()`, once called, goes on. No head has to answer. Here too a
  write ends: `CloseReturns`, which waits for the calls, rests on that, while `BatchAnswered` has the deadline
  of the stage to end the wait.
- `Gen9Connection`: threads and readers run. No timeout has to expire and no console has to answer.
- `Gen9Layer`: the threads of the coordinator run and the wait for a reply has a timeout. A write has none:
  it goes on only when the console reads, and the consoles owe nothing, not even to read.

All are weak: a thread that can go on goes on. No property needs that a lock is granted to one
particular thread for ever contended. `DedupCache`, `ConnectionPool`, `Gen9Node`, `Wire` and `Gen9Planner` are
checked for safety and assume none.

## What is proved

The theorems hold for any number of calls, ids, slots, requests, attempts, processes, sockets, loads,
and for any fleet, checkpoint, context and shelf size.
They assume only the named `ASSUME`s of each module, which say what the constants are (a `None` that
is nothing else, natural bounds, a table of sizes); TLC evaluates them in every run.

| module | theorem | property |
|---|---|---|
| `ByteBudgetProofs`, cache | `TypeCorrect` | `TypeOK` |
| | `InFlightSafe` | `FittingInFlightTracked` |
| | `AnswersMatch` | `AnswerOfSameRequest` |
| | `FailuresForgotten` | `FailureForgotten` |
| | `TableBounded` | `EntriesBounded` |
| | `WaitersHaveWorkers` | `WaiterHasWorker` |
| | `ReplaysFresh` | `NoStaleReplay` (an action property) |
| | `Implements` | `SingleFlightPromise` (refinement of `SingleFlight`) |
| | `BytesCovered` | `FittingBytesCovered` |
| `ByteBudgetProofs`, store | `NodeTyped` | `NodeTypeOK` |
| | `CountedBytesFit` | `CounterWithinCapacity` (the second half of `StoredWithinBudget`) |
| | `StoreWithinBudget` | `StoredWithinBudget` |
| | `StoreCountsExactly` | `BudgetExact` |
| | `AcknowledgedIsServed` | `AckedServed` (an action property) |
| `ByteBudgetProofs`, plan | `EntryReadBack` | an inventory entry that is saved and loaded is the same |
| | `PlanTypeCorrect` | `PlanTypeOK` |
| | `PlanWithinCapacity` | `WithinCapacity` |
| | `PlanIsWhole` | `PlanWhole` |
| | `LossOnlyTakesAway` | `LossTakesAway` |
| `ConnectionProofs` | `TypeCorrect` | `TypeOK` |
| | `RepliesMatch` | `OwnReply` |
| | `NoSlotLeaks` | `PendingHasOwner` |
| | `NoLostWakeup` | `WaiterReachable` |
| `ConnectionPoolProofs` | `TypeCorrect` | `TypeOK` |
| | `SocketsOwned` | `NoSocketLeak` |
| | `AllEndpointsTried` | `EveryEndpointTried` |
| `ExpertStageProofs` | `TypeCorrect` | `TypeOK` |
| | `ComputesOnce` | `AtMostOnce` |
| | `RowsAreComplete` | `RowsComplete` |
| `BatchLinkProofs` | `TypeCorrect` | `TypeOK` |
| | `ExecutedOnce` | `OncePerProcess` |
| | `ExecutedAtMostOnce` | `AtMostOnce` |
| | `RowsHonest` | `RowsFromExecution` |
| | `SafeHidesNoRun` | `CautiousSafeHidesNoRun` |
| `RegionalStageProofs` | `TypeCorrect` | `TypeOK` |
| | `RowsAreComplete` | `RowsComplete` |
| | `SiblingsAwaited` | `AwaitedInTime` |
| | `SafeReasonsTrue` | `OwnSafeReasonTrue` |
| `Gen9ConnectionProofs` | `TypeCorrect` | `TypeOK` |
| | `RepliesBelong` | `OwnReply` |
| | `WaitersReachable` | `WaiterReachable` |
| | `NothingLeftBehind` | `SequentialLeavesNothing` |
| `Gen9LayerProofs` | `FleetTyped` | `FleetTypeOK` |
| | `SumsAreComplete` | `SumComplete` |
| | `OnlyHoldersAsked` | `HoldersAsked` |
| | `NoUncausedFailure` | `NoFailureWithoutFault` |

The cache, the shard store and the plan have nothing to do with each other in the code, but each keeps
a budget of bytes by counting. Their proofs share the lemmas about sums and therefore a
module; for the same reason the names of `Gen9Node` carry `Node` and some of `Gen9Planner` carry `Plan`
where the cache has the plain one (`NodeInit`, `NodeNext`, `NodeSpec`, `NodeTypeOK`, in the proofs `NodeInv`;
`PlanInit` and so on).

Each component has one inductive invariant (`IInv`; `FleetInv` of the layer, `NodeInv` of the store), a
lemma that it holds initially, one that a step preserves it (one step per action), and short theorems on
top. Three results need a second invariant that uses the first: the bytes of the cache, the bytes
of the store and the sockets of sequential use. The types, and those properties of the table that no run
names, are proved for every instance, so no run spends time on them. `CountInv` and what stands above
it were checked on the states of `dedup` before they were proved.

*The cache.* None of the properties is inductive alone. `LockInv` ties the lock to the program
counters, so that a critical section is one; `SectionInv` keeps what a section found out (no stale
slot after the sweep, the id absent when a slot is registered); `TableInv` and `SlotInv` say that a
tracked slot belongs to a run of that id and shows how far it came; `JoinedInv` that a reference
carried out of the lock leads to a slot of the same request, although the table may have dropped it.
`OwnedInv` is the heart: a running batch whose response fits is never evicted (it is not done), not
expired (the same), and not popped by an oversized one, because that pop is for the id of an oversized
response. The entry bound counts tracked ids with the cardinality facts of the library. For the
refinement, each action maps to one step of `SingleFlight` (`Register` starts, `ComputeOk` and
`ComputeFail` complete, returns return) or is invisible (`Silent`, `UnwatchedSilent`).

*Sums.* A sum over a set is a fold, and the library's induction theorems are out of reach (they take an
operator as a parameter). What is needed of sums is proved by a smallest counterexample instead: among the
subsets of a finite set for which a claim fails there would be one with the least
number of elements (`LeastNumber`, from the well-foundedness of `<`; `SmallestPart`), and
taking an element out of it contradicts that. So a fold over a finite set is a function that
satisfies its recursion (`SumTakesOut`), a sum of natural numbers is one (`SumIsNat`), equal terms
have equal sums (`SumSame`), zeros do not count (`SumPastZeros`, `SumOfZeros`), and a change of one term changes
the sum by as much (`SumWithOne`).

*The bytes of the cache.* The bound on what is retained is about an idle cache, and is false in between: a slot
can be evicted after its event was set and before the call adds its size, so that the eviction subtracts
what was never added. `CountInv` balances the books in every state. `Held` is what is retained of the
responses that were counted, `Owed` what evictions took off for calls that will still add
theirs, and `Held <= bytes + Owed`; `bytes` exceeds the budget only while nothing is held, which is
where the eviction loop stops. That the count is clamped at zero does no harm, since clamping only adds to
it. `EndedInv` and `OwnInv` say that a response that fits leaves the table by an eviction only. When no call is
under way nothing is owed, and the two conjuncts of `CountInv` are the property. No response over
the budget may have been computed (`AllFit`): with one, the property is false (below the table of runs).

*The connection.* `OwnReply` needs that no request registers a key while a frame under that key is
still under way: `OutInv` says that such a key is held by that request, abandoned, or the connection
is retired, and `HoldsKey` refuses the first two. `RegisteredInv` with `RetiredInv` gives the wakeups: a
request that waits is under its key or was taken out by a thread that will fail it. `SlotFound` and
`OwnSlot` are the facts about the fallback by token id.

*The pool.* `TryingInv` says that what a call has tried and what it has yet to try are together all
endpoints, so that when nothing is left each has refused; that the first of a set of endpoints is one of
them (`FirstType`) is the well-foundedness of `<` on the numbers. `ClosingInv` says that what `close` took
out it took once, and `ChosenInv` that whoever sends has a connection.

*The stage.* `PastInv`: attempts that a cautious call has behind it have not computed and never will, and one
it has yet to make has not been sent. With it `AtMostOnce` is a fact about the current attempt alone. `TrailInv`
counts attempts; `OutcomeInv` says that a call that ended well did so with the output of its last attempt, and
what was gathered is an outcome; `StageInv` that a stage that answers has gathered every position.

*The link.* `RememberedInv` says that a process remembers what it executed in its current epoch; hence
an attempt that arrives later joins. `CautiousInv` says that a policy without `retry_ambiguous` has
sent nothing but the current attempt; hence an error that is no answer means that nothing ran, and one that
is an answer is that of the only execution there can be.

*The region.* `TrueInv` says that what a head answered, and what a call ended with, is true of that
head: its rows mean that its experts ran; an expert it names as not reached, or a batch it refused as
closed, did not run and the head is `Sealed`, so that no frame of this batch can make them run later; of an expert
it names with `ERR_SHUTTING_DOWN` nothing follows. `StageInv` says how far the stage has awaited,
`CallInv` that only a frame that was answered can have run something, and `ReplyInv` carries the truth
of the outcomes over to the answer.

*The gen9 connection.* The heart is `Good`, which is claimed of every frame on a wire or in a reader's hands:
its id was given out by the object the reader serves, and if it is still in that object's table, who waits
under it awaits exactly this frame. A new id is beyond all of them, since the counter belongs to the
object and survives its sockets. `WireInv` says that a socket and its readers belong to the object that dialed it,
so that two objects, which count alike, never see each other's frames; `PlaceInv` that each thread holds a connection
where its code uses one. `MoveInv` and `ShrinkInv` are the two shapes of step: a thread moves and no table grows,
or entries leave tables and everybody left in one is left alone.

That sequential use leaves no socket behind takes `UseInv` (a thread refers to an object only while
it uses or closes it, and an object that is closed or not yet made has no socket) and `AloneInv`: as long
as no two threads were at work at once, there is one at most, it uses the pooled object or closes the one
it took out of the pool, dials only an object without a socket, and every open socket is that of one of
these two objects.

*The gen9 layer.* `GroupInv` says that the batches of a token are disjoint, repeat nothing, cover what has been
grouped so far and are each with a console that holds all of them; `CallInv` that a call which waits stands in the cache of its
console, under way, with the experts of its own batch, and that a call which has been told, or has
ended well, has the experts of its batch and no other. Its own batch matters because a batch id is the same
for every batch of a token and layer: `Fresh` says that no console knows an id of a layer the token has not
reached, and the check of the content does the rest. A sum adds up what the calls brought, and that is the grouping of
the whole layer. `Quiet` is the invariant of a fleet where nothing went wrong: every console is up, each batch is
with its own console and in no other's cache, and hence no cache answers with a mismatch and no call is
refused. The proofs assume of the plan what `plan_split` and the router give: the layers are distinct, every
routed expert is placed, on at least one console, and the router picks each expert once (it is a callback of the
coordinator, and `run_layer` takes what it returns as a top-k in rank order); `Named` lists the consoles in the
order of their names.

*The gen9 node.* `LoadInv`: what a load has put so far is stored, and nothing ever leaves the store; hence
an acknowledged shard is there. `put` tests the sum of what is counted and what comes, so the counter
never passes the capacity. `RamInv` compares it with the sum of what is in memory: a put adds the new
bytes to both, and what it replaces leaves the sum but not the counter.

*The plan: its budget.* `WithinCapacity` says that no step overdraws a unit, and most steps are only
safe because of what earlier ones left alone. A host is chosen for what its *fast* part can hold, without
a look at what is on it already: that is sound because a unit is on one shelf and its shelf has one turn, so it is
empty when it is asked (`FreshInv`), and because the fast part is never more than the whole (`FastFits`). For
experts `PassInv` says which units a pass asks and that nothing is left under way between layers, and for
the quotas `QuotasInv` says that the layers promised to the shelves to come are no more than there are left; it
needs that a sum of fractions rounded down is at most the whole (`SharesAtMost`), and that what is spilled
onto `k` later shelves is at most `k` times a floored quotient. Together with the types they are `BudgetInv`. That a
capacity is a number at all takes the whole of `hardware.py`: every unit a caller can name, in every runtime, merged
with every loss, has tiers that are numbers (`MergeOK`, `SurvivingOK`, `MemoryOK`).

*The plan: it is whole.* `StagesInv` says that the stages follow one another from layer 0 without a gap, and that
the layer whose experts are being placed is one of the stage whose turn it is; `HostedInv` that a unit has exactly the hot
blocks of the stages it hosts; `ShardsInv` that shards lie below the next expert of the layer under way, share no
expert, are on units their stage asks, and, unless experts went nowhere, leave none out. `BytesInv`
is an equation kept in every state: the bytes on all units and those that went nowhere are the blocks of the
ranges, the experts up to the next, and the ends that are placed. A plan is done only if nothing went
nowhere, and the equation is then that of `PlanWhole`, once the sum over blocks, whose MTP heads are counted
apart by `total_bytes`, is split where the layers end (`SumSplits`, `SumShifts`).

*The plan: what a loss takes away.* `CapsInv` says that what the planner reads of a unit is what its
runtime and its losses leave. The rest is about the operators: merging reductions takes no less than either
(`MergeTakes`), a tier that lost more has no more left and is no faster (`MoreIsLeft`); and the sandbox. `Spared` says of
each tier what it gets of a budget by the sum of the tiers ahead of it; `SandboxLeaves` adds that up to the
smaller of the budget and the whole for any set of tiers that is closed under being ahead (the tiers at or above a
floor are), by a smallest counterexample in the number of tiers, taking out the hindmost.

`CasesAssumption` is what the theorems about plans rest on. It says that a caller names consoles of the table,
that sizes and clocks are whole numbers, that what is recorded as lost of a tier is not negative
(hardware.py:219-221 says that every field is a reduction, and the constructor checks the others), that the
pieces of a checkpoint take whole numbers of bytes and an expert at least one, and that its dense layers are among
its layers. It asks for nothing about downbins the constructor refuses, duplicate names, empty fleets or a shelf size of
zero: those are inputs, and end in an error. `BudgetInv`, `StagesInv`, `HostedInv`, `ShardsInv`, `BytesInv` and
`CapsInv` were checked on all states of `planner` before they were proved.

Only model-checked: the liveness properties (`WaiterServed`, `BatchAnswered`, `CallReturns`,
`CloseReturns`, `LossIsTold`, `TokenEnds`), since TLAPS here has no fairness reasoning; and the
invariants of `Wire` (`RoundTrip`, `ResizedRejected`, `OneOwner`, `AddressesDistinct`). These are
computations over data: a decoder walks over the cells by recursion, and what a recursive definition computes for every
input is out of this prover's reach. Termination of a plan is not claimed by a property; it is seen in the run,
where every input ends in a plan or an error.

## Not modelled

- Numbers: kernels of both clusters, FP8, gate weights, the values of the sums (their order is in
  `Ps3Deployment`), the latency estimate of the planner.
- Partial frames on a socket: a frame is read whole or the connection is lost. The dtypes other than
  float32 in P3XC payloads, text encodings, the JSON text of files.
- Several batches of a region at once, and a stage that a retry repeats with new ids for its heads
  (`call_batch` mints an id where it is given none); membership setters while batches run, pings and
  health checks, several peers in one pool, the loopback and connect-per-dispatch transports.
- gen9 `send_oneway`, which nothing calls; `health()`, which neither marks a console up nor drops it;
  accepting and stopping of a server.
- Topology planning, command lines, start-up: computed or parsed once, and read by nobody else.
- The C headers for llama.cpp, the NUMA script, the GPU and NEON kernels, the experiments of the paper
  and the benchmark scripts: single-threaded numeric code, or code included into a program that is not here.

## Running

    tlc -workers 2 -config MCDedupCache.cfg MCDedupCache
    tlapm ByteBudgetProofs.tla

Every `.cfg` belongs to the `MC` module whose name it begins with. The longest runs take one to two minutes;
`MCExpertStageSafe.cfg` ends with the counterexample of the finding.
