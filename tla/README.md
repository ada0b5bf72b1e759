# A TLA+ model of the vllm.cpp V1 engine

vllm.cpp is a C++ port of the V1 engine of vLLM: requests are batched
continuously, their key/value (KV) cache lives in fixed-size blocks, and blocks
that hold the same token prefix are shared. This directory holds TLA+ modules
of its core, the TLC configurations that check them and proofs checked by TLAPS.

Paths below are relative to the repository (`src/` is its root in
`PROJECT.json`); `core/`, `engine/` and `worker/` stand for
`src/vllm/v1/core/`, `src/vllm/v1/engine/` and `src/vllm/v1/worker/gpu/`.

## 1. Inventory

### 1.1 Components

| Component | State it keeps | Operations | Correct if |
|---|---|---|---|
| Block pool, free-block queue (`core/block_pool.cpp`, `core/kv_cache_utils.cpp`) | per block: `ref_cnt`, hash; LRU free list; hash to block map | `get_new_blocks`, `touch`, `free_blocks`, `cache_full_blocks`, `get_cached_block`, `reset_prefix_cache` | counts equal owners; free list = unowned blocks, once each; map = the hashes blocks carry; no throw |
| KV cache manager (`core/kv_cache_manager.cpp`), coordinators, per-type managers | per group, block table and number of cached blocks of each request; states cached in this step | `get_computed_blocks`, `allocate_slots`, `free`, `cache_blocks`, common-prefix count | tables match tokens; shared blocks are never written; room is checked before anything changes; a group gives back what it no longer reads and nothing else; a hit is usable in all groups |
| Scheduler (`core/sched/`) | `requests`, `running`, `waiting`, `finished_req_ids`; per request status, tokens, `num_computed_tokens`, placeholders | `add_request`, `finish_requests`, `schedule`, `update_from_output`, preemption, `check_stop` | queues match status; budgets kept; FCFS order; what a step undoes it undoes wholly; everybody finishes |
| Engine core (`engine/core.cpp`) | batch queue, deferred batch | `step`, `step_with_batch_queue` | consumes batches in order, never an empty queue |
| Engine core process (`engine/core_proc.cpp`) | input and output queue, engine-dead flag | busy loop, shutdown, sentinel | steps while there is work; death reaches the client |
| Client, AsyncLLM, output processor (`engine/async_llm.cpp`, `engine/output_processor.cpp`) | collectors, request states, threads | generate, abort, merge, error, shutdown | every consumer gets exactly one end; aborts reach their own request |
| Input batch, block table (`worker/input_batch.cpp`, `block_table.cpp`, `prepare_inputs.cpp`) | a dozen arrays by row; holes; cached sampling metadata | `add_request`, `remove_request`, `condense`, `swap_states`, `update_states` | rows dense and exactly the step's requests; all arrays move together; metadata never stale |
| Model runner, asynchronous output (`worker/runner.cpp`, `async_output.cpp`, `src/vt/cuda/combine_tokens.cu`) | state slots of linear attention, output slots, device queues | `execute_model`, `sample_tokens`, `sample_tokens_async`, `get_output` | a row reads its own tokens, blocks and state; a stream gets its own tokens |
| CPU threadpool (`src/vt/cpu/cpu_threadpool.cpp`) | epoch, barrier, chunk cursor, mutex and condition variable | `Run`, `Barrier`, `ChunkAdd`, parking, `~Threadpool` | a loop is computed once, wholly, before it returns; no wakeup is lost |
| NVFP4 plan cache (`src/vt/cuda/nvfp4_plan_cache.h`, `nvfp4_persistent_cache.cpp`, `cuda_matmul_nvfp4_cutlass.cu`) | map of plans, frozen flag, session, the cache file | `GetOrTune`, `Import`, begin and end of a session, atomic save | one plan per key; the file whole after any crash; loading ends |
| Structured output (`src/vllm/v1/structured_output/`) | grammars, matcher state | compile, bitmask, accept, rollback | the mask of a row is of the state after all its tokens |
| Detokenizer, input processor, sampler, executor, attention, model loading, server | local or none | | numeric or sequential code |

### 1.2 Interactions

Clients put `add` and `abort` messages on the engine core's input queue. One
thread runs everything behind it: it drains the queue, then takes a step, as
long as there is work. A step calls `schedule()`, hands the result to the
runner, and calls `update_from_output()` on the oldest batch of the batch queue.
Only the scheduler calls the KV cache manager, which calls the pool. The runner
gets copies of block tables and writes KV into the blocks they name, so that
the pool's bookkeeping and the memory agree only if the scheduler, the manager
and the runner agree on which positions are computed when. On CUDA the runner
only enqueues work; the device does it later, in the order of its queues.
Kernels on the CPU run in the threadpool, which several engines may share, as
they share the plan cache of their process and its file.

### 1.3 What is hard

* Under asynchronous scheduling a step is scheduled before the tokens of the
  step before it are known; requests are preempted, stopped and aborted while
  tokens of theirs are in flight, and everything that counts tokens must follow.
* Running out of blocks preempts a request in the middle of a step, perhaps one
  the same step has already scheduled.
* Blocks are shared, evicted and reused; the cache is content addressed, and a
  block must be found under its hash exactly while it holds that content.
* A capacity check, made before anything changes, must foresee what the
  allocation behind it takes, the cached blocks it takes off the free list
  included.
* In a hybrid model several groups draw on one pool. Each reads another part of the past, gives back
  the rest out of the front of its table, and hits other blocks of the same prefix; length, capacity and
  content of a hit must be right in all of them at once.
* The scheduler and the runner keep the set of running requests twice, and talk
  about it in differences only.
* Requests move between rows of the persistent batch while the device still
  writes to the rows they had.
* Callers, aborters, the output handler, the engine thread and the thread that shuts
  down share a request table behind one lock, two queues and a few flags. What
  one of them saw under the lock may be gone when it acts after unlocking; a
  frame or an abort in a queue may outlive the request it is for.
* A consumer blocks on its collector. Whatever ends first, the request, the
  engine, or the front end, somebody must still be there to wake it.
* The threadpool hands out a pointer to the caller's stack, passes its barrier
  twice per call and parks its workers between calls.
* Plans are tuned once per process by whoever asks first, and saved to a file
  that a crash may meet at any point.

`PROJECT.json` lists the hazards, each at its line.

## 2. Plan

Done, in this order:

1. `BlockPool`, `KVCacheManager`, `KVCache`: the allocator, under every client
   that keeps the scheduler's protocol.
2. `Scheduler`: scheduler, engine core and the runner's KV writes, one client
   of that protocol. `KVCache` is its abstract specification (`KeepsKVProtocol`);
   `Scheduler_proofs`.
3. `BlockPool_proofs`, `KVCacheManager_proofs`, `KVCache_proofs`.
4. `EngineClient`, its abstract specification `RequestStream`
   (`ImplementsStreams`), and `EngineClient_proofs`.
5. `InputBatch`, `ModelRunner`: the persistent batch and the asynchronous path.
6. `Threadpool` and its abstract specification `ParallelFor` (`ImplementsParallelFor`), with
   `Threadpool_proofs`.
7. `PlanCache`: plans, warm-up sessions, and the file under crashes, with `PlanCache_proofs`.
8. `HybridKVCache`: the allocator of models with several KV-cache groups, with `HybridKVCache_proofs`.

Left: the grammar manager (bitmask, matcher accept and
rollback) composed with the deferred sampling of `Scheduler`; the search for
stop strings of the detokenizer; proofs of the properties of `ModelRunner`, and of `WindowsServed` of `HybridKVCache`.

## 3. Modules

### BlockPool
Operators on a record: `free_block_queue` is the intrusive list between its two
sentinels as a sequence; `ref_cnt` and `block_hash` are the fields of
`KVCacheBlock`; `cached_block_hash_to_block` is a set of pairs, because the map's
value may be one block or several of equal content. Which of several a lookup
returns is the map's business; the model takes the least id, as `std::map` in
the code does. Block 0 is the null block, outside `Blocks`. A block's hash is the
token prefix it ends: SHA-256 over parent hash and tokens is taken to be
collision free. KV events only log and are left out.

### KVCacheManager
The unitary coordinator over one full-attention group, which is what a model
without sliding-window or Mamba layers gets. `allocate_slots` splits
into `CanAllocate` (its early returns) and `SlotsGiven` (everything behind
them). A throw sets `fault` and changes nothing else, so that `NoFault` says no throw is
reachable. Lookahead and connector tokens are always zero in this code and left
out.

### KVCache
A state machine around the manager, with the most general client: `Submit`,
`Admit`, `Extend`, `Output`, `Release`, `Reset`, in any order the guards allow.
A guard is what the scheduler guarantees: an admission follows a lookup,
computed tokens stay within known ones plus one in flight, only confirmed tokens are
cached, a reset needs every block free.

### HybridKVCache
The coordinator a model gets whose layers form groups of different kinds, with a manager per group. A
layout is a sequence of kinds: full attention, sliding window, chunked local attention, Mamba. The
actions are `Admit`, `Extend`, `Execute` and `Release`, again under the most general
client; for the cache a decode is a chunk of one token, so a request has all its tokens from the start.
`allocate_slots` and its checks run over the groups in order (`InGroups`), and
`remove_skipped_blocks` comes before the check, as in the code: a refused extension has given back
already. The lookup is the code's loop over the specs until one pass takes nothing away (`Settle`).

`data` says which prefix a block holds, and it is written by `Execute`, a step
after `cache_blocks` has put the block into the map. `Reads` is what an attention mask or a
recurrence reads, written without `get_num_skipped_tokens`, against which the early
returns of blocks are judged.

A chunk is a whole number of blocks: with another chunk size a hit puts the null block in the place of
one that the current chunk still reads, and no model here has one. A window of one token is excluded too.
Left out are EAGLE groups, Mamba's `align` mode, external tokens, retention intervals, context
parallelism, groups of different block sizes, the coordinator without prefix cache, and
the reset of the cache, which is in `KVCache`.

### Scheduler
`pc` is the place of the core thread. One loop iteration of `schedule()` is one
action, because the state between two of them (who is scheduled, who is preempted,
what is left of the budget) is what the hazards are about:

| pc | actions | code |
|---|---|---|
| idle | `AddRequest`, `AbortRequest`, `BeginStep`, `BeginDrain`, `Rest` | `EngineCore::add_request`, `finish_requests`, the busy loop |
| running | `SkipRunning`, `PickRunning`, `EndRunning` | running loop of `schedule()` |
| fit | `ScheduleRunning`, `PreemptRunning` | its inner loop, until the request fits or is itself the victim |
| waiting | `AdmitWaiting`, `EndWaiting` | waiting loop |
| assemble | `FinishSchedule` | the rest of `schedule()`, `update_after_schedule` |
| execute, execute_only | `ExecuteAndSample`, `ExecuteOnly` | the runner, and whether sampling waits for the grammar |
| pop, update, stopped | `PopBatch`, `SkipUpdate`, `UpdateRequest`, `UpdateThrows`, `FreeStopped`, `FinishUpdate` | `update_from_output` |
| dead | `Rest` | the thread after an exception |

The runner is in the model as far as it touches what the scheduler relies on.
`in_batch` is the set of requests its persistent batch holds: a step's `Rows` are those
of the batch that are scheduled and those that the step admits, and a scheduled request
without a row makes `UpdateThrows` of `update_from_output`'s `at()`.
`cells` says, for each block and offset, which token prefix's KV was last written there. A
schedule's positions are written through the block tables as they are when it
executes. That makes "the KV a request reads is its own" a state
predicate. A sampled token is any token; a structured request's grammar may
reject one. `uses` is the model's own: it counts how often an id was
submitted, so that a token can be traced to its use of the id. Only ids in `Reused`
come back, and only the synchronous run has any (see "Disagreements" below).

The order in which `update_from_output` looks at the requests of a batch is
that of the code's map, taken to be by id.

### InputBatch and ModelRunner
`InputBatch` is the persistent batch as operators on a record whose fields are the
arrays of the class. As in the code a slot keeps its old contents until
somebody takes it over, so that a field that `condense` or `swap_states`
forgets holds another request's data. `ModelRunner` drives it:

| pc | actions | code |
|---|---|---|
| idle | `Schedule`, `Drain`, `Abort` | the scheduler's output, with the differences it sends |
| execute | `ExecuteModel` | `update_states`, reordering, `remap_gdn_state_slots`, `prepare_inputs`, combine and forward |
| sample | `Sample` | `sample_tokens` or `sample_tokens_async` |
| consume | `Consume` | `get_output`, `update_from_output` |
| any | `DeviceStep`, `CopyStep` | the main and the copy queue, when the device gets to them |

A token is the pair of its request and position, so that a wrong row, column or
order shows. `path` is the way the runner was built: synchronous,
asynchronous on a backend whose queue runs at once, or on CUDA. A resumed request comes as
a new one with all its tokens, as the code's "MRV2" convention has it. Parameters of sampling are one
penalty; LoRA and speculative decoding fields are never set in this code. Left out: capture and
replay of CUDA graphs, profiling, and the kernels.

### Threadpool and ParallelFor
One action per access to a shared variable that another thread may
interleave with. Submitters take `run_mutex_`, publish the epoch under `mutex_`
and become thread 0; workers poll, sleep, compute. `ParallelFor` is what the header promises: every row
once, and the exception, if any, to the call it belongs to. The model takes
the atomics as sequentially consistent. The code's orders are weaker in places; each relaxed
access is next to a barrier or a lock that orders it, which the model assumes and does not show.
`pause_` is never set; `poll_` only bounds the polling. A nested dispatch throws in the body and is a row
in `throws`. `MatmulChunked` of `cpu_ops.cpp` uses the same cursor.

### PlanCache
Engines of one process that load, warm up and serve, and the file. `flight` holds every
entry ever made, because a waiter keeps its entry after the map has dropped
it. A save writes a temporary file, syncs, renames; a power loss after the rename may keep the old
file, and of a file that was not synced, less than its bytes. Documents are
functions from keys to tactics. `MergeNativeCaches` finds nothing in the prior document that is not live
already, because a session that may save has installed all of it; the operator is there for
what the code does. `InsertReadyIfAbsent` refuses a key that is being tuned, and `Install` does so too, but with
one process on the file that never happens: whoever tunes has the plans of the file already. Left out: the FlashInfer format, several
processes on one file, the bucket arithmetic.

### EngineClient
Threads, and the state each owns:

| thread | state | actions |
|---|---|---|
| the consumer of a call of `add_request` | `client`, `received` | `CheckRunning`, `AddRequestThrows`, `AddRequest`, `GetOutput`, `AbortAfterError` |
| any thread that aborts an id | `unsent` | `AbortRequest`, `SendAbort` |
| output handler | `handler`, `reqs_to_abort` | `HandleOutputs`, `AbortStopped`, `HandleEngineDead`, `HandlerFails`, `PropagateError` |
| closer, the thread that set `shutdown_started_` | `closer`, `swept` | `Shutdown`, `SetStopping`, `AbortAll`, `SendSwept`, `RequestShutdown`, `WakeEngine`, `JoinEngine`, `JoinHandler` |
| engine thread | `engine`, `core`, `emitted`, `finished_req_ids` | `handle_shutdown`, `PollInput`, `HandleAdd`, `HandleAbort`, `HandleWakeup`, `EndInput`, `process_engine_step`, `EngineThrows` |

What a thread does under one hold of `output_processor_mutex_` is one action;
what it does before or after, without the lock, is another. So
`add_request` is a check and then, under the lock, a registration; `abort` is
a clean-up under the lock and then a message to the core. A message put into a
queue is one action, and so is taking one.

`request_states` maps an id to the call registered under it. A collector is the
slot of `RequestOutputCollector` with its merging. Tokens are pairs of a call and a
position, so that a token that reaches the wrong consumer, twice or out of order
is seen. Text and stop strings are abstracted: a request with stop strings may be
stopped by any of its tokens.

The core is abstracted to what it puts out: a step gives some live requests a token
each, and some of those finish. Here a step is synchronous. `MayUse` is the discipline
of callers under which the properties are stated: an id whose request the
core has finished may come back at any time, one that was aborted or stopped
may not, unless `ReuseAborted`. The message types `kExecutorFailed` and `kUtility` have no sender in
this code. Failures of allocation are left out.

### RequestStream
The abstract specification: a call is refused, or it is a stream of its own request's tokens,
in order from the first, that ends or fails once, and does so eventually. The
refinement mapping keeps `received` and maps `client` to a phase.

### MC modules
Values for the constants. `MCScheduler` keeps request ids as numbers, since the
order of arrival and the order of maps follow them; no symmetry there, nor in
`MCModelRunner`. In `MCKVCache` ids are interchangeable model values. In
`MCEngineClient` and `MCPlanCache` the calls and engines differ in what they ask for, so there is no symmetry
either.

Definitions marked `Mutant:` are not part of any specification. Each is a plausible
mistake in the definition after it, kept there to show that a property would notice.

## 4. Runs

| Run | Configuration | Shows |
|---|---|---|
| `kv_cache` | 2 requests, 3 blocks of 2 tokens, 2 prompts that share a block, a watermark of one | the allocator's invariants under any client |
| `scheduler_async` | 3 requests, 3 blocks, FCFS, chunked prefill, a batch queue of two, one structured request | KV content, the manager's protocol, placeholders, grammar deferral, rows for everybody, no sampling past the limit, arrival order, coming to rest |
| `scheduler_priority` | 3 requests, 7 blocks, priorities, no chunking, whole-sequence reservation, a watermark of one, an id used twice; synchronous | a victim already scheduled in the step is undone wholly; admission leaves room |
| `hybrid_kv_cache` | 2 requests of 9 and 6 tokens that share two blocks, 3 layouts of three groups, 15 blocks, a window and a chunk of 4, steps of 3 tokens | hits, windows, states and early returns of several groups over one pool |
| `client_streams` | 2 calls under one id; a delta stream with a stop string, 3 tokens and a stream interval of 2, and a final-only one | own tokens, all of them, whatever is aborted when; the core rid of what nobody reads; one request per id |
| `client_shutdown` | 2 ids, a crash and a shutdown in any order, abort mode | nobody left waiting, shutdown completes |
| `threadpool` | 3 threads, 2 submitters, 4 grids, one with a body that throws | loops computed once, barrier and parking, the destructor |
| `plan_cache` | 2 engines, 2 profiles of which they share one, a failed tuning, a kill or a power loss | one plan per key, the file under crashes |
| `model_runner` | 3 requests in 2 rows, one penalised, one structured, all paths, one preemption, one abort | rows, inputs, memory and streams |
| `priority_dropped`, `priority_undo`, `device_scatter` | small | the findings below |

**Properties of `kv_cache`.** `PoolExact`: reference counts, free list and hash map agree.
`TablesAgree`: tables match tokens, writable blocks are owned once, and what cascade attention is told is
common is common. `SlotsCoverComputed`; `NoFault`. `EvictionOrder`: the order in which blocks are
freed keeps what can still be hit, longest.

**Properties of `hybrid_kv_cache`.** `PoolExact` as above, over the tables of all groups and with holes in them.
`WindowsServed`: every block a step reads is real and holds what the group reads there, no block has two
writers, and a request admitted with room for its whole sequence gets that room when it is alone. `HitIsLongest`: the
lookup finds the longest prefix that every group can use, compared with a definition that has no loop.

**Properties of the scheduler runs.** `TokensInFlightAccounted` joins `PlaceholdersExact`, `GrammarSeesAllTokens`,
`NeverSamplesPastLimit` and `BatchToPop`: the oldest batch, which `step_with_batch_queue` takes without looking,
is there, also when it has queued none itself because sampling is deferred. `PlaceholdersExact` and `PreemptionIsUndone`
relate what the code keeps twice. `ScheduledHaveRows` relates the scheduler to the runner's batch,
`KVHoldsOwnTokens` to the memory. `GrammarSeesAllTokens` and
`NeverSamplesPastLimit` are hazards of scheduling ahead. `FirstComeFirstServed` and
`AdmissionLeavesRoom` are action properties, `ComesToRest` is
liveness, `KeepsKVProtocol` is refinement.

**Properties of the client runs.** `FinishedIsComplete`: a stream that ended has
every token, through merging, holding back and aborts. `RequestsHaveBothEnds` relates
the table of the front end to the scheduler's requests and
the queues between them, in both directions. `NobodyLeftBehind`, which is `NoneAfterSweep` and `NobodyLeftWaiting`,
is about the races of `add_request` with shutdown and death. `OneRequestPerId` is what
the scheduler relies on. `ShutdownCompletes` is liveness: the joins
come back. `ImplementsStreams` is refinement, its liveness included.

**Properties of the others.** `threadpool`: `FnOutlivesItsUse`, no thread holds the
function of a call that has returned; `ImplementsParallelFor`, refinement; `NobodyHangs`, liveness
of calls and destructor. `plan_cache`: `OnePlanPerKey`,
`FileIsWhole`, `SavedPlansStay` (no save drops a plan of the file or changes its tactic, or replaces a file that
could not be read), and the liveness property `LoadingEnds`. `model_runner`:
`BatchExact`; `RowsAreOwn`, a row's inputs, blocks and state are its request's;
`StreamsAreOwn`. The last holds on the CUDA path in spite of `device_scatter`, because there the model
names the sampled tokens after their row: a wrong input changes what the token is worth, which the model
does not say, and not whose it is.

**Bounds, and why they are enough.** Blocks hold two tokens, so that prompts of three end in the
middle of a block and grow into the next; prompts share their first block and differ in
the second. Three blocks (block 0 is the null block) are too few for two requests of full
length: preemption, eviction, reuse and waiting all happen, which the
mutants of those steps confirm. Three requests give a
victim, a survivor and somebody waiting. Outputs are up to three or four tokens, more
than a batch queue of two has in flight. `MaxTokens` in `KVCache` and the second use in
`Scheduler` are bounds of the model and not of the code. The priority run does not chunk its prefills:
with chunking, or prefix hits of a victim, it violates the two scheduler properties of the findings.

Two calls are enough for the client: its properties are about one request and what
can be mistaken for it or stand in the queue before it. Three tokens under an
interval of two give an output at once, one held back, and one that owes two. `MaxTokens` bounds
a call's tokens, and `MayCrash` and `MayShutdown` say which of the two a run
has; queues are not bounded, since every call puts few messages into them.

Three threads are the least with two workers that can be in different barriers. The grids have more
rows than chunks (13 rows in seven chunks, all but the last of two rows; in one of them the body throws at the
last row of a chunk and at the first of another), fewer rows than threads, and one row, which is computed inline. For the plans, one
failure and one stop per run meet every step, and the process starts again with two engines. For the hybrid cache 15 blocks are just enough
for one whole sequence in three groups, so the second request waits, hits what the first has
left, or evicts it; `MaxAdmissions`, a bound of the model, lets one of them come back. Tokens per step are fewer
than a window and odd, so that steps end inside blocks; the three layouts take each kind with another that has to
shorten its hit. In the
runner, two rows for three requests make holes, condensing and reordering; a prompt of three
under a threshold of two is prefilled in two chunks.

**Deadlock** is checked in the allocator's, the scheduler's and the runner's runs, where `Rest` is the thread
blocking on its input queue without work, so that a deadlock would be a step that cannot be completed.
The other runs do not check it, because there the system stops for good: by shutdown, death of the engine,
the end of all loops, the bound on stops, or, in `hybrid_kv_cache`, that on admissions. Of all but the last, that it stops with
nothing undone is what their liveness properties and refinements say.

**Fairness.** The busy loop (`engine/core_proc.cpp`, `run_busy_loop`) steps
as long as `has_work()`; nothing else can stop it. `CoreThreadRuns` says just
that: whenever the thread is inside a step or has work, it moves on. It is weak
fairness of `Step` with the enabling condition written out. Nothing is assumed
of clients: a request may never be added or aborted. The liveness run has prompts shorter than
the model length and a pool that holds one request of full length.
In `EngineClient` every thread of the library goes on while it can, and so
do a consumer that has called and an abort that has begun. Nobody has to call, abort or
shut down, and a step need not throw. Strong fairness of a step that serves a given
request is what the scheduler promises: `ComesToRest` of `Scheduler`,
under its own weak fairness. In `Threadpool` and `PlanCache` every thread goes on while it
can. Taking a mutex is strongly fair: a mutex that is given back again and again is had in the end by who waits for it,
which `std::mutex` does not promise but its holders, who do not loop on it, make so. A worker may poll for any time, sleep, and wake up
spuriously; nothing makes it stop polling.

### Findings

* `priority_dropped`: under the priority policy a running request that is itself the victim ends the running
  loop; the requests behind it are left out of the step, lose their rows in the runner's
  batch, and are scheduled in the next step as cached requests, without a row.
  `update_from_output` throws and the engine dies.
* `priority_undo`: a priority victim undone in the step that scheduled it leaves
  blocks in the prefix cache whose KV was never computed.
* `device_scatter`: on CUDA with asynchronous scheduling the host moves rows of `last_sampled_tokens` while the scatter and the combine of an
  earlier step are still queued.

### Disagreements met and not kept as runs

These are read off the code while modelling; the constants keep the runs clear of them.

* A queued batch refers to requests by id only (`core/sched/scheduler.cpp:462`). An id that is aborted
  and submitted again while a batch is queued receives its predecessor's token. `Reused` is empty in the
  asynchronous runs.
* `abort` frees the id and ends the consumer's stream before it tells the core
  (`engine/async_llm.cpp:130`). A caller that submits the id again, as `tests/vllm/v1/test_async_llm.cpp:306`
  has it ("Reusing an aborted external id is valid once cleanup completes."), can overtake the abort; the
  scheduler gets a second request under a live id. `ReuseAborted` is FALSE in the runs.
* With a prompt of `max_model_len` tokens and its first token in flight the running loop computes −1 new
  tokens and schedules them (`core/sched/scheduler.cpp:172`, against the assertion at line 458).
* `check_stop` lets `min_tokens` gate the length cap (`core/sched/utils.cpp:19`); a request whose
  `min_tokens` reaches past the model length stays in `running` for ever, against the
  C API's comment that generation is capped by `max_model_len` (`src/capi/vllm_c.cpp:132`).
* On the asynchronous path no penalty sees what was sampled. `worker/runner.cpp:1063` has it that
  "host token bookkeeping for detok/penalties is fed by the scheduler's update_from_output"; for the penalties
  nothing feeds it.
* A warm-up that fails clears the frozen flag of the process, a read-only one of another engine's included
  (`src/vt/cuda/cuda_matmul_nvfp4_cutlass.cu:681`); that engine then tunes on a miss, where
  `.agents/specs/nvfp4-persistent-plan-cache.md:140` has a frozen miss rejected "before any tuning".
* Two processes that save one plan file at once lose the plans of the first: the merge reads the file
  when the session begins.
* The decode-graph path of `qwen3_5.cpp` copies token ids on the host while the combine that
  splices them may still be queued.

Hazards left out of the list because the instances cannot show more than the text: a prompt that needs more blocks than
the pool has is never admitted and under FCFS keeps everyone behind it waiting; a prompt longer than
`max_model_len` gets slots for that many tokens only and is then cached past its table; an allocation that fails
in the output handler ends it by way of `HandlerFails`, which is in the model.

## 5. Proofs

`KVCache_proofs` proves, for every number of blocks, block size, finite set of requests, set of
non-empty prompts, model length and watermark, with caching on or off: `TypeInv`, `PoolExact`,
`TablesAgree`, `SlotsCoverComputed`,
`NoFault` and `EvictionOrder` are invariants of `KVCache`. The assumptions are `PoolAssumption`,
`ManagerAssumption` and `ClientAssumption`, which TLC evaluates in every run.

None of these invariants is inductive alone. `NoFault` holds because a checked
allocation finds as many free blocks as the check counted; that count is right
only if the free list has no block twice and exactly the unowned blocks, which freeing keeps only if a count reaches zero when
the last owner leaves, which in turn needs tables without
repetition. A lookup returns such a table only if distinct hashes lead to distinct
blocks. `cache_full_blocks` does not throw because the tail of a table
carries no hash, and that stays so because nobody else
owns it, and because the number of cached blocks never exceeds the known tokens. `IInv` is the
conjunction, with `num_cached_block` bounded by table and tokens, and it is inductive. That the
blocks counted as common are common follows from it: a block with as many owners as there are
tables is in all of them, at the place its hash, or its only owner, gives it.

`EvictionOrder` rests on `Evicting`, a conjunct of `Consistent`: in the free list the blocks without a hash
come before those with one, and every free cached block has some block of its parent prefix that is owned or behind it.
Taking blocks, from the front or from the middle when they are hit, thins the list and keeps both (`Thinned`). Giving a table back keeps them
because its blocks are appended last first, those without a hash in front of the list; the parent may then be a
duplicate block of the same content, which is why the invariant asks for some block and not for the one of the table.

* `BlockPool_proofs`: facts about filtering and splitting sequences and about lists that are joined and left, about
  division and finite sets, then one lemma per pool operation; the order of eviction.
* `KVCacheManager_proofs`: `Consistent(k, toks)` and a lemma that every operation of the
  manager keeps it: `FreeKeeps`, `TakeHitsKeeps`, `NewBlocksKeeps`,
  `CacheBlocksKeeps`, `RunningKeeps`, `WaitingKeeps`, `ResetKeeps`,
  `MoreTokensKeeps`. What an allocation leaves where it was and which blocks it gives a hash is `Grows`; the last section is about
  cells and the prefixes they are to hold.
* `KVCache_proofs`: one lemma per action, `NextIInv`, `Invariance`, the theorems.

`EngineClient_proofs` proves, for any calls, ids, kinds of output, stream interval
and number of tokens, that `NobodyLeftBehind` is an invariant of `EngineClient`.
The assumption is `EngineClientAssumption`. Neither of its parts, `NoneAfterSweep` and `NobodyLeftWaiting`, is
inductive. `WaitingAreHeld` carries them: a waiting consumer is registered, or has its end or
an error in its collector already. Then the sweep, which ends all that is
registered, and the error, which goes to all that is registered, reach
everybody who waits; and nobody registers behind them, because `add_request`
looks at the flags again under the lock. `DeliverShrinks` says what every delivery of updates,
by outputs or by aborts, does to the table; `ShrinkingKeeps` that a step that only does this keeps `IInv`;
the steps that do more have a lemma each.

The other theorems on `EngineClient` assume `~ReuseAborted`: no caller uses the id of an aborted
request again. The client's protocol is broken otherwise, see "Disagreements". They are `TypeInv`,
`FinishedIsComplete`, `RequestsHaveBothEnds`, `OneRequestPerId`, and `StreamsAreSafe`, the initial state and the
steps of `ImplementsStreams`. The invariant `Streaming` says where a request and its tokens can be. Of the calls under one
id at most one is open. A request is in one place (`OnePlace`): in the input queue, in the scheduler, or on its way
back as the frame that ends it. The tokens detokenized and those in the frames of the output queue are together,
in order and each once, those the scheduler emitted (`TokensFollow`); an abort that is queued or about
to be sent is for a request that is over (`AbortsAreOver`); and a slot of a collector holds what lies between what
the consumer has and what was detokenized (`Slots`). Over any one of these the
next step of another thread wins, over all of them none does. The actions are grouped by what
they do to the queues, as the head of the module says; each group has one lemma per conjunct. The refinement needs the
invariant where a consumer takes a slot: that what is merged into it continues what was received (`TakingGrows`).

`Scheduler_proofs` proves, for any requests, prompts, limits, budgets and pool, both policies, synchronous and asynchronous, every
safety property of `Scheduler` the runs check. Its theorems assume `Disciplined`:
a prompt is shorter than the model length, prompt and `min_tokens` fit in it, and on the asynchronous path no id is used again.
Without each of these the code does what "Disagreements" says. `OrderIsKept`, `RowsAreFound`, `AllTokensAccounted` and
`CellsHoldOwnTokens` are about FCFS, hence `~PriorityPolicy`.

* `IInv` (`Invariance`). The queues hold who has the status for it, once. A running request owns
  blocks for all it has computed or has been given in this step. For every request, the batches in flight that have
  a row of it are of its present use, and what it has computed is known or is owed to it by one of them.
  So the placeholders bound the tokens in flight, whatever was aborted or preempted since the batch was made,
  and `NeverSamplesPastLimit` and `GrammarSeesAllTokens` follow. A batch may drop a row (`priority_dropped`); then the
  count is too high. `TokensAccounted`, the exact count, therefore has `[]ScheduledHaveRows` as a hypothesis,
  which `RowsAreFound` proves for FCFS and the runs check together with it.
* `ProtocolKept`. The pool is `Consistent` under `Known`, the tokens known of each request, and
  every action is one of `KVCache`'s, under its guard, or a stutter. An operation of the
  manager is shared by the two modules, so what is to be shown is the guard: an allocation asks for tokens that are
  known or placeholders, a release is for a request that owns blocks, what is cached was computed. With it the
  theorems on `KVCache` hold of the scheduler for all constants.
* `PreemptionUndone` and `TypeCorrect` add `Budgets`: the budget left and the tokens scheduled, a fold over all requests,
  add up to the budget of a step.
* `RoomIsLeft`: the check of an admission estimates; hits may be taken from the free list or shared,
  the last block may be partial. That the allocation takes what was estimated is shown block by block.
* `OrderIsKept`: a line is described by the place each request has in it; removing from a line,
  appending to it, and moving the last running request to the head of the waiting ones keep the order of any two
  (`KeptInOrder`).
* `RowsAreFound`: `ScheduledHaveRows` under FCFS. The runner drops the row of a running request that a step leaves out, and a later
  step that schedules it finds none. So nobody who still asks for tokens may be left out. What a request asks for (`Ask`) never grows: a
  chunk makes it smaller, a token that arrives takes the place of its placeholder (`UpdateAsksLess`). Those ahead
  of it only get fewer. Hence a budget that has reached a request once reaches it in every later step, which
  `RowsInv` (checked by TLC on the FCFS configurations of both ways of stepping) says by a bound that does not change: there is a
  function `left` such that at its turn at least `left[r]` remains for *r*, more than nothing if it asks, and less for
  who is behind by what it asks for. A preemption takes the last of the list, so it only ends the loop early for itself; under
  priority it does so for others, which is `priority_dropped`. `AllTokensAccounted` is the exact count
  under FCFS without the hypothesis.
* `CellsHoldOwnTokens`: `KVHoldsOwnTokens` under FCFS. In the middle of a step it does not hold: `allocate_slots` gives a block its hash
  before the forward pass has filled it, and the next admission of the same step may hit it. `HeldInv` therefore says that a cell holds
  its prefix *or is about to* (`Has`): the step has scheduled the position that will write it (`Fills`). It says so of every position a
  running request has slots for and of every block with a hash, in terms of all tokens of a request, those in flight included (`Toks`).
  The forward pass turns the one into the other because no two positions it writes want different prefixes in one cell
  (`OneWantPerCell`), and no hash promises another prefix than its block's owners write (`HashAgrees`). Two things carry it through
  the other steps: nothing that is to be written is taken back, which under FCFS is so because the victim of a preemption is not
  scheduled yet and under priority is `priority_undo`; and a token sampled later never comes before one that is computed (`InTime`),
  which needs the exact placeholders and so `RowsAreFound`.

`PlanCache_proofs` proves `TypeInv`, that `OnePlanPerKey` and `FileIsWhole` are invariants and that `SavedPlansStay`
holds of every step, for any engines, keys, tactics and profiles and any number of failures and
stops (`PlanCacheAssumption`). Its invariant says that one engine at a time warms up; that among
the entries ever made, at most one per key is in flight or ready; that the session of an engine that may save
holds the document the file held, all of it installed; and that what it has written to its temporary
file contains that document. So the rename that replaces the file replaces it by a larger one. That it has the same
tactics too needs a second invariant, `FileIsLive`: a plan of the file is not live before its import, and live
with the file's tactic as soon as an engine warms up or serves. It rests on the first (a plan that is ready stays as
it is) and says besides that no import meets a key being tuned.

`Threadpool_proofs` proves `TypeInv` and `FnOutlivesItsUse` for any number of threads, submitters, calls, rows
and throwing rows (`ThreadpoolAssumption`). The argument counts barriers. Epoch *g* has the barriers 2*g*−2 and
2*g*−1, so `n_barrier_passed` against `n_graph` tells the phase of the call: `AtRest`, `Gathering` (before the
inner barrier) or `Computing` (before the final one); each phase says where any thread can be.
`BarrierCounts` carries the change of phase: the count is the number of threads that wait in the barrier that
is to open, so the thread that finds itself the last knows where all others are.
A thread that leaves the final barrier late may do so while the next call gathers; it is `Free`, and the
next inner barrier does not open without it.

On it rests the refinement, `Spec => ImplementsParallelFor`. A chunk is pending
while the cursor has not passed it or a thread holds it unwalked; no chunk is held twice
(`ChunksAreOwn`); rows of pending chunks have not run and all others have, unless the body threw
(`PendingRows`); who waits at the final barrier has seen the cursor behind the last chunk, or an exception
(`NoneLeft`). That the chunks partition the rows, for any number of rows and threads, is
`ChunksAreDisjoint` and `ChunksCover`. Every action is then a step of `ParallelFor` or a stutter.

`HybridKVCache_proofs` proves what the early return of blocks rests on, for all windows, chunks, blocks and
budgets (`PoolAssumption`, `HybridAssumption`). `GivenBackIsNotRead`: a block that is given back
holds no position a later token reads; with `SkippedAreNotRead` for positions. `HeldWithinAdmission`: the number of blocks
an admission counts at most for a sliding or chunked group covers what the group can hold at any step. Both are
arithmetic of rounding: the window ends inside a block, hence the extra block in the sliding cap; chunks end at a
block, which is why the chunked cap does without. They are about the operators; that every behaviour
uses them rightly is what `WindowsServed` checks.

It also proves that `TypeInv` and `PoolExact` are invariants, for any layouts. The first three parts of `PoolExact` are
not inductive on their own, and neither is the absence of faults. `IInv`, which TLC has
checked on `hybrid_kv_cache`, adds `TableSound`: a table's cached part is a prefix of it, and a real
block behind that part has no hash and no other holder. So
the blocks `cache_blocks` meets are its own and without a hash (`CacheInKeeps`), and what
`remove_skipped_blocks` takes out of the middle of a table leaves no second reference (`RemoveInKeeps`). A lookup yields
only blocks cached under the group's own hashes (`LookupFacts`, over the whole loop of passes), and hashes
of different groups or places differ, so no block is hit twice (`HitsOfGroupsDiffer`): this is what makes the capacity check
exact. The sum of what the groups still need and of the idle blocks they are about to own stays within the free
list from group to group (`OwnKeeps`, `GrowKeeps`), so no group finds the list too short after another has taken
its part. The refusal by which a Mamba group waits for a state of this very step is a cost no pool can pay,
`NumGpuBlocks + 1`, and is recognised as one (`FreeBlocksBound`).
`RefCountsExact` at every state then follows from one lemma about changing one table, `Retabled`.

`LookupIsLongest` is `HitIsLongest` for any layout. Of each kind, one lookup serves what the group reads behind the hit
(`Serves`) and is the longest, within the length it was given, that does (`FullReads`, `WindowReads`, `ChunkReads`,
`StateReads`; together `FindIsLongest`): the scans of the four managers differ, the statement does not. Over a pass
two things are kept (`Passed`): the length only shrinks, and no prefix that every group could use is longer.
The lookup ends with a pass that took nothing away, or with the single pass of full attention and one other spec; in both
all groups but full attention have exactly the final length, and full attention, whose hits may be cut
anywhere, at least that (`LastPassAgrees`).

Only model-checked:

* liveness and everything about fairness, which TLAPS does not reach: `ComesToRest`, `ShutdownCompletes`, `NobodyHangs`,
  `LoadingEnds`, and what `ImplementsStreams` says beyond its steps;
* of the scheduler under the priority policy, nothing about rows and cells is proved: `ScheduledHaveRows` and
  `CachedBlocksAreComputed` fail there, in `priority_dropped` and `priority_undo`;
* the properties of `ModelRunner`;
* of `HybridKVCache`, `WindowsServed`, whose invariant has to follow the contents of every block through the steps of all
  requests.

## 6. Not modelled

The rest of the hybrid coordinator and its managers (see `HybridKVCache`), structured output, and the text side of the
detokenizer. Kernels, sampling, attention, model
loading, configuration, tokenizers and the HTTP server: numeric or sequential
code without shared state of the engine. A prompt longer than `max_model_len` reaches
undefined behaviour in `cache_full_blocks` and is excluded by
`SchedulerAssumption`.
