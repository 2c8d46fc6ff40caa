# GEHTP: a TLA+ model of the runtime, the serving path and the memory plan

GEHTP compiles neural networks for a Hexagon HTP and runs them there: a C++
compiler (`src/compiler`) lowers a graph to an op list, a C runtime
(`src/kernels/src/runtime`) executes it on the device, and Python programs
(`src/scripts`) serve it over an OpenAI-like API.

This directory models three parts of it: the runtime's four concurrent libraries; the
way of a chat request from the HTTP handler over a queue of files to the program on
the device; and the memory plan of the compiler with the op list emitted from it and
the executor that runs it. TLC checks all of them. TLAPS proves, for every value of the
constants, the safety of the worker pool, the serving layer and the RPC with its
refinement, the dirty tracking of the boundary flush, and all the safety of the
derived-format cache, of the prefetch ring with its engine, and of the memory plan, the
emission and the executor, up to the values that the operations read.

## 1. The system

Paths are relative to `src/kernels/src/runtime` unless they say otherwise.

| Part | State it keeps | Operations | Talks to |
|---|---|---|---|
| DMA engine (`ring_sim.c`, behind `engine_adapter.h`) | run state, position in the descriptor chain, done bits, broken law | dmstart, dmlink, dmpoll, dmwait; asynchronous progress | memory; called by the ring |
| Prefetch ring (`ring_policy.c`) | group table, five cursors, tail of the submitted chain, failure flag | enqueue, need, release, on_serial_phase, drain_to | engine, by doorbells outside the lock |
| Write tracker (`btrack.c`) | dirty bitmap, version per buffer, DMA tokens, suspect flag | mark_cpu/peer/dma_write, dma_complete, snapshot, clear, merge, register | all writers; flush and cache read it |
| Boundary flush (`bflush.c`) | cost model, statistics | bf_boundary, recalibrate | tracker; the platform's cache flush |
| Derived-format cache (`dcache.c`) | entries keyed (buffer, version, format), LRU order, byte count | get_or_convert, invalidate | tracker's versions |
| Worker pool (`wpool.c`) | circular queue, counters, stop flag, threads | open, submit, wait_all, close; the workers | jobs of the executor |
| Persistent RPC (`scripts/persistent_runtime.py`, `examples/42_gehtp_persistent/main.c`) | one request file and one response file | rpc with timeout; serve loop | server and device |
| Serving (`scripts/gehtp_server.py`, `sessions.py`, `model_registry.py`, `device_runtime.py`) | queue semaphore, sessions, device slot per model, cancel flags | chat (plain and streaming), cancel, reset, load, unload | RPC |
| Memory units (`arena.c`, `kvcache.c`, `rbr.c`, `bledger.c`, `fence.c`) | boundary tags, KV positions, snapshot of recurrent state, byte ledger | alloc/free, append/rewind, snapshot/restore, charge | executor |
| Weight cache (`wtcache_impl.c`) | resident set, streaming ring, pending move-back | load, prime, next, drain | DMA |
| Dual-domain workers (`dd_worker.c`, `dc_*.c`) | chunks, barriers, threads | split, run, join | both DSP domains |
| Op-list executor (`oplist_parse.c`, `oplist_exec.c`) | addresses of the temps, their pool, position | load the table of offsets, run, temp_get, spill, fill, shutdown | all of the above |
| Memory plan (`src/compiler`: `graph_prepare.cpp`, `ddr_offsets.cpp`, `fancy_allocator.cpp`) | execution order, two pools with free lists, place of each tensor | topological sort, first fit by lifetime, spilling | `wtop_emit` |
| Emission (`src/compiler/tools/wtop_emit.cpp`, `wtop_ops/`) | temp of each tensor, free temps, table of offsets | emit with fills, spills and releases | op list file, executor |
| Rest of the compiler | graph, schedule, cost tables | passes, scheduling, tiling, serialisation | the memory plan |

### What is hard about it

* *Prefetch ring.* Descriptors are filled under a lock, but doorbells are rung
  outside it against an engine that goes on meanwhile. A doorbell too near the end
  of the chain is put off, a wake-up can be lost, a deadline can race a transfer, and
  slots and descriptors are reused. Correct means: the engine's laws are never
  broken, no descriptor in flight is rewritten, a delivered group stays readable
  until released, and a waiting caller gets its group.
* *Tracker and flush.* A boundary reads the bitmap, flushes and clears while writers
  keep marking. Correct means: no written block is forgotten.
* *Derived-format cache.* Seqlock style: readers copy without a lock and compare
  versions afterwards. Correct means: nobody is given, and the cache never keeps under
  the current version, a conversion of old or torn bytes.
* *Worker pool.* No condition variables, only polling; the stop flag races the
  queue. Correct means: accepted jobs run once, in order, and all of them before
  close returns; wait_all and close return.
* *RPC.* Two files, no identification of calls, polling on both sides, programs that
  die in between. Correct means: a caller is given the whole answer to its own call,
  a call is carried out at most once and not after it has ended, and it ends.
* *Serving.* Handlers interleave where they await, device steps go on in threads when
  their handler is gone, clients go away in mid-stream, the model is unloaded under
  running requests, and a reset may raise an exception that nobody catches. Correct
  means: permits, sessions and handles are given back, and where they are not it is known
  why; no cancel mark hits a later request; a request sees no tokens on the device but
  its own and those of requests it met there; every request ends.
* *Memory plan and op list.* Four pieces of code compute lifetimes of their own (the
  planner, the allocator, the emitter's release of temps, the executor's pool) and
  must agree. Correct means: tensors that are live together share no byte, and
  every operation reads what its producers wrote, in every run.

The hazards, each with its line and with the properties that cover it, are listed
in `PROJECT.json`; one without a property says why.

## 2. Modules

| Module | Models | Built on |
|---|---|---|
| `DmaEngine` | `ring_sim.c`: engine and its laws | |
| `DmaRing` | `ring_policy.c` | extends `DmaEngine` |
| `BTrack` | `btrack.c`: hooks, versions, tokens | |
| `BFlush` | `bflush.c`, with snapshot and clear of `btrack.c` | extends `BTrack` |
| `DCache` | `dcache.c` | extends `BTrack` |
| `WPool` | `wpool.c` | |
| `DeviceService` | what the host may rely on: the abstract specification of the RPC | |
| `PersistRpc` | `persistent_runtime.py` and the resident program `42_gehtp_persistent/main.c` | implements `DeviceService` |
| `Serving` | `gehtp_server.py`, `sessions.py`, `model_registry.py`, `device_runtime.py` | |
| `MemPlan` | last steps of `graph_prepare.cpp`, `ddr_offsets.cpp`, `fancy_allocator.cpp` | extends `Lists` |
| `WtopRun` | emission loop of `wtop_emit.cpp`, temps of `wtop_ops.hpp` and of `oplist_exec.c` | extends `MemPlan` |
| `Lists` | filtering a list and summing over one, as functions the provers can reason about | |
| `WPool_proofs`, `DmaRing_proofs`, `Serving_proofs`, `PersistRpc_proofs`, `WtopRun_proofs` | proofs | extend the modules they are about |
| `BTrack_proofs` | lemmas on blocks, words, versions and the steps of writers | extends `BTrack` |
| `BFlush_proofs`, `DCache_proofs` | proofs | extend `BTrack_proofs` and the modules they are about |
| `MC*` | instances for TLC | |

In all of them, what the code does under one lock is one step, and a place where
another thread, the engine or a writer can get in is a value of a program counter
(`pc`, `dpc`, `thr`, `wpc`, `opc`, `fpc`, `rd[r].pc`, `wr[w].pc`).

**`DmaEngine`.** `st` is IDLE, RUN or RETIRE, `cur` the descriptor the engine is
at, `nxt` and `done` the fields of the descriptors, `mem` what the transfers have
left in the slots. The operations of the adapter (`DmPoll`, `DmWait`,
`DmWaitStart`, `DmLink`) are operators used by the ring's steps; `EngComplete` and
`EngRetire` are the engine's own progress. Time is abstracted to order. `law` is
the number of the first law that the assertion layer finds broken (L1 dmstart of an
engine that is not idle, L5 a descriptor outside the pool, L6 a doorbell in the
RETIRE window, L7 dmlink with a slack below two); the engine is frozen from then on.
L2 and L3, what a link does to an idle and to a running engine, are its semantics;
L8 (dmwait before dmstart) is the shape of `DmWaitStart`. L4, a minimum gap
between doorbells, is left out, since ringing one advances the clock by more than
that gap; so are the injected faults of the
simulator other than the lost wake-up, which `MaxLost` bounds. Alignment is left out:
descriptors are indices.

**`DmaRing`.** The cursors, `state`, `fire_tail` and `fire_tail_pred` are the
fields of `ring_policy`. `claim` takes as many groups as window and depth allow in
one step, since it holds the lock; `fire` is `FirePoll`, `FireRing` and
`FireCommit` per group, since it holds none: another caller can get in between. The
engine cannot when there is one caller (`ClockRuns`), because the clock of `ring_sim.c`
advances only inside calls of the adapter; so the runs do not have a poll that is
stale when its doorbell is rung. The wait loop of `ring_need` is `NeedTop`, `NeedClaim`,
`NeedSpin` and the deadline branch `NeedRekick` or `NeedGivesUp`; `ring_drain_to` loops over
`ring_need` and `Release`. `ShortDeadline` says whether a deadline may expire while
the engine is running; with FALSE, deadlines are generous, as the 60 ms that the
examples pass are.

**`BTrack`, `BFlush`.** `bits` is the bitmap, `unflushed` the blocks whose bytes
have changed since they were last flushed (a history variable). A CPU write stores
and then marks, a DMA write marks, takes a token, and its data lands later; writes
known to another source are stored and then merged in (`bt_merge`). A mark
is one step in LOCK mode, one step per word otherwise. `bf_boundary` takes the
snapshot (word by word and twice in ATOMIC mode), `Flush` builds the ranges,
compares the costs and flushes, `ClearBits` clears (by load and store in SHARD
mode). `FlushPart` is a caller that flushes a part of its snapshot itself and clears it
with `bt_clear`. The decision is made under any tuning (`Tunings`), since the setters
may be called at any time. Flushing several ranges is one step: a write that meets its
block after that block's range was flushed is a write after the flush. Three history
variables tell how a block can lose its bit: `touched`, the blocks written or being written
since the flush of the boundary under way; `raced`, what of them the clear took; `missed`,
the blocks of a snapshot that the ranges of a directed flush left out. Each forgets a
block that is flushed or written anew, so that the exceptions do not outlive their cause.
`bump_versions` advances all overlapping buffers in one step.

**`DCache`.** An entry holds the blocks it was converted from, because a conversion
is a pure function. The copy goes block by block, so a writer can tear it;
`Publish`, under the lock, does the choice of the slot, the eviction for the byte
budget and the insertion. A call that hits keeps the slot it has found, a call that
converts its copy. The hash slot of the direct-mapped strategy is any slot. The counters
`e->lru` are kept as the relation `older`, which entry was used before which. The loop
that drops victims until the result fits is a set (`MakeRoom`): an entry is dropped
if dropping all that `pick_victim` takes before it (`Sooner`) is not enough.

**`WPool`.** The owner opens (any thread may fail to start), submits, waits for all
jobs or closes; each worker polls, takes, runs, counts, or finds the queue empty
and reads the stop flag in a second critical section.

**`DeviceService`, `PersistRpc`.** `DeviceService` says what the layers above take for
granted: a call is open from its invocation to its end, the device carries it out at
most once and only while it is open, and a call that succeeds returns the answer to
itself. A call may fail whether or not it was carried out. The state on the device is
the number of steps since its last reset. `PersistRpc` has one step per adb command
and per file operation of the device: `RmResp`, `Push` (in parts), `Poll`, `Pull`,
`Take` and `Deadline` of `_rpc`; `Boot` and `Loaded` of `main`; `TakeRequest`,
`HeaderRead`, `BodyRead` and `Claim` of `take_request`; `HandleRequest`; `WriteResp`.
A file is what it holds and how much of it is there. The id of a call is a history
variable: it is in neither file. Commands and writes may fail (`PushFails`,
`RmFails`, `Pull`, `WriteFails`), the program may die anywhere (`Down`) and is started
again (`Launch`, `Retry`), attached to (`Attach`) or stopped (`Stop`, `Stopped`). The
refinement mapping is `open <- cid`, everything else keeps its name.

**`Serving`.** `pc` is the await at which a request's handler is, `thr` the thread of its
device step, `loop` a handler that holds the event loop in a blocking call. `free`,
`waiters` and `queued` are `RequestQueue`, with `asyncio.Semaphore` handing a permit to
its first waiter. `cancelled` and `handles` are the runtime's, `devSlot` and `status` the
model's, `load` the thread that loads it. `mix` says whose tokens are in the state on
the device; `met` remembers, for each request, which others were active there while it
was (all of them if its own reset failed, since anything may be left then). The RPC is
taken as `DeviceService` describes it: `ThreadRun` succeeds once or fails, and `ResetSlot`
succeeds, fails with the `DeviceRuntimeError` that all its callers ignore, or raises
something else: `subprocess.TimeoutExpired` of an adb command that hangs
(`persistent_runtime.py:112`). What it raises leaves a generation that is not streamed
through `except Exception` (`Abort`: permit and handle are given back, the session stays
active), and a stream through its `finally`; in that `finally` it passes the releases by
(`EndWithout`). `EndWithout` is also the end of a stream whose client is gone before it begins,
and of a handler that is cancelled at an await of a generation that is not streamed, since
`CancelledError` is no `Exception` (`CancelHandler`). That the server cancels handlers of
clients that left is external: the code allows for it in `acquire` (`except
BaseException`), though uvicorn, which line 872 runs, does not do it of its own accord.
`Lost` are the requests that ended in one of these three ways.

**`MemPlan`.** `KahnPop` and `OrderDone` are the topological sort of `do_prepare2_late` on
its explicit stack; `Place` is one round of `allocate_with_lifetime` (recycle the dead,
first fit, else raise the mark, else spill), first for VTCM, then for DDR (`PoolDone`),
and `SpillOffset` is `finalize_spills`. Graphs, sizes, scheduler's orders and budgets
are all those of the instance.

**`WtopRun`.** `Emit` is one round of the emission loop: fills, the operation with a fresh
or recycled temp, its entry in the table of offsets, its spill, the release of inputs
with no later consumer. `RunOp`, `RunSpill` and `RunFill` execute the list with
`temp_get`. `mem` maps an address to the operation and the run that wrote it, or to
`Garbage`, which an operation produces when it did not find its producers' values, so
that a wrong value is seen wherever it goes. `ValuesRight` says that there is no
`Garbage`, for the lists that `PlanMeant` describes: the table of offsets gives each
tensor its planned place, a plan's order was emitted as it was planned, and at most one
tensor is spilled by DMA.

## 3. Runs

| Run | Bounds | Shows |
|---|---|---|
| `dmaring` | 2 slots of 2 descriptors, 3 groups of 1 to 3 descriptors, 1 lost wake-up | `TypeOK`, `RingInvariants`, `LawsKept`, `NoReuseInFlight`, `ReadyIntact`, `NeedDelivers`, `CallsReturn`; deadlock is checked |
| `dmaring_rekick` | short deadlines | *violation* of `LawsKept` |
| `bflush` | 4 blocks in words of 3, 2 writers, 2 writes (DMA, merged), granules of 1 and 2, LOCK and ATOMIC | `TypeOK`, `DirtyAccounted`, `SnapshotSuperset` |
| `bflush_ranges` | 4 blocks, 1 writer | *violation* of `NoLostDirty` |
| `wpool` | 3 workers, queue of 2, 6 jobs | `TypeOK`, `QueueIsFIFO`, `RunOnce`, `WaitSound`, `CloseComplete`, `JobsRun`, `CallsEnd` |
| `dcache` | 2 readers, 1 CPU write, 2 formats, 2 entries, LRU and direct | `TypeOK`, `Coherent`, `BytesAccounted`, `ReturnsCurrent`, `CorpsesFirst` |
| `rpc` | 1 caller, 3 calls, the device program ends twice | `TypeOK`, `AnswerMatches`, `Implements` (the refinement), `CallsEnd`; deadlock is checked |
| `rpc_startup` | 4 calls, loading may outlast a ping | *violation* of `ResetDone` |
| `serving` | 3 requests, one of them may stream and leave, 2 permits, 1 place in the queue, 2 steps of that request and 1 of the others | `TypeOK`, `PermitsConserved`, `SessionsClosed`, `NoPoison`, `Isolated`, `RequestsEnd`; deadlock is checked |
| `serving_leave` | 3 requests, 1 permit | *violation* of `PermitsReturned` |
| `memplan` | all graphs of 4 operations, sizes 1 and 2, all orders, no plan, DDR 3, DDR 3 and VTCM 2; 2 runs | `TypeOK`, `NoLiveOverlap`, `PlanFits`, `ValuesRight`, `EmitsAll`, `PoolSteady`, `OrderKept` |
| `memplan_temps` | 5 operations of size 1, topological orders, DDR with room for all | *violation* of `ValuesIntact` |

### Why the bounds are enough

* Ring: three groups on two slots reuse a slot while the other is in flight, spans of 1 and 2 give both forms
  of the slack test, and 3 is refused by claim; FireDepth 1 with the boost makes the
  depth gate bite. One lost wake-up is what the re-kick is for (`rekicked` allows
  one per need).
* Flush: two words, the second one not full, make the two-pass read and the
  word-by-word mark interleave; two writers overlap on a word. Four granules are the
  least on which `build_ranges` leaves a block out, so `missed` is met. A DMA write marks
  before its data changes, a merged one after; a CPU write is as the latter with a version
  to advance, which the boundary does not look at (`dcache` has CPU writes). `Parts`, what
  a caller of `bt_clear` flushes itself, are a part of a word and one that spans both.
* Pool: the queue fills, wraps three times and three workers race for it.
* Cache: a buffer of two blocks can be torn; one write gives an old and a new
  version, for two formats that do not fit together in both. A second write
  multiplies the states without a new relation between a reader and a version:
  a reader only asks whether the version moved.
* RPC: with three calls a late or stale answer can meet the next call and the one after
  it; two ends of the program allow a crash, a restart and a crash of what was
  restarted. `rpc_startup` has four: the pings of the start and a reset behind them.
* Serving: two permits let two requests share the device while a third waits, is woken
  or is refused by the full queue. Two steps are a first and a last one; the requests that
  are there to be met take one. Only one client may leave or stream: the cleaning up of two
  of them differs in nothing but their order. So one permit of two is lost at most, and
  `RequestsEnd` is checked in full.
* Memory plan: four operations give a chain, a diamond, a skip over two positions and
  two sources; with sizes 1 and 2 and budget 3 a freed range is reused in part, whole or
  not at all, and tensors fall from VTCM to DDR and from DDR to the spill area. The
  reserve is smaller than a list may need, so `temp_get` also fails. The second run, with or
  without a shutdown in between, is the one in which stale temps could show.

`CHECK_DEADLOCK FALSE` stands where the system may stop: writers have made their
writes, the pool is closed, the runs of the op list have been made.

### Fairness

* `DmaRing!FairSpec`. A caller in a call keeps running (weak). Every spin and every
  doorbell advances the simulator's clock by a fixed amount, so a transfer that is
  waited for ends and a deadline that is waited for passes: strong fairness of the
  engine and of the deadline, which are not enabled all the time.
* `WPool!FairSpec`. Threads keep running, and jobs return (weak fairness of each
  worker); the owner finishes the call it is in. Nothing makes it submit or close.
* `PersistRpc!FairSpec`. A host thread that is in an operation goes on, and so does the
  device program while it lives: both are plain loops with sleeps. Nobody has to make
  a call, and nothing has to fail; a deadline passes when no answer is on its way.
* `Serving!FairSpec`. The event loop runs every handler that can go on, threads run,
  the loading thread runs. Clients do not have to arrive or leave.

### Findings

1. `dmaring_rekick`. The re-kick is dmwait and dmstart, but dmwait returns at once
   while the engine runs: a deadline shorter than the transfer breaks law L1, and
   the ring is degraded for good. `ring_policy.h` promises a re-kick only once the
   engine is known to be idle.
2. `bflush_ranges`. `build_ranges` compares a granule with `run_start` plus the
   length of the range, but `run_start` is the last granule met: dirty granules 0, 1
   and 3 give the range [0, 3), granule 3 is not flushed and its bit is cleared. It is the
   only thing beside a race that loses a block (`DirtyAccounted`).
3. `rpc_startup`. A ping that times out while the device still loads its blob leaves its
   request behind. The late pong is then the first thing that the next call finds: a
   reset returns success that the device has not carried out.
4. `serving_leave`. Permit and session are taken before the stream exists and given
   back only by the generator's `finally`, which does not run if the generator was never
   begun. Each such client costs one permit for good, and so do the other two ways of
   `Lost`: a reset that raises in that `finally`, and a handler cancelled in a generation
   that is not streamed. `PermitsConserved` says that there is no fourth.
5. `memplan_temps`. A temp that is recycled keeps the offset of its first tensor. The plan
   has meanwhile given that place to another tensor, so an operation may write over its
   own input. Both overlap checks look at the plan, not at the temps.

### Known limits

What the passing configurations leave out or except, because the code does not have the
property there:

* SHARD mode of the tracker: the clear takes no shard lock and undoes a concurrent
  mark (`btrack.c:247`). `bflush` runs LOCK and ATOMIC.
* In every mode, a block of the snapshot that is written between flush and clear, or by a
  write under way at the flush, loses its bit. `DirtyAccounted` excepts exactly these blocks
  (`raced`), and those that the ranges leave out (`missed`, finding 2).
* A memory that is no multiple of the block size has a last part without a bit
  (`TailBlocks`): writes there are never recorded, and only a full flush, or a granule
  that happens to reach there, flushes them. `DirtyAccounted` is about blocks with a bit;
  the runs have whole blocks.
* `ReadyIntact` is about groups that fit their slots (`FitSlots`: spans of one
  descriptor). A group larger than `slot_bytes` is transferred to its slot and the memory
  behind it (`ring_policy.c:73`), where other groups have theirs.
* A DMA write advances the version before its data lands (`btrack.c:145`): a reader in
  between caches the old bytes under the version that stays current. `dcache` has
  CPU writers, for which `Coherent` holds.
* DMA spills leave the offset out (`wtop_emit.cpp:525` and `:552`): all of them share offset 0.
  `ValuesRight` excepts lists with more than one, and lists whose table disagrees with
  the plan (finding 5).
* The topological sort counts an edge only if its producer comes first
  (`graph_prepare.cpp:628`), so it keeps the inversions of an order that has some;
  `wtop_emit` then stops with an error, or sorts once more and emits an order for which
  the plan's lifetimes were not computed: a tensor may then be placed over another
  that is still needed. It takes five operations, which the proof of `ValuesRight`
  found and the bounds of `memplan` do not reach. `OrderKept` and `EmitsAll` are about
  orders that respect the edges, and so is `ValuesRight` when there is a plan. The
  comment at `wtop_emit.cpp:433-434` says that the sort guarantees a topological order;
  for the others it does not.
* Two threads in `_rpc` take each other's answers; the runs and theorems have one. And two
  requests to one model share its slot: the reset of the second wipes the state of the
  first, and both add tokens to it. `specs/001-openai-serving/spec.md:83` promises for
  concurrent requests to one model "Serialize at host level with per-request KV-cache
  isolation", and `plan.md:31` there a queue with serial scheduling. The code does neither:
  four requests run at once (`MAX_CONCURRENT_REQUESTS`), and nothing serialises their calls.
  `docs/GEHTP_OPENAI_SERVING.md:28` concedes the shared slot as a limit of the prototype.
  `Isolated` therefore allows the tokens of requests that were met.
* A step of another request may see the mark that a leaving client has set before its
  reset clears it, and fails; `NoPoison` is about marks that stay.
* A push that fails after the header has been written (fault `push_fails`) leaves a request
  that the device may carry out after the call has failed.
* `Coming` takes the timeouts of calls to be longer than the device needs for a request;
  only loading may take longer, in `rpc_startup`.
* A client that leaves during the last chunks leaves its session counted as active
  (`completed` is set before they are sent): `SessionsClosed` excepts the outcome `late`.
  It also excepts `aborted`, a reset that raises in a generation that is not streamed
  (`gehtp_server.py:760` releases without failing the session), and the requests in `Lost`.
* The kill of `stop_server` ends the device program at once (`Stopped`). The comment at
  `persistent_runtime.py:213-215` tells of a session on the DSP that goes on answering for
  tens of seconds after a kill; no property is stated about the calls that would meet it.
* `CorpsesFirst` is about publishers of the current version; one that was overtaken
  may drop an entry still of use.

## 4. Proofs

**Worker pool** (`WPool_proofs`): `Spec => []TypeOK`, `[]QueueIsFIFO`, `[]RunOnce`,
`[]WaitSound` and `[]CloseComplete`, for all `NWorkers`, `Depth` and `MaxJobs`
allowed by `PoolAssumption`. The inductive invariant `IndInv` adds to them: the tail
is `qcount` behind the head modulo `Depth` (`Circular`); every taken job is finished
or being run (`Taken`); `done` is the cardinality of the finished jobs that nobody
has yet to count (`Counting`), without which a `done` that has reached `njobs` says
nothing about *which* jobs are finished; and what the owner's place implies
(`OwnerInv`), such as the empty queue after the first loop of close. `WaitSound`
follows by comparing the cardinalities of `Counted` and of all jobs.

**Prefetch ring** (`DmaRing_proofs`): `Spec => []RingInvariants` for any number of
slots, descriptors, groups and any spans, with one caller (`OneCaller`). The
inductive invariant `RingInd` says how the cursors cut the groups by state
(`Shape`), that claimed groups fit their slot (`Fits`), and that a caller about to
ring a doorbell has a group to ring it for (`Calls`). Nothing is assumed of the
engine but that it does not write the ring's variables: the result covers late and
lost wake-ups and a frozen engine. `OneCaller` is needed: with two callers in `fire`,
both commit the same group and `n_fired` overtakes `n_qsub`.

**Ring and engine** (`DmaRing_proofs`): `LawsKept`, `NoReuseInFlight` and `ReadyIntact`
under `Generous`, one caller and `ShortDeadline = FALSE`, and `TypeOK` with one
caller only. The deadlines matter: the re-kick of a deadline that passes in
mid-transfer breaks law L1, which is what `dmaring_rekick` shows. Doorbells may be
lost as often as one likes. The invariant `ChainInv` has to say what the pointers
in the pool look like, and its centre is where the engine is (`EngineAt`):

* parked, every submitted group is at rest (`Rested`): delivered, with the group linked
  behind it delivered too (`Over`), or untouched because its doorbell was lost;
* `Running(o, y, e)`: it was started at group `o`, first linked to `y`, and walks the
  line `o, y, y + 1, ... Top`; it is in group `e` of it, what is before `e` is done and
  what is behind it is not, the groups beside the line are at rest, and `fire_tail`
  and `fire_tail_pred` are the last two descriptors of the line (`TailsKnown`). `y` is
  not always `o + 1`: a re-kick starts at a group in the middle;
* `Rerun(e)`: it walks once more over delivered groups, since the re-kick was for a
  group behind one whose doorbell was lost. No link is possible then: the tail is done.

Law L7 is the hard one. dmlink looks for the tail's predecessor by walking from
`E.head`, which may be a slot that another group lives in by now. `LinkSafe` finds
that group (`Tenant`): it is on the line, and then the walk ends just before the tail and
`slack2` has looked at that very descriptor; or it is queued, and nothing of it
is done. The last descriptor of a walk exists because source group and place grow
along it (`Greatest`, from the well-foundedness of the naturals).
`y <= o + NSlots` in `Begun` is what keeps that tenant from being a group beside the
line, which could be delivered and would freeze the engine.
`InFlightCorrect` takes the groups ahead of the engine as a set that the chain does not
leave (`FlightGroups`), and `ReadyCorrect` adds what the memory holds (`MemOK`) and that
groups before `n_rel` are gone (`RelGone`).

**Serving** (`Serving_proofs`): `TypeOK`, `PermitsConserved`, `SessionsClosed`,
`NoPoison` and `Isolated`, for any finite set of requests, any `MAX_CONCURRENT`,
`MAX_QUEUED` and `MaxSteps`. The first two of the parts that `IndInv` adds are about the
queue: a permit is free only if nobody waits for one, the waiters are exactly the
handlers at that await, and `queued` is the number of the handlers there or just
woken (`Permits`); without the middle one, the permit that a release hands to the first
waiter could go to a request that has left. `Places` says what a place in the handler implies
for session and KV handle, `LoopHeld` that the handler which holds the event loop is
the one between cancel and reset, so that no other mark can be set, and `Known` that of
two requests active on the device each has met the other, threads of dropped ones
included, and that the state there holds no tokens of anybody else. `PermitsConserved` and `SessionsClosed` hold without a condition: `Places`
and `Permits` follow each request to its one end, and the three ends that pass the releases
by add it to `Lost` in the step in which it stops being a holder. What the documentation
promises, that no permit is lost (`PermitsReturned`), is false, which is the finding of
`serving_leave`. `ServingAssumption` takes the requests to be finitely many and different
from `Nobody`, the empty holder of the loop.

**RPC** (`PersistRpc_proofs`): `TypeOK`, `AnswerMatches`, `ResetDone`, and the
refinement `Spec => Implements`, for any number of calls and of ends of the device program. The
hypothesis `Usual` is one calling thread and neither fault: with two threads,
with a push that fails in the middle or with a load that outlasts a ping the
properties are false (`rpc_startup` and the known limits). The invariant follows one call
through the files: before its push nothing of an earlier call is left that a
running program would read (`QuietInv`), during the push the file is a prefix of
the caller's own request (`PushInv`), and while it polls, request file, device program and
response file hold that call between them once (`PollInv`, `FetchInv`). Ids are used in
order (`InOrder`), which is what lets a new call differ from all before it. The
refinement maps initial states to initial states, `HandleRequest` to the abstract
execution, the steps that end a call to its return, and every other step to a stutter.

**Boundary flush** (`BFlush_proofs`): `TypeOK` and `SnapshotSuperset` in all modes, and
`DirtyAccounted`, for any number of writers, blocks, words and granules. Nothing is assumed
of `build_ranges`: it is left unexpanded, and what its ranges leave out is in `missed`. Nor is
anything assumed of the end of the memory. The property itself leaves SHARD mode out,
where the clear undoes marks. So the theorem says that the protocol of snapshot, flush and masked
clear loses nothing by itself, and that a `build_ranges` which covers its snapshot would make
`missed` empty. The invariant `DirtyInv` adds that what a hook has set so far stays set, word
by word, unless a boundary has taken it (`MarksKept`), and what the snapshot means at
each place of the boundary (`SnapshotUsed`): until the flush its bits are set; after
it, whatever of it is dirty was left out or is written meanwhile.
`TrackAssumption` takes the writers to be finitely many, for the set of DMA writes under way.

**Derived-format cache** (`DCache_proofs`): `Coherent`, and the action property
`ReturnsCurrent`, for any number of readers, writers, buffers, blocks, formats and
entries, under `CpuWrites`: a DMA write advances the version before its data
lands, and then the properties are false (known limits). The invariant `CacheInv` says
of every entry, and of the private copy of every call, that its version is at most the
current one and that, if it is the current one and no write is in flight between store and
version, its bytes are the buffer's (`MadeFrom`). It holds of a copy that is only
half made too, which is what makes it inductive while writers tear the copy.

`TypeOK`, `BytesAccounted` and the action property `CorpsesFirst` are proved for writers
of every kind. Their invariant `BooksInv` has two parts.

* `DataOK`: the calls and entries have their types, and a block has changed at most as
  often as there were writes. That needs `StoresBounded`: every write stores once, the
  DMA write when it lands, so the changes of a block and the writes that have still to
  store are together at most the writes begun.
* `BooksOK`: `older` orders exactly the valid entries, and `bytes_used` is what they
  take up.

What entries take up is counted as a set of cells, so that disjoint sets of slots add up by the
theorem on the cardinality of unions (`WeighUnion`) and no induction over the entries is
needed. `CorpsesFirst` rests on two facts about `Sooner`: an entry of an old version
goes before every other, and what goes before it goes before every other too. So if an
entry that is still of use has to go, not enough was free after all those of old versions.

**Memory plan, emission and executor** (`WtopRun_proofs`): all that the run `memplan`
checks, for any number of operations and runs, any edges, sizes, scheduler's orders and
budgets: `NoLiveOverlap`, `PlanFits`, `OrderKept`, `EmitsAll`, `TypeOK`, `PoolSteady` and
`ValuesRight`. The assumptions are `PlanAssumption` and `RunAssumption`: sizes are
positive, budgets natural numbers. The invariant comes in four layers, each of which
uses those before it.

* `PlanInv`, the planner. `KahnOK` says which edges are still to be counted (`Pending`), so
  that an order that respects the edges is never left with an operation over.
  `PlaceOK` says of a pool that its free ranges and the ranges in use are disjoint and
  lie under the high-water mark (`PoolOK`), that every tensor placed so far is in use
  or dead before all that are still to come (`Tracked`), and that the requests come in
  the order of their first use (`Rising`). Without the last two, a range that is
  handed out again could belong to a tensor that a later request still meets;
  `NoLiveOverlap` alone is not inductive.
* `EmitInv`, the emitter. Tensors with a consumer to come have temps that differ
  (`TempsOK`), and the list emitted so far has the operations in order, each with
  sources that were emitted, spills behind their operation, fills before their use,
  and a temp that is used anew only after the last reader of what it held (`CodeOK`).
* `ExecInv`, the pool of the executor. The areas of the temps are disjoint and lie
  behind the static part (`AreasOK`), and the bytes taken from the pool are the sum over
  the temps met so far (`SteadyOK`): that is why a second run takes none.
* `ValueInv`, the memory. A tensor that is still needed is in the area of its temp or in
  its spill place (`HeldOK`), also in the two steps between an operation and its spill
  or a fill and its use (`JustRun`, `JustFilled`). Its step shows that the area written
  is apart from the area of every tensor still needed: two static ones by
  `NoLiveOverlap`, for which the emitted order has to be the planned one; a static and a
  dynamic one by `PlanFits`; two dynamic ones by `AreasOK`.

That last step is where the proof did not go through at first: with a plan whose order
`wtop_emit` had sorted again, two tensors that execution needs together were not live
together in the plan. It is listed under the known limits, and `PlanMeant` excepts it.
Free lists, the emitted list and sums are built with `Select` and `SumTo` of `Lists`,
whose facts follow from induction over the natural numbers, stated for a set instead of a
predicate (`SetInduction`), a form that the provers can instantiate.

**Only model-checked.** Liveness, since the prover has no fairness. What `build_ranges`
computes is a fold over a sorted sequence, an induction that the provers cannot
instantiate: that it leaves nothing out on fewer than four granules is not proved.

## 5. Not modelled

* Parts still to come, see the plan: memory units, weight cache, dual-domain workers,
  the order of the scheduler.
* Of the modelled files: statistics; buffer registration, the version-width hook and
  `bt_merge` in SHARD mode of `btrack.c`; the contents of
  requests and answers; parameter validation, stop sequences, re-registration and more
  than one model of the server.
* Of emission and executor: sizes are in units of 128 bytes, operation ids are
  1 to n, a graph has one output; scratch temps of single operations, operations with
  several outputs, recurrent states, the lazy opening of VTCM, the move to a larger pool
  and the packing of the reserve into 16 bits (`wtop_emit.cpp:579`) are left out. A tensor
  has one size: that the offset of the plan is used only if it was planned large enough
  (`wtop_ops.hpp:162`, for outputs that broadcasting makes larger than planned, 147-151) is
  always so in `Register`. A run fails only when the pool is exhausted (`RunFails`); the
  errors of single operations (`oplist_exec.c:2562`) and of loading the offset table end a
  run in the same way and are left out.
* For good: HVX and HMX kernels (arithmetic on tensors, out of TLC's reach), file
  formats, tokenizer, sampler, metrics, cost heuristics, the compiler's rewriting passes,
  test models, vendored code.

The parts left out for good are by far the larger part of the repository's lines: kernels, tables
of operations, serialisation, tests and generated models have no state machine to
check. The models cover a small share of the lines, the share in which order, failure
and lifetime matter.

## 6. Plan

In this order:

1. Memory units: `Arena` (boundary tags against a reference partition), `KvCache`,
   `Rbr`, `BLedger`. Operators checked against a reference definition.
2. `WtCache`: the streaming ring and its pending move-back; its slots against
   the slots that a caller still reads.
3. `DualDomain`: chunking and barriers.
4. Completion of `BTrack` (registration of buffers), two callers of the ring, and
   the composition of tracker and ring for DMA writes that land late.
5. The scheduler's order as an abstract specification of what `MemPlan` assumes.

Every safety property that the passing runs check is a theorem, under the assumptions that
section 4 names; theorems to come are those of these parts.
