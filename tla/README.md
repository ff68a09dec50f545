# TLA+ models of the scanner engine core

This directory holds TLA+ models of the master/worker scheduler and the
sampling algorithms of the scanner video-processing engine
(`src/scanner/engine/`). It also holds the TLC configurations that check
them. Every definition is translated from the C++ source. The exception is
the parts the spec describes but whose code is not in `src/`: the worker
service and the task sampler. Those are modelled from `spec.md` and marked
`spec_modelled` in `PROJECT.json`.

## 1. Inventory

### Components, their state and their operations

| Component | Source | State | Operations |
|---|---|---|---|
| Master service | `master.cpp` `MasterImpl` | `workers_`, `addresses_`, `table_metas_`, `job_params_`, `bar_`, `total_samples_used_`, `total_samples_`; under `work_mutex_`: `next_task_`, `num_tasks_`, `task_sampler_`, `samples_left_`, `task_result_` | `RegisterWorker`, `IngestVideos`, `NewJob`, `NextWork`, `LoadOp`, `Ping` |
| Task-set validation | `master.cpp` `validate_task_set` | none (pure) | checks the tasks (names, samples, tables) and the op DAG (InputTable first, OutputTable last, registry, kernels, topological order, columns) |
| Dry run of a task | `master.cpp` `get_task_end_rows` | none (pure over the sampler) | runs a task sampler to compute its output table's `end_rows` |
| Row-interval sampler | `sampling.cpp` `slice_into_row_intervals` | none (pure) | splits rows into per-item runs: item id, read range, offsets |
| Video-interval sampler | `sampling.cpp` `slice_into_video_intervals` | none (pure) | splits frames of one video item into keyframe runs |
| Load worker | `load_worker.cpp` `load_thread` | per thread: storage handle, table-metadata cache, `last_table_id`, video index (cleared, never filled) | pop `(IOItem, LoadWorkEntry)`, read video / frame-info / other columns, push `EvalWorkEntry`; stop at item `-1` |
| Video index / column readers | `load_worker.cpp` `read_video_index`, `read_video_column`, `read_other_column`, `find_keyframe_indices` (unused) | none | read keyframe metadata plus sentinels, read byte ranges, slice row blobs |
| Kernels / evaluators | `stdlib/...`, `evaluators/...` | per kernel: e.g. `initial_frame_`, `grayscale_` (optical flow) | `configure`, `execute`/`evaluate`, `reset`, `new_frame_info` |
| Python bindings, pipeline registration | `python.in.cpp`, `simple_pipeline.cpp` | none | glue |
| Worker service, task sampler, save/evaluate stages, storage | not in `src/` | described by spec 4.3, 4.5, 6 | `NewJob` on the worker, `NextWork` loop; `TaskSampler::validate/total_samples/next_work` |

### How they interact

- A client calls `NewJob` on the master. The master validates the task set
  and dry-runs every task sampler. It writes the table and job descriptors
  and resets the `NextWork` state, outside `work_mutex_`. It then writes the
  database meta and sends an asynchronous `NewJob` RPC to every entry of
  `workers_`.
- Each worker, on its `NewJob`, calls `NextWork` in a loop. The master
  serialises these calls on `work_mutex_` and hands out the units of task
  0, then task 1, and so on. When no task is left it answers the sentinel
  (`item_id = -1`). The worker then drains its pipeline and answers the
  master's RPC.
- The master's `NewJob` thread waits on a gRPC completion queue. It takes
  one completion per registered worker. On a failed reply it marks the job
  failed and sets `next_task_ = num_tasks_` without taking the lock (the
  "fast drain").
- Inside a worker, load threads pop work units from a shared queue. Each
  one computes row intervals and video intervals with the two samplers,
  reads bytes from storage, and pushes an `EvalWorkEntry` to the eval queue.

### What is hard

- **Concurrency in the master.** Many worker threads call `NextWork`
  concurrently, and each call holds `work_mutex_`. The `NewJob` thread
  writes the same variables without the lock (lines 379-382 and 433).
  `RegisterWorker` and concurrent `NewJob` calls are not serialised at all.
- **Completion order.** gRPC completions arrive in any order. The loop at
  `master.cpp:422-435` indexes replies by its own loop counter instead of
  by the completion tag.
- **Partial failure.** A worker can fail while others still pull units. A
  task sampler can fail mid-job while other workers are pulling. A job can
  fail after its tables were written to the database meta.
- **State across jobs.** The sampler state in `MasterImpl` outlives a job.
  The next `NewJob` must reset it before its workers call `NextWork`.
- **Boundary arithmetic.** The samplers work on cumulative `end_rows` and
  on keyframe indices with a sentinel tail. They have off-by-one edges at
  item boundaries, at the first keyframe run, and in skips over several
  keyframes.

### What makes each component correct

- **Master**:
  - The units handed out are exactly the samplers' enumeration, with none
    repeated, skipped or invented.
  - The job reports success only if every unit was handed out and every
    worker succeeded.
  - A worker failure is never masked, and after a failure no new task is
    started.
  - After a sampler error no unit is handed out, every worker still gets
    the sentinel, and the job reports the error (spec 7).
  - `NewJob` always returns and every worker is eventually answered.
  - A failed job leaves no tables behind (spec 9).
- **Row sampler**:
  - The runs are the maximal blocks of rows of one item.
  - Re-keyed to global rows, the offsets are the rows asked for (spec 9
    records that the code fails this from the third item on; see below).
- **Video sampler**:
  - Every frame is covered by its interval's keyframe range.
  - The intervals are ascending and separated by skipped keyframes.
  - No interval reads a keyframe run before its first frame (not checked: see below).
- **Load worker**:
  - Every unit popped is pushed exactly once, and every thread stops.
  - Every Video and Other column holds the warmup rows and rows asked for,
    in order, each read from its own item and byte position.
  - Each frame-info row carries the size of its own item.
- **Validation**: a task set is accepted exactly when the spec
  4.4 rules hold, and no accepted DAG makes `op_outputs.at()` fail.

## 2. Plan

In order of importance:

1. **`Master`** (done in this sitting). Models `RegisterWorker`, all of
   `NewJob`'s paths, `NextWork` and the workers as clients. The `NextWork`
   increment is split so that the unlocked drain write can land inside it.
2. **`RowSampling`, `VideoSampling`** (done). The two samplers as operators
   (folds over the row list), checked against reference definitions of
   spec 4.1 and 4.2 over every input up to a bound.
3. **`TaskSetValidation`** (done). `validate_task_set` as operators over
   bounded task sets and op DAGs, checked against the spec 4.4 rules. Still
   to do: a composition in which `Master`'s `NewJobRejected` follows from
   a request drawn from the same space, instead of a free choice.
4. **`LoadWorker`** (done). Load threads over a shared queue with a
   sentinel each; the `EvalWorkEntry` of a unit built from the two
   samplers and the column readers.
5. **`Dispatch`** (done). The abstract job: units handed out once each, in
   order, the sentinel only when all are out or the job stopped, success
   only when complete. `Master` is checked to implement it.
5a. **Sampler faults** (done). `validate()` and `next_work` failing
   mid-job in `Master`, with `Dispatch.Fail`.
6. **Jobs in sequence** (done): `NewJobAgain` in `Master`. Still open:
   two `NewJob` calls overlapping, and `RegisterWorker` concurrent with
   the fan-out. The spec states no contract for either.
7. **Kernels**: not modelled. See section 4.

## 3. Modules and runs

### `Master.tla` (+ `MCMaster.tla`)

Variables map one-to-one to `MasterImpl` members: `nReg` = `workers_.size()`,
`nextTask`, `numTasks`, `samplesLeft`, `sampler` (the task `task_sampler_`
wraps), `totalUsed`, `totalSamples`, `jobResult`, and the loop index `i`. The
remaining variables model the environment:

- `reply`: `replies[]` as filled by gRPC.
- `cq`: tags on the completion queue.
- `rpcSent`: the nodes the fan-out sent `NewJob` to.
- `tableDescs` and `dbTables`: what was persisted.
- `wpc`: each worker's program counter.
- `lockHolder`: the worker whose `NextWork` holds `work_mutex_` from the
  check at line 236 to the store at 243. `tmp` is the value the load of
  `next_task_++` read.
- `crashed`: the master process has died (see `NextWorkOutOfRange`).
- `taskResult`: `task_result_.success()`. It is false in the initial
  state, because a default `Result` is, and `NewJob` sets it before the fan-out.
- History variables: `issued`, `gotSentinel`, `drained`, `samplerError`
  (a sampler has failed).

The actions map to the code as follows:

- `NewJobRejected`, `NewJobDryRunFails(t)` and `NewJobDispatch` are the
  three exits of `NewJob`'s first half.
- `Collect` and `FinishJob` are the completion loop and the return.
- Starting a new task is five steps, because the cq loop writes
  `next_task_` without `work_mutex_` (line 433), so every read of it by
  `NextWork` is a step of its own:
  - `NextWorkCheck`: the check at line 236;
  - `NextWorkNewSampler`: the sampler for `tasks(next_task_)` at 238-242,
    a second read of `next_task_`;
  - `NextWorkInvalid`: the same step when that sampler's `validate()`
    fails;
  - `NextWorkLoad`: the load of `next_task_++` at 243;
  - `NextWorkAdvanced`: the store of that `++`, then `next_work`.

  If the drain lands between the check and the index read, line 239 reads
  `tasks(num_tasks_)`, past the end of the repeated field.
  `NextWorkOutOfRange` models that step. Protobuf does not check the
  index in a release build, and every job here has the same number of
  tasks, so that slot holds no allocated `Task`. Of the outcomes of this
  undefined read, the model takes the crash: `crashed` is set and nothing
  moves after it (`Alive`, `Halted`). A garbage task that happens not to
  crash is not modelled. TLC assumes the compiler emits every load the
  source writes. Reusing the load from line 236 at 239 would remove only
  the crash.
- `NextWorkUnit` and `NextWorkSentinel` are the other paths of
  `NextWork`. `NextWorkSentinel` has two cases: no task can be
  started (lines 246-250), or `task_result_` holds an error (lines 252-255).
- `SamplerStep` is their shared tail from line 257. `next_work` either
  succeeds (`HandOut`: `samples_left_--`, `total_samples_used_++`) or
  fails. On failure `task_result_` keeps the error and the worker gets the
  sentinel (`SentTo`).
- `FinishJob` copies `task_result_` into the job's result (lines 441-446).
- `NewJobAgain` is the client calling `NewJob` again after the previous
  call returned. Spec 1 calls this job-level restart. Only the call's own
  state is fresh: the response, the replies, the completion queue, the
  fan-out and the workers' RPC. `next_task_`, `samples_left_`,
  `task_result_` and the sampler keep what the last job left, for example
  a sampler that failed mid-task, until the new call's `NewJob` resets
  them (lines 337-338, 379-382). `jobs` counts the calls.

Abstractions:

- In `Master`, validation is a free choice. `TaskSetValidation` checks
  validation on its own.
- A task sampler is its unit count.
- The fault model is the sampler failing: for a task in `SamplerMayFail`,
  `validate()` and `next_work` may fail nondeterministically, and never
  for any other task. Spec 4.3, 4.4 and 7 allow this, for example on a
  table read error. It applies in two places:
  - the dry run (`get_task_end_rows`, `DryRunMayFail`), which is the only
    way `NewJobDryRunFails(t)` happens;
  - `NextWork` mid-job, even though the dry run already enumerated the same
    sampler. In `master_safety` that is the last task, of two units,
    which may fail before or after its first unit. No fairness forces a failure.

Bounds: at most four nodes, two jobs in sequence (`MaxJobs = 2`), and three
tasks of 1, 1 and 2 units. Two tasks precede the failing one, so
`next_task_` advances twice before it. The two-unit task is last, so a
sentinel sent while it still has a unit would leave that unit unissued. The second job starts from every state the first
can end in: drained, failed mid-task, or rejected. This is enough
for an advance, a drain while a task is in flight, out-of-order
completions, every node failure pattern, and a sampler failure at every
point of the last task. A sampler failure can also coincide with a worker
failure. `master_safety` runs
`FairSpec`: weak fairness on each worker's steps and on the master's loop,
because these are running threads. There is no fairness on clients,
registrations or failures. Deadlock is checked too: once every worker has
answered and `NewJob` has returned, `Terminated` stutters, so a state with
no step is a real hang.

**Refinement.** `Dispatch.tla` is the job as a client sees it. It has a
phase (`idle`, `running`, `done`), the units `handed` out so far, a
`stopped` flag, the workers `finished` with the sentinel, and `success`.
Its actions are `Reject`, `Start`, `Hand(w)`, `Stop`, `Fail(w)` (the next
unit cannot be produced: the job stops and the asking worker gets the
sentinel), `Sentinel(w)`, `Finish` and `Restart` (the next job). `Master` maps onto it with `DispatchMap == INSTANCE Dispatch
WITH ...`:

- `phase` from `mpc` (`collect` is `running`);
- `handed` is `issued`;
- `stopped` is `drained \/ samplerError`;
- `finished` is `gotSentinel`;
- `success` is `jobResult /\ ~samplerError` while the completion loop
  runs, and `jobResult` before and after. The abstract job counts a
  sampler error against success at once. The code only records it in
  `job_result` at line 442, so the refinement checks that copy.

`DispatchRefined` (the abstract `Spec`) is a `PROPERTY` of
`master_safety`. Each step of `Master` is then one of the following:

- a `Dispatch` step: `NextWorkAdvanced` and `NextWorkUnit` are `Hand`, the
  first failing `Collect` is `Stop`, a failing `SamplerStep` or
  `NextWorkInvalid` is `Fail`, `NextWorkSentinel` is `Sentinel`, and
  `NewJobAgain` is `Restart`;
- a stutter, for every other step.

`Dispatch` lets units go out after `Stop`, because the code does this for
the task in flight. That is why `NoTaskStartedAfterDrain` is a separate,
stronger property.

| Run | Checks | Result |
|---|---|---|
| `master_safety` | `TypeOK`, `FailureNeverMasked`, `DispatchRefined`, `NoWorkAfterSamplerError`, `JobTerminates`, `WorkersAnswer` | pass (34724 states, 441 of them with the master crashed). These hold despite the unlocked drain write and sampler failures. After a sampler error no unit goes out, every worker still gets the sentinel, and the error reaches the job's result. A second job never continues the first job's sampler. The two liveness properties hold unless the master crashed at line 239. |
| `master_assert` | `AllTasksStartedAtEnd` | violation: worker 0 fails, and the cq loop drains while worker 1 is between line 239 and `next_task_++`. The `++` stores `num_tasks_ + 1`, and `assert(next_task_ == num_tasks_)` at line 444 fails. |
| `master_result` | `ResultMatchesReplies` | violation: all workers succeed but out of order, and the job is reported failed (`replies[i]` vs `got_tag`) |
| `master_drain` | `NoTaskStartedAfterDrain` | violation: the drain write is lost inside `next_task_++` and a new task starts after the failure |
| `master_empty` | `DispatchRefined` with a zero-unit task | violation: a default `NewWork` that is not the sentinel is handed out |
| `master_late` | `JobTerminates` with late registration | violation: `NewJob` waits forever on the completion queue |

Two other behaviours are in the model but no run checks them:

- A failed job leaves its tables in the database meta. The code's TODO at
  lines 437-440 and spec 9 both record this.
- With `MinNodesAtJob = 0`, `NewJob` succeeds with no worker and no work
  done. The spec does not say whether a worker is required.

### `RowSampling.tla`, `VideoSampling.tla` (+ `MCSampling.tla`)

The samplers are operators: `ItemFromRow`, `OffsetFromRow` and
`SliceIntoRowIntervals`, and `SliceIntoVideoIntervals`. Each loop is a
`FoldLeft` over the rows with the loop's locals as the accumulator. The
state is the input and never changes, so each distinct state is one input.
The inputs are:

- for rows, every table of up to 3 items of up to 2 rows each (empty items
  included), with every ascending row list (360 inputs);
- for video, every video of up to 6 frames, with every keyframe set and
  every ascending frame list (3516 inputs).

| Run | Checks | Result |
|---|---|---|
| `sampling` (`MCSampling`) | `RowTypeOK`, `RowGrouping`, `VideoTypeOK`, `VideoCoverage`, `VideoRunsOrdered` | pass (3875 states) |

`MCSampling` instantiates both modules. Each state is either a row input
next to one fixed video input, or a video input next to one fixed row
input, so one run checks every input of both functions.

Not kept as a run: `offset_from_row` adds the cumulative `end_rows[i]` of
every earlier item (`sampling.cpp:46`). From the third item on, the offset
is therefore too small: with `end_rows` `<<1,1,2>>`, row 1 gets offset -1
in item 2. Spec 9 records this defect already. The project's runs go to
defects that the spec does not record.

Seen while modelling but not checked by a run: the first interval always
starts at keyframe 0. If the first frame lies in keyframe run 1, keyframe
run 0 is read for nothing. This costs extra reads and does not affect
correctness.

### `TaskSetValidation.tla` (+ `MCTaskSetValidation.tla`)

The module models `validate_task_set` and the read of the last op in
`NewJob` that comes before it.

- A task is `[output_table_name, samples]`.
- An op is `[name, device_type, inputs]`, and each input is
  `[op_index, columns]`.
- The database tables, the op registry and the kernel registry are
  constants.
- `ValidateTasks` is the task loop.
- `OpStep` is one iteration of the op loop, and `OpStepGeneral` is its part
  after the first op. The fold's accumulator holds the loop's locals:
  `op_idx`, `op_names`, `op_outputs`, success, the `break`, and whether a
  `vector::at` threw.
- `ValidateOps` adds the count and end checks.
- `NewJobOutcome` gives the request's result: crash, rejected or accepted.
- `SpecValid` is the reference. It is written from the rules of spec 4.4:
  - `OutputTable` declares no outputs;
  - `InputTable` at index 0 declares its table columns;
  - a registered op declares the registry's columns.

The request space:

- One database table, one registered op `Foo` (CPU kernel only) and one
  unregistered op `Baz`.
- Every list of up to two tasks, over three output names and three kinds
  of sample.
- Every op list of up to three ops, with at most one input per op, naming
  any index in -1..k and one of two columns.
- An `InputTable` op appears only at index 0. The spec leaves open whether
  a later `InputTable` needs to be registered.

| Run | Checks | Result |
|---|---|---|
| `valid_spec` | `TypeOK`, `ValidationMatchesSpec` | pass over 2675 requests: whenever `NewJob` returns, its verdict is the spec's |
| `valid_crash` | `NewJobNeverCrashes` | violation: an empty op list is read with `ops.Get(-1)` before validation. Other crashes in the same space: a negative `op_index`, and an index at or past an `OutputTable` op that is not last, make a `vector::at` throw. |
| `valid_misaligned` | `ValidationMatchesSpec` over four-op lists | violation: `op_outputs` has no entry for an `OutputTable` op, so `[InputTable, OutputTable, Foo, OutputTable(reads "c" of op 1)]` is checked against Foo's outputs and accepted |

### `LoadWorker.tla` (+ `MCLoadWorker.tla`)

The module models `load_thread` and the column readers of
`load_worker.cpp`.

State:

- `loadWork` and `evalWork`: the two queues.
- Per thread: `pc`, the popped entry `cur`, `lastTableId` and the
  `metaCache` table ids.
- `feed`: what the worker service still has to push.
- `units`: the units it was handed. This never changes.

Actions:

- `PushLoadWork`, modelled from spec 4.5: the units, then one sentinel per
  thread.
- `Pop(t)`: lines 236-261, including the `-1` break and the
  `last_table_id` update.
- `Load(t)`: the metadata cache, the `EvalWorkEntry` and the push at
  line 358.

The entry is `LoadEntry`:

- Per sample, it calls `SliceIntoRowIntervals` (instanced from
  `RowSampling`) over the warmup rows followed by the rows.
- Per column id, it calls `LoadColumn`:
  - A Video column gives one `DecodeArgs` row per keyframe run of
    `SliceIntoVideoIntervals` (instanced from `VideoSampling`).
  - The frame-info column uses `ReadVideoIndex(0)` for every item, as at
    line 319.
  - An Other column calls `ReadOtherColumn`, the chunk walk of
    lines 201-212.

Bytes are abstracted to what they stand for:

- a DecodeArgs row is its item and frames;
- a frame-info row is its item and width;
- an Other row is the byte position it was copied from. `RowSize` gives
  rows unequal sizes, so a wrong offset reads another row.

`LoadEntry` depends only on the unit, so `Loaded` tabulates it once.

Bounds:

- A table of two items, of three and two rows, with widths 1 and 2.
  Item 0 has keyframes at 0 and 2.
- Two threads.
- Two units. The first ranges over all 80 choices of non-empty rows with
  warmup rows before them. The second skips row 1 and spans both items.

These bounds give every interleaving of pop, load and the sentinels, gaps
inside an item, runs over both items and several keyframe runs. Two items
keep `offset_from_row` right; see the samplers above.

Fairness is weak fairness on each thread and on the worker's pushes:
threads block only in `pop`, and the worker keeps pushing. The run sets
`CHECK_DEADLOCK FALSE` because the stage really stops once every thread
has popped its sentinel. `LoadTerminates` fails if it stops any other way.

| Run | Checks | Result |
|---|---|---|
| `load_safety` | `TypeOK`, `RequestedRowsDelivered`, `LoadTerminates` | pass (8400 states) |
| `load_frameinfo` | `FrameInfoOfOwnItem` | violation: a unit reading row 2 (item 1, width 2) gets a frame-info row of width 1, item 0's |

The only count of warmup rows passed downstream is the first sample's
(line 268). Spec 9 leaves the per-sample semantics open, so no property
states it.

## 4. Not modelled (yet) and why

- `IngestVideos`, `LoadOp`, `Ping`: ingest is external; `LoadOp` is
  `dlopen` plus forwarding with no shared state; `Ping` does nothing.
- The progress bar, logging and timestamps: output only.
- Python bindings and pipeline registration: glue with no behaviour.
- Kernels and evaluators (optical flow, blur, CPM2, Faster R-CNN parser).
  Spec 1 puts compute kernels out of scope: only their contract with the
  engine (spec 6) is specified. Each kernel instance is driven by one
  evaluate thread, one call at a time. So there is no interleaving, lost
  message or crash for a model to explore, and the rest is numeric code on
  image buffers. The two defects found while reading them are listed as
  hazards:
  - the optical-flow kernel never assigns `initial_frame_`, so the first
    row of each batch is an unwritten buffer;
  - the blur evaluator leaves the border pixels unwritten.
  Both show up in a single call on a two-frame batch, so a unit test
  reaches them as well as a model would.
- `read_video_column`'s byte ranges (`keyframe_byte_offsets`) and the
  DecodeArgs encoding: a DecodeArgs row is modelled as its item and
  frames only.
- Storage back-end retries: not in `src/`.
