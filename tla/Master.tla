------------------------------- MODULE Master -------------------------------
(***************************************************************************)
(* The master service of src/scanner/engine/master.cpp (MasterImpl):       *)
(* RegisterWorker, NewJob (validation, dry run of every task sampler,      *)
(* persistence, asynchronous fan-out of NewJob to the workers and the      *)
(* completion-queue loop) and NextWork (the work_mutex_ state machine).    *)
(*                                                                         *)
(* The workers are the clients of NextWork.  Their code is not under src/; *)
(* they are modelled from the spec (sections 2, 4.4, 7): a worker that     *)
(* receives NewJob pulls units until it gets the sentinel, then replies    *)
(* success; a worker may instead fail and reply non-success.               *)
(*                                                                         *)
(* The task sampler is also outside src/ (spec 4.3): task t emits the      *)
(* units <<t, 1>> .. <<t, TaskUnits[t+1]>> in order; next_work on an       *)
(* exhausted sampler "returns success with no further work", leaving the   *)
(* NewWork at its default (DefaultWork), which is not the sentinel.  The  *)
(* sampler of a task in SamplerMayFail may fail in validate or next_work  *)
(* (spec 4.3, 7: an error while resolving or reading its tables).         *)
(***************************************************************************)
EXTENDS Integers, Sequences, FiniteSets, SequencesExt

CONSTANTS
  MaxNodes,          \* bound on RegisterWorker calls: node ids 0..MaxNodes-1
  MaxJobs,           \* bound on the NewJob calls the client makes, one after another
  MinNodesAtJob,     \* the client calls NewJob once this many have registered
  LateRegistration,  \* whether a worker may (re-)register while a job runs
  TaskUnits,         \* TaskUnits[t+1]: units the sampler of task t emits
  MayFail,           \* nodes whose worker may answer NewJob with a failure
  SamplerMayFail     \* tasks whose sampler's validate or next_work may fail

ASSUME MaxNodes \in Nat /\ MinNodesAtJob \in 0..MaxNodes /\ MaxJobs \in Nat \ {0}
ASSUME LateRegistration \in BOOLEAN /\ MayFail \subseteq 0..(MaxNodes - 1)
ASSUME TaskUnits \in Seq(Nat) /\ SamplerMayFail \subseteq 0..(Len(TaskUnits) - 1)

Nodes    == 0..(MaxNodes - 1)
NumTasks == Len(TaskUnits)
TaskIds  == 0..(NumTasks - 1)            \* next_task_ is a 0-based index
Units(t) == TaskUnits[t + 1]             \* sampler.total_samples()
NoNode   == -1
DefaultWork == <<NoNode, 0>>             \* a NewWork nobody filled in

\* The enumeration of every task sampler, concatenated in task order.
AllUnits == FlattenSeq([s \in 1..NumTasks |-> [k \in 1..TaskUnits[s] |-> <<s - 1, k>>]])

VARIABLES
  nReg,          \* workers_.size()
  mpc,           \* NewJob thread: "idle", "collect" (cq loop), "done"
  jobResult,     \* job_result->success()
  i,             \* index of the completion-queue loop at master.cpp:422
  nextTask,      \* next_task_
  numTasks,      \* num_tasks_
  samplesLeft,   \* samples_left_
  sampler,       \* the task task_sampler_ wraps
  totalUsed,     \* total_samples_used_
  totalSamples,  \* total_samples_
  tableDescs,    \* tasks of the current job whose table descriptor is written
  dbTables,      \* tasks of the current job whose table is in the database meta
  rpcSent,       \* nodes the NewJob fan-out sent an AsyncNewJob to
  wpc,           \* worker: "wait", "pull", "index", "load", "incr", "drain",
                 \* "replied"
  tmp,           \* value of next_task_ loaded by next_task_++ (master.cpp:243)
  lockHolder,    \* the worker whose NextWork holds work_mutex_ across 236-243
  reply,         \* replies[w]: "none" until the response arrives, "ok", "fail"
  cq,            \* tags on the completion queue not yet taken by cq.Next
  issued,        \* history: every non-sentinel NewWork returned, in order
  gotSentinel,   \* history: workers that were answered with item_id = -1
  drained,       \* history: the cq loop has set next_task_ = num_tasks_
  taskResult,    \* task_result_.success()
  samplerError,  \* history: a sampler's validate or next_work has failed
  jobs,          \* the number of the current NewJob call
  crashed        \* the master process has died (NextWorkOutOfRange)

vars == <<nReg, mpc, jobResult, i, nextTask, numTasks, samplesLeft, sampler,
          totalUsed, totalSamples, tableDescs, dbTables, rpcSent, wpc, tmp,
          lockHolder, reply, cq, issued, gotSentinel, drained, taskResult,
          samplerError, jobs, crashed>>

masterVars == <<jobResult, i, nextTask, numTasks, samplesLeft, sampler,
                totalUsed, totalSamples, tableDescs, dbTables, rpcSent, drained,
                taskResult, samplerError>>

TypeOK ==
  /\ nReg \in 0..MaxNodes
  /\ mpc \in {"idle", "collect", "done"}
  /\ jobResult \in BOOLEAN
  /\ i \in 0..MaxNodes
  /\ nextTask \in 0..(NumTasks + 1) /\ numTasks \in 0..NumTasks
  /\ samplesLeft \in Int /\ sampler \in TaskIds \cup {NoNode}
  /\ totalUsed \in Nat /\ totalSamples \in Nat
  /\ tableDescs \subseteq TaskIds /\ dbTables \subseteq TaskIds
  /\ rpcSent \subseteq Nodes
  /\ wpc \in [Nodes -> {"wait", "pull", "index", "load", "incr", "drain", "replied"}]
  /\ tmp \in [Nodes -> 0..NumTasks \cup {NoNode}]
  /\ lockHolder \in Nodes \cup {NoNode}
  /\ reply \in [Nodes -> {"none", "ok", "fail"}]
  /\ cq \subseteq Nodes
  /\ gotSentinel \subseteq Nodes
  /\ drained \in BOOLEAN
  /\ taskResult \in BOOLEAN /\ samplerError \in BOOLEAN
  /\ jobs \in 1..MaxJobs
  /\ crashed \in BOOLEAN

\* next_task_, num_tasks_ and samples_left_ are not initialised by the
\* constructor; nothing reads them before NewJob writes them, so any value
\* serves and 0 is taken.  task_result_ is a default Result: success() is
\* false until NewJob sets it.
Init ==
  /\ nReg = 0
  /\ mpc = "idle"
  /\ jobResult = TRUE
  /\ i = 0
  /\ nextTask = 0 /\ numTasks = 0 /\ samplesLeft = 0 /\ sampler = NoNode
  /\ totalUsed = 0 /\ totalSamples = 0
  /\ tableDescs = {} /\ dbTables = {}
  /\ rpcSent = {}
  /\ wpc = [w \in Nodes |-> "wait"]
  /\ tmp = [w \in Nodes |-> NoNode]
  /\ lockHolder = NoNode
  /\ reply = [w \in Nodes |-> "none"]
  /\ cq = {}
  /\ issued = <<>>
  /\ gotSentinel = {}
  /\ drained = FALSE
  /\ taskResult = FALSE /\ samplerError = FALSE
  /\ jobs = 1
  /\ crashed = FALSE

-----------------------------------------------------------------------------
(* RegisterWorker: appends to workers_ and answers node id size-1.  Workers *)
(* register before the job; with LateRegistration one may also register    *)
(* (a restarted worker process does) while a job is in flight.             *)
RegisterWorker ==
  /\ nReg < MaxNodes
  /\ mpc = "idle" \/ LateRegistration
  /\ nReg' = nReg + 1
  /\ UNCHANGED <<jobs, mpc, masterVars, wpc, tmp, lockHolder, reply, cq, issued, gotSentinel>>

(* NewJob, validate_task_set fails: "No database changes made", return.    *)
NewJobRejected ==
  /\ mpc = "idle" /\ nReg >= MinNodesAtJob
  /\ mpc' = "done"
  /\ jobResult' = FALSE
  /\ UNCHANGED <<nReg, jobs, i, nextTask, numTasks, samplesLeft, sampler, totalUsed,
                 totalSamples, tableDescs, dbTables, rpcSent, wpc, tmp,
                 lockHolder, reply, cq, issued, gotSentinel, drained,
                 taskResult, samplerError>>

\* get_task_end_rows, the dry run of task t, enumerates its sampler: it
\* fails when validate() or one of the next_work calls does, and otherwise
\* yields Units(t) end rows.
DryRunMayFail(t) == t \in SamplerMayFail

(* NewJob, get_task_end_rows fails for task t: the loop breaks after the    *)
(* descriptors of tasks 0..t-1 were written; the database meta is not.     *)
NewJobDryRunFails(t) ==
  /\ mpc = "idle" /\ nReg >= MinNodesAtJob
  /\ DryRunMayFail(t)
  /\ mpc' = "done"
  /\ jobResult' = FALSE
  /\ tableDescs' = 0..(t - 1)
  /\ totalUsed' = 0 /\ totalSamples' = FoldLeft(+, 0, SubSeq(TaskUnits, 1, t))
  /\ UNCHANGED <<nReg, jobs, i, nextTask, numTasks, samplesLeft, sampler, dbTables,
                 rpcSent, wpc, tmp, lockHolder, reply, cq, issued, gotSentinel, drained,
                 taskResult, samplerError>>

(* NewJob, lines 378-382: the sampler state is reset for the new job,      *)
(* outside work_mutex_.                                                    *)
\* Mutant: samples_left_ is not reset, so a job after one whose sampler
\* failed mid-task continues the old sampler.
InitSamplerStale ==
  /\ taskResult' = TRUE /\ UNCHANGED samplesLeft
  /\ nextTask' = 0 /\ numTasks' = NumTasks

\* Mutant: num_tasks_ taken one too large.
InitSamplerOffByOne ==
  /\ taskResult' = TRUE /\ samplesLeft' = 0
  /\ nextTask' = 0 /\ numTasks' = NumTasks + 1

InitSampler ==
  /\ taskResult' = TRUE /\ samplesLeft' = 0
  /\ nextTask' = 0 /\ numTasks' = NumTasks

(* NewJob, success path up to the fan-out: every descriptor written, the   *)
(* sampler state reset, database meta written, one AsyncNewJob per entry   *)
(* of workers_, then the completion loop starts.                           *)
NewJobDispatch ==
  /\ mpc = "idle" /\ nReg >= MinNodesAtJob
  /\ tableDescs' = TaskIds /\ dbTables' = TaskIds
  /\ totalUsed' = 0 /\ totalSamples' = FoldLeft(+, 0, TaskUnits)
  /\ jobResult' = TRUE
  /\ InitSampler
  /\ rpcSent' = 0..(nReg - 1)
  /\ i' = 0
  /\ mpc' = "collect"
  /\ UNCHANGED <<nReg, jobs, sampler, wpc, tmp, lockHolder, reply, cq, issued,
                 gotSentinel, drained, samplerError>>

\* The cq loop (line 422) runs while i < workers_.size(), re-read on every
\* iteration.
\* Mutant: the loop runs while i <= workers_.size().
CqLoopRunsOffByOne == i <= nReg

CqLoopRuns == i < nReg

(* What the cq loop does with replies[i] (lines 429-434): a reply that has *)
(* not arrived is a default Result, whose success() is false; a failure    *)
(* marks the job failed and sets next_task_ = num_tasks_ without           *)
(* work_mutex_.                                                            *)
\* Mutant: a reply that has not arrived is taken as a success.
RecordReplyMissingIsOk(r) ==
  IF r # "fail" THEN UNCHANGED <<jobResult, nextTask, drained>>
  ELSE jobResult' = FALSE /\ nextTask' = numTasks /\ drained' = TRUE

RecordReply(r) ==
  IF r = "ok" THEN UNCHANGED <<jobResult, nextTask, drained>>
  ELSE jobResult' = FALSE /\ nextTask' = numTasks /\ drained' = TRUE

(* The cq loop of NewJob, iteration i: cq.Next hands over whichever tag    *)
(* completed, but the code then reads replies[i], not replies[got_tag].    *)
Collect ==
  /\ mpc = "collect" /\ CqLoopRuns
  /\ \E tag \in cq : cq' = cq \ {tag}
  /\ RecordReply(reply[i])
  /\ i' = i + 1
  /\ UNCHANGED <<nReg, jobs, mpc, numTasks, samplesLeft, sampler, totalUsed,
                 totalSamples, tableDescs, dbTables, rpcSent, wpc, tmp,
                 lockHolder, reply, issued, gotSentinel, taskResult, samplerError>>

(* Once the loop exits NewJob returns job_result, overwritten by           *)
(* task_result_ when a sampler failed (CopyFrom: success() becomes false). *)
FinishJob ==
  /\ mpc = "collect" /\ ~CqLoopRuns
  /\ mpc' = "done"
  /\ jobResult' = (jobResult /\ taskResult)
  /\ UNCHANGED <<nReg, jobs, i, nextTask, numTasks, samplesLeft, sampler, totalUsed,
                 totalSamples, tableDescs, dbTables, rpcSent, drained, taskResult,
                 samplerError, wpc, tmp, lockHolder, reply, cq, issued, gotSentinel>>

(* The client calls NewJob again once the previous call has returned      *)
(* (spec 1: job-level restart).  The new call starts with job_result set   *)
(* to success (line 273), fresh replies, completion queue and fan-out, and *)
(* the workers waiting for its RPC; MasterImpl's members keep what the     *)
(* last job left in them until this call's NewJob resets them.            *)
NewJobAgain ==
  /\ mpc = "done" /\ jobs < MaxJobs
  /\ jobs' = jobs + 1
  /\ mpc' = "idle"
  /\ jobResult' = TRUE
  /\ i' = 0 /\ rpcSent' = {} /\ reply' = [w \in Nodes |-> "none"] /\ cq' = {}
  /\ wpc' = [w \in Nodes |-> "wait"]
  /\ tableDescs' = {} /\ dbTables' = {}
  /\ issued' = <<>> /\ gotSentinel' = {} /\ drained' = FALSE /\ samplerError' = FALSE
  /\ UNCHANGED <<nReg, nextTask, numTasks, samplesLeft, sampler, totalUsed,
                 totalSamples, taskResult, tmp, lockHolder>>

-----------------------------------------------------------------------------
(* NextWork, tail shared by both paths that reach task_sampler_->next_work: *)
(* the unit is the sampler's next one, or DefaultWork when samples_left_   *)
(* is already 0 (assert at master.cpp:257 compiled out); then              *)
(* samples_left_-- and total_samples_used_++.                              *)
HandOut(left, task) ==
  /\ issued' = Append(issued, IF left > 0 THEN <<task, Units(task) - left + 1>>
                                          ELSE DefaultWork)
  /\ samplesLeft' = left - 1
  /\ totalUsed' = totalUsed + 1

\* NextWork answers worker w with item_id = -1.
SentTo(w) ==
  /\ gotSentinel' = gotSentinel \cup {w}
  /\ wpc' = [wpc EXCEPT ![w] = "drain"]

(* task_result_ = task_sampler_->next_work(...): a unit is handed out, or  *)
(* the sampler of a task in SamplerMayFail fails; then task_result_ keeps  *)
(* the error, the worker gets the sentinel and samples_left_ is left as it *)
(* is.                                                                     *)
SamplerStep(w, left, task) ==
  \/ /\ HandOut(left, task)
     /\ wpc' = [wpc EXCEPT ![w] = "pull"]
     /\ UNCHANGED <<taskResult, samplerError, gotSentinel>>
  \/ /\ task \in SamplerMayFail /\ left > 0
     /\ taskResult' = FALSE /\ samplerError' = TRUE
     /\ SentTo(w)
     /\ UNCHANGED <<issued, samplesLeft, totalUsed>>

WorkerStart(w) ==
  /\ w \in rpcSent /\ wpc[w] = "wait"
  /\ wpc' = [wpc EXCEPT ![w] = "pull"]
  /\ UNCHANGED <<nReg, jobs, mpc, masterVars, tmp, lockHolder, reply, cq, issued, gotSentinel>>

(* NextWork with samples_left_ <= 0, tasks left and no sampler error (line *)
(* 236).  work_mutex_ is held to the end of the call, but the cq loop of   *)
(* NewJob writes next_task_ without it (line 433), so each later read of   *)
(* next_task_ is a step of its own: the index at 239 and the load of the   *)
(* ++ at 243.                                                              *)
NextWorkCheck(w) ==
  /\ wpc[w] = "pull" /\ lockHolder = NoNode
  /\ samplesLeft <= 0 /\ nextTask < numTasks /\ taskResult
  /\ lockHolder' = w
  /\ wpc' = [wpc EXCEPT ![w] = "index"]
  /\ UNCHANGED <<nReg, jobs, mpc, masterVars, tmp, reply, cq, issued, gotSentinel>>

(* Lines 238-242: a sampler for tasks(next_task_) whose validate()         *)
(* succeeds (the same sampler passed the dry run), samples_left_ =         *)
(* total_samples().                                                        *)
NextWorkNewSampler(w) ==
  /\ wpc[w] = "index" /\ nextTask < numTasks
  /\ sampler' = nextTask /\ taskResult' = TRUE
  /\ samplesLeft' = Units(nextTask)
  /\ wpc' = [wpc EXCEPT ![w] = "load"]
  /\ UNCHANGED <<nReg, jobs, mpc, jobResult, i, nextTask, numTasks, totalUsed,
                 totalSamples, tableDescs, dbTables, rpcSent, tmp, lockHolder,
                 reply, cq, issued, gotSentinel, drained, samplerError>>

(* The same lines when the new sampler's validate() fails (spec 4.4: a     *)
(* sampler of a task in SamplerMayFail): task_result_ keeps the error,     *)
(* next_task_ is not advanced and the check at line 252 answers the        *)
(* sentinel; NextWork returns and releases the lock.                       *)
NextWorkInvalid(w) ==
  /\ wpc[w] = "index" /\ nextTask < numTasks
  /\ nextTask \in SamplerMayFail
  /\ sampler' = nextTask
  /\ taskResult' = FALSE /\ samplerError' = TRUE
  /\ SentTo(w)
  /\ lockHolder' = NoNode
  /\ UNCHANGED <<nReg, jobs, mpc, jobResult, i, nextTask, numTasks, samplesLeft,
                 totalUsed, totalSamples, tableDescs, dbTables, rpcSent, tmp,
                 reply, cq, issued, drained>>

(* Line 239 after the cq loop drained next_task_ to num_tasks_ since the   *)
(* check: tasks(num_tasks_) is read past the end of the repeated field.    *)
(* Protobuf does not check the index in a release build; the slot past a   *)
(* job's tasks holds no allocated Task (every job has the same number of   *)
(* tasks here), so the master dereferences a wild pointer.  Of the         *)
(* outcomes of that undefined read the model takes the crash: the master   *)
(* process stops.                                                          *)
NextWorkOutOfRange(w) ==
  /\ wpc[w] = "index" /\ nextTask >= numTasks
  /\ crashed' = TRUE
  /\ UNCHANGED <<nReg, jobs, mpc, masterVars, wpc, tmp, lockHolder, reply, cq,
                 issued, gotSentinel>>

(* Line 243, next_task_++: the load of next_task_ ...                      *)
NextWorkLoad(w) ==
  /\ wpc[w] = "load"
  /\ tmp' = [tmp EXCEPT ![w] = nextTask]
  /\ wpc' = [wpc EXCEPT ![w] = "incr"]
  /\ UNCHANGED <<nReg, jobs, mpc, masterVars, lockHolder, reply, cq, issued, gotSentinel>>

(* ... and its store, then next_work on the new sampler (lines 252-267)    *)
(* and the return that releases work_mutex_.                               *)
NextWorkAdvanced(w) ==
  /\ wpc[w] = "incr"
  /\ nextTask' = tmp[w] + 1
  /\ SamplerStep(w, samplesLeft, sampler)
  /\ lockHolder' = NoNode
  /\ tmp' = [tmp EXCEPT ![w] = NoNode]
  /\ UNCHANGED <<nReg, jobs, mpc, jobResult, i, numTasks, sampler, totalSamples,
                 tableDescs, dbTables, rpcSent, reply, cq, drained>>

(* NextWork reaches next_work with the current sampler when samples_left_  *)
(* > 0 and no sampler has failed (lines 235, 252).                         *)
\* Mutant: the check of task_result_ at line 252 is missing, so the failed
\* sampler is asked for its next unit again.
HasUnitNoStop == samplesLeft > 0

HasUnit == samplesLeft > 0 /\ taskResult

(* NextWork answers item_id = -1 when samples_left_ <= 0 and no task can   *)
(* be started (none left, or a sampler failed: lines 235-250), or when a   *)
(* sampler failed while units were left (lines 252-255).                   *)
\* Mutant: the check at line 252 is missing, so a worker asking after a
\* sampler error while units are left gets no answer.
NoWorkLeftNoStop == samplesLeft <= 0 /\ ~(nextTask < numTasks /\ taskResult)

NoWorkLeft ==
  \/ samplesLeft <= 0 /\ ~(nextTask < numTasks /\ taskResult)
  \/ samplesLeft > 0 /\ ~taskResult

(* NextWork with a unit to give: the next one of the current sampler.      *)
NextWorkUnit(w) ==
  /\ wpc[w] = "pull" /\ lockHolder = NoNode
  /\ HasUnit
  /\ SamplerStep(w, samplesLeft, sampler)
  /\ UNCHANGED <<nReg, jobs, mpc, jobResult, i, nextTask, numTasks, sampler,
                 totalSamples, tableDescs, dbTables, rpcSent, tmp,
                 lockHolder, reply, cq, drained>>

(* NextWork with no work left: the sentinel; the worker drains its         *)
(* pipeline and will answer NewJob.                                        *)
NextWorkSentinel(w) ==
  /\ wpc[w] = "pull" /\ lockHolder = NoNode
  /\ NoWorkLeft
  /\ SentTo(w)
  /\ UNCHANGED <<nReg, jobs, mpc, masterVars, tmp, lockHolder, reply, cq, issued>>

(* The worker's answer to NewJob arrives: replies[w] is filled and tag w   *)
(* is queued on the completion queue.                                      *)
Answer(w, res) ==
  /\ reply' = [reply EXCEPT ![w] = res]
  /\ cq' = cq \cup {w}
  /\ wpc' = [wpc EXCEPT ![w] = "replied"]
  /\ UNCHANGED <<nReg, jobs, mpc, masterVars, tmp, lockHolder, issued, gotSentinel>>

WorkerReply(w) == wpc[w] = "drain" /\ Answer(w, "ok")

(* A worker error (spec 7: storage permanent error) ends its NewJob with a *)
(* non-success Result, before or after it received the sentinel.           *)
WorkerFail(w) == w \in MayFail /\ wpc[w] \in {"pull", "drain"} /\ Answer(w, "fail")

(* Every worker that got the RPC has answered and NewJob has returned.     *)
Terminated ==
  /\ mpc = "done"
  /\ \A w \in rpcSent : wpc[w] = "replied"
  /\ UNCHANGED vars

\* A step of a running master; once it has crashed nothing moves.
Alive(A) == ~crashed /\ A /\ UNCHANGED crashed

WorkerStep(w) ==
  \/ Alive(WorkerStart(w))
  \/ Alive(NextWorkCheck(w))
  \/ Alive(NextWorkNewSampler(w))
  \/ Alive(NextWorkInvalid(w))
  \/ ~crashed /\ NextWorkOutOfRange(w)
  \/ Alive(NextWorkLoad(w))
  \/ Alive(NextWorkAdvanced(w))
  \/ Alive(NextWorkUnit(w))
  \/ Alive(NextWorkSentinel(w))
  \/ Alive(WorkerReply(w))

Halted == crashed /\ UNCHANGED vars

Next ==
  \/ Alive(RegisterWorker)
  \/ Alive(NewJobRejected)
  \/ Alive(NewJobDispatch)
  \/ \E t \in TaskIds : Alive(NewJobDryRunFails(t))
  \/ Alive(Collect)
  \/ Alive(FinishJob)
  \/ Alive(NewJobAgain)
  \/ \E w \in Nodes : WorkerStep(w) \/ Alive(WorkerFail(w))
  \/ Alive(Terminated)
  \/ Halted

(* Worker threads and the NewJob thread, once running, keep being          *)
(* scheduled; clients, registrations and failures are not forced.          *)
Fairness ==
  /\ \A w \in Nodes : WF_vars(WorkerStep(w))
  /\ WF_vars(Alive(Collect)) /\ WF_vars(Alive(FinishJob))

Spec == Init /\ [][Next]_vars
FairSpec == Spec /\ Fairness
-----------------------------------------------------------------------------
(* Properties                                                              *)

\* The master implements Dispatch: the units NextWork hands out, over all
\* workers and despite the unlocked writes of NewJob, are the samplers'
\* enumeration in order (no unit twice, none skipped, none invented); the
\* sentinel (master.cpp:246-255) goes out only once every unit is out or a
\* worker failure drained the job (master.cpp:433) or a sampler failed
\* (master.cpp:258-262); NewJob reports success only after every unit went
\* out, and not after a sampler error (master.cpp:441-442).  A sampler
\* error counts against the job from the step it happens in: the abstract
\* success is the master's job_result combined with it while the cq loop
\* runs, and job_result itself once NewJob has returned.
DispatchMap == INSTANCE Dispatch
  WITH Work <- AllUnits, Workers <- Nodes,
       phase <- CASE mpc = "idle" -> "idle" [] mpc = "collect" -> "running"
                  [] OTHER -> "done",
       handed <- issued, stopped <- drained \/ samplerError,
       finished <- gotSentinel,
       success <- IF mpc = "collect" THEN jobResult /\ ~samplerError
                                     ELSE jobResult

DispatchRefined == DispatchMap!Spec

\* A worker that answered NewJob with a failure is never reported as a
\* successful job (the completion loop reads replies[i], master.cpp:422-435).
FailureNeverMasked ==
  (mpc = "done" /\ \E w \in Nodes : reply[w] = "fail") => ~jobResult

\* The job reports success exactly when every worker answered success: the
\* loop of master.cpp:422-435 is meant to report each worker's reply.
ResultMatchesReplies ==
  (mpc = "done" /\ rpcSent # {}) =>
     (jobResult <=> \A w \in rpcSent : reply[w] = "ok")

\* assert(next_task_ == num_tasks_) at master.cpp:444: when NewJob returns
\* after the fan-out with no sampler error, next_task_ is num_tasks_ (every
\* task was started, or the cq loop drained the job).
AllTasksStartedAtEnd ==
  (mpc = "done" /\ rpcSent # {} /\ taskResult) => nextTask = numTasks

\* Once the cq loop has marked the job failed and set next_task_ to
\* num_tasks_ (master.cpp:433, outside work_mutex_), NextWork never starts
\* another task's sampler: only the task in flight may still hand out units.
NoTaskStartedAfterDrain == [][drained => sampler' = sampler]_vars

\* Within a job, once one worker's NextWork has seen a task sampler fail
\* (master.cpp:240-241, 258-262), no NextWork of any worker hands out
\* another unit: task_result_ keeps the error and every later call answers
\* the sentinel (master.cpp:236, 252-255; spec 7).
NoWorkAfterSamplerError == [][(samplerError /\ jobs' = jobs) => issued' = issued]_vars

\* Once NewJob has fanned the job out, it eventually returns: the cq loop of
\* master.cpp:422-435 takes one completion per worker it waits for; only a
\* crash of the master (NextWorkOutOfRange) ends it otherwise.
JobTerminates == (mpc = "collect") ~> (mpc = "done" \/ crashed)

\* Every worker sent the job eventually answers it: NextWork eventually
\* hands it the sentinel (master.cpp:246-255), after a sampler error too,
\* and the worker drains, unless the master has crashed.
WorkersAnswer == \A w \in Nodes : (w \in rpcSent) ~> (wpc[w] = "replied" \/ crashed)
=============================================================================
