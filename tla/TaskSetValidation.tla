------------------------- MODULE TaskSetValidation -------------------------
(***************************************************************************)
(* validate_task_set of src/scanner/engine/master.cpp, and the prologue of *)
(* MasterImpl::NewJob that reads the op list before validation runs.       *)
(* Each state is one job request (a task list and an op list) drawn from   *)
(* the spaces the configuration gives; the state never changes.  The      *)
(* code's verdict is compared with the rules of spec 4.4.                  *)
(***************************************************************************)
EXTENDS Integers, Sequences, FiniteSets, SequencesExt

CONSTANTS ExistingTables,  \* meta.has_table: tables in the database metadata
          OpRegistry,      \* op name -> output_columns() of the registered ops
          KernelRegistry,  \* <<op name, device type>> pairs with a kernel
          NDEBUG,          \* TRUE when assert() is compiled out
          RequestSpace     \* the <<task list, op list>> pairs a client may send

VARIABLES tasks, ops

vars == <<tasks, ops>>

Init == \E r \in RequestSpace : tasks = r[1] /\ ops = r[2]

Next == UNCHANGED vars

Spec == Init /\ [][Next]_vars

-----------------------------------------------------------------------------
(* The code.  A task is [output_table_name, samples], a sample             *)
(* [table_name, num_columns]; an op is [name, device_type, inputs], an     *)
(* input [op_index, columns].  Indices are 0-based as in C++.              *)

\* Mutant: the check against the names of earlier tasks (line 43) dropped.
NameIsNewNoDup(ts, k) == TRUE

\* Line 43: the output name is not one of an earlier task's.
NameIsNew(ts, k) ==
  ts[k].output_table_name \notin {ts[j].output_table_name : j \in 1..(k - 1)}

\* The task loop (lines 28-74): every check clears success, none stops the
\* loop; a duplicate is seen by the later of the two tasks.
ValidateTasks(ts) ==
  \A k \in DOMAIN ts :
     /\ ts[k].output_table_name # ""
     /\ ts[k].output_table_name \notin ExistingTables
     /\ NameIsNew(ts, k)
     /\ ts[k].samples # {}
     /\ \A s \in ts[k].samples : s.table_name \in ExistingTables /\ s.num_columns > 0

\* One iteration of the op loop (lines 83-145).  acc is [idx, names, outs,
\* ok, stop, thrown]: op_idx, op_names, op_outputs, the success flag, the
\* break at line 89, and an exception out of a vector::at (lines 123-124).
\* OpStepGeneral is the part after the first op (lines 100-144): op_outputs
\* gets no entry for an OutputTable op, so after one that is not last,
\* op_outputs[j] is no longer op j's outputs.
\* Mutant: the topological check is input.op_index > op_idx (line 117).
IsEarlierGt(i, idx) == i.op_index <= idx

\* Line 117: an input names an op before this one.
IsEarlier(i, idx) == i.op_index < idx

OpStepGeneral(acc, op) ==
  LET outs  == IF op.name # "OutputTable"
                 THEN Append(acc.outs, IF op.name \in DOMAIN OpRegistry
                                         THEN OpRegistry[op.name] ELSE {})
                 ELSE acc.outs
      regOk == op.name = "OutputTable" \/
                 (op.name \in DOMAIN OpRegistry /\ <<op.name, op.device_type>> \in KernelRegistry)
      throws(i) == IsEarlier(i, acc.idx) /\ (i.op_index < 0 \/ i.op_index >= Len(outs))
      found(i)  == IsEarlier(i, acc.idx) /\ ~throws(i) /\ i.columns \subseteq outs[i.op_index + 1]
  IN [idx |-> acc.idx + 1, names |-> Append(acc.names, op.name), outs |-> outs,
      stop |-> FALSE,
      ok |-> acc.ok /\ regOk /\ \A k \in DOMAIN op.inputs : found(op.inputs[k]),
      thrown |-> \E k \in DOMAIN op.inputs : throws(op.inputs[k])]

\* Lines 84-99 for the first op: it must be InputTable (else error and
\* break); its outputs are the columns of its inputs.
\* Mutant: the continue at line 98 dropped, so InputTable falls through to
\* the general part as well (a second op_idx++ and op_outputs entry).
FirstOpNoContinue(acc, op) ==
  LET a1 == [acc EXCEPT !.idx = 1, !.names = Append(@, op.name),
                 !.outs = Append(@, UNION {i.columns : i \in Range(op.inputs)})]
  IN [OpStepGeneral(a1, op) EXCEPT !.names = a1.names]

FirstOp(acc, op) ==
  [acc EXCEPT !.idx = 1, !.names = Append(@, op.name),
              !.outs = Append(@, UNION {i.columns : i \in Range(op.inputs)})]

OpStep(acc, op) ==
  CASE acc.stop \/ acc.thrown -> acc
    [] acc.idx = 0 /\ op.name # "InputTable" ->
         [acc EXCEPT !.names = Append(@, op.name), !.ok = FALSE, !.stop = TRUE]
    [] acc.idx = 0 -> FirstOp(acc, op)
    [] OTHER -> OpStepGeneral(acc, op)

\* The op loop, then the count and end checks of lines 146-161.
ValidateOps(os) ==
  LET fin == FoldLeft(OpStep, [idx |-> 0, names |-> <<>>, outs |-> <<>>,
                               ok |-> TRUE, stop |-> FALSE, thrown |-> FALSE], os)
  IN [fin EXCEPT !.ok = @ /\ Len(fin.names) >= 3
                          /\ fin.names[1] = "InputTable"
                          /\ Last(fin.names) = "OutputTable"]

\* NewJob up to the validation verdict (lines 296-322): the last op is read
\* with ops.Get(ops.size() - 1) and asserted to be OutputTable before
\* validate_task_set runs.  Get(-1) on an empty list crashes the master.
NewJobOutcome(ts, os) ==
  LET v == ValidateOps(os)
  IN CASE os = <<>>                                       -> "crash"
       [] Last(os).name # "OutputTable" /\ ~NDEBUG         -> "crash"
       [] v.thrown                                         -> "crash"
       [] ValidateTasks(ts) /\ v.ok                        -> "accepted"
       [] OTHER                                            -> "rejected"

-----------------------------------------------------------------------------
(* Reference: the rules of spec 4.4.  The outputs an op declares are its   *)
(* table columns for InputTable at index 0, the registry's for a           *)
(* registered op, and none for anything else (OutputTable included).       *)

Declared(os, j) ==
  CASE j = 0                         -> UNION {i.columns : i \in Range(os[1].inputs)}
    [] os[j + 1].name \in DOMAIN OpRegistry -> OpRegistry[os[j + 1].name]
    [] OTHER                         -> {}

Sentinel(op) == op.name \in {"InputTable", "OutputTable"}

\* Output names non-empty, new and pairwise distinct; every task samples at
\* least one existing table, each sample at least one column.
SpecTasksValid(ts) ==
  /\ \A k \in DOMAIN ts : ts[k].output_table_name \notin ExistingTables \cup {""}
  /\ \A j, k \in DOMAIN ts : j # k => ts[j].output_table_name # ts[k].output_table_name
  /\ \A k \in DOMAIN ts : /\ ts[k].samples # {}
                         /\ \A s \in ts[k].samples : /\ s.table_name \in ExistingTables
                                                   /\ s.num_columns >= 1

SpecValid(ts, os) ==
  /\ SpecTasksValid(ts)
  /\ Len(os) >= 3
  /\ os[1].name = "InputTable" /\ Last(os).name = "OutputTable"
  /\ \A k \in 2..Len(os) :
       /\ ~Sentinel(os[k]) => /\ os[k].name \in DOMAIN OpRegistry
                              /\ <<os[k].name, os[k].device_type>> \in KernelRegistry
       /\ \A i \in Range(os[k].inputs) :
            /\ 0 <= i.op_index /\ i.op_index < k - 1
            /\ i.columns \subseteq Declared(os, i.op_index)

Outcome == NewJobOutcome(tasks, ops)

OpLoop == FoldLeft(OpStep, [idx |-> 0, names |-> <<>>, outs |-> <<>>, ok |-> TRUE,
                            stop |-> FALSE, thrown |-> FALSE], ops)

\* The request, and the op loop's bookkeeping: one op_names entry per op
\* seen, op_idx counting them, and at most one op_outputs entry per op.
TypeOK ==
  /\ <<tasks, ops>> \in RequestSpace
  /\ Outcome \in {"crash", "rejected", "accepted"}
  /\ Len(OpLoop.names) <= Len(ops)
  /\ OpLoop.idx <= Len(OpLoop.names)
  /\ Len(OpLoop.outs) <= Len(OpLoop.names)

\* Spec 4.4 and 7: whenever NewJob returns a verdict, it accepts exactly the
\* requests the validation rules allow: validate_task_set neither rejects a
\* valid task set nor lets through a bad DAG or task list.
ValidationMatchesSpec ==
  Outcome # "crash" => (Outcome = "accepted" <=> SpecValid(tasks, ops))

\* Spec 7: a bad DAG is a validation error surfaced as a Result.  NewJob must
\* never crash the master on a request, whether by reading the last op of
\* the list before validation (lines 296-297) or by an op_names.at or
\* op_outputs.at out of range inside validate_task_set (lines 123-124).
NewJobNeverCrashes == Outcome # "crash"
=============================================================================
