------------------------ MODULE MCTaskSetValidation ------------------------
(***************************************************************************)
(* Request spaces for TaskSetValidation.  One database table "t"; one      *)
(* registered op "Foo" (output column "c", CPU kernel only) and one        *)
(* unregistered op "Baz"; InputTable exposes column "image".               *)
(***************************************************************************)
EXTENDS TaskSetValidation

MCExisting == {"t"}
MCOpRegistry == [n \in {"Foo"} |-> {"c"}]
MCKernels == {<<"Foo", "CPU">>}

\* Every list of at most two tasks over three output names and three kinds
\* of sample: good, of a missing table, of zero columns.
Samples == {[table_name |-> "t", num_columns |-> 1],
            [table_name |-> "z", num_columns |-> 1],
            [table_name |-> "t", num_columns |-> 0]}
Tasks == [output_table_name : {"", "t", "u"}, samples : SUBSET Samples]
MCTaskSpaceAll == {<<>>} \cup {<<a>> : a \in Tasks} \cup {<<a, b>> : a, b \in Tasks}
MCTaskSpaceOne == {<<[output_table_name |-> "u", samples |-> {[table_name |-> "t", num_columns |-> 1]}]>>}

Input == [name |-> "InputTable", device_type |-> "CPU",
          inputs |-> <<[op_index |-> 0, columns |-> {"image"}]>>]
Output(k) == [name |-> "OutputTable", device_type |-> "CPU",
              inputs |-> <<[op_index |-> k, columns |-> {"c"}]>>]

\* The ops a client may place at index k: OutputTable, Foo on either device,
\* Baz; with no input or one input naming an index in -1..k and one column.
OpsAt(k) ==
  [name : {"OutputTable", "Baz"}, device_type : {"CPU"}, inputs : {<<>>} \cup
     {<<[op_index |-> j, columns |-> {c}]>> : j \in -1..k, c \in {"image", "c"}}]
  \cup
  [name : {"Foo"}, device_type : {"CPU", "GPU"}, inputs : {<<>>} \cup
     {<<[op_index |-> j, columns |-> {c}]>> : j \in -1..k, c \in {"image", "c"}}]

FirstOps == {Input, [name |-> "Foo", device_type |-> "CPU", inputs |-> <<>>]}

\* Every op list of at most three ops.
MCOpSpaceAll ==
  {<<>>} \cup {<<a>> : a \in FirstOps} \cup {<<a, b>> : a \in FirstOps, b \in OpsAt(1)}
  \cup {<<a, b, d>> : a \in FirstOps, b \in OpsAt(1), d \in OpsAt(2)}

\* Four-op lists InputTable, x, y, OutputTable, the last reading one column
\* of any earlier op.
MCOpSpaceFour ==
  {<<Input, b, d, [Output(k) EXCEPT !.inputs[1].columns = {c}]>> :
     b \in OpsAt(1), d \in OpsAt(2), k \in 0..2, c \in {"image", "c"}}

MCOpSpaceOne == {<<Input, [name |-> "Foo", device_type |-> "CPU",
                           inputs |-> <<[op_index |-> 0, columns |-> {"image"}]>>],
                   Output(1)>>}
\* Every task list with a valid DAG, and every op list with a valid task.
MCRequestsSpec == (MCTaskSpaceAll \X MCOpSpaceOne) \cup (MCTaskSpaceOne \X MCOpSpaceAll)
MCRequestsAll  == MCTaskSpaceOne \X MCOpSpaceAll
MCRequestsFour == MCTaskSpaceOne \X MCOpSpaceFour
=============================================================================
