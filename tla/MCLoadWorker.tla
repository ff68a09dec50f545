--------------------------- MODULE MCLoadWorker ---------------------------
(***************************************************************************)
(* LoadWorker for TLC.  The input table has items of three and two rows   *)
(* (end rows 3 and 5) of widths 1 and 2; item 0 has keyframes at 0 and 2,  *)
(* item 1 one keyframe; the Other column's rows have unequal sizes, so a   *)
(* wrong byte offset reads another row.  Two units sample all three        *)
(* columns of the table; the first one's rows are any non-empty subset of  *)
(* the rows, its warmup rows any subset of the rows before them.           *)
(***************************************************************************)
EXTENDS LoadWorker

MCEndRows     == <<3, 5>>
MCWidth       == <<1, 2>>
MCKeyframesOf == <<<<0, 2>>, <<0>>>>
MCRowSize     == <<<<1, 2, 1>>, <<2, 1>>>>

Asc(S) == SetToSortSeq(S, <)

Sample(w, r) == [table_id |-> InputTable, column_ids |-> <<0, 1, 2>>,
                 warmup_rows |-> Asc(w), rows |-> Asc(r)]

Samples ==
  UNION {{Sample(w, r) : w \in {W \in SUBSET (0..4) : \A x \in W, y \in r : x < y}} :
           r \in SUBSET (0..4) \ {{}}}

Unit(k, smp) == [io_item_index |-> k, table_id |-> 10 + k, samples |-> <<smp>>]

\* The first unit over every sample; the second skips row 1 and spans both
\* items.
MCUnitSpace == {<<Unit(0, a), Unit(1, Sample({0}, {2, 3}))>> : a \in Samples}
=============================================================================
