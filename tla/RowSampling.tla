---------------------------- MODULE RowSampling ----------------------------
(***************************************************************************)
(* slice_into_row_intervals of src/scanner/engine/sampling.cpp: the        *)
(* decomposition of a row list of a table into runs of rows that share an *)
(* item, the contiguous read range of each run and the offsets asked for.  *)
(* The inputs are every table of at most MaxItems items of at most         *)
(* MaxItemRows rows and every ascending non-empty row list over it; the    *)
(* state never changes, so each state is one input checked once.           *)
(***************************************************************************)
EXTENDS Integers, Sequences, SequencesExt

CONSTANTS MaxItems, MaxItemRows

VARIABLES endRows,  \* table.end_rows(): exclusive end row of each item
          rows      \* the rows asked for, ascending

vars == <<endRows, rows>>

\* end_rows is cumulative: the running sums of the item sizes.
Cumulative(sizes) == [k \in DOMAIN sizes |-> FoldLeft(+, 0, SubSeq(sizes, 1, k))]

EndRowsSpace ==
  {Cumulative(sizes) : sizes \in UNION {[1..n -> 0..MaxItemRows] : n \in 1..MaxItems}}

Ascending(S) == SetToSortSeq(S, <)

Init ==
  /\ endRows \in {er \in EndRowsSpace : Last(er) > 0}
  /\ rows \in {Ascending(S) : S \in SUBSET (0..(Last(endRows) - 1)) \ {{}}}

Next == UNCHANGED vars

Spec == Init /\ [][Next]_vars

-----------------------------------------------------------------------------
(* The code, item ids and offsets 0-based as in C++.                       *)

\* item_from_row: the first item whose end row exceeds r.
\* Mutant: r <= end_rows[i] in item_from_row.
ItemFromRowLe(er, r) == Min({i \in 0..(Len(er) - 1) : r <= er[i + 1]})

ItemFromRow(er, r) == Min({i \in 0..(Len(er) - 1) : r < er[i + 1]})

\* offset_from_row: r minus the sum of the end_rows of the items before r's
\* item (the loop adds end_rows[i] for every item it steps over).
OffsetFromRow(er, r) == r - FoldLeft(+, 0, SubSeq(er, 1, ItemFromRow(er, r)))

\* The forward pass over the rows: a row of another item closes the open
\* run (item, [item_start, item_end), valid_offsets) and opens a new one.
\* Mutant: the last run's valid offsets are not pushed (line 77 dropped).
CloseLastNoLast(valid, offs) == valid

\* Line 77: the open run's offsets close the list.
CloseLast(valid, offs) == Append(valid, offs)

SliceIntoRowIntervals(er, rs) ==
  LET Step(acc, row) ==
        LET item == ItemFromRow(er, row)
            off  == OffsetFromRow(er, row)
        IN IF item # acc.cur
             THEN [ids |-> Append(acc.ids, acc.cur),
                   ivs |-> Append(acc.ivs, <<acc.start, acc.end>>),
                   valid |-> Append(acc.valid, acc.offs),
                   cur |-> item, start |-> off, end |-> off + 1, offs |-> <<off>>]
             ELSE [acc EXCEPT !.offs = Append(@, off), !.end = off + 1]
      first == [ids |-> <<>>, ivs |-> <<>>, valid |-> <<>>,
                cur |-> ItemFromRow(er, rs[1]), start |-> OffsetFromRow(er, rs[1]),
                end |-> OffsetFromRow(er, rs[1]) + 1, offs |-> <<>>]
      fin == FoldLeft(Step, first, rs)
  IN [item_ids       |-> Append(fin.ids, fin.cur),
      item_intervals |-> Append(fin.ivs, <<fin.start, fin.end>>),
      valid_offsets  |-> CloseLast(fin.valid, fin.offs)]

-----------------------------------------------------------------------------
(* Reference (spec 4.1): item i starts at global row end_rows[i-1] (0 for  *)
(* item 0), and the runs are the maximal blocks of rows of one item.       *)

RECURSIVE RefRuns(_, _)
RefRuns(er, rs) ==
  IF rs = <<>> THEN <<>>
  ELSE LET item == Min({i \in 0..(Len(er) - 1) : rs[1] < er[i + 1]})
           n    == Len(SelectSeq(rs, LAMBDA r : r < er[item + 1]))
       IN <<[item |-> item, count |-> n]>> \o RefRuns(er, SubSeq(rs, n + 1, Len(rs)))

Out == SliceIntoRowIntervals(endRows, rows)

\* The inputs, and the three parallel arrays the decomposition returns.
TypeOK ==
  /\ endRows \in EndRowsSpace
  /\ rows \in Seq(0..(MaxItems * MaxItemRows))
  /\ Out.item_ids \in Seq(0..(Len(endRows) - 1))
  /\ Len(Out.item_intervals) = Len(Out.item_ids)
  /\ Len(Out.valid_offsets) = Len(Out.item_ids)

\* The runs the code emits are the reference runs: the same items in the same
\* order, with one valid offset per row asked for in that item.
RowGrouping ==
  LET ref == RefRuns(endRows, rows)
  IN /\ Out.item_ids = [k \in DOMAIN ref |-> ref[k].item]
     /\ \A k \in DOMAIN ref : Len(Out.valid_offsets[k]) = ref[k].count
=============================================================================
