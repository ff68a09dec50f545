---------------------------- MODULE LoadWorker ----------------------------
(***************************************************************************)
(* The load stage of a worker, src/scanner/engine/load_worker.cpp: load    *)
(* threads pop (IOItem, LoadWorkEntry) pairs from one shared queue, build  *)
(* an EvalWorkEntry from storage and push it to the shared eval queue; an  *)
(* entry with io_item_index -1 stops the thread that pops it.             *)
(*                                                                         *)
(* One input table: column 0 is Video, column 1 its frame-info side        *)
(* column, column 2 an Other column.  Bytes are abstracted to what they    *)
(* stand for: a video row is the (item, frames) a DecodeArgs decodes, a    *)
(* frame-info row the (item, width) it describes, an Other row the table   *)
(* row whose bytes it holds.                                               *)
(***************************************************************************)
EXTENDS Integers, Sequences, FiniteSets, SequencesExt

CONSTANTS Threads,      \* the load threads of one worker
          EndRows,      \* end_rows of the input table
          Width,        \* Width[i]: video width of item i (1-based function)
          KeyframesOf,  \* KeyframesOf[i]: keyframe_positions of item i
          RowSize,      \* RowSize[i][j]: size of row j of item i, Other column
          UnitSpace     \* the lists of work units the worker may feed

VARIABLES units,       \* the units the worker service was handed
          feed,        \* what the worker service will push to load_work
          loadWork,    \* the load_work queue
          evalWork,    \* the eval_work queue (its consumer is not modelled)
          pc,          \* per thread: "pop", "load" or "done"
          cur,         \* per thread: the entry popped
          lastTableId, \* per thread: last_table_id
          metaCache    \* per thread: table ids in the table_metadata cache

vars == <<units, feed, loadWork, evalWork, pc, cur, lastTableId, metaCache>>

InputTable == 0
Sentinel == [io_item_index |-> -1, table_id |-> -1, samples |-> <<>>]

RS == INSTANCE RowSampling WITH endRows <- EndRows, rows <- <<>>,
                                MaxItems <- 0, MaxItemRows <- 0
VS == INSTANCE VideoSampling WITH keyframes <- <<>>, frames <- <<>>,
                                  MaxFrames <- 0

ItemRows(i) == EndRows[i + 1] - (IF i = 0 THEN 0 ELSE EndRows[i])

Init ==
  /\ units \in UnitSpace
  /\ feed = units \o [t \in 1..Cardinality(Threads) |-> Sentinel]
  /\ loadWork = <<>> /\ evalWork = <<>>
  /\ pc = [t \in Threads |-> "pop"]
  /\ cur = [t \in Threads |-> Sentinel]
  /\ lastTableId = [t \in Threads |-> -1]
  /\ metaCache = [t \in Threads |-> {}]

-----------------------------------------------------------------------------
(* Reading one item of a column (lines 62-214).                            *)

\* read_video_index: the video's width and its keyframe positions with the
\* frame count appended as a sentinel.
ReadVideoIndex(item) ==
  [width |-> Width[item + 1], item |-> item,
   keyframe_positions |-> KeyframesOf[item + 1] \o <<ItemRows(item)>>]

\* read_video_column: one DecodeArgs row per keyframe run of the frames.
ReadVideoColumn(entry, rows) ==
  LET iv == VS!SliceIntoVideoIntervals(entry.keyframe_positions, rows)
  IN [k \in DOMAIN iv.valid_frames |-> [item |-> entry.item, frames |-> iv.valid_frames[k]]]

\* Where row j of an item starts in its file's row data (lines 188-191).
ByteOf(item, j) == FoldLeft(+, 0, SubSeq(RowSize[item + 1], 1, j))

\* read_other_column: read rows [item_start, item_end) in one chunk and walk
\* it, emitting the bytes at offset when i is the next valid offset.  An
\* Other row stands for the byte position in the file it was copied from.
\* The code reads valid_offsets[valid_idx] without a bound; for ascending
\* rows the last valid offset is item_end - 1, so the bound never fails.
\* Mutant: offset advanced only past emitted rows (line 211 inside the if).
ReadOtherColumnSkipOffset(item, start, end, valid) ==
  LET startOff == ByteOf(item, start)
      Step(acc, i) ==
        IF acc.v <= Len(valid) /\ i = valid[acc.v]
          THEN [v |-> acc.v + 1, off |-> acc.off + RowSize[item + 1][i + 1],
                out |-> Append(acc.out, [item |-> item,
                                         byte |-> startOff + acc.off])]
          ELSE acc
  IN FoldLeft(Step, [v |-> 1, off |-> 0, out |-> <<>>],
              [k \in 1..(end - start) |-> start + k - 1]).out

ReadOtherColumn(item, start, end, valid) ==
  LET startOff == ByteOf(item, start)
      Step(acc, i) ==
        LET next == [acc EXCEPT !.off = @ + RowSize[item + 1][i + 1]]
        IN IF acc.v <= Len(valid) /\ i = valid[acc.v]
             THEN [next EXCEPT !.v = @ + 1,
                     !.out = Append(@, [item |-> item,
                                        byte |-> startOff + acc.off])]
             ELSE next
  IN FoldLeft(Step, [v |-> 1, off |-> 0, out |-> <<>>],
              [k \in 1..(end - start) |-> start + k - 1]).out

-----------------------------------------------------------------------------
(* Building the EvalWorkEntry of one unit (lines 263-354).                 *)

\* One column of one sample: the rows of every item of its row intervals.
\* Column 1 follows the Video column 0, so it is the frame-info column, and
\* its video index is read for item 0 whatever the item (line 319).
LoadColumn(ivs, col) ==
  FlattenSeq([k \in DOMAIN ivs.item_ids |->
    LET item  == ivs.item_ids[k]
        valid == ivs.valid_offsets[k]
    IN CASE col = 0 -> ReadVideoColumn(ReadVideoIndex(item), valid)
         [] col = 1 -> [j \in DOMAIN valid |->
                          [item |-> item, width |-> ReadVideoIndex(0).width]]
         [] OTHER   -> ReadOtherColumn(item, ivs.item_intervals[k][1],
                                       ivs.item_intervals[k][2], valid)])

\* The columns of a unit, sample by sample, each sample's warmup rows
\* concatenated before its rows; warmup_rows is the first sample's count.
LoadEntry(e) ==
  [io_item_index |-> e.io_item_index,
   warmup_rows   |-> Len(e.samples[1].warmup_rows),
   column_types  |-> FlattenSeq([s \in DOMAIN e.samples |->
      [c \in DOMAIN e.samples[s].column_ids |->
         IF e.samples[s].column_ids[c] = 0 THEN "Video" ELSE "Other"]]),
   columns |-> FlattenSeq([s \in DOMAIN e.samples |->
      LET smp == e.samples[s]
          ivs == RS!SliceIntoRowIntervals(EndRows, smp.warmup_rows \o smp.rows)
      IN [c \in DOMAIN smp.column_ids |-> LoadColumn(ivs, smp.column_ids[c])]])]

\* LoadEntry depends on the unit alone: tabulated once over the units the
\* worker may be handed.
Loaded == [u \in UNION {Range(us) : us \in UnitSpace} |-> LoadEntry(u)]

-----------------------------------------------------------------------------
(* Actions.                                                                *)

\* The worker service pushes the units it got from NextWork, then one
\* sentinel per load thread (spec 4.5).
PushLoadWork ==
  /\ feed # <<>>
  /\ loadWork' = Append(loadWork, Head(feed))
  /\ feed' = Tail(feed)
  /\ UNCHANGED <<units, evalWork, pc, cur, lastTableId, metaCache>>

\* load_thread pops an entry (line 240); -1 ends the loop (line 244); a
\* unit of another output table resets the video-index cache (257-261).
\* Mutant: the entry read at the front of load_work but not removed.
DequeueNoRemove == UNCHANGED loadWork

Dequeue == loadWork' = Tail(loadWork)

\* Mutant: continue instead of break at line 245.
AfterSentinelContinue == "pop"

AfterSentinel == "done"

Pop(t) ==
  /\ pc[t] = "pop" /\ loadWork # <<>>
  /\ Dequeue
  /\ IF Head(loadWork).io_item_index = -1
       THEN /\ pc' = [pc EXCEPT ![t] = AfterSentinel]
            /\ UNCHANGED <<cur, lastTableId>>
       ELSE /\ cur' = [cur EXCEPT ![t] = Head(loadWork)]
            /\ pc' = [pc EXCEPT ![t] = "load"]
            /\ lastTableId' = [lastTableId EXCEPT ![t] = Head(loadWork).table_id]
  /\ UNCHANGED <<units, feed, evalWork, metaCache>>

\* Build the EvalWorkEntry, caching each sample table's metadata (lines
\* 280-285), and push it to eval_work (line 358).
Load(t) ==
  /\ pc[t] = "load"
  /\ metaCache' = [metaCache EXCEPT ![t] = @ \cup {InputTable}]
  /\ evalWork' = Append(evalWork, Loaded[cur[t]])
  /\ pc' = [pc EXCEPT ![t] = "pop"]
  /\ UNCHANGED <<units, feed, loadWork, cur, lastTableId>>

Next == PushLoadWork \/ \E t \in Threads : Pop(t) \/ Load(t)

\* Threads are OS threads blocked only in pop; the worker keeps pushing.
Fairness == WF_vars(PushLoadWork) /\ \A t \in Threads : WF_vars(Pop(t) \/ Load(t))

Spec == Init /\ [][Next]_vars /\ Fairness

-----------------------------------------------------------------------------
(* What a unit should deliver (spec 4.5 and the evaluate contract of spec  *)
(* 5): per requested row, in request order, the item it lies in and its    *)
(* offset there (for an Other column, where that row's bytes start in the  *)
(* item's file); for a frame-info column, that item's width.               *)

ItemOf(r)   == Cardinality({i \in DOMAIN EndRows : EndRows[i] <= r})
OffsetOf(r) == r - (IF ItemOf(r) = 0 THEN 0 ELSE EndRows[ItemOf(r)])

Expected(smp, col) ==
  LET rs == smp.warmup_rows \o smp.rows
  IN [k \in DOMAIN rs |->
        IF col = 1 THEN [item |-> ItemOf(rs[k]), width |-> Width[ItemOf(rs[k]) + 1]]
        ELSE IF col = 0 THEN [item |-> ItemOf(rs[k]), row |-> OffsetOf(rs[k])]
        ELSE [item |-> ItemOf(rs[k]), byte |-> ByteOf(ItemOf(rs[k]), OffsetOf(rs[k]))]]

\* A video column as the frames its DecodeArgs rows decode, in order.
Delivered(col, column) ==
  IF col # 0 THEN column
  ELSE FlattenSeq([k \in DOMAIN column |->
         [j \in DOMAIN column[k].frames |->
            [item |-> column[k].item, row |-> column[k].frames[j]]]])

\* The (sample, column id) behind each output column of a unit.
Requests(u) ==
  FlattenSeq([s \in DOMAIN u.samples |->
    [c \in DOMAIN u.samples[s].column_ids |->
       [smp |-> u.samples[s], col |-> u.samples[s].column_ids[c]]]])

UnitOf(e) == CHOOSE u \in Range(units) : u.io_item_index = e.io_item_index

\* The pushed entries and their columns; never more entries than units.
TypeOK ==
  /\ units \in UnitSpace
  /\ pc \in [Threads -> {"pop", "load", "done"}]
  /\ Len(evalWork) <= Len(units)
  /\ \A k \in DOMAIN evalWork :
       /\ evalWork[k].io_item_index \in {u.io_item_index : u \in Range(units)}
       /\ Len(evalWork[k].columns) = Len(evalWork[k].column_types)

\* Spec 4.5 and 5: every Video and Other column of a pushed EvalWorkEntry
\* holds exactly the unit's warmup rows then rows, in order, each row read
\* from its own item at its own offset: load_thread's composition of
\* slice_into_row_intervals, slice_into_video_intervals and
\* read_other_column's walk over the chunk of row bytes delivers what was
\* asked for.
RequestedRowsDelivered ==
  \A k \in DOMAIN evalWork :
    LET req == Requests(UnitOf(evalWork[k]))
    IN /\ Len(evalWork[k].columns) = Len(req)
       /\ \A c \in DOMAIN req :
            req[c].col # 1 =>
              Delivered(req[c].col, evalWork[k].columns[c]) = Expected(req[c].smp, req[c].col)

\* Spec 2: the frame-info column carries the (width, height) of the frames
\* of its row, so each of its rows describes the video of that row's item.
\* load_thread reads the video index of item 0 for it (line 319).
FrameInfoOfOwnItem ==
  \A k \in DOMAIN evalWork :
    LET req == Requests(UnitOf(evalWork[k]))
    IN \A c \in DOMAIN req :
         req[c].col = 1 => evalWork[k].columns[c] = Expected(req[c].smp, 1)

\* Spec 4.5: the load threads together push every unit the worker fed them
\* exactly once, and each stops at its sentinel: no unit is lost or loaded
\* twice whichever thread pops it, and no thread is left blocked in pop.
LoadTerminates ==
  <>[](/\ \A t \in Threads : pc[t] = "done"
       /\ Len(evalWork) = Len(units)
       /\ {evalWork[k].io_item_index : k \in DOMAIN evalWork}
            = {u.io_item_index : u \in Range(units)})
=============================================================================
