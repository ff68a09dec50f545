----------------------------- MODULE MCSampling -----------------------------
(***************************************************************************)
(* Both decompositions of src/scanner/engine/sampling.cpp in one model:    *)
(* every input of RowSampling beside one fixed video input, and every      *)
(* input of VideoSampling beside one fixed row input, so each state is one *)
(* input of one of the two functions and the invariants of both hold in   *)
(* every state.                                                            *)
(***************************************************************************)
CONSTANTS MaxItems, MaxItemRows, MaxFrames

VARIABLES endRows, rows, keyframes, frames

vars == <<endRows, rows, keyframes, frames>>

Row   == INSTANCE RowSampling
Video == INSTANCE VideoSampling

\* The fixed inputs: one item of one row, its row asked for; a video of
\* three frames with one keyframe, frame 1 asked for.
Init ==
  \/ Row!Init /\ keyframes = <<0, 3>> /\ frames = <<1>>
  \/ Video!Init /\ endRows = <<1>> /\ rows = <<0>>

Next == UNCHANGED vars

Spec == Init /\ [][Next]_vars

\* slice_into_row_intervals returns one item id, one interval and one
\* offset list per run, with one offset per row asked for.
RowTypeOK == Row!TypeOK

\* slice_into_row_intervals groups the rows into the maximal runs of rows
\* of one item, in order, with each run's row count.
RowGrouping == Row!RowGrouping

\* slice_into_video_intervals returns parallel arrays of equal length, of
\* keyframe indices within keyframe_positions.
VideoTypeOK == Video!TypeOK

\* Every frame asked for lies in its run's keyframe range, so the bytes
\* read for the run decode it, also when the while loop skips keyframes.
VideoCoverage == Video!VideoCoverage

\* The runs slice_into_video_intervals emits are non-empty, ascending and
\* separated by at least one skipped keyframe run.
VideoRunsOrdered == Video!VideoRunsOrdered
=============================================================================
