--------------------------- MODULE VideoSampling ---------------------------
(***************************************************************************)
(* slice_into_video_intervals of src/scanner/engine/sampling.cpp: the      *)
(* keyframe runs an encoded video must be read in so that every requested *)
(* frame can be decoded.  keyframe_positions carries the frame-count       *)
(* sentinel that read_video_index (load_worker.cpp:80) appends.  The       *)
(* inputs are every video of at most MaxFrames frames, every set of        *)
(* keyframes and every ascending non-empty list of frames at or after the  *)
(* first keyframe; each state is one input, checked once.                  *)
(***************************************************************************)
EXTENDS Integers, Sequences, SequencesExt

CONSTANTS MaxFrames

VARIABLES keyframes,  \* keyframe_positions, sentinel (frame count) included
          frames      \* the frames asked for, ascending

vars == <<keyframes, frames>>

Ascending(S) == SetToSortSeq(S, <)

\* Keyframe index j (0-based, as in C++) is at frame KP(kp, j).
KP(kp, j) == kp[j + 1]

Init ==
  /\ \E n \in 1..MaxFrames :
        \E K \in SUBSET (0..(n - 1)) \ {{}} : keyframes = Ascending(K) \o <<n>>
  /\ frames \in {Ascending(S) :
                   S \in SUBSET (keyframes[1]..(Last(keyframes) - 1)) \ {{}}}

Next == UNCHANGED vars

Spec == Init /\ [][Next]_vars

-----------------------------------------------------------------------------
(* The code.  The run is [start_keyframe_index, end_keyframe_index) and    *)
(* next_keyframe is the position of end_keyframe_index.  A frame at or past *)
(* next_keyframe extends the run by one keyframe; if it is also past that  *)
(* one, a keyframe was skipped: the run so far is emitted (when it holds    *)
(* frames) and a new run starts at the keyframe at or below the frame.     *)

\* The while loop: the first keyframe index from e1 whose position is past
\* the frame.
SkipTarget(kp, row, e1) == Min({e \in e1..(Len(kp) - 1) : row < KP(kp, e)})

\* Mutant: a skipped keyframe emits the run but not its valid frames.
EmitRunNoFrames(acc, e1, e2) ==
  [ivs |-> IF acc.valid = <<>> THEN acc.ivs
           ELSE Append(acc.ivs, <<acc.start, e1 - 1>>),
   vf  |-> acc.vf]

\* Mutant: the skipped run is pushed after the while loop has advanced
\* end_keyframe_index, as (start, end - 1).
EmitRunLateEmit(acc, e1, e2) ==
  [ivs |-> IF acc.valid = <<>> THEN acc.ivs
           ELSE Append(acc.ivs, <<acc.start, e2 - 1>>),
   vf  |-> IF acc.valid = <<>> THEN acc.vf ELSE Append(acc.vf, acc.valid)]

\* The run so far, (start, end - 1) with its frames, unless it is empty.
EmitRun(acc, e1, e2) ==
  [ivs |-> IF acc.valid = <<>> THEN acc.ivs
           ELSE Append(acc.ivs, <<acc.start, e1 - 1>>),
   vf  |-> IF acc.valid = <<>> THEN acc.vf ELSE Append(acc.vf, acc.valid)]

\* Mutant: a new run starts at the keyframe after the frame's (e2, not e2-1).
StartRunLate(kp, e2, row) ==
  [start |-> e2, end |-> e2, next |-> KP(kp, e2), valid |-> <<row>>]

\* The new run holds the frame and starts at the keyframe at or below it.
StartRun(kp, e2, row) ==
  [start |-> e2 - 1, end |-> e2, next |-> KP(kp, e2), valid |-> <<row>>]

SliceIntoVideoIntervals(kp, rs) ==
  LET Step(acc, row) ==
        IF row < acc.next
          THEN [acc EXCEPT !.valid = Append(@, row)]
        ELSE LET e1 == acc.end + 1
             IN IF row < KP(kp, e1)
                  THEN [acc EXCEPT !.end = e1, !.next = KP(kp, e1),
                                   !.valid = Append(@, row)]
                ELSE LET e2 == SkipTarget(kp, row, e1)
                     IN StartRun(kp, e2, row) @@ EmitRun(acc, e1, e2)
      first == [start |-> 0, end |-> 1, next |-> KP(kp, 1), valid |-> <<>>,
                ivs |-> <<>>, vf |-> <<>>]
      fin == FoldLeft(Step, first, rs)
  IN [keyframe_index_intervals |-> Append(fin.ivs, <<fin.start, fin.end>>),
      valid_frames             |-> Append(fin.vf, fin.valid)]

-----------------------------------------------------------------------------
Out  == SliceIntoVideoIntervals(keyframes, frames)
Ivs  == Out.keyframe_index_intervals
NIvs == Len(Ivs)

\* The inputs, and the two parallel arrays the decomposition returns, of
\* keyframe indices within keyframe_positions.
TypeOK ==
  /\ keyframes \in Seq(0..MaxFrames) /\ Len(keyframes) >= 2
  /\ frames \in Seq(0..(MaxFrames - 1))
  /\ Ivs \in Seq((0..(Len(keyframes) - 1)) \X (0..(Len(keyframes) - 1)))
  /\ Len(Out.valid_frames) = NIvs

\* Spec 8, video-interval coverage: the valid frames of all runs are the
\* frames asked for, and every frame of run k lies in
\* [keyframe_positions[start_k], keyframe_positions[end_k]), so the bytes
\* read for run k decode it and the trailing keyframe ends it.
VideoCoverage ==
  /\ FlattenSeq(Out.valid_frames) = frames
  /\ \A k \in 1..NIvs : \A j \in DOMAIN Out.valid_frames[k] :
        /\ KP(keyframes, Ivs[k][1]) <= Out.valid_frames[k][j]
        /\ Out.valid_frames[k][j] < KP(keyframes, Ivs[k][2])

\* Spec 8, byte monotonicity: every run spans at least one keyframe run and
\* the runs are emitted in ascending order, each separated from the next by
\* at least one skipped keyframe run (spec 4.2: a new run is opened only
\* past a skipped keyframe), so the byte ranges [offsets[start],
\* offsets[end]) are non-empty, ascending, and never adjacent or overlapping.
VideoRunsOrdered ==
  /\ \A k \in 1..NIvs : Ivs[k][1] < Ivs[k][2]
  /\ \A k \in 1..(NIvs - 1) : Ivs[k][2] < Ivs[k + 1][1]
=============================================================================
