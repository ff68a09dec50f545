------------------------------ MODULE MCMaster ------------------------------
(* Model-checking instances of Master: up to four registered workers,      *)
(* three tasks of one, one and two units, and the workers that may fail.   *)
EXTENDS Master

\* Tasks of 1, 1 and 2 units: more tasks, so that advancing next_task_ and
\* the drain of an in-flight task both happen.
MCTaskUnits == <<1, 1, 2>>
\* A zero-unit task (a sampler over an empty row range) between two others.
MCTaskUnitsEmpty == <<1, 0, 1>>
MCMayFail == {1}
MCMayFailAll == {0, 1}
\* The sampler of the last, two-unit task may fail, before or after its first unit.
MCSamplerMayFail == {2}
=============================================================================
