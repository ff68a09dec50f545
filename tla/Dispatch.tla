------------------------------ MODULE Dispatch ------------------------------
(***************************************************************************)
(* What the master promises about each job (spec 4.4): the units of the    *)
(* task samplers are handed out one at a time in enumeration order, each   *)
(* once; a worker is sent the sentinel only when every unit is out or the  *)
(* job was stopped by a failure; the job reports success only if every     *)
(* unit went out and it was never stopped.  A unit that cannot be          *)
(* produced (spec 7, task sampler error) stops the job and the worker      *)
(* that asked for it gets the sentinel.  Once a job has returned, the      *)
(* client may submit another.  No locks, counters or completion queue:     *)
(* Master is checked to implement this module.                             *)
(***************************************************************************)
EXTENDS Naturals, Sequences

CONSTANTS Work,     \* the units of all tasks, in enumeration order
          Workers   \* the workers that may ask for work

VARIABLES phase,    \* "idle", "running" or "done"
          handed,   \* the units handed out so far, in order
          stopped,  \* a failure has stopped the job
          finished, \* workers that were sent the sentinel
          success   \* the job's reported result once done

vars == <<phase, handed, stopped, finished, success>>

Init ==
  /\ phase = "idle" /\ handed = <<>> /\ stopped = FALSE
  /\ finished = {} /\ success = TRUE

\* The job is refused before any work is handed out.
Reject ==
  /\ phase = "idle"
  /\ phase' = "done" /\ success' = FALSE
  /\ UNCHANGED <<handed, stopped, finished>>

Start ==
  /\ phase = "idle"
  /\ phase' = "running"
  /\ UNCHANGED <<handed, stopped, finished, success>>

\* The next unit goes to a worker still asking for work.
Hand(w) ==
  /\ phase = "running" /\ w \notin finished
  /\ Len(handed) < Len(Work)
  /\ handed' = Append(handed, Work[Len(handed) + 1])
  /\ UNCHANGED <<phase, stopped, finished, success>>

Stop ==
  /\ phase = "running"
  /\ stopped' = TRUE /\ success' = FALSE
  /\ UNCHANGED <<phase, handed, finished>>

\* Producing the next unit fails: the job stops and the worker that asked
\* for it is sent the sentinel in the same step.
Fail(w) ==
  /\ phase = "running" /\ w \notin finished
  /\ Len(handed) < Len(Work)
  /\ stopped' = TRUE /\ success' = FALSE
  /\ finished' = finished \cup {w}
  /\ UNCHANGED <<phase, handed>>

Sentinel(w) ==
  /\ phase = "running"
  /\ Len(handed) = Len(Work) \/ stopped
  /\ finished' = finished \cup {w}
  /\ UNCHANGED <<phase, handed, stopped, success>>

\* The job ends; it is a success only if all work went out unstopped.
Finish ==
  /\ phase = "running"
  /\ success => Len(handed) = Len(Work)
  /\ phase' = "done"
  /\ UNCHANGED <<handed, stopped, finished, success>>

\* The client submits a job again once the previous one has returned.
Restart ==
  /\ phase = "done"
  /\ phase' = "idle" /\ handed' = <<>> /\ stopped' = FALSE
  /\ finished' = {} /\ success' = TRUE

Next ==
  \/ Reject \/ Start \/ Stop \/ Finish \/ Restart
  \/ \E w \in Workers : Hand(w) \/ Fail(w) \/ Sentinel(w)

Spec == Init /\ [][Next]_vars
=============================================================================
