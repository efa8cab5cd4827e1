------------------------------- MODULE JobSlot -------------------------------
(***************************************************************************)
(* What internal/jobs promises to the rest of nixbox, without saying how:  *)
(* system-changing jobs are serialized ("they all contend for the same     *)
(* system profile", jobs.go:19-20), every job that ends does so once, with *)
(* an outcome that is never rewritten, and a job whose owner died is swept *)
(* to "failed" only while nothing runs.                                    *)
(***************************************************************************)
EXTENDS Naturals

CONSTANT MaxJobs          \* bound: job rows ever created

VARIABLES status,         \* status[j]: what the history says of job j
          current         \* the job that owns the slot, NoJob if none does

vars == <<status, current>>

JobIds == 1..MaxJobs
NoJob == 0
Statuses == {"absent", "running", "ok", "failed"}

\* Rows are numbered in order of creation and never deleted.
IsNext(j) == /\ status[j] = "absent"
             /\ \A i \in JobIds : i < j => status[i] # "absent"

Init == /\ status = [j \in JobIds |-> "absent"]
        /\ current = NoJob

\* A job takes the free slot.
Begin(j) ==
  /\ current = NoJob
  /\ IsNext(j)
  /\ status' = [status EXCEPT ![j] = "running"]
  /\ current' = j

\* A job is recorded but its creation fails before it owns the slot.
Stillborn(j) ==
  /\ current = NoJob
  /\ IsNext(j)
  /\ status' = [status EXCEPT ![j] = "running"]
  /\ UNCHANGED current

\* The job in the slot ends, its outcome recorded in the same step.
Finish(j) ==
  /\ current = j
  /\ status[j] = "running"
  /\ \E outcome \in {"ok", "failed"} :
       status' = [status EXCEPT ![j] = outcome]
  /\ current' = NoJob

\* The job in the slot is given up without an outcome (a crash, a store that
\* refuses the write): its row stays "running".
Abandon ==
  /\ current # NoJob
  /\ current' = NoJob
  /\ UNCHANGED status

\* A row without an owner is marked failed.
Sweep(j) ==
  /\ current = NoJob
  /\ status[j] = "running"
  /\ status' = [status EXCEPT ![j] = "failed"]
  /\ UNCHANGED current

Next == \/ \E j \in JobIds : Begin(j) \/ Stillborn(j) \/ Finish(j) \/ Sweep(j)
        \/ Abandon

Spec == Init /\ [][Next]_vars
=============================================================================
