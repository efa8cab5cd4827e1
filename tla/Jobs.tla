-------------------------------- MODULE Jobs --------------------------------
(***************************************************************************)
(* internal/jobs: the in-process slot that serializes system-changing      *)
(* jobs, the rows that record them, the goroutine that runs one, the sweep *)
(* a restarted process makes of rows its predecessor left "running", and   *)
(* the power buttons that are refused while a job runs.                    *)
(*                                                                         *)
(* One step is one atomic access of the code: the compare-and-swap, one    *)
(* SQL statement (the store has a single connection), one operation of the *)
(* background function.  HTTP handlers (Clients) interleave with it.       *)
(***************************************************************************)
EXTENDS Naturals

CONSTANTS Clients,        \* concurrent HTTP handlers
          MaxJobs,        \* bound: job rows ever created
          MaxCrashes,     \* bound: process deaths
          StoreMayFail    \* whether a SQL statement may return an error

ASSUME JobsAssumption == /\ MaxJobs \in Nat
                         /\ MaxCrashes \in Nat
                         /\ StoreMayFail \in BOOLEAN

VARIABLES phase,          \* the process: "down", "recovering" or "serving"
          busy,           \* Manager.busy
          last,           \* max(id) of the jobs table
          row,            \* row[j]: status and exit_code of job j
          pc,             \* pc[c]: where handler c stands
          mine,           \* mine[c]: the row handler c created
          worker,         \* worker[j]: where job j's goroutine stands
          outcome,        \* outcome[j]: what it is about to record
          stale,          \* rows RecoverStale has read and not yet marked
          lost,           \* history: rows this process failed to finish
          crashes         \* history: process deaths so far

vars == <<phase, busy, last, row, pc, mine, worker, outcome, stale, lost,
          crashes>>

JobIds == 1..MaxJobs
NoJob == 0
ExitCodes == {"zero", "nonzero"}
Outcomes == [status : {"ok", "failed"}, exit : ExitCodes]
Rows == Outcomes \union {[status |-> s, exit |-> "null"] : s \in {"absent", "running"}}
Failed == [status |-> "failed", exit |-> "nonzero"]
Running == [status |-> "running", exit |-> "null"]
Absent == [status |-> "absent", exit |-> "null"]

\* The stages of handler c in which it owns the slot, and those of job j's goroutine.
Starting(c) == pc[c] \in {"create", "setlog"}
Alive(j) == worker[j] # "none"

TypeOK ==
  /\ phase \in {"down", "recovering", "serving"}
  /\ busy \in BOOLEAN
  /\ last \in 0..MaxJobs
  /\ row \in [JobIds -> Rows]
  /\ pc \in [Clients -> {"idle", "create", "setlog", "power"}]
  /\ mine \in [Clients -> 0..MaxJobs]
  /\ worker \in [JobIds -> {"none", "open", "run", "finish", "abort", "release"}]
  /\ outcome \in [JobIds -> Outcomes]
  /\ stale \subseteq JobIds
  /\ lost \subseteq JobIds
  /\ crashes \in 0..MaxCrashes

\* A first boot: no database rows, the process about to start.
Init ==
  /\ phase = "down"
  /\ busy = FALSE
  /\ last = 0
  /\ row = [j \in JobIds |-> Absent]
  /\ pc = [c \in Clients |-> "idle"]
  /\ mine = [c \in Clients |-> NoJob]
  /\ worker = [j \in JobIds |-> "none"]
  /\ outcome = [j \in JobIds |-> Failed]
  /\ stale = {}
  /\ lost = {}
  /\ crashes = 0
-----------------------------------------------------------------------------
(* Manager.Start, as called by a handler.                                  *)

HandlerOnly == UNCHANGED <<phase, outcome, stale, crashes>>

Leave(c) == /\ pc' = [pc EXCEPT ![c] = "idle"]
            /\ mine' = [mine EXCEPT ![c] = NoJob]

\* A new row takes max(id) + 1.  The guard is the bound on rows.
Insert == /\ last < MaxJobs
          /\ last' = last + 1
          /\ row' = [row EXCEPT ![last + 1] = Running]

SlotIgnored == TRUE       \* broken form of the next: no compare
SlotFree == ~busy

\* busy.CompareAndSwap(false, true).  A handler that loses answers 409 and
\* changes nothing, so only the winner has a step.
Claim(c) ==
  /\ phase = "serving"
  /\ pc[c] = "idle"
  /\ SlotFree
  /\ last < MaxJobs
  /\ busy' = TRUE
  /\ pc' = [pc EXCEPT ![c] = "create"]
  /\ UNCHANGED <<last, row, mine, worker, lost>>
  /\ HandlerOnly

\* store.CreateJob: INSERT, then read back.
CreateJob(c) ==
  /\ pc[c] = "create"
  /\ Insert
  /\ mine' = [mine EXCEPT ![c] = last + 1]
  /\ pc' = [pc EXCEPT ![c] = "setlog"]
  /\ UNCHANGED <<busy, worker, lost>>
  /\ HandlerOnly

KeepSlotOnError == UNCHANGED busy     \* broken form of the next
FreeSlotOnError == busy' = FALSE

\* Either the INSERT fails and leaves nothing, or the read-back does and
\* leaves a "running" row whose id nobody holds.
CreateJobFails(c) ==
  /\ StoreMayFail
  /\ pc[c] = "create"
  /\ \/ UNCHANGED <<last, row, lost>>
     \/ Insert /\ lost' = lost \union {last + 1}
  /\ FreeSlotOnError
  /\ Leave(c)
  /\ UNCHANGED worker
  /\ HandlerOnly

\* store.SetJobLogPath, then the goroutine is started and the handler returns.
SetLogPath(c) ==
  /\ pc[c] = "setlog"
  /\ worker' = [worker EXCEPT ![mine[c]] = "open"]
  /\ Leave(c)
  /\ UNCHANGED <<busy, last, row, lost>>
  /\ HandlerOnly

SetLogPathFails(c) ==
  /\ StoreMayFail
  /\ pc[c] = "setlog"
  /\ lost' = lost \union {mine[c]}
  /\ FreeSlotOnError
  /\ Leave(c)
  /\ UNCHANGED <<last, row, worker>>
  /\ HandlerOnly
-----------------------------------------------------------------------------
(* The background goroutine of job j.                                      *)

\* The goroutine goes on to a stage, and touches nothing of the handlers.
Goto(j, stage) == /\ worker' = [worker EXCEPT ![j] = stage]
                  /\ UNCHANGED <<phase, last, pc, mine, stale, crashes>>

\* os.Create(logPath): the file system may refuse.
OpenLog(j) ==
  /\ worker[j] = "open"
  /\ \E stage \in {"run", "abort"} : Goto(j, stage)
  /\ UNCHANGED <<busy, row, outcome, lost>>

\* Broken forms of the next: an error may keep exit 0; success sets no status.
OutcomeKeepingZero(err, exit) ==
  [status |-> IF err \/ exit = "nonzero" THEN "failed" ELSE "ok", exit |-> exit]

OutcomeWithoutDefault(err, exit) ==
  [status |-> IF err \/ exit = "nonzero" THEN "failed" ELSE "running", exit |-> exit]

\* Status and exit code from what fn returned: an error is a failure whatever
\* the exit code, and is never recorded with exit code 0 (jobs.go:96-105).
Outcome(err, exit) ==
  [status |-> IF err \/ exit = "nonzero" THEN "failed" ELSE "ok",
   exit   |-> IF err THEN "nonzero" ELSE exit]

\* fn: the external commands of the job, which end in any way.
RunFn(j) ==
  /\ worker[j] = "run"
  /\ \E err \in BOOLEAN, exit \in ExitCodes :
       outcome' = [outcome EXCEPT ![j] = Outcome(err, exit)]
  /\ Goto(j, "finish")
  /\ UNCHANGED <<busy, row, lost>>

\* Broken form of the next: without a log the goroutine records nothing.
RecordedUnlessAborted(j) == IF worker[j] = "abort" THEN row[j] ELSE outcome[j]
Recorded(j) == IF worker[j] = "abort" THEN Failed ELSE outcome[j]

\* store.FinishJob with the outcome, or with (failed, -1) if there is no log.
FinishJob(j) ==
  /\ worker[j] \in {"finish", "abort"}
  /\ row' = [row EXCEPT ![j] = Recorded(j)]
  /\ Goto(j, "release")
  /\ UNCHANGED <<busy, outcome, lost>>

\* Its error is logged, or dropped: the row stays "running".
FinishJobFails(j) ==
  /\ StoreMayFail
  /\ worker[j] \in {"finish", "abort"}
  /\ lost' = lost \union {j}
  /\ Goto(j, "release")
  /\ UNCHANGED <<busy, row, outcome>>

\* The deferred busy.Store(false), last of all.
Release(j) ==
  /\ worker[j] = "release"
  /\ busy' = FALSE
  /\ Goto(j, "none")
  /\ UNCHANGED <<row, outcome, lost>>
-----------------------------------------------------------------------------
(* Death and restart of the process.                                       *)

\* Everything in memory is gone; the rows stay as they are on disk.
Die ==
  /\ crashes < MaxCrashes
  /\ crashes' = crashes + 1
  /\ phase' = "down"
  /\ busy' = FALSE
  /\ pc' = [c \in Clients |-> "idle"]
  /\ mine' = [c \in Clients |-> NoJob]
  /\ worker' = [j \in JobIds |-> "none"]
  /\ stale' = {}
  /\ lost' = {}
  /\ UNCHANGED <<last, row, outcome>>

Crash == phase # "down" /\ Die

\* Broken forms of the next: no WHERE clause; the newest row only.
AllJobs == {j \in JobIds : row[j].status # "absent"}

NewestRunningJob ==
  {j \in JobIds : /\ row[j].status = "running"
                  /\ \A i \in JobIds : row[i].status = "running" => i <= j}

\* store.RunningJobs, read once when the process starts.
RunningJobs == {j \in JobIds : row[j].status = "running"}

RecoveryOnly == UNCHANGED <<busy, last, pc, mine, worker, outcome, lost, crashes>>

Restart ==
  /\ phase = "down"
  /\ phase' = "recovering"
  /\ stale' = RunningJobs
  /\ UNCHANGED row
  /\ RecoveryOnly

SweptAsOk == [status |-> "ok", exit |-> "zero"]     \* broken form of the next
Swept == Failed

\* RecoverStale: one FinishJob per row, in id order.  An error there ends the
\* process: that is a Crash.
RecoverOne(j) ==
  /\ phase = "recovering"
  /\ j \in stale
  /\ \A i \in stale : j <= i
  /\ row' = [row EXCEPT ![j] = Swept]
  /\ stale' = stale \ {j}
  /\ UNCHANGED phase
  /\ RecoveryOnly

\* Only a complete sweep lets main reach ListenAndServe.
Serve ==
  /\ phase = "recovering"
  /\ stale = {}
  /\ phase' = "serving"
  /\ UNCHANGED <<row, stale>>
  /\ RecoveryOnly
-----------------------------------------------------------------------------
(* handlePower: jobs.Busy() is read, and acted on in a later step.         *)

PowerCheck(c) ==
  /\ phase = "serving"
  /\ pc[c] = "idle"
  /\ ~busy
  /\ pc' = [pc EXCEPT ![c] = "power"]
  /\ UNCHANGED <<busy, last, row, mine, worker, lost>>
  /\ HandlerOnly

\* systemctl reboot or poweroff: the host goes down with whatever runs on it.
PowerGo(c) == pc[c] = "power" /\ Die
-----------------------------------------------------------------------------
Handler(c) == \/ Claim(c) \/ CreateJob(c) \/ CreateJobFails(c)
              \/ SetLogPath(c) \/ SetLogPathFails(c)
              \/ PowerCheck(c) \/ PowerGo(c)

Worker(j) == \/ OpenLog(j) \/ RunFn(j) \/ FinishJob(j) \/ FinishJobFails(j)
             \/ Release(j)

Recovery == Restart \/ Serve \/ \E j \in JobIds : RecoverOne(j)

Next == \/ \E c \in Clients : Handler(c)
        \/ \E j \in JobIds : Worker(j)
        \/ Recovery
        \/ Crash

(***************************************************************************)
(* Fairness: a handler that holds the slot goes on (Start does not block), *)
(* the goroutine goes on (fn's commands are assumed to end: nothing in the *)
(* code bounds them), and systemd starts the service again and lets it get *)
(* ready.  Nobody has to click anything, and no crash has to happen.       *)
(***************************************************************************)
Fairness ==
  /\ \A c \in Clients :
       WF_vars(CreateJob(c) \/ CreateJobFails(c) \/ SetLogPath(c) \/ SetLogPathFails(c))
  /\ \A j \in JobIds : WF_vars(Worker(j))
  /\ WF_vars(Recovery)

Spec == Init /\ [][Next]_vars
FairSpec == Spec /\ Fairness
-----------------------------------------------------------------------------
(* Safety.                                                                 *)

\* At most one job is past the compare-and-swap at any time, whoever starts
\* or runs it: two rebuilds never contend for the system profile
\* (jobs.go:19-20, 66).
OneJobAtATime ==
  /\ \A i, j \in JobIds : Alive(i) /\ Alive(j) => i = j
  /\ \A c, d \in Clients : Starting(c) /\ Starting(d) => c = d
  /\ \A c \in Clients, j \in JobIds : ~(Starting(c) /\ Alive(j))

\* The flag is set exactly while somebody is there who will clear it: no error
\* path of Start or of the goroutine leaves every later job refused for good
\* (jobs.go:74, 79, 85).
SlotNeverLeaks ==
  busy <=> \/ \E c \in Clients : Starting(c)
           \/ \E j \in JobIds : Alive(j)

\* While the process serves, a row says "running" only for the job that owns
\* the slot, or because a write of this process failed: a restart leaves none
\* behind (jobs.go:46-60) and a slot is never freed before the outcome of its
\* job is recorded (jobs.go:85, 106).
RunningRowOwned ==
  phase = "serving" =>
    \A j \in JobIds : row[j].status = "running" =>
                        \/ j \in lost
                        \/ Alive(j)
                        \/ \E c \in Clients : pc[c] = "setlog" /\ mine[c] = j

\* A recorded success has exit code 0 and a recorded failure has another one,
\* on every path that records (jobs.go:54, 90, 96-106).
StatusMatchesExit ==
  \A j \in JobIds : /\ row[j].status = "ok" => row[j].exit = "zero"
                    /\ row[j].status = "failed" => row[j].exit = "nonzero"

\* An outcome, once recorded, is never rewritten: not by the goroutine, not by
\* the sweep of a later process (jobs.go:46-60, store.go:257).
OutcomeIsFinal ==
  [][\A j \in JobIds : row[j].status \in {"ok", "failed"} => row'[j] = row[j]]_vars
-----------------------------------------------------------------------------
(* The abstract slot: a job is current from its row's creation to the step *)
(* that records its outcome or gives it up.                                *)

Owned == {j \in JobIds : /\ row[j].status = "running"
                         /\ \/ worker[j] \in {"open", "run", "finish", "abort"}
                            \/ \E c \in Clients : pc[c] = "setlog" /\ mine[c] = j}

TheJob(owned) == IF owned = {} THEN NoJob ELSE CHOOSE j \in owned : TRUE

Status == [j \in JobIds |-> row[j].status]

Slot == INSTANCE JobSlot WITH status <- Status, current <- TheJob(Owned)

\* The manager, its store rows and its restarts implement the abstract slot.
ImplementsJobSlot == Slot!Spec
-----------------------------------------------------------------------------
(* Liveness.                                                               *)

\* Every job that is started ends up recorded, in this process or by the sweep
\* of the next; only a failed write can leave its row open.
EveryJobIsRecorded ==
  \A j \in JobIds :
    row[j].status = "running" ~> (row[j].status \in {"ok", "failed"} \/ j \in lost)
=============================================================================
