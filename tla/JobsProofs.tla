----------------------------- MODULE JobsProofs -----------------------------
(***************************************************************************)
(* The safety properties of Jobs, for any set of handlers and any bounds.  *)
(*                                                                         *)
(* None of the safety properties is inductive alone.  That the slot is     *)
(* held once needs that the flag is set while it is held, that the flag is *)
(* set needs that there is one holder, and that a row is final needs that  *)
(* whoever is about to write it finds it "running".  Inv joins them.       *)
(***************************************************************************)
EXTENDS Jobs, TLAPS

\* Nothing runs while the process is down or recovering.
QuietUntilServing ==
  phase # "serving" => /\ \A c \in Clients : pc[c] = "idle"
                       /\ \A j \in JobIds : worker[j] = "none"

\* Rows are numbered without gaps.
RowsDense == \A j \in JobIds : row[j].status = "absent" <=> j > last

\* The sweep still has all running rows before it, and only those.
StaleExact ==
  /\ phase = "recovering" => stale = RunningJobs
  /\ phase # "recovering" => stale = {}

\* Whoever is about to write a row finds it running.
WritersFindRunning ==
  /\ \A c \in Clients : pc[c] = "setlog" => /\ mine[c] \in 1..last
                                            /\ row[mine[c]] = Running
  /\ \A j \in JobIds :
       worker[j] \in {"open", "run", "finish", "abort"} => row[j] = Running

\* A goroutine that has nothing left but to free the slot has recorded its
\* outcome, or failed to.
ReleasedIsRecorded ==
  \A j \in JobIds : worker[j] = "release" /\ row[j].status = "running" => j \in lost

OutcomeMatches ==
  \A j \in JobIds : outcome[j].status = "ok" <=> outcome[j].exit = "zero"

Inv == /\ TypeOK
       /\ OneJobAtATime
       /\ SlotNeverLeaks
       /\ QuietUntilServing
       /\ RowsDense
       /\ StaleExact
       /\ WritersFindRunning
       /\ ReleasedIsRecorded
       /\ OutcomeMatches
       /\ StatusMatchesExit
       /\ RunningRowOwned

-----------------------------------------------------------------------------
(* Every step is one of these: splits Next once for all the proofs below.  *)
LEMMA NextCases ==
  ASSUME [Next]_vars
  PROVE  \/ \E c \in Clients : \/ Claim(c) \/ CreateJob(c) \/ CreateJobFails(c)
                               \/ SetLogPath(c) \/ SetLogPathFails(c) \/ PowerCheck(c)
         \/ \E j \in JobIds : \/ OpenLog(j) \/ RunFn(j) \/ FinishJob(j)
                              \/ FinishJobFails(j) \/ Release(j) \/ RecoverOne(j)
         \/ Die \/ Restart \/ Serve \/ UNCHANGED vars
  BY Zenon DEF Next, Handler, Worker, Recovery, Crash, PowerGo

\* The constant rows are rows, and the outcome of fn is a consistent one.
LEMMA RowTypes ==
  /\ Running \in Rows /\ Absent \in Rows /\ Failed \in Rows
  /\ Running.status = "running" /\ Failed.status = "failed" /\ Absent.status = "absent"
  /\ Failed.exit = "nonzero"
  /\ Failed \in Outcomes
  /\ \A o \in Outcomes : o \in Rows /\ o.status \in {"ok", "failed"}
  /\ \A r \in Rows : r.status = "running" => r = Running
  /\ \A r \in Rows : r.status = "absent" => r = Absent
  /\ \A r \in Rows : r.status \in {"absent", "running", "ok", "failed"}
  /\ \A err \in BOOLEAN, exit \in ExitCodes :
       /\ Outcome(err, exit) \in Outcomes
       /\ Outcome(err, exit).status = "ok" <=> Outcome(err, exit).exit = "zero"
  BY DEF Running, Absent, Failed, Rows, Outcomes, ExitCodes, Outcome

\* Job ids and "no job" lie within the bound of the counters.
LEMMA BoundTypes == /\ NoJob \in 0..MaxJobs
                    /\ 0 \in 0..MaxCrashes
                    /\ \A n \in 0..MaxJobs : n < MaxJobs => n + 1 \in JobIds
                    /\ JobIds \subseteq 0..MaxJobs
  BY JobsAssumption DEF NoJob, JobIds

\* A first boot satisfies the inductive invariant.
LEMMA InitInv == Init => Inv
<1> SUFFICES ASSUME Init PROVE Inv
  OBVIOUS
<1> USE JobsAssumption DEF Init, JobIds, NoJob
<1>1. TypeOK
  BY RowTypes, BoundTypes DEF TypeOK
<1>2. \A j \in JobIds : row[j].status = "absent"
  BY RowTypes
<1>3. OneJobAtATime /\ SlotNeverLeaks /\ QuietUntilServing
  BY DEF OneJobAtATime, SlotNeverLeaks, QuietUntilServing, Starting, Alive
<1>4. RowsDense /\ StaleExact /\ WritersFindRunning /\ ReleasedIsRecorded
  BY <1>2 DEF RowsDense, StaleExact, WritersFindRunning, ReleasedIsRecorded
<1>5. OutcomeMatches
  BY DEF OutcomeMatches, Failed
<1>6. StatusMatchesExit /\ RunningRowOwned
  BY <1>2 DEF StatusMatchesExit, RunningRowOwned
<1> QED
  BY <1>1, <1>3, <1>4, <1>5, <1>6 DEF Inv

(***************************************************************************)
(* Types and outcomes.                                                     *)
(***************************************************************************)
\* Every step of the manager keeps the types of its state and rows.
LEMMA TypeStep == TypeOK /\ WritersFindRunning /\ [Next]_vars => TypeOK'
<1> SUFFICES ASSUME TypeOK, WritersFindRunning, [Next]_vars PROVE TypeOK'
  OBVIOUS
<1> USE JobsAssumption, BoundTypes DEF TypeOK
<1>1. ASSUME NEW c \in Clients, Claim(c) PROVE TypeOK'
  BY <1>1 DEF Claim, HandlerOnly
<1>2. ASSUME NEW c \in Clients, CreateJob(c) PROVE TypeOK'
  BY <1>2, RowTypes DEF CreateJob, Insert, HandlerOnly
<1>3. ASSUME NEW c \in Clients, CreateJobFails(c) PROVE TypeOK'
  BY <1>3, RowTypes DEF CreateJobFails, Insert, FreeSlotOnError, Leave, HandlerOnly
<1>4. ASSUME NEW c \in Clients, SetLogPath(c) PROVE TypeOK'
  BY <1>4 DEF SetLogPath, Leave, HandlerOnly
<1>5. ASSUME NEW c \in Clients, SetLogPathFails(c) PROVE TypeOK'
  <2>1. mine[c] \in JobIds
    BY <1>5 DEF SetLogPathFails, WritersFindRunning, JobIds
  <2> QED
    BY <1>5, <2>1 DEF SetLogPathFails, FreeSlotOnError, Leave, HandlerOnly
<1>6. ASSUME NEW c \in Clients, PowerCheck(c) PROVE TypeOK'
  BY <1>6 DEF PowerCheck, HandlerOnly
<1>7. ASSUME NEW j \in JobIds, OpenLog(j) PROVE TypeOK'
  BY <1>7 DEF OpenLog, Goto
<1>8. ASSUME NEW j \in JobIds, RunFn(j) PROVE TypeOK'
  BY <1>8, RowTypes DEF RunFn, Goto
<1>9. ASSUME NEW j \in JobIds, FinishJob(j) PROVE TypeOK'
  BY <1>9, RowTypes DEF FinishJob, Recorded, Goto
<1>10. ASSUME NEW j \in JobIds, FinishJobFails(j) PROVE TypeOK'
  BY <1>10 DEF FinishJobFails, Goto
<1>11. ASSUME NEW j \in JobIds, Release(j) PROVE TypeOK'
  BY <1>11 DEF Release, Goto
<1>12. ASSUME NEW j \in JobIds, RecoverOne(j) PROVE TypeOK'
  BY <1>12, RowTypes DEF RecoverOne, Swept, RecoveryOnly
<1>13. CASE Die
  <2>1. crashes' \in 0..MaxCrashes
    BY <1>13 DEF Die
  <2>2. /\ pc' \in [Clients -> {"idle", "create", "setlog", "power"}]
        /\ mine' \in [Clients -> 0..MaxJobs]
        /\ worker' \in [JobIds -> {"none", "open", "run", "finish", "abort", "release"}]
    BY <1>13 DEF Die
  <2> QED
    BY <1>13, <2>1, <2>2 DEF Die
<1>14. CASE Restart
  BY <1>14 DEF Restart, RunningJobs, RecoveryOnly
<1>15. CASE Serve
  BY <1>15 DEF Serve, RecoveryOnly
<1>16. CASE UNCHANGED vars
  BY <1>16 DEF vars
<1> QED
  BY <1>1, <1>2, <1>3, <1>4, <1>5, <1>6, <1>7, <1>8, <1>9, <1>10, <1>11, <1>12,
     <1>13, <1>14, <1>15, <1>16, NextCases

\* Every step keeps the outcome in memory and the recorded ones consistent.
LEMMA OutcomeStep ==
  TypeOK /\ OutcomeMatches /\ StatusMatchesExit /\ [Next]_vars
    => OutcomeMatches' /\ StatusMatchesExit'
<1> DEFINE Good == OutcomeMatches' /\ StatusMatchesExit'
<1> SUFFICES ASSUME TypeOK, OutcomeMatches, StatusMatchesExit, [Next]_vars PROVE Good
  OBVIOUS
<1> USE DEF TypeOK, OutcomeMatches, StatusMatchesExit
<1>1. ASSUME UNCHANGED <<outcome, row>> PROVE Good
  BY <1>1
<1>2. ASSUME UNCHANGED outcome, Insert PROVE Good
  BY <1>2, RowTypes DEF Insert
<1>3. ASSUME NEW c \in Clients,
             Claim(c) \/ CreateJob(c) \/ CreateJobFails(c)
               \/ SetLogPath(c) \/ SetLogPathFails(c) \/ PowerCheck(c)
      PROVE  Good
  BY <1>1, <1>2, <1>3
     DEF Claim, CreateJob, CreateJobFails, SetLogPath, SetLogPathFails, PowerCheck,
         HandlerOnly
<1>4. ASSUME NEW j \in JobIds, OpenLog(j) \/ FinishJobFails(j) \/ Release(j)
      PROVE  Good
  BY <1>1, <1>4 DEF OpenLog, FinishJobFails, Release
<1>5. ASSUME NEW j \in JobIds, RunFn(j) PROVE Good
  BY <1>5, RowTypes DEF RunFn
<1>6. ASSUME NEW j \in JobIds, FinishJob(j) PROVE Good
  <2>1. Recorded(j).status = "ok" <=> Recorded(j).exit = "zero"
    BY RowTypes DEF Recorded
  <2>2. Recorded(j) \in Outcomes
    BY RowTypes DEF Recorded
  <2>3. StatusMatchesExit'
    BY <1>6, <2>1, <2>2 DEF FinishJob, Outcomes, ExitCodes
  <2> QED
    BY <1>6, <2>3 DEF FinishJob
<1>7. ASSUME NEW j \in JobIds, RecoverOne(j) PROVE Good
  BY <1>7, RowTypes DEF RecoverOne, Swept, RecoveryOnly
<1>8. CASE Die \/ Restart \/ Serve \/ UNCHANGED vars
  BY <1>1, <1>8 DEF Die, Restart, Serve, RecoveryOnly, vars
<1> QED
  BY <1>3, <1>4, <1>5, <1>6, <1>7, <1>8, NextCases

(***************************************************************************)
(* Who holds the slot.                                                     *)
(***************************************************************************)
\* Every step keeps the slot exclusive, and the flag set exactly while held.
LEMMA SlotStep ==
  ASSUME TypeOK, OneJobAtATime, SlotNeverLeaks, QuietUntilServing,
         WritersFindRunning, [Next]_vars
  PROVE  OneJobAtATime' /\ SlotNeverLeaks' /\ QuietUntilServing'
<1> DEFINE Good == OneJobAtATime' /\ SlotNeverLeaks' /\ QuietUntilServing'
<1> USE JobsAssumption
    DEF TypeOK, OneJobAtATime, SlotNeverLeaks, QuietUntilServing, Starting, Alive,
        JobIds, NoJob
<1>1. ASSUME NEW c \in Clients, Claim(c) PROVE Good
  BY <1>1 DEF Claim, SlotFree, HandlerOnly
<1>2. ASSUME NEW c \in Clients, CreateJob(c) PROVE Good
  BY <1>2 DEF CreateJob, HandlerOnly
<1>3. ASSUME NEW c \in Clients, CreateJobFails(c) \/ SetLogPathFails(c) PROVE Good
  BY <1>3, ZenonT(30) DEF CreateJobFails, SetLogPathFails, FreeSlotOnError, Leave, HandlerOnly
<1>4. ASSUME NEW c \in Clients, SetLogPath(c) PROVE Good
  BY <1>4 DEF SetLogPath, Leave, HandlerOnly, WritersFindRunning
<1>5. ASSUME NEW c \in Clients, PowerCheck(c) PROVE Good
  BY <1>5 DEF PowerCheck, HandlerOnly
<1>6. ASSUME NEW j \in JobIds,
             OpenLog(j) \/ RunFn(j) \/ FinishJob(j) \/ FinishJobFails(j)
      PROVE  Good
  <2>1. /\ \A i \in JobIds : worker'[i] # "none" <=> worker[i] # "none"
        /\ UNCHANGED <<phase, busy, pc>>
        /\ phase = "serving"
    BY <1>6 DEF OpenLog, RunFn, FinishJob, FinishJobFails, Goto
  <2> QED
    BY <2>1
<1>7. ASSUME NEW j \in JobIds, Release(j) PROVE Good
  BY <1>7 DEF Release, Goto
<1>8. ASSUME NEW j \in JobIds, RecoverOne(j) PROVE Good
  BY <1>8 DEF RecoverOne, RecoveryOnly
<1>9. CASE Die
  BY <1>9 DEF Die
<1>10. CASE Restart \/ Serve \/ UNCHANGED vars
  BY <1>10 DEF Restart, Serve, RecoveryOnly, vars
<1> QED
  BY <1>1, <1>2, <1>3, <1>4, <1>5, <1>6, <1>7, <1>8, <1>9, <1>10, NextCases

(***************************************************************************)
(* What the rows say.                                                      *)
(***************************************************************************)
RowsInv == /\ RowsDense /\ StaleExact /\ WritersFindRunning
           /\ ReleasedIsRecorded /\ RunningRowOwned

\* Every step keeps the rows dense, the sweep exact, the row of each writer
\* running until it is recorded, and every running row owned.
LEMMA RowsStep ==
  ASSUME TypeOK, OneJobAtATime, QuietUntilServing, RowsInv, [Next]_vars
  PROVE  RowsInv'
<1> USE JobsAssumption, BoundTypes, RowTypes DEF TypeOK
<1>1. ASSUME NEW c \in Clients, Claim(c) \/ PowerCheck(c) PROVE RowsInv'
  <2>1. /\ UNCHANGED <<last, row, mine, worker, lost, stale, phase>>
        /\ \A d \in Clients : pc'[d] = "setlog" <=> pc[d] = "setlog"
    BY <1>1 DEF Claim, PowerCheck, HandlerOnly
  <2> QED
    BY <2>1 DEF RowsInv, RowsDense, StaleExact, WritersFindRunning, ReleasedIsRecorded,
                RunningRowOwned, RunningJobs, Alive
<1>2. ASSUME NEW c \in Clients, CreateJob(c) PROVE RowsInv'
  <2>1. /\ last < MaxJobs /\ last' = last + 1 /\ last + 1 \in JobIds
        /\ row' = [row EXCEPT ![last + 1] = Running]
        /\ pc' = [pc EXCEPT ![c] = "setlog"]
        /\ mine' = [mine EXCEPT ![c] = last + 1]
        /\ pc[c] = "create" /\ phase = "serving"
        /\ UNCHANGED <<phase, worker, lost, stale>>
    BY <1>2 DEF CreateJob, Insert, HandlerOnly, QuietUntilServing
  <2>2. \A j \in JobIds : worker[j] = "none"
    BY <2>1 DEF OneJobAtATime, Starting, Alive
  <2>3. RowsDense' /\ StaleExact'
    BY <2>1 DEF RowsInv, RowsDense, StaleExact, JobIds
  <2>4. WritersFindRunning' /\ ReleasedIsRecorded'
    BY <2>1, <2>2 DEF RowsInv, WritersFindRunning, ReleasedIsRecorded, JobIds
  <2>5. RunningRowOwned'
    BY <2>1, <2>2 DEF RowsInv, RunningRowOwned, Alive
  <2> QED
    BY <2>3, <2>4, <2>5 DEF RowsInv
<1>3. ASSUME NEW c \in Clients, CreateJobFails(c) PROVE RowsInv'
  <2>1. /\ pc' = [pc EXCEPT ![c] = "idle"]
        /\ mine' = [mine EXCEPT ![c] = NoJob]
        /\ pc[c] = "create" /\ phase = "serving"
        /\ UNCHANGED <<phase, worker, stale>>
    BY <1>3 DEF CreateJobFails, Leave, HandlerOnly, QuietUntilServing
  <2>2. \A j \in JobIds : worker[j] = "none"
    BY <2>1 DEF OneJobAtATime, Starting, Alive
  <2>3. CASE UNCHANGED <<last, row, lost>>
    BY <2>1, <2>2, <2>3
       DEF RowsInv, RowsDense, StaleExact, WritersFindRunning, ReleasedIsRecorded,
           RunningRowOwned, RunningJobs, Alive
  <2>4. CASE Insert /\ lost' = lost \union {last + 1}
    <3>1. RowsDense' /\ StaleExact'
      BY <2>1, <2>4 DEF Insert, RowsInv, RowsDense, StaleExact, JobIds
    <3>2. WritersFindRunning' /\ ReleasedIsRecorded'
      BY <2>1, <2>2, <2>4
         DEF Insert, RowsInv, WritersFindRunning, ReleasedIsRecorded, JobIds
    <3>3. RunningRowOwned'
      BY <2>1, <2>2, <2>4 DEF Insert, RowsInv, RunningRowOwned, Alive
    <3> QED
      BY <3>1, <3>2, <3>3 DEF RowsInv
  <2> QED
    BY <1>3, <2>3, <2>4 DEF CreateJobFails
<1>4. ASSUME NEW c \in Clients, SetLogPath(c) PROVE RowsInv'
  <2>1. /\ mine[c] \in JobIds /\ row[mine[c]] = Running
        /\ worker' = [worker EXCEPT ![mine[c]] = "open"]
        /\ pc' = [pc EXCEPT ![c] = "idle"]
        /\ mine' = [mine EXCEPT ![c] = NoJob]
        /\ pc[c] = "setlog"
        /\ UNCHANGED <<phase, last, row, lost, stale>>
    BY <1>4 DEF SetLogPath, Leave, HandlerOnly, RowsInv, WritersFindRunning, JobIds
  <2>2. WritersFindRunning' /\ ReleasedIsRecorded'
    BY <2>1 DEF RowsInv, WritersFindRunning, ReleasedIsRecorded
  <2>3. RunningRowOwned'
    BY <2>1 DEF RowsInv, RunningRowOwned, Alive
  <2> QED
    BY <2>1, <2>2, <2>3 DEF RowsInv, RowsDense, StaleExact, RunningJobs
<1>5. ASSUME NEW c \in Clients, SetLogPathFails(c) PROVE RowsInv'
  <2>1. /\ pc' = [pc EXCEPT ![c] = "idle"]
        /\ mine' = [mine EXCEPT ![c] = NoJob]
        /\ lost' = lost \union {mine[c]}
        /\ UNCHANGED <<phase, last, row, worker, stale>>
    BY <1>5 DEF SetLogPathFails, Leave, HandlerOnly
  <2> QED
    BY <2>1 DEF RowsInv, RowsDense, StaleExact, WritersFindRunning, ReleasedIsRecorded,
                RunningRowOwned, RunningJobs, Alive
<1>6. ASSUME NEW j \in JobIds, OpenLog(j) \/ RunFn(j) PROVE RowsInv'
  <2>1. /\ worker[j] \in {"open", "run"}
        /\ \E stage \in {"run", "abort", "finish"} :
             worker' = [worker EXCEPT ![j] = stage]
        /\ UNCHANGED <<phase, last, row, pc, mine, lost, stale>>
    BY <1>6 DEF OpenLog, RunFn, Goto
  <2> QED
    BY <2>1 DEF RowsInv, RowsDense, StaleExact, WritersFindRunning, ReleasedIsRecorded,
                RunningRowOwned, RunningJobs, Alive
<1>7. ASSUME NEW j \in JobIds, FinishJob(j) PROVE RowsInv'
  <2>1. /\ worker[j] \in {"finish", "abort"}
        /\ Recorded(j) \in Outcomes
        /\ row' = [row EXCEPT ![j] = Recorded(j)]
        /\ worker' = [worker EXCEPT ![j] = "release"]
        /\ UNCHANGED <<phase, last, pc, mine, lost, stale>>
        /\ phase = "serving"
    BY <1>7 DEF FinishJob, Goto, Recorded, QuietUntilServing
  <2>2. row[j] = Running
    BY <2>1 DEF RowsInv, WritersFindRunning
  <2>3. \A c \in Clients : pc[c] # "setlog"
    BY <2>1 DEF OneJobAtATime, Starting, Alive
  <2>4. RowsDense' /\ StaleExact'
    BY <2>1, <2>2 DEF RowsInv, RowsDense, StaleExact
  <2>5. WritersFindRunning' /\ ReleasedIsRecorded'
    BY <2>1, <2>3 DEF RowsInv, WritersFindRunning, ReleasedIsRecorded
  <2>6. RunningRowOwned'
    BY <2>1 DEF RowsInv, RunningRowOwned, Alive
  <2> QED
    BY <2>4, <2>5, <2>6 DEF RowsInv
<1>8. ASSUME NEW j \in JobIds, FinishJobFails(j) PROVE RowsInv'
  <2>1. /\ worker' = [worker EXCEPT ![j] = "release"]
        /\ lost' = lost \union {j}
        /\ UNCHANGED <<phase, last, row, pc, mine, stale>>
    BY <1>8 DEF FinishJobFails, Goto
  <2> QED
    BY <2>1 DEF RowsInv, RowsDense, StaleExact, WritersFindRunning, ReleasedIsRecorded,
                RunningRowOwned, RunningJobs, Alive
<1>9. ASSUME NEW j \in JobIds, Release(j) PROVE RowsInv'
  <2>1. /\ worker[j] = "release"
        /\ worker' = [worker EXCEPT ![j] = "none"]
        /\ UNCHANGED <<phase, last, row, pc, mine, stale, lost>>
    BY <1>9 DEF Release, Goto
  <2> QED
    BY <2>1 DEF RowsInv, RowsDense, StaleExact, WritersFindRunning, ReleasedIsRecorded,
                RunningRowOwned, RunningJobs, Alive
<1>10. ASSUME NEW j \in JobIds, RecoverOne(j) PROVE RowsInv'
  <2>1. /\ phase = "recovering" /\ j \in stale
        /\ row' = [row EXCEPT ![j] = Failed]
        /\ stale' = stale \ {j}
        /\ UNCHANGED <<phase, last, pc, mine, worker, lost>>
    BY <1>10 DEF RecoverOne, Swept, RecoveryOnly
  <2>2. /\ \A c \in Clients : pc[c] = "idle"
        /\ \A i \in JobIds : worker[i] = "none"
    BY <2>1 DEF QuietUntilServing
  <2>3. stale = RunningJobs /\ row[j].status = "running"
    BY <2>1 DEF RowsInv, StaleExact, RunningJobs
  <2>4. RowsDense' /\ StaleExact'
    BY <2>1, <2>3 DEF RowsInv, RowsDense, StaleExact, RunningJobs
  <2>5. WritersFindRunning' /\ ReleasedIsRecorded' /\ RunningRowOwned'
    BY <2>1, <2>2 DEF WritersFindRunning, ReleasedIsRecorded, RunningRowOwned
  <2> QED
    BY <2>4, <2>5 DEF RowsInv
<1>11. CASE Die
  BY <1>11 DEF Die, RowsInv, RowsDense, StaleExact, WritersFindRunning,
               ReleasedIsRecorded, RunningRowOwned
<1>12. CASE Restart
  <2>1. /\ \A c \in Clients : pc[c] = "idle"
        /\ \A i \in JobIds : worker[i] = "none"
    BY <1>12 DEF Restart, QuietUntilServing
  <2> QED
    BY <1>12, <2>1
       DEF Restart, RecoveryOnly, RowsInv, RowsDense, StaleExact, WritersFindRunning,
           ReleasedIsRecorded, RunningRowOwned, RunningJobs
<1>13. CASE Serve
  BY <1>13 DEF Serve, RecoveryOnly, RowsInv, RowsDense, StaleExact, WritersFindRunning,
               ReleasedIsRecorded, RunningRowOwned, RunningJobs
<1>14. CASE UNCHANGED vars
  BY <1>14 DEF vars, RowsInv, RowsDense, StaleExact, WritersFindRunning,
               ReleasedIsRecorded, RunningRowOwned, RunningJobs, Alive
<1> QED
  BY <1>1, <1>2, <1>3, <1>4, <1>5, <1>6, <1>7, <1>8, <1>9, <1>10, <1>11, <1>12,
     <1>13, <1>14, NextCases

(***************************************************************************)
(* The invariant, and the properties that follow from it.                  *)
(***************************************************************************)

\* Inv holds of every reachable state of the job manager, in any process life.
THEOREM Invariant == Spec => []Inv
<1>1. Inv /\ [Next]_vars => Inv'
  <2> SUFFICES ASSUME Inv, [Next]_vars PROVE Inv'
    OBVIOUS
  <2>1. TypeOK'
    BY TypeStep DEF Inv
  <2>2. OutcomeMatches' /\ StatusMatchesExit'
    BY OutcomeStep DEF Inv
  <2>3. OneJobAtATime' /\ SlotNeverLeaks' /\ QuietUntilServing'
    BY SlotStep DEF Inv
  <2>4. RowsInv'
    BY RowsStep DEF Inv, RowsInv
  <2> QED
    BY <2>1, <2>2, <2>3, <2>4 DEF Inv, RowsInv
<1> QED
  BY InitInv, <1>1, PTL DEF Spec

\* The state of the manager and of the jobs table keeps its types.
THEOREM TypeCorrect == Spec => []TypeOK
<1>1. Inv => TypeOK
  BY DEF Inv
<1> QED
  BY Invariant, <1>1, PTL

\* Jobs are serialized, for any number of concurrent handlers (jobs.go:66).
THEOREM Serialized == Spec => []OneJobAtATime
<1>1. Inv => OneJobAtATime
  BY DEF Inv
<1> QED
  BY Invariant, <1>1, PTL

\* The busy flag is set exactly while somebody will clear it (jobs.go:74-85).
THEOREM NoLeakedSlot == Spec => []SlotNeverLeaks
<1>1. Inv => SlotNeverLeaks
  BY DEF Inv
<1> QED
  BY Invariant, <1>1, PTL

\* A serving process has no unexplained "running" row (jobs.go:46-60, 85).
THEOREM RunningRowsOwned == Spec => []RunningRowOwned
<1>1. Inv => RunningRowOwned
  BY DEF Inv
<1> QED
  BY Invariant, <1>1, PTL

\* No recorded failure carries exit code 0 (jobs.go:96-106).
THEOREM ExitCodesAgree == Spec => []StatusMatchesExit
<1>1. Inv => StatusMatchesExit
  BY DEF Inv
<1> QED
  BY Invariant, <1>1, PTL

\* A recorded outcome is never rewritten (store.go:257, jobs.go:54, 106).
THEOREM OutcomesAreFinal == Spec => OutcomeIsFinal
<1> DEFINE Final == \A j \in JobIds : row[j].status \in {"ok", "failed"} => row'[j] = row[j]
<1>1. ASSUME Inv, [Next]_vars PROVE Final
  <2> USE <1>1 DEF Inv, TypeOK
  <2>1. ASSUME UNCHANGED row PROVE Final
    BY <2>1
  <2>2. ASSUME Insert PROVE Final
    BY <2>2 DEF Insert, RowsDense, JobIds
  <2>3. ASSUME NEW c \in Clients,
               Claim(c) \/ CreateJob(c) \/ CreateJobFails(c)
                 \/ SetLogPath(c) \/ SetLogPathFails(c) \/ PowerCheck(c)
        PROVE  Final
    BY <2>1, <2>2, <2>3
       DEF Claim, CreateJob, CreateJobFails, SetLogPath, SetLogPathFails, PowerCheck
  <2>4. ASSUME NEW j \in JobIds, OpenLog(j) \/ RunFn(j) \/ FinishJobFails(j) \/ Release(j)
        PROVE  Final
    BY <2>1, <2>4 DEF OpenLog, RunFn, FinishJobFails, Release
  <2>5. ASSUME NEW j \in JobIds, FinishJob(j) PROVE Final
    <3>1. row[j].status = "running"
      BY <2>5, RowTypes DEF FinishJob, WritersFindRunning
    <3> QED
      BY <2>5, <3>1 DEF FinishJob
  <2>6. ASSUME NEW j \in JobIds, RecoverOne(j) PROVE Final
    <3>1. row[j].status = "running"
      BY <2>6 DEF RecoverOne, StaleExact, RunningJobs
    <3> QED
      BY <2>6, <3>1 DEF RecoverOne
  <2>7. CASE Die \/ Restart \/ Serve \/ UNCHANGED vars
    BY <2>1, <2>7 DEF Die, Restart, Serve, vars
  <2> QED
    BY <2>3, <2>4, <2>5, <2>6, <2>7, NextCases
<1>2. Inv /\ [Next]_vars => [Final]_vars
  BY <1>1
<1> QED
  BY Invariant, <1>2, PTL DEF Spec, OutcomeIsFinal

(***************************************************************************)
(* The manager implements the abstract slot.                               *)
(***************************************************************************)
\* The current job of no candidate, and of one.
LEMMA TheJobOf == /\ TheJob({}) = NoJob
                  /\ \A j : TheJob({j}) = j
<1>1. ASSUME NEW j PROVE TheJob({j}) = j
  BY DEF TheJob
<1> QED
  BY <1>1 DEF TheJob

\* While a handler is between the claim and its row, and whenever nothing is
\* running, no row is owned; otherwise the only candidate is.
LEMMA OwnedBy ==
  ASSUME Inv
  PROVE  /\ \A c \in Clients : pc[c] = "create" => Owned = {}
         /\ \A c \in Clients : pc[c] = "setlog" => Owned = {mine[c]}
         /\ \A j \in JobIds : worker[j] \in {"open", "run", "finish", "abort"}
                                => Owned = {j}
         /\ (~ \E c \in Clients : pc[c] = "setlog")
              /\ (\A j \in JobIds : worker[j] \in {"none", "release"}) => Owned = {}
  BY RowTypes, BoundTypes
     DEF Inv, TypeOK, OneJobAtATime, Starting, Alive, Owned, WritersFindRunning, JobIds

\* A step that moves neither the rows nor the owned job is an abstract stutter.
LEMMA SlotFrame ==
  ASSUME UNCHANGED row, Owned' = Owned
  PROVE  UNCHANGED Slot!vars
  BY DEF Slot!vars, Status

\* Losing the owned job without a write of its row is an abstract Abandon.
LEMMA SlotAbandon ==
  ASSUME UNCHANGED row, NEW j \in JobIds, Owned = {j}, Owned' = {}
  PROVE  Slot!Abandon
  BY TheJobOf DEF Slot!Abandon, Slot!NoJob, NoJob, Status, JobIds

\* Init maps to the abstract Init, every step to an abstract step or a stutter.
LEMMA SlotInit == Init => Slot!Init
<1> SUFFICES ASSUME Init PROVE Slot!Init
  OBVIOUS
<1>1. Owned = {}
  BY DEF Init, Owned, Absent
<1> QED
  BY <1>1, TheJobOf, RowTypes
     DEF Init, Slot!Init, Slot!JobIds, Slot!NoJob, NoJob, JobIds, Status

\* Inserting a row is an abstract Begin, kept by a handler or lost at once.
LEMMA SlotInsert ==
  ASSUME Inv, Insert, Owned = {}
  PROVE  /\ last + 1 \in JobIds
         /\ Slot!IsNext(last + 1)
         /\ Status' = [Status EXCEPT ![last + 1] = "running"]
         /\ TheJob(Owned) = NoJob
<1> USE BoundTypes, RowTypes DEF Inv, TypeOK, Insert
<1>1. last + 1 \in JobIds
  OBVIOUS
<1>2. Slot!IsNext(last + 1)
  BY <1>1 DEF Slot!IsNext, Slot!JobIds, JobIds, Status, RowsDense
<1>3. Status' = [Status EXCEPT ![last + 1] = "running"]
  BY <1>1 DEF Status
<1> QED
  BY <1>1, <1>2, <1>3, TheJobOf

\* Under the invariant every step maps to an abstract step or a stutter.
LEMMA SlotStepMaps == Inv /\ [Next]_vars => [Slot!Next]_(Slot!vars)
<1> DEFINE Maps == [Slot!Next]_(Slot!vars)
<1> SUFFICES ASSUME Inv, [Next]_vars PROVE Maps
  OBVIOUS
<1> USE RowTypes, BoundTypes DEF Inv, TypeOK
<1>1. ASSUME UNCHANGED row, Owned' = Owned PROVE Maps
  BY <1>1, SlotFrame
<1>2. ASSUME UNCHANGED row, NEW j \in JobIds, Owned = {j}, Owned' = {} PROVE Maps
  BY <1>2, SlotAbandon DEF Slot!Next
<1>3. ASSUME NEW c \in Clients, Claim(c) \/ PowerCheck(c) PROVE Maps
  <2>1. /\ UNCHANGED <<row, mine, worker>>
        /\ \A d \in Clients : pc'[d] = "setlog" <=> pc[d] = "setlog"
    BY <1>3 DEF Claim, PowerCheck, HandlerOnly
  <2>2. Owned' = Owned
    BY <2>1 DEF Owned
  <2> QED
    BY <1>1, <2>1, <2>2
<1>4. ASSUME NEW c \in Clients, CreateJob(c) PROVE Maps
  <2>1. /\ Insert /\ pc[c] = "create" /\ UNCHANGED worker
        /\ pc' = [pc EXCEPT ![c] = "setlog"]
        /\ mine' = [mine EXCEPT ![c] = last + 1]
    BY <1>4 DEF CreateJob
  <2>2. Owned = {} /\ last + 1 \in JobIds
    BY <2>1, OwnedBy, SlotInsert
  <2>3. /\ \A j \in JobIds : worker[j] = "none"
        /\ \A d \in Clients : pc'[d] = "setlog" => d = c
    BY <2>1 DEF OneJobAtATime, Starting, Alive
  <2>4. Owned' = {last + 1}
    BY <2>1, <2>2, <2>3 DEF Owned, Insert
  <2>5. Slot!Begin(last + 1)
    BY <2>1, <2>2, <2>4, SlotInsert, TheJobOf DEF Slot!Begin, Slot!NoJob, NoJob
  <2> QED
    BY <2>2, <2>5 DEF Slot!Next, Slot!JobIds, JobIds
<1>5. ASSUME NEW c \in Clients, CreateJobFails(c) PROVE Maps
  <2>1. /\ pc[c] = "create" /\ UNCHANGED worker
        /\ pc' = [pc EXCEPT ![c] = "idle"]
    BY <1>5 DEF CreateJobFails, Leave
  <2>2. /\ \A j \in JobIds : worker[j] = "none"
        /\ \A d \in Clients : pc'[d] # "setlog"
    BY <2>1 DEF OneJobAtATime, Starting, Alive
  <2>3. Owned = {} /\ Owned' = {}
    BY <2>1, <2>2, OwnedBy DEF Owned
  <2>4. CASE UNCHANGED row
    BY <2>3, <2>4, <1>1
  <2>5. CASE Insert
    <3>1. Slot!Stillborn(last + 1)
      BY <2>3, <2>5, SlotInsert DEF Slot!Stillborn, Slot!NoJob, NoJob
    <3> QED
      BY <2>3, <2>5, <3>1, SlotInsert DEF Slot!Next, Slot!JobIds, JobIds
  <2> QED
    BY <1>5, <2>4, <2>5 DEF CreateJobFails
<1>6. ASSUME NEW c \in Clients, SetLogPath(c) \/ SetLogPathFails(c) PROVE Maps
  <2>1. /\ pc[c] = "setlog" /\ UNCHANGED row /\ mine[c] \in JobIds
        /\ pc' = [pc EXCEPT ![c] = "idle"]
        /\ row[mine[c]] = Running
    BY <1>6 DEF SetLogPath, SetLogPathFails, Leave, WritersFindRunning, JobIds
  <2>2. /\ \A j \in JobIds : worker[j] = "none"
        /\ \A d \in Clients : pc'[d] # "setlog"
    BY <2>1 DEF OneJobAtATime, Starting, Alive
  <2>3. Owned = {mine[c]}
    BY <2>1, OwnedBy
  <2>4. CASE worker' = [worker EXCEPT ![mine[c]] = "open"]
    <3>1. Owned' = {mine[c]}
      BY <2>1, <2>2, <2>4, ZenonT(60) DEF Owned
    <3> QED
      BY <1>1, <2>1, <2>3, <3>1
  <2>5. CASE UNCHANGED worker
    <3>1. Owned' = {}
      BY <2>2, <2>5, ZenonT(30) DEF Owned
    <3> QED
      BY <1>2, <2>1, <2>3, <3>1
  <2> QED
    BY <1>6, <2>4, <2>5 DEF SetLogPath, SetLogPathFails
<1>7. ASSUME NEW j \in JobIds, OpenLog(j) \/ RunFn(j) \/ Release(j) PROVE Maps
  <2>1. /\ UNCHANGED <<row, pc, mine>>
        /\ \A i \in JobIds : worker'[i] \in {"open", "run", "finish", "abort"}
                               <=> worker[i] \in {"open", "run", "finish", "abort"}
    BY <1>7 DEF OpenLog, RunFn, Release, Goto
  <2>2. Owned' = Owned
    BY <2>1 DEF Owned
  <2> QED
    BY <1>1, <2>1, <2>2
<1>8. ASSUME NEW j \in JobIds, FinishJob(j) \/ FinishJobFails(j) PROVE Maps
  <2>1. /\ worker[j] \in {"finish", "abort"}
        /\ worker' = [worker EXCEPT ![j] = "release"]
        /\ UNCHANGED <<pc, mine>>
    BY <1>8 DEF FinishJob, FinishJobFails, Goto
  <2>2. Owned = {j} /\ row[j].status = "running"
    BY <2>1, OwnedBy DEF WritersFindRunning
  <2>3. /\ \A c \in Clients : pc'[c] # "setlog"
        /\ \A i \in JobIds : worker'[i] \in {"none", "release"}
    BY <2>1 DEF OneJobAtATime, Starting, Alive
  <2>4. Owned' = {}
    BY <2>3 DEF Owned
  <2>5. CASE FinishJob(j)
    <3>1. /\ Recorded(j).status \in {"ok", "failed"}
          /\ row' = [row EXCEPT ![j] = Recorded(j)]
      BY <2>5 DEF FinishJob, Recorded
    <3>2. Status' = [Status EXCEPT ![j] = Recorded(j).status]
      BY <3>1 DEF Status
    <3>3. Slot!Finish(j)
      BY <2>2, <2>4, <3>1, <3>2, TheJobOf DEF Slot!Finish, Slot!NoJob, NoJob, Status
    <3> QED
      BY <3>3 DEF Slot!Next, Slot!JobIds, JobIds
  <2>6. CASE FinishJobFails(j)
    BY <1>2, <2>2, <2>4, <2>6 DEF FinishJobFails
  <2> QED
    BY <1>8, <2>5, <2>6
<1>9. ASSUME NEW j \in JobIds, RecoverOne(j) PROVE Maps
  <2>1. /\ phase = "recovering" /\ j \in stale
        /\ row' = [row EXCEPT ![j] = Failed]
        /\ UNCHANGED <<pc, mine, worker>>
    BY <1>9 DEF RecoverOne, Swept, RecoveryOnly
  <2>2. /\ \A c \in Clients : pc[c] = "idle"
        /\ \A i \in JobIds : worker[i] = "none"
        /\ row[j].status = "running"
    BY <2>1 DEF QuietUntilServing, StaleExact, RunningJobs
  <2>3. Owned = {} /\ Owned' = {}
    BY <2>1, <2>2, ZenonT(30) DEF Owned
  <2>4. Status' = [Status EXCEPT ![j] = "failed"]
    BY <2>1 DEF Status
  <2>5. Slot!Sweep(j)
    BY <2>2, <2>3, <2>4, TheJobOf DEF Slot!Sweep, Slot!NoJob, NoJob, Status
  <2> QED
    BY <2>5 DEF Slot!Next, Slot!JobIds, JobIds
<1>10. CASE Die
  <2>1. UNCHANGED row /\ Owned' = {}
    BY <1>10 DEF Die, Owned
  <2>2. Owned = {} \/ \E j \in JobIds : Owned = {j}
    <3>1. CASE \E c \in Clients : pc[c] = "setlog"
      BY <3>1, OwnedBy DEF WritersFindRunning, JobIds
    <3>2. CASE \E j \in JobIds : worker[j] \in {"open", "run", "finish", "abort"}
      BY <3>2, OwnedBy
    <3> QED
      BY <3>1, <3>2, OwnedBy
  <2> QED
    BY <1>1, <1>2, <2>1, <2>2
<1>11. CASE Restart \/ Serve \/ UNCHANGED vars
  <2>1. UNCHANGED <<row, pc, mine, worker>>
    BY <1>11 DEF Restart, Serve, RecoveryOnly, vars
  <2>2. Owned' = Owned
    BY <2>1 DEF Owned
  <2> QED
    BY <1>1, <2>1, <2>2
<1> QED
  BY <1>3, <1>4, <1>5, <1>6, <1>7, <1>8, <1>9, <1>10, <1>11, NextCases

\* The manager with its rows, faults and restarts implements JobSlot.
THEOREM Implementation == Spec => ImplementsJobSlot
  BY Invariant, SlotInit, SlotStepMaps, PTL DEF Spec, ImplementsJobSlot, Slot!Spec
=============================================================================
