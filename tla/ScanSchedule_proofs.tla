------------------------- MODULE ScanSchedule_proofs -------------------------
(***************************************************************************)
(* A slot of the daily schedule is run once unless its record was lost,    *)
(* and two scheduled scans are never under way together: for any zone,     *)
(* times, hosts and number of jobs.                                        *)
(***************************************************************************)
EXTENDS ScanSchedule, TLAPS

USE ScheduleAssumption

\* What the job table may do in one step, seen from the schedule.
JobsKeep ==
  /\ status' \in [Jobs -> Lifecycle!Status]
  /\ \A j \in Jobs : status'[j] = "ABSENT" <=> status[j] = "ABSENT"
  /\ \A j \in Jobs : status'[j] \in Lifecycle!Active => status[j] \in Lifecycle!Active

\* The local time of a moment the clock can show is an integer.
LEMMA LocalInt ==
  ASSUME TypeOK, NEW m \in Start..End
  PROVE  Local(m) \in Int
BY DEF TypeOK, Local

\* The latest slot at or before a local time is one.
LEMMA LatestSlotInt ==
  ASSUME NEW l \in Int, NEW t \in Times
  PROVE  LatestSlot(l, t) \in Int
BY DEF LatestSlot

LEMMA InitSlot == Init => SlotInv
<1> SUFFICES ASSUME Init PROVE SlotInv
  OBVIOUS
<1>1. TypeOK
  BY DEF Init, TypeOK, Schedule, Moment, Idle
<1>2. Scheduled = {}
  BY DEF Init, Scheduled
<1>3. TickInv
  BY DEF Init, TickInv, Idle
<1> QED
  BY <1>1, <1>2, <1>3 DEF Init, SlotInv, OneRunPerSlot, Lifecycle!Init, Lifecycle!Status

\* A step of the worker, or the interruption of the active jobs, begins no job
\* and brings none back.
LEMMA WorkerKeeps ==
  ASSUME SlotInv, WorkerSteps
  PROVE  JobsKeep
<1> USE DEF SlotInv, JobsKeep, Lifecycle!Status, Lifecycle!Active, Lifecycle!Ended
<1>1. ASSUME NEW j \in Jobs, Lifecycle!Begin(j) PROVE JobsKeep
  BY <1>1 DEF Lifecycle!Begin
<1>2. ASSUME NEW j \in Jobs, Lifecycle!Finish(j) PROVE JobsKeep
  BY <1>2 DEF Lifecycle!Finish
<1>3. ASSUME NEW j \in Jobs, Lifecycle!Cancel(j) PROVE JobsKeep
  BY <1>3 DEF Lifecycle!Cancel
<1>4. ASSUME NEW j \in Jobs, NEW h \in Hosts, Lifecycle!HostBegins(j, h) \/ Lifecycle!HostEnds(j, h)
      PROVE JobsKeep
  BY <1>4 DEF Lifecycle!HostBegins, Lifecycle!HostEnds
<1> QED
  BY <1>1, <1>2, <1>3, <1>4 DEF WorkerSteps

LEMMA RestartKeeps ==
  ASSUME SlotInv, NEW k \in BOOLEAN, Restart(k)
  PROVE  JobsKeep
<1> USE DEF SlotInv, JobsKeep, Lifecycle!Status, Lifecycle!Active, Lifecycle!Ended
<1>1. CASE Active = {}
  BY <1>1 DEF Restart
<1>2. CASE Active # {}
  BY <1>2 DEF Restart, Active, Lifecycle!Interrupt
<1> QED
  BY <1>1, <1>2

\* Steps that leave the tick, the record and the slots alone keep the invariant.
LEMMA QuietStep ==
  ASSUME SlotInv, JobsKeep, TypeOK', TickInv',
         UNCHANGED <<slotOf, zone, schedule.lastRunAt, tick, forgotten>>
  PROVE  SlotInv'
BY DEF SlotInv, JobsKeep, Scheduled, Covered, Local, OneRunPerSlot

LEMMA TickReadsSafe == SlotInv /\ TickReads => SlotInv'
<1> SUFFICES ASSUME SlotInv, TickReads PROVE SlotInv'
  OBVIOUS
<1>1. NextSlot \in Int
  BY LocalInt, LatestSlotInt DEF SlotInv, TypeOK, Schedule, NextSlot
<1>2. tick' = [at |-> "due", slot |-> NextSlot, job |-> NoJob]
  BY DEF TickReads
<1>3. UNCHANGED <<status, slotOf, zone, now, schedule, reached, keySet, up, faults, forgotten>>
  BY DEF TickReads, rowVars
<1>4. schedule.lastRunAt # Never => NextSlot > Local(schedule.lastRunAt)
  BY DEF TickReads, Due, Since
<1>5. TypeOK'
  BY <1>1, <1>2, <1>3 DEF SlotInv, TypeOK
<1>6. TickInv'
  BY <1>1, <1>2, <1>3, <1>4 DEF TickReads, TickInv, Local, Idle
<1>7. ASSUME NEW j \in Scheduled' PROVE Covered(j)'
  <2>1. j \in Scheduled /\ Covered(j)
    BY <1>3, <1>7 DEF Scheduled, SlotInv
  <2>2. tick.at # "started"
    BY DEF TickReads, Idle
  <2> QED  BY <2>1, <2>2, <1>3 DEF Covered, Local
<1> QED
  BY <1>3, <1>5, <1>6, <1>7 DEF SlotInv, OneRunPerSlot, Scheduled

LEMMA TickSkipsSafe == SlotInv /\ TickSkips => SlotInv'
<1> SUFFICES ASSUME SlotInv, TickSkips PROVE SlotInv'
  OBVIOUS
<1>1. tick' = [at |-> "started", slot |-> tick.slot, job |-> tick.job] /\ tick.at = "due" /\ tick.job = NoJob
  BY DEF TickSkips, SlotInv, TypeOK, TickInv
<1>2. UNCHANGED <<status, slotOf, zone, now, schedule, reached, keySet, up, faults, forgotten>>
  BY DEF TickSkips, rowVars
<1>3. TypeOK'
  BY <1>1, <1>2 DEF SlotInv, TypeOK
<1>4. TickInv'
  BY <1>1, <1>2 DEF TickSkips, SlotInv, TickInv, Local, Idle
<1>5. ASSUME NEW j \in Scheduled' PROVE Covered(j)'
  <2>1. j \in Scheduled /\ Covered(j)
    BY <1>2, <1>5 DEF Scheduled, SlotInv
  <2> QED  BY <2>1, <1>1, <1>2 DEF Covered, Local
<1> QED
  BY <1>2, <1>3, <1>4, <1>5 DEF SlotInv, OneRunPerSlot, Scheduled

\* A job is started for a slot after every slot the record covers: a slot with
\* a job already is one whose record was lost.
LEMMA TickStartsSafe ==
  ASSUME SlotInv, NEW j \in Jobs, NEW r \in BOOLEAN, TickStarts(j, r)
  PROVE  SlotInv'
<1>1. /\ slotOf' = [slotOf EXCEPT ![j] = tick.slot]
      /\ tick' = [at |-> "started", slot |-> tick.slot, job |-> j]
      /\ tick.at = "due" /\ tick.job = NoJob /\ tick.slot \in Int
      /\ schedule.lastRunAt # Never => tick.slot > Local(schedule.lastRunAt)
  BY DEF TickStarts, SlotInv, TypeOK, TickInv
<1>2. UNCHANGED <<zone, now, schedule, reached, keySet, up, faults, forgotten>>
  BY DEF TickStarts, rowVars
<1>3. /\ status[j] = "ABSENT"
      /\ \E todo : status' = [k \in Jobs |-> IF k = j THEN (IF todo = {} THEN "FINISHED" ELSE "QUEUED")
                                             ELSE status[k]]
  BY DEF TickStarts, Lifecycle!Create
<1>4. slotOf[j] = Never
  BY <1>3 DEF SlotInv
<1>5. Scheduled' = Scheduled \cup {j}
  BY <1>1, <1>4 DEF Scheduled, SlotInv, TypeOK
<1>6. TypeOK'
  BY <1>1, <1>2 DEF SlotInv, TypeOK
<1>7. TickInv'
  BY <1>1, <1>2, <1>5 DEF TickStarts, SlotInv, TypeOK, TickInv, Local, Idle
<1>8. /\ status' \in [Jobs -> Lifecycle!Status]
      /\ \A k \in Jobs : status'[k] = "ABSENT" <=> slotOf'[k] = Never
  BY <1>1, <1>3 DEF SlotInv, TypeOK, Lifecycle!Status, Lifecycle!Active, Lifecycle!Ended
<1>9. ASSUME NEW k \in Scheduled, k # j PROVE slotOf'[k] = slotOf[k] /\ Covered(k)'
  <2>1. slotOf'[k] = slotOf[k]
    BY <1>1, <1>9 DEF Scheduled, SlotInv, TypeOK
  <2> QED  BY <2>1, <1>1, <1>2, <1>9 DEF Covered, SlotInv, Local
<1>10. Covered(j)'
  BY <1>1 DEF Covered
<1>11. ASSUME NEW k \in Scheduled, k # j, slotOf[k] = tick.slot PROVE tick.slot \in forgotten
  <2>1. CASE schedule.lastRunAt # Never /\ slotOf[k] <= Local(schedule.lastRunAt)
    <3>1. Local(schedule.lastRunAt) \in Int
      BY <2>1, LocalInt DEF SlotInv, TypeOK, Schedule, Moment
    <3> QED  BY <2>1, <3>1, <1>1, <1>11
  <2> QED  BY <1>1, <1>11, <2>1 DEF SlotInv, Covered
<1>12. slotOf'[j] = tick.slot
  BY <1>1 DEF SlotInv, TypeOK
<1>13. OneRunPerSlot'
  BY <1>2, <1>5, <1>9, <1>11, <1>12 DEF OneRunPerSlot, SlotInv
<1> QED
  BY <1>5, <1>6, <1>7, <1>8, <1>9, <1>10, <1>13 DEF SlotInv

LEMMA TickRecordsSafe == SlotInv /\ TickRecords => SlotInv'
<1> SUFFICES ASSUME SlotInv, TickRecords PROVE SlotInv'
  OBVIOUS
<1>1. UNCHANGED <<status, slotOf, zone, now, reached, keySet, up, faults>> /\ tick' = Idle
  BY DEF TickRecords
<1>2. /\ schedule' = [schedule EXCEPT !.lastRunAt = now]
      /\ forgotten' = forgotten \cup {slotOf[j] : j \in {k \in Scheduled : slotOf[k] > Local(now)}}
  BY DEF TickRecords, Forgets
<1>3. now # Never /\ now \in Start..End
  BY DEF SlotInv, TypeOK
<1>4. schedule' \in Schedule /\ schedule'.lastRunAt = now
  BY <1>2, <1>3 DEF SlotInv, TypeOK, Schedule, Moment
<1>5. TypeOK'
  BY <1>1, <1>2, <1>4 DEF SlotInv, TypeOK, Scheduled, Idle
<1>6. TickInv'
  BY <1>1 DEF TickInv, Idle
<1>7. Local(now)' = Local(now) /\ Local(now) \in Int
  BY <1>1, <1>3, LocalInt DEF Local, SlotInv
<1>8. ASSUME NEW j \in Scheduled PROVE Covered(j)'
  <2>1. slotOf[j] \in Int
    BY DEF Scheduled, SlotInv, TypeOK
  <2>2. CASE slotOf[j] > Local(now)
    BY <2>2, <1>1, <1>2 DEF Covered
  <2>3. CASE slotOf[j] <= Local(now)
    BY <2>3, <1>1, <1>3, <1>4, <1>7 DEF Covered, Local
  <2> QED  BY <2>1, <2>2, <2>3, <1>7
<1> QED
  BY <1>1, <1>2, <1>5, <1>6, <1>8 DEF SlotInv, OneRunPerSlot, Scheduled

\* A tick that fails and a process that stops lose the record of what the tick
\* had started, and no more.
LEMMA LostSafe ==
  ASSUME SlotInv, TypeOK', tick' = Idle, forgotten' = Unrecorded,
         UNCHANGED <<status, slotOf, zone, schedule>>
  PROVE  SlotInv'
<1>1. TickInv'
  BY DEF TickInv, Idle
<1>2. forgotten \subseteq forgotten' /\ (tick.job # NoJob => tick.slot \in forgotten')
  BY DEF Unrecorded
<1>3. ASSUME NEW j \in Scheduled PROVE Covered(j)'
  <2>1. CASE tick.at = "started" /\ tick.job = j
    <3>1. tick.job # NoJob /\ slotOf[j] = tick.slot
      BY <2>1 DEF SlotInv, TickInv, Scheduled
    <3> QED  BY <3>1, <1>2 DEF Covered
  <2> QED  BY <2>1, <1>2 DEF SlotInv, Covered, Local
<1> QED
  BY <1>1, <1>2, <1>3 DEF SlotInv, OneRunPerSlot, Scheduled

LEMMA FailsSafe == SlotInv /\ (TickFails \/ Stop) => SlotInv'
<1> SUFFICES ASSUME SlotInv, TickFails \/ Stop PROVE SlotInv'
  OBVIOUS
<1>1. /\ tick' = Idle /\ forgotten' = Unrecorded
      /\ UNCHANGED <<status, slotOf, zone, now, schedule, reached, keySet>>
  BY DEF TickFails, Stop, rowVars
<1>2. faults' \in Nat /\ up' \in BOOLEAN
  <2>1. faults' = faults + 1 /\ (up' = up \/ up' = FALSE)
    BY DEF TickFails, Stop
  <2>2. faults' \in Nat
    BY <2>1 DEF SlotInv, TypeOK
  <2>3. up' \in BOOLEAN
    BY <2>1, Zenon DEF SlotInv, TypeOK
  <2> QED  BY <2>2, <2>3
<1>3. Unrecorded \subseteq Int
  BY DEF Unrecorded, SlotInv, TypeOK, TickInv, Scheduled
<1>4. TypeOK'
  BY <1>1, <1>2, <1>3 DEF SlotInv, TypeOK, Idle
<1> QED
  BY <1>1, <1>4, LostSafe

\* The record of the last run is only written by a tick.
LEMMA UpdateSafe ==
  ASSUME SlotInv, NEW e \in BOOLEAN, NEW t \in Times, Update(e, t)
  PROVE  SlotInv'
<1>1. /\ UNCHANGED <<status, slotOf, zone, now, reached, keySet, up, tick, faults, forgotten>>
      /\ schedule' \in Schedule /\ schedule'.lastRunAt = schedule.lastRunAt
  BY DEF Update, SlotInv, TypeOK, Schedule, Moment
<1>2. TypeOK'
  BY <1>1 DEF SlotInv, TypeOK
<1>3. TickInv'
  BY <1>1 DEF SlotInv, TickInv, Local, Scheduled
<1>4. JobsKeep
  BY <1>1 DEF SlotInv, JobsKeep
<1> QED
  BY <1>1, <1>2, <1>3, <1>4, QuietStep

\* So is nothing of it by the other steps.
LEMMA OthersSafe ==
  ASSUME SlotInv, [(\E h \in Hosts, k \in BOOLEAN : HostScanned(h, k)) \/ (\E k \in BOOLEAN : Restart(k)) \/ WorkerSteps \/ Pass]_vars
  PROVE  SlotInv'
<1>1. UNCHANGED <<slotOf, zone, schedule, tick, faults, forgotten>>
  BY DEF HostScanned, Restart, WorkerSteps, Pass, rowVars, vars
<1>2. now' \in Start..End /\ reached' \subseteq Hosts /\ keySet' \in BOOLEAN /\ (up' = up \/ up' = TRUE)
  <2>1. now \in Start..End /\ reached \subseteq Hosts /\ keySet \in BOOLEAN
    BY DEF SlotInv, TypeOK
  <2>2. ASSUME NEW h \in Hosts, NEW k \in BOOLEAN, HostScanned(h, k)
        PROVE  reached' \subseteq Hosts /\ UNCHANGED <<now, keySet, up>>
    BY <2>1, <2>2 DEF HostScanned
  <2>3. ASSUME NEW k \in BOOLEAN, Restart(k)
        PROVE  keySet' \in BOOLEAN /\ up' = TRUE /\ UNCHANGED <<now, reached>>
    BY <2>3 DEF Restart
  <2>4. ASSUME Pass PROVE now' \in Start..End /\ UNCHANGED <<reached, keySet, up>>
    BY <2>1, <2>4 DEF Pass, rowVars
  <2>5. ASSUME WorkerSteps PROVE UNCHANGED <<now, reached, keySet, up>>
    BY <2>5 DEF WorkerSteps, rowVars
  <2> QED  BY <2>1, <2>2, <2>3, <2>4, <2>5 DEF vars
<1>3. TypeOK'
  BY <1>1, <1>2 DEF SlotInv, TypeOK
<1>4. TickInv'
  BY <1>1, <1>2 DEF SlotInv, TypeOK, TickInv, Local, Scheduled
<1>5. JobsKeep
  <2>1. CASE status' = status
    BY <2>1 DEF SlotInv, JobsKeep
  <2> QED  BY <2>1, WorkerKeeps, RestartKeeps DEF HostScanned, Pass, vars
<1> QED
  BY <1>1, <1>3, <1>4, <1>5, QuietStep

\* Every slot a scheduled scan was started for is covered by the record, by the
\* tick that is about to make it, or known to have lost it.
THEOREM SlotInductive == Spec => []SlotInv
<1>1. SlotInv /\ [Next]_vars => SlotInv'
  <2> SUFFICES ASSUME SlotInv, [Next]_vars PROVE SlotInv'
    OBVIOUS
  <2> QED
    BY TickReadsSafe, TickSkipsSafe, TickStartsSafe, TickRecordsSafe, FailsSafe, UpdateSafe, OthersSafe DEF Next
<1> QED
  BY InitSlot, <1>1, PTL DEF Spec

\* A slot of the daily schedule is run once unless its record was lost, in any
\* zone and however often the schedule is changed (tick, next_due).
THEOREM SlotRunOnce == Spec => []OneRunPerSlot
<1>1. SlotInv => OneRunPerSlot
  BY DEF SlotInv
<1> QED
  BY SlotInductive, <1>1, PTL

-----------------------------------------------------------------------------
\* A job goes on or ends; only a tick that saw no active job begins one.
LEMMA OneScanStep == SlotInv /\ OneScheduledScan /\ [Next]_vars => OneScheduledScan'
<1> SUFFICES ASSUME SlotInv, OneScheduledScan, [Next]_vars PROVE OneScheduledScan'
  OBVIOUS
<1>1. ASSUME JobsKeep, slotOf' = slotOf PROVE OneScheduledScan'
  BY <1>1 DEF OneScheduledScan, JobsKeep, Scheduled, Active
<1>2. ASSUME UNCHANGED <<status, slotOf>> PROVE OneScheduledScan'
  BY <1>2 DEF OneScheduledScan, Scheduled, Active
<1>3. ASSUME NEW j \in Jobs, NEW r \in BOOLEAN, TickStarts(j, r) PROVE OneScheduledScan'
  <2>1. \A k \in Scheduled : k \notin Active
    BY <1>3 DEF TickStarts, Skipped
  <2>2. \A k \in Jobs : k # j => status'[k] = status[k] /\ slotOf'[k] = slotOf[k]
    BY <1>3 DEF TickStarts, Lifecycle!Create, SlotInv, TypeOK
  <2> QED  BY <2>1, <2>2 DEF OneScheduledScan, Scheduled, Active
<1>4. ASSUME WorkerSteps \/ \E k \in BOOLEAN : Restart(k) PROVE OneScheduledScan'
  <2>1. slotOf' = slotOf
    BY <1>4 DEF WorkerSteps, Restart
  <2> QED  BY <2>1, <1>1, <1>4, WorkerKeeps, RestartKeeps
<1> QED
  BY <1>2, <1>3, <1>4 DEF Next, Update, HostScanned, TickReads, TickSkips, TickRecords, TickFails, Stop, Pass, vars

\* Two scheduled scans are never under way together: whoever stops, fails or is
\* slow (_start).
THEOREM ScheduledScansApart == Spec => []OneScheduledScan
<1>1. Init => OneScheduledScan
  BY DEF Init, OneScheduledScan, Scheduled
<1> QED
  BY <1>1, OneScanStep, SlotInductive, PTL DEF Spec
=============================================================================
