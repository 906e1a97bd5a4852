---------------------------- MODULE ScanSchedule ----------------------------
(***************************************************************************)
(* The daily scheduled scan (services/scan_schedule.py): one row set from  *)
(* the dashboard, and a ticker that looks at it every minute and, when a   *)
(* slot is due, writes down a scan job and then records the slot as        *)
(* handled.  The two are separate commits, and between them the process    *)
(* may stop, the second may be refused and the server's clock may change.  *)
(*                                                                         *)
(* The jobs live the life JobLifecycle promises, which ScanJobs is shown   *)
(* to keep: the ticker is composed with the promise, not with the worker's *)
(* threads.                                                                *)
(*                                                                         *)
(* Moments are UTC ticks.  The code compares slots with naive local times, *)
(* so a zone, an offset for every moment, is part of the state: it is      *)
(* chosen once and may put the clocks forward or back.                     *)
(***************************************************************************)
EXTENDS Integers, FiniteSets

CONSTANTS
  Jobs,      \* identities of scan jobs
  Hosts,     \* Linux machines in the inventory
  Times,     \* times of day a schedule may name, as ticks after midnight
  Day,       \* ticks in a day
  Zones,     \* functions from moments to the offset of the local clock
  Start, End,\* first and last moment of the model: End bounds the clock
  MaxFaults, \* how many ticks raise or processes stop: a bound of the model
  NoJob, Never

ASSUME ScheduleAssumption ==
  /\ Start \in Nat /\ End \in Nat /\ Start <= End /\ Day \in Nat \ {0}
  /\ Times \subseteq 0..(Day - 1)
  /\ Zones \subseteq [Start..End -> Int]
  /\ NoJob \notin Jobs
  /\ Never \notin Int
  /\ MaxFaults \in Nat

VARIABLES
  status, rows,  \* the jobs the schedule asked for, as JobLifecycle has them
  slotOf,        \* slotOf[j]: the slot job j was started for (history)
  zone,          \* the zone of the server's clock
  now,           \* the moment, UTC
  schedule,      \* the scan_schedule row
  reached,       \* machines with last_scan_server_key set
  keySet,        \* CVEDECK_DEFAULT_SSH_KEY_PATH is set for this process
  up,            \* the process runs, and its ticker with it
  tick,          \* how far the tick under way has come
  faults,        \* exceptions and stops so far
  forgotten      \* slots started for whose record does not cover them (history)

rowVars == <<schedule, reached, keySet>>
vars == <<status, rows, slotOf, zone, now, schedule, reached, keySet, up, tick,
          faults, forgotten>>

Lifecycle == INSTANCE JobLifecycle WITH Jobs <- Jobs, Hosts <- Hosts, status <- status, rows <- rows

Moment == (Start..End) \cup {Never}
Schedule == [enabled : BOOLEAN, time : Times, armedAt : Moment, lastRunAt : Moment]
Idle == [at |-> "idle", slot |-> Never, job |-> NoJob]

Scheduled == {j \in Jobs : slotOf[j] # Never}
Active == {j \in Jobs : status[j] \in Lifecycle!Active}

-----------------------------------------------------------------------------
(* Slots, in local wall-clock time *)

Local(moment) == moment + zone[moment]

\* The most recent daily slot at or before a local time.
LatestSlot(local, time) ==
  LET today == (local \div Day) * Day + time
  IN IF today <= local THEN today ELSE today - Day

\* As a mutant: a slot may be run at its moment twice.
SinceInclusive(slot) ==
  \A m \in {schedule.armedAt, schedule.lastRunAt} \ {Never} : slot >= Local(m)

\* A slot at or before the last run, or before the schedule was last armed, is
\* not due.
Since(slot) ==
  \A m \in {schedule.armedAt, schedule.lastRunAt} \ {Never} : slot > Local(m)

NextSlot == LatestSlot(Local(now), schedule.time)
Due == schedule.enabled /\ Since(NextSlot)

-----------------------------------------------------------------------------
Init ==
  /\ Lifecycle!Init
  /\ slotOf = [j \in Jobs |-> Never]
  /\ zone \in Zones
  /\ now = Start
  /\ \E t \in Times :
       schedule = [enabled |-> FALSE, time |-> t, armedAt |-> Never, lastRunAt |-> Never]
  /\ reached = {}
  /\ keySet \in BOOLEAN
  /\ up = TRUE
  /\ tick = Idle
  /\ faults = 0
  /\ forgotten = {}

\* PUT /api/scan-schedule: switching it on, or moving the time, arms it.
Update(enabled, time) ==
  /\ up
  /\ enabled => keySet
  /\ schedule' = [schedule EXCEPT
       !.enabled = enabled, !.time = time,
       !.armedAt = IF enabled /\ (~schedule.enabled \/ schedule.time # time) THEN now ELSE @]
  /\ UNCHANGED <<status, rows, slotOf, zone, now, reached, keySet, up, tick, faults, forgotten>>

\* A scan of the host ends well, with the server key or without: either is
\* remembered.
HostScanned(h, withKey) ==
  /\ up
  /\ reached' = IF withKey THEN reached \cup {h} ELSE reached \ {h}
  /\ UNCHANGED <<status, rows, slotOf, zone, now, schedule, keySet, up, tick, faults, forgotten>>

\* tick: the row is read and a slot is due.
TickReads ==
  /\ up /\ tick = Idle /\ Due
  /\ tick' = [at |-> "due", slot |-> NextSlot, job |-> NoJob]
  /\ UNCHANGED <<status, rows, slotOf, zone, now, rowVars, up, faults, forgotten>>

\* _start: why a due slot starts no scan.
Skipped ==
  \/ ~keySet
  \/ \E j \in Scheduled : j \in Active
  \/ reached = {}

TickSkips ==
  /\ up /\ tick.at = "due" /\ Skipped
  /\ tick' = [tick EXCEPT !.at = "started"]
  /\ UNCHANGED <<status, rows, slotOf, zone, now, rowVars, up, faults, forgotten>>

\* A uuid no job has had; any will do.
Spare == {j \in Jobs : status[j] = "ABSENT"}
Fresh == IF Spare = {} THEN NoJob ELSE CHOOSE j \in Spare : TRUE

\* A job for every host the key reaches is committed, and queued.  The key file
\* is read then: a host for which that fails is recorded at once as failed.
TickStarts(j, readable) ==
  /\ up /\ tick.at = "due" /\ ~Skipped
  /\ j = Fresh
  /\ Lifecycle!Create(j, reached, IF readable THEN reached ELSE {}, {})
  /\ slotOf' = [slotOf EXCEPT ![j] = tick.slot]
  /\ tick' = [tick EXCEPT !.at = "started", !.job = j]
  /\ UNCHANGED <<zone, now, rowVars, up, faults, forgotten>>

\* A slot a job was started for that lies after the moment of a record in local
\* time is forgotten: the clocks went back under the tick.
Forgets(moment) == forgotten \cup {slotOf[j] : j \in {k \in Scheduled : slotOf[k] > Local(moment)}}

\* As a mutant: only a slot that was run is recorded.
TickRecordsRuns ==
  /\ up /\ tick.at = "started"
  /\ schedule' = [schedule EXCEPT !.lastRunAt = IF tick.job = NoJob THEN @ ELSE now]
  /\ forgotten' = Forgets(now)
  /\ tick' = Idle
  /\ UNCHANGED <<status, rows, slotOf, zone, now, reached, keySet, up, faults>>

\* The slot is recorded as handled, whether it was run or skipped, by the
\* moment of the record.
TickRecords ==
  /\ up /\ tick.at = "started"
  /\ schedule' = [schedule EXCEPT !.lastRunAt = now]
  /\ forgotten' = Forgets(now)
  /\ tick' = Idle
  /\ UNCHANGED <<status, rows, slotOf, zone, now, reached, keySet, up, faults>>

\* A bad tick is logged and never ends the loop; what it had committed stays.
Unrecorded == IF tick.job = NoJob THEN forgotten ELSE forgotten \cup {tick.slot}

TickFails ==
  /\ up /\ tick # Idle /\ faults < MaxFaults
  /\ faults' = faults + 1
  /\ tick' = Idle
  /\ forgotten' = Unrecorded
  /\ UNCHANGED <<status, rows, slotOf, zone, now, rowVars, up>>

\* The process stops, in the middle of a tick or not, and with it the jobs;
\* the next one says so of them before its ticker starts.
Stop ==
  /\ up /\ faults < MaxFaults
  /\ up' = FALSE
  /\ faults' = faults + 1
  /\ tick' = Idle
  /\ forgotten' = Unrecorded
  /\ UNCHANGED <<status, rows, slotOf, zone, now, rowVars>>

Restart(withKey) ==
  /\ ~up
  /\ up' = TRUE
  /\ keySet' = withKey
  /\ IF Active = {} THEN UNCHANGED <<status, rows>> ELSE Lifecycle!Interrupt(Active)
  /\ UNCHANGED <<slotOf, zone, now, schedule, reached, tick, faults, forgotten>>

\* The worker, as far as JobLifecycle promises it.
WorkerSteps ==
  /\ up
  /\ \/ \E j \in Jobs : Lifecycle!Begin(j) \/ Lifecycle!Finish(j) \/ Lifecycle!Cancel(j)
     \/ \E j \in Jobs, h \in Hosts : Lifecycle!HostBegins(j, h) \/ Lifecycle!HostEnds(j, h)
  /\ UNCHANGED <<slotOf, zone, now, rowVars, up, tick, faults, forgotten>>

Pass ==
  /\ now < End
  /\ now' = now + 1
  /\ UNCHANGED <<status, rows, slotOf, zone, rowVars, up, tick, faults, forgotten>>

Next ==
  \/ \E e \in BOOLEAN, t \in Times : Update(e, t)
  \/ \E h \in Hosts, k \in BOOLEAN : HostScanned(h, k)
  \/ TickReads \/ TickSkips \/ TickRecords \/ TickFails
  \/ \E j \in Jobs, r \in BOOLEAN : TickStarts(j, r)
  \/ Stop
  \/ \E k \in BOOLEAN : Restart(k)
  \/ WorkerSteps
  \/ Pass

Spec == Init /\ [][Next]_vars

\* The ticker runs while the process does (run_schedule never returns), and a
\* stopped process is started again by its supervisor.
Ticker == TickReads \/ TickSkips \/ TickRecords \/ \E j \in Jobs, r \in BOOLEAN : TickStarts(j, r)
FairSpec ==
  /\ Spec
  /\ WF_vars(Ticker)
  /\ WF_vars(\E k \in BOOLEAN : Restart(k))

-----------------------------------------------------------------------------
(* Properties *)

TypeOK ==
  /\ slotOf \in [Jobs -> Int \cup {Never}]
  /\ zone \in Zones
  /\ now \in Start..End
  /\ schedule \in Schedule
  /\ reached \subseteq Hosts
  /\ keySet \in BOOLEAN /\ up \in BOOLEAN
  /\ tick \in [at : {"idle", "due", "started"}, slot : Int \cup {Never}, job : Jobs \cup {NoJob}]
  /\ faults \in Nat
  /\ forgotten \subseteq Int

\* What covers a slot a job was started for: the record, or the tick that is
\* still to make it, or else the slot is known to be forgotten.
Covered(j) ==
  \/ slotOf[j] \in forgotten
  \/ schedule.lastRunAt # Never /\ slotOf[j] <= Local(schedule.lastRunAt)
  \/ tick.at = "started" /\ tick.job = j

TickInv ==
  /\ tick.at = "idle" => tick = Idle
  /\ tick.at # "idle" => /\ up
                         /\ tick.slot \in Int
                         /\ schedule.lastRunAt # Never => tick.slot > Local(schedule.lastRunAt)
  /\ tick.at = "due" => tick.job = NoJob
  /\ tick.job # NoJob => tick.job \in Scheduled /\ slotOf[tick.job] = tick.slot

\* A slot is run once, through downtime, skipped hours and hours that come
\* twice, unless the record of its run was lost (tick: "always recorded as
\* handled", scan_schedule.py:164).
OneRunPerSlot ==
  \A i, j \in Scheduled : i # j /\ slotOf[i] = slotOf[j] => slotOf[i] \in forgotten

\* The inductive invariant: types, the tick, and every slot covered.
SlotInv ==
  /\ TypeOK
  /\ status \in [Jobs -> Lifecycle!Status]
  /\ \A j \in Jobs : status[j] = "ABSENT" <=> slotOf[j] = Never
  /\ TickInv
  /\ \A j \in Scheduled : Covered(j)
  /\ OneRunPerSlot

\* Two scheduled scans are never under way together, even when one takes longer
\* than a day or its record was lost (Req 20.6, _start).
OneScheduledScan ==
  \A i, j \in Scheduled \cap Active : i = j

\* A due slot is handled, run or skipped, however often a tick fails or the
\* process stops (Req 20.4).  The model's jobs may run out: that is its bound.
DueIsHandled == Due /\ Spare # {} ~> ~Due \/ Spare = {}
=============================================================================
