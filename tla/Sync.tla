-------------------------------- MODULE Sync --------------------------------
(***************************************************************************)
(* services/sync.py: the rows marked PENDING_SYNC are copied to the online *)
(* database, while scans and requests go on writing the local one.  A row  *)
(* is its primary key; what it says is abstracted to a value that its      *)
(* writers mark pending with (data), and for a machine whether the server  *)
(* key reaches it (last_scan_server_key), which is written otherwise.      *)
(*                                                                         *)
(* All properties speak of one row at a time, so the tables, which sync    *)
(* reads one after the other, are read here in one step; an online foreign *)
(* key that refuses a row is one of the reasons of Refused.                *)
(***************************************************************************)
EXTENDS Naturals

CONSTANTS
  Machines,   \* rows of target_machines, which are never deleted
  Others,     \* findings, runs, their changes, remediations, inventories
  Data,       \* what a row may say
  Syncs       \* the threads that may be in sync() at once

ASSUME RowsAssumption == Machines \cap Others = {} /\ Data # {}

VARIABLES
  local,      \* local[r]: the row in the Local_Database, Absent or Gone
  pending,    \* the local rows whose sync_status is PENDING_SYNC
  online,     \* online[r]: the row in the Online_Database, or Absent
  scanned,    \* machines whose scan is committed, its outcome not yet recorded
  sync,       \* sync[s]: where s is in sync(), with the rows it has read
  contested   \* history: rows that two syncs held at once and differently, with
              \* no read by one alone since

vars == <<local, pending, online, scanned, sync, contested>>

Rows == Machines \cup Others
Row == [data : Data, key : BOOLEAN]
Absent == [row |-> "absent"]
Gone == [row |-> "gone"]

Present == {r \in Rows : local[r] \in Row}

\* sent holds the values that were read; it is Absent for a row that was not pending.
Idle == [at |-> "idle", sent |-> [r \in Rows |-> Absent]]
Sync == [at : {"idle", "read", "sent"}, sent : [Rows -> Row \cup {Absent}]]
SentBy(s) == {r \in Rows : sync[s].sent[r] # Absent}

Init ==
  /\ local = [r \in Rows |-> Absent]
  /\ pending = {}
  /\ online = [r \in Rows |-> Absent]
  /\ scanned = {}
  /\ sync = [s \in Syncs |-> Idle]
  /\ contested = {}

-----------------------------------------------------------------------------
(* The writers of the local database.                                      *)

KeyOf(r) == IF r \in Present THEN local[r].key ELSE FALSE

\* Every write but one marks the row: a row is added, or updated in place.
Write(r, d) ==
  /\ local[r] # Gone
  /\ local' = [local EXCEPT ![r] = [data |-> d, key |-> KeyOf(r)]]
  /\ pending' = pending \cup {r}
  /\ UNCHANGED <<online, sync, contested>>

\* A machine is registered, by its first scan or enrolment; a scan commits its row.
WriteMachine(r, d, byScan) ==
  /\ r \in Machines
  /\ byScan => r \in Present
  /\ scanned' = IF byScan THEN scanned \cup {r} ELSE scanned
  /\ Write(r, d)

WriteOther(r, d) == r \in Others /\ Write(r, d) /\ UNCHANGED scanned

\* save_findings and the pruning of runs: what is added later has another key.
Delete(r) ==
  /\ r \in Others \cap Present
  /\ local' = [local EXCEPT ![r] = Gone]
  /\ pending' = pending \ {r}
  /\ UNCHANGED <<online, scanned, sync, contested>>

\* _record_outcome of scan_jobs.py, in a transaction after the scan's.
RecordServerKey(r, key) ==
  /\ r \in scanned
  /\ local' = [local EXCEPT ![r].key = key]
  /\ scanned' = scanned \ {r}
  /\ UNCHANGED <<pending, online, sync, contested>>

-----------------------------------------------------------------------------
(* sync().                                                                 *)

\* The syncs besides s that have read the row and are not done.
OthersWith(s, r) == {t \in Syncs \ {s} : r \in SentBy(t)}
Alone(s) == {r \in pending : OthersWith(s, r) = {}}
Disputed(s) == {r \in pending : \E t \in OthersWith(s, r) : sync[t].sent[r] # local[r]}

Read(s) ==
  /\ sync[s].at = "idle"
  /\ sync' = [sync EXCEPT ![s] =
       [at |-> "read", sent |-> [r \in Rows |-> IF r \in pending THEN local[r] ELSE Absent]]]
  /\ contested' = (contested \ Alone(s)) \cup Disputed(s)
  /\ UNCHANGED <<local, pending, online, scanned>>

\* One online transaction, of an insert or update for each row.
Upserted(s) == [r \in Rows |-> IF r \in SentBy(s) THEN sync[s].sent[r] ELSE online[r]]

Propagate(s) ==
  /\ sync[s].at = "read"
  /\ online' = Upserted(s)
  /\ sync' = [sync EXCEPT ![s].at = "sent"]
  /\ UNCHANGED <<local, pending, scanned, contested>>

\* The online database cannot be reached or refuses; or it commits, and the
\* answer is lost.
Refused(s) ==
  /\ sync[s].at = "read"
  /\ online' \in {online, Upserted(s)}
  /\ sync' = [sync EXCEPT ![s] = Idle]
  /\ UNCHANGED <<local, pending, scanned, contested>>

\* Mutants: whatever was sent is marked; a NULL column compares as unequal.
AllSent(s) == SentBy(s)
\* The rows that still hold exactly what was sent.
StillAsSent(s) == {r \in SentBy(s) : local[r] = sync[s].sent[r]}

Flip(s) ==
  /\ sync[s].at = "sent"
  /\ pending' = pending \ StillAsSent(s)
  /\ sync' = [sync EXCEPT ![s] = Idle]
  /\ UNCHANGED <<local, online, scanned, contested>>

\* The local commit is refused ("database is locked").
FlipFails(s) ==
  /\ sync[s].at = "sent"
  /\ sync' = [sync EXCEPT ![s] = Idle]
  /\ UNCHANGED <<local, pending, online, scanned, contested>>

\* The process stops.
Stop ==
  /\ sync' = [s \in Syncs |-> Idle]
  /\ scanned' = {}
  /\ UNCHANGED <<local, pending, online, contested>>

Next ==
  \/ \E r \in Machines, d \in Data, byScan \in BOOLEAN : WriteMachine(r, d, byScan)
  \/ \E r \in Others, d \in Data : WriteOther(r, d)
  \/ \E r \in Others : Delete(r)
  \/ \E r \in Machines, key \in BOOLEAN : RecordServerKey(r, key)
  \/ \E s \in Syncs : Read(s) \/ Propagate(s) \/ Refused(s) \/ Flip(s) \/ FlipFails(s)
  \/ Stop

Spec == Init /\ [][Next]_vars

\* Someone syncs again and again, and neither database fails every time.
FairSpec ==
  Spec /\ \A s \in Syncs : WF_vars(Read(s)) /\ SF_vars(Propagate(s)) /\ SF_vars(Flip(s))

-----------------------------------------------------------------------------
(* Properties.                                                             *)

TypeOK ==
  /\ local \in [Rows -> Row \cup {Absent, Gone}]
  /\ pending \subseteq Present
  /\ online \in [Rows -> Row \cup {Absent}]
  /\ scanned \subseteq Machines \cap Present
  /\ sync \in [Syncs -> Sync]
  /\ contested \subseteq Rows

\* A row that reads SYNCED is in the Online_Database: whatever was written,
\* refused or lost between reading it and marking it, it was not left out (Req
\* 5.6).  It says the same there, unless two syncs held it at once and had read
\* it differently, and no sync has read it alone since: the later upsert may then
\* be the older one.  This is of the fields whose writers mark the row.
SyncedIsOnline ==
  \A r \in Present \ pending :
    /\ online[r] # Absent
    /\ r \notin contested => online[r].data = local[r].data

Converged == pending = {}
Quiet == <>[][UNCHANGED local /\ pending' \subseteq pending]_vars

\* Once no row is written or marked any more, the online database converges to
\* the local one, with nothing pending (Property 10 of the design), however often
\* it was refused.
Converges == Quiet => <>[]Converged

-----------------------------------------------------------------------------
(* The inductive invariant, for any syncs at once.                          *)

\* Those who hold a row that is not contested have read it alike.
AlikeInv ==
  \A s, t \in Syncs : \A r \in (SentBy(s) \cap SentBy(t)) \ contested :
    sync[s].sent[r] = sync[t].sent[r]

\* What a sync has read is pending until someone marks it, as it was read.
ReadInv ==
  \A s \in Syncs : \A r \in SentBy(s) \ contested :
    r \in Present \ pending => local[r].data = sync[s].sent[r].data

\* What a sync has sent is online, and as it was sent.
SentInv ==
  \A s \in Syncs : sync[s].at = "sent" =>
    \A r \in SentBy(s) :
      online[r] # Absent /\ (r \notin contested => online[r] = sync[s].sent[r])

SyncInv == TypeOK /\ AlikeInv /\ ReadInv /\ SentInv /\ SyncedIsOnline
=============================================================================
