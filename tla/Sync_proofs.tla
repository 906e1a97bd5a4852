----------------------------- MODULE Sync_proofs -----------------------------
(***************************************************************************)
(* A row that reads SYNCED is online, and as it was written unless two     *)
(* syncs disputed it: for any rows, values, writers, syncs at once,        *)
(* refusals and stops.                                                     *)
(***************************************************************************)
EXTENDS Sync, TLAPS

\* A row is neither of the two marks that stand for no row.
LEMMA NotRows == Absent \notin Row /\ Gone \notin Row /\ Absent # Gone
<1>1. \A x \in Row : DOMAIN x = {"data", "key"}
  BY DEF Row
<1>2. DOMAIN Absent = {"row"} /\ DOMAIN Gone = {"row"}
  BY DEF Absent, Gone
<1>3. {"row"} # {"data", "key"}
  OBVIOUS
<1>4. Absent.row # Gone.row
  BY DEF Absent, Gone
<1> QED  BY <1>1, <1>2, <1>3, <1>4

\* Every step keeps the types.
LEMMA TypePreserved ==
  ASSUME TypeOK, [Next]_vars
  PROVE  TypeOK'
<1> USE RowsAssumption, NotRows DEF TypeOK, Present, Rows
<1>1. ASSUME NEW r \in Machines, NEW d \in Data, NEW byScan \in BOOLEAN, WriteMachine(r, d, byScan)
      PROVE  TypeOK'
  <2>1. [data |-> d, key |-> KeyOf(r)] \in Row
    BY DEF KeyOf, Row
  <2>2. local' = [local EXCEPT ![r] = [data |-> d, key |-> KeyOf(r)]] /\ pending' = pending \cup {r}
    BY <1>1 DEF WriteMachine, Write
  <2> QED  BY <1>1, <2>1, <2>2 DEF WriteMachine, Write
<1>2. ASSUME NEW r \in Others, NEW d \in Data, WriteOther(r, d)
      PROVE  TypeOK'
  <2>1. [data |-> d, key |-> KeyOf(r)] \in Row
    BY DEF KeyOf, Row
  <2>2. local' = [local EXCEPT ![r] = [data |-> d, key |-> KeyOf(r)]] /\ pending' = pending \cup {r}
    BY <1>2 DEF WriteOther, Write
  <2> QED  BY <1>2, <2>1, <2>2 DEF WriteOther, Write
<1>3. ASSUME NEW r \in Others, Delete(r)
      PROVE  TypeOK'
  BY <1>3 DEF Delete
<1>4. ASSUME NEW r \in Machines, NEW key \in BOOLEAN, RecordServerKey(r, key)
      PROVE  TypeOK'
  <2>1. local[r] \in Row
    BY <1>4 DEF RecordServerKey
  <2>2. [local[r] EXCEPT !.key = key] \in Row
    BY <2>1 DEF Row
  <2>3. local' = [local EXCEPT ![r] = [local[r] EXCEPT !.key = key]]
    BY <1>4 DEF RecordServerKey
  <2> QED  BY <1>4, <2>2, <2>3 DEF RecordServerKey
<1>5. ASSUME NEW s \in Syncs, Read(s)
      PROVE  TypeOK'
  <2>1. [at |-> "read", sent |-> [r \in Rows |-> IF r \in pending THEN local[r] ELSE Absent]] \in Sync
    BY DEF Sync
  <2> QED  BY <1>5, <2>1 DEF Read, Alone, Disputed
<1>6. ASSUME NEW s \in Syncs
      PROVE  Upserted(s) \in [Rows -> Row \cup {Absent}]
  BY DEF Upserted, SentBy, Sync
<1>7. Idle \in Sync
  BY DEF Idle, Sync
<1>8. ASSUME NEW s \in Syncs, Propagate(s)
      PROVE  TypeOK'
  <2>1. [sync[s] EXCEPT !.at = "sent"] \in Sync
    BY DEF Sync
  <2>2. sync' = [sync EXCEPT ![s] = [sync[s] EXCEPT !.at = "sent"]]
    BY <1>8 DEF Propagate
  <2> QED  BY <1>6, <1>8, <2>1, <2>2 DEF Propagate
<1>9. ASSUME NEW s \in Syncs, Refused(s) \/ Flip(s) \/ FlipFails(s)
      PROVE  TypeOK'
  BY <1>6, <1>7, <1>9 DEF Refused, Flip, FlipFails
<1>10. CASE Stop
  BY <1>7, <1>10 DEF Stop
<1>11. CASE UNCHANGED vars
  BY <1>11 DEF vars
<1> QED  BY <1>1, <1>2, <1>3, <1>4, <1>5, <1>8, <1>9, <1>10, <1>11 DEF Next

-----------------------------------------------------------------------------
(* The writers leave alone what a sync has read and sent.                  *)

\* What every writer does: it changes rows it marks, deletes, or changes in
\* what the mark does not cover.
Writes ==
  /\ UNCHANGED <<online, sync, contested>>
  /\ \A r \in Rows :
       \/ r \in pending'
       \/ local'[r] = Gone
       \/ /\ local'[r] = local[r]
          /\ r \notin pending
       \/ /\ r \in Present /\ r \notin pending
          /\ local'[r].data = local[r].data

LEMMA WritersWrite ==
  ASSUME TypeOK,
         \/ \E r \in Machines, d \in Data, byScan \in BOOLEAN : WriteMachine(r, d, byScan)
         \/ \E r \in Others, d \in Data : WriteOther(r, d)
         \/ \E r \in Others : Delete(r)
         \/ \E r \in Machines, key \in BOOLEAN : RecordServerKey(r, key)
  PROVE  Writes
<1> USE RowsAssumption, NotRows DEF TypeOK, Present, Rows, Writes
<1>1. ASSUME NEW r \in Rows, NEW d \in Data, Write(r, d)
      PROVE  Writes
  BY <1>1 DEF Write
<1>2. ASSUME NEW r \in Others, Delete(r)
      PROVE  Writes
  BY <1>2 DEF Delete
<1>3. ASSUME NEW r \in Machines, NEW key \in BOOLEAN, RecordServerKey(r, key)
      PROVE  Writes
  <2>1. local[r] \in Row
    BY <1>3 DEF RecordServerKey
  <2>2. local' = [local EXCEPT ![r] = [local[r] EXCEPT !.key = key]]
    BY <1>3 DEF RecordServerKey
  <2>3. local'[r].data = local[r].data
    BY <2>1, <2>2 DEF Row
  <2> QED  BY <1>3, <2>1, <2>2, <2>3 DEF RecordServerKey
<1> QED  BY <1>1, <1>2, <1>3 DEF WriteMachine, WriteOther

\* A writer's step keeps the invariant.
LEMMA WritersPreserve ==
  ASSUME SyncInv, TypeOK', Writes
  PROVE  SyncInv'
<1> USE NotRows DEF SyncInv, Present
<1>1. AlikeInv' /\ SentInv'
  BY DEF AlikeInv, SentInv, SentBy, Writes
<1>2. ASSUME NEW r \in Rows, local'[r] \in Row, r \notin pending'
      PROVE  r \in Present /\ r \notin pending /\ local'[r].data = local[r].data
  BY <1>2 DEF Writes
<1>3. ReadInv'
  <2>1. SUFFICES ASSUME NEW s \in Syncs, NEW r \in Rows, sync'[s].sent[r] # Absent,
                        r \notin contested', local'[r] \in Row, r \notin pending'
                 PROVE  local'[r].data = sync'[s].sent[r].data
    BY DEF ReadInv, SentBy
  <2>2. local[r].data = sync[s].sent[r].data
    BY <1>2, <2>1 DEF Writes, ReadInv, SentBy
  <2> QED  BY <1>2, <2>1, <2>2 DEF Writes
<1>4. SyncedIsOnline'
  BY <1>2 DEF Writes, SyncedIsOnline
<1> QED  BY <1>1, <1>3, <1>4

-----------------------------------------------------------------------------
(* The steps of the syncs.                                                 *)

\* An upsert of s leaves no row out that was online, and changes no row that is
\* neither pending nor contested, nor what another sync has sent.
LEMMA UpsertKeeps ==
  ASSUME SyncInv, NEW s \in Syncs, NEW r \in Rows
  PROVE  /\ online[r] # Absent \/ r \in SentBy(s) => Upserted(s)[r] # Absent
         /\ r \in SentBy(s) => Upserted(s)[r] = sync[s].sent[r]
         /\ r \in Present \ (pending \cup contested) /\ online[r].data = local[r].data
              => Upserted(s)[r].data = local[r].data
         /\ \A t \in Syncs : r \in SentBy(t) \ contested /\ online[r] = sync[t].sent[r]
              => Upserted(s)[r] = sync[t].sent[r]
<1>1. Upserted(s)[r] = IF r \in SentBy(s) THEN sync[s].sent[r] ELSE online[r]
  BY DEF Upserted
<1>2. r \in SentBy(s) => sync[s].sent[r] # Absent
  BY DEF SentBy
<1>3. r \in SentBy(s) /\ r \in Present \ (pending \cup contested)
        => local[r].data = sync[s].sent[r].data
  BY DEF SyncInv, ReadInv
<1>4. ASSUME NEW t \in Syncs, r \in SentBy(t) \ contested, r \in SentBy(s)
      PROVE  sync[s].sent[r] = sync[t].sent[r]
  BY <1>4 DEF SyncInv, AlikeInv
<1> QED  BY <1>1, <1>2, <1>3, <1>4

\* An upsert keeps what concerns rows that read SYNCED.
LEMMA UpsertPreserves ==
  ASSUME SyncInv, NEW s \in Syncs, UNCHANGED <<local, pending, contested>>,
         online' \in {online, Upserted(s)}
  PROVE  SyncedIsOnline'
<1>1. SUFFICES ASSUME NEW r \in Present \ pending
               PROVE  /\ online'[r] # Absent
                      /\ r \notin contested => online'[r].data = local[r].data
  BY DEF SyncedIsOnline, Present
<1>2. online[r] # Absent /\ (r \notin contested => online[r].data = local[r].data)
  BY <1>1 DEF SyncInv, SyncedIsOnline
<1>3. r \in Rows
  BY DEF Present
<1> QED  BY <1>2, <1>3, UpsertKeeps

\* Where a sync is done, those that are not hold what they held.
LEMMA DonePreserves ==
  ASSUME SyncInv, NEW s \in Syncs, sync' = [sync EXCEPT ![s] = Idle]
  PROVE  \A t \in Syncs :
           \/ SentBy(t)' = {} /\ sync'[t].at # "sent"
           \/ t # s /\ sync'[t] = sync[t]
<1>1. \A t \in Syncs : sync'[t] = (IF t = s THEN Idle ELSE sync[t])
  BY DEF SyncInv, TypeOK
<1> QED  BY <1>1 DEF SentBy, Idle

\* Reading keeps the invariant: a row that s reads as the others hold it is held
\* alike, and one it reads otherwise is contested; one it reads alone is no more.
LEMMA ReadPreserves ==
  ASSUME SyncInv, TypeOK', NEW s \in Syncs, Read(s)
  PROVE  SyncInv'
<1> USE NotRows DEF SyncInv
<1>1. TypeOK
  OBVIOUS
<1>2. /\ sync'[s].at = "read"
      /\ \A r \in Rows : sync'[s].sent[r] = IF r \in pending THEN local[r] ELSE Absent
      /\ \A t \in Syncs : t # s => sync'[t] = sync[t]
  BY <1>1 DEF Read, TypeOK
<1>3. UNCHANGED <<local, pending, online>>
  BY DEF Read
\* s aside, a row held by someone was not read alone.
<1>4. ASSUME NEW t \in Syncs, t # s, NEW r \in SentBy(t), r \notin contested'
      PROVE  /\ r \notin contested
             /\ r \in pending => sync[t].sent[r] = local[r]
  <2>1. r \in Rows /\ t \in OthersWith(s, r)
    BY <1>4 DEF OthersWith, SentBy
  <2>2. r \notin Alone(s) /\ r \notin Disputed(s)
    BY <1>4, <2>1 DEF Alone, Read
  <2> QED  BY <1>4, <2>1, <2>2 DEF Read, Disputed
<1>5. \A t \in Syncs : t # s => SentBy(t)' = SentBy(t)
  BY <1>2 DEF SentBy
<1>6. \A r \in SentBy(s)' : r \in Rows /\ r \in pending /\ sync'[s].sent[r] = local[r]
  BY <1>2 DEF SentBy
<1>7. AlikeInv'
  <2>1. SUFFICES ASSUME NEW t \in Syncs, NEW u \in Syncs,
                        NEW r \in (SentBy(t)' \cap SentBy(u)') \ contested'
                 PROVE  sync'[t].sent[r] = sync'[u].sent[r]
    BY DEF AlikeInv
  <2>2. CASE t # s /\ u # s
    BY <1>2, <1>4, <1>5, <2>2 DEF AlikeInv
  <2>3. CASE t = s /\ u # s
    BY <1>2, <1>4, <1>5, <1>6, <2>3
  <2>4. CASE t # s /\ u = s
    BY <1>2, <1>4, <1>5, <1>6, <2>4
  <2> QED  BY <2>2, <2>3, <2>4
<1>8. ReadInv'
  <2>1. SUFFICES ASSUME NEW t \in Syncs, NEW r \in SentBy(t)' \ contested',
                        r \in Present \ pending
                 PROVE  local[r].data = sync'[t].sent[r].data
    BY <1>3 DEF ReadInv, Present
  <2>2. t # s
    BY <1>6, <2>1
  <2> QED  BY <1>2, <1>4, <1>5, <2>1, <2>2 DEF ReadInv
<1>9. SentInv'
  <2>1. SUFFICES ASSUME NEW t \in Syncs, sync'[t].at = "sent", NEW r \in SentBy(t)'
                 PROVE  online[r] # Absent /\ (r \notin contested' => online[r] = sync'[t].sent[r])
    BY <1>3 DEF SentInv
  <2>2. t # s /\ sync'[t] = sync[t] /\ r \in SentBy(t)
    BY <1>2, <1>5, <2>1
  <2> QED  BY <1>4, <2>1, <2>2 DEF SentInv
<1>10. SyncedIsOnline'
  BY <1>3 DEF SyncedIsOnline, Present, Read, Alone
<1> QED  BY <1>7, <1>8, <1>9, <1>10

\* A step of a sync keeps the invariant.
LEMMA SyncPreserves ==
  ASSUME SyncInv, TypeOK', NEW s \in Syncs,
         Read(s) \/ Propagate(s) \/ Refused(s) \/ Flip(s) \/ FlipFails(s)
  PROVE  SyncInv'
<1> USE NotRows DEF SyncInv
<1>1. TypeOK
  OBVIOUS
<1>2. ASSUME sync' = [sync EXCEPT ![s] = Idle], UNCHANGED <<local, contested>>,
             pending' \subseteq pending,
             \A r \in pending \ pending' : r \in SentBy(s) /\ local[r] = sync[s].sent[r]
      PROVE  AlikeInv' /\ ReadInv'
  <2>1. \A t \in Syncs : SentBy(t)' = {} \/ (t # s /\ sync'[t] = sync[t])
    BY <1>2, DonePreserves
  <2>2. \A t \in Syncs : \A r \in SentBy(t)' : r \in SentBy(t) /\ sync'[t] = sync[t]
    BY <2>1 DEF SentBy
  <2>3. AlikeInv'
    BY <1>2, <2>2 DEF AlikeInv
  <2>4. ASSUME NEW t \in Syncs, NEW r \in SentBy(t)' \ contested, r \in Present \ pending'
        PROVE  local[r].data = sync'[t].sent[r].data
    <3>1. CASE r \notin pending
      BY <2>2, <2>4, <3>1 DEF ReadInv
    <3>2. CASE r \in pending
      BY <1>2, <2>2, <2>4, <3>2 DEF AlikeInv
    <3> QED  BY <3>1, <3>2
  <2>5. ReadInv'
    BY <1>2, <2>4 DEF ReadInv, Present
  <2> QED  BY <2>3, <2>5
<1>3. ASSUME sync' = [sync EXCEPT ![s] = Idle], UNCHANGED contested,
             online' \in {online, Upserted(s)}
      PROVE  SentInv'
  <2>1. SUFFICES ASSUME NEW t \in Syncs, sync'[t].at = "sent", NEW r \in SentBy(t)'
                 PROVE  online'[r] # Absent /\ (r \notin contested => online'[r] = sync'[t].sent[r])
    BY <1>3 DEF SentInv
  <2>2. sync'[t] = sync[t] /\ r \in SentBy(t) /\ r \in Rows
    BY <1>3, <2>1, DonePreserves DEF SentBy
  <2>3. online[r] # Absent /\ (r \notin contested => online[r] = sync[t].sent[r])
    BY <2>1, <2>2 DEF SentInv
  <2> QED  BY <1>3, <2>2, <2>3, UpsertKeeps
<1>4. CASE Propagate(s)
  <2>1. \A t \in Syncs : sync'[t].sent = sync[t].sent /\ (t # s => sync'[t] = sync[t])
    BY <1>1, <1>4 DEF Propagate, TypeOK, Sync
  <2>2. \A t \in Syncs : SentBy(t)' = SentBy(t)
    BY <2>1 DEF SentBy
  <2>3. UNCHANGED <<local, pending, contested>> /\ online' = Upserted(s)
    BY <1>4 DEF Propagate
  <2>4. AlikeInv' /\ ReadInv'
    BY <2>1, <2>2, <2>3 DEF AlikeInv, ReadInv, Present
  <2>5. SentInv'
    <3>1. SUFFICES ASSUME NEW t \in Syncs, sync'[t].at = "sent", NEW r \in SentBy(t)
                   PROVE  /\ online'[r] # Absent
                          /\ r \notin contested => online'[r] = sync[t].sent[r]
      BY <2>1, <2>2, <2>3 DEF SentInv
    <3>2. r \in Rows
      BY DEF SentBy
    <3>3. t # s => online[r] # Absent /\ (r \notin contested => online[r] = sync[t].sent[r])
      BY <2>1, <3>1 DEF SentInv
    <3> QED  BY <2>3, <3>2, <3>3, UpsertKeeps
  <2>6. SyncedIsOnline'
    BY <2>3, UpsertPreserves
  <2> QED  BY <2>4, <2>5, <2>6
<1>5. CASE Refused(s)
  <2>1. AlikeInv' /\ ReadInv'
    BY <1>2, <1>5 DEF Refused
  <2>2. SentInv'
    BY <1>3, <1>5 DEF Refused
  <2>3. SyncedIsOnline'
    BY <1>5, UpsertPreserves DEF Refused
  <2> QED  BY <2>1, <2>2, <2>3
<1>6. CASE Flip(s)
  <2>1. ASSUME NEW r \in StillAsSent(s)
        PROVE  /\ r \in SentBy(s) /\ local[r] = sync[s].sent[r] /\ online[r] # Absent
               /\ r \notin contested => online[r] = local[r]
    BY <1>6, <2>1 DEF Flip, StillAsSent, SentInv
  <2>2. AlikeInv' /\ ReadInv'
    BY <1>2, <1>6, <2>1 DEF Flip
  <2>3. SentInv'
    BY <1>3, <1>6 DEF Flip
  <2>4. SyncedIsOnline'
    BY <1>6, <2>1 DEF Flip, SyncedIsOnline, Present
  <2> QED  BY <2>2, <2>3, <2>4
<1>7. CASE FlipFails(s)
  <2>1. AlikeInv' /\ ReadInv'
    BY <1>2, <1>7 DEF FlipFails
  <2>2. SentInv'
    BY <1>3, <1>7 DEF FlipFails
  <2>3. SyncedIsOnline'
    BY <1>7 DEF FlipFails, SyncedIsOnline, Present
  <2> QED  BY <2>1, <2>2, <2>3
<1> QED  BY <1>4, <1>5, <1>6, <1>7, ReadPreserves

-----------------------------------------------------------------------------
(* The theorems.                                                           *)

\* Those who hold a row that is not contested hold it alike, what a sync has
\* read is pending until it is marked as it was read, and what it has sent is
\* online: for any rows, values and number of syncs at once, and any writes,
\* refusals, failures and stops between their steps.
THEOREM SyncInductive == Spec => []SyncInv
<1>1. Init => SyncInv
  <2> SUFFICES ASSUME Init PROVE SyncInv
    OBVIOUS
  <2>1. TypeOK
    BY DEF Init, TypeOK, Sync, Idle, Present
  <2>2. Present = {}
    BY NotRows DEF Init, Present
  <2>3. \A s \in Syncs : SentBy(s) = {}
    BY DEF Init, SentBy, Idle
  <2> QED  BY <2>1, <2>2, <2>3 DEF SyncInv, AlikeInv, ReadInv, SentInv, SyncedIsOnline
<1>2. ASSUME SyncInv, [Next]_vars
      PROVE  SyncInv'
  <2>1. TypeOK /\ TypeOK'
    BY <1>2, TypePreserved DEF SyncInv
  <2>2. CASE Stop
    <3>1. \A s \in Syncs : SentBy(s)' = {} /\ sync'[s].at # "sent"
      BY <2>2 DEF Stop, SentBy, Idle
    <3>2. AlikeInv' /\ ReadInv' /\ SentInv'
      BY <3>1 DEF AlikeInv, ReadInv, SentInv
    <3> QED  BY <1>2, <2>1, <2>2, <3>2 DEF Stop, SyncInv, SyncedIsOnline, Present
  <2>3. CASE UNCHANGED vars
    BY <1>2, <2>1, <2>3
      DEF vars, SyncInv, AlikeInv, ReadInv, SentInv, SentBy, SyncedIsOnline, Present
  <2>4. CASE \E s \in Syncs : Read(s) \/ Propagate(s) \/ Refused(s) \/ Flip(s) \/ FlipFails(s)
    BY <1>2, <2>1, <2>4, SyncPreserves
  <2>5. CASE \/ \E r \in Machines, d \in Data, byScan \in BOOLEAN : WriteMachine(r, d, byScan)
             \/ \E r \in Others, d \in Data : WriteOther(r, d)
             \/ \E r \in Others : Delete(r)
             \/ \E r \in Machines, key \in BOOLEAN : RecordServerKey(r, key)
    BY <1>2, <2>1, <2>5, WritersWrite, WritersPreserve
  <2> QED  BY <1>2, <2>2, <2>3, <2>4, <2>5 DEF Next
<1> QED  BY <1>1, <1>2, PTL DEF Spec

\* However many syncs run at once, a row that reads SYNCED is online, and as its
\* writers left it unless it is contested (Req 5.6).
THEOREM NothingLeftOut == Spec => []SyncedIsOnline
<1>1. SyncInv => SyncedIsOnline
  BY DEF SyncInv
<1> QED  BY <1>1, SyncInductive, PTL
=============================================================================
