------------------------- MODULE ScanHistory_proofs -------------------------
(***************************************************************************)
(* Theorems of ScanHistory.  A scan that records its outcome adds one run, *)
(* later than all others, and prunes: the lemmas say what these two do to  *)
(* what is true of a set of runs, RecordStep puts them together, and the   *)
(* actions are left with what their run says.                              *)
(***************************************************************************)
EXTENDS ScanHistory, FiniteSetTheorems, TLAPS

Distinct(rs) == \A r, s \in rs : r.at = s.at => r = s
HasLatest(rs) == SuccessesOf(rs) # {} => LatestOf(rs) # {}
OnlySuccessesSpeak(rs) == \A r \in rs : r.status = "FAILURE" => r.new = {} /\ r.resolved = {}

-----------------------------------------------------------------------------
(* Pruning.                                                                *)

\* The latest successful run stays, and only runs that were there.
LEMMA PrunedBounds ==
  ASSUME NEW rs
  PROVE  LatestOf(rs) \subseteq Pruned(rs) /\ Pruned(rs) \subseteq rs
BY DEF Pruned, LatestOf, SuccessesOf

\* A successful run that is pruned is older than every one that stays.
LEMMA PrunedAreOlder ==
  ASSUME NEW rs, rs \subseteq Run, IsFiniteSet(rs), Distinct(rs),
         NEW t \in rs \ Pruned(rs), t.status = "SUCCESS",
         NEW r \in Pruned(rs), r.status = "SUCCESS"
  PROVE  t.at < r.at
<1> DEFINE Newer(x) == {s \in rs : s.at > x.at}
<1>1. t \in Run /\ r \in Run /\ r \in rs /\ t.at \in Nat /\ r.at \in Nat
  BY PrunedBounds DEF Run
<1>2. t.at # r.at
  BY <1>1 DEF Distinct
<1>3. SUFFICES ASSUME r.at < t.at PROVE FALSE
  BY <1>1, <1>2
<1>4. r \notin LatestOf(rs)
  BY <1>1, <1>3 DEF LatestOf, SuccessesOf
<1>5. Cardinality(Newer(r)) < Keep
  BY <1>1, <1>4 DEF Pruned
<1>6. ~(Cardinality(Newer(t)) < Keep)
  BY DEF Pruned
<1>7. IsFiniteSet(Newer(r)) /\ Newer(t) \in SUBSET Newer(r)
  <2>1. \A s \in rs : s.at \in Nat
    BY DEF Run
  <2>2. Newer(r) \in SUBSET rs
    OBVIOUS
  <2>3. IsFiniteSet(Newer(r))
    BY <2>2, FS_Subset
  <2> QED
    BY <1>1, <1>3, <2>1, <2>3
<1>8. Cardinality(Newer(t)) <= Cardinality(Newer(r))
  BY <1>7, FS_Subset
<1>9. Cardinality(Newer(t)) \in Nat /\ Cardinality(Newer(r)) \in Nat
  BY <1>7, FS_Subset, FS_CardinalityType
<1> QED
  BY <1>5, <1>6, <1>8, <1>9, LimitsAssumption

\* Pruning does not change which run is the latest successful one.
LEMMA PrunedLatest ==
  ASSUME NEW rs, rs \subseteq Run, HasLatest(rs)
  PROVE  LatestOf(Pruned(rs)) = LatestOf(rs)
<1>1. \A r \in rs : r.at \in Nat
  BY DEF Run
<1>2. LatestOf(rs) \subseteq LatestOf(Pruned(rs))
  BY PrunedBounds DEF LatestOf, SuccessesOf
<1>3. ASSUME NEW r \in LatestOf(Pruned(rs)) PROVE r \in LatestOf(rs)
  <2>1. r \in SuccessesOf(rs)
    BY PrunedBounds DEF LatestOf, SuccessesOf
  <2>2. PICK l \in LatestOf(rs) : TRUE
    BY <2>1 DEF HasLatest
  <2>3. l \in Pruned(rs) /\ l.status = "SUCCESS"
    BY PrunedBounds DEF LatestOf, SuccessesOf
  <2>4. l.at <= r.at
    BY <2>3 DEF LatestOf, SuccessesOf
  <2>5. ASSUME NEW s \in SuccessesOf(rs) PROVE s.at <= r.at
    <3>1. s.at <= l.at
      BY DEF LatestOf
    <3>2. s.at \in Nat /\ l.at \in Nat /\ r.at \in Nat
      BY <1>1, <2>1, <2>3, PrunedBounds DEF SuccessesOf
    <3> QED
      BY <2>4, <3>1, <3>2
  <2> QED
    BY <2>1, <2>5 DEF LatestOf
<1> QED
  BY <1>2, <1>3

\* What the runs account for, they account for after pruning: those that are
\* gone are older than all that have anything to say.
LEMMA PrunedAccounts ==
  ASSUME NEW rs, rs \subseteq Run, IsFiniteSet(rs), Distinct(rs), OnlySuccessesSpeak(rs),
         NEW stored, AccountsFor(rs, stored)
  PROVE  AccountsFor(Pruned(rs), stored)
<1> DEFINE ps == Pruned(rs)
<1>1. ps \subseteq rs
  BY PrunedBounds
<1>2. \A r \in rs : r.at \in Nat /\ r.status \in {"SUCCESS", "FAILURE"}
  BY DEF Run, ScanStatus
<1>3. ASSUME NEW k, NEW r \in ps, NEW t \in rs \ ps, Mentions(r, k), Mentions(t, k)
      PROVE  t.at < r.at
  <2>1. r.status = "SUCCESS" /\ t.status = "SUCCESS"
    BY <1>1, <1>2, <1>3 DEF OnlySuccessesSpeak, Mentions
  <2> QED
    BY <2>1, PrunedAreOlder
<1>4. ASSUME NEW k, NEW r \in ps, Last(ps, r, k) PROVE Last(rs, r, k)
  BY <1>1, <1>2, <1>3, <1>4 DEF Last
<1>5. ASSUME NEW k, NEW r \in ps, NEW s \in ps, NextAfter(ps, r, s, k) PROVE NextAfter(rs, r, s, k)
  BY <1>1, <1>2, <1>3, <1>5 DEF NextAfter
<1> HIDE DEF ps
<1>6. AccountsFor(ps, stored)
  BY <1>1, <1>4, <1>5 DEF AccountsFor
<1> QED
  BY <1>6 DEF ps

\* The dates likewise.
LEMMA PrunedDates ==
  ASSUME NEW rs, rs \subseteq Run, IsFiniteSet(rs), Distinct(rs), OnlySuccessesSpeak(rs),
         NEW seen, DatedByNew(rs, seen)
  PROVE  DatedByNew(Pruned(rs), seen)
<1> DEFINE ps == Pruned(rs)
<1>1. ps \subseteq rs
  BY PrunedBounds
<1>2. \A r \in rs : r.at \in Nat /\ r.status \in {"SUCCESS", "FAILURE"}
  BY DEF Run, ScanStatus
<1>3. ASSUME NEW k, NEW r \in ps, NEW t \in rs \ ps, Mentions(r, k), Mentions(t, k)
      PROVE  t.at < r.at
  <2>1. r.status = "SUCCESS" /\ t.status = "SUCCESS"
    BY <1>1, <1>2, <1>3 DEF OnlySuccessesSpeak, Mentions
  <2> QED
    BY <2>1, PrunedAreOlder
<1>4. ASSUME NEW k, NEW r \in ps, Last(ps, r, k) PROVE Last(rs, r, k)
  BY <1>1, <1>2, <1>3, <1>4 DEF Last
<1> HIDE DEF ps
<1>5. DatedByNew(ps, seen)
  BY <1>1, <1>4 DEF DatedByNew
<1> QED
  BY <1>5 DEF ps

\* And the counts.
LEMMA PrunedCounts ==
  ASSUME NEW rs, rs \subseteq Run, IsFiniteSet(rs), Distinct(rs), AddUp(rs)
  PROVE  AddUp(Pruned(rs))
<1> DEFINE ps == Pruned(rs)
<1>1. ps \subseteq rs
  BY PrunedBounds
<1>2. \A r \in rs : r.at \in Nat
  BY DEF Run
<1>3. ASSUME NEW r \in ps, NEW t \in rs \ ps, r.status = "SUCCESS", t.status = "SUCCESS"
      PROVE  t.at < r.at
  BY <1>3, PrunedAreOlder
<1>4. ASSUME NEW r \in ps, NEW s \in ps, NextSuccess(ps, r, s) PROVE NextSuccess(rs, r, s)
  BY <1>1, <1>2, <1>3, <1>4 DEF NextSuccess, SuccessesOf
<1> HIDE DEF ps
<1>5. AddUp(ps)
  BY <1>1, <1>4 DEF AddUp
<1> QED
  BY <1>5 DEF ps

-----------------------------------------------------------------------------
(* Adding a run that is later than all others.                             *)

Later(n, rs) == \A r \in rs : r.at < n.at

\* The latest successful run is the new one, or the one there was.
LEMMA AddedLatest ==
  ASSUME NEW rs, rs \subseteq Run, NEW n \in Run, Later(n, rs)
  PROVE  LatestOf(rs \cup {n}) = IF n.status = "SUCCESS" THEN {n} ELSE LatestOf(rs)
<1>1. n.at \in Nat /\ \A r \in rs : r.at \in Nat
  BY DEF Run
<1>2. CASE n.status = "SUCCESS"
  BY <1>1, <1>2 DEF LatestOf, SuccessesOf, Later
<1>3. CASE n.status # "SUCCESS"
  <2>1. SuccessesOf(rs \cup {n}) = SuccessesOf(rs)
    BY <1>3 DEF SuccessesOf
  <2> QED
    BY <1>3, <2>1 DEF LatestOf
<1> QED
  BY <1>2, <1>3

\* What the new run says turns one list of findings into the other, and what it
\* is silent about stays as it was.
Turns(n, rs, before, after) ==
  \A k \in Findings :
    /\ k \in n.new => k \notin before /\ k \in after
    /\ k \in n.resolved => k \in before /\ k \notin after
    /\ ~Mentions(n, k) /\ (\E r \in rs : Mentions(r, k)) => (k \in before <=> k \in after)

LEMMA AddedAccounts ==
  ASSUME NEW rs, rs \subseteq Run, NEW n \in Run, Later(n, rs),
         NEW before, NEW after, AccountsFor(rs, before), Turns(n, rs, before, after)
  PROVE  AccountsFor(rs \cup {n}, after)
<1> DEFINE es == rs \cup {n}
<1>1. n.at \in Nat /\ \A r \in rs : r.at \in Nat
  BY DEF Run
<1>2. ASSUME NEW r \in es, NEW k \in Findings, Last(es, r, k)
      PROVE  k \in r.new <=> k \in after
  <2>1. CASE r = n
    BY <1>2, <2>1 DEF Last, Mentions, Turns
  <2>2. CASE r # n
    <3>1. r \in rs /\ r.at < n.at
      BY <2>2 DEF Later
    <3>2. ~Mentions(n, k)
      BY <1>1, <1>2, <3>1 DEF Last
    <3>3. Last(rs, r, k)
      BY <1>2 DEF Last
    <3>4. k \in r.new <=> k \in before
      BY <3>1, <3>3 DEF AccountsFor
    <3>5. Mentions(r, k)
      BY <1>2 DEF Last
    <3> QED
      BY <3>1, <3>2, <3>4, <3>5 DEF Turns
  <2> QED
    BY <2>1, <2>2
<1>3. ASSUME NEW r \in es, NEW s \in es, NEW k \in Findings, NextAfter(es, r, s, k)
      PROVE  k \in r.new <=> k \in s.resolved
  <2>1. r \in rs
    BY <1>1, <1>3 DEF NextAfter, Later
  <2>2. CASE s = n
    <3>1. Last(rs, r, k)
      BY <1>1, <1>3, <2>2 DEF NextAfter, Last, Later
    <3>2. k \in r.new <=> k \in before
      BY <2>1, <3>1 DEF AccountsFor
    <3>3. k \in n.new \/ k \in n.resolved
      BY <1>3, <2>2 DEF NextAfter, Mentions
    <3> QED
      BY <2>2, <3>2, <3>3 DEF Turns
  <2>3. CASE s # n
    <3>1. s \in rs /\ NextAfter(rs, r, s, k)
      BY <1>3, <2>3 DEF NextAfter
    <3> QED
      BY <2>1, <3>1 DEF AccountsFor
  <2> QED
    BY <2>2, <2>3
<1> HIDE DEF es
<1>4. AccountsFor(es, after)
  BY <1>2, <1>3 DEF AccountsFor
<1> QED
  BY <1>4 DEF es

\* A finding the new run is silent about keeps its date, and one it found new
\* has the run's.
LEMMA AddedDates ==
  ASSUME NEW rs, rs \subseteq Run, NEW n \in Run, Later(n, rs),
         NEW before, NEW after, DatedByNew(rs, before),
         \A k \in n.new : after[k] = n.at,
         \A k \in Findings : ~Mentions(n, k) /\ (\E r \in rs : Mentions(r, k)) => after[k] = before[k]
  PROVE  DatedByNew(rs \cup {n}, after)
<1> DEFINE es == rs \cup {n}
<1>1. n.at \in Nat /\ \A r \in rs : r.at \in Nat /\ r.new \subseteq Findings
  BY DEF Run
<1>2. ASSUME NEW r \in es, NEW k \in r.new, Last(es, r, k) PROVE after[k] = r.at
  <2>1. CASE r = n
    BY <1>2, <2>1
  <2>2. CASE r # n
    <3>1. r \in rs /\ r.at < n.at
      BY <2>2 DEF Later
    <3>2. k \in Findings /\ Mentions(r, k)
      BY <1>1, <3>1 DEF Mentions
    <3>3. ~Mentions(n, k)
      BY <1>1, <1>2, <3>1 DEF Last
    <3>4. Last(rs, r, k)
      BY <1>2 DEF Last
    <3>5. before[k] = r.at
      BY <3>1, <3>4 DEF DatedByNew
    <3> QED
      BY <3>1, <3>2, <3>3, <3>5
  <2> QED
    BY <2>1, <2>2
<1> HIDE DEF es
<1>3. DatedByNew(es, after)
  BY <1>2 DEF DatedByNew
<1> QED
  BY <1>3 DEF es

\* The new run, if successful, follows the latest successful one.
LEMMA AddedCounts ==
  ASSUME NEW rs, rs \subseteq Run, NEW n \in Run, Later(n, rs), AddUp(rs),
         n.status = "SUCCESS" =>
           \A r \in LatestOf(rs) : r.count + Cardinality(n.new) = n.count + Cardinality(n.resolved)
  PROVE  AddUp(rs \cup {n})
<1> DEFINE es == rs \cup {n}
<1>1. n.at \in Nat /\ \A r \in rs : r.at \in Nat
  BY DEF Run
<1>2. ASSUME NEW r \in es, NEW s \in es, NextSuccess(es, r, s)
      PROVE  r.count + Cardinality(s.new) = s.count + Cardinality(s.resolved)
  <2>1. r \in rs
    BY <1>1, <1>2 DEF NextSuccess, Later
  <2>2. CASE s = n
    <3>1. r \in LatestOf(rs)
      BY <1>1, <1>2, <2>1, <2>2 DEF NextSuccess, SuccessesOf, LatestOf, Later
    <3>2. n.status = "SUCCESS"
      BY <1>2, <2>2 DEF NextSuccess, SuccessesOf
    <3> QED
      BY <2>2, <3>1, <3>2
  <2>3. CASE s # n
    <3>1. s \in rs /\ NextSuccess(rs, r, s)
      BY <1>2, <2>1, <2>3 DEF NextSuccess, SuccessesOf
    <3> QED
      BY <2>1, <3>1 DEF AddUp
  <2> QED
    BY <2>2, <2>3
<1> HIDE DEF es
<1>3. AddUp(es)
  BY <1>2 DEF AddUp
<1> QED
  BY <1>3 DEF es

-----------------------------------------------------------------------------
(* Recording a run.                                                        *)

\* What the run that is recorded must say of the findings before and after it.
Faithful(n) ==
  /\ Turns(n, runs, Stored, Stored')
  /\ \A k \in n.new : firstSeen'[k] = n.at
  /\ \A k \in Findings :
       ~Mentions(n, k) /\ (\E r \in runs : Mentions(r, k)) => firstSeen'[k] = firstSeen[k]
  /\ n.new \cap n.resolved = {}
  /\ n.status = "FAILURE" => n.new = {} /\ n.resolved = {} /\ firstSeen' = firstSeen
  /\ n.status = "SUCCESS" =>
       /\ n.count = Cardinality(Stored')
       /\ n.baseline \/ n.new = DatedAt(firstSeen', n.at)
       /\ \A r \in LatestOf(runs) :
            r.count + Cardinality(n.new) = n.count + Cardinality(n.resolved)

LEMMA RecordStep ==
  ASSUME HInv, NEW n \in Run, n.at = clock + 1, Record(n), Faithful(n),
         firstSeen' \in [Findings -> 0 .. n.at]
  PROVE  HInv'
<1> DEFINE es == runs \cup {n}
<1>1. /\ runs \subseteq Run /\ clock \in Nat \ {0} /\ IsFiniteSet(runs)
      /\ n.at \in Nat /\ n.status \in ScanStatus
      /\ \A r \in runs : r.at \in Nat
  BY DEF HInv, TypeOK, TimeInv, Run
<1>2. runs' = Pruned(es) /\ machine' = RowAfter(n) /\ clock' = n.at /\ scan' = NoScan
  BY DEF Record
<1>3. Later(n, runs)
  BY <1>1 DEF HInv, TimeInv, Later
<1>4. es \subseteq Run /\ IsFiniteSet(es)
  BY <1>1, FS_AddElement
<1>5. Distinct(es)
  BY <1>1, <1>3 DEF HInv, TimeInv, Distinct, Later
<1>6. OnlySuccessesSpeak(es)
  BY DEF HInv, ChangeInv, OnlySuccessesSpeak, Faithful
<1>7. runs' \subseteq es
  BY <1>2, PrunedBounds
<1>8. LatestOf(es) = IF n.status = "SUCCESS" THEN {n} ELSE LatestOf(runs)
  BY <1>1, <1>3, AddedLatest
<1>9. HasLatest(es)
  BY <1>8 DEF HInv, ChangeInv, HasLatest, SuccessesOf
<1>10. LatestOf(runs') = LatestOf(es)
  BY <1>2, <1>4, <1>9, PrunedLatest
<1> HIDE DEF es
<1>11. TypeOK'
  <2>1. machine' \in Machine
    BY <1>2 DEF RowAfter, Machine, Run
  <2>2. scan' \in Scan
    BY <1>2 DEF NoScan, Scan
  <2> QED
    BY <1>1, <1>2, <1>4, <1>7, <2>1, <2>2 DEF TypeOK
<1>12. ScanInv'
  BY <1>2 DEF ScanInv, NoScan
<1>13. TimeInv'
  <2>1. IsFiniteSet(runs')
    BY <1>4, <1>7, FS_Subset
  <2>2. \A r \in es : r.at <= n.at
    BY <1>1, <1>3 DEF es, Later
  <2> QED
    BY <1>2, <1>5, <1>7, <2>1, <2>2 DEF TimeInv, Distinct
<1>14. ChangeInv'
  <2>1. \A r \in es : r.new \cap r.resolved = {}
    BY DEF es, HInv, ChangeInv, Faithful
  <2>2. SuccessesOf(runs') # {} => LatestOf(runs') # {}
    BY <1>7, <1>9, <1>10 DEF HasLatest, SuccessesOf
  <2> QED
    BY <1>6, <1>7, <2>1, <2>2 DEF ChangeInv, OnlySuccessesSpeak
<1>15. HistoryAccounts'
  <2>1. AccountsFor(es, Stored')
    BY <1>1, <1>3, AddedAccounts DEF es, HInv, HistoryAccounts, Faithful
  <2>2. AccountsFor(Pruned(es), Stored')
    BY <1>4, <1>5, <1>6, <2>1, PrunedAccounts
  <2> QED
    BY <1>2, <2>2 DEF HistoryAccounts
<1>16. FirstSeenIsWhenNew'
  <2>1. DatedByNew(es, firstSeen')
    BY <1>1, <1>3, AddedDates DEF es, HInv, FirstSeenIsWhenNew, Faithful
  <2>2. DatedByNew(runs', firstSeen')
    BY <1>2, <1>4, <1>5, <1>6, <2>1, PrunedDates
  <2>3. \A r \in LatestOf(runs') : r.baseline \/ r.new = DatedAt(firstSeen', r.at)
    <3>1. CASE n.status = "SUCCESS"
      BY <1>8, <1>10, <3>1 DEF Faithful
    <3>2. CASE n.status = "FAILURE"
      BY <1>8, <1>10, <3>2 DEF Faithful, HInv, FirstSeenIsWhenNew
    <3> QED
      BY <1>1, <3>1, <3>2 DEF ScanStatus
  <2> QED
    BY <2>2, <2>3 DEF FirstSeenIsWhenNew
<1>17. CountsAddUp'
  <2>1. AddUp(es)
    BY <1>1, <1>3, AddedCounts DEF es, HInv, CountsAddUp, Faithful
  <2>2. AddUp(runs')
    BY <1>2, <1>4, <1>5, <2>1, PrunedCounts
  <2>3. \A r \in LatestOf(runs') : r.count = Cardinality(Stored')
    <3>1. CASE n.status = "SUCCESS"
      BY <1>8, <1>10, <3>1 DEF Faithful
    <3>2. CASE n.status = "FAILURE"
      <4>1. Stored' = Stored
        BY <3>2 DEF Faithful, Stored
      <4> QED
        BY <1>8, <1>10, <3>2, <4>1 DEF HInv, CountsAddUp
    <3> QED
      BY <1>1, <3>1, <3>2 DEF ScanStatus
  <2> QED
    BY <2>2, <2>3 DEF CountsAddUp
<1>18. RowMatchesHistory'
  <2>1. n \in runs'
    <3>1. {s \in es : s.at > n.at} = {}
      BY <1>1, <1>3 DEF es, Later
    <3>2. Cardinality({s \in es : s.at > n.at}) < Keep
      BY <3>1, FS_EmptySet, LimitsAssumption
    <3> QED
      BY <1>2, <3>2 DEF Pruned, es
  <2>2. ASSUME NEW r \in runs', \A s \in runs' : s.at <= r.at PROVE r = n
    <3>1. n.at <= r.at
      BY <2>1, <2>2
    <3>2. r \in runs \/ r = n
      BY <1>7 DEF es
    <3> QED
      BY <1>1, <1>3, <3>1, <3>2 DEF Later
  <2> QED
    BY <1>2, <2>2 DEF RowMatchesHistory, RowAfter
<1> QED
  BY <1>11, <1>12, <1>13, <1>14, <1>15, <1>16, <1>17, <1>18 DEF HInv

-----------------------------------------------------------------------------
(* The actions.                                                            *)

\* Before there is a successful run, no run speaks of any finding.
LEMMA SilentBeforeBaseline ==
  ASSUME HInv, Baseline, NEW r \in runs, NEW k
  PROVE  ~Mentions(r, k)
<1>1. r.status = "FAILURE"
  BY DEF HInv, TypeOK, Baseline, SuccessesOf, Run, ScanStatus
<1> QED
  BY <1>1 DEF HInv, ChangeInv, Mentions

\* The new findings of a run that compares, added, and the resolved ones, taken
\* away, make the count of what was listed that of what is.
LEMMA CountTurns ==
  ASSUME HInv, scan.at = "saving", ~Baseline, firstSeen' = FindingsAfter(clock + 1)
  PROVE  Cardinality(Stored) + Cardinality(New) = Cardinality(Stored') + Cardinality(Resolved)
<1>1. /\ firstSeen \in [Findings -> 0 .. clock] /\ clock \in Nat \ {0}
      /\ scan.reported \subseteq Findings
  BY DEF HInv, TypeOK, Scan
<1>2. /\ New = scan.reported \ Stored
      /\ Resolved = IF scan.complete THEN Stored \ scan.reported ELSE {}
  BY DEF New, Resolved
<1>3. Stored' = {k \in Findings : firstSeen'[k] # 0}
  BY DEF Stored
<1>4. \A k \in Findings :
        firstSeen'[k] = IF k \in scan.reported THEN FirstSeen(k, clock + 1)
                        ELSE IF scan.complete THEN 0 ELSE firstSeen[k]
  BY DEF FindingsAfter
<1>5. \A k \in Findings : FirstSeen(k, clock + 1) # 0
  BY <1>1 DEF FirstSeen, Stored
<1>6. Stored' = IF scan.complete THEN scan.reported ELSE Stored \cup scan.reported
  BY <1>1, <1>3, <1>4, <1>5 DEF Stored
<1>7. Stored \cup New = Stored' \cup Resolved
  BY <1>2, <1>6
<1>8. Stored \cap New = {} /\ Stored' \cap Resolved = {}
  BY <1>2, <1>6
<1>9. IsFiniteSet(Stored) /\ IsFiniteSet(Stored') /\ IsFiniteSet(New) /\ IsFiniteSet(Resolved)
  <2>1. Stored \in SUBSET Findings /\ Stored' \in SUBSET Findings
        /\ New \in SUBSET Findings /\ Resolved \in SUBSET Findings
    BY <1>1, <1>2, <1>3 DEF Stored
  <2> QED
    BY <2>1, FindingsAssumption, FS_Subset
<1>10. Cardinality(Stored \cup New) = Cardinality(Stored) + Cardinality(New)
  <2>1. Cardinality(Stored \cup New)
          = Cardinality(Stored) + Cardinality(New) - Cardinality(Stored \cap New)
    BY <1>9, FS_Union
  <2>2. Cardinality(Stored) \in Nat /\ Cardinality(New) \in Nat
    BY <1>9, FS_CardinalityType
  <2> QED
    BY <1>8, <2>1, <2>2, FS_EmptySet
<1>11. Cardinality(Stored' \cup Resolved) = Cardinality(Stored') + Cardinality(Resolved)
  <2>1. Cardinality(Stored' \cup Resolved)
          = Cardinality(Stored') + Cardinality(Resolved) - Cardinality(Stored' \cap Resolved)
    BY <1>9, FS_Union
  <2>2. Cardinality(Stored') \in Nat /\ Cardinality(Resolved) \in Nat
    BY <1>9, FS_CardinalityType
  <2> QED
    BY <1>8, <2>1, <2>2, FS_EmptySet
<1> QED
  BY <1>7, <1>10, <1>11

LEMMA SaveStep ==
  ASSUME HInv, Save
  PROVE  HInv'
<1> DEFINE n == SuccessAt(clock + 1)
<1>1. /\ firstSeen \in [Findings -> 0 .. clock] /\ clock \in Nat \ {0}
      /\ runs \subseteq Run
      /\ scan.reported \subseteq Findings /\ scan.complete \in BOOLEAN
  BY DEF HInv, TypeOK, Scan
<1>2. firstSeen' = FindingsAfter(clock + 1) /\ Record(n) /\ scan.at = "saving"
  BY DEF Save
<1>3. /\ n.at = clock + 1 /\ n.status = "SUCCESS" /\ n.new = New /\ n.resolved = Resolved
      /\ n.baseline = Baseline /\ n.count = Cardinality(Stored')
  BY DEF SuccessAt, FindingCount, Stored
<1>4. \A k \in Findings :
        firstSeen'[k] = IF k \in scan.reported THEN FirstSeen(k, clock + 1)
                        ELSE IF scan.complete THEN 0 ELSE firstSeen[k]
  BY <1>2 DEF FindingsAfter
<1>5. firstSeen' \in [Findings -> 0 .. n.at]
  <2>1. \A k \in Findings : FirstSeen(k, clock + 1) \in 0 .. (clock + 1)
    BY <1>1 DEF FirstSeen
  <2> QED
    BY <1>1, <1>2, <1>3, <2>1 DEF FindingsAfter
<1>6. Stored' = {k \in Findings : firstSeen'[k] # 0} /\ Stored \subseteq Findings
  BY DEF Stored
<1>7. n \in Run
  <2>1. n.count \in Nat
    <3>1. Stored' \in SUBSET Findings
      BY <1>6
    <3> QED
      BY <1>3, <3>1, FindingsAssumption, FS_Subset, FS_CardinalityType
  <2>2. New \subseteq Findings /\ Resolved \subseteq Findings
    BY <1>1, <1>6 DEF New, Resolved
  <2>3. Baseline \in BOOLEAN /\ (~Baseline /\ scan.complete) \in BOOLEAN
    BY DEF Baseline
  <2>4. FindingCount \in Nat
    BY <2>1 DEF SuccessAt
  <2> QED
    BY <1>1, <2>2, <2>3, <2>4 DEF SuccessAt, Run, ScanStatus
<1> HIDE DEF n
<1>8. ASSUME NEW k \in New
      PROVE  k \in Findings /\ k \in scan.reported /\ k \notin Stored /\ firstSeen'[k] = clock + 1
  <2>1. k \in Findings /\ k \in scan.reported /\ k \notin Stored
    BY <1>1, <1>8 DEF New
  <2> QED
    BY <1>4, <2>1 DEF FirstSeen
<1>9. ASSUME NEW k \in Resolved PROVE k \in Stored /\ firstSeen'[k] = 0
  <2>1. k \in Stored /\ k \notin scan.reported /\ scan.complete
    BY <1>9 DEF Resolved
  <2> QED
    BY <1>4, <1>6, <2>1
<1>10. ASSUME NEW k \in Findings, ~Mentions(n, k), NEW r \in runs, Mentions(r, k)
       PROVE  firstSeen'[k] = firstSeen[k]
  <2>1. ~Baseline
    BY <1>10, SilentBeforeBaseline
  <2>2. k \notin New /\ k \notin Resolved
    BY <1>3, <1>10 DEF Mentions
  <2>3. k \in scan.reported => k \in Stored
    BY <2>1, <2>2 DEF New
  <2>4. k \notin scan.reported /\ scan.complete => k \notin Stored
    BY <2>1, <2>2 DEF Resolved
  <2>5. k \notin Stored => firstSeen[k] = 0
    BY DEF Stored
  <2> QED
    BY <1>4, <2>3, <2>4, <2>5 DEF FirstSeen
<1>11. Turns(n, runs, Stored, Stored')
  <2>1. ASSUME NEW k \in Findings, k \in n.new PROVE k \notin Stored /\ k \in Stored'
    BY <1>1, <1>3, <1>6, <1>8, <2>1
  <2>2. ASSUME NEW k \in Findings, k \in n.resolved PROVE k \in Stored /\ k \notin Stored'
    BY <1>3, <1>6, <1>9, <2>2
  <2>3. ASSUME NEW k \in Findings, ~Mentions(n, k), NEW r \in runs, Mentions(r, k)
        PROVE  k \in Stored <=> k \in Stored'
    BY <1>6, <1>10, <2>3 DEF Stored
  <2> QED
    BY <2>1, <2>2, <2>3 DEF Turns
<1>12. n.baseline \/ n.new = DatedAt(firstSeen', n.at)
  <2>1. SUFFICES ASSUME ~Baseline PROVE New = {k \in Findings : firstSeen'[k] = clock + 1}
    BY <1>3 DEF DatedAt
  <2>2. ASSUME NEW k \in Findings, firstSeen'[k] = clock + 1 PROVE k \in New
    <3>1. firstSeen[k] # clock + 1
      BY <1>1
    <3>2. k \in scan.reported /\ k \notin Stored
      BY <1>1, <1>4, <2>2, <3>1 DEF FirstSeen
    <3> QED
      BY <2>1, <3>2 DEF New
  <2> QED
    BY <1>8, <2>2
<1>13. ASSUME NEW r \in LatestOf(runs)
       PROVE  r.count + Cardinality(n.new) = n.count + Cardinality(n.resolved)
  <2>1. ~Baseline
    BY DEF Baseline, LatestOf
  <2>2. r.count = Cardinality(Stored)
    BY DEF HInv, CountsAddUp
  <2> QED
    BY <1>2, <1>3, <2>1, <2>2, CountTurns
<1>14. n.new \cap n.resolved = {}
  BY <1>3, <1>8, <1>9
<1>15. Faithful(n)
  BY <1>3, <1>8, <1>10, <1>11, <1>12, <1>13, <1>14 DEF Faithful
<1> QED
  BY <1>2, <1>3, <1>5, <1>7, <1>15, RecordStep DEF n

LEMMA RecordFailureStep ==
  ASSUME HInv, RecordFailure
  PROVE  HInv'
<1> DEFINE n == FailureAt(clock + 1)
<1>1. firstSeen \in [Findings -> 0 .. clock] /\ clock \in Nat \ {0}
  BY DEF HInv, TypeOK
<1>2. Record(n) /\ firstSeen' = firstSeen
  BY DEF RecordFailure
<1>3. n \in Run
  BY <1>1 DEF FailureAt, Run, ScanStatus
<1>4. n.at = clock + 1 /\ n.status = "FAILURE" /\ n.new = {} /\ n.resolved = {}
  BY DEF FailureAt
<1> HIDE DEF n
<1>5. Stored' = Stored
  BY <1>2 DEF Stored
<1>6. Turns(n, runs, Stored, Stored')
  BY <1>4, <1>5 DEF Turns
<1>7. Faithful(n)
  BY <1>2, <1>4, <1>6 DEF Faithful
<1>8. firstSeen' \in [Findings -> 0 .. n.at]
  BY <1>1, <1>2, <1>4
<1> QED
  BY <1>2, <1>3, <1>4, <1>7, <1>8, RecordStep

\* The steps that record nothing leave the database as it was, but for the
\* status of a machine that is enrolled.
LEMMA OtherStep ==
  ASSUME HInv, UNCHANGED <<firstSeen, runs, clock>>,
         scan' \in Scan, ScanInv',
         machine' = machine \/ machine' = [machine EXCEPT !.status = "NEVER_SCANNED"]
  PROVE  HInv'
<1>1. Stored' = Stored
  BY DEF Stored
<1>2. TypeOK'
  BY DEF HInv, TypeOK, Machine
<1>3. TimeInv' /\ ChangeInv'
  BY DEF HInv, TimeInv, ChangeInv
<1>4. HistoryAccounts' /\ FirstSeenIsWhenNew' /\ CountsAddUp'
  BY <1>1 DEF HInv, HistoryAccounts, FirstSeenIsWhenNew, CountsAddUp
<1>5. RowMatchesHistory'
  <2>1. machine \in Machine
    BY DEF HInv, TypeOK
  <2> QED
    BY <2>1 DEF HInv, RowMatchesHistory, Machine
<1> QED
  BY <1>2, <1>3, <1>4, <1>5 DEF HInv

LEMMA InitHolds == Init => HInv
<1> SUFFICES ASSUME Init PROVE HInv
  OBVIOUS
<1>1. runs = {} /\ clock = 1 /\ scan = NoScan /\ machine \in Machine
  BY DEF Init, Machine
<1>2. TypeOK
  BY <1>1 DEF Init, TypeOK, NoScan, Scan
<1>3. ScanInv
  BY <1>1 DEF ScanInv, NoScan
<1>4. TimeInv /\ ChangeInv
  BY <1>1, FS_EmptySet DEF TimeInv, ChangeInv, SuccessesOf
<1>5. HistoryAccounts /\ FirstSeenIsWhenNew /\ CountsAddUp /\ RowMatchesHistory
  BY <1>1 DEF HistoryAccounts, AccountsFor, FirstSeenIsWhenNew, DatedByNew, CountsAddUp, AddUp,
              LatestOf, SuccessesOf, RowMatchesHistory
<1> QED
  BY <1>2, <1>3, <1>4, <1>5 DEF HInv

LEMMA NextHolds == HInv /\ [Next]_vars => HInv'
<1> SUFFICES ASSUME HInv, [Next]_vars PROVE HInv'
  OBVIOUS
<1>1. ASSUME NEW truth \in SUBSET Findings, NEW osvOk \in BOOLEAN, NEW notInKev \in SUBSET Unfixed,
             NEW osv \in SUBSET (truth \ Fed), NEW fed \in SUBSET (truth \cap Fed),
             Match(truth, osvOk, osv, fed, notInKev)
      PROVE  HInv'
  <2>1. scan' \in Scan
    BY <1>1, FindingsAssumption DEF Match, Scan, Listed, Missed
  <2>2. ScanInv'
    BY <1>1 DEF Match, ScanInv, Listed, Missed
  <2> QED
    BY <1>1, <2>1, <2>2, OtherStep DEF Match
<1>2. CASE ScanFails
  <2>1. scan' \in Scan /\ ScanInv'
    BY <1>2 DEF ScanFails, NoScan, Scan, ScanInv
  <2> QED
    BY <1>2, <2>1, OtherStep DEF ScanFails
<1>3. CASE SaveFails
  <2>1. scan' \in Scan /\ ScanInv'
    BY <1>3 DEF SaveFails, NoScan, Scan, ScanInv
  <2> QED
    BY <1>3, <2>1, OtherStep DEF SaveFails
<1>4. CASE NothingRecorded
  <2>1. scan' \in Scan /\ ScanInv'
    BY <1>4 DEF NothingRecorded, NoScan, Scan, ScanInv
  <2> QED
    BY <1>4, <2>1, OtherStep DEF NothingRecorded
<1>5. CASE Enroll
  <2>1. scan' \in Scan /\ ScanInv'
    BY <1>5 DEF Enroll, ScanInv, HInv, TypeOK
  <2> QED
    BY <1>5, <2>1, OtherStep DEF Enroll
<1>6. CASE UNCHANGED vars
  <2>1. scan' \in Scan /\ ScanInv'
    BY <1>6 DEF vars, ScanInv, HInv, TypeOK
  <2> QED
    BY <1>6, <2>1, OtherStep DEF vars
<1> QED
  BY <1>1, <1>2, <1>3, <1>4, <1>5, <1>6, SaveStep, RecordFailureStep DEF Next

\* The invariant holds always, whatever is scanned, answered, refused or lost.
THEOREM HistoryInductive == Spec => []HInv
  BY InitHolds, NextHolds, PTL DEF Spec

\* Every variable keeps its type.
THEOREM HistoryTypes == Spec => []TypeOK
<1>1. HInv => TypeOK
  BY DEF HInv
<1> QED
  BY <1>1, HistoryInductive, PTL

\* The change rows of the runs that are kept account for the findings.
THEOREM Accounting == Spec => []HistoryAccounts
<1>1. HInv => HistoryAccounts
  BY DEF HInv
<1> QED
  BY <1>1, HistoryInductive, PTL

\* A finding is dated by the run that found it new, and the badges are right.
THEOREM Dating == Spec => []FirstSeenIsWhenNew
<1>1. HInv => FirstSeenIsWhenNew
  BY DEF HInv
<1> QED
  BY <1>1, HistoryInductive, PTL

\* The counts of successive runs add up.
THEOREM Counting == Spec => []CountsAddUp
<1>1. HInv => CountsAddUp
  BY DEF HInv
<1> QED
  BY <1>1, HistoryInductive, PTL

\* The machine's row tells of the run the history has last.
THEOREM RowAgrees == Spec => []RowMatchesHistory
<1>1. HInv => RowMatchesHistory
  BY DEF HInv
<1> QED
  BY <1>1, HistoryInductive, PTL

\* Pruning and failures never lose the latest successful run.
THEOREM LatestKept == Spec => LatestSuccessKept
<1> DEFINE Kept == \A r \in SuccessesOf(runs) : \E s \in SuccessesOf(runs)' : r.at <= s.at
<1>1. HInv /\ [Next]_vars => [Kept]_vars
  <2> SUFFICES ASSUME HInv, [Next]_vars, NEW r \in SuccessesOf(runs)
               PROVE  \E s \in SuccessesOf(runs') : r.at <= s.at
    OBVIOUS
  <2>1. \A s \in runs : s \in Run /\ s.at \in Nat
    BY DEF HInv, TypeOK, Run
  <2>2. PICK l \in LatestOf(runs) : TRUE
    BY DEF HInv, ChangeInv
  <2>3. l \in runs /\ l.status = "SUCCESS" /\ r.at <= l.at
    BY DEF LatestOf, SuccessesOf
  <2>4. CASE UNCHANGED runs
    BY <2>3, <2>4 DEF SuccessesOf
  <2>5. ASSUME NEW n, Record(n), n.at = clock + 1, n.status \in ScanStatus
        PROVE  \E s \in SuccessesOf(runs') : r.at <= s.at
    <3>1. r.at <= clock /\ clock \in Nat /\ r.at \in Nat
      BY <2>1 DEF HInv, TypeOK, TimeInv, SuccessesOf
    <3>2. CASE n.status = "SUCCESS"
      <4>1. n \in LatestOf(runs \cup {n})
        BY <2>1, <2>5, <3>1, <3>2 DEF LatestOf, SuccessesOf, HInv, TimeInv
      <4> QED
        BY <2>5, <3>1, <3>2, <4>1, PrunedBounds DEF Record, SuccessesOf
    <3>3. CASE n.status = "FAILURE"
      <4>1. l \in LatestOf(runs \cup {n})
        BY <2>3, <3>3 DEF LatestOf, SuccessesOf
      <4> QED
        BY <2>3, <2>5, <4>1, PrunedBounds DEF Record, SuccessesOf
    <3> QED
      BY <2>5, <3>2, <3>3 DEF ScanStatus
  <2>6. CASE Save
    BY <2>5, <2>6 DEF Save, SuccessAt, ScanStatus
  <2>7. CASE RecordFailure
    BY <2>5, <2>7 DEF RecordFailure, FailureAt, ScanStatus
  <2> QED
    BY <2>4, <2>6, <2>7 DEF Next, Match, ScanFails, SaveFails, NothingRecorded, Enroll, vars
<1> QED
  BY <1>1, HistoryInductive, PTL DEF Spec, LatestSuccessKept

\* No outage of OSV is taken for a patch.
THEOREM OutagesAreNotPatches == Spec => OutageResolvesNothing
<1> DEFINE Stays == \A k \in Stored \ (Fed \cup Unfixed) : k \in Stored' \/ k \notin scan.truth
<1>1. HInv /\ [Next]_vars => [Stays]_vars
  <2> SUFFICES ASSUME HInv, [Next]_vars, NEW k \in Stored \ (Fed \cup Unfixed),
                      k \notin Stored'
               PROVE  k \notin scan.truth
    OBVIOUS
  <2>1. k \in Findings /\ firstSeen \in [Findings -> 0 .. clock] /\ clock \in Nat \ {0}
    BY DEF Stored, HInv, TypeOK
  <2>2. CASE UNCHANGED firstSeen
    BY <2>2 DEF Stored
  <2>3. CASE Save
    <3>1. firstSeen'[k] = 0
      BY <2>1 DEF Stored
    <3>2. firstSeen[k] # 0
      BY DEF Stored
    <3>3. firstSeen'[k] = IF k \in scan.reported THEN FirstSeen(k, clock + 1)
                          ELSE IF scan.complete THEN 0 ELSE firstSeen[k]
      BY <2>1, <2>3 DEF Save, FindingsAfter
    <3>4. k \notin scan.reported /\ scan.complete
      BY <3>1, <3>2, <3>3 DEF FirstSeen
    <3> QED
      BY <2>3, <3>4 DEF Save, HInv, ScanInv
  <2> QED
    BY <2>2, <2>3 DEF Next, Match, ScanFails, SaveFails, NothingRecorded, RecordFailure, Enroll, vars
<1> QED
  BY <1>1, HistoryInductive, PTL DEF Spec, OutageResolvesNothing
=============================================================================
