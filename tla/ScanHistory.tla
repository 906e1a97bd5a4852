----------------------------- MODULE ScanHistory -----------------------------
(***************************************************************************)
(* One machine's findings and its scan history: what _scan_one of          *)
(* scanner/engine.py and api/wiring.py writes through data/repository.py   *)
(* (save_findings, record_scan_run and its pruning) and what it leaves     *)
(* when a source does not answer or a write is refused.                    *)
(*                                                                         *)
(* Scans of a machine never overlap (ScanJobs_proofs, NoTwoScans), so one  *)
(* scan at a time is in progress.  The host and the published advisories   *)
(* may change in any way between two scans.  A finding is its key, a CVE   *)
(* in a package: its version, score and exploitation fields follow each    *)
(* scan and are left out, and so are the inventory and the kernel counts,  *)
(* which each scan replaces.  Clocks do not go back.                       *)
(***************************************************************************)
EXTENDS Naturals, FiniteSets

CONSTANTS
  Findings,   \* the finding keys the machine may ever have
  Fed,        \* those in a kernel that only its distribution's feed knows of
  Unfixed,    \* those in a kernel that may lack a fix for the host's release
  Keep,       \* scan_history_limit: how many runs are kept, 50 by default
  MaxClock    \* bound: the time of the last scan

ASSUME FindingsAssumption ==
  IsFiniteSet(Findings) /\ Fed \subseteq Findings /\ Unfixed \subseteq Findings
ASSUME LimitsAssumption == Keep \in Nat \ {0} /\ MaxClock \in Nat

VARIABLES
  firstSeen,  \* firstSeen[k]: first_seen_at of the row for k, 0 where there is none
  runs,       \* the machine's scan_runs, each with its scan_finding_changes
  machine,    \* the machine's last_scan_status and last_scan_sources_ok
  scan,       \* the scan in progress, in the engine's memory
  clock       \* the time of the latest scan

vars == <<firstSeen, runs, machine, scan, clock>>

\* Every way a scan can fail reads the same here.
ScanStatus == {"SUCCESS", "FAILURE"}

\* A run says which findings were new and which resolved, as its change rows
\* do; assessed is FALSE where resolved_count is NULL on a compared run.
Run == [at : Nat, status : ScanStatus, sourcesOk : BOOLEAN, count : Nat,
        baseline : BOOLEAN, assessed : BOOLEAN,
        new : SUBSET Findings, resolved : SUBSET Findings]
Machine == [status : ScanStatus \cup {"NEVER_SCANNED"}, sourcesOk : BOOLEAN]

\* A scan that is "saving" has made its last network call.  truth is what asking
\* every source would have found, reported what the scan has to store.
NoScan == [at |-> "idle", truth |-> {}, reported |-> {}, complete |-> FALSE]
Scan == [at : {"idle", "saving", "failed"}, truth : SUBSET Findings,
         reported : SUBSET Findings, complete : BOOLEAN]

Stored == {k \in Findings : firstSeen[k] # 0}
SuccessesOf(rs) == {r \in rs : r.status = "SUCCESS"}
\* latest_successful_run: one run or none.
LatestOf(rs) == {r \in SuccessesOf(rs) : \A s \in SuccessesOf(rs) : s.at <= r.at}

-----------------------------------------------------------------------------
\* A machine new to the roster; or one that was scanned before there was a
\* history, its findings dated by the upgrade (the scan_history migration).
Init ==
  \E legacy \in SUBSET Findings, status \in ScanStatus \cup {"NEVER_SCANNED"} :
    /\ legacy # {} => status # "NEVER_SCANNED"
    /\ firstSeen = [k \in Findings |-> IF k \in legacy THEN 1 ELSE 0]
    /\ runs = {}
    /\ machine = [status |-> status, sourcesOk |-> TRUE]
    /\ scan = NoScan
    /\ clock = 1

-----------------------------------------------------------------------------
(* A scan, up to what it has to store.                                     *)

\* split_kernel_findings: a kernel CVE nothing can be done about is counted, and
\* not listed, if the KEV catalogue was looked up and does not have it.
Listed(found, notInKev) == found \ (Unfixed \cap notInKev)

\* _unavailable_sources: the sources a scan is partial without.
Missed(osvOk, osv) == ~osvOk

\* OSV answers, or in part, or not at all; so does the kernel's feed, which may
\* be missing, stale, or without one of the kernels, and is not asked after.
Match(truth, osvOk, osv, fed, notInKev) ==
  /\ scan.at = "idle" /\ clock < MaxClock
  /\ osvOk => osv = truth \ Fed
  /\ scan' = [at |-> "saving", truth |-> truth,
              reported |-> Listed(osv \cup fed, notInKev),
              complete |-> ~Missed(osvOk, osv)]
  /\ UNCHANGED <<firstSeen, runs, machine, clock>>

\* The host cannot be reached, refuses the login, or gives no inventory.
ScanFails ==
  /\ scan.at = "idle" /\ clock < MaxClock
  /\ scan' = [NoScan EXCEPT !.at = "failed"]
  /\ UNCHANGED <<firstSeen, runs, machine, clock>>

\* A statement of the save is refused ("database is locked"): it is rolled back,
\* and the scan is one that failed.
SaveFails ==
  /\ scan.at = "saving"
  /\ scan' = [NoScan EXCEPT !.at = "failed"]
  /\ UNCHANGED <<firstSeen, runs, machine, clock>>

-----------------------------------------------------------------------------
(* save_findings.                                                          *)

\* Mutant: the row is replaced with all it says.
SeenNow(k, now) == now
FirstSeen(k, now) == IF k \in Stored THEN firstSeen[k] ELSE now

\* A complete scan replaces the findings; a partial one keeps what it did not
\* report.
\* Mutant: every scan replaces them.
ReplacedBy(now) == [k \in Findings |-> IF k \in scan.reported THEN FirstSeen(k, now) ELSE 0]
FindingsAfter(now) ==
  [k \in Findings |-> IF k \in scan.reported THEN FirstSeen(k, now)
                      ELSE IF scan.complete THEN 0 ELSE firstSeen[k]]

Baseline == SuccessesOf(runs) = {}
New == IF Baseline THEN {} ELSE scan.reported \ Stored

\* Mutant: what a partial scan did not report counts as resolved.
GoneIsResolved == IF Baseline THEN {} ELSE Stored \ scan.reported
Resolved == IF Baseline \/ ~scan.complete THEN {} ELSE Stored \ scan.reported

-----------------------------------------------------------------------------
(* record_scan_run and _record_scan_status.                                *)

\* _prune_scan_runs.
\* Mutant: by age alone.
PrunedByAge(rs) == {r \in rs : Cardinality({s \in rs : s.at > r.at}) < Keep}
Pruned(rs) ==
  {r \in rs : r \in LatestOf(rs) \/ Cardinality({s \in rs : s.at > r.at}) < Keep}

\* count_findings_for_machine, after the save.
FindingCount == Cardinality({k \in Findings : firstSeen'[k] # 0})

SuccessAt(now) ==
  [at |-> now, status |-> "SUCCESS", sourcesOk |-> scan.complete, count |-> FindingCount,
   baseline |-> Baseline, assessed |-> ~Baseline /\ scan.complete,
   new |-> New, resolved |-> Resolved]
FailureAt(now) ==
  [at |-> now, status |-> "FAILURE", sourcesOk |-> TRUE, count |-> 0,
   baseline |-> FALSE, assessed |-> FALSE, new |-> {}, resolved |-> {}]

RowAfter(run) == [status |-> run.status, sourcesOk |-> run.sourcesOk]

Record(run) ==
  /\ runs' = Pruned(runs \cup {run})
  /\ machine' = RowAfter(run)
  /\ clock' = run.at
  /\ scan' = NoScan

\* The findings, the run and the machine's row are committed together.
Save ==
  /\ scan.at = "saving"
  /\ firstSeen' = FindingsAfter(clock + 1)
  /\ Record(SuccessAt(clock + 1))

RecordFailure ==
  /\ scan.at = "failed"
  /\ Record(FailureAt(clock + 1))
  /\ UNCHANGED firstSeen

\* Recording the outcome is refused, or its commit, or the process stops: there
\* is nothing of this scan in the database.
NothingRecorded ==
  /\ scan.at # "idle"
  /\ scan' = NoScan
  /\ UNCHANGED <<firstSeen, runs, machine, clock>>

\* POST /api/discovery/enroll, of a machine new to the roster or not.
Enroll ==
  /\ machine' = [machine EXCEPT !.status = "NEVER_SCANNED"]
  /\ UNCHANGED <<firstSeen, runs, scan, clock>>

Next ==
  \/ \E truth \in SUBSET Findings, osvOk \in BOOLEAN, notInKev \in SUBSET Unfixed :
       \E osv \in SUBSET (truth \ Fed), fed \in SUBSET (truth \cap Fed) :
         Match(truth, osvOk, osv, fed, notInKev)
  \/ ScanFails \/ SaveFails
  \/ Save \/ RecordFailure \/ NothingRecorded
  \/ Enroll

Spec == Init /\ [][Next]_vars

-----------------------------------------------------------------------------
(* Properties.                                                             *)

\* Types, and times that are at most the clock's.
TypeOK ==
  /\ firstSeen \in [Findings -> 0 .. clock]
  /\ runs \subseteq Run
  /\ machine \in Machine
  /\ scan \in Scan
  /\ clock \in Nat \ {0}

Mentions(r, k) == k \in r.new \cup r.resolved
\* Of the runs rs, r speaks of k last.
Last(rs, r, k) == Mentions(r, k) /\ \A s \in rs : Mentions(s, k) => s.at <= r.at
\* Of the runs rs, s speaks of k next after r.
NextAfter(rs, r, s, k) ==
  /\ Mentions(r, k) /\ Mentions(s, k) /\ r.at < s.at
  /\ \A t \in rs : Mentions(t, k) => t.at <= r.at \/ s.at <= t.at

AccountsFor(rs, stored) ==
  /\ \A r \in rs, k \in Findings : Last(rs, r, k) => (k \in r.new <=> k \in stored)
  /\ \A r, s \in rs, k \in Findings : NextAfter(rs, r, s, k) => (k \in r.new <=> k \in s.resolved)

\* The change rows that are kept account for the findings: a finding is listed
\* exactly if the last run to speak of it found it new, and it does not appear
\* twice without having been resolved in between, nor the reverse (Req 18.2),
\* whatever partial scans, failures and pruning there were.
HistoryAccounts == AccountsFor(runs, Stored)

DatedByNew(rs, seen) == \A r \in rs : \A k \in r.new : Last(rs, r, k) => seen[k] = r.at
DatedAt(seen, t) == {k \in Findings : seen[k] = t}

\* A finding was first seen by the run that found it new, and the badges of the
\* latest successful run are on the findings first seen then (Req 18.5, 18.6).
FirstSeenIsWhenNew ==
  /\ DatedByNew(runs, firstSeen)
  /\ \A r \in LatestOf(runs) : r.baseline \/ r.new = DatedAt(firstSeen, r.at)

\* Of the runs rs, s is the next successful one after r.
NextSuccess(rs, r, s) ==
  /\ r \in SuccessesOf(rs) /\ s \in SuccessesOf(rs) /\ r.at < s.at
  /\ \A t \in SuccessesOf(rs) : t.at <= r.at \/ s.at <= t.at
AddUp(rs) ==
  \A r, s \in rs : NextSuccess(rs, r, s) =>
    r.count + Cardinality(s.new) = s.count + Cardinality(s.resolved)

\* The counts of the runs add up: each successful run's is the one before it,
\* plus its new findings, less its resolved ones; the latest is what is listed.
CountsAddUp == AddUp(runs) /\ \A r \in LatestOf(runs) : r.count = Cardinality(Stored)

\* The machine's row and its history tell the same of its latest scan.
RowMatchesHistory ==
  machine.status # "NEVER_SCANNED" =>
    \A r \in runs : (\A s \in runs : s.at <= r.at) =>
      machine = [status |-> r.status, sourcesOk |-> r.sourcesOk]

\* The latest successful run is never lost, so a machine has one baseline and
\* its badges are those of its latest successful scan (Req 18.4, 18.7).
LatestSuccessKept ==
  [][\A r \in SuccessesOf(runs) : \E s \in SuccessesOf(runs)' : r.at <= s.at]_vars

\* A finding of a package OSV knows of leaves the list only if a scan that asked
\* could not find it: no outage is taken for a patch (Req 18.3).  The kernel
\* CVEs that are counted leave it too.
OutageResolvesNothing ==
  [][\A k \in Stored \ (Fed \cup Unfixed) : k \in Stored' \/ k \notin scan.truth]_vars

\* Of a kernel whose advisories come from its distribution's feed, likewise: "an
\* unreachable source is not a patch" (repository.py), and no finding may be
\* resolved where a kernel's advisories cannot be obtained (Req 12.7).
FeedOutageResolvesNothing ==
  [][\A r \in runs' \ runs : r.resolved \cap (Fed \ Unfixed) \cap scan.truth = {}]_vars

-----------------------------------------------------------------------------
(* The inductive invariant the theorems rest on.                           *)

\* A scan that asked everyone reports what there is, but for what is counted.
ScanInv ==
  scan.at = "saving" /\ scan.complete => scan.truth \ (Fed \cup Unfixed) \subseteq scan.reported

\* No two runs have one time, and none is later than the clock.
TimeInv ==
  /\ IsFiniteSet(runs)
  /\ \A r \in runs : r.at <= clock
  /\ \A r, s \in runs : r.at = s.at => r = s

\* Only a run that compared says what changed; it says it once.  Where there are
\* successful runs there is a latest.
ChangeInv ==
  /\ \A r \in runs : r.status = "FAILURE" => r.new = {} /\ r.resolved = {}
  /\ \A r \in runs : r.new \cap r.resolved = {}
  /\ SuccessesOf(runs) # {} => LatestOf(runs) # {}

HInv ==
  /\ TypeOK /\ ScanInv /\ TimeInv /\ ChangeInv
  /\ HistoryAccounts /\ FirstSeenIsWhenNew /\ CountsAddUp /\ RowMatchesHistory
=============================================================================
