----------------------------- MODULE FeedRefresh -----------------------------
(***************************************************************************)
(* services/enrichment.py: the KEV catalogue and the EPSS scores are       *)
(* downloaded, replace the cached ones, and are reapplied to the stored    *)
(* findings, while scans enrich theirs from the same caches.               *)
(*                                                                         *)
(* A refresh is started by the periodic task, by a request or by the       *)
(* command line, and nothing keeps two apart.  Every statement but those   *)
(* that write reads what is committed at the time: SQLite's connections    *)
(* begin a transaction at their first write.                               *)
(***************************************************************************)
EXTENDS Integers, FiniteSets

CONSTANTS
  KEV, EPSS,      \* the two feeds
  Feeds,          \* those that are configured
  Cves, Values,   \* what a catalogue lists, and says of what it lists
  Matched,        \* the CVEs of packages that hosts have
  Published,      \* Published[f]: the catalogues that upstream may serve
  Refreshers,     \* the threads and processes that refresh
  Scans,          \* the scans in progress
  EnrichFails,    \* whether a scan may fail to enrich
  None            \* a row, a column or an answer that there is not

Empty == [c \in {} |-> c]
\* kev_listed is false.
Absent == "absent"
Signals == Values \cup {Absent, None}

Catalogues(f) == Published[f] \cup {Empty}
Row(f) == [refreshed : BOOLEAN, count : Nat, digest : Published[f] \cup {None}]

ASSUME FeedsAssumption ==
  /\ KEV # EPSS /\ Feeds # {} /\ Feeds \subseteq {KEV, EPSS} \ {"idle", "next", "read", "reapply"}
  /\ Matched \subseteq Cves /\ IsFiniteSet(Cves) /\ Absent \notin Values
  /\ \A f \in Feeds : \A cat \in Published[f] :
       /\ DOMAIN cat \subseteq Cves /\ DOMAIN cat # {}
       /\ cat = [c \in DOMAIN cat |-> cat[c]]
       /\ \A c \in DOMAIN cat : cat[c] \in Values
  /\ None \notin Values \cup {Absent} /\ \A f \in Feeds : None \notin Published[f]
  /\ None # Empty /\ None \notin [Feeds -> Signals]
  /\ \A f \in Feeds : None \notin Row(f)

VARIABLES
  cache,      \* cache[f]: the catalogue in kev_entries, epss_scores
  meta,       \* meta[f]: its row in feed_refreshes
  findings,   \* findings[c]: the signals of the stored finding of c
  refresh,    \* refresh[r]: where r is in refresh_feeds_and_reapply
  scan,       \* scan[s]: where s is between enriching and saving
  said        \* history: said[f], what the held catalogues have said of a CVE

vars == <<cache, meta, findings, refresh, scan, said>>

Finding == [Feeds -> Signals]
Stored == {c \in Cves : findings[c] # None}

NoMaps == [usable |-> {}, maps |-> [f \in Feeds |-> Empty]]
NoRefresh ==
  [at |-> "idle", pulled |-> [f \in Feeds |-> None], todo |-> {}, loaded |-> None,
   verdict |-> "failed", count |-> 0, changed |-> FALSE, intel |-> NoMaps,
   seen |-> [c \in Cves |-> None], stale |-> {}]
NoScan == [at |-> "idle", found |-> {}, intel |-> NoMaps]

Init ==
  /\ cache = [f \in Feeds |-> Empty]
  /\ meta = [f \in Feeds |-> None]
  /\ findings = [c \in Cves |-> None]
  /\ refresh = [r \in Refreshers |-> NoRefresh]
  /\ scan = [s \in Scans |-> NoScan]
  /\ said = [f \in Feeds |-> {}]

-----------------------------------------------------------------------------
(* What a feed says.                                                       *)

\* Mutant: a feed that was tried is usable.
UsableIfTried(f) == meta[f] # None
Usable(f) == meta[f] # None /\ meta[f].refreshed /\ meta[f].count > 0

\* A KEV catalogue answers for every CVE; EPSS only for those it has.
Says(f, cat, c, now) ==
  IF c \in DOMAIN cat THEN cat[c] ELSE IF f = KEV THEN Absent ELSE now

\* The maps are of the CVEs that are asked for.
Lookup(ids) ==
  [usable |-> {f \in Feeds : Usable(f)},
   maps |-> [f \in Feeds |->
     IF Usable(f) THEN [c \in DOMAIN cache[f] \cap ids |-> cache[f][c]] ELSE Empty]]

Enriched(intel, c, now) ==
  [f \in Feeds |-> IF f \in intel.usable THEN Says(f, intel.maps[f], c, now[f]) ELSE now[f]]
Unenriched == [f \in Feeds |-> None]

-----------------------------------------------------------------------------
(* Refreshing.                                                             *)

\* refresh_all downloads everything first.  An empty catalogue is one answer.
Download(r) ==
  /\ refresh[r].at = "idle"
  /\ \E pulled \in [Feeds -> {Empty, None} \cup UNION {Published[f] : f \in Feeds}] :
       /\ \A f \in Feeds : pulled[f] \in Catalogues(f) \cup {None}
       /\ refresh' = [refresh EXCEPT ![r] =
            [NoRefresh EXCEPT !.at = "next", !.pulled = pulled, !.todo = Feeds]]
  /\ UNCHANGED <<cache, meta, findings, scan, said>>

Failed(pulled) == pulled \in {None, Empty}

\* Mutant: a row that has a digest is not looked at again.
KeptIfHeld(f, pulled) ==
  IF Failed(pulled) THEN "failed"
  ELSE IF meta[f] # None /\ meta[f].digest # None THEN "matches" ELSE "replace"
Verdict(f, pulled) ==
  IF Failed(pulled) THEN "failed"
  ELSE IF meta[f] # None /\ meta[f].digest = pulled THEN "matches" ELSE "replace"

\* The apply of one feed starts: its row is loaded.
Load(r, f) ==
  /\ refresh[r].at = "next" /\ f \in refresh[r].todo
  /\ f = EPSS => KEV \notin refresh[r].todo
  /\ refresh' = [refresh EXCEPT ![r].at = f, ![r].todo = @ \ {f},
                                ![r].loaded = meta[f], ![r].verdict = Verdict(f, refresh[r].pulled[f])]
  /\ UNCHANGED <<cache, meta, findings, scan, said>>

\* A digest that matches is believed if the cache holds anything.
Count(r, f) ==
  /\ refresh[r].at = f /\ refresh[r].verdict = "matches"
  /\ refresh' = [refresh EXCEPT ![r].verdict = IF cache[f] = Empty THEN "replace" ELSE "unchanged",
                                ![r].count = Cardinality(DOMAIN cache[f])]
  /\ UNCHANGED <<cache, meta, findings, scan, said>>

\* The session sends the columns it changed in the row as it was loaded.
Sent(loaded, now, value) == IF value = loaded THEN now ELSE value

RowIfFailed(now) ==
  IF now = None THEN [refreshed |-> FALSE, count |-> 0, digest |-> None] ELSE now
RowIfUnchanged(loaded, now, count, digest) ==
  [refreshed |-> TRUE, count |-> Sent(loaded.count, now.count, count),
   digest |-> Sent(loaded.digest, now.digest, digest)]
\* Nothing kept the row that was loaded: it is read again, in the transaction.
RowIfReplaced(cat) == [refreshed |-> TRUE, count |-> Cardinality(DOMAIN cat), digest |-> cat]

\* What a catalogue says of every CVE, once it is held.
Saying(f, cat) == {<<c, Says(f, cat, c, None)>> : c \in Cves}

\* The writes of one feed, and its commit.  Two cannot insert the same row.
Write(r, f) ==
  /\ refresh[r].at = f
  /\ \/ /\ refresh[r].verdict = "failed"
        /\ refresh[r].loaded = None => meta[f] = None
        /\ meta' = [meta EXCEPT ![f] = RowIfFailed(@)]
        /\ UNCHANGED <<cache, said>>
     \/ /\ refresh[r].verdict = "unchanged"
        /\ meta' = [meta EXCEPT ![f] =
             RowIfUnchanged(refresh[r].loaded, @, refresh[r].count, refresh[r].pulled[f])]
        /\ UNCHANGED <<cache, said>>
     \/ /\ refresh[r].verdict = "replace"
        /\ cache' = [cache EXCEPT ![f] = refresh[r].pulled[f]]
        /\ meta' = [meta EXCEPT ![f] = RowIfReplaced(refresh[r].pulled[f])]
        /\ said' = [said EXCEPT ![f] = @ \cup Saying(f, refresh[r].pulled[f])]
  /\ refresh' = [refresh EXCEPT ![r].at = "next", ![r].loaded = None, ![r].pulled[f] = None,
                                ![r].verdict = "failed", ![r].count = 0,
                                ![r].changed = @ \/ refresh[r].verdict # "unchanged"]
  /\ UNCHANGED <<findings, scan>>

-----------------------------------------------------------------------------
(* Reapplying to the stored findings.                                      *)

Ready(r) == refresh[r].at = "next" /\ refresh[r].todo = {}

\* Every feed was unchanged.
SkipReapply(r) ==
  /\ Ready(r) /\ ~refresh[r].changed
  /\ refresh' = [refresh EXCEPT ![r] = NoRefresh]
  /\ UNCHANGED <<cache, meta, findings, scan, said>>

\* The health of the feeds, the CVEs of the findings, and what is known of them.
ReadIntel(r) ==
  /\ Ready(r) /\ refresh[r].changed
  /\ refresh' = [refresh EXCEPT ![r] =
       IF Stored = {} \/ \A f \in Feeds : ~Usable(f) THEN NoRefresh
       ELSE [NoRefresh EXCEPT !.at = "read", !.intel = Lookup(Stored)]]
  /\ UNCHANGED <<cache, meta, findings, scan, said>>

\* The findings, streamed.
ReadFindings(r) ==
  /\ refresh[r].at = "read"
  /\ refresh' = [refresh EXCEPT ![r].at = "reapply", ![r].seen = findings]
  /\ UNCHANGED <<cache, meta, findings, scan, said>>

Reapplied(r, c) == Enriched(refresh[r].intel, c, refresh[r].seen[c])
Touched(r) ==
  {c \in Cves : refresh[r].seen[c] # None /\ Reapplied(r, c) # refresh[r].seen[c]}

\* The fields that differ from what was read are written; a finding that was
\* rewritten meanwhile is not found, and fails them all.
Reapply(r) ==
  /\ refresh[r].at = "reapply" /\ Touched(r) \cap refresh[r].stale = {}
  /\ findings' = [c \in Cves |->
       IF c \in Touched(r)
       THEN [f \in Feeds |-> Sent(refresh[r].seen[c][f], findings[c][f], Reapplied(r, c)[f])]
       ELSE findings[c]]
  /\ refresh' = [refresh EXCEPT ![r] = NoRefresh]
  /\ UNCHANGED <<cache, meta, scan, said>>

\* A write is refused, or something else fails: what was committed stays.
GiveUp(r) ==
  /\ refresh[r].at # "idle"
  /\ refresh' = [refresh EXCEPT ![r] = NoRefresh]
  /\ UNCHANGED <<cache, meta, findings, scan, said>>

-----------------------------------------------------------------------------
(* Scans.                                                                  *)

\* Enrichment that fails leaves the findings without signals.
Enrich(s, found) ==
  /\ scan[s].at = "idle"
  /\ \E intel \in {Lookup(found)} \cup (IF EnrichFails THEN {NoMaps} ELSE {}) :
       scan' = [scan EXCEPT ![s] = [at |-> "save", found |-> found, intel |-> intel]]
  /\ UNCHANGED <<cache, meta, findings, refresh, said>>

\* Every finding is written anew; a partial scan keeps those it missed.
SaveFindings(s, partial) ==
  /\ scan[s].at = "save"
  /\ findings' = [c \in Cves |->
       IF c \in scan[s].found THEN Enriched(scan[s].intel, c, Unenriched)
       ELSE IF partial THEN findings[c] ELSE None]
  /\ refresh' = [r \in Refreshers |->
       IF refresh[r].at = "reapply"
       THEN [refresh[r] EXCEPT !.stale = @ \cup (IF partial THEN scan[s].found ELSE Cves)]
       ELSE refresh[r]]
  /\ scan' = [scan EXCEPT ![s] = NoScan]
  /\ UNCHANGED <<cache, meta, said>>

ScanFails(s) ==
  /\ scan[s].at = "save"
  /\ scan' = [scan EXCEPT ![s] = NoScan]
  /\ UNCHANGED <<cache, meta, findings, refresh, said>>

\* The process stops.
Stop ==
  /\ refresh' = [r \in Refreshers |-> NoRefresh]
  /\ scan' = [s \in Scans |-> NoScan]
  /\ UNCHANGED <<cache, meta, findings, said>>

RefreshStep(r) ==
  \/ Download(r) \/ SkipReapply(r) \/ ReadIntel(r) \/ ReadFindings(r) \/ Reapply(r) \/ GiveUp(r)
  \/ \E f \in Feeds : Load(r, f) \/ Count(r, f) \/ Write(r, f)

Next ==
  \/ \E r \in Refreshers : RefreshStep(r)
  \/ \E s \in Scans :
       \/ \E found \in SUBSET Matched : Enrich(s, found)
       \/ \E partial \in BOOLEAN : SaveFindings(s, partial)
       \/ ScanFails(s)
  \/ Stop

Spec == Init /\ [][Next]_vars

\* A refresh goes on, someone starts one again and again, and of each feed some
\* answer is written again and again: they do not all fail.
Succeeds(f) == \E r \in Refreshers : Write(r, f) /\ ~Failed(refresh[r].pulled[f])
FairSpec ==
  /\ Spec
  /\ \A r \in Refreshers : WF_vars(RefreshStep(r))
  /\ \A f \in Feeds : []<><<Succeeds(f)>>_vars

-----------------------------------------------------------------------------
(* Properties.                                                             *)

Intel == [usable : SUBSET Feeds, maps : [Feeds -> UNION {[S -> Values] : S \in SUBSET Cves}]]
At == {"idle", "next", "read", "reapply"} \cup Feeds
Pulled == [Feeds -> {None} \cup UNION {Catalogues(f) : f \in Feeds}]
Rows ==
  {None} \cup [refreshed : BOOLEAN, count : Nat,
               digest : {None} \cup UNION {Published[f] : f \in Feeds}]
Findings == [Cves -> Finding \cup {None}]
Verdicts == {"failed", "matches", "unchanged", "replace"}
Refresh ==
  [at : At, pulled : Pulled, todo : SUBSET Feeds, loaded : Rows,
   verdict : Verdicts, count : Nat, changed : BOOLEAN, intel : Intel, seen : Findings, stale : SUBSET Cves]
Scan == [at : {"idle", "save"}, found : SUBSET Matched, intel : Intel]

TypeOK ==
  /\ cache \in [Feeds -> UNION {Catalogues(f) : f \in Feeds}]
  /\ meta \in [Feeds -> Rows]
  /\ \A f \in Feeds : cache[f] \in Catalogues(f) /\ meta[f] \in Row(f) \cup {None}
  /\ findings \in Findings
  /\ refresh \in [Refreshers -> Refresh]
  /\ \A r \in Refreshers, f \in Feeds : refresh[r].pulled[f] \in Catalogues(f) \cup {None}
  /\ scan \in [Scans -> Scan]

\* A digest lets a refresh leave the cache as it is, so it must be of the
\* catalogue that is held, whatever was loaded before another refresh wrote.
DigestIsOfCache ==
  \A f \in Feeds : meta[f] # None /\ meta[f].digest # None => meta[f].digest = cache[f]

\* The enrichment invariant (Req 10.15, 10.17): a finding states what a feed says of it
\* on the authority of a catalogue that the system holds.
StatedIsHeld ==
  \A c \in Stored, f \in Feeds : findings[c][f] # None => Usable(f) /\ cache[f] # Empty

\* "the catalogue that omits it is one the system actually holds"
\* (enrichment.py:614).  It does not hold beside a scan: see the README.
AbsentWasSaid ==
  \A c \in Stored, f \in Feeds :
    findings[c][f] = Absent => <<c, Absent>> \in said[f]

\* Whatever fails, a feed that could be used can still be used.
StaysUsable == [][\A f \in Feeds : Usable(f) => Usable(f)']_vars

\* "Nothing a reapply could write would differ, so skip" (enrichment.py:840).
Current(c) ==
  Enriched([usable |-> {f \in Feeds : Usable(f)}, maps |-> cache], c, findings[c]) = findings[c]
SkippedIsCurrent ==
  [][\A r \in Refreshers : SkipReapply(r) => \A c \in Stored : Current(c)]_vars

\* Once upstream serves one catalogue only, the cache ends as that one, however
\* many refreshes overlap, fail or find a digest of their own.
ServesOnly(f, cat) ==
  <>[][\A r \in Refreshers :
         refresh'[r].pulled[f] \in {refresh[r].pulled[f], None, cat}]_vars
Converges ==
  \A f \in Feeds : \A cat \in Published[f] : ServesOnly(f, cat) => <>[](cache[f] = cat)

-----------------------------------------------------------------------------
(* The inductive invariant.                                                *)

\* A feed holds a catalogue with its digest and its count, or never held any.
Held(f) == Usable(f) /\ cache[f] \in Published[f] /\ meta[f].digest = cache[f]
NeverHeld(f) ==
  /\ cache[f] = Empty
  /\ meta[f] = None \/ (~meta[f].refreshed /\ meta[f].count = 0 /\ meta[f].digest = None)
CacheInv == \A f \in Feeds : Held(f) \/ NeverHeld(f)

\* What a refresh is about to write of a feed, and the row it loaded for it.
LoadedInv(r, f) ==
  LET loaded == refresh[r].loaded
      pulled == refresh[r].pulled[f]
  IN /\ loaded \in Row(f) \cup {None}
     /\ loaded # None => meta[f] # None
     /\ refresh[r].verdict = "replace" => pulled \in Published[f]
     /\ refresh[r].verdict \in {"matches", "unchanged"} =>
          /\ Held(f) /\ pulled \in Published[f]
          /\ loaded # None /\ loaded.digest = pulled /\ loaded.count > 0
     /\ refresh[r].verdict = "unchanged" => refresh[r].count > 0
WriteInv == \A r \in Refreshers, f \in Feeds : refresh[r].at = f => LoadedInv(r, f)

\* What is on its way to the findings is of feeds that are held, and a finding
\* that was not rewritten is still there.
IntelInv ==
  /\ \A r \in Refreshers : \A f \in refresh[r].intel.usable : Held(f)
  /\ \A s \in Scans : \A f \in scan[s].intel.usable : Held(f)
SeenInv ==
  \A r \in Refreshers : refresh[r].at = "reapply" =>
    \A c \in Cves \ refresh[r].stale : refresh[r].seen[c] # None => findings[c] # None

FInv == TypeOK /\ CacheInv /\ WriteInv /\ IntelInv /\ SeenInv /\ StatedIsHeld
=============================================================================
