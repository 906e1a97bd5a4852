-------------------------- MODULE FeedRefresh_proofs --------------------------
(***************************************************************************)
(* What a finding states of a feed is on the authority of a catalogue that *)
(* is held, and a digest is of that catalogue: for any feeds, CVEs,        *)
(* catalogues, refreshes at once, scans and failures.                      *)
(***************************************************************************)
EXTENDS FeedRefresh, FiniteSetTheorems, TLAPS

-----------------------------------------------------------------------------
(* Catalogues, rows and what is looked up in them.                         *)

\* A catalogue that may be published has a count above zero.
LEMMA Counted ==
  ASSUME NEW f \in Feeds, NEW cat \in Published[f]
  PROVE  Cardinality(DOMAIN cat) \in Nat /\ Cardinality(DOMAIN cat) > 0
<1>1. DOMAIN cat \subseteq Cves /\ DOMAIN cat # {} /\ IsFiniteSet(Cves)
  BY FeedsAssumption
<1>2. IsFiniteSet(DOMAIN cat)
  BY <1>1, FS_Subset
<1>3. Cardinality(DOMAIN cat) \in Nat /\ Cardinality(DOMAIN cat) # 0
  BY <1>1, <1>2, FS_CardinalityType, FS_EmptySet
<1> QED  BY <1>3

\* So has whatever is cached, unless it is empty.
LEMMA Cached ==
  ASSUME NEW f \in Feeds, NEW cat \in Catalogues(f)
  PROVE  Cardinality(DOMAIN cat) \in Nat /\ (cat # Empty => Cardinality(DOMAIN cat) > 0)
<1>1. DOMAIN Empty = {}
  BY DEF Empty
<1> QED  BY <1>1, Counted, FS_EmptySet DEF Catalogues

LEMMA RowsAreRows == \A f \in Feeds : Row(f) \subseteq Rows
BY DEF Row, Rows

\* An empty catalogue and no answer are failures, a published one is not.
LEMMA Answers ==
  ASSUME NEW f \in Feeds, NEW pulled \in Catalogues(f) \cup {None}
  PROVE  /\ Failed(pulled) <=> pulled \notin Published[f]
         /\ Empty \notin Published[f] /\ None \notin Published[f]
<1>1. Empty \notin Published[f]
  BY FeedsAssumption DEF Empty
<1> QED  BY <1>1, FeedsAssumption DEF Failed, Catalogues

\* A feed that calls itself usable is held.
LEMMA UsableIsHeld ==
  ASSUME CacheInv, NEW f \in Feeds
  PROVE  Usable(f) <=> Held(f)
BY DEF CacheInv, Held, NeverHeld, Usable

LEMMA NoMapsIsIntel == NoMaps \in Intel /\ NoMaps.usable = {}
<1>1. Empty \in [{} -> Values]
  BY DEF Empty
<1> QED  BY <1>1 DEF NoMaps, Intel

\* What is looked up is of feeds that are held.
LEMMA LookupIsHeld ==
  ASSUME TypeOK, CacheInv, NEW ids \in SUBSET Cves
  PROVE  Lookup(ids) \in Intel /\ \A f \in Lookup(ids).usable : f \in Feeds /\ Held(f)
<1>1. ASSUME NEW f \in Feeds, Usable(f)
      PROVE  [c \in DOMAIN cache[f] \cap ids |-> cache[f][c]]
               \in UNION {[S -> Values] : S \in SUBSET Cves}
  <2>1. cache[f] \in Published[f]
    BY <1>1, UsableIsHeld DEF Held
  <2>2. \A c \in DOMAIN cache[f] : cache[f][c] \in Values
    BY <2>1, FeedsAssumption
  <2>3. [c \in DOMAIN cache[f] \cap ids |-> cache[f][c]] \in [DOMAIN cache[f] \cap ids -> Values]
    BY <2>2
  <2>4. DOMAIN cache[f] \cap ids \in SUBSET Cves
    OBVIOUS
  <2> QED  BY <2>3, <2>4
<1>2. Empty \in [{} -> Values]
  BY DEF Empty
<1>3. Lookup(ids).maps \in [Feeds -> UNION {[S -> Values] : S \in SUBSET Cves}]
  BY <1>1, <1>2 DEF Lookup
<1>4. Lookup(ids).usable = {f \in Feeds : Usable(f)}
  BY DEF Lookup
<1>5. Lookup(ids) \in Intel
  BY <1>3, <1>4 DEF Lookup, Intel
<1> QED  BY <1>4, <1>5, UsableIsHeld

\* Enriching keeps the type.
LEMMA EnrichedIsFinding ==
  ASSUME NEW intel \in Intel, NEW c \in Cves, NEW now \in Finding
  PROVE  Enriched(intel, c, now) \in Finding
<1>1. ASSUME NEW f \in Feeds
      PROVE  Says(f, intel.maps[f], c, now[f]) \in Signals
  <2>1. intel.maps[f] \in UNION {[S -> Values] : S \in SUBSET Cves}
    BY DEF Intel
  <2>2. PICK S \in SUBSET Cves : intel.maps[f] \in [S -> Values]
    BY <2>1
  <2> QED  BY <2>2 DEF Says, Signals, Finding
<1> QED  BY <1>1 DEF Enriched, Finding

LEMMA UnenrichedIsFinding == Unenriched \in Finding
BY DEF Unenriched, Finding, Signals

-----------------------------------------------------------------------------
(* The write of a feed.                                                    *)

\* What a step must leave as it is: catalogues stay held, rows stay there.
Keeps ==
  \A f \in Feeds : (Held(f) => Held(f)') /\ (meta[f] # None => meta'[f] # None)

\* A write leaves the feed held, or, if it failed, as it was.
LEMMA WriteHolds ==
  ASSUME FInv, NEW r \in Refreshers, NEW f \in Feeds, Write(r, f)
  PROVE  /\ CacheInv' /\ Keeps
         /\ cache' \in [Feeds -> UNION {Catalogues(g) : g \in Feeds}]
         /\ meta' \in [Feeds -> Rows]
         /\ \A g \in Feeds : cache'[g] \in Catalogues(g) /\ meta'[g] \in Row(g) \cup {None}
<1> DEFINE pulled == refresh[r].pulled[f]
           loaded == refresh[r].loaded
           verdict == refresh[r].verdict
<1>1. LoadedInv(r, f) /\ TypeOK /\ CacheInv
  BY DEF FInv, WriteInv, Write
<1>2. pulled \in Catalogues(f) \cup {None} /\ None \notin Row(f) /\ verdict \in Verdicts
  BY <1>1, FeedsAssumption DEF TypeOK, Refresh
<1>3. CASE verdict = "failed"
  <2>1. cache' = cache /\ meta' = [meta EXCEPT ![f] = RowIfFailed(meta[f])]
    BY <1>3 DEF Write
  <2>2. meta[f] # None => meta' = meta
    BY <2>1, <1>1 DEF RowIfFailed, TypeOK
  <2>3. ASSUME meta[f] = None
        PROVE  meta'[f] = [refreshed |-> FALSE, count |-> 0, digest |-> None]
    BY <2>1, <2>3, <1>1 DEF RowIfFailed, TypeOK
  <2>4. [refreshed |-> FALSE, count |-> 0, digest |-> None] \in Row(f)
    BY DEF Row
  <2>5. CASE meta[f] # None
    BY <2>1, <2>2, <2>5, <1>1 DEF CacheInv, Held, NeverHeld, Usable, Keeps, TypeOK
  <2>6. CASE meta[f] = None
    <3>1. NeverHeld(f)
      BY <1>1, <2>6 DEF CacheInv, Held, Usable
    <3>2. NeverHeld(f)'
      BY <2>1, <2>3, <2>6, <3>1 DEF NeverHeld
    <3>3. \A g \in Feeds \ {f} : cache'[g] = cache[g] /\ meta'[g] = meta[g]
      BY <2>1, <1>1 DEF TypeOK
    <3>4. CacheInv'
      BY <1>1, <3>2, <3>3 DEF CacheInv, Held, NeverHeld, Usable
    <3>5. Keeps
      BY <2>6, <3>3, <2>1 DEF Keeps, Held, Usable
    <3>6. meta' \in [Feeds -> Rows]
      <4>1. [refreshed |-> FALSE, count |-> 0, digest |-> None] \in Rows
        BY <2>4, RowsAreRows
      <4>2. meta' = [meta EXCEPT ![f] = [refreshed |-> FALSE, count |-> 0, digest |-> None]]
        BY <2>1, <2>6 DEF RowIfFailed
      <4> QED  BY <1>1, <4>1, <4>2 DEF TypeOK
    <3> QED  BY <1>1, <2>1, <2>3, <2>4, <2>6, <3>3, <3>4, <3>5, <3>6 DEF TypeOK
  <2> QED  BY <2>5, <2>6
<1>4. CASE verdict = "replace"
  <2> DEFINE row == RowIfReplaced(pulled)
  <2>1. pulled \in Published[f]
    BY <1>1, <1>4 DEF LoadedInv
  <2>2. row \in Row(f) /\ row.refreshed /\ row.count > 0 /\ row.digest = pulled /\ row # None
    <3>1. Cardinality(DOMAIN pulled) \in Nat /\ Cardinality(DOMAIN pulled) > 0
      BY <2>1, Counted
    <3>2. row.refreshed = TRUE /\ row.count = Cardinality(DOMAIN pulled) /\ row.digest = pulled
      BY DEF RowIfReplaced
    <3>3. row \in Row(f)
      BY <2>1, <3>1 DEF RowIfReplaced, Row
    <3> QED  BY <1>2, <3>1, <3>2, <3>3
  <2>3. cache' = [cache EXCEPT ![f] = pulled] /\ meta' = [meta EXCEPT ![f] = row]
    BY <1>4 DEF Write
  <2> HIDE DEF row
  <2>4. /\ cache'[f] = pulled /\ meta'[f] = row
        /\ \A g \in Feeds \ {f} : cache'[g] = cache[g] /\ meta'[g] = meta[g]
    BY <1>1, <2>3 DEF TypeOK
  <2>5. Held(f)'
    BY <2>1, <2>2, <2>4 DEF Held, Usable
  <2>6. CacheInv' /\ Keeps
    BY <1>1, <2>2, <2>4, <2>5 DEF CacheInv, Held, NeverHeld, Usable, Keeps
  <2>7. pulled \in UNION {Catalogues(g) : g \in Feeds} /\ row \in Rows
    BY <2>1, <2>2, RowsAreRows DEF Catalogues
  <2>8. /\ cache' \in [Feeds -> UNION {Catalogues(g) : g \in Feeds}]
        /\ meta' \in [Feeds -> Rows]
    BY <1>1, <2>3, <2>7 DEF TypeOK
  <2>9. \A g \in Feeds : cache'[g] \in Catalogues(g) /\ meta'[g] \in Row(g) \cup {None}
    BY <1>1, <2>1, <2>2, <2>4 DEF TypeOK, Catalogues
  <2> QED  BY <2>6, <2>8, <2>9
<1>5. CASE verdict = "unchanged"
  <2> DEFINE row == RowIfUnchanged(loaded, meta[f], refresh[r].count, pulled)
  <2>1. /\ Held(f) /\ loaded # None /\ loaded \in Row(f) /\ loaded.digest = pulled
        /\ meta[f] \in Row(f) /\ refresh[r].count \in Nat /\ refresh[r].count > 0
    BY <1>1, <1>5 DEF LoadedInv, Held, Usable, TypeOK, Refresh
  <2>2. row \in Row(f) /\ row.refreshed /\ row.count > 0 /\ row.digest = meta[f].digest /\ row # None
    <3>1. row.refreshed = TRUE /\ row.digest = meta[f].digest
      BY <2>1 DEF RowIfUnchanged, Sent
    <3>2. row.count \in {meta[f].count, refresh[r].count}
      BY DEF RowIfUnchanged, Sent
    <3>3. row.count \in Nat /\ row.count > 0
      BY <2>1, <3>2 DEF Row, Held, Usable
    <3>4. meta[f].digest \in Published[f] \cup {None}
      BY <2>1 DEF Row
    <3>5. row = [refreshed |-> row.refreshed, count |-> row.count, digest |-> row.digest]
      BY DEF RowIfUnchanged
    <3> HIDE DEF row
    <3>6. row \in Row(f)
      BY <3>1, <3>3, <3>4, <3>5 DEF Row
    <3> QED  BY <1>2, <3>1, <3>3, <3>6
  <2>3. cache' = cache /\ meta' = [meta EXCEPT ![f] = row]
    BY <1>5 DEF Write
  <2> HIDE DEF row
  <2>4. meta'[f] = row /\ \A g \in Feeds \ {f} : meta'[g] = meta[g]
    BY <1>1, <2>3 DEF TypeOK
  <2>5. Held(f)'
    BY <2>1, <2>2, <2>3, <2>4 DEF Held, Usable
  <2>6. CacheInv' /\ Keeps
    BY <1>1, <2>2, <2>3, <2>4, <2>5 DEF CacheInv, Held, NeverHeld, Usable, Keeps
  <2>7. meta' \in [Feeds -> Rows]
    BY <1>1, <2>2, <2>3, RowsAreRows DEF TypeOK
  <2> QED  BY <1>1, <2>2, <2>3, <2>4, <2>6, <2>7 DEF TypeOK
<1> QED  BY <1>3, <1>4, <1>5 DEF Write

\* Every step keeps what is held.
LEMMA StepKeeps ==
  ASSUME FInv, [Next]_vars
  PROVE  /\ CacheInv' /\ Keeps
         /\ cache' \in [Feeds -> UNION {Catalogues(g) : g \in Feeds}]
         /\ meta' \in [Feeds -> Rows]
         /\ \A g \in Feeds : cache'[g] \in Catalogues(g) /\ meta'[g] \in Row(g) \cup {None}
<1>1. CASE UNCHANGED <<cache, meta>>
  BY <1>1 DEF FInv, TypeOK, CacheInv, Held, NeverHeld, Usable, Keeps
<1>2. CASE \E r \in Refreshers, f \in Feeds : Write(r, f)
  BY <1>2, WriteHolds
<1> QED
  BY <1>1, <1>2
    DEF Next, vars, RefreshStep, Download, Load, Count, SkipReapply, ReadIntel, ReadFindings,
        Reapply, GiveUp, Enrich, SaveFindings, ScanFails, Stop

-----------------------------------------------------------------------------
(* Types.                                                                  *)

\* What a step must leave of the refreshes and of the rest.
RefreshType ==
  /\ refresh \in [Refreshers -> Refresh]
  /\ \A r \in Refreshers, f \in Feeds : refresh[r].pulled[f] \in Catalogues(f) \cup {None}
RestType ==
  /\ findings \in Findings
  /\ scan \in [Scans -> Scan]

LEMMA NoRefreshIsRefresh ==
  NoRefresh \in Refresh /\ \A f \in Feeds : NoRefresh.pulled[f] = None
<1>1. "idle" \in At /\ None \in Rows /\ "failed" \in Verdicts
  BY DEF At, Rows, Verdicts
<1>2. [f \in Feeds |-> None] \in Pulled /\ [c \in Cves |-> None] \in Findings
  BY DEF Pulled, Findings
<1> QED  BY <1>1, <1>2, NoMapsIsIntel DEF NoRefresh, Refresh

LEMMA NoScanIsScan == NoScan \in Scan
BY NoMapsIsIntel DEF NoScan, Scan

\* One refresh ends, or gives up.
LEMMA ResetTyped ==
  ASSUME TypeOK, NEW r \in Refreshers, refresh' = [refresh EXCEPT ![r] = NoRefresh]
  PROVE  RefreshType'
BY NoRefreshIsRefresh DEF TypeOK, RefreshType

LEMMA RefreshTyped ==
  ASSUME FInv, [Next]_vars
  PROVE  RefreshType'
<1>1. TypeOK /\ CacheInv
  BY DEF FInv
<1>2. ASSUME NEW r \in Refreshers, Download(r)
      PROVE  RefreshType'
  <2>1. PICK pulled \in [Feeds -> {Empty, None} \cup UNION {Published[f] : f \in Feeds}] :
          /\ \A f \in Feeds : pulled[f] \in Catalogues(f) \cup {None}
          /\ refresh' = [refresh EXCEPT ![r] =
               [NoRefresh EXCEPT !.at = "next", !.pulled = pulled, !.todo = Feeds]]
    BY <1>2 DEF Download
  <2>2. \A f \in Feeds : pulled[f] \in {None} \cup UNION {Catalogues(g) : g \in Feeds}
    BY <2>1
  <2>3. pulled \in Pulled /\ "next" \in At
    BY <2>1, <2>2 DEF Pulled, At
  <2>4. [NoRefresh EXCEPT !.at = "next", !.pulled = pulled, !.todo = Feeds] \in Refresh
    BY <2>3, NoRefreshIsRefresh DEF Refresh
  <2>5. [NoRefresh EXCEPT !.at = "next", !.pulled = pulled, !.todo = Feeds].pulled = pulled
    BY NoRefreshIsRefresh DEF Refresh
  <2> QED  BY <1>1, <2>1, <2>4, <2>5 DEF RefreshType, TypeOK
<1>3. ASSUME NEW r \in Refreshers, NEW f \in Feeds, Load(r, f)
      PROVE  RefreshType'
  <2> DEFINE new == [refresh[r] EXCEPT !.at = f, !.todo = @ \ {f}, !.loaded = meta[f],
                                       !.verdict = Verdict(f, refresh[r].pulled[f])]
  <2>1. refresh' = [refresh EXCEPT ![r] = new]
    BY <1>1, <1>3 DEF Load, TypeOK
  <2>2. Verdict(f, refresh[r].pulled[f]) \in Verdicts
    BY DEF Verdict, Verdicts
  <2>3. refresh[r] \in Refresh /\ f \in At /\ meta[f] \in Rows
    BY <1>1, RowsAreRows DEF TypeOK, At
  <2>4. new \in Refresh /\ new.pulled = refresh[r].pulled
    BY <2>2, <2>3 DEF Refresh
  <2> QED  BY <1>1, <2>1, <2>4 DEF RefreshType, TypeOK
<1>4. ASSUME NEW r \in Refreshers, NEW f \in Feeds, Write(r, f)
      PROVE  RefreshType'
  <2> DEFINE new == [refresh[r] EXCEPT !.at = "next", !.loaded = None,
                       !.pulled = [refresh[r].pulled EXCEPT ![f] = None],
                       !.verdict = "failed", !.count = 0,
                       !.changed = refresh[r].changed \/ refresh[r].verdict # "unchanged"]
  <2>1. refresh[r] \in Refresh /\ refresh[r].pulled \in Pulled
    BY <1>1 DEF TypeOK, Refresh
  <2>2. [refresh[r].pulled EXCEPT ![f] = None] \in Pulled
        /\ "next" \in At /\ None \in Rows /\ "failed" \in Verdicts
    BY <2>1 DEF Pulled, At, Rows, Verdicts
  <2>3. refresh' = [refresh EXCEPT ![r] = new]
    BY <1>1, <1>4, <2>1 DEF Write, TypeOK, Refresh
  <2>4. (refresh[r].changed \/ refresh[r].verdict # "unchanged") \in BOOLEAN
    OBVIOUS
  <2>5. new \in Refresh /\ new.pulled = [refresh[r].pulled EXCEPT ![f] = None]
    BY <2>1, <2>2, <2>4 DEF Refresh
  <2>6. \A g \in Feeds : new.pulled[g] \in Catalogues(g) \cup {None}
    BY <1>1, <2>1, <2>5 DEF TypeOK, Pulled
  <2> QED  BY <1>1, <2>3, <2>5, <2>6 DEF RefreshType, TypeOK
<1>5. ASSUME NEW r \in Refreshers, SkipReapply(r) \/ Reapply(r) \/ GiveUp(r)
      PROVE  RefreshType'
  BY <1>1, <1>5, ResetTyped DEF SkipReapply, Reapply, GiveUp
<1>6. ASSUME NEW r \in Refreshers, ReadIntel(r)
      PROVE  RefreshType'
  <2> DEFINE new == [NoRefresh EXCEPT !.at = "read", !.intel = Lookup(Stored)]
  <2>1. Lookup(Stored) \in Intel
    BY <1>1, LookupIsHeld DEF Stored
  <2>2. new \in Refresh /\ new.pulled = NoRefresh.pulled
    BY <2>1, NoRefreshIsRefresh DEF Refresh, At
  <2>3. refresh' = [refresh EXCEPT ![r] = NoRefresh] \/ refresh' = [refresh EXCEPT ![r] = new]
    BY <1>6 DEF ReadIntel
  <2> QED  BY <1>1, <2>2, <2>3, ResetTyped, NoRefreshIsRefresh DEF RefreshType, TypeOK
<1>7. ASSUME NEW r \in Refreshers, ReadFindings(r)
      PROVE  RefreshType'
  <2> DEFINE new == [refresh[r] EXCEPT !.at = "reapply", !.seen = findings]
  <2>1. refresh' = [refresh EXCEPT ![r] = new]
    BY <1>1, <1>7 DEF ReadFindings, TypeOK
  <2>2. new \in Refresh /\ new.pulled = refresh[r].pulled
    BY <1>1 DEF TypeOK, Refresh, At
  <2> QED  BY <1>1, <2>1, <2>2 DEF RefreshType, TypeOK
<1>8. ASSUME NEW s \in Scans, NEW partial \in BOOLEAN, SaveFindings(s, partial)
      PROVE  RefreshType'
  <2> DEFINE rewritten == IF partial THEN scan[s].found ELSE Cves
             new(r) == [refresh[r] EXCEPT !.stale = @ \cup rewritten]
  <2>1. rewritten \in SUBSET Cves
    BY <1>1, FeedsAssumption DEF TypeOK, Scan
  <2>2. ASSUME NEW r \in Refreshers
        PROVE  new(r) \in Refresh /\ new(r).pulled = refresh[r].pulled
    <3>1. refresh[r] \in Refresh /\ refresh[r].stale \cup rewritten \in SUBSET Cves
      BY <1>1, <2>1 DEF TypeOK, Refresh
    <3> HIDE DEF rewritten
    <3> QED  BY <3>1 DEF Refresh
  <2>3. refresh' = [r \in Refreshers |-> IF refresh[r].at = "reapply" THEN new(r) ELSE refresh[r]]
    BY <1>8 DEF SaveFindings
  <2> QED  BY <1>1, <2>2, <2>3 DEF RefreshType, TypeOK
<1>9. CASE Stop
  BY <1>9, NoRefreshIsRefresh DEF Stop, RefreshType
<1>10. CASE UNCHANGED refresh
  BY <1>1, <1>10 DEF RefreshType, TypeOK
<1>11. ASSUME NEW r \in Refreshers, NEW f \in Feeds, Count(r, f)
       PROVE  RefreshType'
  <2> DEFINE verdict == IF cache[f] = Empty THEN "replace" ELSE "unchanged"
             new == [refresh[r] EXCEPT !.verdict = verdict, !.count = Cardinality(DOMAIN cache[f])]
  <2>1. refresh' = [refresh EXCEPT ![r] = new]
    BY <1>1, <1>11 DEF Count, TypeOK
  <2>2. refresh[r] \in Refresh /\ verdict \in Verdicts /\ Cardinality(DOMAIN cache[f]) \in Nat
    BY <1>1, Cached DEF TypeOK, Verdicts
  <2> HIDE DEF verdict
  <2>3. new \in Refresh /\ new.pulled = refresh[r].pulled
    BY <2>2 DEF Refresh
  <2> QED  BY <1>1, <2>1, <2>3 DEF RefreshType, TypeOK
<1> QED
  BY <1>2, <1>3, <1>4, <1>5, <1>6, <1>7, <1>8, <1>9, <1>10, <1>11
    DEF Next, vars, RefreshStep, Enrich, ScanFails

\* What a reapply writes over is there, and stays a finding.
Written(r, c) ==
  [f \in Feeds |-> Sent(refresh[r].seen[c][f], findings[c][f], Reapplied(r, c)[f])]

LEMMA ReappliedIsFinding ==
  ASSUME TypeOK, SeenInv, NEW r \in Refreshers, Reapply(r)
  PROVE  /\ \A c \in Touched(r) : findings[c] # None /\ Written(r, c) \in Finding
         /\ findings' = [c \in Cves |-> IF c \in Touched(r) THEN Written(r, c) ELSE findings[c]]
<1>1. ASSUME NEW c \in Touched(r)
      PROVE  findings[c] # None /\ Written(r, c) \in Finding
  <2>1. c \in Cves /\ refresh[r].seen[c] # None /\ c \notin refresh[r].stale
    BY <1>1 DEF Touched, Reapply
  <2>2. findings[c] # None
    BY <2>1 DEF SeenInv, Reapply
  <2>3. findings[c] \in Finding /\ refresh[r].seen[c] \in Finding /\ refresh[r].intel \in Intel
    BY <2>1, <2>2 DEF TypeOK, Refresh, Findings
  <2>4. Reapplied(r, c) \in Finding
    BY <2>1, <2>3, EnrichedIsFinding DEF Reapplied
  <2> QED  BY <2>2, <2>3, <2>4 DEF Written, Sent, Finding
<1> QED  BY <1>1 DEF Reapply, Written

\* A refresh leaves the scans alone, and the findings until it reapplies.
LEMMA RefreshTouches ==
  ASSUME NEW r \in Refreshers, RefreshStep(r)
  PROVE  UNCHANGED scan /\ (Reapply(r) \/ UNCHANGED findings)
<1>1. ASSUME NEW f \in Feeds, Load(r, f) \/ Count(r, f) \/ Write(r, f)
      PROVE  UNCHANGED <<findings, scan>>
  BY <1>1 DEF Load, Count, Write
<1>2. ASSUME Download(r) \/ SkipReapply(r) \/ ReadIntel(r) \/ ReadFindings(r) \/ GiveUp(r)
      PROVE  UNCHANGED <<findings, scan>>
  BY <1>2 DEF Download, SkipReapply, ReadIntel, ReadFindings, GiveUp
<1>3. Reapply(r) => UNCHANGED scan
  BY DEF Reapply
<1> QED  BY <1>1, <1>2, <1>3 DEF RefreshStep

LEMMA RestTyped ==
  ASSUME FInv, [Next]_vars
  PROVE  RestType'
<1>1. TypeOK /\ CacheInv /\ SeenInv
  BY DEF FInv
<1>2. ASSUME NEW r \in Refreshers, Reapply(r)
      PROVE  RestType'
  BY <1>1, <1>2, ReappliedIsFinding DEF Reapply, RestType, TypeOK, Findings
<1>3. ASSUME NEW s \in Scans, NEW partial \in BOOLEAN, SaveFindings(s, partial)
      PROVE  RestType'
  <2>1. scan[s].intel \in Intel /\ scan[s].found \subseteq Cves
    BY <1>1, FeedsAssumption DEF TypeOK, Scan
  <2>2. \A c \in Cves : Enriched(scan[s].intel, c, Unenriched) \in Finding
    BY <2>1, EnrichedIsFinding, UnenrichedIsFinding
  <2> QED  BY <1>1, <1>3, <2>2, NoScanIsScan DEF SaveFindings, RestType, TypeOK, Findings
<1>4. ASSUME NEW s \in Scans, NEW found \in SUBSET Matched, Enrich(s, found)
      PROVE  RestType'
  <2>1. Lookup(found) \in Intel
    BY <1>1, LookupIsHeld, FeedsAssumption
  <2>2. PICK intel \in {Lookup(found), NoMaps} :
          scan' = [scan EXCEPT ![s] = [at |-> "save", found |-> found, intel |-> intel]]
    BY <1>4 DEF Enrich
  <2>3. [at |-> "save", found |-> found, intel |-> intel] \in Scan
    BY <2>1, <2>2, NoMapsIsIntel DEF Scan
  <2> QED  BY <1>1, <1>4, <2>2, <2>3 DEF Enrich, RestType, TypeOK
<1>5. ASSUME NEW s \in Scans, ScanFails(s)
      PROVE  RestType'
  BY <1>1, <1>5, NoScanIsScan DEF ScanFails, RestType, TypeOK
<1>6. CASE Stop
  BY <1>1, <1>6, NoScanIsScan DEF Stop, RestType, TypeOK
<1>7. CASE UNCHANGED <<findings, scan>>
  BY <1>1, <1>7 DEF RestType, TypeOK
<1> QED
  BY <1>2, <1>3, <1>4, <1>5, <1>6, <1>7, RefreshTouches DEF Next, vars

LEMMA TypePreserved ==
  ASSUME FInv, [Next]_vars
  PROVE  TypeOK'
BY StepKeeps, RefreshTyped, RestTyped DEF TypeOK, RefreshType, RestType

-----------------------------------------------------------------------------
(* What the refreshes hold.                                                *)

\* What was loaded stays good while others write.
LEMMA LoadedStays ==
  ASSUME FInv, [Next]_vars, NEW r \in Refreshers, NEW f \in Feeds,
         refresh[r].at = f,
         refresh'[r].loaded = refresh[r].loaded, refresh'[r].verdict = refresh[r].verdict,
         refresh'[r].pulled[f] = refresh[r].pulled[f], refresh'[r].count = refresh[r].count
  PROVE  LoadedInv(r, f)'
<1>1. LoadedInv(r, f) /\ Keeps
  BY StepKeeps DEF FInv, WriteInv
<1> QED  BY <1>1 DEF LoadedInv, Keeps

\* What is loaded is of a feed that is held, or never was.
LEMMA LoadLoads ==
  ASSUME FInv, NEW r \in Refreshers, NEW f \in Feeds, Load(r, f)
  PROVE  LoadedInv(r, f)'
<1> DEFINE pulled == refresh[r].pulled[f]
<1>1. TypeOK /\ CacheInv /\ UNCHANGED <<cache, meta>>
  BY DEF FInv, Load
<1>2. refresh[r] \in Refresh /\ pulled \in Catalogues(f) \cup {None} /\ meta[f] \in Row(f) \cup {None}
  BY <1>1 DEF TypeOK
<1>3. /\ refresh'[r].loaded = meta[f] /\ refresh'[r].verdict = Verdict(f, pulled)
      /\ refresh'[r].pulled = refresh[r].pulled
  BY <1>1, <1>2 DEF Load, TypeOK, Refresh
<1>4. Verdict(f, pulled) \in {"failed", "matches", "replace"}
  BY DEF Verdict
<1>5. Verdict(f, pulled) # "failed" => pulled \in Published[f] /\ pulled # None
  BY <1>2, Answers DEF Verdict
<1>6. Verdict(f, pulled) = "matches" => meta[f] # None /\ meta[f].digest = pulled
  BY DEF Verdict
<1>7. Verdict(f, pulled) = "matches" => Held(f) /\ meta[f].count > 0
  BY <1>1, <1>5, <1>6 DEF CacheInv, Held, NeverHeld, Usable
<1> QED  BY <1>1, <1>2, <1>3, <1>4, <1>5, <1>6, <1>7 DEF LoadedInv, Held, Usable

\* What is counted is what is held.
LEMMA CountCounts ==
  ASSUME FInv, NEW r \in Refreshers, NEW f \in Feeds, Count(r, f)
  PROVE  LoadedInv(r, f)'
<1>1. TypeOK /\ UNCHANGED <<cache, meta>> /\ LoadedInv(r, f) /\ refresh[r].verdict = "matches"
  BY DEF FInv, WriteInv, Count
<1>2. refresh[r] \in Refresh
  BY <1>1 DEF TypeOK
<1>3. cache[f] \in Published[f] /\ cache[f] # Empty
  BY <1>1, Answers DEF LoadedInv, Held, Catalogues
<1>4. /\ refresh'[r].loaded = refresh[r].loaded /\ refresh'[r].pulled = refresh[r].pulled
      /\ refresh'[r].verdict = "unchanged" /\ refresh'[r].count = Cardinality(DOMAIN cache[f])
  BY <1>1, <1>2, <1>3 DEF Count, TypeOK, Refresh
<1> QED  BY <1>1, <1>3, <1>4, Counted DEF LoadedInv, Held, Usable

\* A refresh leaves the others alone.
LEMMA OthersStay ==
  ASSUME TypeOK, NEW r \in Refreshers, RefreshStep(r), NEW q \in Refreshers \ {r}
  PROVE  refresh'[q] = refresh[q]
<1>1. ASSUME Download(r) \/ SkipReapply(r) \/ Reapply(r) \/ GiveUp(r)
      PROVE  refresh'[q] = refresh[q]
  BY <1>1 DEF Download, SkipReapply, Reapply, GiveUp, TypeOK
<1>2. ASSUME ReadIntel(r)
      PROVE  refresh'[q] = refresh[q]
  BY <1>2 DEF ReadIntel, TypeOK
<1>3. ASSUME ReadFindings(r)
      PROVE  refresh'[q] = refresh[q]
  BY <1>3 DEF ReadFindings, TypeOK
<1>4. ASSUME NEW f \in Feeds, Load(r, f) \/ Count(r, f) \/ Write(r, f)
      PROVE  refresh'[q] = refresh[q]
  BY <1>4 DEF Load, Count, Write, TypeOK
<1> QED  BY <1>1, <1>2, <1>3, <1>4 DEF RefreshStep

LEMMA WriteInvKept ==
  ASSUME FInv, [Next]_vars
  PROVE  WriteInv'
<1>1. TypeOK /\ {"idle", "next", "read", "reapply"} \cap Feeds = {}
  BY FeedsAssumption DEF FInv
<1>2. SUFFICES ASSUME NEW r \in Refreshers, NEW f \in Feeds, refresh'[r].at = f
               PROVE  LoadedInv(r, f)'
  BY DEF WriteInv
<1>3. CASE refresh'[r] = refresh[r]
  BY <1>2, <1>3, LoadedStays
<1>4. CASE \E q \in Refreshers \ {r} : RefreshStep(q)
  BY <1>1, <1>3, <1>4, OthersStay
<1>5. CASE \E g \in Feeds : Load(r, g)
  <2>1. PICK g \in Feeds : Load(r, g)
    BY <1>5
  <2>2. refresh'[r].at = g
    BY <1>1, <2>1 DEF Load, TypeOK, Refresh
  <2> QED  BY <1>2, <2>1, <2>2, LoadLoads
<1>6. CASE \E g \in Feeds : Write(r, g)
  <2>1. refresh'[r].at = "next"
    BY <1>1, <1>6 DEF Write, TypeOK, Refresh
  <2> QED  BY <1>1, <1>2, <2>1
<1>7. CASE Download(r)
  <2>1. refresh'[r].at = "next"
    BY <1>1, <1>7 DEF Download, TypeOK, NoRefresh
  <2> QED  BY <1>1, <1>2, <2>1
<1>8. CASE SkipReapply(r) \/ ReadIntel(r) \/ Reapply(r) \/ GiveUp(r)
  <2>1. CASE SkipReapply(r) \/ Reapply(r) \/ GiveUp(r)
    <3>1. refresh'[r] = NoRefresh
      BY <1>1, <2>1 DEF SkipReapply, Reapply, GiveUp, TypeOK
    <3> QED  BY <1>1, <1>2, <3>1 DEF NoRefresh
  <2>2. CASE ReadIntel(r)
    <3>1. \/ refresh'[r] = NoRefresh
          \/ refresh'[r] = [NoRefresh EXCEPT !.at = "read", !.intel = Lookup(Stored)]
      BY <1>1, <2>2 DEF ReadIntel, TypeOK
    <3>2. NoRefresh.at = "idle" /\ [NoRefresh EXCEPT !.at = "read", !.intel = Lookup(Stored)].at = "read"
      BY DEF NoRefresh
    <3> QED  BY <1>1, <1>2, <3>1, <3>2
  <2> QED  BY <1>8, <2>1, <2>2
<1>9. CASE ReadFindings(r)
  <2>1. refresh'[r].at = "reapply"
    BY <1>1, <1>9 DEF ReadFindings, TypeOK, Refresh
  <2> QED  BY <1>1, <1>2, <2>1
<1>10. CASE \E s \in Scans, partial \in BOOLEAN : SaveFindings(s, partial)
  <2>1. \/ refresh[r].at # "reapply" /\ refresh'[r] = refresh[r]
        \/ refresh[r].at = "reapply" /\ refresh'[r].at = "reapply"
    BY <1>1, <1>10 DEF SaveFindings, TypeOK, Refresh
  <2> QED  BY <1>1, <1>2, <1>3, <2>1
<1>11. CASE Stop
  <2>1. refresh'[r].at = "idle"
    BY <1>11 DEF Stop, NoRefresh
  <2> QED  BY <1>1, <1>2, <2>1
<1>12. CASE \E g \in Feeds : Count(r, g)
  <2>1. PICK g \in Feeds : Count(r, g)
    BY <1>12
  <2>2. refresh'[r].at = g
    BY <1>1, <2>1 DEF Count, TypeOK, Refresh
  <2> QED  BY <1>2, <2>1, <2>2, CountCounts
<1> QED
  BY <1>3, <1>4, <1>5, <1>6, <1>7, <1>8, <1>9, <1>10, <1>11, <1>12
    DEF Next, vars, RefreshStep, Enrich, ScanFails

-----------------------------------------------------------------------------
(* What refreshes and scans hold of a feed, and of the findings.           *)

\* What is known of the feeds is kept, dropped, or looked up.
LEMMA IntelStep ==
  ASSUME FInv, [Next]_vars
  PROVE  /\ \A r \in Refreshers :
              \/ refresh'[r].intel = refresh[r].intel
              \/ refresh'[r].intel = NoMaps
              \/ refresh'[r].intel = Lookup(Stored)
         /\ \A s \in Scans :
              \/ scan'[s].intel = scan[s].intel
              \/ scan'[s].intel = NoMaps
              \/ \E ids \in SUBSET Cves : scan'[s].intel = Lookup(ids)
<1>1. TypeOK /\ Matched \subseteq Cves
  BY FeedsAssumption DEF FInv
<1>2. ASSUME NEW r \in Refreshers
      PROVE  \/ refresh'[r].intel = refresh[r].intel
             \/ refresh'[r].intel = NoMaps
             \/ refresh'[r].intel = Lookup(Stored)
  <2>1. CASE refresh'[r] = refresh[r]
    BY <2>1
  <2>2. CASE \E q \in Refreshers \ {r} : RefreshStep(q)
    BY <1>1, <2>1, <2>2, OthersStay
  <2>3. CASE SkipReapply(r) \/ Reapply(r) \/ GiveUp(r)
    <3>1. refresh'[r] = NoRefresh
      BY <1>1, <2>3 DEF SkipReapply, Reapply, GiveUp, TypeOK
    <3> QED  BY <3>1 DEF NoRefresh
  <2>4. CASE Download(r)
    BY <1>1, <2>4 DEF Download, TypeOK, NoRefresh
  <2>5. CASE ReadIntel(r)
    <3>1. \/ refresh'[r] = NoRefresh
          \/ refresh'[r] = [NoRefresh EXCEPT !.at = "read", !.intel = Lookup(Stored)]
      BY <1>1, <2>5 DEF ReadIntel, TypeOK
    <3>2. NoRefresh.intel = NoMaps
          /\ [NoRefresh EXCEPT !.at = "read", !.intel = Lookup(Stored)].intel = Lookup(Stored)
      BY DEF NoRefresh
    <3> QED  BY <3>1, <3>2
  <2>6. CASE ReadFindings(r)
    BY <1>1, <2>6 DEF ReadFindings, TypeOK, Refresh
  <2>7. CASE \E f \in Feeds : Load(r, f) \/ Count(r, f) \/ Write(r, f)
    BY <1>1, <2>7 DEF Load, Count, Write, TypeOK, Refresh
  <2>8. CASE \E s \in Scans, partial \in BOOLEAN : SaveFindings(s, partial)
    BY <1>1, <2>8 DEF SaveFindings, TypeOK, Refresh
  <2>9. CASE Stop
    BY <2>9 DEF Stop, NoRefresh
  <2>10. CASE UNCHANGED refresh
    BY <2>10
  <2> QED
    BY <2>2, <2>3, <2>4, <2>5, <2>6, <2>7, <2>8, <2>9, <2>10
      DEF Next, vars, RefreshStep, Enrich, ScanFails
<1>3. ASSUME NEW s \in Scans
      PROVE  \/ scan'[s].intel = scan[s].intel
             \/ scan'[s].intel = NoMaps
             \/ \E ids \in SUBSET Cves : scan'[s].intel = Lookup(ids)
  <2>1. CASE UNCHANGED scan
    BY <2>1
  <2>2. CASE Stop
    BY <2>2 DEF Stop, NoScan
  <2>3. ASSUME NEW t \in Scans,
               ScanFails(t) \/ \E partial \in BOOLEAN : SaveFindings(t, partial)
        PROVE  scan'[s].intel = scan[s].intel \/ scan'[s].intel = NoMaps
    BY <1>1, <2>3 DEF ScanFails, SaveFindings, NoScan, TypeOK
  <2>4. ASSUME NEW t \in Scans, NEW found \in SUBSET Matched, Enrich(t, found)
        PROVE  scan'[s].intel \in {scan[s].intel, NoMaps, Lookup(found)}
    <3>1. PICK intel \in {Lookup(found), NoMaps} :
            scan' = [scan EXCEPT ![t] = [at |-> "save", found |-> found, intel |-> intel]]
      BY <2>4 DEF Enrich
    <3> QED  BY <1>1, <3>1 DEF TypeOK
  <2>5. CASE \E r \in Refreshers : RefreshStep(r)
    BY <2>1, <2>5, RefreshTouches
  <2>6. CASE \E t \in Scans : \E found \in SUBSET Matched : Enrich(t, found)
    BY <1>1, <2>4, <2>6
  <2> QED  BY <2>1, <2>2, <2>3, <2>5, <2>6 DEF Next, vars
<1> QED  BY <1>2, <1>3

LEMMA IntelInvKept ==
  ASSUME FInv, [Next]_vars
  PROVE  IntelInv'
<1>1. TypeOK /\ CacheInv /\ IntelInv /\ Keeps
  BY StepKeeps DEF FInv
<1>2. ASSUME NEW ids \in SUBSET Cves, NEW f \in Lookup(ids).usable
      PROVE  Held(f)'
  BY <1>1, LookupIsHeld DEF Keeps
<1>3. Stored \in SUBSET Cves
  BY DEF Stored
<1>4. ASSUME NEW r \in Refreshers, NEW f \in refresh'[r].intel.usable
      PROVE  Held(f)'
  <2>1. refresh[r].intel.usable \subseteq Feeds
    BY <1>1 DEF TypeOK, Refresh, Intel
  <2>2. CASE refresh'[r].intel = refresh[r].intel
    BY <1>1, <1>4, <2>1, <2>2 DEF IntelInv, Keeps
  <2>3. CASE refresh'[r].intel = NoMaps
    BY <1>4, <2>3, NoMapsIsIntel
  <2>4. CASE refresh'[r].intel = Lookup(Stored)
    BY <1>2, <1>3, <1>4, <2>4
  <2> QED  BY <2>2, <2>3, <2>4, IntelStep
<1>5. ASSUME NEW s \in Scans, NEW f \in scan'[s].intel.usable
      PROVE  Held(f)'
  <2>1. scan[s].intel.usable \subseteq Feeds
    BY <1>1 DEF TypeOK, Scan, Intel
  <2>2. CASE scan'[s].intel = scan[s].intel
    BY <1>1, <1>5, <2>1, <2>2 DEF IntelInv, Keeps
  <2>3. CASE scan'[s].intel = NoMaps
    BY <1>5, <2>3, NoMapsIsIntel
  <2>4. CASE \E ids \in SUBSET Cves : scan'[s].intel = Lookup(ids)
    BY <1>2, <1>5, <2>4
  <2> QED  BY <2>2, <2>3, <2>4, IntelStep
<1> QED  BY <1>4, <1>5 DEF IntelInv

\* A finding that was read and not rewritten since is still there.
LEMMA SeenInvKept ==
  ASSUME FInv, [Next]_vars
  PROVE  SeenInv'
<1>1. TypeOK /\ SeenInv /\ None \notin Finding
  BY FeedsAssumption DEF FInv, Finding
<1>2. SUFFICES ASSUME NEW r \in Refreshers, refresh'[r].at = "reapply",
                      NEW c \in Cves \ refresh'[r].stale, refresh'[r].seen[c] # None
               PROVE  findings'[c] # None
  BY DEF SeenInv
<1>3. CASE refresh'[r] = refresh[r] /\ UNCHANGED findings
  BY <1>1, <1>2, <1>3 DEF SeenInv
<1>4. ASSUME NEW q \in Refreshers, Reapply(q)
      PROVE  findings'[c] # None
  <2>1. findings[c] # None => findings'[c] # None
    BY <1>1, <1>4, ReappliedIsFinding
  <2>2. CASE q = r
    <3>1. refresh'[r].at = "idle"
      BY <1>1, <1>4, <2>2 DEF Reapply, TypeOK, NoRefresh
    <3> QED  BY <1>2, <3>1
  <2>3. CASE q # r
    <3>1. refresh'[r] = refresh[r]
      BY <1>1, <1>4, <2>3 DEF Reapply, TypeOK
    <3> QED  BY <1>1, <1>2, <2>1, <3>1 DEF SeenInv
  <2> QED  BY <2>2, <2>3
<1>5. CASE \E q \in Refreshers \ {r} : RefreshStep(q) /\ UNCHANGED findings
  BY <1>1, <1>3, <1>5, OthersStay
<1>6. CASE ReadFindings(r)
  <2>1. refresh'[r].seen = findings /\ UNCHANGED findings
    BY <1>1, <1>6 DEF ReadFindings, TypeOK, Refresh
  <2> QED  BY <1>2, <2>1
<1>7. CASE Download(r) \/ SkipReapply(r) \/ GiveUp(r) \/ ReadIntel(r)
  <2>1. \/ refresh'[r] = NoRefresh
        \/ refresh'[r] = [NoRefresh EXCEPT !.at = "read", !.intel = Lookup(Stored)]
        \/ \E pulled : refresh'[r] = [NoRefresh EXCEPT !.at = "next", !.pulled = pulled, !.todo = Feeds]
    <3>1. CASE Download(r)
      BY <1>1, <3>1 DEF Download, TypeOK
    <3>2. CASE SkipReapply(r) \/ GiveUp(r)
      BY <1>1, <3>2 DEF SkipReapply, GiveUp, TypeOK
    <3>3. CASE ReadIntel(r)
      BY <1>1, <3>3 DEF ReadIntel, TypeOK
    <3> QED  BY <1>7, <3>1, <3>2, <3>3
  <2>2. /\ NoRefresh.at = "idle"
        /\ [NoRefresh EXCEPT !.at = "read", !.intel = Lookup(Stored)].at = "read"
        /\ \A pulled : [NoRefresh EXCEPT !.at = "next", !.pulled = pulled, !.todo = Feeds].at = "next"
    BY DEF NoRefresh
  <2> QED  BY <1>2, <2>1, <2>2
<1>8. ASSUME NEW f \in Feeds, Load(r, f) \/ Count(r, f) \/ Write(r, f)
      PROVE  FALSE
  <2>1. refresh'[r].at \in {f, "next"}
    BY <1>1, <1>8 DEF Load, Count, Write, TypeOK, Refresh
  <2> QED  BY <1>2, <2>1, FeedsAssumption
<1>9. ASSUME NEW s \in Scans, NEW partial \in BOOLEAN, SaveFindings(s, partial)
      PROVE  findings'[c] # None
  <2> DEFINE rewritten == IF partial THEN scan[s].found ELSE Cves
  <2>1. refresh'[r].seen = refresh[r].seen /\ refresh'[r].stale = refresh[r].stale \cup rewritten
        /\ refresh[r].at = "reapply"
    BY <1>1, <1>2, <1>9 DEF SaveFindings, TypeOK, Refresh
  <2>2. findings[c] # None
    BY <1>1, <1>2, <2>1 DEF SeenInv
  <2>3. partial /\ c \notin scan[s].found
    BY <1>2, <2>1
  <2> QED  BY <1>9, <2>2, <2>3 DEF SaveFindings
<1>10. CASE Stop
  <2>1. refresh'[r].at = "idle"
    BY <1>10 DEF Stop, NoRefresh
  <2> QED  BY <1>2, <2>1
<1>11. CASE \E q \in Refreshers : RefreshStep(q)
  <2>1. PICK q \in Refreshers : RefreshStep(q)
    BY <1>11
  <2>2. Reapply(q) \/ UNCHANGED findings
    BY <2>1, RefreshTouches
  <2>3. CASE q # r
    BY <1>4, <1>5, <2>1, <2>2, <2>3
  <2>4. CASE q = r
    BY <1>4, <1>6, <1>7, <1>8, <2>1, <2>4 DEF RefreshStep
  <2> QED  BY <2>3, <2>4
<1>12. CASE UNCHANGED <<refresh, findings>>
  BY <1>3, <1>12
<1> QED
  BY <1>9, <1>10, <1>11, <1>12 DEF Next, vars, Enrich, ScanFails

\* What enriching changes is of a feed that is held.
LEMMA EnrichedStates ==
  ASSUME NEW intel, NEW c, NEW now, NEW f \in Feeds, Enriched(intel, c, now)[f] # now[f]
  PROVE  f \in intel.usable
BY DEF Enriched

LEMMA StatedIsHeldKept ==
  ASSUME FInv, [Next]_vars
  PROVE  StatedIsHeld'
<1>1. TypeOK /\ CacheInv /\ IntelInv /\ SeenInv /\ StatedIsHeld /\ Keeps /\ CacheInv'
  BY StepKeeps DEF FInv
<1>2. SUFFICES ASSUME NEW c \in Cves, NEW f \in Feeds, findings'[c] # None, findings'[c][f] # None
               PROVE  Held(f)
  <2>1. ASSUME NEW f \in Feeds, Held(f)
        PROVE  Usable(f)' /\ cache'[f] # Empty
    BY <1>1, <2>1, Answers DEF Keeps, Held, Usable
  <2> QED  BY <2>1 DEF StatedIsHeld, Stored
<1>3. CASE findings'[c] = findings[c]
  BY <1>1, <1>2, <1>3, UsableIsHeld DEF StatedIsHeld, Stored
<1>4. ASSUME NEW r \in Refreshers, Reapply(r), c \in Touched(r)
      PROVE  Held(f)
  <2>1. findings[c] # None /\ findings'[c] = Written(r, c)
    BY <1>1, <1>4, ReappliedIsFinding
  <2>2. CASE findings[c][f] # None
    BY <1>1, <2>1, <2>2, UsableIsHeld DEF StatedIsHeld, Stored
  <2>3. CASE Reapplied(r, c)[f] # refresh[r].seen[c][f]
    BY <1>1, <2>3, EnrichedStates DEF IntelInv, Reapplied
  <2> QED  BY <1>2, <2>1, <2>2, <2>3 DEF Written, Sent
<1>5. ASSUME NEW s \in Scans, c \in scan[s].found,
             findings'[c] = Enriched(scan[s].intel, c, Unenriched)
      PROVE  Held(f)
  <2>1. Unenriched[f] = None
    BY DEF Unenriched
  <2> QED  BY <1>1, <1>2, <1>5, <2>1, EnrichedStates DEF IntelInv
<1>6. ASSUME NEW r \in Refreshers, Reapply(r)
      PROVE  Held(f)
  BY <1>1, <1>3, <1>4, <1>6, ReappliedIsFinding
<1>7. ASSUME NEW s \in Scans, NEW partial \in BOOLEAN, SaveFindings(s, partial)
      PROVE  Held(f)
  BY <1>2, <1>3, <1>5, <1>7 DEF SaveFindings
<1>8. CASE \E r \in Refreshers : RefreshStep(r)
  BY <1>3, <1>6, <1>8, RefreshTouches
<1> QED
  BY <1>3, <1>7, <1>8 DEF Next, vars, Enrich, ScanFails, Stop

-----------------------------------------------------------------------------
(* Theorems.                                                               *)

LEMMA InitInv == Init => FInv
<1> SUFFICES ASSUME Init
             PROVE  FInv
  OBVIOUS
<1>1. cache = [f \in Feeds |-> Empty] /\ meta = [f \in Feeds |-> None]
  BY DEF Init
<1>2. CacheInv
  BY <1>1 DEF CacheInv, NeverHeld
<1>3. TypeOK
  <2>1. cache \in [Feeds -> UNION {Catalogues(f) : f \in Feeds}] /\ meta \in [Feeds -> Rows]
    BY <1>1 DEF Catalogues, Rows
  <2>2. \A f \in Feeds : cache[f] \in Catalogues(f) /\ meta[f] \in Row(f) \cup {None}
    BY <1>1 DEF Catalogues
  <2>3. findings \in Findings
    BY DEF Init, Findings
  <2>4. /\ refresh \in [Refreshers -> Refresh]
        /\ \A r \in Refreshers, f \in Feeds : refresh[r].pulled[f] \in Catalogues(f) \cup {None}
    BY NoRefreshIsRefresh DEF Init
  <2>5. scan \in [Scans -> Scan]
    BY NoScanIsScan DEF Init
  <2> QED  BY <2>1, <2>2, <2>3, <2>4, <2>5 DEF TypeOK
<1>4. /\ \A r \in Refreshers : refresh[r].at = "idle" /\ refresh[r].intel.usable = {}
      /\ \A s \in Scans : scan[s].intel.usable = {}
  BY NoMapsIsIntel DEF Init, NoRefresh, NoScan
<1>5. WriteInv /\ IntelInv /\ SeenInv
  BY <1>4, FeedsAssumption DEF WriteInv, IntelInv, SeenInv
<1>6. StatedIsHeld
  BY DEF Init, StatedIsHeld, Stored
<1> QED  BY <1>2, <1>3, <1>5, <1>6 DEF FInv

LEMMA NextInv == FInv /\ [Next]_vars => FInv'
<1> SUFFICES ASSUME FInv, [Next]_vars
             PROVE  FInv'
  OBVIOUS
<1> QED  BY StepKeeps, TypePreserved, WriteInvKept, IntelInvKept, SeenInvKept, StatedIsHeldKept DEF FInv

\* The inductive invariant: the caches, what each refresh has loaded of them and
\* is about to write, and what is on its way to the findings, agree.
THEOREM FeedInductive == Spec => []FInv
BY InitInv, NextInv, PTL DEF Spec

\* A digest is of the catalogue that is held.
THEOREM DigestSafe == Spec => []DigestIsOfCache
<1>1. FInv => DigestIsOfCache
  BY DEF FInv, CacheInv, Held, NeverHeld, DigestIsOfCache
<1> QED  BY <1>1, FeedInductive, PTL

\* The enrichment invariant: what a finding states is on the authority of a
\* catalogue that the system holds.
THEOREM StatedSafe == Spec => []StatedIsHeld
<1>1. FInv => StatedIsHeld
  BY DEF FInv
<1> QED  BY <1>1, FeedInductive, PTL

\* A feed that could be used can still be used, whatever fails.
THEOREM UsableStays == Spec => StaysUsable
<1>1. FInv /\ [Next]_vars => [\A f \in Feeds : Usable(f) => Usable(f)']_vars
  <2> SUFFICES ASSUME FInv, [Next]_vars
               PROVE  \A f \in Feeds : Usable(f) => Usable(f)'
    OBVIOUS
  <2> QED  BY StepKeeps, UsableIsHeld DEF FInv, Keeps, Held
<1> QED  BY <1>1, FeedInductive, PTL DEF Spec, StaysUsable
=============================================================================
