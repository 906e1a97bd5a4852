--------------------------- MODULE Matching_proofs ---------------------------
(***************************************************************************)
(* Proofs about what makes a finding, each part on its own state.          *)
(*                                                                         *)
(* Advisories: what affects a release is asked for, whatever a machine     *)
(* runs; and whatever is answered, in whatever order, each record is in    *)
(* one finding, which is rated and fixed as its records say.               *)
(* UpstreamBugs: what the upstream feed says of a kernel is what happened  *)
(* to the kernel's sources, for any series and any history of a bug.       *)
(* KernelFeeds: a feed is skipped as unchanged only if it is the table     *)
(* that is stored, for any number of refreshers.  Kernels: a kernel that   *)
(* reads as looked up was, and what a listing counts of one is what was    *)
(* found, for any machine, feed and history.  Cvss: whatever a vector says *)
(* of its metrics, it has a score between 0 and 10 if it can be read.      *)
(***************************************************************************)
EXTENDS Advisories, UpstreamBugs, KernelFeeds, Kernels, Cvss, TLAPS, FiniteSetTheorems, WellFoundedInduction,
  SequenceTheorems

-----------------------------------------------------------------------------
(* The least of some numbers.                                              *)

\* The order of the natural numbers, as the library's theorem has it.
LEMMA NatOrder == ASSUME NEW x \in Nat, NEW y \in Nat PROVE <<x, y>> \in OpToRel(<, Nat) <=> x < y
  BY DEF OpToRel

\* A nonempty set of natural numbers has a least.
LEMMA LeastExists == ASSUME NEW S, S \subseteq Nat, S # {} PROVE \E x \in S : \A y \in S : x <= y
<1>1. \E x \in S : \A y \in S : ~(<<y, x>> \in OpToRel(<, Nat))
  BY NatLessThanWellFounded, WFMin
<1>2. PICK x \in S : \A y \in S : ~(<<y, x>> \in OpToRel(<, Nat)) BY <1>1
<1>3. ASSUME NEW y \in S PROVE x <= y
  <2>1. x \in Nat /\ y \in Nat OBVIOUS
  <2>2. ~(y < x) BY <1>2, <2>1, NatOrder
  <2> QED BY <2>1, <2>2
<1> QED BY <1>3

-----------------------------------------------------------------------------
(* What is asked of OSV.                                                   *)

\* A release that is read off an ecosystem is one of its family.
LEMMA ParsedIs ==
  ASSUME NEW eco, NEW r \in ParseRelease(eco)
  PROVE  r.family = eco.family /\ r.key = eco.key /\ eco.family \in Families /\ eco.form # "bare"
<1>1. r = [family |-> eco.family, key |-> eco.key, subscription |-> (eco.form = "pro")] /\ eco.family \in Families
      /\ eco.form \in {"release", "pro", "repository", "host"}
  BY DEF ParseRelease
<1> QED BY <1>1

\* What a machine takes fixes from.
LEMMA FixesFrom ==
  ASSUME NEW h, NEW r \in HostReleases(h)
  PROVE  \/ r.family = h.family /\ r.key = h.key /\ h.family \in Families /\ h.form # "bare"
         \/ r.family = "Red Hat" /\ h.family \in {"AlmaLinux", "Rocky Linux"}
         \/ r.family \in {"AlmaLinux", "Rocky Linux", "Red Hat"} /\ h.family = "Oracle Linux"
<1>1. CASE h.form = "release" /\ h.family \in {"AlmaLinux", "Rocky Linux"}
  <2>1. HostReleases(h) = {Release(f, h.key) : f \in {h.family, "Red Hat"}} BY <1>1 DEF HostReleases
  <2>2. PICK f \in {h.family, "Red Hat"} : r = Release(f, h.key) BY <2>1
  <2>3. r.family = f /\ r.key = h.key BY <2>2 DEF Release
  <2> QED BY <1>1, <2>3 DEF Families
<1>2. CASE h.form = "release" /\ h.family = "Oracle Linux"
  <2>1. HostReleases(h) = {Release(f, h.key) : f \in {"AlmaLinux", "Rocky Linux", "Red Hat"}} BY <1>2 DEF HostReleases
  <2>2. PICK f \in {"AlmaLinux", "Rocky Linux", "Red Hat"} : r = Release(f, h.key) BY <2>1
  <2>3. r.family = f BY <2>2 DEF Release
  <2> QED BY <1>2, <2>3
<1>3. CASE ~(h.form = "release" /\ h.family \in {"AlmaLinux", "Rocky Linux", "Oracle Linux"})
  <2>1. r \in ParseRelease(h) BY <1>3 DEF HostReleases
  <2> QED BY <2>1, ParsedIs
<1> QED BY <1>1, <1>2, <1>3

LEMMA BareReaches == ASSUME NEW r, NEW f PROVE Reaches(Bare(f), r) <=> f = r.family
  BY DEF Reaches, Bare, Named

\* Whatever a machine takes fixes from, one of its queries can return, where no
\* version is taken for another distribution's.
LEMMA ReleasesAsked ==
  ASSUME NEW h \in Hosts, NEW r \in HostReleases(h), NEW hint, hint \notin {"Ubuntu", "Debian", "Alpine"}
  PROVE  \E q \in ResolveEcosystems(h, hint) : Reaches(q, r)
<1>1. CASE r.family = h.family /\ r.key = h.key /\ h.family \in Families /\ h.form # "bare"
  <2>1. h.family = "Ubuntu" => Bare(h.family) \in ResolveEcosystems(h, hint) BY DEF ResolveEcosystems
  <2>2. h.family = "Debian" => Bare(h.family) \in ResolveEcosystems(h, hint) BY DEF ResolveEcosystems
  <2>3. h.family = "Alpine" => h \in ResolveEcosystems(h, hint) BY <1>1 DEF ResolveEcosystems
  <2>4. h.family \in {"AlmaLinux", "Rocky Linux"} => h \in ResolveEcosystems(h, hint) BY DEF ResolveEcosystems
  <2>5. h.family = "Red Hat" => Bare(h.family) \in ResolveEcosystems(h, hint) BY DEF ResolveEcosystems
  <2>6. h.family = "openSUSE Leap" => Bare(h.family) \in ResolveEcosystems(h, hint) BY DEF ResolveEcosystems
  <2>7. h.family # "Red Hat" => Reaches(h, r) BY <1>1, HostsAssumption DEF Reaches
  <2>8. Reaches(Bare(h.family), r) BY <1>1, BareReaches
  <2> QED BY <1>1, <2>1, <2>2, <2>3, <2>4, <2>5, <2>6, <2>7, <2>8 DEF Families
<1>2. CASE r.family = "Red Hat" /\ h.family \in {"AlmaLinux", "Rocky Linux"}
  <2>1. Bare(r.family) \in ResolveEcosystems(h, hint) BY <1>2 DEF ResolveEcosystems
  <2> QED BY <2>1, BareReaches
<1>3. CASE r.family \in {"AlmaLinux", "Rocky Linux", "Red Hat"} /\ h.family = "Oracle Linux"
  <2>1. ResolveEcosystems(h, hint) = RedHats BY <1>3 DEF ResolveEcosystems
  <2>2. Bare(r.family) \in RedHats BY <1>3 DEF RedHats
  <2> QED BY <2>1, <2>2, BareReaches
<1> QED BY <1>1, <1>2, <1>3, FixesFrom

\* Where one may be, the queries that are left return a release or not.
LEMMA ReleasesHinted ==
  ASSUME NEW h \in Hosts, NEW r \in HostReleases(h), NEW hint \in {"Ubuntu", "Debian", "Alpine"}
  PROVE  (\E q \in ResolveEcosystems(h, hint) : Reaches(q, r)) <=> ~Misled(h, hint, r)
<1> DEFINE R == ResolveEcosystems(h, hint)
<1>1. /\ h.family \in {"Ubuntu", "Debian", "Alpine"} => r.family = h.family /\ r.key = h.key /\ h.form = "release"
      /\ h.family \notin {"Ubuntu", "Debian", "Alpine"} => r.family \notin {"Ubuntu", "Debian", "Alpine", "Wolfi"}
      /\ h.form = "release" /\ r.family = h.family => r.key = h.key
  <2>1. h.form \in {"bare", IF h.family = "Red Hat" THEN "host" ELSE "release"} BY HostsAssumption
  <2> QED BY <2>1, FixesFrom DEF Families
<1>2. Reaches(h, r) <=> h.form \in {"release", "bare"} /\ h.family = r.family
  BY <1>1 DEF Reaches
<1>3. CASE h.family = "Ubuntu" \/ hint = "Ubuntu"
  <2>1. R = {Bare("Ubuntu")} BY <1>3 DEF ResolveEcosystems
  <2>2. (\E q \in R : Reaches(q, r)) <=> r.family = "Ubuntu"
    <3> HIDE DEF R
    <3> QED BY <2>1, BareReaches
  <2>3. r.family = "Ubuntu" <=> h.family = "Ubuntu" BY <1>1
  <2> QED BY <1>3, <2>2, <2>3 DEF Misled
<1>4. CASE ~(h.family = "Ubuntu" \/ hint = "Ubuntu") /\ (h.family = "Debian" \/ hint = "Debian")
  <2>1. R = {Bare("Debian")} BY <1>4 DEF ResolveEcosystems
  <2>2. (\E q \in R : Reaches(q, r)) <=> r.family = "Debian"
    <3> HIDE DEF R
    <3> QED BY <2>1, BareReaches
  <2>3. r.family = "Debian" <=> h.family = "Debian" BY <1>1
  <2> QED BY <1>4, <2>2, <2>3 DEF Misled
<1>5. CASE h.family \notin {"Ubuntu", "Debian"} /\ hint = "Alpine"
  <2>1. CASE h.form = "bare"
    <3>1. R = {Bare("Alpine"), Bare("Wolfi")} BY <1>5, <2>1 DEF ResolveEcosystems
    <3>2. h.family # "Alpine" /\ r.family \notin {"Alpine", "Wolfi"} BY <1>1, <1>5, <2>1
    <3>3. ~ \E q \in R : Reaches(q, r)
      <4> HIDE DEF R
      <4> QED BY <3>1, <3>2, BareReaches
    <3>4. Misled(h, hint, r) BY <1>5, <2>1, <3>2 DEF Misled
    <3> QED BY <3>3, <3>4
  <2>2. CASE h.form # "bare"
    <3>1. R = {h} BY <1>5, <2>2 DEF ResolveEcosystems
    <3>2. (\E q \in R : Reaches(q, r)) <=> h.form = "release" /\ h.family = r.family BY <1>2, <2>2, <3>1
    <3> QED BY <1>1, <1>5, <3>2 DEF Misled
  <2> QED BY <2>1, <2>2
<1> QED BY <1>3, <1>4, <1>5

\* The machine is one of those the assumption is about.
HostKnown == host \in Hosts

\* What affects a release a machine takes fixes from is asked about, whatever
\* machine it is and whatever its versions say, exactly where none of them is taken
\* for another distribution's (osv_client.py, _resolve_ecosystems and releases.py).
THEOREM ReleasesAreAsked == Spec => []AskedWhole
<1>1. Init => HostKnown BY DEF Init, HostKnown
<1>2. HostKnown /\ [Next]_vars => HostKnown' BY DEF HostKnown, Next, Report, Arrive, vars
<1>3. HostKnown => AskedWhole
  <2> SUFFICES ASSUME HostKnown, NEW hint \in HintsOf[host], NEW r \in HostReleases(host)
               PROVE  (\E q \in ResolveEcosystems(host, hint) : Reaches(q, r)) <=> ~Misled(host, hint, r)
    BY DEF AskedWhole
  <2>1. CASE hint \in {"Ubuntu", "Debian", "Alpine"} BY <2>1, ReleasesHinted DEF HostKnown
  <2>2. CASE hint \notin {"Ubuntu", "Debian", "Alpine"}
    <3>1. \E q \in ResolveEcosystems(host, hint) : Reaches(q, r) BY <2>2, ReleasesAsked DEF HostKnown
    <3>2. ~Misled(host, hint, r) BY <2>2 DEF Misled
    <3> QED BY <3>1, <3>2
  <2> QED BY <2>1, <2>2
<1> QED BY <1>1, <1>2, <1>3, PTL DEF Spec

-----------------------------------------------------------------------------
(* The least of some keys.                                                 *)

\* The first of some places is one of them.
LEMMA FirstIs ==
  ASSUME NEW S, S \subseteq Nat, S # {}
  PROVE  First(S) \in S /\ \A j \in S : First(S) <= j
  BY LeastExists DEF First

Keys(n) == [1..n -> Int]

\* Keys of one length are in a total order.
LEMMA KeysAreOrdered ==
  ASSUME NEW n \in Nat, NEW a \in Keys(n), NEW b \in Keys(n), NEW c \in Keys(n)
  PROVE  /\ ~LexLess(a, a)
         /\ LexLess(a, b) /\ LexLess(b, c) => LexLess(a, c)
         /\ a = b \/ LexLess(a, b) \/ LexLess(b, a)
<1>0. \A k \in 1..n : a[k] \in Int /\ b[k] \in Int /\ c[k] \in Int BY DEF Keys
<1>d. DOMAIN a = 1..n /\ DOMAIN b = 1..n /\ DOMAIN c = 1..n BY DEF Keys
<1>1. ~LexLess(a, a) BY <1>0, <1>d DEF LexLess
<1>2. ASSUME LexLess(a, b), LexLess(b, c) PROVE LexLess(a, c)
  <2>1. PICK i \in 1..n : a[i] < b[i] /\ \A k \in 1..(i - 1) : a[k] = b[k] BY <1>2, <1>d DEF LexLess
  <2>2. PICK j \in 1..n : b[j] < c[j] /\ \A k \in 1..(j - 1) : b[k] = c[k] BY <1>2, <1>d DEF LexLess
  <2>3. CASE i <= j
    <3>1. a[i] < c[i] BY <1>0, <2>1, <2>2, <2>3
    <3>2. \A k \in 1..(i - 1) : a[k] = c[k] BY <2>1, <2>2, <2>3
    <3> QED BY <1>d, <3>1, <3>2 DEF LexLess
  <2>4. CASE j < i
    <3>1. a[j] < c[j] BY <1>0, <2>1, <2>2, <2>4
    <3>2. \A k \in 1..(j - 1) : a[k] = c[k] BY <2>1, <2>2, <2>4
    <3> QED BY <1>d, <3>1, <3>2 DEF LexLess
  <2> QED BY <2>3, <2>4
<1>3. ASSUME a # b PROVE LexLess(a, b) \/ LexLess(b, a)
  <2> DEFINE D == {k \in 1..n : a[k] # b[k]}
  <2>1. D # {}
    <3> SUFFICES ASSUME \A k \in 1..n : a[k] = b[k] PROVE a = b BY <1>3
    <3>1. a = [k \in 1..n |-> a[k]] /\ b = [k \in 1..n |-> b[k]] BY DEF Keys
    <3> QED BY <3>1
  <2>2. D \subseteq Nat OBVIOUS
  <2>3. PICK i \in D : \A j \in D : i <= j
    <3> HIDE DEF D
    <3> QED BY <2>1, <2>2, LeastExists
  <2>4. \A k \in 1..(i - 1) : a[k] = b[k]
    <3> SUFFICES ASSUME NEW k \in 1..(i - 1), a[k] # b[k] PROVE FALSE OBVIOUS
    <3>1. k \in D OBVIOUS
    <3> QED BY <2>3, <3>1
  <2>5. a[i] < b[i] \/ b[i] < a[i] BY <1>0
  <2> QED BY <1>d, <2>4, <2>5 DEF LexLess
<1> QED BY <1>1, <1>2, <1>3

\* Of finitely many places one has the least key, and LeastPlace is one such.
LEMMA LeastPlaceIs ==
  ASSUME NEW n \in Nat, NEW key, DOMAIN key \subseteq Nat, IsFiniteSet(DOMAIN key), DOMAIN key # {},
         \A i \in DOMAIN key : key[i] \in Keys(n)
  PROVE  LeastPlace(key) \in DOMAIN key /\ \A j \in DOMAIN key : ~LexLess(key[j], key[LeastPlace(key)])
<1> DEFINE I == DOMAIN key
           Before(i) == {j \in I : LexLess(key[j], key[i])}
           places == {Cardinality(Before(i)) : i \in I}
           lows == {i \in I : Before(i) = {}}
<1>1. \A i \in I : IsFiniteSet(Before(i)) /\ Cardinality(Before(i)) \in Nat
  BY FS_Subset, FS_CardinalityType
<1>2. places \subseteq Nat /\ places # {} BY <1>1
<1>3. PICK i \in I : \A j \in I : Cardinality(Before(i)) <= Cardinality(Before(j))
  <2> HIDE DEF places
  <2>1. PICK x \in places : \A y \in places : x <= y BY <1>2, LeastExists
  <2> QED BY <2>1 DEF places
<1>4. i \in lows
  <2> SUFFICES ASSUME NEW j \in I, LexLess(key[j], key[i]) PROVE FALSE OBVIOUS
  <2>1. Before(j) \subseteq Before(i) \ {j}
    <3> SUFFICES ASSUME NEW k \in I, LexLess(key[k], key[j]) PROVE LexLess(key[k], key[i]) /\ k # j OBVIOUS
    <3> QED BY KeysAreOrdered
  <2>2. j \in Before(i) /\ IsFiniteSet(Before(i)) BY <1>1
  <2> HIDE DEF Before
  <2>3. IsFiniteSet(Before(i) \ {j}) /\ Cardinality(Before(i) \ {j}) = Cardinality(Before(i)) - 1
    BY <2>2, FS_RemoveElement
  <2>4. Cardinality(Before(j)) <= Cardinality(Before(i) \ {j}) BY <2>1, <2>3, FS_Subset
  <2> QED BY <1>1, <1>3, <2>3, <2>4
<1>5. lows \subseteq Nat /\ lows # {} BY <1>4
<1>6. PICK m \in lows : \A j \in lows : m <= j
  <2> HIDE DEF lows
  <2> QED BY <1>5, LeastExists
<1>7. \A j \in I : ~LexLess(key[j], key[m]) BY <1>6
<1>8. ASSUME NEW j \in I, j < m PROVE LexLess(key[m], key[j])
  <2>1. j \in Nat /\ m \in Nat BY <1>5
  <2>2. j \notin lows BY <1>6, <1>8, <2>1
  <2>3. PICK k \in I : LexLess(key[k], key[j]) BY <2>2
  <2>4. key[m] # key[j] BY <1>7, <2>3
  <2> QED BY <1>7, <2>4, KeysAreOrdered
<1>9. \E p \in I : \A j \in I : ~LexLess(key[j], key[p]) /\ (j < p => LexLess(key[p], key[j])) BY <1>6, <1>7, <1>8
<1> QED BY <1>9 DEF LeastPlace

-----------------------------------------------------------------------------
(* Records, and what is made of those of one CVE and package.              *)

Notes ==
  {note \in [status : DOMAIN Status, label : Int \X Int \X Int, fix : DOMAIN TextRank] :
     note.status = "available" => VersionRank[note.fix] \in Int}
IsRaw(r) ==
  /\ r \in [cve : {r.cve}, name : DOMAIN TextRank, version : Int, note : Notes, score : Int,
            band : DOMAIN Rank \cup {NoBand}]
  /\ NameVersion(r.name, r.version) \in Asked

LEMMA RatingIs == ASSUME NEW r, IsRaw(r) PROVE Rating(r) \in Int /\ Worth(r) \in Int
<1>1. ResolveSeverity(r) \in {"critical", "unscored", "high", "medium", "low"}
  BY DEF IsRaw, ResolveSeverity, DeriveSeverity, Rank
<1>2. Rating(r) \in Int BY <1>1 DEF Rating, Rank
<1>3. r.score \in Int BY DEF IsRaw
<1> QED BY <1>2, <1>3 DEF Worth

\* A key of eleven is a sequence of eleven.
LEMMA KeyIsSeq == ASSUME NEW t \in Keys(11) PROVE t \in Seq(Int) /\ Len(t) = 11
<1>1. t \in Seq(Int) BY SeqDef DEF Keys
<1>2. DOMAIN t = 1..11 /\ DOMAIN t = 1..Len(t) /\ Len(t) \in Nat BY <1>1, LenProperties DEF Keys
<1>3. 1..Len(t) = 1..11 BY <1>2
<1>4. \A i \in 1..11 : i <= Len(t) BY <1>2, <1>3
<1>5. \A i \in 1..Len(t) : i <= 11 BY <1>2, <1>3
<1>6. 11 <= Len(t) BY <1>2, <1>4
<1>7. Len(t) \in 1..Len(t) BY <1>2, <1>6
<1> QED BY <1>1, <1>2, <1>5, <1>6, <1>7

\* A number before eleven others.
LEMMA Prefixed ==
  ASSUME NEW x \in Int, NEW t \in Keys(11)
  PROVE  <<x>> \o t \in Keys(12) /\ (<<x>> \o t)[1] = x /\ \A i \in 1..11 : (<<x>> \o t)[i + 1] = t[i]
<1>0. t \in Seq(Int) /\ Len(t) = 11 BY KeyIsSeq
<1> DEFINE s == <<x>>
           o == s \o t
<1>1. s \in Seq(Int) /\ Len(s) = 1 /\ s[1] = x OBVIOUS
<1> HIDE DEF s
<1>2. /\ o \in Seq(Int) /\ Len(o) = Len(s) + Len(t)
      /\ \A i \in 1..Len(s) + Len(t) : o[i] = IF i <= Len(s) THEN s[i] ELSE t[i - Len(s)]
  BY <1>0, <1>1, ConcatProperties
<1> HIDE DEF o
<1>3. Len(o) = 12 /\ Len(s) + Len(t) = 12 /\ Len(s) = 1 BY <1>0, <1>1, <1>2
<1>4. o \in [1..Len(o) -> Int] BY <1>2, LenProperties
<1>5. o[1] = x BY <1>1, <1>2, <1>3
<1>6. ASSUME NEW i \in 1..11 PROVE o[i + 1] = t[i]
  <2>1. i + 1 \in 1..Len(s) + Len(t) BY <1>3
  <2>2. o[i + 1] = IF i + 1 <= Len(s) THEN s[i + 1] ELSE t[i + 1 - Len(s)] BY <1>2, <2>1
  <2>3. ~(i + 1 <= Len(s)) /\ i + 1 - Len(s) = i BY <1>3
  <2> QED BY <2>2, <2>3
<1> QED BY <1>3, <1>4, <1>5, <1>6 DEF Keys, o, s

\* A record's keys are as long as any other's, and no two records of a CVE have one.
LEMMA OrderIs ==
  ASSUME NEW r, IsRaw(r)
  PROVE  /\ Order(r) \in Keys(11) /\ SeverityRank(r) \in Keys(2)
         /\ \A h : r.note.status = "available" =>
              /\ VersionOrder(h, r) \in Keys(12)
              /\ VersionOrder(h, r)[1] = IF h.family \in Ordered THEN VersionRank[r.note.fix] ELSE 0
              /\ \A i \in 1..11 : VersionOrder(h, r)[i + 1] = Order(r)[i]
<1>1. /\ r.note.label[1] \in Int /\ r.note.label[2] \in Int /\ r.note.label[3] \in Int
      /\ r.note.status \in DOMAIN Status /\ r.note.fix \in DOMAIN TextRank
      /\ r.note.status = "available" => VersionRank[r.note.fix] \in Int
      /\ r.name \in DOMAIN TextRank /\ r.version \in Int /\ r.score \in Int /\ r.band \in DOMAIN Rank \cup {NoBand}
  BY DEF IsRaw, Notes
<1>2. Status[r.note.status] \in Int BY <1>1 DEF Status
<1>3. TextRank[r.name] \in Int /\ TextRank[r.note.fix] \in Int /\ TextRank[r.band] \in Int BY <1>1, TextsAssumption
<1>4. Order(r) \in Keys(11)
  BY <1>1, <1>2, <1>3, RatingIs DEF Order, Keys
<1>5. SeverityRank(r) \in Keys(2) BY RatingIs DEF SeverityRank, Keys
<1>7. ASSUME NEW h, r.note.status = "available"
      PROVE  /\ VersionOrder(h, r) \in Keys(12)
             /\ VersionOrder(h, r)[1] = IF h.family \in Ordered THEN VersionRank[r.note.fix] ELSE 0
             /\ \A i \in 1..11 : VersionOrder(h, r)[i + 1] = Order(r)[i]
  <2>1. (IF h.family \in Ordered THEN VersionRank[r.note.fix] ELSE 0) \in Int BY <1>1, <1>7
  <2> QED BY <1>4, <2>1, Prefixed DEF VersionOrder
<1> QED BY <1>4, <1>5, <1>7

\* A key that begins with a version has the record's own behind it.
LEMMA SameVersionOrder ==
  ASSUME NEW h, NEW r, NEW q, IsRaw(r), IsRaw(q),
         r.note.status = "available", q.note.status = "available", VersionOrder(h, r) = VersionOrder(h, q)
  PROVE  Order(r) = Order(q)
<1>1. /\ Order(r) \in Keys(11) /\ Order(q) \in Keys(11)
      /\ \A i \in 1..11 : VersionOrder(h, r)[i + 1] = Order(r)[i] /\ VersionOrder(h, q)[i + 1] = Order(q)[i]
  BY OrderIs
<1>2. Order(r) = [i \in 1..11 |-> Order(r)[i]] /\ Order(q) = [i \in 1..11 |-> Order(q)[i]] BY <1>1 DEF Keys
<1>3. \A i \in 1..11 : Order(r)[i] = Order(q)[i] BY <1>1
<1> QED BY <1>2, <1>3

\* Two records of one CVE with one key are one record.
LEMMA OneOfAnOrder ==
  ASSUME NEW r, NEW q, IsRaw(r), IsRaw(q), r.cve = q.cve, Order(r) = Order(q)
  PROVE  r = q
<1>1. ASSUME NEW s, IsRaw(s)
      PROVE  /\ s = [cve |-> s.cve, name |-> s.name, version |-> s.version, note |-> s.note,
                     score |-> s.score, band |-> s.band]
             /\ s.note = [status |-> s.note.status, label |-> s.note.label, fix |-> s.note.fix]
             /\ s.note.label = <<s.note.label[1], s.note.label[2], s.note.label[3]>>
             /\ s.name \in DOMAIN TextRank /\ s.note.fix \in DOMAIN TextRank /\ s.band \in DOMAIN TextRank
             /\ s.note.status \in DOMAIN Status
  <2>1. s.note \in Notes /\ s.band \in DOMAIN Rank \cup {NoBand} BY <1>1 DEF IsRaw
  <2>2. s.note \in [status : DOMAIN Status, label : Int \X Int \X Int, fix : DOMAIN TextRank] BY <2>1 DEF Notes
  <2>3. s.note.label \in Int \X Int \X Int BY <2>2
  <2>4. s.note.label = <<s.note.label[1], s.note.label[2], s.note.label[3]>> BY <2>3
  <2>5. s.band \in DOMAIN TextRank BY <2>1, TextsAssumption
  <2>6. s.note = [status |-> s.note.status, label |-> s.note.label, fix |-> s.note.fix] BY <2>2
  <2>7. s = [cve |-> s.cve, name |-> s.name, version |-> s.version, note |-> s.note,
             score |-> s.score, band |-> s.band] /\ s.name \in DOMAIN TextRank
    BY <1>1 DEF IsRaw
  <2> QED BY <2>2, <2>4, <2>5, <2>6, <2>7
<1>2. /\ TextRank[r.name] = TextRank[q.name] /\ r.version = q.version
      /\ Status[r.note.status] = Status[q.note.status]
      /\ r.note.label[1] = q.note.label[1] /\ r.note.label[2] = q.note.label[2] /\ r.note.label[3] = q.note.label[3]
      /\ TextRank[r.note.fix] = TextRank[q.note.fix] /\ TextRank[r.band] = TextRank[q.band] /\ r.score = q.score
  BY DEF Order
<1>3. r.name = q.name /\ r.note.fix = q.note.fix /\ r.band = q.band BY <1>1, <1>2, TextsAssumption
<1>4. r.note.status = q.note.status
  <2>1. \A s, t \in DOMAIN Status : Status[s] = Status[t] => s = t BY DEF Status
  <2> QED BY <1>1, <1>2, <2>1
<1>5. r.note.label = q.note.label BY <1>1, <1>2
<1>6. r.note = q.note BY <1>1, <1>3, <1>4, <1>5
<1>7. r.cve = q.cve /\ r.version = q.version /\ r.score = q.score BY <1>2
<1>8. r = [cve |-> r.cve, name |-> r.name, version |-> r.version, note |-> r.note, score |-> r.score, band |-> r.band]
  BY <1>1
<1>9. q = [cve |-> q.cve, name |-> q.name, version |-> q.version, note |-> q.note, score |-> q.score, band |-> q.band]
  BY <1>1
<1> QED BY <1>3, <1>6, <1>7, <1>8, <1>9

-----------------------------------------------------------------------------
(* What is made of a set of records, whatever their places.                *)

Alike(r, q) == r.cve = q.cve /\ FindingPackage(r) = FindingPackage(q)
LikeIn(S, r) == {q \in S : Alike(q, r)}
Rerated(r, w) == [r EXCEPT !.score = w.score, !.band = w.band]
IsWorst(w, S) == w \in S /\ \A q \in S : ~LexLess(Order(q), Order(w))
Fixed(S) == {r \in S : r.note.status = "available"}
IsEarliest(h, k, S) == k \in Fixed(S) /\ \A q \in Fixed(S) : ~LexLess(VersionOrder(h, q), VersionOrder(h, k))
IsMerged(h, S, m) ==
  \E w, k \in S : /\ IsWorst(w, S)
                  /\ IF Fixed(S) = {} THEN k = w ELSE IsEarliest(h, k, S)
                  /\ m = Rerated(k, w)
OfOneCve(S) == \A r, q \in S : IsRaw(r) /\ r.cve = q.cve
Values(raws) == {raws[i] : i \in DOMAIN raws}
Listed(raws) == DOMAIN raws \subseteq Nat /\ IsFiniteSet(DOMAIN raws) /\ \A i \in DOMAIN raws : IsRaw(raws[i])

\* The merged record of some records is one record, whatever their places.
LEMMA MergedIsOne ==
  ASSUME NEW h, NEW S, OfOneCve(S), NEW m, NEW n, IsMerged(h, S, m), IsMerged(h, S, n)
  PROVE  m = n
<1>1. PICK w \in S, k \in S : /\ IsWorst(w, S) /\ m = Rerated(k, w)
                              /\ IF Fixed(S) = {} THEN k = w ELSE IsEarliest(h, k, S)
  BY DEF IsMerged
<1>2. PICK v \in S, l \in S : /\ IsWorst(v, S) /\ n = Rerated(l, v)
                              /\ IF Fixed(S) = {} THEN l = v ELSE IsEarliest(h, l, S)
  BY DEF IsMerged
<1>3. \A r, q \in S : IsRaw(r) /\ IsRaw(q) /\ r.cve = q.cve BY DEF OfOneCve
<1>4. w = v
  <2>1. ~LexLess(Order(w), Order(v)) /\ ~LexLess(Order(v), Order(w)) BY <1>1, <1>2 DEF IsWorst
  <2>2. Order(w) \in Keys(11) /\ Order(v) \in Keys(11) BY <1>3, OrderIs
  <2>3. Order(w) = Order(v) BY <2>1, <2>2, KeysAreOrdered
  <2> QED BY <1>3, <2>3, OneOfAnOrder
<1>5. CASE Fixed(S) # {}
  <2>1. IsEarliest(h, k, S) /\ IsEarliest(h, l, S) BY <1>1, <1>2, <1>5
  <2>2. /\ ~LexLess(VersionOrder(h, k), VersionOrder(h, l)) /\ ~LexLess(VersionOrder(h, l), VersionOrder(h, k))
        /\ k.note.status = "available" /\ l.note.status = "available"
    BY <2>1 DEF IsEarliest, Fixed
  <2>3. VersionOrder(h, k) \in Keys(12) /\ VersionOrder(h, l) \in Keys(12) BY <1>3, <2>2, OrderIs
  <2>4. VersionOrder(h, k) = VersionOrder(h, l) BY <2>2, <2>3, KeysAreOrdered
  <2>5. Order(k) = Order(l) BY <1>3, <2>2, <2>4, SameVersionOrder
  <2>6. k = l BY <1>3, <2>5, OneOfAnOrder
  <2> QED BY <1>1, <1>2, <1>4, <2>6
<1> QED BY <1>1, <1>2, <1>4, <1>5

\* A record under another's rating is a record, and is as that other is rated.
LEMMA ReratedIs ==
  ASSUME NEW r, NEW w, IsRaw(r), IsRaw(w)
  PROVE  LET m == Rerated(r, w)
         IN /\ IsRaw(m) /\ Alike(m, r) /\ m.note = r.note /\ m.name = r.name /\ m.version = r.version
            /\ SeverityRank(m) = SeverityRank(w)
<1> DEFINE m == Rerated(r, w)
<1>1. /\ m \in [cve : {m.cve}, name : DOMAIN TextRank, version : Int, note : Notes, score : Int,
                band : DOMAIN Rank \cup {NoBand}]
      /\ m.cve = r.cve /\ m.name = r.name /\ m.version = r.version /\ m.note = r.note
      /\ m.score = w.score /\ m.band = w.band
  BY DEF IsRaw, Rerated
<1> HIDE DEF m
<1>2. IsRaw(m) BY <1>1 DEF IsRaw
<1>3. Alike(m, r) BY <1>1 DEF Alike, FindingPackage
<1>4. SeverityRank(m) = SeverityRank(w) BY <1>1 DEF SeverityRank, Rating, Worth, ResolveSeverity
<1> QED BY <1>1, <1>2, <1>3, <1>4 DEF m

\* What becomes of some places of a list is what becomes of their records.
LEMMA MergedIs ==
  ASSUME NEW h, NEW raws, Listed(raws), NEW group, group \subseteq DOMAIN raws, group # {}
  PROVE  IsMerged(h, {raws[i] : i \in group}, MergeDuplicates(h, raws, group))
<1> DEFINE S == {raws[i] : i \in group}
           ordered == [i \in group |-> Order(raws[i])]
           at == LeastPlace(ordered)
           worst == raws[at]
           fixed == {i \in group : raws[i].note.status = "available"}
           versions == [i \in fixed |-> VersionOrder(h, raws[i])]
           first == LeastPlace(versions)
           kept == IF fixed = {} THEN worst ELSE raws[first]
<1>0. /\ group \subseteq Nat /\ IsFiniteSet(group) /\ \A i \in group : IsRaw(raws[i])
      /\ fixed \subseteq group /\ IsFiniteSet(fixed)
  BY FS_Subset DEF Listed
<1>1. MergeDuplicates(h, raws, group) = Rerated(kept, worst) BY DEF MergeDuplicates, Rerated
<1>2. /\ DOMAIN ordered = group /\ \A i \in group : ordered[i] = Order(raws[i])
      /\ DOMAIN versions = fixed /\ \A i \in fixed : versions[i] = VersionOrder(h, raws[i])
  OBVIOUS
<1>3. \A i \in group : ordered[i] \in Keys(11) BY <1>0, <1>2, OrderIs
<1>4. \A i \in fixed : versions[i] \in Keys(12) BY <1>0, <1>2, OrderIs
<1>5. Fixed(S) = {raws[i] : i \in fixed} BY DEF Fixed
<1> HIDE DEF ordered, versions
<1>6. at \in group /\ \A j \in group : ~LexLess(ordered[j], ordered[at]) BY <1>0, <1>2, <1>3, LeastPlaceIs
<1>7. fixed # {} => first \in fixed /\ \A j \in fixed : ~LexLess(versions[j], versions[first])
  <2> HIDE DEF fixed
  <2> QED BY <1>0, <1>2, <1>4, LeastPlaceIs
<1>8. IsWorst(worst, S) BY <1>2, <1>6 DEF IsWorst
<1>9. ASSUME fixed # {} PROVE IsEarliest(h, kept, S)
  <2>1. kept = raws[first] BY <1>9
  <2>2. first \in fixed /\ \A j \in fixed : ~LexLess(VersionOrder(h, raws[j]), VersionOrder(h, raws[first]))
    BY <1>2, <1>7, <1>9
  <2> HIDE DEF fixed
  <2> QED BY <1>5, <2>1, <2>2 DEF IsEarliest
<1>10. kept \in S /\ worst \in S BY <1>6, <1>7
<1>11. IF Fixed(S) = {} THEN kept = worst ELSE IsEarliest(h, kept, S)
  <2>1. Fixed(S) = {} <=> fixed = {} BY <1>5
  <2> QED BY <1>9, <2>1
<1> HIDE DEF S, kept, worst
<1>12. IsMerged(h, S, Rerated(kept, worst)) BY <1>8, <1>10, <1>11 DEF IsMerged
<1> QED BY <1>1, <1>12 DEF S

\* What is kept of a list: of each CVE and package one record, made of all of
\* the list that are of it.
LEMMA DeduplicatedIs ==
  ASSUME NEW h, NEW raws, Listed(raws)
  PROVE  LET out == Deduplicate(h, raws)
             all == Values(raws)
         IN /\ Listed(out)
            /\ \A i \in DOMAIN out : IsMerged(h, LikeIn(all, out[i]), out[i]) /\ out[i].cve \in {r.cve : r \in all}
            /\ \A i, j \in DOMAIN out : Alike(out[i], out[j]) => i = j
            /\ \A r \in all : \E i \in DOMAIN out : Alike(out[i], r)
<1> DEFINE out == Deduplicate(h, raws)
           all == Values(raws)
           places == {i \in DOMAIN raws : i = First(Group(raws, i))}
<1>0. DOMAIN raws \subseteq Nat /\ IsFiniteSet(DOMAIN raws) /\ \A i \in DOMAIN raws : IsRaw(raws[i]) BY DEF Listed
<1>1. DOMAIN out = places /\ \A i \in places : out[i] = MergeDuplicates(h, raws, Group(raws, i))
  BY DEF Deduplicate
<1>2. \A i \in DOMAIN raws : i \in Group(raws, i) /\ Group(raws, i) \subseteq DOMAIN raws BY DEF Group
<1>3. \A i, j \in DOMAIN raws : Alike(raws[i], raws[j]) => Group(raws, i) = Group(raws, j) BY DEF Group, Alike
<1>4. ASSUME NEW i \in DOMAIN raws
      PROVE  /\ {raws[j] : j \in Group(raws, i)} = LikeIn(all, raws[i])
             /\ First(Group(raws, i)) \in places /\ Alike(raws[First(Group(raws, i))], raws[i])
  <2>1. {raws[j] : j \in Group(raws, i)} = LikeIn(all, raws[i]) BY DEF Group, LikeIn, Alike, Values
  <2>2. First(Group(raws, i)) \in Group(raws, i) BY <1>0, <1>2, FirstIs
  <2>3. First(Group(raws, i)) \in DOMAIN raws /\ Alike(raws[First(Group(raws, i))], raws[i])
    BY <2>2 DEF Group, Alike
  <2>4. Group(raws, First(Group(raws, i))) = Group(raws, i) BY <1>3, <2>3
  <2> QED BY <2>1, <2>3, <2>4
<1>5. ASSUME NEW i \in places
      PROVE  /\ IsRaw(out[i]) /\ Alike(out[i], raws[i]) /\ IsMerged(h, LikeIn(all, raws[i]), out[i])
             /\ LikeIn(all, out[i]) = LikeIn(all, raws[i])
  <2>1. Group(raws, i) \subseteq DOMAIN raws /\ Group(raws, i) # {} BY <1>2
  <2>2. IsMerged(h, LikeIn(all, raws[i]), out[i])
    BY <1>1, <1>4, <2>1, MergedIs
  <2>3. PICK w \in LikeIn(all, raws[i]), k \in LikeIn(all, raws[i]) : out[i] = Rerated(k, w)
    BY <2>2 DEF IsMerged
  <2>4. IsRaw(w) /\ IsRaw(k) /\ Alike(k, raws[i]) BY <1>0, <2>3 DEF LikeIn, Values
  <2>5. IsRaw(out[i]) /\ Alike(out[i], k) BY <2>3, <2>4, ReratedIs
  <2>6. Alike(out[i], raws[i]) BY <2>4, <2>5 DEF Alike
  <2>7. LikeIn(all, out[i]) = LikeIn(all, raws[i]) BY <2>6 DEF LikeIn, Alike
  <2> QED BY <2>2, <2>5, <2>6, <2>7
<1> HIDE DEF out, all
<1>6. Listed(out)
  <2>1. places \subseteq DOMAIN raws OBVIOUS
  <2>2. IsFiniteSet(places) BY <1>0, <2>1, FS_Subset
  <2> HIDE DEF places
  <2> QED BY <1>0, <1>1, <1>5, <2>1, <2>2 DEF Listed
<1>7. \A i \in DOMAIN out : IsMerged(h, LikeIn(all, out[i]), out[i]) BY <1>1, <1>5
<1>8. \A i \in DOMAIN out : out[i].cve \in {r.cve : r \in all} BY <1>1, <1>5 DEF Alike, Values, all
<1>9. ASSUME NEW i \in places, NEW j \in places, Alike(out[i], out[j]) PROVE i = j
  <2>1. Alike(raws[i], raws[j]) BY <1>5, <1>9 DEF Alike
  <2> QED BY <1>3, <2>1
<1>10. ASSUME NEW r \in all PROVE \E i \in DOMAIN out : Alike(out[i], r)
  <2>1. PICK j \in DOMAIN raws : r = raws[j] BY DEF Values, all
  <2>2. First(Group(raws, j)) \in places /\ Alike(raws[First(Group(raws, j))], r) BY <1>4, <2>1
  <2>3. Alike(out[First(Group(raws, j))], r) BY <1>5, <2>2 DEF Alike
  <2> HIDE DEF places
  <2> QED BY <1>1, <2>2, <2>3
<1> QED BY <1>1, <1>6, <1>7, <1>8, <1>9, <1>10 DEF out, all

LEMMA LikeIsOfOne ==
  ASSUME NEW raws, Listed(raws), NEW r PROVE OfOneCve(LikeIn(Values(raws), r))
  BY DEF Listed, Values, LikeIn, Alike, OfOneCve

\* What is kept of a list is made of its records alone, not of their order.
LEMMA KeptWhateverOrder ==
  ASSUME NEW h, NEW raws, NEW other, Listed(raws), Listed(other), Values(raws) = Values(other)
  PROVE  Values(Deduplicate(h, raws)) = Values(Deduplicate(h, other))
<1>1. ASSUME NEW a, NEW b, Listed(a), Listed(b), Values(a) = Values(b), NEW m \in Values(Deduplicate(h, a))
      PROVE  m \in Values(Deduplicate(h, b))
  <2> DEFINE all == Values(a)
             out == Deduplicate(h, b)
  <2>1. IsMerged(h, LikeIn(all, m), m) BY <1>1, DeduplicatedIs DEF Values
  <2>2. PICK w \in all : Alike(w, m) BY <2>1 DEF IsMerged, LikeIn
  <2>3. \E i \in DOMAIN out : Alike(out[i], w) BY <1>1, DeduplicatedIs
  <2>4. \A i \in DOMAIN out : IsMerged(h, LikeIn(all, out[i]), out[i]) BY <1>1, DeduplicatedIs
  <2> HIDE DEF out
  <2>5. PICK i \in DOMAIN out : Alike(out[i], w) BY <2>3
  <2>6. LikeIn(all, out[i]) = LikeIn(all, m) BY <2>2, <2>5 DEF LikeIn, Alike
  <2>7. IsMerged(h, LikeIn(all, m), out[i]) BY <2>4, <2>6
  <2>8. m = out[i] BY <1>1, <2>1, <2>7, LikeIsOfOne, MergedIsOne
  <2> QED BY <2>8 DEF Values, out
<1>2. Values(Deduplicate(h, raws)) \subseteq Values(Deduplicate(h, other)) BY <1>1
<1>3. Values(Deduplicate(h, other)) \subseteq Values(Deduplicate(h, raws)) BY <1>1
<1> QED BY <1>2, <1>3

\* What the version of a fix is ordered by.
FixPlace(h, fix) == IF h.family \in Ordered THEN VersionRank[fix] ELSE 0

\* m is rated as the worst of S, and has the earliest fix there is in S.
IsBestOf(h, m, S) ==
  /\ \E w \in S : SeverityRank(m) = SeverityRank(w)
  /\ \A q \in S : ~LexLess(SeverityRank(q), SeverityRank(m))
  /\ m.note.status = "available" <=> Fixed(S) # {}
  /\ m.note.status = "available" =>
       \E k \in Fixed(S) : m.note = k.note /\ \A q \in Fixed(S) : FixPlace(h, k.note.fix) <= FixPlace(h, q.note.fix)

LEMMA MergedIsBest ==
  ASSUME NEW h, NEW S, \A r \in S : IsRaw(r), NEW m, IsMerged(h, S, m)
  PROVE  IsBestOf(h, m, S)
<1>1. PICK w \in S, k \in S : /\ IsWorst(w, S) /\ m = Rerated(k, w)
                              /\ IF Fixed(S) = {} THEN k = w ELSE IsEarliest(h, k, S)
  BY DEF IsMerged
<1>2. SeverityRank(m) = SeverityRank(w) /\ m.note = k.note BY <1>1, ReratedIs
<1>3. ASSUME NEW q \in S, LexLess(SeverityRank(q), SeverityRank(w)) PROVE FALSE
  <2>1. /\ SeverityRank(q) = <<Order(q)[1], Order(q)[2]>> /\ SeverityRank(w) = <<Order(w)[1], Order(w)[2]>>
        /\ DOMAIN Order(q) = 1..11
    BY DEF SeverityRank, Order
  <2>2. PICK i \in 1..2 : /\ SeverityRank(q)[i] < SeverityRank(w)[i]
                          /\ \A j \in 1..(i - 1) : SeverityRank(q)[j] = SeverityRank(w)[j]
    BY <1>3, <2>1 DEF LexLess
  <2>3. i \in 1..11 /\ Order(q)[i] < Order(w)[i] /\ \A j \in 1..(i - 1) : Order(q)[j] = Order(w)[j]
    <3>1. CASE i = 1
      <4>1. SeverityRank(q)[1] = Order(q)[1] /\ SeverityRank(w)[1] = Order(w)[1] BY <2>1
      <4> QED BY <2>2, <3>1, <4>1
    <3>2. CASE i = 2
      <4>1. /\ SeverityRank(q)[1] = Order(q)[1] /\ SeverityRank(w)[1] = Order(w)[1]
            /\ SeverityRank(q)[2] = Order(q)[2] /\ SeverityRank(w)[2] = Order(w)[2]
        BY <2>1
      <4> QED BY <2>2, <3>2, <4>1
    <3> QED BY <3>1, <3>2
  <2>4. LexLess(Order(q), Order(w)) BY <2>1, <2>3 DEF LexLess
  <2> QED BY <1>1, <2>4 DEF IsWorst
<1>4. m.note.status = "available" <=> Fixed(S) # {} BY <1>1, <1>2 DEF IsEarliest, Fixed
<1>5. ASSUME Fixed(S) # {}, NEW q \in Fixed(S) PROVE FixPlace(h, k.note.fix) <= FixPlace(h, q.note.fix)
  <2>1. IsEarliest(h, k, S) BY <1>1, <1>5
  <2>2. ~LexLess(VersionOrder(h, q), VersionOrder(h, k)) BY <1>5, <2>1 DEF IsEarliest
  <2>3. /\ IsRaw(q) /\ q.note.status = "available" /\ IsRaw(k) /\ k.note.status = "available"
    BY <1>5, <2>1 DEF IsEarliest, Fixed
  <2>4. /\ VersionOrder(h, q) \in Keys(12) /\ VersionOrder(h, k) \in Keys(12)
        /\ VersionOrder(h, q)[1] = FixPlace(h, q.note.fix) /\ VersionOrder(h, k)[1] = FixPlace(h, k.note.fix)
    BY <2>3, OrderIs DEF FixPlace
  <2>5. FixPlace(h, q.note.fix) \in Int /\ FixPlace(h, k.note.fix) \in Int BY <2>4 DEF Keys
  <2>6. DOMAIN VersionOrder(h, q) = 1..12 BY <2>4 DEF Keys
  <2>7. ~(VersionOrder(h, q)[1] < VersionOrder(h, k)[1]) BY <2>2, <2>6 DEF LexLess
  <2> QED BY <2>4, <2>5, <2>7
<1>6. Fixed(S) # {} => k \in Fixed(S) BY <1>1 DEF IsEarliest
<1> QED BY <1>1, <1>2, <1>3, <1>4, <1>5, <1>6 DEF IsBestOf

-----------------------------------------------------------------------------
(* The package that answers.                                               *)

\* The binary that answers for a name that is asked is one of the inventory's.
LEMMA ReportedIs ==
  ASSUME NEW asked \in Asked
  PROVE  ReportedAs[asked] \in Asked /\ ReportedAs[asked] = NameVersion(ReportedAs[asked].name, ReportedAs[asked].version)
<1> DEFINE I == DOMAIN Installed
           sources == {i \in I : Asks(Source(Installed[i]), asked)}
           source == Source(Installed[First(sources)])
           B == Binaries(source)
           imaged == {i \in B : Installed[i].image}
           like == {i \in B : Installed[i].name = source.name}
<1>0. I \subseteq Nat /\ IsFiniteSet(I) BY TextsAssumption
<1>1. sources # {}
  <2>1. PICK i \in I : asked = Source(Installed[i]) \/ asked = Binary(Installed[i]) BY DEF Asked
  <2>2. i \in Binaries(Source(Installed[i])) BY DEF Binaries
  <2>3. Asks(Source(Installed[i]), asked) BY <2>1, <2>2 DEF Asks
  <2> QED BY <2>3
<1>2. First(sources) \in sources
  <2>1. sources \subseteq Nat BY <1>0
  <2> HIDE DEF sources
  <2> QED BY <1>1, <2>1, FirstIs
<1>3. B # {} /\ B \subseteq I
  <2>1. First(sources) \in B BY <1>2 DEF Binaries
  <2> QED BY <2>1 DEF Binaries
<1>4. ASSUME NEW S, S \subseteq I, S # {} PROVE FirstByName(S) \in S
  <2> DEFINE key == [i \in S |-> <<TextRank[Installed[i].name]>>]
  <2>1. \A i \in S : Binary(Installed[i]) \in Asked BY <1>4 DEF Asked
  <2>2. \A i \in S : Installed[i].name \in DOMAIN TextRank BY <2>1, TextsAssumption DEF Binary, NameVersion
  <2>3. \A i \in S : TextRank[Installed[i].name] \in Int BY <2>2, TextsAssumption
  <2>4. \A i \in S : key[i] \in Keys(1) BY <2>3 DEF Keys
  <2>5. DOMAIN key = S /\ S \subseteq Nat /\ IsFiniteSet(S) BY <1>0, <1>4, FS_Subset
  <2>6. FirstByName(S) = LeastPlace(key) BY DEF FirstByName
  <2> HIDE DEF key
  <2>7. LeastPlace(key) \in S BY <1>4, <2>4, <2>5, LeastPlaceIs
  <2> QED BY <2>6, <2>7
<1> DEFINE at == IF imaged # {} THEN FirstByName(imaged) ELSE IF like # {} THEN First(like) ELSE FirstByName(B)
<1>5. at \in I
  <2>1. imaged \subseteq I /\ like \subseteq I /\ like \subseteq Nat BY <1>0, <1>3
  <2>2. like # {} => First(like) \in like
    <3> HIDE DEF like
    <3> QED BY <2>1, FirstIs
  <2> HIDE DEF imaged, like
  <2> QED BY <1>3, <1>4, <2>1, <2>2
<1>6. ReportedAs[asked] = Binary(Installed[at]) BY DEF ReportedAs, Representative
<1> HIDE DEF at
<1>7. Binary(Installed[at]) \in Asked BY <1>5 DEF Asked
<1> QED BY <1>6, <1>7 DEF Binary, NameVersion

Asking(r) == NameVersion(r.name, r.version)
Moved(r) == [r EXCEPT !.name = ReportedAs[Asking(r)].name, !.version = ReportedAs[Asking(r)].version]

\* A record that is moved to the package that answers is rated and fixed as it was.
LEMMA MovedIs ==
  ASSUME NEW r, IsRaw(r)
  PROVE  /\ IsRaw(Moved(r)) /\ Moved(r).cve = r.cve /\ Moved(r).note = r.note
         /\ SeverityRank(Moved(r)) = SeverityRank(r)
         /\ FindingPackage(Moved(r)) = FindingPackage(ReportedAs[Asking(r)])
<1> DEFINE to == ReportedAs[Asking(r)]
           m == Moved(r)
<1>1. to \in Asked /\ to = NameVersion(to.name, to.version) BY ReportedIs DEF IsRaw, Asking
<1>2. to.name \in DOMAIN TextRank /\ to.version \in Int BY <1>1, TextsAssumption
<1>3. /\ m \in [cve : {m.cve}, name : DOMAIN TextRank, version : Int, note : Notes, score : Int,
                band : DOMAIN Rank \cup {NoBand}]
      /\ m.cve = r.cve /\ m.name = to.name /\ m.version = to.version /\ m.note = r.note
      /\ m.score = r.score /\ m.band = r.band
  BY <1>2 DEF IsRaw, Moved
<1> HIDE DEF m, to
<1>4. IsRaw(m) BY <1>1, <1>3 DEF IsRaw
<1>5. SeverityRank(m) = SeverityRank(r) BY <1>3 DEF SeverityRank, Rating, Worth, ResolveSeverity
<1>6. FindingPackage(m) = FindingPackage(to) BY <1>3 DEF FindingPackage
<1> QED BY <1>3, <1>4, <1>5, <1>6 DEF m, to

LEMMA ReattributedIs ==
  ASSUME NEW raws, Listed(raws)
  PROVE  Listed(Reattributed(raws)) /\ Values(Reattributed(raws)) = {Moved(r) : r \in Values(raws)}
<1>1. Reattributed(raws) = [i \in DOMAIN raws |-> Moved(raws[i])] BY DEF Reattributed, Moved, Asking
<1> HIDE DEF Reattributed
<1>2. Listed(Reattributed(raws)) BY <1>1, MovedIs DEF Listed
<1> QED BY <1>1, <1>2 DEF Values

-----------------------------------------------------------------------------
(* The findings.                                                           *)

\* A finding may be made of a record: it is where one of those is moved that the
\* record is merged with.
Covers(f, r, all) == \E q \in LikeIn(all, r) : Alike(f, Moved(q))

\* f is rated and fixed no better than any record of S allows.
Counts(h, f, S) ==
  /\ \A q \in S : ~LexLess(SeverityRank(q), SeverityRank(f))
  /\ \A q \in Fixed(S) : f.note.status = "available" /\ FixPlace(h, f.note.fix) <= FixPlace(h, q.note.fix)

LEMMA NotLess ==
  ASSUME NEW n \in Nat, NEW a \in Keys(n), NEW b \in Keys(n), NEW c \in Keys(n), ~LexLess(a, b), ~LexLess(b, c)
  PROVE  ~LexLess(a, c)
<1>1. a = b \/ LexLess(b, a) BY KeysAreOrdered
<1>2. b = c \/ LexLess(c, b) BY KeysAreOrdered
<1>3. LexLess(c, b) /\ LexLess(b, a) => LexLess(c, a) BY KeysAreOrdered
<1>4. LexLess(a, c) /\ LexLess(c, a) => LexLess(a, a) BY KeysAreOrdered
<1>5. ~LexLess(a, a) BY KeysAreOrdered
<1> QED BY <1>1, <1>2, <1>3, <1>4, <1>5

\* What is kept of some records is moved where one of them is, and is the best of them.
LEMMA KeptIs ==
  ASSUME NEW h, NEW all, \A r \in all : IsRaw(r), NEW k, IsRaw(k), IsMerged(h, LikeIn(all, k), k)
  PROVE  /\ IsBestOf(h, k, LikeIn(all, k))
         /\ \E q \in LikeIn(all, k) : \A f : Alike(f, Moved(k)) <=> Alike(f, Moved(q))
<1>1. \A q \in LikeIn(all, k) : IsRaw(q) BY DEF LikeIn
<1>2. PICK w \in LikeIn(all, k), q \in LikeIn(all, k) : k = Rerated(q, w) BY DEF IsMerged
<1>3. k.cve = q.cve /\ Asking(k) = Asking(q)
  <2>1. IsRaw(q) /\ IsRaw(w) BY <1>1
  <2>2. Alike(k, q) /\ k.name = q.name /\ k.version = q.version BY <1>2, <2>1, ReratedIs
  <2> QED BY <2>2 DEF Alike, Asking
<1>4. Moved(k).cve = Moved(q).cve /\ FindingPackage(Moved(k)) = FindingPackage(Moved(q))
  BY <1>1, <1>3, MovedIs
<1>5. \A f : Alike(f, Moved(k)) <=> Alike(f, Moved(q)) BY <1>4 DEF Alike
<1> QED BY <1>1, <1>5, MergedIsBest

\* The findings are of the records alone; each record counts in one of them, and
\* each of them is rated and fixed as some of its records are.
LEMMA FindingsAre ==
  ASSUME NEW h, NEW raws, Listed(raws)
  PROVE  LET out == FindingsOf(h, raws)
             all == Values(raws)
         IN /\ Listed(out)
            /\ \A i, j \in DOMAIN out : Alike(out[i], out[j]) => i = j
            /\ \A r \in all : \E i \in DOMAIN out : Covers(out[i], r, all) /\ Counts(h, out[i], LikeIn(all, r))
            /\ \A i \in DOMAIN out : \E r \in all : Covers(out[i], r, all) /\ SeverityRank(out[i]) = SeverityRank(r)
            /\ \A i \in DOMAIN out : out[i].note.status = "available" =>
                 \E r \in Fixed(all) : Covers(out[i], r, all) /\ out[i].note = r.note
<1> DEFINE out == FindingsOf(h, raws)
           all == Values(raws)
           kept == Deduplicate(h, raws)
           moved == Reattributed(kept)
           of(i) == LikeIn(Values(moved), out[i])
<1>1. /\ Listed(kept)
      /\ \A i \in DOMAIN kept : IsMerged(h, LikeIn(all, kept[i]), kept[i])
      /\ \A r \in all : \E i \in DOMAIN kept : Alike(kept[i], r)
  BY DeduplicatedIs
<1>2. Listed(moved) /\ Values(moved) = {Moved(r) : r \in Values(kept)} BY <1>1, ReattributedIs
<1>3. /\ Listed(out)
      /\ \A i \in DOMAIN out : IsMerged(h, of(i), out[i])
      /\ \A i, j \in DOMAIN out : Alike(out[i], out[j]) => i = j
      /\ \A r \in Values(moved) : \E i \in DOMAIN out : Alike(out[i], r)
  BY <1>2, DeduplicatedIs DEF FindingsOf
<1> HIDE DEF out, kept, moved, all
<1>4. /\ \A r \in all : IsRaw(r)
      /\ \A i \in DOMAIN out : IsRaw(out[i])
      /\ \A k \in Values(kept) : IsRaw(k) /\ IsMerged(h, LikeIn(all, k), k)
      /\ \A m \in Values(moved) : IsRaw(m)
  BY <1>1, <1>2, <1>3 DEF Listed, Values, all
<1>5. ASSUME NEW k \in Values(kept)
      PROVE  /\ IsRaw(k) /\ IsBestOf(h, k, LikeIn(all, k)) /\ Moved(k) \in Values(moved)
             /\ IsRaw(Moved(k)) /\ SeverityRank(Moved(k)) = SeverityRank(k) /\ Moved(k).note = k.note
             /\ \E q \in LikeIn(all, k) : \A f : Alike(f, Moved(k)) <=> Alike(f, Moved(q))
  BY <1>2, <1>4, KeptIs, MovedIs
<1>6. ASSUME NEW i \in DOMAIN out PROVE IsBestOf(h, out[i], of(i))
  <2>1. \A m \in of(i) : IsRaw(m) BY <1>4 DEF LikeIn
  <2> HIDE DEF of
  <2> QED BY <1>3, <2>1, MergedIsBest
\* A record that is merged into k is covered by the finding that k is moved to.
<1>7. ASSUME NEW i \in DOMAIN out, NEW k \in Values(kept), Alike(out[i], Moved(k)), NEW r \in LikeIn(all, k)
      PROVE  r \in all /\ Covers(out[i], r, all) /\ LikeIn(all, r) = LikeIn(all, k)
  <2>1. r \in all /\ LikeIn(all, r) = LikeIn(all, k) BY DEF LikeIn, Alike
  <2>2. PICK q \in LikeIn(all, k) : \A f : Alike(f, Moved(k)) <=> Alike(f, Moved(q)) BY <1>5
  <2> QED BY <1>7, <2>1, <2>2 DEF Covers
<1>8. ASSUME NEW i \in DOMAIN out, NEW m \in of(i)
      PROVE  \E k \in Values(kept) : m = Moved(k) /\ Alike(out[i], Moved(k))
  BY <1>2 DEF LikeIn, Alike
<1>9. ASSUME NEW r \in all
      PROVE  \E i \in DOMAIN out : Covers(out[i], r, all) /\ Counts(h, out[i], LikeIn(all, r))
  <2>1. PICK k \in Values(kept) : Alike(k, r) BY <1>1 DEF Values
  <2>2. r \in LikeIn(all, k) BY <2>1 DEF LikeIn, Alike
  <2>3. PICK i \in DOMAIN out : Alike(out[i], Moved(k)) BY <1>3, <1>5
  <2>4. Moved(k) \in of(i) BY <1>5, <2>3 DEF LikeIn, Alike
  <2>5. Covers(out[i], r, all) /\ LikeIn(all, r) = LikeIn(all, k) BY <1>7, <2>2, <2>3
  <2> DEFINE f == out[i]
  <2>6. IsBestOf(h, f, of(i)) /\ IsRaw(f) BY <1>4, <1>6
  <2> HIDE DEF f, of
  <2>7. ASSUME NEW q \in LikeIn(all, k) PROVE ~LexLess(SeverityRank(q), SeverityRank(f))
    <3>1. ~LexLess(SeverityRank(q), SeverityRank(k)) BY <1>5 DEF IsBestOf
    <3>2. ~LexLess(SeverityRank(k), SeverityRank(f)) BY <1>5, <2>4, <2>6 DEF IsBestOf
    <3>3. IsRaw(q) /\ IsRaw(k) BY <1>4, <1>5 DEF LikeIn
    <3>4. SeverityRank(q) \in Keys(2) /\ SeverityRank(k) \in Keys(2) /\ SeverityRank(f) \in Keys(2)
      BY <2>6, <3>3, OrderIs
    <3> QED BY <3>1, <3>2, <3>4, NotLess
  <2>8. ASSUME NEW q \in Fixed(LikeIn(all, k))
        PROVE  f.note.status = "available" /\ FixPlace(h, f.note.fix) <= FixPlace(h, q.note.fix)
    <3>1. k.note.status = "available" /\ FixPlace(h, k.note.fix) <= FixPlace(h, q.note.fix)
      BY <1>5 DEF IsBestOf
    <3>2. Moved(k) \in Fixed(of(i)) /\ Moved(k).note.fix = k.note.fix BY <1>5, <2>4, <3>1 DEF Fixed
    <3>3. f.note.status = "available" /\ FixPlace(h, f.note.fix) <= FixPlace(h, k.note.fix)
      BY <2>6, <3>2 DEF IsBestOf
    <3>4. IsRaw(q) /\ q.note.status = "available" BY <1>4 DEF Fixed, LikeIn
    <3>5. FixPlace(h, f.note.fix) \in Int /\ FixPlace(h, k.note.fix) \in Int /\ FixPlace(h, q.note.fix) \in Int
      BY <1>5, <2>6, <3>1, <3>3, <3>4 DEF FixPlace, IsRaw, Notes
    <3> QED BY <3>1, <3>3, <3>5
  <2>9. Counts(h, f, LikeIn(all, k)) BY <2>7, <2>8 DEF Counts
  <2> QED BY <2>5, <2>9 DEF f
<1>10. ASSUME NEW i \in DOMAIN out
       PROVE  \E r \in all : Covers(out[i], r, all) /\ SeverityRank(out[i]) = SeverityRank(r)
  <2>1. PICK m \in of(i) : SeverityRank(out[i]) = SeverityRank(m)
    <3> HIDE DEF of
    <3> QED BY <1>6 DEF IsBestOf
  <2>2. PICK k \in Values(kept) : m = Moved(k) /\ Alike(out[i], Moved(k)) BY <1>8
  <2>3. PICK r \in LikeIn(all, k) : SeverityRank(k) = SeverityRank(r) BY <1>5 DEF IsBestOf
  <2>4. SeverityRank(m) = SeverityRank(k) BY <1>5, <2>2
  <2> QED BY <1>7, <2>1, <2>2, <2>3, <2>4
<1>11. ASSUME NEW i \in DOMAIN out, out[i].note.status = "available"
       PROVE  \E r \in Fixed(all) : Covers(out[i], r, all) /\ out[i].note = r.note
  <2>1. PICK m \in Fixed(of(i)) : out[i].note = m.note
    <3> HIDE DEF of
    <3> QED BY <1>6, <1>11 DEF IsBestOf
  <2>2. m \in of(i) /\ m.note.status = "available" BY DEF Fixed
  <2>3. PICK k \in Values(kept) : m = Moved(k) /\ Alike(out[i], Moved(k)) BY <1>8, <2>2
  <2>4. m.note = k.note BY <1>5, <2>3
  <2>5. PICK r \in Fixed(LikeIn(all, k)) : k.note = r.note BY <1>5, <2>2, <2>4 DEF IsBestOf
  <2>6. r \in LikeIn(all, k) /\ r.note.status = "available" BY DEF Fixed
  <2>7. r \in all /\ Covers(out[i], r, all) BY <1>7, <2>3, <2>6
  <2> QED BY <2>1, <2>4, <2>5, <2>6, <2>7 DEF Fixed
<1> QED BY <1>3, <1>9, <1>10, <1>11 DEF out, all

\* ... and do not depend on the order the records are in.
LEMMA FoundWhateverOrder ==
  ASSUME NEW h, NEW raws, NEW other, Listed(raws), Listed(other), Values(raws) = Values(other)
  PROVE  Values(FindingsOf(h, raws)) = Values(FindingsOf(h, other))
<1>1. Values(Deduplicate(h, raws)) = Values(Deduplicate(h, other)) BY KeptWhateverOrder
<1>2. Listed(Deduplicate(h, raws)) /\ Listed(Deduplicate(h, other)) BY DeduplicatedIs
<1>3. /\ Listed(Reattributed(Deduplicate(h, raws))) /\ Listed(Reattributed(Deduplicate(h, other)))
      /\ Values(Reattributed(Deduplicate(h, raws))) = Values(Reattributed(Deduplicate(h, other)))
  BY <1>1, <1>2, ReattributedIs
<1> QED BY <1>3, KeptWhateverOrder DEF FindingsOf

-----------------------------------------------------------------------------
(* What a record says.                                                     *)

\* What an ecosystem names is its own release, or a subscription's for it.
LEMMA NamesItsOwn ==
  ASSUME NEW eco, NEW r
  PROVE  /\ Release(eco.family, eco.key) = [family |-> eco.family, key |-> eco.key, subscription |-> FALSE]
         /\ r \in ParseRelease(eco) => /\ r.subscription <=> eco.form = "pro"
                                       /\ ~r.subscription => r = Release(eco.family, eco.key)
         /\ ParseRelease(eco) # {} /\ eco.form # "pro" => ParseRelease(eco) = {Release(eco.family, eco.key)}
<1> DEFINE plain == [family |-> eco.family, key |-> eco.key, subscription |-> FALSE]
           read == [family |-> eco.family, key |-> eco.key, subscription |-> (eco.form = "pro")]
<1>1. Release(eco.family, eco.key) = plain BY DEF Release
<1>2. ParseRelease(eco) = {} \/ ParseRelease(eco) = {read} BY DEF ParseRelease
<1>3. read.subscription <=> eco.form = "pro" OBVIOUS
<1>4. ASSUME eco.form # "pro" PROVE read = plain
  <2>1. (eco.form = "pro") = FALSE BY <1>4
  <2> QED BY <2>1
<1> HIDE DEF read, plain
<1>5. r \in ParseRelease(eco) => r = read BY <1>2
<1>6. ASSUME r \in ParseRelease(eco) PROVE r.subscription <=> eco.form = "pro" BY <1>3, <1>5, <1>6
<1> QED BY <1>1, <1>2, <1>4, <1>5, <1>6 DEF plain

\* A release that applies to a machine is one it takes fixes from, by its name.
LEMMA SameReleaseIs ==
  ASSUME NEW h \in Hosts, NEW eco
  PROVE  SameRelease(h, eco) <=> \E r \in ParseRelease(eco) : ~r.subscription /\ r \in HostReleases(h)
<1> SUFFICES ASSUME eco \in ReleaseEcosystems(h)
             PROVE  \E r \in ParseRelease(eco) : ~r.subscription /\ r \in HostReleases(h)
  BY DEF SameRelease
<1>0. h.form # "pro" BY HostsAssumption
<1>1. eco \in ResolveEcosystems(h, "none") \cup ReleaseQueries(h) /\ ParseRelease(eco) # {} BY DEF ReleaseEcosystems
<1>2. eco.family \in Families /\ eco.form \in {"release", "pro", "repository", "host"}
  BY <1>1 DEF ParseRelease
<1>3. CASE eco \in ReleaseQueries(h)
  <2>1. PICK r \in HostReleases(h) : eco = Named(r.family, IF r.family = "Red Hat" THEN "repository" ELSE "release", r.key)
    BY <1>3 DEF ReleaseQueries
  <2>2. eco.family = r.family /\ eco.key = r.key /\ eco.form # "pro" BY <2>1 DEF Named
  <2>3. r = Release(r.family, r.key)
    <3>1. CASE r \in ParseRelease(h) /\ ~r.subscription
      <4>1. r = Release(h.family, h.key) BY <3>1, NamesItsOwn
      <4> QED BY <4>1 DEF Release
    <3>2. CASE \E f \in {"AlmaLinux", "Rocky Linux", "Red Hat", h.family} : r = Release(f, h.key)
      <4>1. PICK f : r = Release(f, h.key) BY <3>2
      <4>2. r.family = f /\ r.key = h.key BY <4>1 DEF Release
      <4> QED BY <4>1, <4>2
    <3>3. \/ r \in ParseRelease(h) /\ ~r.subscription
          \/ \E f \in {"AlmaLinux", "Rocky Linux", "Red Hat", h.family} : r = Release(f, h.key)
      <4>1. CASE h.form = "release" /\ h.family \in {"AlmaLinux", "Rocky Linux"} BY <4>1 DEF HostReleases
      <4>2. CASE h.form = "release" /\ h.family = "Oracle Linux" BY <4>2 DEF HostReleases
      <4>3. CASE ~(h.form = "release" /\ h.family \in {"AlmaLinux", "Rocky Linux", "Oracle Linux"})
        <5>1. HostReleases(h) = {x \in ParseRelease(h) : ~x.subscription} BY <4>3 DEF HostReleases
        <5> QED BY <5>1
      <4> QED BY <4>1, <4>2, <4>3
    <3> QED BY <3>1, <3>2, <3>3
  <2>5. r \in ParseRelease(eco) BY <1>1, <2>2, <2>3, NamesItsOwn
  <2>6. ~r.subscription BY <2>3 DEF Release
  <2> QED BY <2>5, <2>6
<1>4. CASE eco \in ResolveEcosystems(h, "none")
  <2>1. \A f : Bare(f).form = "bare" BY DEF Bare, Named
  <2>2. eco.form # "bare" BY <1>2
  <2>3. \A q \in AllLinux \cup RedHats : q.form = "bare" BY <2>1 DEF AllLinux, RedHats
  <2>4. eco = h /\ h.family # "Oracle Linux"
    BY <1>4, <2>1, <2>2, <2>3 DEF ResolveEcosystems
  <2>5. ParseRelease(h) = {Release(h.family, h.key)} /\ ~Release(h.family, h.key).subscription
    BY <1>0, <1>1, <2>4, NamesItsOwn DEF Release
  <2>6. Release(h.family, h.key) \in HostReleases(h) BY <2>4, <2>5 DEF HostReleases
  <2> QED BY <2>4, <2>5, <2>6
<1> QED BY <1>1, <1>3, <1>4

\* What is asked for a machine is its own name, or that of no release.
LEMMA AskedIs ==
  ASSUME NEW h, NEW hint, NEW q \in ResolveEcosystems(h, hint), q # h
  PROVE  ParseRelease(q) = {}
<1>1. \A f : Bare(f).form = "bare" BY DEF Bare, Named
<1>2. \A e \in AllLinux \cup RedHats : e.form = "bare" BY <1>1 DEF AllLinux, RedHats
<1>3. q.form = "bare" BY <1>1, <1>2 DEF ResolveEcosystems
<1> QED BY <1>3 DEF ParseRelease

\* What a record says is a note.  Where it is known what the machine installs from,
\* it says that a fix is available exactly when one is published in that, and then
\* which; elsewhere, only a fix in no release.
LEMMA FixSuffixIs ==
  ASSUME host \in Hosts, NEW d \in UNION Answers[host]
  PROVE  LET note == FixSuffix(host, d)
         IN /\ note \in Notes
            /\ Known(d) => (note.status = "available" <=> OwnFixes(d) # {})
            /\ note.status = "available" => note.fix \in (IF Known(d) THEN OwnFixes(d) ELSE Unreleased(d))
<1> DEFINE note == FixSuffix(host, d)
           B == DOMAIN d.blocks
           blocks == PackageBlocks(d)
           fixed == {i \in blocks : d.blocks[i].fix # NoFix}
           same == {i \in blocks : SameRelease(host, d.blocks[i].eco)}
           own == {i \in fixed : SameRelease(host, d.blocks[i].eco)}
           newer == {i \in fixed : Newer(host, d.blocks[i].eco)}
           exact == {i \in fixed : HostReleases(host) = {} /\ d.blocks[i].eco = d.queried}
           key == [i \in newer |-> NewerOrder(d.blocks[i])]
           ours == IF HostReleases(host) = {} THEN exact ELSE own
           mine == {i \in fixed : Installs(host, d.blocks[i].eco)}
<1>1. /\ B \subseteq Nat /\ IsFiniteSet(B)
      /\ \A i \in B : /\ d.blocks[i].eco.family \in DOMAIN TextRank /\ d.blocks[i].eco.key \in Int
                      /\ d.blocks[i].fix \in DOMAIN TextRank
                      /\ d.blocks[i].fix # NoFix => VersionRank[d.blocks[i].fix] \in Int
  BY AnswersAssumption
<1>2. blocks \subseteq B /\ fixed \subseteq blocks /\ own \subseteq fixed /\ newer \subseteq fixed /\ exact \subseteq fixed
  BY DEF PackageBlocks
<1>3. \A i \in B : TextRank[d.blocks[i].eco.family] \in Int /\ TextRank[d.blocks[i].fix] \in Int
  BY <1>1, TextsAssumption
<1>4. \A form : LabelForm(form) \in Int BY DEF LabelForm
<1>5. \A i \in B : LabelText(d.blocks[i].eco) \in Int \X Int \X Int BY <1>1, <1>3, <1>4 DEF LabelText
<1>6. OwnFixes(d) = {d.blocks[i].fix : i \in mine}
  BY DEF OwnFixes, FixesAt, PackageBlocks
<1>7. ASSUME Known(d) PROVE ours = mine
  <2>1. CASE HostReleases(host) = {}
    <3>1. d.queried = host BY <1>7, <2>1 DEF Known
    <3> QED BY <2>1, <3>1 DEF Installs
  <2>2. CASE HostReleases(host) # {}
    <3>1. \A i : SameRelease(host, d.blocks[i].eco) <=> Installs(host, d.blocks[i].eco)
      BY <2>2, SameReleaseIs DEF Installs
    <3> QED BY <2>2, <3>1
  <2> QED BY <2>1, <2>2
<1>8. HostReleases(host) = {} => same = {} BY SameReleaseIs
<1>9. ASSUME ~Known(d) PROVE {d.blocks[i].fix : i \in ours} \subseteq Unreleased(d)
  <2>1. HostReleases(host) = {} /\ d.queried # host BY <1>9 DEF Known
  <2>2. PICK hint \in HintsOf[host] : d.queried \in ResolveEcosystems(host, hint) BY AnswersAssumption
  <2>3. ParseRelease(d.queried) = {} BY <2>1, <2>2, AskedIs
  <2>4. ours = exact BY <2>1
  <2>5. \A i \in exact : /\ i \in B /\ i \in PackageBlocks(d) /\ d.blocks[i].fix # NoFix
                         /\ d.blocks[i].eco = d.queried
    BY DEF PackageBlocks
  <2> HIDE DEF ours, exact
  <2> QED BY <2>3, <2>4, <2>5 DEF Unreleased, FixesAt
<1>10. note = IF same # {}
              THEN IF own # {} THEN Available(d.blocks[First(own)].fix)
                   ELSE IF newer = {} THEN NoNote
                   ELSE Elsewhere("newer_release", d.blocks[LeastPlace(key)])
              ELSE IF exact # {} THEN Available(d.blocks[First(exact)].fix)
              ELSE IF fixed # {} THEN Elsewhere("upstream", d.blocks[First(fixed)])
              ELSE NoNote
  BY DEF FixSuffix
<1>11. own # {} => same # {} BY <1>2
<1>12. HostReleases(host) # {} => exact = {} OBVIOUS
<1>13. \A S : S \subseteq fixed => S \subseteq Nat BY <1>1, <1>2
<1>14. /\ own # {} => First(own) \in own
       /\ exact # {} => First(exact) \in exact
       /\ fixed # {} => First(fixed) \in fixed
  <2> HIDE DEF own, exact, fixed
  <2> QED BY <1>2, <1>13, FirstIs
<1>15. newer # {} => LeastPlace(key) \in newer
  <2> SUFFICES ASSUME newer # {} PROVE LeastPlace(key) \in newer OBVIOUS
  <2>1. \A i \in newer : NewerOrder(d.blocks[i]) \in Keys(6)
    <3> TAKE i \in newer
    <3>1. i \in B BY <1>2
    <3>2. d.blocks[i].eco.key \in Int /\ TextRank[d.blocks[i].eco.family] \in Int /\ TextRank[d.blocks[i].fix] \in Int
      BY <1>1, <1>3, <3>1
    <3> QED BY <1>4, <3>2 DEF NewerOrder, Keys
  <2>2. DOMAIN key = newer /\ \A i \in newer : key[i] \in Keys(6) BY <2>1
  <2>3. newer \subseteq Nat /\ newer \subseteq B BY <1>2, <1>13
  <2> HIDE DEF key, newer
  <2>4. IsFiniteSet(newer) BY <1>1, <2>3, FS_Subset
  <2> QED BY <2>2, <2>3, <2>4, LeastPlaceIs
<1>16. NoFix \in DOMAIN TextRank BY TextsAssumption
<1>17. \A i \in fixed : /\ d.blocks[i].fix \in DOMAIN TextRank /\ VersionRank[d.blocks[i].fix] \in Int
                        /\ LabelText(d.blocks[i].eco) \in Int \X Int \X Int
  BY <1>1, <1>2, <1>5
<1>18. ASSUME NEW i \in fixed, NEW status \in {"newer_release", "upstream"}
       PROVE  Available(d.blocks[i].fix) \in Notes /\ Elsewhere(status, d.blocks[i]) \in Notes
              /\ Elsewhere(status, d.blocks[i]).status = status
  BY <1>17 DEF Available, Elsewhere, Notes, NoLabel, Status
<1>19. NoNote \in Notes /\ NoNote.status = "none" BY <1>16 DEF NoNote, Notes, NoLabel, Status
<1>20. \A fix : Available(fix).status = "available" /\ Available(fix).fix = fix BY DEF Available
<1>21. /\ ours = IF HostReleases(host) = {} THEN exact ELSE own
       /\ \A S : S = {d.blocks[i].fix : i \in ours} => \A i \in ours : d.blocks[i].fix \in S
  OBVIOUS
<1> HIDE DEF note, B, blocks, fixed, same, own, newer, exact, key, ours, mine
<1>22. note \in Notes BY <1>2, <1>10, <1>14, <1>15, <1>18, <1>19
<1>23. note.status = "available" <=> ours # {}
  BY <1>2, <1>8, <1>10, <1>11, <1>12, <1>14, <1>15, <1>18, <1>19, <1>20, <1>21
<1>24. ours # {} => \E i \in ours : note.fix = d.blocks[i].fix
  BY <1>2, <1>8, <1>10, <1>11, <1>12, <1>14, <1>20, <1>21
<1>25. Known(d) => (ours # {} <=> OwnFixes(d) # {}) /\ {d.blocks[i].fix : i \in ours} = OwnFixes(d) BY <1>6, <1>7
<1>26. note.status = "available" => note.fix \in {d.blocks[i].fix : i \in ours} BY <1>23, <1>24
<1>27. Known(d) => (note.status = "available" <=> OwnFixes(d) # {}) BY <1>23, <1>25
<1>28. note.status = "available" => note.fix \in (IF Known(d) THEN OwnFixes(d) ELSE Unreleased(d))
  BY <1>9, <1>25, <1>26
<1> QED BY <1>22, <1>27, <1>28 DEF note

\* What a record of a machine says is a record for its findings.
LEMMA RawIs ==
  ASSUME host \in Hosts, NEW d \in UNION Answers[host]
  PROVE  LET r == Raw(host, d)
         IN /\ IsRaw(r) /\ r.cve = d.cve /\ r.note = FixSuffix(host, d)
            /\ Asking(r) = d.asked /\ d.asked \in Asked
<1> DEFINE r == Raw(host, d)
           scores == {i \in DOMAIN d.scores : d.scores[i] \in 0..100}
           words == {i \in DOMAIN d.words : d.words[i] # NoBand}
<1>1. /\ d.asked \in Asked /\ DOMAIN d.scores \subseteq Nat /\ DOMAIN d.words \subseteq Nat
      /\ \A i \in DOMAIN d.words : d.words[i] \in DOMAIN Rank \cup {NoBand}
  BY AnswersAssumption
<1>2. d.asked.name \in DOMAIN TextRank /\ d.asked.version \in Int BY <1>1, TextsAssumption
<1>3. d.asked = NameVersion(d.asked.name, d.asked.version) BY <1>1 DEF Asked, Source, Binary, NameVersion
<1>4. FixSuffix(host, d) \in Notes BY FixSuffixIs
<1>5. /\ scores # {} => First(scores) \in scores
      /\ words # {} => First(words) \in words
  <2>1. scores \subseteq Nat /\ words \subseteq Nat BY <1>1
  <2> HIDE DEF scores, words
  <2> QED BY <2>1, FirstIs
<1>6. /\ ParseCvss(d).score = IF scores # {} THEN d.scores[First(scores)] ELSE NoScore
      /\ ParseCvss(d).band = IF scores = {} /\ words # {} THEN d.words[First(words)] ELSE NoBand
  BY DEF ParseCvss
<1>7. ParseCvss(d).score \in Int
  <2>1. scores # {} => d.scores[First(scores)] \in 0..100 BY <1>5
  <2> HIDE DEF scores
  <2> QED BY <1>6, <2>1 DEF NoScore
<1>8. ParseCvss(d).band \in DOMAIN Rank \cup {NoBand}
  <2>1. words # {} => d.words[First(words)] \in DOMAIN Rank \cup {NoBand} BY <1>1, <1>5
  <2> HIDE DEF scores, words
  <2> QED BY <1>6, <2>1
<1>9. r = [cve |-> d.cve, name |-> d.asked.name, version |-> d.asked.version,
           note |-> FixSuffix(host, d), score |-> ParseCvss(d).score, band |-> ParseCvss(d).band]
  BY DEF Raw
<1>10. /\ r \in [cve : {r.cve}, name : DOMAIN TextRank, version : Int, note : Notes, score : Int,
                 band : DOMAIN Rank \cup {NoBand}]
       /\ r.cve = d.cve /\ r.note = FixSuffix(host, d) /\ r.name = d.asked.name /\ r.version = d.asked.version
  BY <1>2, <1>4, <1>7, <1>8, <1>9
<1> HIDE DEF r
<1>11. IsRaw(r) BY <1>1, <1>3, <1>10 DEF IsRaw
<1>12. Asking(r) = d.asked BY <1>3, <1>10 DEF Asking
<1> QED BY <1>1, <1>10, <1>11, <1>12 DEF r

\* What a merge takes for one package.
LEMMA SamePackageIs ==
  ASSUME NEW a, NEW b PROVE SamePackage(a, b) <=> FindingPackage(a) = FindingPackage(b)
<1>1. \A n, v, m, w : NameVersion(n, v) = NameVersion(m, w) <=> n = m /\ v = w BY DEF NameVersion
<1> QED BY <1>1 DEF FindingPackage, SamePackage

\* A finding may be made of what a record says exactly when it concerns the record.
LEMMA CoversIs ==
  ASSUME host \in Hosts, answer \subseteq UNION Answers[host], NEW d \in answer
  PROVE  LET all == {Raw(host, e) : e \in answer}
         IN /\ LikeIn(all, Raw(host, d)) = {Raw(host, e) : e \in Siblings(d)}
            /\ \A f : Covers(f, Raw(host, d), all) <=> Concerns(f, d)
<1> DEFINE all == {Raw(host, e) : e \in answer}
<1>1. ASSUME NEW e \in answer
      PROVE  /\ IsRaw(Raw(host, e)) /\ Raw(host, e).cve = e.cve /\ Asking(Raw(host, e)) = e.asked
             /\ Moved(Raw(host, e)).cve = e.cve
             /\ FindingPackage(Moved(Raw(host, e))) = FindingPackage(ReportedAs[e.asked])
             /\ FindingPackage(Raw(host, e)) = FindingPackage(e.asked)
  <2> DEFINE r == Raw(host, e)
  <2>1. IsRaw(r) /\ r.cve = e.cve /\ Asking(r) = e.asked BY RawIs
  <2> HIDE DEF r
  <2>2. Moved(r).cve = e.cve /\ FindingPackage(Moved(r)) = FindingPackage(ReportedAs[e.asked]) BY <2>1, MovedIs
  <2>3. r.name = e.asked.name /\ r.version = e.asked.version BY <2>1 DEF Asking, NameVersion
  <2>4. FindingPackage(r) = FindingPackage(e.asked) BY <2>3 DEF FindingPackage
  <2> QED BY <2>1, <2>2, <2>4 DEF r
<1>2. \A e \in answer : Alike(Raw(host, e), Raw(host, d)) <=> e \in Siblings(d)
  BY <1>1, SamePackageIs DEF Alike, Siblings
<1>3. Siblings(d) \subseteq answer /\ \A e \in Siblings(d) : e.cve = d.cve BY DEF Siblings
<1>4. LikeIn(all, Raw(host, d)) = {Raw(host, e) : e \in Siblings(d)} BY <1>2, <1>3 DEF LikeIn
<1>5. ASSUME NEW f PROVE Covers(f, Raw(host, d), all) <=> Concerns(f, d)
  <2>1. Covers(f, Raw(host, d), all) <=> \E e \in Siblings(d) : Alike(f, Moved(Raw(host, e)))
    BY <1>4 DEF Covers
  <2>2. \A e \in Siblings(d) : Alike(f, Moved(Raw(host, e))) <=>
                                 f.cve = d.cve /\ SamePackage(f, ReportedAs[e.asked])
    BY <1>1, <1>3, SamePackageIs DEF Alike
  <2>3. d \in Siblings(d) BY DEF Siblings, SamePackage
  <2> QED BY <2>1, <2>2, <2>3 DEF Concerns
<1> QED BY <1>4, <1>5

-----------------------------------------------------------------------------
(* What has arrived, and what is found of it.                              *)

\* What has arrived is what the records say that are no longer on a thread, and
\* what is found is of all of them.
FoundInv ==
  /\ host \in Hosts /\ answer \in Answers[host] /\ pending \subseteq answer
  /\ arrived \in Seq({Raw(host, d) : d \in answer})
  /\ Values(arrived) = {Raw(host, d) : d \in answer \ pending}
  /\ found = <<>> \/ (pending = {} /\ found = FindingsOf(host, arrived))

LEMMA FoundStays == Spec => []FoundInv
<1>1. Init => FoundInv
  <2> SUFFICES ASSUME Init PROVE FoundInv OBVIOUS
  <2>1. Values(arrived) = {} BY DEF Init, Values
  <2> QED BY <2>1 DEF Init, FoundInv
<1>2. FoundInv /\ [Next]_vars => FoundInv'
  <2> SUFFICES ASSUME FoundInv, [Next]_vars PROVE FoundInv' OBVIOUS
  <2>1. CASE Report BY <2>1 DEF Report, FoundInv, Values
  <2>2. ASSUME NEW doc \in pending, Arrive(doc) PROVE FoundInv'
    <3> DEFINE S == {Raw(host, d) : d \in answer}
               x == Raw(host, doc)
    <3>1. /\ arrived \in Seq(S) /\ x \in S /\ Values(arrived) = {Raw(host, d) : d \in answer \ pending}
          /\ doc \in answer /\ pending \subseteq answer
      BY <2>2 DEF FoundInv
    <3>2. arrived' = Append(arrived, x) /\ pending' = pending \ {doc} /\ UNCHANGED <<host, answer, found>>
      BY <2>2 DEF Arrive
    <3>3. Values(arrived') = Values(arrived) \cup {x}
      <4> HIDE DEF S, x
      <4>1. /\ Append(arrived, x) \in Seq(S) /\ Len(Append(arrived, x)) = Len(arrived) + 1
            /\ \A i \in 1..Len(arrived) : Append(arrived, x)[i] = arrived[i]
            /\ Append(arrived, x)[Len(arrived) + 1] = x
        BY <3>1, AppendProperties
      <4>2. DOMAIN arrived = 1..Len(arrived) /\ Len(arrived) \in Nat
            /\ DOMAIN Append(arrived, x) = 1..(Len(arrived) + 1)
        BY <3>1, <4>1, LenProperties
      <4>3. \A i \in 1..(Len(arrived) + 1) : i \in 1..Len(arrived) \/ i = Len(arrived) + 1 BY <4>2
      <4>4. 1..Len(arrived) \subseteq 1..(Len(arrived) + 1) /\ Len(arrived) + 1 \in 1..(Len(arrived) + 1) BY <4>2
      <4> QED BY <3>2, <4>1, <4>2, <4>3, <4>4 DEF Values
    <3>4. {Raw(host, d) : d \in answer \ pending'} = {Raw(host, d) : d \in answer \ pending} \cup {x}
      BY <3>1, <3>2
    <3>5. Append(arrived, x) \in Seq(S)
      <4> HIDE DEF S, x
      <4> QED BY <3>1, AppendProperties
    <3>6. found = <<>> BY <2>2 DEF FoundInv
    <3>7. (host \in Hosts /\ answer \in Answers[host] /\ pending \subseteq answer)' BY <3>1, <3>2 DEF FoundInv
    <3>8. Values(arrived') = {Raw(host, d) : d \in answer \ pending'} BY <3>1, <3>3, <3>4
    <3>9. arrived' \in Seq({Raw(host, d) : d \in answer}) BY <3>2, <3>5
    <3>10. /\ (Values(arrived) = {Raw(host, d) : d \in answer \ pending})'
           /\ (arrived \in Seq({Raw(host, d) : d \in answer}))'
           /\ (found = <<>>)'
      BY <3>2, <3>6, <3>8, <3>9
    <3> QED BY <3>7, <3>10 DEF FoundInv
  <2>3. CASE UNCHANGED vars BY <2>3 DEF vars, FoundInv, Values
  <2> QED BY <2>1, <2>2, <2>3 DEF Next
<1> QED BY <1>1, <1>2, PTL DEF Spec

LEMMA ArrivedIs ==
  ASSUME FoundInv
  PROVE  /\ Listed(arrived)
         /\ found # <<>> => found = FindingsOf(host, arrived) /\ Values(arrived) = {Raw(host, d) : d \in answer}
<1>1. \A d \in answer : d \in UNION Answers[host] BY DEF FoundInv
<1>2. \A d \in answer : IsRaw(Raw(host, d)) BY <1>1, RawIs DEF FoundInv
<1>3. DOMAIN arrived = 1..Len(arrived) /\ Len(arrived) \in Nat BY LenProperties DEF FoundInv
<1>4. IsFiniteSet(DOMAIN arrived) /\ DOMAIN arrived \subseteq Nat BY <1>3, FS_Interval
<1>5. \A i \in DOMAIN arrived : arrived[i] \in Values(arrived) BY DEF Values
<1>6. \A i \in DOMAIN arrived : IsRaw(arrived[i]) BY <1>2, <1>5 DEF FoundInv
<1> QED BY <1>4, <1>6 DEF FoundInv, Listed

\* Each record counts in a finding that concerns it, and each finding is rated and
\* fixed as some record it concerns.
LEMMA FoundAre ==
  ASSUME FoundInv, found # <<>>
  PROVE  /\ Listed(found)
         /\ \A i, j \in DOMAIN found : Alike(found[i], found[j]) => i = j
         /\ \A d \in answer : \E f \in Reported :
              Concerns(f, d) /\ Counts(host, f, {Raw(host, e) : e \in Siblings(d)})
         /\ \A f \in Reported :
              /\ \E d \in answer : Concerns(f, d) /\ SeverityRank(f) = SeverityRank(Raw(host, d))
              /\ f.note.status = "available" =>
                   \E d \in answer : /\ Concerns(f, d) /\ f.note = Raw(host, d).note
                                     /\ Raw(host, d).note.status = "available"
<1> DEFINE all == {Raw(host, d) : d \in answer}
<1>1. Listed(arrived) /\ found = FindingsOf(host, arrived) /\ Values(arrived) = all BY ArrivedIs
<1>2. /\ Listed(found)
      /\ \A i, j \in DOMAIN found : Alike(found[i], found[j]) => i = j
      /\ \A r \in all : \E i \in DOMAIN found : Covers(found[i], r, all) /\ Counts(host, found[i], LikeIn(all, r))
      /\ \A i \in DOMAIN found : \E r \in all : Covers(found[i], r, all) /\ SeverityRank(found[i]) = SeverityRank(r)
      /\ \A i \in DOMAIN found : found[i].note.status = "available" =>
           \E r \in Fixed(all) : Covers(found[i], r, all) /\ found[i].note = r.note
  <2> HIDE DEF all
  <2> QED BY <1>1, FindingsAre
<1>3. host \in Hosts /\ answer \subseteq UNION Answers[host] BY DEF FoundInv
<1>4. \A d \in answer : /\ Raw(host, d) \in all
                        /\ LikeIn(all, Raw(host, d)) = {Raw(host, e) : e \in Siblings(d)}
                        /\ \A f : Covers(f, Raw(host, d), all) <=> Concerns(f, d)
  BY <1>3, CoversIs
<1>5. \A r \in all : \E d \in answer : r = Raw(host, d) OBVIOUS
<1> HIDE DEF all
<1>6. /\ \A i \in DOMAIN found : found[i] \in Reported
      /\ \A f \in Reported : \E i \in DOMAIN found : f = found[i]
  BY DEF Reported
<1>7. ASSUME NEW d \in answer
      PROVE  \E f \in Reported : Concerns(f, d) /\ Counts(host, f, {Raw(host, e) : e \in Siblings(d)})
  <2>1. PICK i \in DOMAIN found :
          Covers(found[i], Raw(host, d), all) /\ Counts(host, found[i], LikeIn(all, Raw(host, d)))
    BY <1>2, <1>4
  <2> QED BY <1>4, <1>6, <2>1
<1>8. ASSUME NEW f \in Reported
      PROVE  \E d \in answer : Concerns(f, d) /\ SeverityRank(f) = SeverityRank(Raw(host, d))
  <2>1. PICK r \in all : Covers(f, r, all) /\ SeverityRank(f) = SeverityRank(r) BY <1>2, <1>6
  <2> QED BY <1>4, <1>5, <2>1
<1>9. ASSUME NEW f \in Reported, f.note.status = "available"
      PROVE  \E d \in answer : /\ Concerns(f, d) /\ f.note = Raw(host, d).note
                               /\ Raw(host, d).note.status = "available"
  <2>1. PICK r \in Fixed(all) : Covers(f, r, all) /\ f.note = r.note BY <1>2, <1>6, <1>9
  <2>2. r \in all /\ r.note.status = "available" BY DEF Fixed
  <2> QED BY <1>4, <1>5, <2>1, <2>2
<1> QED BY <1>2, <1>7, <1>8, <1>9

\* A CVE of a package is reported once, and every record counts in a finding of it
\* (Req 2.8, 12.6; _deduplicate_findings, _reattribute), for any machine and any
\* records, a name's in several versions among them.
THEOREM ReportedOnce == Spec => []OneFindingEach
<1>1. FoundInv => OneFindingEach
  <2> SUFFICES ASSUME FoundInv, found # <<>>
               PROVE  /\ \A i, j \in DOMAIN found :
                           found[i].cve = found[j].cve /\ SamePackage(found[i], found[j]) => i = j
                      /\ \A d \in answer : \E f \in Reported :
                           /\ Concerns(f, d)
                           /\ \A e \in Siblings(d) : ~LexLess(SeverityRank(Raw(host, e)), SeverityRank(f))
                      /\ \A f \in Reported : \E d \in answer :
                           Concerns(f, d) /\ SeverityRank(f) = SeverityRank(Raw(host, d))
    BY DEF OneFindingEach
  <2>1. \A i, j \in DOMAIN found : found[i].cve = found[j].cve /\ SamePackage(found[i], found[j]) => i = j
    BY FoundAre, SamePackageIs DEF Alike
  <2>2. ASSUME NEW d \in answer
        PROVE  \E f \in Reported : /\ Concerns(f, d)
                                   /\ \A e \in Siblings(d) : ~LexLess(SeverityRank(Raw(host, e)), SeverityRank(f))
    <3>1. PICK f \in Reported : Concerns(f, d) /\ Counts(host, f, {Raw(host, e) : e \in Siblings(d)}) BY FoundAre
    <3>2. \A e \in Siblings(d) : ~LexLess(SeverityRank(Raw(host, e)), SeverityRank(f)) BY <3>1 DEF Counts
    <3> QED BY <3>1, <3>2
  <2>3. \A f \in Reported : \E d \in answer : Concerns(f, d) /\ SeverityRank(f) = SeverityRank(Raw(host, d))
    BY FoundAre
  <2> QED BY <2>1, <2>2, <2>3
<1> QED BY <1>1, FoundStays, PTL

\* Where it is known what a machine installs from, a fix is offered exactly when a
\* record publishes one for that, and is the earliest of them; elsewhere a fix is
\* never a release's (Req 2.11, 14.7; _fix_suffix, _merge_duplicates).
THEOREM FixesAreTheHosts == Spec => []FixIsTheHosts
<1>1. FoundInv => FixIsTheHosts
  <2> SUFFICES ASSUME FoundInv, found # <<>>
               PROVE  /\ \A f \in Reported :
                           f.note.status = "available" =>
                             \E d \in answer : /\ Concerns(f, d)
                                               /\ f.note.fix \in (IF Known(d) THEN OwnFixes(d) ELSE Unreleased(d))
                      /\ \A d \in answer :
                           Known(d) /\ OwnFixes(d) # {} =>
                             \E f \in Reported :
                               /\ Concerns(f, d) /\ f.note.status = "available"
                               /\ host.family \in Ordered =>
                                    VersionRank[f.note.fix] <= VersionRank[Raw(host, d).note.fix]
    BY DEF FixIsTheHosts
  <2>1. ASSUME NEW d \in answer
        PROVE  /\ Known(d) => (Raw(host, d).note.status = "available" <=> OwnFixes(d) # {})
               /\ Raw(host, d).note.status = "available" =>
                    Raw(host, d).note.fix \in (IF Known(d) THEN OwnFixes(d) ELSE Unreleased(d))
    <3>1. host \in Hosts /\ d \in UNION Answers[host] BY DEF FoundInv
    <3>2. Raw(host, d).note = FixSuffix(host, d) BY <3>1, RawIs
    <3> QED BY <3>1, <3>2, FixSuffixIs
  <2>2. ASSUME NEW f \in Reported, f.note.status = "available"
        PROVE  \E d \in answer : Concerns(f, d) /\ f.note.fix \in (IF Known(d) THEN OwnFixes(d) ELSE Unreleased(d))
    <3>1. PICK d \in answer : /\ Concerns(f, d) /\ f.note = Raw(host, d).note
                              /\ Raw(host, d).note.status = "available"
      BY <2>2, FoundAre
    <3>2. f.note.fix \in (IF Known(d) THEN OwnFixes(d) ELSE Unreleased(d)) BY <2>1, <3>1
    <3> QED BY <3>1, <3>2
  <2>3. ASSUME NEW d \in answer, Known(d), OwnFixes(d) # {}
        PROVE  \E f \in Reported :
                 /\ Concerns(f, d) /\ f.note.status = "available"
                 /\ host.family \in Ordered => VersionRank[f.note.fix] <= VersionRank[Raw(host, d).note.fix]
    <3> DEFINE T == {Raw(host, e) : e \in Siblings(d)}
    <3>1. PICK f \in Reported : Concerns(f, d) /\ Counts(host, f, T) BY FoundAre
    <3>2. d \in Siblings(d) BY DEF Siblings, SamePackage
    <3>3. Raw(host, d) \in Fixed(T) BY <2>1, <2>3, <3>2 DEF Fixed
    <3> HIDE DEF T
    <3>4. /\ f.note.status = "available"
          /\ FixPlace(host, f.note.fix) <= FixPlace(host, Raw(host, d).note.fix)
      BY <3>1, <3>3 DEF Counts
    <3> QED BY <3>1, <3>4 DEF FixPlace
  <2> QED BY <2>2, <2>3
<1> QED BY <1>1, FoundStays, PTL

\* What is reported does not depend on which answer came first (Property 18).
THEOREM AnyOrderWillDo == Spec => []OrderFree
<1>1. FoundInv => OrderFree
  <2> SUFFICES ASSUME FoundInv, found # <<>> PROVE OrderFree BY DEF OrderFree
  <2> DEFINE n == Len(arrived)
             back == [i \in 1..n |-> arrived[n + 1 - i]]
             turned == [i \in 1..n |-> arrived[IF i = n THEN 1 ELSE i + 1]]
  <2>1. Listed(arrived) /\ found = FindingsOf(host, arrived) BY ArrivedIs
  <2>2. n \in Nat /\ DOMAIN arrived = 1..n BY LenProperties DEF FoundInv
  <2> HIDE DEF n
  <2>3. Listed(back) /\ Values(back) = Values(arrived)
    <3>1. \A i \in 1..n : n + 1 - i \in 1..n /\ n + 1 - (n + 1 - i) = i BY <2>2
    <3>2. DOMAIN back = 1..n /\ \A i \in 1..n : back[i] = arrived[n + 1 - i] OBVIOUS
    <3> HIDE DEF back
    <3>3. Listed(back) BY <2>1, <2>2, <3>1, <3>2 DEF Listed
    <3>4. \A i \in 1..n : arrived[i] = back[n + 1 - i] BY <3>1, <3>2
    <3> QED BY <2>2, <3>1, <3>2, <3>3, <3>4 DEF Values
  <2>4. Listed(turned) /\ Values(turned) = Values(arrived)
    <3>1. \A i \in 1..n : (IF i = n THEN 1 ELSE i + 1) \in 1..n BY <2>2
    <3>2. \A i \in 1..n : \E j \in 1..n : i = IF j = n THEN 1 ELSE j + 1
      <4> TAKE i \in 1..n
      <4>1. CASE i = 1 BY <2>2, <4>1
      <4>2. CASE i # 1
        <5>1. i - 1 \in 1..n /\ i - 1 # n /\ i = (i - 1) + 1 BY <2>2, <4>2
        <5> QED BY <5>1
      <4> QED BY <4>1, <4>2
    <3>3. DOMAIN turned = 1..n /\ \A i \in 1..n : turned[i] = arrived[IF i = n THEN 1 ELSE i + 1] OBVIOUS
    <3> HIDE DEF turned
    <3>4. Listed(turned) BY <2>1, <2>2, <3>1, <3>3 DEF Listed
    <3>5. \A i \in 1..n : \E j \in 1..n : arrived[i] = turned[j] BY <3>2, <3>3
    <3>6. \A j \in 1..n : \E i \in 1..n : turned[j] = arrived[i] BY <3>1, <3>3
    <3>7. Values(turned) = {turned[j] : j \in 1..n} /\ Values(arrived) = {arrived[i] : i \in 1..n}
      BY <2>2, <3>3 DEF Values
    <3>8. Values(turned) = Values(arrived) BY <3>5, <3>6, <3>7
    <3> QED BY <3>4, <3>8
  <2>5. Reported = Values(FindingsOf(host, arrived)) BY <2>1 DEF Reported, Values
  <2> HIDE DEF back, turned
  <2>6. Values(FindingsOf(host, back)) = Reported BY <2>1, <2>3, <2>5, FoundWhateverOrder
  <2>7. Values(FindingsOf(host, turned)) = Reported BY <2>1, <2>4, <2>5, FoundWhateverOrder
  <2> QED BY <2>6, <2>7 DEF OrderFree, Values, back, turned, n
<1> QED BY <1>1, FoundStays, PTL

-----------------------------------------------------------------------------
(* The kernel CNA's records, and the upstream feed.                        *)

Points == Nat \X Nat

\* Versions are in a total order.
LEMMA BelowIsOrder ==
  ASSUME NEW u \in Points, NEW v \in Points, NEW w \in Points
  PROVE  /\ ~Below(v, v)
         /\ Below(u, v) => ~Below(v, u)
         /\ Below(u, v) /\ Below(v, w) => Below(u, w)
         /\ u = v \/ Below(u, v) \/ Below(v, u)
<1>1. u = <<u[1], u[2]>> /\ v = <<v[1], v[2]>> /\ {u[1], u[2], v[1], v[2], w[1], w[2]} \subseteq Nat
  BY DEF Points
<1> QED BY <1>1 DEF Below

\* How many are earlier.
Earlier(S, f) == {g \in S : Below(g, f)}

\* Of two members the later has more before it.
LEMMA PlacesDiffer ==
  ASSUME NEW S, S \subseteq Points, IsFiniteSet(S), NEW f \in S, NEW h \in S, Below(f, h)
  PROVE  Cardinality(Earlier(S, f)) < Cardinality(Earlier(S, h))
<1>1. Earlier(S, f) \subseteq Earlier(S, h) \ {f}
  BY BelowIsOrder DEF Earlier
<1>2. f \in Earlier(S, h) /\ IsFiniteSet(Earlier(S, h))
  BY FS_Subset DEF Earlier
<1>3. /\ IsFiniteSet(Earlier(S, h) \ {f})
      /\ Cardinality(Earlier(S, h) \ {f}) = Cardinality(Earlier(S, h)) - 1
      /\ Cardinality(Earlier(S, h)) \in Nat
  BY <1>2, FS_RemoveElement, FS_CardinalityType
<1>4. /\ Cardinality(Earlier(S, f)) <= Cardinality(Earlier(S, h) \ {f})
      /\ Cardinality(Earlier(S, f)) \in Nat
  BY <1>1, <1>3, FS_Subset, FS_CardinalityType
<1> QED BY <1>3, <1>4

\* Every place is taken by one.
LEMMA PlacesTaken ==
  ASSUME NEW S, S \subseteq Points, IsFiniteSet(S)
  PROVE  /\ \A k \in 1 .. Cardinality(S) : Nth(S, k) \in S /\ Cardinality(Earlier(S, Nth(S, k))) = k - 1
         /\ \A f \in S : \E k \in 1 .. Cardinality(S) : Nth(S, k) = f
<1> DEFINE n == Cardinality(S)
           place == [f \in S |-> Cardinality(Earlier(S, f)) + 1]
<1>1. n \in Nat
  BY FS_CardinalityType
<1>2. ASSUME NEW f \in S PROVE place[f] \in 1 .. n
  <2>1. Earlier(S, f) \subseteq S \ {f}
    BY BelowIsOrder DEF Earlier
  <2>2. IsFiniteSet(S \ {f}) /\ Cardinality(S \ {f}) = n - 1
    BY FS_RemoveElement
  <2>3. Cardinality(Earlier(S, f)) <= n - 1 /\ Cardinality(Earlier(S, f)) \in Nat
    BY <2>1, <2>2, FS_Subset, FS_CardinalityType
  <2> QED BY <1>1, <2>3
<1>3. ASSUME NEW f \in S, NEW h \in S, place[f] = place[h] PROVE f = h
  <2>1. Cardinality(Earlier(S, f)) \in Nat /\ Cardinality(Earlier(S, h)) \in Nat
    BY FS_Subset, FS_CardinalityType DEF Earlier
  <2>2. ~Below(f, h) /\ ~Below(h, f)
    BY <1>3, <2>1, PlacesDiffer
  <2> QED BY <2>2, BelowIsOrder
<1>4. place \in Injection(S, 1 .. n)
  <2>1. place \in [S -> 1 .. n]
    BY <1>2
  <2> HIDE DEF place
  <2> QED BY <1>3, <2>1 DEF Injection, IsInjective
<1>5. IsFiniteSet(1 .. n) /\ Cardinality(1 .. n) = n
  BY <1>1, FS_Interval
<1>6. place \in Surjection(S, 1 .. n)
  BY <1>4, <1>5, FS_Injection
<1>7. ASSUME NEW k \in 1 .. n PROVE Nth(S, k) \in S /\ Cardinality(Earlier(S, Nth(S, k))) = k - 1
  <2>1. PICK f \in S : place[f] = k
    BY <1>6 DEF Surjection
  <2>2. Cardinality(Earlier(S, f)) \in Nat
    BY FS_Subset, FS_CardinalityType DEF Earlier
  <2>3. Cardinality({g \in S : Below(g, f)}) = k - 1
    BY <2>1, <2>2 DEF Earlier
  <2> QED BY <2>3 DEF Nth, Earlier
<1>8. ASSUME NEW f \in S PROVE \E k \in 1 .. n : Nth(S, k) = f
  <2>1. place[f] \in 1 .. n
    BY <1>2
  <2>2. Nth(S, place[f]) \in S /\ Cardinality(Earlier(S, Nth(S, place[f]))) = place[f] - 1
    BY <1>7, <2>1
  <2>3. place[Nth(S, place[f])] = place[f]
    BY <2>1, <2>2
  <2>4. Nth(S, place[f]) = f
    BY <1>3, <2>2, <2>3
  <2> QED BY <2>1, <2>4
<1> QED BY <1>7, <1>8

\* A nonempty set of versions has an earliest.
LEMMA EarliestIsOne ==
  ASSUME NEW S, S \subseteq Points, IsFiniteSet(S), S # {}
  PROVE  Earliest(S) \in S /\ \A w \in S : ~Below(w, Earliest(S))
<1>1. 1 \in 1 .. Cardinality(S)
  BY FS_CardinalityType, FS_EmptySet
<1>2. Nth(S, 1) \in S /\ Cardinality(Earlier(S, Nth(S, 1))) = 0
  BY <1>1, PlacesTaken
<1>3. Earlier(S, Nth(S, 1)) = {}
  BY <1>2, FS_Subset, FS_EmptySet DEF Earlier
<1>4. \A w \in S : ~Below(w, Nth(S, 1))
  BY <1>3 DEF Earlier
<1> QED BY <1>2, <1>4 DEF Earliest

-----------------------------------------------------------------------------
Stretch(i, f, l) == [introduced |-> i, fixed |-> f, last |-> l]

\* An event after one that opens a range closes what that one opened.
LEMMA OpenedBefore ==
  ASSUME NEW events, NEW i \in Nat, i > 1, events[i - 1].kind = "introduced"
  PROVE  Open(events, i) = events[i - 1].at
<1>1. i - 1 \in 1 .. (i - 1) /\ \A k \in (i - 1) .. (i - 1) : k = i - 1
  OBVIOUS
<1>2. i - 1 \in {j \in 1..(i - 1) : /\ events[j].kind = "introduced"
                                   /\ \A k \in j..(i - 1) : events[k].kind = "introduced"}
  BY <1>1
<1> QED BY <1>2 DEF Open

\* An event that opens a range, and one that may end it, are one stretch.
LEMMA OneStretch ==
  ASSUME NEW i, NEW x, NEW k \in {"fixed", "last_affected"}
  PROVE  /\ Stretches(<<Event("introduced", i)>>) = {Stretch(i, None, None)}
         /\ Stretches(<<Event("introduced", i), Event(k, x)>>) =
              {Stretch(i, IF k = "fixed" THEN x ELSE None, IF k = "last_affected" THEN x ELSE None)}
<1>1. Stretches(<<Event("introduced", i)>>) = {Stretch(i, None, None)}
  <2> DEFINE es == <<Event("introduced", i)>>
             Made(m) == [introduced |-> Open(es, m),
                         fixed |-> IF es[m].kind = "fixed" THEN es[m].at ELSE None,
                         last |-> IF es[m].kind = "last_affected" THEN es[m].at ELSE None]
  <2>1. Len(es) = 1 /\ DOMAIN es = {1} /\ es[1].kind = "introduced" /\ es[1].at = i
    BY DEF Event
  <2> HIDE DEF es
  <2>2. {m \in DOMAIN es : es[m].kind # "introduced"} = {}
    BY <2>1
  <2>3. {m \in DOMAIN es : m = Len(es) /\ es[m].kind = "introduced"} = {1}
    BY <2>1
  <2>4. Stretches(es) = {Made(m) : m \in {}} \cup {[introduced |-> es[m].at, fixed |-> None, last |-> None] : m \in {1}}
    BY <2>2, <2>3 DEF Stretches
  <2>5. Stretches(es) = {Stretch(i, None, None)}
    BY <2>1, <2>4 DEF Stretch
  <2> QED BY <2>5 DEF es
<1>2. Stretches(<<Event("introduced", i), Event(k, x)>>) =
              {Stretch(i, IF k = "fixed" THEN x ELSE None, IF k = "last_affected" THEN x ELSE None)}
  <2> DEFINE es == <<Event("introduced", i), Event(k, x)>>
             Made(m) == [introduced |-> Open(es, m),
                         fixed |-> IF es[m].kind = "fixed" THEN es[m].at ELSE None,
                         last |-> IF es[m].kind = "last_affected" THEN es[m].at ELSE None]
  <2>1. /\ Len(es) = 2 /\ DOMAIN es = {1, 2} /\ es[1].kind = "introduced" /\ es[1].at = i
        /\ es[2].kind = k /\ es[2].at = x
    BY DEF Event
  <2> HIDE DEF es
  <2>2. Open(es, 2) = i
    BY <2>1, OpenedBefore
  <2>3. {m \in DOMAIN es : es[m].kind # "introduced"} = {2}
    BY <2>1
  <2>4. {m \in DOMAIN es : m = Len(es) /\ es[m].kind = "introduced"} = {}
    BY <2>1
  <2>5. Stretches(es) = {Made(m) : m \in {2}}
    BY <2>3, <2>4 DEF Stretches
  <2>6. Made(2) = Stretch(i, IF k = "fixed" THEN x ELSE None, IF k = "last_affected" THEN x ELSE None)
    BY <2>1, <2>2 DEF Stretch
  <2> HIDE DEF Made
  <2>7. Stretches(es) = {Made(2)}
    BY <2>5
  <2> QED BY <2>6, <2>7 DEF es
<1> QED BY <1>1, <1>2

\* The fixes told in one range are stretches that all begin where the bug came in.
LEMMA JoinedStretches ==
  ASSUME NEW i, NEW fixes, fixes \subseteq Points, IsFiniteSet(fixes), fixes # {}
  PROVE  Stretches(Joined(i, fixes)) = {Stretch(i, f, None) : f \in fixes}
<1> DEFINE n == Cardinality(fixes)
           es == Joined(i, fixes)
<1>1. n \in Nat /\ n > 0
  BY FS_CardinalityType, FS_EmptySet
<1>2. DOMAIN es = 1 .. 2 * n /\ Len(es) = 2 * n
  <2> DEFINE V == {es[m] : m \in 1 .. 2 * n}
  <2>1. 2 * n \in Nat
    BY <1>1
  <2>2. es \in [1 .. 2 * n -> V]
    BY DEF Joined
  <2> HIDE DEF es, V
  <2>3. es \in Seq(V)
    BY <2>1, <2>2
  <2> QED BY <2>1, <2>2, <2>3
<1>3. \A m \in 1 .. 2 * n :
        /\ m % 2 = 1 => es[m].kind = "introduced" /\ es[m].at = i
        /\ m % 2 # 1 => es[m].kind = "fixed" /\ es[m].at = Nth(fixes, m \div 2)
  BY DEF Joined, Event
<1> HIDE DEF es
<1>4. ASSUME NEW k \in 1 .. n
      PROVE  /\ 2 * k \in 1 .. 2 * n
             /\ es[2 * k].kind = "fixed" /\ es[2 * k].at = Nth(fixes, k)
             /\ Open(es, 2 * k) = i
  <2>1. /\ 2 * k \in 1 .. 2 * n /\ 2 * k - 1 \in 1 .. 2 * n /\ 2 * k \in Nat /\ 2 * k > 1
        /\ (2 * k) % 2 = 0 /\ (2 * k - 1) % 2 = 1 /\ (2 * k) \div 2 = k
    BY <1>1
  <2>2. es[2 * k - 1].kind = "introduced" /\ es[2 * k - 1].at = i
    BY <1>3, <2>1
  <2>3. es[2 * k].kind = "fixed" /\ es[2 * k].at = Nth(fixes, (2 * k) \div 2)
    BY <1>3, <2>1
  <2>4. Open(es, 2 * k) = es[2 * k - 1].at
    BY <2>1, <2>2, OpenedBefore
  <2> QED BY <2>1, <2>2, <2>3, <2>4
<1>5. \A m \in 1 .. 2 * n : m % 2 = 1 \/ \E k \in 1 .. n : m = 2 * k
  <2> SUFFICES ASSUME NEW m \in 1 .. 2 * n, m % 2 # 1 PROVE \E k \in 1 .. n : m = 2 * k
    OBVIOUS
  <2>1. m \div 2 \in 1 .. n /\ m = 2 * (m \div 2)
    BY <1>1
  <2> QED BY <2>1
<1>6. {m \in DOMAIN es : es[m].kind # "introduced"} = {2 * k : k \in 1 .. n}
  <2>1. \A m \in 1 .. 2 * n : m % 2 = 1 => es[m].kind = "introduced"
    BY <1>3
  <2>2. \A k \in 1 .. n : 2 * k \in DOMAIN es /\ es[2 * k].kind # "introduced"
    BY <1>2, <1>4
  <2> QED BY <1>2, <1>5, <2>1, <2>2
<1>7. {m \in DOMAIN es : m = Len(es) /\ es[m].kind = "introduced"} = {}
  <2>1. n \in 1 .. n
    BY <1>1
  <2>2. es[2 * n].kind = "fixed"
    BY <1>4, <2>1
  <2> QED BY <1>2, <2>2
<1> DEFINE Made(m) == Stretch(Open(es, m), IF es[m].kind = "fixed" THEN es[m].at ELSE None,
                              IF es[m].kind = "last_affected" THEN es[m].at ELSE None)
<1>8. Stretches(es) = {Made(m) : m \in {2 * k : k \in 1 .. n}}
  BY <1>6, <1>7 DEF Stretches, Stretch
<1>9. \A k \in 1 .. n : Made(2 * k) = Stretch(i, Nth(fixes, k), None)
  BY <1>4
<1> HIDE DEF Made
<1>10. Stretches(es) = {Stretch(i, Nth(fixes, k), None) : k \in 1 .. n}
  BY <1>8, <1>9
<1>11. /\ \A k \in 1 .. n : Nth(fixes, k) \in fixes
       /\ \A f \in fixes : \E k \in 1 .. n : Nth(fixes, k) = f
  BY PlacesTaken
<1>12. {Stretch(i, Nth(fixes, k), None) : k \in 1 .. n} = {Stretch(i, f, None) : f \in fixes}
  BY <1>11
<1> QED BY <1>10, <1>12 DEF es

-----------------------------------------------------------------------------
FixesOf(b) == Backports(b) \cup MainFix(b)

\* A kernel is a series and a place in it.
LEMMA OneKernel ==
  ASSUME NEW v \in Kernels
  PROVE  /\ v = <<v[1], v[2]>> /\ v[1] \in Series /\ v[2] \in Builds
         /\ v[1] \in Nat /\ v[1] # 0 /\ v[2] \in Nat /\ v \in Points
<1>1. PICK s \in Series, n \in Builds : v = <<s, n>>
  BY DEF Kernels
<1>2. s \in Nat /\ s # 0 /\ n \in Nat
  BY BugAssumption
<1> QED BY <1>1, <1>2 DEF Points

\* What a bug is made of.
LEMMA BugTypes ==
  ASSUME NEW b \in Bugs
  PROVE  /\ b.intro \in Points /\ b.intro[1] # 0 /\ b.intro = <<b.intro[1], b.intro[2]>>
         /\ b.main \in Nat /\ b.told \in {"apart", "joined", "last"}
         /\ \A s \in Series : s \in Nat \ {0} /\ b.back[s] \in Nat
         /\ FixesOf(b) \subseteq Points /\ IsFiniteSet(FixesOf(b))
         /\ \A f \in FixesOf(b) : f[1] # 0
<1>1. b.intro \in Kernels /\ b.main \in Series \cup {0} /\ b.back \in [Series -> Builds] /\ b.told \in {"apart", "joined", "last"}
  BY DEF Bugs
<1>2. b.intro \in Points /\ b.intro[1] # 0 /\ b.intro = <<b.intro[1], b.intro[2]>>
  BY <1>1, OneKernel
<1>3. b.main \in Nat
  <2>1. Series \cup {0} \subseteq Nat
    BY BugAssumption
  <2> QED BY <1>1, <2>1
<1>4. \A s \in Series : s \in Nat \ {0} /\ b.back[s] \in Nat
  BY <1>1, BugAssumption
<1>5. FixesOf(b) \subseteq Points /\ \A f \in FixesOf(b) : f[1] # 0
  BY <1>3, <1>4 DEF FixesOf, Backports, MainFix, Points
<1>6. IsFiniteSet(FixesOf(b))
  <2> DEFINE S == {s \in Series : b.back[s] > 0}
             place == [s \in S |-> <<s, b.back[s]>>]
  <2>1. IsFiniteSet(S)
    BY BugAssumption, FS_Subset
  <2>2. place \in Surjection(S, Backports(b))
    BY DEF Surjection, Backports
  <2>3. IsFiniteSet(Backports(b))
    BY <2>1, <2>2, FS_Surjection
  <2>4. IsFiniteSet(MainFix(b))
    BY FS_EmptySet, FS_Singleton DEF MainFix
  <2> QED BY <2>3, <2>4, FS_Union DEF FixesOf
<1> QED BY <1>1, <1>2, <1>3, <1>4, <1>5, <1>6

\* However a record is made, its ranges are one for each fix, one that ends with
\* the last version that has the bug, or one without end.
LEMMA WhatIsTold ==
  ASSUME NEW b \in Bugs, NEW r
  PROVE  r \in Ranges(RecordOf(b)) <=>
           \/ \E f \in FixesOf(b) : r = Stretch(b.intro, f, None)
           \/ b.told = "last" /\ r = Stretch(b.intro, None, Last(b))
           \/ FixesOf(b) = {} /\ b.told # "last" /\ r = Stretch(b.intro, None, None)
<1> DEFINE F == FixesOf(b)
           Apart(f) == <<Event("introduced", b.intro), Event("fixed", f)>>
           Ending == <<Event("introduced", b.intro), Event("last_affected", Last(b))>>
<1>1. r \in Ranges(RecordOf(b)) <=> \E es \in RecordOf(b) : r \in Stretches(es)
  BY DEF Ranges
<1>2. CASE F = {} /\ b.told # "last"
  <2>1. RecordOf(b) = {<<Event("introduced", b.intro)>>}
    BY <1>2 DEF RecordOf, FixesOf
  <2>2. Stretches(<<Event("introduced", b.intro)>>) = {Stretch(b.intro, None, None)}
    BY OneStretch
  <2> QED BY <1>1, <1>2, <2>1, <2>2
<1>3. CASE F # {} /\ b.told = "joined"
  <2>1. RecordOf(b) = {Joined(b.intro, F)}
    BY <1>3 DEF RecordOf, FixesOf
  <2>2. Stretches(Joined(b.intro, F)) = {Stretch(b.intro, f, None) : f \in F}
    BY <1>3, BugTypes, JoinedStretches
  <2> QED BY <1>1, <1>3, <2>1, <2>2
<1>4. CASE F # {} /\ b.told = "apart"
  <2>1. RecordOf(b) = {Apart(f) : f \in F}
    BY <1>4 DEF RecordOf, FixesOf
  <2>2. \A f \in F : Stretches(Apart(f)) = {Stretch(b.intro, f, None)}
    BY OneStretch
  <2> HIDE DEF Apart
  <2> QED BY <1>1, <1>4, <2>1, <2>2
<1>5. CASE b.told = "last"
  <2>1. RecordOf(b) = {Apart(f) : f \in F} \cup {Ending}
    BY <1>5 DEF RecordOf, FixesOf
  <2>2. \A f \in F : Stretches(Apart(f)) = {Stretch(b.intro, f, None)}
    BY OneStretch
  <2>3. Stretches(Ending) = {Stretch(b.intro, None, Last(b))}
    BY OneStretch
  <2> HIDE DEF Apart, Ending
  <2> QED BY <1>1, <1>5, <2>1, <2>2, <2>3
<1> QED BY <1>2, <1>3, <1>4, <1>5, BugTypes

\* A record tells every fix, and no other.
LEMMA FixesTold ==
  ASSUME NEW b \in Bugs
  PROVE  Fixes(Ranges(RecordOf(b))) = FixesOf(b)
<1>1. \A f \in FixesOf(b) : f # None
  BY BugTypes DEF None
<1>2. \A f \in FixesOf(b) : Stretch(b.intro, f, None) \in Ranges(RecordOf(b)) /\ Stretch(b.intro, f, None).fixed = f
  BY WhatIsTold DEF Stretch
<1>3. \A r \in Ranges(RecordOf(b)) : r.fixed \in FixesOf(b) \cup {None}
  BY WhatIsTold DEF Stretch
<1> QED BY <1>1, <1>2, <1>3 DEF Fixes

\* When a kernel is in a range of the record.
LEMMA Hit ==
  ASSUME NEW b \in Bugs, NEW v \in Kernels
  PROVE  (\E r \in Ranges(RecordOf(b)) : InRange(v, r)) <=>
           /\ ~Below(v, b.intro)
           /\ \/ \E f \in FixesOf(b) : Below(v, f)
              \/ b.told = "last" /\ ~Below(Last(b), v)
              \/ FixesOf(b) = {} /\ b.told # "last"
<1>1. \A f \in FixesOf(b) : f # None
  BY BugTypes DEF None
<1>2. ASSUME b.told = "last" PROVE Last(b) # None
  <2>1. b.main > b.intro[1] /\ b.intro[1] \in Nat /\ b.intro[1] # 0
    BY <1>2, BugTypes DEF Bugs, Points
  <2> QED BY <2>1, BugTypes DEF Last, None
<1>3. \A f : InRange(v, Stretch(b.intro, f, None)) <=> ~Below(v, b.intro) /\ (f # None => Below(v, f))
  BY DEF InRange, Stretch
<1>4. InRange(v, Stretch(b.intro, None, Last(b))) <=> ~Below(v, b.intro) /\ (Last(b) # None => ~Below(Last(b), v))
  BY DEF InRange, Stretch
<1>5. \A f \in FixesOf(b) : InRange(v, Stretch(b.intro, f, None)) <=> ~Below(v, b.intro) /\ Below(v, f)
  BY <1>1, <1>3
<1>6. InRange(v, Stretch(b.intro, None, None)) <=> ~Below(v, b.intro)
  BY <1>3
<1>7. (\E r \in Ranges(RecordOf(b)) : InRange(v, r)) <=>
        \/ \E f \in FixesOf(b) : InRange(v, Stretch(b.intro, f, None))
        \/ b.told = "last" /\ InRange(v, Stretch(b.intro, None, Last(b)))
        \/ FixesOf(b) = {} /\ b.told # "last" /\ InRange(v, Stretch(b.intro, None, None))
  BY WhatIsTold
<1> QED BY <1>2, <1>4, <1>5, <1>6, <1>7

-----------------------------------------------------------------------------
\* Where a fix is, and that it is one.
LEMMA OneFix ==
  ASSUME NEW b \in Bugs, NEW f \in FixesOf(b)
  PROVE  /\ f = <<f[1], f[2]>> /\ f[1] \in Nat /\ f[2] \in Nat /\ f[1] \in Series /\ f # None
         /\ \/ f[1] = b.main /\ f[2] = 0
            \/ f[1] < b.main /\ f[2] = b.back[f[1]] /\ f[2] > 0 /\ Below(b.intro, f)
         /\ f[1] <= b.main /\ b.main # 0 /\ b.main \in Nat /\ ~HasBug(b, f)
<1>1. b.main \in Nat /\ \A s \in Series : s \in Nat /\ b.back[s] \in Nat
  BY BugTypes
<1>2. f # None
  BY BugTypes DEF None
<1>3. CASE f \in Backports(b)
  <2>1. f = <<f[1], f[2]>> /\ f[1] \in Series /\ f[2] = b.back[f[1]] /\ f[2] > 0 /\ b.main # 0 /\ f[1] < b.main /\ Below(b.intro, f)
    BY <1>3 DEF Backports, Bugs
  <2>2. f[1] \in Nat /\ f[2] \in Nat
    BY <1>1, <2>1
  <2>3. ~HasBug(b, f)
    BY <2>1, <2>2 DEF HasBug
  <2> QED BY <1>1, <1>2, <2>1, <2>2, <2>3
<1>4. CASE f \in MainFix(b)
  <2>1. f = <<f[1], f[2]>> /\ f[1] = b.main /\ f[2] = 0 /\ b.main # 0 /\ f[1] \in Series
    BY <1>4 DEF MainFix, Bugs
  <2>2. ~HasBug(b, f)
    BY <1>1, <2>1 DEF HasBug
  <2> QED BY <1>1, <1>2, <2>1, <2>2
<1> QED BY <1>3, <1>4 DEF FixesOf

\* What is fixed, and where.
LEMMA WhereFixed ==
  ASSUME NEW b \in Bugs, NEW s \in Series
  PROVE  /\ b.back[s] > 0 => <<s, b.back[s]>> \in FixesOf(b)
         /\ b.main # 0 /\ b.told # "last" => <<b.main, 0>> \in FixesOf(b)
         /\ b.main = 0 => FixesOf(b) = {} /\ b.told # "last"
<1>1. b.back[s] > 0 => <<s, b.back[s]>> \in FixesOf(b)
  BY DEF FixesOf, Backports
<1>2. b.main # 0 /\ b.told # "last" => <<b.main, 0>> \in FixesOf(b)
  BY DEF FixesOf, MainFix
<1>3. b.main = 0 => FixesOf(b) = {} /\ b.told # "last"
  BY OneFix DEF Bugs
<1> QED BY <1>1, <1>2, <1>3

\* Without a fix of its own series, a kernel is in a range exactly if it has
\* the bug.
LEMMA RangesTell ==
  ASSUME NEW b \in Bugs, NEW v \in Kernels, \A f \in FixesOf(b) : f[1] # v[1]
  PROVE  (\E r \in Ranges(RecordOf(b)) : InRange(v, r)) <=> HasBug(b, v)
<1> DEFINE s == v[1]
           n == v[2]
<1>1. v = <<s, n>> /\ s \in Series /\ n \in Builds /\ s \in Nat /\ n \in Nat
  BY OneKernel
<1>2. b.main \in Nat /\ b.back[s] \in Nat
  BY <1>1, BugTypes
<1> HIDE DEF s, n
<1>3. b.back[s] = 0
  <2>1. b.back[s] > 0 => <<s, b.back[s]>> \in FixesOf(b)
    BY <1>1, WhereFixed
  <2>2. <<s, b.back[s]>> \notin FixesOf(b)
    BY DEF s
  <2> QED BY <1>2, <2>1, <2>2
<1>4. HasBug(b, v) <=> ~Below(v, b.intro) /\ (b.main # 0 => s < b.main)
  BY <1>3 DEF HasBug, s
<1>5. ASSUME NEW f \in FixesOf(b) PROVE /\ Below(v, f) <=> s < f[1]
                                        /\ Below(v, f) => s < b.main
                                        /\ b.main # 0
  <2>1. f[1] \in Nat /\ f[1] # s /\ f[1] <= b.main /\ b.main # 0
    BY OneFix DEF s
  <2> QED BY <1>1, <1>2, <2>1 DEF Below, s
<1>6. ASSUME b.told = "last" PROVE ~Below(Last(b), v) <=> s < b.main
  <2>1. PICK last \in Builds : Last(b) = <<b.main - 1, last>> /\ \A m \in Builds : m <= last
    BY BugAssumption DEF Last
  <2>2. b.main # 0
    BY <1>1, <1>6, WhereFixed
  <2>3. last \in Nat /\ n <= last
    BY <1>1, <2>1, BugAssumption
  <2> QED BY <1>1, <1>2, <2>1, <2>2, <2>3 DEF Below
<1>7. CASE b.main = 0
  <2>1. FixesOf(b) = {} /\ b.told # "last"
    BY <1>1, <1>7, WhereFixed
  <2> QED BY <1>4, <1>7, <2>1, Hit
<1>8. CASE b.main # 0 /\ b.told = "last"
  BY <1>4, <1>5, <1>6, <1>8, Hit
<1>9. CASE b.main # 0 /\ b.told # "last"
  <2>1. <<b.main, 0>> \in FixesOf(b)
    BY <1>1, <1>9, WhereFixed
  <2>2. s < b.main => Below(v, <<b.main, 0>>)
    BY <1>5, <2>1
  <2> QED BY <1>4, <1>5, <1>9, <2>1, <2>2, Hit
<1> QED BY <1>7, <1>8, <1>9

Right(b, v, d) ==
  /\ HasBug(b, v) => d.hit
  /\ d.hit /\ ~HasBug(b, v) => b.intro[1] = v[1] /\ Below(v, b.intro)
  /\ d.hit /\ d.fixed # None => d.fixed[1] = v[1] /\ Below(v, d.fixed) /\ ~HasBug(b, d.fixed)
  /\ d.hit /\ d.elsewhere # None => d.elsewhere[1] > v[1] /\ ~HasBug(b, d.elsewhere)
  /\ d.hit /\ d.fixed = None /\ d.elsewhere = None => \A f \in FixesOf(b) : f[1] < v[1]

\* The verdict where the kernel's own series has a fix.
LEMMA OwnDecides ==
  ASSUME NEW b \in Bugs, NEW v \in Kernels, NEW g \in FixesOf(b), g[1] = v[1]
  PROVE  Right(b, v, UpstreamVerdict(v, Ranges(RecordOf(b))))
<1> DEFINE own == {f \in Fixes(Ranges(RecordOf(b))) : f[1] = v[1]}
           d == UpstreamVerdict(v, Ranges(RecordOf(b)))
<1>1. own = {f \in FixesOf(b) : f[1] = v[1]}
  BY FixesTold
<1>2. own \subseteq Points /\ IsFiniteSet(own) /\ own # {}
  BY <1>1, BugTypes, FS_Subset
<1>3. PICK e \in own : e = Earliest(own)
  BY <1>2, EarliestIsOne
<1>4. d = [hit |-> Below(v, e), fixed |-> e, elsewhere |-> None]
  BY <1>2, <1>3 DEF UpstreamVerdict
<1>5. e \in FixesOf(b) /\ e[1] = v[1]
  BY <1>1
<1>6. /\ e = <<e[1], e[2]>> /\ e[1] \in Nat /\ e[2] \in Nat /\ e # None /\ b.main \in Nat /\ b.main # 0
      /\ \/ e[1] = b.main /\ e[2] = 0
         \/ e[1] < b.main /\ e[2] = b.back[e[1]] /\ e[2] > 0 /\ Below(b.intro, e)
      /\ ~HasBug(b, e)
  BY <1>5, OneFix
<1>7. v[1] \in Nat /\ v[2] \in Nat
  BY OneKernel
<1>8. HasBug(b, v) => Below(v, e)
  BY <1>5, <1>6, <1>7 DEF HasBug, Below
<1>9. Below(v, e) /\ ~HasBug(b, v) => b.intro[1] = v[1] /\ Below(v, b.intro)
  <2> SUFFICES ASSUME Below(v, e), ~HasBug(b, v) PROVE b.intro[1] = v[1] /\ Below(v, b.intro)
    OBVIOUS
  <2>1. v[2] < e[2]
    BY <1>5, <1>6, <1>7 DEF Below
  <2>2. e[1] < b.main /\ e[2] = b.back[e[1]] /\ Below(b.intro, e)
    BY <1>6, <1>7, <2>1
  <2>3. Below(v, b.intro)
    BY <1>5, <2>1, <2>2 DEF HasBug
  <2>4. b.intro[1] \in Nat
    BY BugTypes DEF Points
  <2>5. b.intro[1] <= v[1] /\ v[1] <= b.intro[1]
    BY <1>5, <1>7, <2>2, <2>3, <2>4 DEF Below
  <2> QED BY <1>7, <2>3, <2>4, <2>5
<1> HIDE DEF d
<1> QED BY <1>4, <1>5, <1>6, <1>8, <1>9 DEF Right, d

\* The verdict where it has none.
LEMMA RangesDecide ==
  ASSUME NEW b \in Bugs, NEW v \in Kernels, \A f \in FixesOf(b) : f[1] # v[1]
  PROVE  Right(b, v, UpstreamVerdict(v, Ranges(RecordOf(b))))
<1> DEFINE newer == {f \in Fixes(Ranges(RecordOf(b))) : f[1] > v[1]}
           d == UpstreamVerdict(v, Ranges(RecordOf(b)))
<1>1. newer = {f \in FixesOf(b) : f[1] > v[1]} /\ {f \in Fixes(Ranges(RecordOf(b))) : f[1] = v[1]} = {}
  BY FixesTold
<1>2. /\ d.hit <=> \E r \in Ranges(RecordOf(b)) : InRange(v, r)
      /\ d.fixed = None /\ d.elsewhere = FixedElsewhere(v, Ranges(RecordOf(b)))
  BY <1>1 DEF UpstreamVerdict, ByRanges
<1> HIDE DEF d
<1>3. d.hit <=> HasBug(b, v)
  BY <1>2, RangesTell
<1>4. CASE newer = {}
  <2>1. d.elsewhere = None
    BY <1>2, <1>4 DEF FixedElsewhere
  <2>2. ASSUME NEW f \in FixesOf(b) PROVE f[1] < v[1]
    <3>1. f[1] \in Nat /\ v[1] \in Nat /\ f[1] # v[1]
      BY OneFix, OneKernel
    <3>2. ~(f[1] > v[1])
      BY <1>1, <1>4
    <3> QED BY <3>1, <3>2
  <2> QED BY <1>2, <1>3, <2>1, <2>2 DEF Right, d
<1>5. CASE newer # {}
  <2>1. newer \subseteq Points /\ IsFiniteSet(newer)
    BY <1>1, BugTypes, FS_Subset
  <2>2. PICK e \in newer : e = Earliest(newer)
    BY <1>5, <2>1, EarliestIsOne
  <2>3. d.elsewhere = e
    BY <1>2, <1>5, <2>2 DEF FixedElsewhere
  <2>4. e[1] > v[1] /\ ~HasBug(b, e) /\ e # None
    <3>1. e \in FixesOf(b) /\ e[1] > v[1]
      BY <1>1
    <3> QED BY <3>1, OneFix
  <2> QED BY <1>2, <1>3, <2>3, <2>4 DEF Right, d
<1> QED BY <1>4, <1>5

\* The verdict is the feed's on the record of what happened.
BugInv ==
  /\ bug \in Bugs /\ kernel \in Kernels \cup {None}
  /\ kernel # None => verdict = UpstreamVerdict(kernel, Ranges(RecordOf(bug)))

\* What the upstream feed says of a kernel is what happened to the kernel's sources:
\* for any series, any places in them and any history of a bug, told in any of the
\* three ways (kernel_feeds.py, Property 21).
THEOREM UpstreamIsRight == BugSpec => []SeriesDecides
<1>1. BugInit => BugInv
  BY DEF BugInit, BugInv
<1>2. BugInv /\ [BugNext]_bugVars => BugInv'
  BY DEF BugInv, BugNext, Ask, bugVars
<1>3. BugInv => SeriesDecides
  <2> SUFFICES ASSUME BugInv, kernel # None PROVE Right(bug, kernel, verdict)
    BY DEF SeriesDecides, Right, FixesOf
  <2>1. bug \in Bugs /\ kernel \in Kernels /\ verdict = UpstreamVerdict(kernel, Ranges(RecordOf(bug)))
    BY DEF BugInv
  <2> QED BY <2>1, OwnDecides, RangesDecide
<1> QED BY <1>1, <1>2, <1>3, PTL DEF BugSpec

-----------------------------------------------------------------------------
(* The tag of a kernel feed.                                               *)

Refreshing == [at : {"idle", "asking", "pending", "loaded"}, asked : {NoTag} \cup Seq(Contents), cached : Nat,
               pages : Seq(Contents), result : {"none", "table", "unchanged", "failed"}, loaded : {NoTag} \cup Seq(Contents)]

\* What a refresh that is under way was given, and what it read.
Working(r) ==
  /\ r.asked # NoTag => r.cached > 0 /\ stored # <<>>
  /\ r.result = "unchanged" \/ r.at = "loaded" => r.asked # NoTag
  /\ r.result = "table" => r.pages # <<>>

FeedType ==
  /\ serving \in Contents /\ stored \in Seq(Contents)
  /\ row \in [refreshed : BOOLEAN, count : Nat, tag : {NoTag} \cup Seq(Contents)]
  /\ refresh \in [Refreshers -> Refreshing]
  /\ mistagged \in BOOLEAN

FeedInv ==
  /\ FeedType
  /\ \A r \in Refreshers : Working(refresh[r])
  /\ row.refreshed <=> stored # <<>>
  /\ row.refreshed => row.count > 0
  /\ ~mistagged =>
       /\ row.tag \in {NoTag, stored}
       /\ \A r \in Refreshers \ overtaken : refresh[r].at # "idle" => refresh[r].asked \in {NoTag, stored}

\* A refresh made of another one's fields.
LEMMA RefreshMade ==
  ASSUME NEW at \in {"idle", "asking", "pending", "loaded"}, NEW asked \in {NoTag} \cup Seq(Contents), NEW cached \in Nat,
         NEW pages \in Seq(Contents), NEW result \in {"none", "table", "unchanged", "failed"},
         NEW loaded \in {NoTag} \cup Seq(Contents)
  PROVE  [at |-> at, asked |-> asked, cached |-> cached, pages |-> pages, result |-> result, loaded |-> loaded] \in Refreshing
  BY DEF Refreshing

\* What a refresh is made of.
LEMMA RefreshFields ==
  ASSUME NEW q \in Refreshing
  PROVE  /\ q = [at |-> q.at, asked |-> q.asked, cached |-> q.cached, pages |-> q.pages, result |-> q.result, loaded |-> q.loaded]
         /\ q.asked \in {NoTag} \cup Seq(Contents) /\ q.cached \in Nat /\ q.pages \in Seq(Contents)
         /\ q.result \in {"none", "table", "unchanged", "failed"} /\ q.loaded \in {NoTag} \cup Seq(Contents)
  BY DEF Refreshing

Answering(q, result, pages) == [q EXCEPT !.at = "pending", !.result = result, !.pages = pages]

LEMMA AnsweringIs ==
  ASSUME NEW q \in Refreshing, NEW result, NEW pages
  PROVE  Answering(q, result, pages) =
           [at |-> "pending", asked |-> q.asked, cached |-> q.cached, pages |-> pages, result |-> result, loaded |-> q.loaded]
<1> DEFINE q1 == [q EXCEPT !.at = "pending"]
           q2 == [q1 EXCEPT !.result = result]
           q3 == [q2 EXCEPT !.pages = pages]
<1>1. q = [at |-> q.at, asked |-> q.asked, cached |-> q.cached, pages |-> q.pages, result |-> q.result, loaded |-> q.loaded]
  BY RefreshFields
<1>2. q1 = [at |-> "pending", asked |-> q.asked, cached |-> q.cached, pages |-> q.pages, result |-> q.result, loaded |-> q.loaded]
  BY <1>1
<1> HIDE DEF q1
<1>3. q2 = [at |-> "pending", asked |-> q.asked, cached |-> q.cached, pages |-> q.pages, result |-> result, loaded |-> q.loaded]
  BY <1>2
<1> HIDE DEF q2
<1>4. q3 = [at |-> "pending", asked |-> q.asked, cached |-> q.cached, pages |-> pages, result |-> result, loaded |-> q.loaded]
  BY <1>3
<1>5. Answering(q, result, pages) = q3
  BY DEF Answering, q1, q2
<1> QED BY <1>4, <1>5

LEMMA IdleRefreshes == Idle \in Refreshing /\ Idle.at = "idle" /\ Working(Idle)
  BY DEF Idle, Refreshing, Working

\* A refresh that goes on without touching what is stored.
LEMMA GoesOn ==
  ASSUME FeedInv, NEW r \in Refreshers, NEW new \in Refreshing, Others,
         refresh' = [refresh EXCEPT ![r] = new], Working(new),
         new.at = "idle" \/ refresh[r].at # "idle",
         new.at # "idle" => new.asked = refresh[r].asked
  PROVE  FeedInv'
<1>1. refresh \in [Refreshers -> Refreshing] /\ refresh' \in [Refreshers -> Refreshing]
  BY DEF FeedInv, FeedType
<1>2. FeedType'
  BY <1>1 DEF FeedInv, FeedType, Others
<1>3. \A o \in Refreshers : refresh'[o] = IF o = r THEN new ELSE refresh[o]
  BY <1>1
<1>4. ASSUME NEW o \in Refreshers PROVE Working(refresh[o])'
  BY <1>3 DEF FeedInv, Working, Others
<1>5. ASSUME ~mistagged', NEW o \in Refreshers \ overtaken'
      PROVE  refresh'[o].at # "idle" => refresh'[o].asked \in {NoTag, stored'}
  BY <1>3, <1>5 DEF FeedInv, Others
<1> QED BY <1>2, <1>4, <1>5 DEF FeedInv, Others

\* The steps of one refresher keep the invariant, each in a lemma of its own.
LEMMA FetchHolds ==
  ASSUME FeedInv, NEW r \in Refreshers, Fetch(r)
  PROVE  FeedInv'
<1> DEFINE new == [Idle EXCEPT !.at = "asking", !.cached = Len(stored), !.asked = IF stored = <<>> THEN NoTag ELSE row.tag]
<1>1. /\ new \in Refreshing /\ new.at = "asking" /\ new.result = "none" /\ new.cached = Len(stored)
      /\ new.asked = IF stored = <<>> THEN NoTag ELSE row.tag
  <2> DEFINE asked == IF stored = <<>> THEN NoTag ELSE row.tag
             q1 == [Idle EXCEPT !.at = "asking"]
             q2 == [q1 EXCEPT !.cached = Len(stored)]
             q3 == [q2 EXCEPT !.asked = asked]
  <2>1. new = [at |-> "asking", asked |-> asked, cached |-> Len(stored), pages |-> <<>>, result |-> "none", loaded |-> NoTag]
    <3>1. q1 = [at |-> "asking", asked |-> NoTag, cached |-> 0, pages |-> <<>>, result |-> "none", loaded |-> NoTag]
      BY DEF Idle
    <3> HIDE DEF q1
    <3>2. q2 = [at |-> "asking", asked |-> NoTag, cached |-> Len(stored), pages |-> <<>>, result |-> "none", loaded |-> NoTag]
      BY <3>1
    <3> HIDE DEF q2, asked
    <3>3. q3 = [at |-> "asking", asked |-> asked, cached |-> Len(stored), pages |-> <<>>, result |-> "none", loaded |-> NoTag]
      BY <3>2
    <3>4. new = q3
      BY DEF q1, q2, asked
    <3> QED BY <3>3, <3>4
  <2>2. /\ Len(stored) \in Nat /\ <<>> \in Seq(Contents)
        /\ (IF stored = <<>> THEN NoTag ELSE row.tag) \in {NoTag} \cup Seq(Contents)
    BY DEF FeedInv, FeedType
  <2> HIDE DEF new
  <2> QED BY <2>1, <2>2, RefreshMade
<1>2. /\ refresh' = [refresh EXCEPT ![r] = new] /\ refresh[r].at = "idle"
      /\ UNCHANGED <<client, serving, stored, row, mistagged>>
  BY DEF Fetch
<1>3. overtaken' = overtaken \ {r}
  BY DEF Fetch
<1> HIDE DEF new
<1>4. refresh \in [Refreshers -> Refreshing] /\ refresh' \in [Refreshers -> Refreshing] /\ stored \in Seq(Contents)
  BY <1>1, <1>2 DEF FeedInv, FeedType
<1>5. FeedType'
  BY <1>2, <1>3, <1>4 DEF FeedInv, FeedType
<1>6. \A o \in Refreshers : refresh'[o] = IF o = r THEN new ELSE refresh[o]
  BY <1>2, <1>4
<1>7. ASSUME NEW o \in Refreshers PROVE Working(refresh[o])'
  <2>1. stored # <<>> => Len(stored) > 0
    BY <1>4
  <2> QED BY <1>1, <1>2, <1>6, <2>1 DEF FeedInv, Working
<1>8. ASSUME ~mistagged'
      PROVE  /\ row'.tag \in {NoTag, stored'}
             /\ \A o \in Refreshers \ overtaken' : refresh'[o].at # "idle" => refresh'[o].asked \in {NoTag, stored'}
  <2>1. /\ row.tag \in {NoTag, stored}
        /\ \A o \in Refreshers \ overtaken : refresh[o].at # "idle" => refresh[o].asked \in {NoTag, stored}
    BY <1>2, <1>8 DEF FeedInv
  <2> QED BY <1>1, <1>2, <1>3, <1>6, <2>1
<1> QED BY <1>2, <1>5, <1>7, <1>8 DEF FeedInv

\* A refresh that was answered, or was not.
LEMMA PendingHolds ==
  ASSUME FeedInv, NEW r \in Refreshers, refresh[r].at = "asking", Others,
         NEW result \in {"table", "unchanged", "failed"}, NEW pages \in Seq(Contents), Pending(r, result, pages),
         result = "unchanged" => refresh[r].asked # NoTag, result = "table" => pages # <<>>
  PROVE  FeedInv'
<1> DEFINE q == refresh[r]
           new == Answering(q, result, pages)
<1>1. refresh \in [Refreshers -> Refreshing] /\ q \in Refreshing /\ Working(q)
  BY DEF FeedInv, FeedType
<1>2. refresh' = [refresh EXCEPT ![r] = new]
  BY <1>1 DEF Pending, Answering
<1>3. new = [at |-> "pending", asked |-> q.asked, cached |-> q.cached, pages |-> pages, result |-> result, loaded |-> q.loaded]
  BY <1>1, AnsweringIs
<1>5. q.at = "asking"
  OBVIOUS
<1> HIDE DEF new, q
<1>6. new \in Refreshing
  BY <1>1, <1>3, RefreshMade, RefreshFields
<1>7. new.at = "pending" /\ new.asked = q.asked /\ new.cached = q.cached /\ new.result = result /\ new.pages = pages
  BY <1>3
<1>8. Working(new)
  BY <1>1, <1>7 DEF Working, q
<1> QED BY <1>2, <1>5, <1>6, <1>7, <1>8, GoesOn DEF q

LEMMA AnsweredHolds ==
  ASSUME FeedInv, NEW r \in Refreshers, refresh[r].at = "asking", Others,
         NEW pages \in Seq(Contents), pages # <<>>, Answered(r, pages)
  PROVE  FeedInv'
<1>1. <<>> \in Seq(Contents)
  OBVIOUS
<1>2. CASE refresh[r].asked # NoTag /\ Tag(pages) = refresh[r].asked
  BY <1>1, <1>2, PendingHolds DEF Answered
<1>3. CASE ~(refresh[r].asked # NoTag /\ Tag(pages) = refresh[r].asked)
  BY <1>3, PendingHolds DEF Answered
<1> QED BY <1>2, <1>3

LEMMA ReadHolds ==
  ASSUME FeedInv, NEW r \in Refreshers, NextPage(r) \/ LastPage(r) \/ Download(r)
  PROVE  FeedInv'
<1>1. /\ refresh \in [Refreshers -> Refreshing] /\ refresh[r] \in Refreshing
      /\ serving \in Contents /\ Working(refresh[r])
  BY DEF FeedInv, FeedType
<1>2. CASE NextPage(r)
  <2> DEFINE new == [refresh[r] EXCEPT !.pages = <<serving>>]
  <2>1. /\ new \in Refreshing /\ new.at = refresh[r].at /\ new.asked = refresh[r].asked /\ new.cached = refresh[r].cached
        /\ new.result = refresh[r].result /\ new.pages = <<serving>> /\ refresh[r].at = "asking"
    <3> DEFINE q == refresh[r]
    <3> HIDE DEF q
    <3>1. new = [at |-> q.at, asked |-> q.asked, cached |-> q.cached, pages |-> <<serving>>, result |-> q.result, loaded |-> q.loaded]
      BY <1>1, RefreshFields DEF q, new
    <3>2. <<serving>> \in Seq(Contents) /\ q.at = "asking"
      BY <1>1, <1>2 DEF NextPage, q
    <3>3. q \in Refreshing
      BY <1>1 DEF q
    <3> HIDE DEF new
    <3>4. new \in Refreshing
      BY <3>1, <3>2, <3>3, RefreshMade, RefreshFields
    <3> QED BY <3>1, <3>2, <3>4 DEF q
  <2>2. refresh' = [refresh EXCEPT ![r] = new] /\ Others
    BY <1>1, <1>2 DEF NextPage
  <2> HIDE DEF new
  <2>3. Working(new)
    BY <1>1, <2>1 DEF Working
  <2> QED BY <2>1, <2>2, <2>3, GoesOn
<1>3. CASE LastPage(r)
  <2>1. Append(refresh[r].pages, serving) \in Seq(Contents) /\ Append(refresh[r].pages, serving) # <<>>
    BY <1>1 DEF Refreshing
  <2> QED BY <1>3, <2>1, AnsweredHolds DEF LastPage
<1>4. CASE Download(r)
  <2>1. <<serving>> \in Seq(Contents) /\ <<serving>> # <<>>
    BY <1>1
  <2> QED BY <1>4, <2>1, AnsweredHolds DEF Download
<1> QED BY <1>2, <1>3, <1>4

LEMMA EndsHolds ==
  ASSUME FeedInv, NEW r \in Refreshers, RecordFailure(r) \/ Stop(r)
  PROVE  FeedInv'
<1>1. refresh' = [refresh EXCEPT ![r] = Idle] /\ Others
  BY DEF RecordFailure, Stop
<1> QED BY <1>1, IdleRefreshes, GoesOn

LEMMA FailHolds ==
  ASSUME FeedInv, NEW r \in Refreshers, Fail(r)
  PROVE  FeedInv'
<1>1. <<>> \in Seq(Contents)
  OBVIOUS
<1> QED BY <1>1, PendingHolds DEF Fail

LEMMA LoadHolds ==
  ASSUME FeedInv, NEW r \in Refreshers, Load(r)
  PROVE  FeedInv'
<1> DEFINE new == [refresh[r] EXCEPT !.at = "loaded", !.loaded = row.tag]
<1>1. /\ refresh \in [Refreshers -> Refreshing] /\ refresh[r] \in Refreshing /\ Working(refresh[r])
      /\ row.tag \in {NoTag} \cup Seq(Contents)
  BY DEF FeedInv, FeedType
<1>2. /\ new \in Refreshing /\ new.at = "loaded" /\ new.asked = refresh[r].asked /\ new.cached = refresh[r].cached
      /\ new.result = refresh[r].result /\ new.loaded = row.tag /\ new.pages = refresh[r].pages
  BY <1>1 DEF Refreshing
<1>3. refresh' = [refresh EXCEPT ![r] = new] /\ Others /\ refresh[r].at = "pending" /\ refresh[r].result = "unchanged"
  BY <1>1 DEF Load
<1> HIDE DEF new
<1>4. Working(new)
  BY <1>1, <1>2, <1>3 DEF Working
<1> QED BY <1>2, <1>3, <1>4, GoesOn

\* What is written when a refresh ends: the row, and with a table what is
\* stored.
LEMMA WriteHolds ==
  ASSUME FeedInv, NEW r \in Refreshers, refresh[r].at # "idle",
         stored' \in Seq(Contents), stored' # <<>>,
         NEW n \in Nat \ {0}, NEW tag \in {NoTag} \cup Seq(Contents), ~mistagged' => tag \in {NoTag, stored'},
         row' = [refreshed |-> TRUE, count |-> n, tag |-> tag],
         refresh' = [refresh EXCEPT ![r] = Idle], UNCHANGED <<client, serving>>, mistagged' \in BOOLEAN,
         overtaken' = Refreshers \/ (UNCHANGED <<stored, overtaken>> /\ (mistagged => mistagged'))
  PROVE  FeedInv'
<1>1. refresh \in [Refreshers -> Refreshing]
  BY DEF FeedInv, FeedType
<1>2. \A o \in Refreshers : refresh'[o] = IF o = r THEN Idle ELSE refresh[o]
  BY <1>1
<1>3. /\ row'.refreshed = TRUE /\ row'.count > 0 /\ row'.tag = tag
      /\ row' \in [refreshed : BOOLEAN, count : Nat, tag : {NoTag} \cup Seq(Contents)]
  OBVIOUS
<1>4. FeedType'
  BY <1>1, <1>3, IdleRefreshes DEF FeedInv, FeedType
<1>5. ASSUME NEW o \in Refreshers PROVE Working(refresh[o])'
  BY <1>2, IdleRefreshes DEF FeedInv, Working
<1>6. ASSUME ~mistagged', NEW o \in Refreshers \ overtaken'
      PROVE  refresh'[o].at # "idle" => refresh'[o].asked \in {NoTag, stored'}
  BY <1>2, <1>6, IdleRefreshes DEF FeedInv, FeedType
<1> QED BY <1>3, <1>4, <1>5, <1>6 DEF FeedInv

LEMMA ReplaceHolds ==
  ASSUME FeedInv, NEW r \in Refreshers, Replace(r)
  PROVE  FeedInv'
<1> DEFINE pages == refresh[r].pages
<1>1. pages \in Seq(Contents) /\ pages # <<>> /\ refresh[r].at = "pending"
  BY DEF FeedInv, FeedType, Refreshing, Working, Replace
<1>2. Len(pages) \in Nat \ {0} /\ Tag(pages) \in {NoTag, pages}
  BY <1>1 DEF Tag
<1>3. stored' = pages /\ row' = [refreshed |-> TRUE, count |-> Len(pages), tag |-> Tag(pages)]
  BY DEF Replace, Store
<1>4. /\ refresh' = [refresh EXCEPT ![r] = Idle] /\ UNCHANGED <<client, serving>>
      /\ overtaken' = Refreshers /\ mistagged' = FALSE
  BY DEF Replace
<1> HIDE DEF pages
<1> QED BY <1>1, <1>2, <1>3, <1>4, WriteHolds

LEMMA UnchangedHolds ==
  ASSUME FeedInv, NEW r \in Refreshers, RecordUnchanged(r)
  PROVE  FeedInv'
<1> DEFINE q == refresh[r]
<1>1. q \in Refreshing /\ Working(q) /\ q.at = "loaded" /\ stored \in Seq(Contents) /\ row.tag \in {NoTag} \cup Seq(Contents)
  BY DEF FeedInv, FeedType, RecordUnchanged
<1>2. q.cached \in Nat \ {0} /\ stored # <<>> /\ q.asked \in {NoTag} \cup Seq(Contents)
  BY <1>1 DEF Refreshing, Working
<1>3. ~mistagged => row.tag \in {NoTag, stored} /\ (r \notin overtaken => q.asked \in {NoTag, stored})
  BY <1>1 DEF FeedInv
<1> DEFINE tag == IF q.asked = q.loaded THEN row.tag ELSE q.asked
<1>4. row' = [refreshed |-> TRUE, count |-> q.cached, tag |-> tag]
  BY DEF RecordUnchanged
<1>5. /\ refresh' = [refresh EXCEPT ![r] = Idle] /\ UNCHANGED <<client, serving, stored, overtaken>>
      /\ mistagged' = (mistagged \/ (r \in overtaken /\ q.asked # q.loaded)) /\ mistagged \in BOOLEAN
  BY DEF RecordUnchanged, FeedInv, FeedType
<1>6. refresh[r].at # "idle" /\ stored' \in Seq(Contents) /\ stored' # <<>>
  BY <1>1, <1>2, <1>5
<1> HIDE DEF q
<1>7. /\ tag \in {NoTag} \cup Seq(Contents) /\ tag \in {row.tag, q.asked}
      /\ q.asked = q.loaded => tag = row.tag
  BY <1>1, <1>2
<1> HIDE DEF tag
<1>8. mistagged' \in BOOLEAN /\ (mistagged => mistagged')
  BY <1>5
<1>9. ~mistagged' => tag \in {NoTag, stored'}
  BY <1>3, <1>5, <1>7
<1> QED BY <1>2, <1>4, <1>5, <1>6, <1>7, <1>8, <1>9, WriteHolds

LEMMA FeedStep == FeedInv /\ [FeedNext]_feedVars => FeedInv'
<1> SUFFICES ASSUME FeedInv, [FeedNext]_feedVars PROVE FeedInv'
  OBVIOUS
<1>1. CASE UNCHANGED feedVars
  BY <1>1 DEF FeedInv, FeedType, Working, feedVars
<1>2. ASSUME NEW c \in Contents, Publish(c) PROVE FeedInv'
  BY <1>2 DEF FeedInv, FeedType, Working, Publish
<1> QED BY <1>1, <1>2, FetchHolds, ReadHolds, EndsHolds, FailHolds, LoadHolds, ReplaceHolds, UnchangedHolds DEF FeedNext

LEMMA FeedStart == FeedInit => FeedInv
<1> SUFFICES ASSUME FeedInit PROVE FeedInv
  OBVIOUS
<1>1. \A r \in Refreshers : refresh[r] = Idle
  BY DEF FeedInit
<1>2. FeedType
  <2>1. <<>> \in Seq(Contents) /\ refresh \in [Refreshers -> Refreshing]
    BY IdleRefreshes DEF FeedInit
  <2>2. row \in [refreshed : BOOLEAN, count : Nat, tag : {NoTag} \cup Seq(Contents)]
    BY DEF FeedInit
  <2> QED BY <2>1, <2>2 DEF FeedInit, FeedType
<1> QED BY <1>1, <1>2, IdleRefreshes DEF FeedInit, FeedInv

\* A feed keeps no other tag than its table's, so that none is skipped as unchanged
\* that is not, until a refresh finds unchanged what another has replaced since it
\* asked: for any number of refreshers, whichever overlap, and any history of what is
\* published (enrichment.py).
THEOREM TagsAreKept == FeedSpec => []TagIsOfTable
<1>1. FeedInv => TagIsOfTable
  BY DEF FeedInv, TagIsOfTable
<1> QED BY <1>1, FeedStart, FeedStep, PTL DEF FeedSpec

-----------------------------------------------------------------------------
(* The kernels of a machine.                                               *)

\* Checked only if no reason holds, and otherwise one that does is given.
LEMMA FirstOf ==
  ASSUME NEW n \in Nat, NEW reasons, DOMAIN reasons = 1..n
  PROVE  \/ FirstReason(reasons) = "checked" /\ \A i \in 1..n : ~reasons[i][1]
         \/ \E i \in 1..n : reasons[i][1] /\ FirstReason(reasons) = reasons[i][2]
<1> DEFINE holding == {i \in DOMAIN reasons : reasons[i][1]}
<1>1. CASE holding = {} BY <1>1 DEF FirstReason
<1>2. CASE holding # {}
  <2>1. \E i \in holding : \A j \in holding : i <= j 
    <3>1. holding \subseteq Nat OBVIOUS
    <3> HIDE DEF holding
    <3> QED BY <1>2, <3>1, LeastExists
  <2>2. (CHOOSE i \in holding : \A j \in holding : i <= j) \in holding BY <2>1
  <2> QED BY <1>2, <2>2 DEF FirstReason
<1> QED BY <1>1, <1>2

\* Ubuntu's reasons: the kernel that runs is installed and in the feed, or one is given.
LEMMA UbuntuReasons ==
  ASSUME NEW s, NEW is, NEW uname, NEW t, NEW f, NEW on
  PROVE  /\ UbuntuReason(s, is, uname, t, f, on) # "not_yet_scanned"
         /\ UbuntuReason(s, is, uname, t, f, on) = "checked" =>
              Running(is, uname) # {} /\ InFeed(s, t, CHOOSE i \in Running(is, uname) : TRUE)
<1> DEFINE image == CHOOSE i \in Running(is, uname) : TRUE
           reasons == <<
             <<s.release = 0, "release_unknown">>,
             <<~on, "feed_off">>,
             <<s.release = Ended, "end_of_life">>,
             <<~Usable(t, f), "feed_unavailable">>,
             <<uname = Unknown, "running_unknown">>,
             <<Running(is, uname) = {}, "running_not_installed">>,
             <<Running(is, uname) # {} /\ ~InFeed(s, t, image), "flavour_unknown">> >>
<1>1. UbuntuReason(s, is, uname, t, f, on) = FirstReason(reasons) BY DEF UbuntuReason
<1>2. DOMAIN reasons = 1..7 OBVIOUS
<1>3. \A i \in 1..7 : reasons[i][2] \notin {"checked", "not_yet_scanned"} OBVIOUS
<1>4. reasons[6][1] = (Running(is, uname) = {}) /\ reasons[7][1] = (Running(is, uname) # {} /\ ~InFeed(s, t, image))
  OBVIOUS
<1> HIDE DEF reasons
<1>5. \/ FirstReason(reasons) = "checked" /\ \A i \in 1..7 : ~reasons[i][1]
      \/ \E i \in 1..7 : reasons[i][1] /\ FirstReason(reasons) = reasons[i][2]
  BY <1>2, FirstOf
<1>6. FirstReason(reasons) # "not_yet_scanned" BY <1>3, <1>5
<1>7. FirstReason(reasons) = "checked" => ~reasons[6][1] /\ ~reasons[7][1] BY <1>3, <1>5
<1> QED BY <1>1, <1>4, <1>6, <1>7

\* The other feeds': a kernel is in the feed, or one is given.
LEMMA FeedReasons ==
  ASSUME NEW s, NEW is, NEW t, NEW f, NEW on
  PROVE  /\ FeedReason(s, is, t, f, on) # "not_yet_scanned"
         /\ FeedReason(s, is, t, f, on) = "checked" => InItsFeed(s, is, t) # {}
<1> DEFINE reasons == <<
             <<~FeedKey(s), "release_unknown">>,
             <<~on, "feed_off">>,
             <<~Usable(t, f), "feed_unavailable">>,
             <<Supported(is) = {}, "flavour_unsupported">>,
             <<InItsFeed(s, is, t) = {}, "not_in_feed">> >>
<1>1. FeedReason(s, is, t, f, on) = FirstReason(reasons) BY DEF FeedReason
<1>2. DOMAIN reasons = 1..5 OBVIOUS
<1>3. \A i \in 1..5 : reasons[i][2] \notin {"checked", "not_yet_scanned"} OBVIOUS
<1>4. reasons[5][1] = (InItsFeed(s, is, t) = {}) OBVIOUS
<1> HIDE DEF reasons
<1>5. \/ FirstReason(reasons) = "checked" /\ \A i \in 1..5 : ~reasons[i][1]
      \/ \E i \in 1..5 : reasons[i][1] /\ FirstReason(reasons) = reasons[i][2]
  BY <1>2, FirstOf
<1>6. FirstReason(reasons) # "not_yet_scanned" BY <1>3, <1>5
<1>7. FirstReason(reasons) = "checked" => ~reasons[5][1] BY <1>3, <1>5
<1> QED BY <1>1, <1>4, <1>6, <1>7

\* Two packages of one kernel have one name between them besides the family's.
LEMMA TwoNames ==
  ASSUME NEW m, NEW n, Family(m) = Family(n), m # Family(m), n # Family(n) PROVE m = n
  BY DEF Family

\* One of a kernel's packages stands for them.
LEMMA OneStandsForIt ==
  ASSUME NEW s \in Systems, NEW is, is \subseteq ImagesOf[s], NEW i \in is
  PROVE  \E j \in Representatives(is) : SameKernel(i, j)
<1>1. CASE \E j \in is : SameKernel(i, j) /\ j.name = Family(j.name)
  BY <1>1 DEF Representatives
<1>2. CASE ~\E j \in is : SameKernel(i, j) /\ j.name = Family(j.name)
  <2>1. ASSUME NEW j \in is, SameKernel(i, j) PROVE i = j
    <3>1. i.name # Family(i.name) BY <1>2 DEF SameKernel
    <3>2. j.name # Family(j.name) BY <1>2, <2>1
    <3>3. i.name = j.name BY <2>1, <3>1, <3>2, TwoNames DEF SameKernel
    <3>4. i \in ImagesOf[s] /\ j \in ImagesOf[s] OBVIOUS
    <3> QED BY <2>1, <3>3, <3>4, ImagesAssumption DEF SameKernel
  <2>2. i \in Representatives(is) BY <2>1 DEF Representatives
  <2> QED BY <2>2 DEF SameKernel
<1> QED BY <1>1, <1>2

\* Of a kernel that a feed was asked about, one package is in the feed.
LEMMA AskedIsInFeed ==
  ASSUME NEW s \in Systems, NEW is, is \subseteq ImagesOf[s], NEW t, NEW i \in InItsFeed(s, is, t)
  PROVE  /\ i \in is /\ i.name \notin UnsupportedFlavours
         /\ \E j \in is : SameKernel(i, j) /\ InFeed(s, t, j)
<1>1. i \in Supported(is) /\ Supported(is) \subseteq is BY DEF InItsFeed, Supported
<1>2. \E j \in Representatives(Supported(is)) : SameKernel(i, j) BY <1>1, OneStandsForIt
<1> DEFINE j == CHOOSE j \in Representatives(Supported(is)) : SameKernel(i, j)
<1>3. j \in Representatives(Supported(is)) /\ SameKernel(i, j) BY <1>2
<1>4. j \in is BY <1>1, <1>3 DEF Representatives
<1>5. InFeed(s, t, j) BY DEF InItsFeed
<1> QED BY <1>1, <1>3, <1>4, <1>5 DEF Supported

-----------------------------------------------------------------------------
\* What a scan looked up is what the feed it read, and the switch as it stood,
\* let it; and both stand until one of them changes.
LookedUp(f, on) ==
  /\ {c.image : c \in scan.counts} = Assessed(system, scan.images, scan.running, scan.advisories, f, on, scan.osv)
  /\ ~scan.since => fresh = f /\ enabled = on /\ (~KernelIsMatched(system) => table = scan.advisories)

ScanFields == {"done", "since", "images", "running", "advisories", "osv", "listed", "counts"}

KernelInv ==
  /\ system \in Systems
  /\ images \subseteq ImagesOf[system] /\ scan.images \subseteq ImagesOf[system]
  /\ DOMAIN scan = ScanFields
  /\ fresh \in BOOLEAN /\ enabled \in BOOLEAN
  /\ scan.done => \E f, on \in BOOLEAN : LookedUp(f, on)

\* A scan looks up what the feed it reads lets it.
LEMMA ScanKernelInv ==
  ASSUME KernelInv, NEW fetch \in BOOLEAN, NEW osv \in {"ok", "part"}, NEW answered, Scan(fetch, osv, answered)
  PROVE  KernelInv'
<1> DEFINE t == IF fetch THEN served ELSE table
           f == fetch \/ fresh
           assessed == Assessed(system, images, running, t, f, enabled, osv)
           advisories == IF KernelIsMatched(system) THEN served ELSE t
           looked == IF KernelIsMatched(system) THEN images ELSE assessed
           hits == UNION {Found(system, advisories, i) : i \in looked \cap Representatives(images)}
           findings == IF osv = "ok" THEN hits ELSE {x \in hits : x.cve \in answered}
           counted == {x \in findings : Counted(x)}
<1>1. /\ table' = t /\ fresh' = f /\ enabled' = enabled /\ system' = system /\ images' = images
      /\ DOMAIN scan' = ScanFields /\ scan'.done /\ ~scan'.since /\ scan'.images = images /\ scan'.running = running
      /\ scan'.advisories = advisories /\ scan'.osv = osv
      /\ scan'.counts = {Count(i, counted) : i \in assessed}
  <2>1. /\ table' = t /\ fresh' = f /\ UNCHANGED <<system, images, enabled>>
        /\ scan' = [done |-> TRUE, since |-> FALSE, images |-> images, running |-> running,
                    advisories |-> advisories, osv |-> osv, listed |-> findings \ counted,
                    counts |-> {Count(i, counted) : i \in assessed}]
    BY DEF Scan
  <2> HIDE DEF t, f, assessed, advisories, findings, counted
  <2> QED BY <2>1 DEF ScanFields
<1>2. {c.image : c \in scan'.counts} = assessed
  <2>1. \A i : Count(i, counted).image = i BY DEF Count
  <2> HIDE DEF assessed, counted
  <2> QED BY <1>1, <2>1
<1>3. assessed = Assessed(system, images, running, advisories, f, enabled, osv)
  <2>1. CASE KernelIsMatched(system) BY <2>1 DEF Assessed
  <2>2. CASE ~KernelIsMatched(system) BY <2>2
  <2> QED BY <2>1, <2>2
<1>4. LookedUp(f, enabled)'
  <2> HIDE DEF assessed
  <2>1. {c.image : c \in scan'.counts}
        = Assessed(system', scan'.images, scan'.running, scan'.advisories, f, enabled, scan'.osv)
    BY <1>1, <1>2, <1>3
  <2>2. ~KernelIsMatched(system') => table' = scan'.advisories BY <1>1
  <2> QED BY <1>1, <2>1, <2>2 DEF LookedUp
<1> QED BY <1>1, <1>4 DEF KernelInv

\* What changes the feed says so to the scan.
LEMMA ChangedKernelInv ==
  ASSUME KernelInv, UNCHANGED <<system, images>>, scan' = [scan EXCEPT !.since = TRUE],
         fresh' \in BOOLEAN, enabled' \in BOOLEAN
  PROVE  KernelInv'
<1>1. /\ DOMAIN scan' = ScanFields /\ scan'.since
      /\ scan'.done = scan.done /\ scan'.images = scan.images /\ scan'.running = scan.running
      /\ scan'.advisories = scan.advisories /\ scan'.osv = scan.osv /\ scan'.counts = scan.counts
  BY DEF KernelInv, ScanFields
<1>2. ASSUME scan.done PROVE \E f, on \in BOOLEAN : LookedUp(f, on)'
  <2>1. PICK f, on \in BOOLEAN : LookedUp(f, on) BY <1>2 DEF KernelInv
  <2>2. LookedUp(f, on)' BY <1>1, <2>1 DEF LookedUp
  <2> QED BY <2>2
<1> QED BY <1>1, <1>2 DEF KernelInv

\* Every step keeps what the last scan looked up, or says that the feed changed.
LEMMA KernelInvHolds == MachineSpec => []KernelInv
<1>1. MachineInit => KernelInv
  <2>1. NoScan.images = {} /\ ~NoScan.done /\ DOMAIN NoScan = ScanFields BY DEF NoScan, ScanFields
  <2> QED BY <2>1 DEF MachineInit, KernelInv
<1>2. KernelInv /\ [MachineNext]_machineVars => KernelInv'
  <2> SUFFICES ASSUME KernelInv, [MachineNext]_machineVars PROVE KernelInv' OBVIOUS
  <2>1. ASSUME NEW i \in ImagesOf[system], Install(i) \/ Remove(i) \/ Boot(i) PROVE KernelInv'
    <3>1. UNCHANGED <<system, served, table, fresh, enabled, kev, scan>> BY <2>1 DEF Install, Remove, Boot, Machine
    <3>2. images' \subseteq ImagesOf[system] BY <2>1 DEF KernelInv, Install, Remove, Boot
    <3> QED BY <3>1, <3>2 DEF KernelInv, LookedUp
  <2>2. ASSUME NEW fetch \in BOOLEAN, NEW osv \in {"ok", "part"}, NEW answered \in SUBSET Cves,
               Scan(fetch, osv, answered)
        PROVE  KernelInv'
    BY <2>2, ScanKernelInv
  <2>3. CASE Refresh BY <2>3, ChangedKernelInv DEF Refresh, Feed, KernelInv
  <2>4. CASE Age BY <2>4, ChangedKernelInv DEF Age, Feed, KernelInv
  <2>5. CASE Switch BY <2>5, ChangedKernelInv DEF Switch, Feed, KernelInv
  <2>6. ASSUME NEW a \in ServedOf[system], Serve(a) PROVE KernelInv'
    BY <2>6 DEF Serve, Feed, KernelInv, LookedUp
  <2>7. CASE UNCHANGED machineVars BY <2>7 DEF machineVars, KernelInv, LookedUp
  <2> QED BY <2>1, <2>2, <2>3, <2>4, <2>5, <2>6, <2>7 DEF MachineNext
<1> QED BY <1>1, <1>2, PTL DEF MachineSpec

-----------------------------------------------------------------------------
\* The kernels with a feed of their own are not OSV's.
LEMMA FeedOrOsv ==
  ASSUME NEW s PROVE /\ KernelFeedFor(s) # "none" => ~KernelIsMatched(s)
                     /\ KernelFeedFor(s) = "ubuntu" => s.family = "Ubuntu"
  BY DEF KernelFeedFor, KernelIsMatched

\* An image that was looked up is of a kernel that is in the feed.
LEMMA LookedUpIsInFeed ==
  ASSUME NEW s \in Systems, NEW is, is \subseteq ImagesOf[s], NEW uname, NEW t, NEW f, NEW on, NEW osv,
         NEW i \in Assessed(s, is, uname, t, f, on, osv)
  PROVE  /\ i \in is
         /\ KernelIsMatched(s) => osv = "ok"
         /\ ~KernelIsMatched(s) =>
              /\ KernelFeedFor(s) # "none"
              /\ \E j \in is : SameKernel(i, j) /\ InFeed(s, t, j)
              /\ i.name \notin UnsupportedFlavours
              /\ KernelFeedFor(s) = "ubuntu" => Uname(i) = uname
<1>1. CASE KernelIsMatched(s) BY <1>1 DEF Assessed
<1>2. CASE ~KernelIsMatched(s) /\ KernelFeedFor(s) = "ubuntu"
  <2>1. i \in Running(is, uname) /\ UbuntuReason(s, is, uname, t, f, on) = "checked" BY <1>2 DEF Assessed, Reason
  <2>2. InFeed(s, t, CHOOSE j \in Running(is, uname) : TRUE) BY <2>1, UbuntuReasons
  <2>3. PICK j \in Running(is, uname) : InFeed(s, t, j) BY <2>1, <2>2
  <2>4. i \in is /\ j \in is /\ Uname(i) = uname /\ Uname(j) = uname BY <2>1 DEF Running
  <2>5. i.version = j.version BY <2>4 DEF Uname
  <2>6. SameKernel(i, j) BY <1>2, <2>4, <2>5, ImagesAssumption DEF SameKernel
  <2>7. i.name \notin UnsupportedFlavours BY <1>2, <2>4, FeedOrOsv, ImagesAssumption
  <2> QED BY <1>2, <2>3, <2>4, <2>6, <2>7
<1>3. CASE ~KernelIsMatched(s) /\ KernelFeedFor(s) # "ubuntu"
  <2>1. KernelFeedFor(s) # "none" /\ i \in InItsFeed(s, is, t) BY <1>3 DEF Assessed
  <2> QED BY <1>3, <2>1, AskedIsInFeed
<1> QED BY <1>1, <1>2, <1>3

\* The packages of one kernel are looked up together.
LEMMA KernelsGoTogether ==
  ASSUME NEW s, KernelFeedFor(s) # "none", NEW is, NEW uname, NEW t, NEW f, NEW on, NEW osv,
         NEW i \in is, NEW k \in Assessed(s, is, uname, t, f, on, osv), SameKernel(i, k)
  PROVE  i \in Assessed(s, is, uname, t, f, on, osv)
<1>1. CASE KernelFeedFor(s) = "ubuntu"
  <2>1. k \in Running(is, uname) /\ Assessed(s, is, uname, t, f, on, osv) = Running(is, uname)
    BY <1>1, FeedOrOsv DEF Assessed
  <2>2. Uname(i) = Uname(k)
    <3>1. Flavour(i.name) = Flavour(k.name) BY DEF SameKernel, Family, Flavour
    <3> QED BY <3>1 DEF Uname, SameKernel
  <2> QED BY <2>1, <2>2 DEF Running
<1>2. CASE KernelFeedFor(s) # "ubuntu"
  <2>1. k \in InItsFeed(s, is, t) /\ Assessed(s, is, uname, t, f, on, osv) = InItsFeed(s, is, t)
    BY <1>2, FeedOrOsv DEF Assessed
  <2> DEFINE reps == Representatives(Supported(is))
             Of(n) == CHOOSE j \in reps : SameKernel(n, j)
  <2>2. k \in Supported(is) /\ InFeed(s, t, Of(k)) BY <2>1 DEF InItsFeed
  <2>3. i \in Supported(is) BY <2>2 DEF Supported, SameKernel, Family, UnsupportedFlavours
  <2>4. Of(i) = Of(k)
    <3> HIDE DEF reps
    <3>1. \A j : SameKernel(i, j) <=> SameKernel(k, j) BY DEF SameKernel
    <3> QED BY <3>1
  <2>5. InFeed(s, t, Of(i)) BY <2>2, <2>4
  <2> QED BY <2>1, <2>3, <2>5 DEF InItsFeed
<1> QED BY <1>1, <1>2

\* A feed that can check a kernel of the machine does.
LEMMA CheckedIsLookedUp ==
  ASSUME NEW s, NEW is, NEW uname, NEW t, NEW f, NEW on, NEW osv, KernelFeedFor(s) # "none"
  PROVE  /\ Reason(s, is, uname, t, f, on) # "not_yet_scanned"
         /\ Reason(s, is, uname, t, f, on) = "checked" => Assessed(s, is, uname, t, f, on, osv) # {}
  BY UbuntuReasons, FeedReasons, FeedOrOsv DEF Reason, Assessed

\* A kernel that reads as looked up was, and a machine whose kernel was not
\* checked says why: for any machines, images and feeds, where a version names one
\* kernel (services/kernel.py, repository.py:341).
THEOREM CheckedKernelsWere == MachineSpec => []CleanIsAssessed
<1>1. ASSUME KernelInv PROVE CleanIsAssessed
  <2> SUFFICES ASSUME scan.done PROVE CleanIsAssessed BY DEF CleanIsAssessed
  <2> USE <1>1
  <2>1. PICK f, on \in BOOLEAN : LookedUp(f, on) BY DEF KernelInv
  <2> DEFINE assessed == Assessed(system, scan.images, scan.running, scan.advisories, f, on, scan.osv)
  <2>2. {c.image : c \in scan.counts} = assessed BY <2>1 DEF LookedUp
  <2>3. system \in Systems /\ scan.images \subseteq ImagesOf[system] BY DEF KernelInv
  <2>4. ASSUME NEW i \in assessed
        PROVE  /\ i \in scan.images
               /\ KernelIsMatched(system) => scan.osv = "ok"
               /\ ~KernelIsMatched(system) =>
                    /\ KernelFeedFor(system) # "none"
                    /\ \E j \in scan.images : SameKernel(i, j) /\ InFeed(system, scan.advisories, j)
                    /\ i.name \notin UnsupportedFlavours
                    /\ KernelFeedFor(system) = "ubuntu" => Uname(i) = scan.running
    BY <2>3, <2>4, LookedUpIsInFeed
  <2> HIDE DEF assessed
  <2>5. ASSUME NEW i, UnfixedFor(i) # {} PROVE (\E c \in scan.counts : c.image = i) \/ (KernelIsMatched(system) /\ scan.counts # {})
    BY <2>5 DEF UnfixedFor
  <2>6. ASSUME NEW i \in assessed PROVE UnfixedFor(i) # {}
    <3>1. PICK c \in scan.counts : c.image = i BY <2>2, <2>6
    <3> QED BY <3>1 DEF UnfixedFor
  <2>7. ASSUME NEW i \in scan.images, UnfixedFor(i) # {}
        PROVE  IF KernelIsMatched(system) THEN scan.osv = "ok"
               ELSE /\ \E j \in scan.images : SameKernel(i, j) /\ InFeed(system, scan.advisories, j)
                    /\ i.name \notin UnsupportedFlavours
                    /\ KernelFeedFor(system) = "ubuntu" => Uname(i) = scan.running
    <3>1. CASE KernelIsMatched(system)
      <4>1. scan.counts # {} BY <2>5, <2>7
      <4>2. assessed # {} BY <4>1, <2>2
      <4> QED BY <3>1, <4>2, <2>4
    <3>2. CASE ~KernelIsMatched(system)
      <4>1. i \in assessed BY <2>2, <2>5, <2>7, <3>2
      <4> QED BY <3>2, <4>1, <2>4
    <3> QED BY <3>1, <3>2
  <2>8. ASSUME ~Checked, scan.images # {}, ~scan.since PROVE UncheckedReason # "not_yet_scanned"
    <3>1. CASE KernelFeedFor(system) = "none" BY <3>1 DEF UncheckedReason
    <3>2. CASE KernelFeedFor(system) # "none"
      <4>1. ~KernelIsMatched(system) BY <3>2, FeedOrOsv
      <4>2. fresh = f /\ enabled = on /\ table = scan.advisories BY <2>1, <2>8, <4>1 DEF LookedUp
      <4>3. assessed = {} BY <2>4, <2>6, <2>8, <3>2 DEF Checked
      <4>4. Reason(system, scan.images, scan.running, table, fresh, enabled) \notin {"checked", "not_yet_scanned"}
        BY <3>2, <4>2, <4>3, CheckedIsLookedUp DEF assessed
      <4> QED BY <3>2, <4>4 DEF UncheckedReason
    <3> QED BY <3>1, <3>2
  <2>9. ASSUME UncheckedImages = {}, NEW i \in scan.images PROVE KernelIsMatched(system) \/ UnfixedFor(i) # {}
    <3> SUFFICES ASSUME ~KernelIsMatched(system) PROVE UnfixedFor(i) # {} OBVIOUS
    <3>1. KernelFeedFor(system) # "none" /\ \E c \in scan.counts : c.image.version = i.version
      BY <2>9 DEF UncheckedImages
    <3>2. PICK k \in assessed : k.version = i.version BY <2>2, <3>1
    <3>3. k \in scan.images BY <2>4
    <3>4. k \in ImagesOf[system] /\ i \in ImagesOf[system] BY <2>3, <3>3
    <3>5. SameKernel(i, k) BY <2>3, <3>1, <3>2, <3>4, ImagesAssumption DEF SameKernel
    <3>6. i \in assessed
      BY <2>3, <3>1, <3>2, <3>3, <3>5, KernelsGoTogether DEF assessed
    <3> QED BY <2>6, <3>6
  <2> QED BY <2>7, <2>8, <2>9 DEF CleanIsAssessed
<1> QED BY <1>1, KernelInvHolds, PTL

-----------------------------------------------------------------------------
(* What a feed's rows say of one kernel.                                   *)

\* A nonempty finite set of versions has a latest.
LEMMA LatestExists ==
  ASSUME NEW S, S \subseteq Points, IsFiniteSet(S), S # {}
  PROVE  \E v \in S : \A w \in S : ~Below(v, w)
<1> DEFINE n == Cardinality(S)
           v == Nth(S, n)
<1>1. n \in 1 .. n /\ n \in Nat BY FS_CardinalityType, FS_EmptySet
<1>2. v \in S /\ Cardinality(Earlier(S, v)) = n - 1 BY <1>1, PlacesTaken
<1>3. ASSUME NEW w \in S, Below(v, w) PROVE FALSE
  <2>1. Cardinality(Earlier(S, v)) < Cardinality(Earlier(S, w)) BY <1>2, <1>3, PlacesDiffer
  <2>2. PICK k \in 1 .. n : Nth(S, k) = w BY PlacesTaken
  <2>3. Cardinality(Earlier(S, w)) = k - 1 BY <2>2, PlacesTaken
  <2> QED BY <1>1, <1>2, <2>1, <2>3
<1> QED BY <1>2, <1>3

\* The advisories that an image's rows are made of, and what they say.
AdvisoriesOf(s, advisories, image) ==
  {a \in advisories :
     CASE KernelFeedFor(s) = "oracle" ->
            a.dist = s.release /\ OracleStream(a.name, a.fixed) = Stream(s, image)
       [] KernelFeedFor(s) = "amazon" -> a.name = image.name
       [] KernelFeedFor(s) = "ubuntu" -> a.name = image.source
       [] OTHER -> TRUE}
Affects(s, of, image, c) ==
  IF KernelFeedFor(s) = "upstream"
  THEN \E a \in of : a.cve = c /\ UpstreamVerdict(image.version, Ranges(a.record)).hit
  ELSE LET fixes == {a.fixed : a \in {a \in of : a.cve = c}}
       IN fixes # {} /\ (fixes = {None} \/ \E x \in fixes \ {None} : Below(image.version, x))

\* The rows of an image that hit it.
Hits(s, advisories, image) ==
  {r \in Parsed(s, advisories) :
     /\ KernelFeedFor(s) \in {"upstream", "none"} \/ r.stream = Stream(s, image)
     /\ Verdict(s, image.version, r).hit}

AsServed(s, advisories) ==
  /\ IsFiniteSet(advisories)
  /\ \A a \in advisories :
       /\ a.cve \in Cves
       /\ KernelFeedFor(s) # "upstream" => a.fixed \in Points
       /\ KernelFeedFor(s) \in {"oracle", "amazon"} => a.fixed # None
       /\ KernelFeedFor(s) = "upstream" \/ KernelIsMatched(s) => \A o \in advisories : a.cve = o.cve => a = o

\* An image that can be in its feed: Oracle's kernels have names of their own.
IsNamed(s, image) == KernelFeedFor(s) = "oracle" => OracleFamily(image.name) # "none"

LEMMA FeedIsOne ==
  ASSUME NEW s PROVE KernelFeedFor(s) \in {"ubuntu", "upstream", "oracle", "amazon", "none"}
  BY DEF KernelFeedFor

\* What is kept of rows that name a CVE twice is one row of each stream.
LEMMA OneRowKept ==
  ASSUME NEW rows, NEW r \in KeepHighest(rows), NEW q \in KeepHighest(rows), SameRow(r, q),
         r.fixed \in Points, q.fixed \in Points
  PROVE  r.fixed = q.fixed
  BY BelowIsOrder DEF KeepHighest, SameRow

\* Of what is kept one row hits a kernel exactly if one of all of them does.
LEMMA HighestHits ==
  ASSUME NEW rows, IsFiniteSet(rows), \A r \in rows : r.fixed \in Points,
         NEW v \in Points, NEW stream, NEW c
  PROVE  (\E r \in KeepHighest(rows) : r.stream = stream /\ r.cve = c /\ Below(v, r.fixed))
         <=> (\E r \in rows : r.stream = stream /\ r.cve = c /\ Below(v, r.fixed))
<1> DEFINE same == {r \in rows : r.stream = stream /\ r.cve = c}
           fixes == {r.fixed : r \in same}
<1>1. SUFFICES ASSUME NEW r \in same, Below(v, r.fixed)
      PROVE  \E q \in KeepHighest(rows) : q.stream = stream /\ q.cve = c /\ Below(v, q.fixed)
  BY DEF KeepHighest
<1>2. IsFiniteSet(fixes)
  <2>1. IsFiniteSet(same) BY FS_Subset
  <2> DEFINE fixedOf == [q \in same |-> q.fixed]
  <2>2. fixedOf \in Surjection(same, fixes) BY DEF Surjection
  <2> HIDE DEF same, fixes, fixedOf
  <2> QED BY <2>1, <2>2, FS_Surjection
<1>3. fixes \subseteq Points /\ fixes # {} OBVIOUS
<1>4. PICK f \in fixes : \A w \in fixes : ~Below(f, w) BY <1>2, <1>3, LatestExists
<1>5. PICK q \in same : q.fixed = f BY <1>4
<1>6. q \in KeepHighest(rows) BY <1>4, <1>5 DEF KeepHighest, SameRow
<1>7. Below(v, q.fixed)
  <2>1. ~Below(q.fixed, r.fixed) BY <1>4, <1>5
  <2>2. q.fixed \in Points /\ r.fixed \in Points OBVIOUS
  <2>3. q.fixed = r.fixed \/ Below(r.fixed, q.fixed) BY <2>1, <2>2, BelowIsOrder
  <2> QED BY <1>1, <2>2, <2>3, BelowIsOrder
<1> QED BY <1>5, <1>6, <1>7

FixesIn(rows, stream, c) == {r.fixed : r \in {r \in rows : r.stream = stream /\ r.cve = c}}

\* Of rows with and without a fix, those kept hit a kernel exactly if no row has a
\* fix, or one has that is later.
LEMMA StatedHits ==
  ASSUME NEW rows, \A r \in rows : r.fixed \in Points, NEW v \in Points, NEW stream, NEW c
  PROVE  (\E r \in KeepStated(rows) : r.stream = stream /\ r.cve = c /\ (r.fixed = None \/ Below(v, r.fixed)))
         <=> /\ FixesIn(rows, stream, c) # {}
             /\ FixesIn(rows, stream, c) = {None} \/ \E x \in FixesIn(rows, stream, c) \ {None} : Below(v, x)
<1> DEFINE fixes == FixesIn(rows, stream, c)
<1>0. \A x : x \in fixes <=> \E r \in rows : r.stream = stream /\ r.cve = c /\ r.fixed = x BY DEF FixesIn
<1> HIDE DEF fixes
<1>1. ~Below(v, None) BY DEF Below, None, Points
<1>2. ASSUME NEW r \in KeepStated(rows), r.stream = stream, r.cve = c, r.fixed = None \/ Below(v, r.fixed)
      PROVE  fixes # {} /\ (fixes = {None} \/ \E x \in fixes \ {None} : Below(v, x))
  <2>1. r \in rows /\ r.fixed \in fixes BY <1>0, <1>2 DEF KeepStated
  <2>2. CASE r.fixed = None
    <3>1. \A o \in rows : SameRow(r, o) => o.fixed = None BY <1>2, <2>2 DEF KeepStated
    <3>2. fixes = {None} BY <1>0, <1>2, <2>1, <2>2, <3>1 DEF SameRow
    <3> QED BY <3>2
  <2>3. CASE r.fixed # None BY <1>2, <2>1, <2>3
  <2> QED BY <2>2, <2>3
<1>3. ASSUME fixes = {None}
      PROVE  \E r \in KeepStated(rows) : r.stream = stream /\ r.cve = c /\ r.fixed = None
  <2>1. PICK r \in rows : r.stream = stream /\ r.cve = c /\ r.fixed = None BY <1>0, <1>3
  <2>2. \A o \in rows : SameRow(r, o) => o.fixed = None BY <1>0, <1>3, <2>1 DEF SameRow
  <2> QED BY <2>1, <2>2 DEF KeepStated
<1>4. ASSUME NEW x \in fixes \ {None}, Below(v, x)
      PROVE  \E r \in KeepStated(rows) : r.stream = stream /\ r.cve = c /\ Below(v, r.fixed)
  <2>1. PICK r \in rows : r.stream = stream /\ r.cve = c /\ r.fixed = x BY <1>0
  <2> QED BY <1>4, <2>1 DEF KeepStated
<1> QED BY <1>2, <1>3, <1>4 DEF fixes

\* As many values as a finite domain has arguments are finitely many.
LEMMA FiniteValues == ASSUME NEW B, IsFiniteSet(B), NEW f, DOMAIN f = B PROVE IsFiniteSet({f[x] : x \in B})
<1> DEFINE S == {f[x] : x \in B}
           g == [x \in B |-> f[x]]
<1>1. g \in Surjection(B, S) BY DEF Surjection
<1>2. IsFiniteSet(S)
  <2> HIDE DEF S, g
  <2> QED BY <1>1, FS_Surjection
<1> QED BY <1>2

FixOf(s, image, r) ==
  IF Verdict(s, image.version, r).fixed # None THEN "available"
  ELSE IF Verdict(s, image.version, r).elsewhere # None THEN "newer" ELSE "none"

LEMMA FoundIs ==
  ASSUME NEW s, NEW advisories, NEW image
  PROVE  Found(s, advisories, image)
         = {[cve |-> r.cve, image |-> image, fix |-> FixOf(s, image, r)] : r \in Hits(s, advisories, image)}
  BY DEF Found, FixOf, Hits

\* The rows of Oracle's feed, each CVE once.
LEMMA OracleHits ==
  ASSUME NEW s, KernelFeedFor(s) = "oracle", NEW advisories, AsServed(s, advisories), NEW image, image.version \in Points,
         IsNamed(s, image), NEW c
  PROVE  /\ (\E r \in Hits(s, advisories, image) : r.cve = c) <=> Affects(s, AdvisoriesOf(s, advisories, image), image, c)
         /\ \A r, q \in Hits(s, advisories, image) : r.cve = c /\ q.cve = c => FixOf(s, image, r) = FixOf(s, image, q)
         /\ \A r \in Hits(s, advisories, image) : r.cve \in Cves
<1> DEFINE v == image.version
           stream == OracleStream(image.name, v)
           builds == {a \in advisories : a.dist = s.release /\ OracleFamily(a.name) # "none"}
           rowOf == [a \in builds |-> Row(OracleStream(a.name, a.fixed), a.cve, a.fixed)]
           rows == {rowOf[a] : a \in builds}
           of == AdvisoriesOf(s, advisories, image)
<1>1. IsFiniteSet(rows)
  <2>1. IsFiniteSet(builds) BY FS_Subset DEF AsServed
  <2> HIDE DEF builds
  <2>2. DOMAIN rowOf = builds OBVIOUS
  <2> HIDE DEF rowOf
  <2> QED BY <2>1, <2>2, FiniteValues
<1>2. \A a \in builds : rowOf[a].stream = OracleStream(a.name, a.fixed) /\ rowOf[a].cve = a.cve /\ rowOf[a].fixed = a.fixed
  BY DEF Row
<1>3. \A a \in builds : a.fixed \in Points /\ a.fixed # None /\ a.cve \in Cves BY DEF AsServed
<1>4. Parsed(s, advisories) = KeepHighest(rows)
  <2>1. rows = {Row(OracleStream(a.name, a.fixed), a.cve, a.fixed) : a \in builds} OBVIOUS
  <2> QED BY <2>1 DEF Parsed, OracleRows
<1>5. of = {a \in advisories : a.dist = s.release /\ OracleStream(a.name, a.fixed) = stream}
  BY DEF AdvisoriesOf, Stream
<1>6. of = {a \in builds : OracleStream(a.name, a.fixed) = stream}
  <2>1. OracleFamily(image.name) # "none" BY DEF IsNamed
  <2>2. \A a \in advisories : OracleStream(a.name, a.fixed) = stream => OracleFamily(a.name) # "none"
    BY <2>1 DEF OracleStream
  <2> QED BY <1>5, <2>2
<1> HIDE DEF builds, rowOf, of
<1>7. \A r \in rows : r.fixed \in Points /\ r.fixed # None /\ r.cve \in Cves BY <1>2, <1>3
<1>8. Hits(s, advisories, image) = {r \in KeepHighest(rows) : r.stream = stream /\ Below(v, r.fixed)}
  <2>1. \A r : Verdict(s, v, r).hit = Below(v, r.fixed) BY DEF Verdict, RpmVerdict
  <2> HIDE DEF rows
  <2> QED BY <1>4, <2>1 DEF Hits, Stream
<1>9. \A r \in Hits(s, advisories, image) : r \in rows BY <1>8 DEF KeepHighest
<1>10. \A r \in Hits(s, advisories, image) : FixOf(s, image, r) = "available"
  <2>1. \A r : Verdict(s, v, r).fixed = r.fixed BY DEF Verdict, RpmVerdict
  <2> HIDE DEF rows
  <2> QED BY <1>7, <1>9, <2>1 DEF FixOf
<1>11. (\E r \in Hits(s, advisories, image) : r.cve = c) <=> \E r \in rows : r.stream = stream /\ r.cve = c /\ Below(v, r.fixed)
  <2>1. v \in Points OBVIOUS
  <2> HIDE DEF rows, stream, v
  <2> QED BY <1>1, <1>7, <1>8, <2>1, HighestHits
<1>12. (\E r \in rows : r.stream = stream /\ r.cve = c /\ Below(v, r.fixed)) <=> \E a \in of : a.cve = c /\ Below(v, a.fixed)
  BY <1>2, <1>6
<1>13. Affects(s, of, image, c) <=> \E a \in of : a.cve = c /\ Below(v, a.fixed)
  <2>1. \A a \in of : a.fixed # None BY <1>3, <1>6
  <2> QED BY <2>1 DEF Affects
<1> QED BY <1>7, <1>9, <1>10, <1>11, <1>12, <1>13 DEF of

\* Amazon's.
LEMMA AmazonHits ==
  ASSUME NEW s, KernelFeedFor(s) = "amazon", NEW advisories, AsServed(s, advisories), NEW image, image.version \in Points,
         NEW c
  PROVE  /\ (\E r \in Hits(s, advisories, image) : r.cve = c) <=> Affects(s, AdvisoriesOf(s, advisories, image), image, c)
         /\ \A r, q \in Hits(s, advisories, image) : r.cve = c /\ q.cve = c => FixOf(s, image, r) = FixOf(s, image, q)
         /\ \A r \in Hits(s, advisories, image) : r.cve \in Cves
<1> DEFINE v == image.version
           stream == <<image.name, 0>>
           builds == advisories
           rowOf == [a \in builds |-> Row(<<a.name, 0>>, a.cve, a.fixed)]
           rows == {rowOf[a] : a \in builds}
           of == AdvisoriesOf(s, advisories, image)
<1>1. IsFiniteSet(rows)
  <2>1. IsFiniteSet(builds) BY FS_Subset DEF AsServed
  <2> HIDE DEF builds
  <2>2. DOMAIN rowOf = builds OBVIOUS
  <2> HIDE DEF rowOf
  <2> QED BY <2>1, <2>2, FiniteValues
<1>2. \A a \in builds : rowOf[a].stream = <<a.name, 0>> /\ rowOf[a].cve = a.cve /\ rowOf[a].fixed = a.fixed
  BY DEF Row
<1>3. \A a \in builds : a.fixed \in Points /\ a.fixed # None /\ a.cve \in Cves BY DEF AsServed
<1>4. Parsed(s, advisories) = KeepHighest(rows)
  <2>1. rows = {Row(<<a.name, 0>>, a.cve, a.fixed) : a \in builds} OBVIOUS
  <2> QED BY <2>1 DEF Parsed, AmazonRows
<1>6. of = {a \in builds : <<a.name, 0>> = stream} BY DEF AdvisoriesOf
<1> HIDE DEF builds, rowOf, of
<1>7. \A r \in rows : r.fixed \in Points /\ r.fixed # None /\ r.cve \in Cves BY <1>2, <1>3
<1>8. Hits(s, advisories, image) = {r \in KeepHighest(rows) : r.stream = stream /\ Below(v, r.fixed)}
  <2>1. \A r : Verdict(s, v, r).hit = Below(v, r.fixed) BY DEF Verdict, RpmVerdict
  <2> HIDE DEF rows
  <2> QED BY <1>4, <2>1 DEF Hits, Stream
<1>9. \A r \in Hits(s, advisories, image) : r \in rows BY <1>8 DEF KeepHighest
<1>10. \A r \in Hits(s, advisories, image) : FixOf(s, image, r) = "available"
  <2>1. \A r : Verdict(s, v, r).fixed = r.fixed BY DEF Verdict, RpmVerdict
  <2> HIDE DEF rows
  <2> QED BY <1>7, <1>9, <2>1 DEF FixOf
<1>11. (\E r \in Hits(s, advisories, image) : r.cve = c) <=> \E r \in rows : r.stream = stream /\ r.cve = c /\ Below(v, r.fixed)
  <2>1. v \in Points OBVIOUS
  <2> HIDE DEF rows, stream, v
  <2> QED BY <1>1, <1>7, <1>8, <2>1, HighestHits
<1>12. (\E r \in rows : r.stream = stream /\ r.cve = c /\ Below(v, r.fixed)) <=> \E a \in of : a.cve = c /\ Below(v, a.fixed)
  BY <1>2, <1>6
<1>13. Affects(s, of, image, c) <=> \E a \in of : a.cve = c /\ Below(v, a.fixed)
  <2>1. \A a \in of : a.fixed # None BY <1>3, <1>6
  <2> QED BY <2>1 DEF Affects
<1> QED BY <1>7, <1>9, <1>10, <1>11, <1>12, <1>13 DEF of

\* Ubuntu's.
LEMMA UbuntuHits ==
  ASSUME NEW s, KernelFeedFor(s) = "ubuntu", NEW advisories, AsServed(s, advisories), NEW image, image.version \in Points,
         NEW c
  PROVE  /\ (\E r \in Hits(s, advisories, image) : r.cve = c) <=> Affects(s, AdvisoriesOf(s, advisories, image), image, c)
         /\ \A r, q \in Hits(s, advisories, image) : r.cve = c /\ q.cve = c => FixOf(s, image, r) = FixOf(s, image, q)
         /\ \A r \in Hits(s, advisories, image) : r.cve \in Cves
<1> DEFINE v == image.version
           stream == <<image.source, 0>>
           rowOf == [a \in advisories |-> Row(<<a.name, 0>>, a.cve, a.fixed)]
           rows == {rowOf[a] : a \in advisories}
           of == AdvisoriesOf(s, advisories, image)
           fixes == {a.fixed : a \in {a \in of : a.cve = c}}
<1>1. \A a \in advisories : rowOf[a].stream = <<a.name, 0>> /\ rowOf[a].cve = a.cve /\ rowOf[a].fixed = a.fixed
  BY DEF Row
<1>2. \A a \in advisories : a.fixed \in Points /\ a.cve \in Cves BY DEF AsServed
<1>3. Parsed(s, advisories) = KeepStated(rows)
  <2>1. rows = {Row(<<a.name, 0>>, a.cve, a.fixed) : a \in advisories} OBVIOUS
  <2> QED BY <2>1 DEF Parsed, UbuntuRows
<1>4. of = {a \in advisories : <<a.name, 0>> = stream} BY DEF AdvisoriesOf
<1> HIDE DEF rowOf, of
<1>5. \A r \in rows : r.fixed \in Points /\ r.cve \in Cves BY <1>1, <1>2
<1>6. fixes = FixesIn(rows, stream, c) BY <1>1, <1>4 DEF FixesIn
<1>7. Hits(s, advisories, image) = {r \in KeepStated(rows) : r.stream = stream /\ (r.fixed = None \/ Below(v, r.fixed))}
  <2>1. \A r : Verdict(s, v, r).hit = (r.fixed = None \/ Below(v, r.fixed)) BY DEF Verdict, UbuntuVerdict
  <2> HIDE DEF rows
  <2> QED BY <1>3, <2>1 DEF Hits, Stream
<1>8. \A r \in Hits(s, advisories, image) : r \in rows BY <1>7 DEF KeepStated
<1>9. \A r \in Hits(s, advisories, image) : FixOf(s, image, r) = IF r.fixed # None THEN "available" ELSE "none"
  <2>1. \A r : Verdict(s, v, r).fixed = r.fixed /\ Verdict(s, v, r).elsewhere = None BY DEF Verdict, UbuntuVerdict
  <2> HIDE DEF rows
  <2> QED BY <2>1 DEF FixOf
<1>10. ASSUME NEW r \in Hits(s, advisories, image), NEW q \in Hits(s, advisories, image), r.cve = q.cve
       PROVE  FixOf(s, image, r) = FixOf(s, image, q)
  <2>1. r \in KeepStated(rows) /\ q \in KeepStated(rows) /\ r.stream = q.stream BY <1>7
  <2>2. r.fixed = None <=> q.fixed = None BY <1>10, <2>1 DEF KeepStated, SameRow
  <2> QED BY <1>9, <2>2
<1>11. (\E r \in Hits(s, advisories, image) : r.cve = c) <=> fixes # {} /\ (fixes = {None} \/ \E x \in fixes \ {None} : Below(v, x))
  <2>0. v \in Points OBVIOUS
  <2> HIDE DEF rows, fixes, stream, v
  <2>1. (\E r \in KeepStated(rows) : r.stream = stream /\ r.cve = c /\ (r.fixed = None \/ Below(v, r.fixed)))
        <=> /\ FixesIn(rows, stream, c) # {}
            /\ FixesIn(rows, stream, c) = {None} \/ \E x \in FixesIn(rows, stream, c) \ {None} : Below(v, x)
    BY <1>5, <2>0, StatedHits
  <2> QED BY <1>6, <1>7, <2>1
<1>12. Affects(s, of, image, c) <=> fixes # {} /\ (fixes = {None} \/ \E x \in fixes \ {None} : Below(v, x))
  BY DEF Affects
<1> QED BY <1>5, <1>8, <1>10, <1>11, <1>12 DEF of

\* The CNA's records, and OSV's.
LEMMA RecordHits ==
  ASSUME NEW s, KernelFeedFor(s) = "upstream" \/ KernelIsMatched(s), NEW advisories, AsServed(s, advisories),
         NEW image, image.version \in Points, NEW c
  PROVE  /\ (\E r \in Hits(s, advisories, image) : r.cve = c) <=> Affects(s, AdvisoriesOf(s, advisories, image), image, c)
         /\ \A r, q \in Hits(s, advisories, image) : r.cve = c /\ q.cve = c => FixOf(s, image, r) = FixOf(s, image, q)
         /\ \A r \in Hits(s, advisories, image) : r.cve \in Cves
<1> DEFINE v == image.version
<1>0. KernelFeedFor(s) \in {"upstream", "none"} BY FeedOrOsv
<1>1. AdvisoriesOf(s, advisories, image) = advisories BY <1>0 DEF AdvisoriesOf
<1>2. Hits(s, advisories, image) = {r \in advisories : Verdict(s, v, r).hit} BY <1>0 DEF Hits, Parsed
<1>3. \A a, o \in advisories : a.cve = o.cve => a = o BY DEF AsServed
<1>4. \A a \in advisories : a.cve \in Cves BY DEF AsServed
<1>5. CASE KernelFeedFor(s) = "upstream"
  <2>1. \A r : Verdict(s, v, r).hit = UpstreamVerdict(v, Ranges(r.record)).hit BY <1>5 DEF Verdict
  <2> QED BY <1>1, <1>2, <1>3, <1>4, <1>5, <2>1 DEF Affects
<1>6. CASE KernelFeedFor(s) = "none"
  <2> DEFINE fixes == {a.fixed : a \in {a \in advisories : a.cve = c}}
  <2>1. \A r : Verdict(s, v, r).hit = (r.fixed = None \/ Below(v, r.fixed)) BY <1>6 DEF Verdict, UbuntuVerdict
  <2>2. ~Below(v, None) BY DEF Below, None, Points
  <2>3. ASSUME NEW a \in advisories, a.cve = c PROVE fixes = {a.fixed} BY <1>3, <2>3
  <2>4. Affects(s, advisories, image, c) <=> fixes # {} /\ (fixes = {None} \/ \E x \in fixes \ {None} : Below(v, x))
    BY <1>6 DEF Affects
  <2>5. ASSUME NEW a \in advisories, a.cve = c
        PROVE  Verdict(s, v, a).hit <=> Affects(s, advisories, image, c)
    BY <2>1, <2>2, <2>3, <2>4, <2>5
  <2>6. Affects(s, advisories, image, c) => \E a \in advisories : a.cve = c BY <2>4
  <2> HIDE DEF fixes
  <2>7. (\E r \in Hits(s, advisories, image) : r.cve = c) => Affects(s, advisories, image, c)
    BY <1>2, <2>5
  <2>8. ASSUME Affects(s, advisories, image, c) PROVE \E r \in Hits(s, advisories, image) : r.cve = c
    <3>1. PICK a \in advisories : a.cve = c BY <2>6, <2>8
    <3>2. Verdict(s, v, a).hit BY <2>5, <2>8, <3>1
    <3> QED BY <1>2, <3>1, <3>2
  <2> QED BY <1>1, <1>2, <1>3, <1>4, <2>7, <2>8
<1> QED BY <1>0, <1>5, <1>6

\* A kernel of the machine can be looked up, in a feed or in OSV.
Checkable(s) == KernelFeedFor(s) # "none" \/ KernelIsMatched(s)

\* However the feed is made, a CVE has a hit exactly if the advisories say so.
LEMMA HitsAffect ==
  ASSUME NEW s, Checkable(s), NEW advisories, AsServed(s, advisories),
         NEW image, image.version \in Points, IsNamed(s, image), NEW c
  PROVE  /\ (\E r \in Hits(s, advisories, image) : r.cve = c) <=> Affects(s, AdvisoriesOf(s, advisories, image), image, c)
         /\ \A r, q \in Hits(s, advisories, image) : r.cve = c /\ q.cve = c => FixOf(s, image, r) = FixOf(s, image, q)
         /\ \A r \in Hits(s, advisories, image) : r.cve \in Cves
<1>1. CASE KernelFeedFor(s) = "oracle" BY <1>1, OracleHits
<1>2. CASE KernelFeedFor(s) = "amazon" BY <1>2, AmazonHits
<1>3. CASE KernelFeedFor(s) = "ubuntu" BY <1>3, UbuntuHits
<1>4. CASE KernelFeedFor(s) = "upstream" \/ KernelIsMatched(s) BY <1>4, RecordHits
<1> QED BY <1>1, <1>2, <1>3, <1>4, FeedIsOne DEF Checkable

LEMMA FoundAffects ==
  ASSUME NEW s, Checkable(s), NEW advisories, AsServed(s, advisories),
         NEW image, image.version \in Points, IsNamed(s, image)
  PROVE  /\ \A c : (\E x \in Found(s, advisories, image) : x.cve = c) <=> Affects(s, AdvisoriesOf(s, advisories, image), image, c)
         /\ \A x, y \in Found(s, advisories, image) : x.cve = y.cve => x = y
         /\ \A x \in Found(s, advisories, image) :
              x.cve \in Cves /\ x.image = image /\ x.fix \in {"available", "newer", "none"}
<1> DEFINE all == Found(s, advisories, image)
           hits == Hits(s, advisories, image)
           Of1(r) == [cve |-> r.cve, image |-> image, fix |-> FixOf(s, image, r)]
<1>1. all = {Of1(r) : r \in hits} BY FoundIs
<1>2. \A r : Of1(r).cve = r.cve /\ Of1(r).image = image /\ Of1(r).fix = FixOf(s, image, r) OBVIOUS
<1>3. \A r : FixOf(s, image, r) \in {"available", "newer", "none"} BY DEF FixOf
<1>4. ASSUME NEW c PROVE (\E x \in all : x.cve = c) <=> Affects(s, AdvisoriesOf(s, advisories, image), image, c)
  <2>1. (\E x \in all : x.cve = c) <=> \E r \in hits : r.cve = c BY <1>1, <1>2
  <2> QED BY <2>1, HitsAffect
<1>5. ASSUME NEW r \in hits, NEW q \in hits, r.cve = q.cve PROVE Of1(r) = Of1(q)
  <2>1. FixOf(s, image, r) = FixOf(s, image, q) BY <1>5, HitsAffect
  <2> QED BY <1>5, <2>1
<1>6. ASSUME NEW r \in hits PROVE r.cve \in Cves BY HitsAffect
<1>7. \A x, y \in all : x.cve = y.cve => x = y
  <2> HIDE DEF Of1
  <2> QED BY <1>1, <1>2, <1>5
<1>8. \A x \in all : x.cve \in Cves /\ x.image = image /\ x.fix \in {"available", "newer", "none"}
  <2> HIDE DEF Of1
  <2> QED BY <1>1, <1>2, <1>3, <1>6
<1> QED BY <1>4, <1>7, <1>8

\* Only one of a kernel's packages stands for them.
LEMMA OnlyOneStands ==
  ASSUME NEW s \in Systems, NEW is, is \subseteq ImagesOf[s],
         NEW i \in Representatives(is), NEW j \in Representatives(is), SameKernel(i, j)
  PROVE  i = j
<1>1. i \in is /\ j \in is /\ SameKernel(j, i) BY DEF Representatives, SameKernel
<1>2. i = j \/ (i.name = Family(i.name) /\ j.name = Family(j.name)) BY <1>1 DEF Representatives
<1> QED BY <1>1, <1>2, ImagesAssumption DEF SameKernel

\* The two counts of an image are those of its CVEs that are counted.
LEMMA CountsAll ==
  ASSUME NEW image, NEW counted, NEW C, IsFiniteSet(C),
         \A x \in counted : x.image = image => x.cve \in C /\ x.fix \in {"newer", "none"},
         \A x, y \in counted : x.image = image /\ y.image = image /\ x.cve = y.cve => x = y,
         \A c \in C : \E x \in counted : x.image = image /\ x.cve = c
  PROVE  Count(image, counted).elsewhere + Count(image, counted).no_fix = Cardinality(C)
<1> DEFINE mine == {x \in counted : x.image = image}
           newer == {x \in counted : x.image = image /\ x.fix = "newer"}
           none == {x \in counted : x.image = image /\ x.fix = "none"}
           made == [c \in C |-> CHOOSE x \in mine : x.cve = c]
           cveOf == [x \in mine |-> x.cve]
<1>1. made \in Surjection(C, mine)
  <2>1. \A c \in C : made[c] \in mine /\ made[c].cve = c OBVIOUS
  <2>2. \A x \in mine : x.cve \in C /\ made[x.cve] = x
    <3> HIDE DEF made
    <3> QED BY <2>1
  <2>3. made \in [C -> mine] BY <2>1
  <2> HIDE DEF made, mine
  <2> QED BY <2>2, <2>3 DEF Surjection
<1>2. cveOf \in Surjection(mine, C)
  <2>1. cveOf \in [mine -> C] OBVIOUS
  <2>2. \A c \in C : \E x \in mine : cveOf[x] = c OBVIOUS
  <2> HIDE DEF cveOf, mine
  <2> QED BY <2>1, <2>2 DEF Surjection
<1>3. IsFiniteSet(mine) /\ Cardinality(mine) = Cardinality(C)
  <2> HIDE DEF mine, made, cveOf
  <2>1. IsFiniteSet(mine) /\ Cardinality(mine) <= Cardinality(C) BY <1>1, FS_Surjection
  <2>2. Cardinality(C) <= Cardinality(mine) BY <1>2, <2>1, FS_Surjection
  <2> QED BY <2>1, <2>2, FS_CardinalityType
<1>4. mine = newer \cup none /\ newer \cap none = {} OBVIOUS
<1>5. Cardinality(newer) + Cardinality(none) = Cardinality(mine)
  <2>1. IsFiniteSet(newer) /\ IsFiniteSet(none) BY <1>3, <1>4, FS_Subset
  <2> HIDE DEF newer, none, mine
  <2>2. Cardinality(newer \cup none) = Cardinality(newer) + Cardinality(none) - Cardinality(newer \cap none)
    BY <2>1, FS_Union
  <2>3. Cardinality(newer \cap none) = 0 BY <1>4, FS_EmptySet
  <2>4. Cardinality(newer) \in Nat /\ Cardinality(none) \in Nat BY <2>1, FS_CardinalityType
  <2> QED BY <1>4, <2>2, <2>3, <2>4
<1>6. Count(image, counted).elsewhere = Cardinality(newer) /\ Count(image, counted).no_fix = Cardinality(none)
  BY DEF Count
<1> QED BY <1>3, <1>5, <1>6

-----------------------------------------------------------------------------
\* What the last scan made of the images it looked up.
Looked == {c.image : c \in scan.counts}
AllFound == UNION {Found(system, scan.advisories, i) : i \in Looked \cap Representatives(scan.images)}
AllCounted == {x \in AllFound : Counted(x)}

Accounted ==
  /\ scan.done /\ AsServed(system, scan.advisories)
  /\ scan.counts = {Count(i, AllCounted) : i \in Looked}
  /\ scan.listed = AllFound \ AllCounted

AccountInv ==
  /\ served \in ServedOf[system]
  /\ AsServed(system, table)
  /\ scan.counts # {} => Accounted

LEMMA ServedIs == ASSUME NEW s \in Systems, NEW advisories \in ServedOf[s] PROVE AsServed(s, advisories)
  BY ServedAssumption DEF AsServed, Points

\* A scan accounts for what it looked up.
LEMMA ScanAccountInv ==
  ASSUME KernelInv, AccountInv, NEW fetch \in BOOLEAN, NEW osv \in {"ok", "part"}, NEW answered, Scan(fetch, osv, answered)
  PROVE  AccountInv'
<1> DEFINE t == IF fetch THEN served ELSE table
           f == fetch \/ fresh
           assessed == Assessed(system, images, running, t, f, enabled, osv)
           looked == IF KernelIsMatched(system) THEN images ELSE assessed
           advisories == IF KernelIsMatched(system) THEN served ELSE t
           all == UNION {Found(system, advisories, i) : i \in looked \cap Representatives(images)}
           findings == IF osv = "ok" THEN all ELSE {x \in all : x.cve \in answered}
           counted == {x \in findings : Counted(x)}
<1>1. /\ table' = t /\ UNCHANGED <<system, images, running, served, enabled, kev>>
      /\ osv = "ok" \/ KernelIsMatched(system)
      /\ scan' = [done |-> TRUE, since |-> FALSE, images |-> images, running |-> running,
                  advisories |-> advisories, osv |-> osv, listed |-> findings \ counted,
                  counts |-> {Count(i, counted) : i \in assessed}]
  BY DEF Scan
<1>2. /\ scan'.done /\ scan'.images = images /\ scan'.advisories = advisories
      /\ scan'.listed = findings \ counted /\ scan'.counts = {Count(i, counted) : i \in assessed}
  <2> HIDE DEF advisories, findings, counted, assessed
  <2> QED BY <1>1
<1>3. AsServed(system, served) BY ServedIs DEF KernelInv, AccountInv
<1>4. AsServed(system, t) /\ AsServed(system, advisories) BY <1>3 DEF AccountInv
<1>5. ASSUME scan'.counts # {} PROVE Accounted'
  <2>1. assessed # {}
    <3> HIDE DEF assessed, counted
    <3> QED BY <1>2, <1>5
  <2>2. osv = "ok" BY <1>1, <2>1 DEF Assessed
  <2>3. looked = assessed BY <2>2 DEF Assessed
  <2>4. findings = all BY <2>2
  <2>5. Looked' = assessed
    <3>1. \A i : Count(i, counted).image = i BY DEF Count
    <3> HIDE DEF assessed, counted
    <3> QED BY <1>2, <3>1 DEF Looked
  <2>6. AllFound' = all
    <3> HIDE DEF assessed, advisories
    <3> QED BY <1>1, <1>2, <2>3, <2>5 DEF AllFound
  <2>7. \A x : Counted(x)' = Counted(x) BY <1>1 DEF Counted
  <2>8. AllCounted' = counted
    <3> HIDE DEF all
    <3> QED BY <2>4, <2>6, <2>7 DEF AllCounted
  <2>9. Accounted' <=> /\ scan'.done /\ AsServed(system', scan'.advisories)
                       /\ scan'.counts = {Count(i, AllCounted') : i \in Looked'}
                       /\ scan'.listed = AllFound' \ AllCounted'
    BY DEF Accounted, Count
  <2> HIDE DEF t, assessed, looked, advisories, all, findings, counted
  <2> QED BY <1>1, <1>2, <1>4, <2>4, <2>5, <2>6, <2>8, <2>9
<1> HIDE DEF t
<1> QED BY <1>1, <1>4, <1>5 DEF AccountInv

LEMMA SameAccount ==
  ASSUME AccountInv, KernelInv, UNCHANGED <<system, kev>>, served' \in ServedOf[system], AsServed(system, table'),
         scan' = scan \/ scan' = [scan EXCEPT !.since = TRUE]
  PROVE  AccountInv'
<1>1. /\ scan'.done = scan.done /\ scan'.images = scan.images /\ scan'.advisories = scan.advisories
      /\ scan'.counts = scan.counts /\ scan'.listed = scan.listed
  BY DEF KernelInv, ScanFields
<1>2. Looked' = Looked BY <1>1 DEF Looked
<1>3. AllFound' = AllFound BY <1>1, <1>2 DEF AllFound
<1>4. \A x : Counted(x)' = Counted(x) BY DEF Counted
<1>5. AllCounted' = AllCounted BY <1>3, <1>4 DEF AllCounted
<1>6. Accounted' <=> /\ scan'.done /\ AsServed(system', scan'.advisories)
                     /\ scan'.counts = {Count(i, AllCounted') : i \in Looked'}
                     /\ scan'.listed = AllFound' \ AllCounted'
  BY DEF Accounted, Count
<1>7. Accounted' <=> Accounted BY <1>1, <1>2, <1>3, <1>5, <1>6 DEF Accounted
<1> QED BY <1>1, <1>7 DEF AccountInv

LEMMA AccountInvHolds == MachineSpec => []AccountInv
<1>1. MachineInit => AccountInv
  <2> SUFFICES ASSUME MachineInit PROVE AccountInv OBVIOUS
  <2>1. AsServed(system, {}) BY FS_EmptySet DEF AsServed
  <2>2. NoScan.counts = {} BY DEF NoScan
  <2> QED BY <2>1, <2>2 DEF MachineInit, AccountInv
<1>2. KernelInv /\ AccountInv /\ [MachineNext]_machineVars => AccountInv'
  <2> SUFFICES ASSUME KernelInv, AccountInv, [MachineNext]_machineVars PROVE AccountInv' OBVIOUS
  <2>0. served \in ServedOf[system] /\ AsServed(system, table) /\ AsServed(system, served)
    BY ServedIs DEF AccountInv, KernelInv
  <2>1. ASSUME NEW i \in ImagesOf[system], Install(i) \/ Remove(i) \/ Boot(i) PROVE AccountInv'
    <3>1. UNCHANGED <<system, served, table, fresh, enabled, kev, scan>> BY <2>1 DEF Install, Remove, Boot, Machine
    <3> QED BY <2>0, <3>1, SameAccount
  <2>2. ASSUME NEW fetch \in BOOLEAN, NEW osv \in {"ok", "part"}, NEW answered \in SUBSET Cves,
               Scan(fetch, osv, answered)
        PROVE  AccountInv'
    BY <2>2, ScanAccountInv
  <2>3. CASE Refresh BY <2>0, <2>3, SameAccount DEF Refresh, Feed
  <2>4. CASE Age BY <2>0, <2>4, SameAccount DEF Age, Feed
  <2>5. CASE Switch BY <2>0, <2>5, SameAccount DEF Switch, Feed
  <2>6. ASSUME NEW a \in ServedOf[system], Serve(a) PROVE AccountInv' BY <2>0, <2>6, SameAccount DEF Serve, Feed
  <2>7. CASE UNCHANGED machineVars BY <2>0, <2>7, SameAccount DEF machineVars
  <2> QED BY <2>1, <2>2, <2>3, <2>4, <2>5, <2>6, <2>7 DEF MachineNext
<1> QED BY <1>1, <1>2, KernelInvHolds, PTL DEF MachineSpec

\* A kernel that is in Oracle's feed has a name of Oracle's.
LEMMA InFeedIsNamed ==
  ASSUME NEW s, NEW advisories, NEW i, NEW j, SameKernel(i, j), InFeed(s, advisories, j)
  PROVE  IsNamed(s, i)
<1> SUFFICES ASSUME KernelFeedFor(s) = "oracle" PROVE OracleFamily(i.name) # "none" BY DEF IsNamed
<1>1. PICK r \in Parsed(s, advisories) : r.stream = OracleStream(j.name, j.version) BY DEF InFeed, Stream
<1>2. PICK a \in advisories : r = Row(OracleStream(a.name, a.fixed), a.cve, a.fixed) /\ OracleFamily(a.name) # "none"
  BY DEF Parsed, OracleRows, KeepHighest
<1>3. OracleFamily(j.name) = OracleFamily(a.name) BY <1>1, <1>2 DEF Row, OracleStream
<1>4. OracleFamily(i.name) = OracleFamily(j.name) BY DEF SameKernel, Family, OracleFamily
<1> QED BY <1>2, <1>3, <1>4

-----------------------------------------------------------------------------
(* What is told of a kernel.                                               *)

KernelOf(i) == {c.image : c \in {c \in scan.counts : SameKernel(c.image, i)}}
ReportedOf(i) == CHOOSE j \in KernelOf(i) : j \in Representatives(KernelOf(i))

\* The packages of a kernel that was looked up were all looked up, and one of them,
\* which is in the feed, stands for them.
LEMMA OneIsReported ==
  ASSUME KernelInv, Accounted, NEW i \in Looked
  PROVE  /\ KernelOf(i) \subseteq Looked
         /\ ReportedOf(i) \in KernelOf(i) /\ ReportedOf(i) \in Representatives(scan.images)
         /\ \A j \in KernelOf(i) : j \in Representatives(scan.images) => j = ReportedOf(i)
         /\ ReportedOf(i).version \in Points /\ IsNamed(system, ReportedOf(i)) /\ Checkable(system)
<1>1. PICK f, on \in BOOLEAN : LookedUp(f, on) BY DEF KernelInv, Accounted
<1> DEFINE assessed == Assessed(system, scan.images, scan.running, scan.advisories, f, on, scan.osv)
           r == ReportedOf(i)
<1>2. Looked = assessed BY <1>1 DEF LookedUp, Looked
<1>3. KernelOf(i) = {k \in Looked : SameKernel(k, i)} BY DEF KernelOf, Looked
<1>4. system \in Systems /\ scan.images \subseteq ImagesOf[system] BY DEF KernelInv
<1>5. ASSUME NEW k \in Looked
      PROVE  /\ k \in scan.images
             /\ KernelIsMatched(system) => scan.osv = "ok"
             /\ ~KernelIsMatched(system) =>
                  KernelFeedFor(system) # "none" /\ \E j \in scan.images : SameKernel(k, j) /\ InFeed(system, scan.advisories, j)
  BY <1>2, <1>4, LookedUpIsInFeed
<1>6. ASSUME NEW k \in scan.images, SameKernel(k, i) PROVE k \in KernelOf(i)
  <2>1. CASE KernelIsMatched(system) BY <1>2, <1>3, <1>5, <1>6, <2>1 DEF Assessed
  <2>2. CASE ~KernelIsMatched(system) BY <1>2, <1>3, <1>5, <1>6, <2>2, KernelsGoTogether
  <2> QED BY <2>1, <2>2
<1>7. KernelOf(i) \subseteq ImagesOf[system] /\ i \in KernelOf(i) BY <1>3, <1>4, <1>5 DEF SameKernel
<1>8. r \in KernelOf(i) /\ r \in Representatives(KernelOf(i))
  <2>1. \E j \in Representatives(KernelOf(i)) : SameKernel(i, j) BY <1>4, <1>7, OneStandsForIt
  <2>2. \E j \in KernelOf(i) : j \in Representatives(KernelOf(i)) BY <2>1 DEF Representatives
  <2> QED BY <2>2 DEF ReportedOf
<1>9. r \in scan.images /\ SameKernel(r, i) /\ r \in Looked BY <1>3, <1>5, <1>8
<1>10. r \in Representatives(scan.images)
  <2>1. \A j \in scan.images : SameKernel(r, j) => j \in KernelOf(i) BY <1>6, <1>9 DEF SameKernel
  <2> QED BY <1>8, <1>9, <2>1 DEF Representatives
<1>11. ASSUME NEW j \in KernelOf(i), j \in Representatives(scan.images) PROVE j = r
  <2>1. SameKernel(j, r) BY <1>3, <1>9, <1>11 DEF SameKernel
  <2> QED BY <1>4, <1>10, <1>11, <2>1, OnlyOneStands
<1>12. r.version \in Points BY <1>4, <1>9, ImagesAssumption DEF Points
<1>13. IsNamed(system, r)
  <2>1. CASE KernelIsMatched(system) BY <2>1 DEF KernelIsMatched, KernelFeedFor, IsNamed
  <2>2. CASE ~KernelIsMatched(system)
    <3>1. PICK j \in scan.images : SameKernel(r, j) /\ InFeed(system, scan.advisories, j) BY <1>5, <1>9, <2>2
    <3> QED BY <3>1, InFeedIsNamed
  <2> QED BY <2>1, <2>2
<1>14. Checkable(system) BY <1>5 DEF Checkable
<1> QED BY <1>3, <1>8, <1>10, <1>11, <1>12, <1>13, <1>14

\* What was found of one image.
LEMMA FoundOfOne ==
  ASSUME NEW k
  PROVE  {x \in AllFound : x.image = k}
         = IF k \in Looked \cap Representatives(scan.images) THEN Found(system, scan.advisories, k) ELSE {}
<1>1. \A i : \A x \in Found(system, scan.advisories, i) : x.image = i BY DEF Found
<1> QED BY <1>1 DEF AllFound

\* The count that is stored of an image is the one the scan made.
LEMMA CountIsStored ==
  ASSUME Accounted, NEW j \in Looked
  PROVE  CountOf(j) = Count(j, AllCounted).elsewhere + Count(j, AllCounted).no_fix
<1>1. \A i : Count(i, AllCounted).image = i BY DEF Count
<1> DEFINE c == CHOOSE c \in scan.counts : c.image = j
<1>2. c = Count(j, AllCounted)
  <2>1. scan.counts = {Count(i, AllCounted) : i \in Looked} BY DEF Accounted
  <2>2. \E o \in scan.counts : o.image = j BY <1>1, <2>1
  <2>3. c \in scan.counts /\ c.image = j BY <2>2
  <2> HIDE DEF c
  <2> QED BY <1>1, <2>1, <2>3
<1> QED BY <1>2 DEF CountOf

\* Of each kernel that was looked up every CVE is listed or counted, once, and no
\* other: for any machine, feed and KEV catalogue, however the kernel is packaged
\* and whatever happened since the scan (services/kernel.py:195).
THEOREM KernelsAreAccounted == MachineSpec => []KernelAccounts
<1>1. ASSUME KernelInv, AccountInv PROVE KernelAccounts
  <2>1. SUFFICES ASSUME NEW i \in Looked
        PROVE  LET packages == KernelOf(i)
                   listed == {x.cve : x \in {x \in scan.listed : x.image \in packages}}
                   reported == ReportedOf(i)
               IN /\ listed \subseteq Exposed(reported)
                  /\ {c \in Exposed(reported) : kev[c] # "absent"} \subseteq listed
                  /\ CountOf(reported) = Cardinality(Exposed(reported) \ listed)
                  /\ \A j \in packages : j # reported => CountOf(j) = 0
    BY DEF KernelAccounts, KernelOf, ReportedOf, Looked
  <2> DEFINE r == ReportedOf(i)
             exposed == Exposed(r)
             own == Found(system, scan.advisories, r)
             listed == {x.cve : x \in {x \in scan.listed : x.image \in KernelOf(i)}}
  <2>2. Accounted BY <1>1, <2>1 DEF AccountInv, Looked
  <2>3. AsServed(system, scan.advisories) /\ scan.listed = AllFound \ AllCounted BY <2>2 DEF Accounted
  <2>4. /\ KernelOf(i) \subseteq Looked
        /\ r \in KernelOf(i) /\ r \in Representatives(scan.images)
        /\ \A j \in KernelOf(i) : j \in Representatives(scan.images) => j = r
        /\ r.version \in Points /\ IsNamed(system, r) /\ Checkable(system)
    BY <1>1, <2>2, OneIsReported
  <2> HIDE DEF r
  <2>5. {x \in AllFound : x.image = r} = own BY <2>4, FoundOfOne
  <2>6. \A j \in KernelOf(i) : j # r => {x \in AllFound : x.image = j} = {} BY <2>4, FoundOfOne
  <2>7. \A c : c \in exposed <=> c \in Cves /\ Affects(system, AdvisoriesOf(system, scan.advisories, r), r, c)
    BY DEF Exposed, Affects, AdvisoriesOf
  <2>8. /\ \A c : (\E x \in own : x.cve = c) <=> Affects(system, AdvisoriesOf(system, scan.advisories, r), r, c)
        /\ \A x, y \in own : x.cve = y.cve => x = y
        /\ \A x \in own : x.cve \in Cves /\ x.image = r /\ x.fix \in {"available", "newer", "none"}
    BY <2>3, <2>4, FoundAffects
  <2> HIDE DEF own, exposed
  <2>9. \A c : c \in exposed <=> \E x \in own : x.cve = c BY <2>7, <2>8
  <2>10. \A c : c \in listed <=> \E x \in own : x.cve = c /\ ~Counted(x)
    <3>1. ASSUME NEW x \in scan.listed, x.image \in KernelOf(i) PROVE x \in own /\ ~Counted(x)
      BY <2>3, <2>5, <2>6, <3>1 DEF AllCounted
    <3>2. ASSUME NEW x \in own, ~Counted(x) PROVE x \in scan.listed /\ x.image \in KernelOf(i)
      BY <2>3, <2>4, <2>5, <3>2 DEF AllCounted
    <3> QED BY <3>1, <3>2
  <2> HIDE DEF listed
  <2>11. listed \subseteq exposed BY <2>9, <2>10
  <2>12. {c \in exposed : kev[c] # "absent"} \subseteq listed BY <2>9, <2>10 DEF Counted
  <2>13. CountOf(r) = Cardinality(exposed \ listed)
    <3>1. IsFiniteSet(exposed \ listed)
      <4> DEFINE cveOf == [a \in scan.advisories |-> a.cve]
      <4>1. IsFiniteSet({cveOf[a] : a \in scan.advisories})
        <5>1. DOMAIN cveOf = scan.advisories /\ IsFiniteSet(scan.advisories) BY <2>3 DEF AsServed
        <5> HIDE DEF cveOf
        <5> QED BY <5>1, FiniteValues
      <4>2. exposed \subseteq {cveOf[a] : a \in scan.advisories} BY <2>7 DEF Affects, AdvisoriesOf
      <4> QED BY <4>1, <4>2, FS_Subset
    <3>2. \A x \in AllCounted : x.image = r => x \in own /\ Counted(x) BY <2>5 DEF AllCounted
    <3>3. \A x \in own : Counted(x) => x \in AllCounted BY <2>5 DEF AllCounted
    <3>4. \A x : Counted(x) => x.fix # "available" BY DEF Counted
    <3>5. \A x \in AllCounted : x.image = r => x.cve \in exposed \ listed /\ x.fix \in {"newer", "none"}
      BY <2>8, <2>9, <2>10, <3>2, <3>4
    <3>6. \A x, y \in AllCounted : x.image = r /\ y.image = r /\ x.cve = y.cve => x = y BY <2>8, <3>2
    <3>7. \A c \in exposed \ listed : \E x \in AllCounted : x.image = r /\ x.cve = c
      BY <2>8, <2>9, <2>10, <3>3
    <3>8. Count(r, AllCounted).elsewhere + Count(r, AllCounted).no_fix = Cardinality(exposed \ listed)
      <4> DEFINE C == exposed \ listed
      <4> HIDE DEF C
      <4>1. Count(r, AllCounted).elsewhere + Count(r, AllCounted).no_fix = Cardinality(C)
        BY <3>1, <3>5, <3>6, <3>7, CountsAll DEF C
      <4> QED BY <4>1 DEF C
    <3> QED BY <2>2, <2>4, <3>8, CountIsStored
  <2>14. ASSUME NEW j \in KernelOf(i), j # r PROVE CountOf(j) = 0
    <3>1. \A x \in AllCounted : x.image # j BY <2>6, <2>14 DEF AllCounted
    <3>2. /\ {x \in AllCounted : x.image = j /\ x.fix = "newer"} = {}
          /\ {x \in AllCounted : x.image = j /\ x.fix = "none"} = {}
      BY <3>1
    <3>3. Count(j, AllCounted).elsewhere = 0 /\ Count(j, AllCounted).no_fix = 0 BY <3>2, FS_EmptySet DEF Count
    <3> QED BY <2>2, <2>4, <2>14, <3>3, CountIsStored
  <2> QED BY <2>11, <2>12, <2>13, <2>14 DEF exposed, listed, r
<1> QED BY <1>1, KernelInvHolds, AccountInvHolds, PTL
-----------------------------------------------------------------------------
(* CVSS.  What a metric says, and how far that is from the worst it can.   *)

\* The values a distance is counted in.
Scale(n) == V4Values[IF n \in {"SI", "SA"} THEN Modified[n] ELSE n]

\* Where a value is among those of its metric.
LEMMA LevelAt ==
  ASSUME NEW n, NEW l \in Nat, DOMAIN Scale(n) = 1..l, Len(Scale(n)) = l,
         \A i, k \in 1..l : Scale(n)[i] = Scale(n)[k] => i = k
  PROVE  \A k \in 1..l : Level(n, Scale(n)[k]) = l - k + (IF n = "SC" THEN 1 ELSE 0)
<1> SUFFICES ASSUME NEW k \in 1..l PROVE Level(n, Scale(n)[k]) = l - k + (IF n = "SC" THEN 1 ELSE 0) OBVIOUS
<1> DEFINE s == Scale(n)
<1>1. (CHOOSE i \in DOMAIN s : s[i] = s[k]) = k OBVIOUS
<1>2. Level(n, s[k]) = Len(s) - (CHOOSE i \in DOMAIN s : s[i] = s[k]) + (IF n = "SC" THEN 1 ELSE 0) BY DEF Level, Scale
<1> QED BY <1>1, <1>2

LEMMA LevelAV ==
  Level("AV", "P") = 3 /\ Level("AV", "L") = 2 /\ Level("AV", "A") = 1 /\ Level("AV", "N") = 0
<1>1. Scale("AV") = <<"P", "L", "A", "N">> BY DEF Scale, V4Values, Modified, Impact, Requirement, MSafety
<1>2. DOMAIN Scale("AV") = 1..4 /\ Len(Scale("AV")) = 4 BY <1>1
<1>3. Scale("AV")[1] = "P" /\ Scale("AV")[2] = "L" /\ Scale("AV")[3] = "A" /\ Scale("AV")[4] = "N" BY <1>1
<1>4. \A i, k \in 1..4 : Scale("AV")[i] = Scale("AV")[k] => i = k BY <1>3
<1>5. \A k \in 1..4 : Level("AV", Scale("AV")[k]) = 4 - k + (IF "AV" = "SC" THEN 1 ELSE 0) BY <1>2, <1>4, LevelAt
<1> QED BY <1>3, <1>5

LEMMA LevelAC ==
  Level("AC", "H") = 1 /\ Level("AC", "L") = 0
<1>1. Scale("AC") = <<"H", "L">> BY DEF Scale, V4Values, Modified, Impact, Requirement, MSafety
<1>2. DOMAIN Scale("AC") = 1..2 /\ Len(Scale("AC")) = 2 BY <1>1
<1>3. Scale("AC")[1] = "H" /\ Scale("AC")[2] = "L" BY <1>1
<1>4. \A i, k \in 1..2 : Scale("AC")[i] = Scale("AC")[k] => i = k BY <1>3
<1>5. \A k \in 1..2 : Level("AC", Scale("AC")[k]) = 2 - k + (IF "AC" = "SC" THEN 1 ELSE 0) BY <1>2, <1>4, LevelAt
<1> QED BY <1>3, <1>5

LEMMA LevelAT ==
  Level("AT", "P") = 1 /\ Level("AT", "N") = 0
<1>1. Scale("AT") = <<"P", "N">> BY DEF Scale, V4Values, Modified, Impact, Requirement, MSafety
<1>2. DOMAIN Scale("AT") = 1..2 /\ Len(Scale("AT")) = 2 BY <1>1
<1>3. Scale("AT")[1] = "P" /\ Scale("AT")[2] = "N" BY <1>1
<1>4. \A i, k \in 1..2 : Scale("AT")[i] = Scale("AT")[k] => i = k BY <1>3
<1>5. \A k \in 1..2 : Level("AT", Scale("AT")[k]) = 2 - k + (IF "AT" = "SC" THEN 1 ELSE 0) BY <1>2, <1>4, LevelAt
<1> QED BY <1>3, <1>5

LEMMA LevelPR ==
  Level("PR", "H") = 2 /\ Level("PR", "L") = 1 /\ Level("PR", "N") = 0
<1>1. Scale("PR") = <<"H", "L", "N">> BY DEF Scale, V4Values, Modified, Impact, Requirement, MSafety
<1>2. DOMAIN Scale("PR") = 1..3 /\ Len(Scale("PR")) = 3 BY <1>1
<1>3. Scale("PR")[1] = "H" /\ Scale("PR")[2] = "L" /\ Scale("PR")[3] = "N" BY <1>1
<1>4. \A i, k \in 1..3 : Scale("PR")[i] = Scale("PR")[k] => i = k BY <1>3
<1>5. \A k \in 1..3 : Level("PR", Scale("PR")[k]) = 3 - k + (IF "PR" = "SC" THEN 1 ELSE 0) BY <1>2, <1>4, LevelAt
<1> QED BY <1>3, <1>5

LEMMA LevelUI ==
  Level("UI", "A") = 2 /\ Level("UI", "P") = 1 /\ Level("UI", "N") = 0
<1>1. Scale("UI") = <<"A", "P", "N">> BY DEF Scale, V4Values, Modified, Impact, Requirement, MSafety
<1>2. DOMAIN Scale("UI") = 1..3 /\ Len(Scale("UI")) = 3 BY <1>1
<1>3. Scale("UI")[1] = "A" /\ Scale("UI")[2] = "P" /\ Scale("UI")[3] = "N" BY <1>1
<1>4. \A i, k \in 1..3 : Scale("UI")[i] = Scale("UI")[k] => i = k BY <1>3
<1>5. \A k \in 1..3 : Level("UI", Scale("UI")[k]) = 3 - k + (IF "UI" = "SC" THEN 1 ELSE 0) BY <1>2, <1>4, LevelAt
<1> QED BY <1>3, <1>5

LEMMA LevelVC ==
  ASSUME NEW n \in {"VC", "VI", "VA"}
  PROVE  Level(n, "N") = 2 /\ Level(n, "L") = 1 /\ Level(n, "H") = 0
<1>1. Scale(n) = <<"N", "L", "H">> BY DEF Scale, V4Values, Modified, Impact, Requirement, MSafety
<1>2. DOMAIN Scale(n) = 1..3 /\ Len(Scale(n)) = 3 BY <1>1
<1>3. Scale(n)[1] = "N" /\ Scale(n)[2] = "L" /\ Scale(n)[3] = "H" BY <1>1
<1>4. \A i, k \in 1..3 : Scale(n)[i] = Scale(n)[k] => i = k BY <1>3
<1>5. \A k \in 1..3 : Level(n, Scale(n)[k]) = 3 - k + (IF n = "SC" THEN 1 ELSE 0) BY <1>2, <1>4, LevelAt
<1> QED BY <1>3, <1>5

LEMMA LevelSC ==
  Level("SC", "N") = 3 /\ Level("SC", "L") = 2 /\ Level("SC", "H") = 1
<1>1. Scale("SC") = <<"N", "L", "H">> BY DEF Scale, V4Values, Modified, Impact, Requirement, MSafety
<1>2. DOMAIN Scale("SC") = 1..3 /\ Len(Scale("SC")) = 3 BY <1>1
<1>3. Scale("SC")[1] = "N" /\ Scale("SC")[2] = "L" /\ Scale("SC")[3] = "H" BY <1>1
<1>4. \A i, k \in 1..3 : Scale("SC")[i] = Scale("SC")[k] => i = k BY <1>3
<1>5. \A k \in 1..3 : Level("SC", Scale("SC")[k]) = 3 - k + (IF "SC" = "SC" THEN 1 ELSE 0) BY <1>2, <1>4, LevelAt
<1> QED BY <1>3, <1>5

LEMMA LevelSI ==
  ASSUME NEW n \in {"SI", "SA"}
  PROVE  Level(n, "N") = 3 /\ Level(n, "L") = 2 /\ Level(n, "H") = 1 /\ Level(n, "S") = 0
<1>1. Scale(n) = <<"X", "N", "L", "H", "S">> BY DEF Scale, V4Values, Modified, Impact, Requirement, MSafety
<1>2. DOMAIN Scale(n) = 1..5 /\ Len(Scale(n)) = 5 BY <1>1
<1>3. Scale(n)[1] = "X" /\ Scale(n)[2] = "N" /\ Scale(n)[3] = "L" /\ Scale(n)[4] = "H" /\ Scale(n)[5] = "S" BY <1>1
<1>4. \A i, k \in 1..5 : Scale(n)[i] = Scale(n)[k] => i = k BY <1>3
<1>5. \A k \in 1..5 : Level(n, Scale(n)[k]) = 5 - k + (IF n = "SC" THEN 1 ELSE 0) BY <1>2, <1>4, LevelAt
<1> QED BY <1>3, <1>5

LEMMA LevelCR ==
  ASSUME NEW n \in {"CR", "IR", "AR"}
  PROVE  Level(n, "L") = 2 /\ Level(n, "M") = 1 /\ Level(n, "H") = 0
<1>1. Scale(n) = <<"X", "L", "M", "H">> BY DEF Scale, V4Values, Modified, Impact, Requirement, MSafety
<1>2. DOMAIN Scale(n) = 1..4 /\ Len(Scale(n)) = 4 BY <1>1
<1>3. Scale(n)[1] = "X" /\ Scale(n)[2] = "L" /\ Scale(n)[3] = "M" /\ Scale(n)[4] = "H" BY <1>1
<1>4. \A i, k \in 1..4 : Scale(n)[i] = Scale(n)[k] => i = k BY <1>3
<1>5. \A k \in 1..4 : Level(n, Scale(n)[k]) = 4 - k + (IF n = "SC" THEN 1 ELSE 0) BY <1>2, <1>4, LevelAt
<1> QED BY <1>3, <1>5
-----------------------------------------------------------------------------
(* CVSS.  The table of scores.                                             *)

\* What is published for the levels of eq1, eq2 and eq3, by the others.
ScoresAt(i, j, k) == Published[i][j][k]

LEMMA ScoresHold ==
  /\ \A i \in 1..3, j \in 1..2, k \in 1..2 : \A x \in 1..18 : ScoresAt(i, j, k)[x] \in 0..100
  /\ \A i \in 1..3, j \in 1..2 : \A x \in 1..9 : ScoresAt(i, j, 3)[x] \in 0..100
<1>1. \A x \in 1..18 : ScoresAt(1, 1, 1)[x] \in 0..100
  <2>1. ScoresAt(1, 1, 1) = <<100, 99, 98, 95, 95, 92, 100, 96, 93, 87, 91, 81, 93, 90, 89, 80, 81, 68>> BY DEF ScoresAt, Published
  <2> QED BY <2>1
<1>2. \A x \in 1..18 : ScoresAt(1, 1, 2)[x] \in 0..100
  <2>1. ScoresAt(1, 1, 2) = <<98, 95, 95, 92, 90, 84, 93, 92, 89, 81, 81, 65, 88, 80, 78, 70, 69, 48>> BY DEF ScoresAt, Published
  <2> QED BY <2>1
<1>3. \A x \in 1..9 : ScoresAt(1, 1, 3)[x] \in 0..100
  <2>1. ScoresAt(1, 1, 3) = <<92, 82, 72, 79, 69, 50, 69, 55, 27>> BY DEF ScoresAt, Published
  <2> QED BY <2>1
<1>4. \A x \in 1..18 : ScoresAt(1, 2, 1)[x] \in 0..100
  <2>1. ScoresAt(1, 2, 1) = <<99, 97, 95, 92, 92, 85, 95, 91, 90, 83, 84, 71, 92, 81, 82, 71, 72, 53>> BY DEF ScoresAt, Published
  <2> QED BY <2>1
<1>5. \A x \in 1..18 : ScoresAt(1, 2, 2)[x] \in 0..100
  <2>1. ScoresAt(1, 2, 2) = <<95, 93, 92, 85, 85, 73, 92, 82, 80, 72, 70, 59, 84, 70, 71, 52, 50, 30>> BY DEF ScoresAt, Published
  <2> QED BY <2>1
<1>6. \A x \in 1..9 : ScoresAt(1, 2, 3)[x] \in 0..100
  <2>1. ScoresAt(1, 2, 3) = <<86, 75, 52, 71, 52, 29, 63, 29, 17>> BY DEF ScoresAt, Published
  <2> QED BY <2>1
<1>7. \A x \in 1..18 : ScoresAt(2, 1, 1)[x] \in 0..100
  <2>1. ScoresAt(2, 1, 1) = <<98, 95, 94, 87, 91, 81, 94, 89, 86, 74, 77, 64, 87, 75, 74, 63, 63, 49>> BY DEF ScoresAt, Published
  <2> QED BY <2>1
<1>8. \A x \in 1..18 : ScoresAt(2, 1, 2)[x] \in 0..100
  <2>1. ScoresAt(2, 1, 2) = <<94, 89, 88, 77, 76, 67, 86, 76, 74, 58, 59, 50, 72, 57, 57, 52, 52, 25>> BY DEF ScoresAt, Published
  <2> QED BY <2>1
<1>9. \A x \in 1..9 : ScoresAt(2, 1, 3)[x] \in 0..100
  <2>1. ScoresAt(2, 1, 3) = <<83, 70, 54, 65, 58, 26, 53, 21, 13>> BY DEF ScoresAt, Published
  <2> QED BY <2>1
<1>10. \A x \in 1..18 : ScoresAt(2, 2, 1)[x] \in 0..100
  <2>1. ScoresAt(2, 2, 1) = <<95, 90, 88, 76, 76, 70, 90, 77, 75, 62, 61, 53, 77, 66, 68, 59, 52, 30>> BY DEF ScoresAt, Published
  <2> QED BY <2>1
<1>11. \A x \in 1..18 : ScoresAt(2, 2, 2)[x] \in 0..100
  <2>1. ScoresAt(2, 2, 2) = <<89, 78, 76, 67, 62, 58, 74, 59, 57, 57, 47, 23, 61, 52, 57, 29, 24, 16>> BY DEF ScoresAt, Published
  <2> QED BY <2>1
<1>12. \A x \in 1..9 : ScoresAt(2, 2, 3)[x] \in 0..100
  <2>1. ScoresAt(2, 2, 3) = <<71, 59, 30, 58, 26, 15, 23, 13, 6>> BY DEF ScoresAt, Published
  <2> QED BY <2>1
<1>13. \A x \in 1..18 : ScoresAt(3, 1, 1)[x] \in 0..100
  <2>1. ScoresAt(3, 1, 1) = <<93, 87, 86, 72, 75, 58, 86, 74, 74, 61, 56, 34, 70, 54, 52, 40, 40, 22>> BY DEF ScoresAt, Published
  <2> QED BY <2>1
<1>14. \A x \in 1..18 : ScoresAt(3, 1, 2)[x] \in 0..100
  <2>1. ScoresAt(3, 1, 2) = <<85, 75, 74, 55, 62, 51, 72, 57, 55, 41, 46, 19, 53, 36, 34, 19, 19, 8>> BY DEF ScoresAt, Published
  <2> QED BY <2>1
<1>15. \A x \in 1..9 : ScoresAt(3, 1, 3)[x] \in 0..100
  <2>1. ScoresAt(3, 1, 3) = <<64, 51, 20, 47, 21, 11, 24, 9, 4>> BY DEF ScoresAt, Published
  <2> QED BY <2>1
<1>16. \A x \in 1..18 : ScoresAt(3, 2, 1)[x] \in 0..100
  <2>1. ScoresAt(3, 2, 1) = <<88, 75, 73, 53, 60, 50, 73, 55, 59, 40, 41, 20, 54, 43, 45, 22, 20, 11>> BY DEF ScoresAt, Published
  <2> QED BY <2>1
<1>17. \A x \in 1..18 : ScoresAt(3, 2, 2)[x] \in 0..100
  <2>1. ScoresAt(3, 2, 2) = <<75, 55, 58, 45, 40, 21, 61, 51, 48, 18, 20, 9, 46, 18, 17, 7, 8, 2>> BY DEF ScoresAt, Published
  <2> QED BY <2>1
<1>18. \A x \in 1..9 : ScoresAt(3, 2, 3)[x] \in 0..100
  <2>1. ScoresAt(3, 2, 3) = <<53, 24, 14, 24, 12, 5, 10, 3, 1>> BY DEF ScoresAt, Published
  <2> QED BY <2>1
<1>19. \A j \in 1..2, k \in 1..2 : \A x \in 1..18 : ScoresAt(1, j, k)[x] \in 0..100
  <2> SUFFICES ASSUME NEW j \in 1..2, NEW k \in 1..2 PROVE \A x \in 1..18 : ScoresAt(1, j, k)[x] \in 0..100 OBVIOUS
  <2>1. (j = 1 \/ j = 2) /\ (k = 1 \/ k = 2) OBVIOUS
  <2> QED BY <2>1, <1>1, <1>2, <1>4, <1>5
<1>20. \A j \in 1..2 : \A x \in 1..9 : ScoresAt(1, j, 3)[x] \in 0..100
  <2> SUFFICES ASSUME NEW j \in 1..2 PROVE \A x \in 1..9 : ScoresAt(1, j, 3)[x] \in 0..100 OBVIOUS
  <2>1. j = 1 \/ j = 2 OBVIOUS
  <2> QED BY <2>1, <1>3, <1>6
<1>21. \A j \in 1..2, k \in 1..2 : \A x \in 1..18 : ScoresAt(2, j, k)[x] \in 0..100
  <2> SUFFICES ASSUME NEW j \in 1..2, NEW k \in 1..2 PROVE \A x \in 1..18 : ScoresAt(2, j, k)[x] \in 0..100 OBVIOUS
  <2>1. (j = 1 \/ j = 2) /\ (k = 1 \/ k = 2) OBVIOUS
  <2> QED BY <2>1, <1>7, <1>8, <1>10, <1>11
<1>22. \A j \in 1..2 : \A x \in 1..9 : ScoresAt(2, j, 3)[x] \in 0..100
  <2> SUFFICES ASSUME NEW j \in 1..2 PROVE \A x \in 1..9 : ScoresAt(2, j, 3)[x] \in 0..100 OBVIOUS
  <2>1. j = 1 \/ j = 2 OBVIOUS
  <2> QED BY <2>1, <1>9, <1>12
<1>23. \A j \in 1..2, k \in 1..2 : \A x \in 1..18 : ScoresAt(3, j, k)[x] \in 0..100
  <2> SUFFICES ASSUME NEW j \in 1..2, NEW k \in 1..2 PROVE \A x \in 1..18 : ScoresAt(3, j, k)[x] \in 0..100 OBVIOUS
  <2>1. (j = 1 \/ j = 2) /\ (k = 1 \/ k = 2) OBVIOUS
  <2> QED BY <2>1, <1>13, <1>14, <1>16, <1>17
<1>24. \A j \in 1..2 : \A x \in 1..9 : ScoresAt(3, j, 3)[x] \in 0..100
  <2> SUFFICES ASSUME NEW j \in 1..2 PROVE \A x \in 1..9 : ScoresAt(3, j, 3)[x] \in 0..100 OBVIOUS
  <2>1. j = 1 \/ j = 2 OBVIOUS
  <2> QED BY <2>1, <1>15, <1>18
<1>25. \A i \in 1..3 : i = 1 \/ i = 2 \/ i = 3 OBVIOUS
<1>26. \A i \in 1..3 : \A j \in 1..2, k \in 1..2 : \A x \in 1..18 : ScoresAt(i, j, k)[x] \in 0..100 BY <1>19, <1>21, <1>23, <1>25
<1>27. \A i \in 1..3 : \A j \in 1..2 : \A x \in 1..9 : ScoresAt(i, j, 3)[x] \in 0..100 BY <1>20, <1>22, <1>24, <1>25
<1> QED BY <1>26, <1>27

\* The levels of a MacroVector that has a score.
Levels(e) ==
  /\ e[1] \in 0..2 /\ e[2] \in 0..1 /\ e[3] \in 0..2 /\ e[4] \in 0..2 /\ e[5] \in 0..2 /\ e[6] \in 0..1
  /\ e[3] = 2 => e[6] = 1

LEMMA LookupIn ==
  ASSUME NEW e, \A i \in 1..6 : e[i] \in Nat
  PROVE  (Levels(e) => Lookup(e) \in 0..100) /\ Lookup(e) \in Int
<1>0. e[1] \in Nat /\ e[2] \in Nat /\ e[3] \in Nat /\ e[4] \in Nat /\ e[5] \in Nat /\ e[6] \in Nat OBVIOUS
<1>1. CASE ~Levels(e)
  <2>1. Lookup(e) = Unscored BY <1>0, <1>1 DEF Levels, Lookup
  <2> QED BY <1>1, <2>1 DEF Unscored
<1>2. CASE Levels(e)
  <2> USE <1>2 DEF Levels
  <2>1. CASE e[3] = 2
    <3>1. Lookup(e) = ScoresAt(e[1] + 1, e[2] + 1, 3)[3 * e[4] + e[5] + 1] BY <1>0, <2>1 DEF Lookup, ScoresAt
    <3>2. e[1] + 1 \in 1..3 /\ e[2] + 1 \in 1..2 /\ 3 * e[4] + e[5] + 1 \in 1..9 BY <1>0
    <3>3. Lookup(e) \in 0..100 BY <3>1, <3>2, ScoresHold
    <3> QED BY <3>3
  <2>2. CASE e[3] # 2
    <3>1. Lookup(e) = ScoresAt(e[1] + 1, e[2] + 1, e[3] + 1)[6 * e[4] + 2 * e[5] + e[6] + 1] BY <1>0, <2>2 DEF Lookup, ScoresAt
    <3>2. e[1] + 1 \in 1..3 /\ e[2] + 1 \in 1..2 /\ e[3] + 1 \in 1..2 BY <1>0, <2>2
    <3>3. \A x \in 0..2, y \in 0..2, z \in 0..1 : 6 * x + 2 * y + z + 1 \in 1..18 OBVIOUS
    <3>4. 6 * e[4] + 2 * e[5] + e[6] + 1 \in 1..18 BY <3>3
    <3>5. Lookup(e) \in 0..100 BY <3>1, <3>2, <3>4, ScoresHold
    <3> QED BY <3>5
  <2> QED BY <2>1, <2>2
<1> QED BY <1>1, <1>2
-----------------------------------------------------------------------------
(* CVSS.  What a vector that can be read says of each metric.              *)

\* What the metrics that count may say.
LEMMA MetricValues ==
  /\ Range(V4Values["AV"]) = {"P", "L", "A", "N"}
  /\ Range(V4Values["AC"]) = {"H", "L"}
  /\ Range(V4Values["AT"]) = {"P", "N"}
  /\ Range(V4Values["PR"]) = {"H", "L", "N"}
  /\ Range(V4Values["UI"]) = {"A", "P", "N"}
  /\ Range(V4Values["VC"]) = {"N", "L", "H"}
  /\ Range(V4Values["VI"]) = {"N", "L", "H"}
  /\ Range(V4Values["VA"]) = {"N", "L", "H"}
  /\ Range(V4Values["SC"]) = {"N", "L", "H"}
  /\ Range(V4Values["SI"]) = {"N", "L", "H"}
  /\ Range(V4Values["SA"]) = {"N", "L", "H"}
  /\ Range(V4Values["MAV"]) = {"X", "P", "L", "A", "N"}
  /\ Range(V4Values["MAC"]) = {"X", "H", "L"}
  /\ Range(V4Values["MAT"]) = {"X", "P", "N"}
  /\ Range(V4Values["MPR"]) = {"X", "H", "L", "N"}
  /\ Range(V4Values["MUI"]) = {"X", "A", "P", "N"}
  /\ Range(V4Values["MVC"]) = {"X", "N", "L", "H"}
  /\ Range(V4Values["MVI"]) = {"X", "N", "L", "H"}
  /\ Range(V4Values["MVA"]) = {"X", "N", "L", "H"}
  /\ Range(V4Values["MSC"]) = {"X", "N", "L", "H"}
  /\ Range(V4Values["MSI"]) = {"X", "N", "L", "H", "S"}
  /\ Range(V4Values["MSA"]) = {"X", "N", "L", "H", "S"}
  /\ Range(V4Values["E"]) = {"X", "U", "P", "A"}
  /\ Range(V4Values["CR"]) = {"X", "L", "M", "H"}
  /\ Range(V4Values["IR"]) = {"X", "L", "M", "H"}
  /\ Range(V4Values["AR"]) = {"X", "L", "M", "H"}
<1>1. Range(V4Values["AV"]) = {"P", "L", "A", "N"}
  <2>1. V4Values["AV"] = <<"P", "L", "A", "N">> BY DEF V4Values, Impact, Requirement, MImpact, MSafety
  <2> QED BY <2>1 DEF Range
<1>2. Range(V4Values["AC"]) = {"H", "L"}
  <2>1. V4Values["AC"] = <<"H", "L">> BY DEF V4Values, Impact, Requirement, MImpact, MSafety
  <2> QED BY <2>1 DEF Range
<1>3. Range(V4Values["AT"]) = {"P", "N"}
  <2>1. V4Values["AT"] = <<"P", "N">> BY DEF V4Values, Impact, Requirement, MImpact, MSafety
  <2> QED BY <2>1 DEF Range
<1>4. Range(V4Values["PR"]) = {"H", "L", "N"}
  <2>1. V4Values["PR"] = <<"H", "L", "N">> BY DEF V4Values, Impact, Requirement, MImpact, MSafety
  <2> QED BY <2>1 DEF Range
<1>5. Range(V4Values["UI"]) = {"A", "P", "N"}
  <2>1. V4Values["UI"] = <<"A", "P", "N">> BY DEF V4Values, Impact, Requirement, MImpact, MSafety
  <2> QED BY <2>1 DEF Range
<1>6. Range(V4Values["VC"]) = {"N", "L", "H"}
  <2>1. V4Values["VC"] = <<"N", "L", "H">> BY DEF V4Values, Impact, Requirement, MImpact, MSafety
  <2> QED BY <2>1 DEF Range
<1>7. Range(V4Values["VI"]) = {"N", "L", "H"}
  <2>1. V4Values["VI"] = <<"N", "L", "H">> BY DEF V4Values, Impact, Requirement, MImpact, MSafety
  <2> QED BY <2>1 DEF Range
<1>8. Range(V4Values["VA"]) = {"N", "L", "H"}
  <2>1. V4Values["VA"] = <<"N", "L", "H">> BY DEF V4Values, Impact, Requirement, MImpact, MSafety
  <2> QED BY <2>1 DEF Range
<1>9. Range(V4Values["SC"]) = {"N", "L", "H"}
  <2>1. V4Values["SC"] = <<"N", "L", "H">> BY DEF V4Values, Impact, Requirement, MImpact, MSafety
  <2> QED BY <2>1 DEF Range
<1>10. Range(V4Values["SI"]) = {"N", "L", "H"}
  <2>1. V4Values["SI"] = <<"N", "L", "H">> BY DEF V4Values, Impact, Requirement, MImpact, MSafety
  <2> QED BY <2>1 DEF Range
<1>11. Range(V4Values["SA"]) = {"N", "L", "H"}
  <2>1. V4Values["SA"] = <<"N", "L", "H">> BY DEF V4Values, Impact, Requirement, MImpact, MSafety
  <2> QED BY <2>1 DEF Range
<1>12. Range(V4Values["MAV"]) = {"X", "P", "L", "A", "N"}
  <2>1. V4Values["MAV"] = <<"X", "P", "L", "A", "N">> BY DEF V4Values, Impact, Requirement, MImpact, MSafety
  <2> QED BY <2>1 DEF Range
<1>13. Range(V4Values["MAC"]) = {"X", "H", "L"}
  <2>1. V4Values["MAC"] = <<"X", "H", "L">> BY DEF V4Values, Impact, Requirement, MImpact, MSafety
  <2> QED BY <2>1 DEF Range
<1>14. Range(V4Values["MAT"]) = {"X", "P", "N"}
  <2>1. V4Values["MAT"] = <<"X", "P", "N">> BY DEF V4Values, Impact, Requirement, MImpact, MSafety
  <2> QED BY <2>1 DEF Range
<1>15. Range(V4Values["MPR"]) = {"X", "H", "L", "N"}
  <2>1. V4Values["MPR"] = <<"X", "H", "L", "N">> BY DEF V4Values, Impact, Requirement, MImpact, MSafety
  <2> QED BY <2>1 DEF Range
<1>16. Range(V4Values["MUI"]) = {"X", "A", "P", "N"}
  <2>1. V4Values["MUI"] = <<"X", "A", "P", "N">> BY DEF V4Values, Impact, Requirement, MImpact, MSafety
  <2> QED BY <2>1 DEF Range
<1>17. Range(V4Values["MVC"]) = {"X", "N", "L", "H"}
  <2>1. V4Values["MVC"] = <<"X", "N", "L", "H">> BY DEF V4Values, Impact, Requirement, MImpact, MSafety
  <2> QED BY <2>1 DEF Range
<1>18. Range(V4Values["MVI"]) = {"X", "N", "L", "H"}
  <2>1. V4Values["MVI"] = <<"X", "N", "L", "H">> BY DEF V4Values, Impact, Requirement, MImpact, MSafety
  <2> QED BY <2>1 DEF Range
<1>19. Range(V4Values["MVA"]) = {"X", "N", "L", "H"}
  <2>1. V4Values["MVA"] = <<"X", "N", "L", "H">> BY DEF V4Values, Impact, Requirement, MImpact, MSafety
  <2> QED BY <2>1 DEF Range
<1>20. Range(V4Values["MSC"]) = {"X", "N", "L", "H"}
  <2>1. V4Values["MSC"] = <<"X", "N", "L", "H">> BY DEF V4Values, Impact, Requirement, MImpact, MSafety
  <2> QED BY <2>1 DEF Range
<1>21. Range(V4Values["MSI"]) = {"X", "N", "L", "H", "S"}
  <2>1. V4Values["MSI"] = <<"X", "N", "L", "H", "S">> BY DEF V4Values, Impact, Requirement, MImpact, MSafety
  <2> QED BY <2>1 DEF Range
<1>22. Range(V4Values["MSA"]) = {"X", "N", "L", "H", "S"}
  <2>1. V4Values["MSA"] = <<"X", "N", "L", "H", "S">> BY DEF V4Values, Impact, Requirement, MImpact, MSafety
  <2> QED BY <2>1 DEF Range
<1>23. Range(V4Values["E"]) = {"X", "U", "P", "A"}
  <2>1. V4Values["E"] = <<"X", "U", "P", "A">> BY DEF V4Values, Impact, Requirement, MImpact, MSafety
  <2> QED BY <2>1 DEF Range
<1>24. Range(V4Values["CR"]) = {"X", "L", "M", "H"}
  <2>1. V4Values["CR"] = <<"X", "L", "M", "H">> BY DEF V4Values, Impact, Requirement, MImpact, MSafety
  <2> QED BY <2>1 DEF Range
<1>25. Range(V4Values["IR"]) = {"X", "L", "M", "H"}
  <2>1. V4Values["IR"] = <<"X", "L", "M", "H">> BY DEF V4Values, Impact, Requirement, MImpact, MSafety
  <2> QED BY <2>1 DEF Range
<1>26. Range(V4Values["AR"]) = {"X", "L", "M", "H"}
  <2>1. V4Values["AR"] = <<"X", "L", "M", "H">> BY DEF V4Values, Impact, Requirement, MImpact, MSafety
  <2> QED BY <2>1 DEF Range
<1> QED BY <1>1, <1>2, <1>3, <1>4, <1>5, <1>6, <1>7, <1>8, <1>9, <1>10, <1>11, <1>12, <1>13, <1>14, <1>15, <1>16, <1>17, <1>18, <1>19, <1>20, <1>21, <1>22, <1>23, <1>24, <1>25, <1>26

\* What counts of a metric is what it says, or its modified one.
LEMMA CountsOf ==
  ASSUME NEW m, V4Scorable(m), NEW n \in Mandatory
  PROVE  V4Metric(m, n) \in Range(V4Values[n]) \cup (Range(V4Values[Modified[n]]) \ {"X"})
<1>1. n \notin {"E", "CR", "IR", "AR"} BY DEF Mandatory, Modified
<1>2. CASE Said(m, Modified[n]) # "X"
  <2>1. Modified[n] \in DOMAIN m /\ V4Metric(m, n) = m[Modified[n]] /\ m[Modified[n]] # "X"
    BY <1>1, <1>2 DEF Said, V4Metric
  <2> QED BY <2>1 DEF V4Scorable
<1>3. CASE Said(m, Modified[n]) = "X"
  <2>1. V4Metric(m, n) = m[n] BY <1>1, <1>3 DEF V4Metric
  <2> QED BY <2>1 DEF V4Scorable
<1> QED BY <1>2, <1>3

\* The values that count.
Weighed(m) ==
  /\ V4Metric(m, "AV") \in {"P", "L", "A", "N"}
  /\ V4Metric(m, "AC") \in {"H", "L"}
  /\ V4Metric(m, "AT") \in {"P", "N"}
  /\ V4Metric(m, "PR") \in {"H", "L", "N"}
  /\ V4Metric(m, "UI") \in {"A", "P", "N"}
  /\ V4Metric(m, "VC") \in {"N", "L", "H"}
  /\ V4Metric(m, "VI") \in {"N", "L", "H"}
  /\ V4Metric(m, "VA") \in {"N", "L", "H"}
  /\ V4Metric(m, "SC") \in {"N", "L", "H"}
  /\ V4Metric(m, "SI") \in {"N", "L", "H", "S"}
  /\ V4Metric(m, "SA") \in {"N", "L", "H", "S"}
  /\ V4Metric(m, "E") \in {"U", "P", "A"}
  /\ V4Metric(m, "CR") \in {"L", "M", "H"}
  /\ V4Metric(m, "IR") \in {"L", "M", "H"}
  /\ V4Metric(m, "AR") \in {"L", "M", "H"}

LEMMA WeighedIs == ASSUME NEW m, V4Scorable(m) PROVE Weighed(m)
<1>1. V4Metric(m, "AV") \in {"P", "L", "A", "N"}
  <2>1. "AV" \in Mandatory /\ Modified["AV"] = "MAV" BY DEF Mandatory, Modified
  <2>2. V4Metric(m, "AV") \in Range(V4Values["AV"]) \cup (Range(V4Values["MAV"]) \ {"X"}) BY <2>1, CountsOf
  <2> QED BY <2>2, MetricValues
<1>2. V4Metric(m, "AC") \in {"H", "L"}
  <2>1. "AC" \in Mandatory /\ Modified["AC"] = "MAC" BY DEF Mandatory, Modified
  <2>2. V4Metric(m, "AC") \in Range(V4Values["AC"]) \cup (Range(V4Values["MAC"]) \ {"X"}) BY <2>1, CountsOf
  <2> QED BY <2>2, MetricValues
<1>3. V4Metric(m, "AT") \in {"P", "N"}
  <2>1. "AT" \in Mandatory /\ Modified["AT"] = "MAT" BY DEF Mandatory, Modified
  <2>2. V4Metric(m, "AT") \in Range(V4Values["AT"]) \cup (Range(V4Values["MAT"]) \ {"X"}) BY <2>1, CountsOf
  <2> QED BY <2>2, MetricValues
<1>4. V4Metric(m, "PR") \in {"H", "L", "N"}
  <2>1. "PR" \in Mandatory /\ Modified["PR"] = "MPR" BY DEF Mandatory, Modified
  <2>2. V4Metric(m, "PR") \in Range(V4Values["PR"]) \cup (Range(V4Values["MPR"]) \ {"X"}) BY <2>1, CountsOf
  <2> QED BY <2>2, MetricValues
<1>5. V4Metric(m, "UI") \in {"A", "P", "N"}
  <2>1. "UI" \in Mandatory /\ Modified["UI"] = "MUI" BY DEF Mandatory, Modified
  <2>2. V4Metric(m, "UI") \in Range(V4Values["UI"]) \cup (Range(V4Values["MUI"]) \ {"X"}) BY <2>1, CountsOf
  <2> QED BY <2>2, MetricValues
<1>6. V4Metric(m, "VC") \in {"N", "L", "H"}
  <2>1. "VC" \in Mandatory /\ Modified["VC"] = "MVC" BY DEF Mandatory, Modified
  <2>2. V4Metric(m, "VC") \in Range(V4Values["VC"]) \cup (Range(V4Values["MVC"]) \ {"X"}) BY <2>1, CountsOf
  <2> QED BY <2>2, MetricValues
<1>7. V4Metric(m, "VI") \in {"N", "L", "H"}
  <2>1. "VI" \in Mandatory /\ Modified["VI"] = "MVI" BY DEF Mandatory, Modified
  <2>2. V4Metric(m, "VI") \in Range(V4Values["VI"]) \cup (Range(V4Values["MVI"]) \ {"X"}) BY <2>1, CountsOf
  <2> QED BY <2>2, MetricValues
<1>8. V4Metric(m, "VA") \in {"N", "L", "H"}
  <2>1. "VA" \in Mandatory /\ Modified["VA"] = "MVA" BY DEF Mandatory, Modified
  <2>2. V4Metric(m, "VA") \in Range(V4Values["VA"]) \cup (Range(V4Values["MVA"]) \ {"X"}) BY <2>1, CountsOf
  <2> QED BY <2>2, MetricValues
<1>9. V4Metric(m, "SC") \in {"N", "L", "H"}
  <2>1. "SC" \in Mandatory /\ Modified["SC"] = "MSC" BY DEF Mandatory, Modified
  <2>2. V4Metric(m, "SC") \in Range(V4Values["SC"]) \cup (Range(V4Values["MSC"]) \ {"X"}) BY <2>1, CountsOf
  <2> QED BY <2>2, MetricValues
<1>10. V4Metric(m, "SI") \in {"N", "L", "H", "S"}
  <2>1. "SI" \in Mandatory /\ Modified["SI"] = "MSI" BY DEF Mandatory, Modified
  <2>2. V4Metric(m, "SI") \in Range(V4Values["SI"]) \cup (Range(V4Values["MSI"]) \ {"X"}) BY <2>1, CountsOf
  <2> QED BY <2>2, MetricValues
<1>11. V4Metric(m, "SA") \in {"N", "L", "H", "S"}
  <2>1. "SA" \in Mandatory /\ Modified["SA"] = "MSA" BY DEF Mandatory, Modified
  <2>2. V4Metric(m, "SA") \in Range(V4Values["SA"]) \cup (Range(V4Values["MSA"]) \ {"X"}) BY <2>1, CountsOf
  <2> QED BY <2>2, MetricValues
<1>12. V4Metric(m, "E") \in {"U", "P", "A"}
  <2>1. "E" \in DOMAIN m => m["E"] \in {"X", "U", "P", "A"} BY MetricValues DEF V4Scorable
  <2> QED BY <2>1 DEF V4Metric, Said
<1>13. V4Metric(m, "CR") \in {"L", "M", "H"}
  <2>1. "CR" \in DOMAIN m => m["CR"] \in {"X", "L", "M", "H"} BY MetricValues DEF V4Scorable
  <2> QED BY <2>1 DEF V4Metric, Said
<1>14. V4Metric(m, "IR") \in {"L", "M", "H"}
  <2>1. "IR" \in DOMAIN m => m["IR"] \in {"X", "L", "M", "H"} BY MetricValues DEF V4Scorable
  <2> QED BY <2>1 DEF V4Metric, Said
<1>15. V4Metric(m, "AR") \in {"L", "M", "H"}
  <2>1. "AR" \in DOMAIN m => m["AR"] \in {"X", "L", "M", "H"} BY MetricValues DEF V4Scorable
  <2> QED BY <2>1 DEF V4Metric, Said
<1> QED BY <1>1, <1>2, <1>3, <1>4, <1>5, <1>6, <1>7, <1>8, <1>9, <1>10, <1>11, <1>12, <1>13, <1>14, <1>15 DEF Weighed
-----------------------------------------------------------------------------
(* CVSS.  The MacroVector, and the most severe vectors of its levels.      *)

\* What the levels say of the metrics.
Reach(m, e) ==
  /\ e[1] \in 0..2
  /\ e[1] = 0 => V4Metric(m, "AV") = "N" /\ V4Metric(m, "PR") = "N" /\ V4Metric(m, "UI") = "N"
  /\ e[1] = 1 => V4Metric(m, "AV") # "P" /\ ~(V4Metric(m, "AV") = "N" /\ V4Metric(m, "PR") = "N" /\ V4Metric(m, "UI") = "N")
  /\ e[1] = 2 => \/ V4Metric(m, "AV") = "P"
                 \/ V4Metric(m, "AV") # "N" /\ V4Metric(m, "PR") # "N" /\ V4Metric(m, "UI") # "N"
Effort(m, e) ==
  /\ e[2] \in 0..1
  /\ e[2] = 0 => V4Metric(m, "AC") = "L" /\ V4Metric(m, "AT") = "N"
  /\ e[2] = 1 => V4Metric(m, "AC") # "L" \/ V4Metric(m, "AT") # "N"
Harm(m, e) ==
  /\ e[3] \in 0..2 /\ e[6] \in 0..1
  /\ e[3] = 0 => V4Metric(m, "VC") = "H" /\ V4Metric(m, "VI") = "H"
  /\ e[3] = 1 => /\ ~(V4Metric(m, "VC") = "H" /\ V4Metric(m, "VI") = "H")
                 /\ V4Metric(m, "VC") = "H" \/ V4Metric(m, "VI") = "H" \/ V4Metric(m, "VA") = "H"
  /\ e[3] = 2 => V4Metric(m, "VC") # "H" /\ V4Metric(m, "VI") # "H" /\ V4Metric(m, "VA") # "H"
  /\ e[6] = 1 => /\ V4Metric(m, "CR") # "H" \/ V4Metric(m, "VC") # "H"
                 /\ V4Metric(m, "IR") # "H" \/ V4Metric(m, "VI") # "H"
                 /\ V4Metric(m, "AR") # "H" \/ V4Metric(m, "VA") # "H"
  /\ e[3] = 2 => e[6] = 1
Beyond(m, e) ==
  /\ e[4] \in 0..2
  /\ e[4] # 0 => V4Metric(m, "SI") # "S" /\ V4Metric(m, "SA") # "S"
  /\ e[4] = 2 => V4Metric(m, "SC") # "H" /\ V4Metric(m, "SI") # "H" /\ V4Metric(m, "SA") # "H"

\* What is said of safety is said by a modified metric.
LEMMA SafetyIsModified ==
  ASSUME NEW m, V4Scorable(m)
  PROVE  (V4Metric(m, "SI") = "S" => Said(m, "MSI") = "S") /\ (V4Metric(m, "SA") = "S" => Said(m, "MSA") = "S")
<1>1. "SI" \in DOMAIN m /\ "SA" \in DOMAIN m BY DEF V4Scorable, Mandatory, Modified
<1>2. m["SI"] # "S" /\ m["SA"] # "S" BY <1>1, MetricValues DEF V4Scorable
<1>3. Modified["SI"] = "MSI" /\ Modified["SA"] = "MSA" BY DEF Modified
<1>4. V4Metric(m, "SI") = IF Said(m, "MSI") # "X" THEN m["MSI"] ELSE m["SI"] BY <1>3 DEF V4Metric
<1>5. V4Metric(m, "SA") = IF Said(m, "MSA") # "X" THEN m["MSA"] ELSE m["SA"] BY <1>3 DEF V4Metric
<1> QED BY <1>2, <1>4, <1>5 DEF Said

LEMMA MacroVectorIs ==
  ASSUME NEW m, V4Scorable(m)
  PROVE  LET e == MacroVector(m) IN
         Levels(e) /\ Reach(m, e) /\ Effort(m, e) /\ Harm(m, e) /\ Beyond(m, e)
<1> DEFINE e == MacroVector(m)
<1>0. Weighed(m) BY WeighedIs
<1>1. Reach(m, e)
  <2>1. LET open == {n \in {"AV", "PR", "UI"} : V4Metric(m, n) = "N"} IN
        e[1] = IF open = {"AV", "PR", "UI"} THEN 0 ELSE IF open # {} /\ V4Metric(m, "AV") # "P" THEN 1 ELSE 2
    BY DEF MacroVector
  <2> QED BY <2>1 DEF Reach
<1>2. Effort(m, e)
  <2>1. e[2] = IF V4Metric(m, "AC") = "L" /\ V4Metric(m, "AT") = "N" THEN 0 ELSE 1 BY DEF MacroVector
  <2> QED BY <2>1 DEF Effort
<1>3. Harm(m, e)
  <2>1. e[3] = IF V4Metric(m, "VC") = "H" /\ V4Metric(m, "VI") = "H" THEN 0
               ELSE IF \E n \in {"VC", "VI", "VA"} : V4Metric(m, n) = "H" THEN 1 ELSE 2
    BY DEF MacroVector
  <2>2. e[6] = IF \E p \in {<<"CR", "VC">>, <<"IR", "VI">>, <<"AR", "VA">>} :
                    V4Metric(m, p[1]) = "H" /\ V4Metric(m, p[2]) = "H" THEN 0 ELSE 1
    BY DEF MacroVector
  <2>3. e[6] = IF \/ V4Metric(m, "CR") = "H" /\ V4Metric(m, "VC") = "H"
                  \/ V4Metric(m, "IR") = "H" /\ V4Metric(m, "VI") = "H"
                  \/ V4Metric(m, "AR") = "H" /\ V4Metric(m, "VA") = "H" THEN 0 ELSE 1
    BY <2>2
  <2> HIDE DEF e
  <2> QED BY <2>1, <2>3 DEF Harm
<1>4. Beyond(m, e)
  <2>1. e[4] = IF Said(m, "MSI") = "S" \/ Said(m, "MSA") = "S" THEN 0
               ELSE IF \E n \in {"SC", "SI", "SA"} : V4Metric(m, n) = "H" THEN 1 ELSE 2
    BY DEF MacroVector
  <2> HIDE DEF e
  <2> QED BY <2>1, SafetyIsModified DEF Beyond
<1>5. e[5] \in 0..2
  <2>1. e[5] = CASE V4Metric(m, "E") = "A" -> 0 [] V4Metric(m, "E") = "P" -> 1 [] V4Metric(m, "E") = "U" -> 2
    BY DEF MacroVector
  <2>2. V4Metric(m, "E") \in {"A", "P", "U"} BY <1>0 DEF Weighed
  <2> QED BY <2>1, <2>2
<1> QED BY <1>1, <1>2, <1>3, <1>4, <1>5 DEF Levels, Reach, Effort, Harm, Beyond

\* A sum of numbers.
LEMMA TotalIs ==
  ASSUME NEW f, \A i \in 1..6 \cap DOMAIN f : f[i] \in Int
  PROVE  Total(f) \in Int /\ ((\A i \in 1..6 \cap DOMAIN f : f[i] >= 0) => Total(f) >= 0)
<1> DEFINE of(i) == IF i \in DOMAIN f THEN f[i] ELSE 0
<1>1. Total(f) = of(1) + of(2) + of(3) + of(4) + of(5) + of(6) BY DEF Total
<1>2. \A i \in 1..6 : of(i) \in Int /\ (i \in DOMAIN f => of(i) = f[i]) /\ (i \notin DOMAIN f => of(i) = 0) OBVIOUS
<1>3. (\A i \in 1..6 \cap DOMAIN f : f[i] >= 0) => \A i \in 1..6 : of(i) >= 0 BY <1>2
<1> HIDE DEF of
<1>4. of(1) \in Int /\ of(2) \in Int /\ of(3) \in Int /\ of(4) \in Int /\ of(5) \in Int /\ of(6) \in Int BY <1>2
<1>5. (\A i \in 1..6 : of(i) >= 0) =>
      of(1) >= 0 /\ of(2) >= 0 /\ of(3) >= 0 /\ of(4) >= 0 /\ of(5) >= 0 /\ of(6) >= 0
  OBVIOUS
<1> QED BY <1>1, <1>3, <1>4, <1>5

\* A distance is a number, and one from a vector that is not exceeded.
LEMMA DistanceIs ==
  ASSUME NEW m, NEW axis, NEW max, NEW k \in 1..6, DOMAIN max = 1..k,
         \A i \in 1..k : Level(Axes[axis][i], V4Metric(m, Axes[axis][i])) \in Nat /\ Level(Axes[axis][i], max[i]) \in Nat
  PROVE  /\ Distance(m, axis, max) \in Int
         /\ (\A i \in 1..k : Level(Axes[axis][i], max[i]) <= Level(Axes[axis][i], V4Metric(m, Axes[axis][i])))
            => Distance(m, axis, max) # Unscored
<1> DEFINE away == [i \in DOMAIN max |-> Level(Axes[axis][i], V4Metric(m, Axes[axis][i])) - Level(Axes[axis][i], max[i])]
<1>1. Distance(m, axis, max) = IF \E i \in DOMAIN away : away[i] < 0 THEN Unscored ELSE Total(away) BY DEF Distance, Away
<1>2. DOMAIN away = 1..k /\ \A i \in 1..k : away[i] \in Int OBVIOUS
<1>3. ASSUME \A i \in 1..k : Level(Axes[axis][i], max[i]) <= Level(Axes[axis][i], V4Metric(m, Axes[axis][i]))
      PROVE  \A i \in 1..k : away[i] >= 0
  BY <1>3
<1> HIDE DEF away
<1>4. \A i \in 1..6 \cap DOMAIN away : away[i] \in Int BY <1>2
<1>5. Total(away) \in Int BY <1>4, TotalIs
<1>6. ASSUME \A i \in 1..k : away[i] >= 0 PROVE Distance(m, axis, max) # Unscored
  <2>1. ~\E i \in DOMAIN away : away[i] < 0 BY <1>2, <1>6
  <2>2. \A i \in 1..6 \cap DOMAIN away : away[i] >= 0 BY <1>2, <1>6
  <2>3. Total(away) >= 0 BY <1>4, <2>2, TotalIs
  <2> QED BY <1>1, <1>5, <2>1, <2>3 DEF Unscored
<1>7. Distance(m, axis, max) \in Int BY <1>1, <1>5 DEF Unscored
<1> QED BY <1>3, <1>6, <1>7

\* The way down is counted from one of the vectors, if one fits.
LEMMA WayDownIs ==
  ASSUME NEW m, NEW e, NEW axis, NEW k \in Nat, DOMAIN MaxComposed(axis, e) = 1..k,
         \A i \in 1..k : Distance(m, axis, MaxComposed(axis, e)[i]) \in Int,
         \E i \in 1..k : Distance(m, axis, MaxComposed(axis, e)[i]) # Unscored
  PROVE  WayDown(m, e, axis) \in Int /\ WayDown(m, e, axis) # Unscored
<1> DEFINE from == [i \in DOMAIN MaxComposed(axis, e) |-> Distance(m, axis, MaxComposed(axis, e)[i])]
           numbers == {i \in DOMAIN from : from[i] # Unscored}
           first == CHOOSE i \in numbers : \A j \in numbers : i <= j
<1>1. numbers \subseteq Nat /\ numbers # {} OBVIOUS
<1>2. first \in numbers BY <1>1, LeastExists
<1>3. WayDown(m, e, axis) = from[first] BY <1>1 DEF WayDown, FirstNumber
<1> QED BY <1>2, <1>3

\* How far a value is from the worst is a number.
LEMMA LevelsAreNumbers ==
  /\ \A v \in {"P", "L", "A", "N"} : Level("AV", v) \in Nat
  /\ \A v \in {"H", "L", "N"} : Level("PR", v) \in Nat
  /\ \A v \in {"A", "P", "N"} : Level("UI", v) \in Nat
  /\ \A v \in {"H", "L"} : Level("AC", v) \in Nat
  /\ \A v \in {"P", "N"} : Level("AT", v) \in Nat
  /\ \A v \in {"N", "L", "H"} : Level("VC", v) \in Nat
  /\ \A v \in {"N", "L", "H"} : Level("VI", v) \in Nat
  /\ \A v \in {"N", "L", "H"} : Level("VA", v) \in Nat
  /\ \A v \in {"L", "M", "H"} : Level("CR", v) \in Nat
  /\ \A v \in {"L", "M", "H"} : Level("IR", v) \in Nat
  /\ \A v \in {"L", "M", "H"} : Level("AR", v) \in Nat
  /\ \A v \in {"N", "L", "H"} : Level("SC", v) \in Nat
  /\ \A v \in {"N", "L", "H", "S"} : Level("SI", v) \in Nat
  /\ \A v \in {"N", "L", "H", "S"} : Level("SA", v) \in Nat
<1>1. \A v \in {"P", "L", "A", "N"} : Level("AV", v) \in Nat BY LevelAV
<1>2. \A v \in {"H", "L", "N"} : Level("PR", v) \in Nat BY LevelPR
<1>3. \A v \in {"A", "P", "N"} : Level("UI", v) \in Nat BY LevelUI
<1>4. \A v \in {"H", "L"} : Level("AC", v) \in Nat BY LevelAC
<1>5. \A v \in {"P", "N"} : Level("AT", v) \in Nat BY LevelAT
<1>6. \A v \in {"N", "L", "H"} : Level("VC", v) \in Nat BY LevelVC
<1>7. \A v \in {"N", "L", "H"} : Level("VI", v) \in Nat BY LevelVC
<1>8. \A v \in {"N", "L", "H"} : Level("VA", v) \in Nat BY LevelVC
<1>9. \A v \in {"L", "M", "H"} : Level("CR", v) \in Nat BY LevelCR
<1>10. \A v \in {"L", "M", "H"} : Level("IR", v) \in Nat BY LevelCR
<1>11. \A v \in {"L", "M", "H"} : Level("AR", v) \in Nat BY LevelCR
<1>12. \A v \in {"N", "L", "H"} : Level("SC", v) \in Nat BY LevelSC
<1>13. \A v \in {"N", "L", "H", "S"} : Level("SI", v) \in Nat BY LevelSI
<1>14. \A v \in {"N", "L", "H", "S"} : Level("SA", v) \in Nat BY LevelSI
<1> QED BY <1>1, <1>2, <1>3, <1>4, <1>5, <1>6, <1>7, <1>8, <1>9, <1>10, <1>11, <1>12, <1>13, <1>14

\* The distance of two vectors on the axis of reach.
LEMMA DistanceOn1 ==
  ASSUME NEW m, Weighed(m), NEW x1 \in {"P", "L", "A", "N"}, NEW x2 \in {"H", "L", "N"}, NEW x3 \in {"A", "P", "N"}
  PROVE  /\ Distance(m, 1, <<x1, x2, x3>>) \in Int
         /\ (/\ Level("AV", x1) <= Level("AV", V4Metric(m, "AV"))
            /\ Level("PR", x2) <= Level("PR", V4Metric(m, "PR"))
            /\ Level("UI", x3) <= Level("UI", V4Metric(m, "UI")))
            => Distance(m, 1, <<x1, x2, x3>>) # Unscored
<1> DEFINE max == <<x1, x2, x3>>
<1>1. Axes[1][1] = "AV" /\ Axes[1][2] = "PR" /\ Axes[1][3] = "UI" BY DEF Axes
<1>2. DOMAIN max = 1..3 /\ max[1] = x1 /\ max[2] = x2 /\ max[3] = x3 OBVIOUS
<1>3. Level("AV", x1) \in Nat /\ Level("AV", V4Metric(m, "AV")) \in Nat
      /\ Level("PR", x2) \in Nat /\ Level("PR", V4Metric(m, "PR")) \in Nat
      /\ Level("UI", x3) \in Nat /\ Level("UI", V4Metric(m, "UI")) \in Nat
  BY LevelsAreNumbers DEF Weighed
<1> HIDE DEF max
<1>4. \A i \in 1..3 : i = 1 \/ i = 2 \/ i = 3 OBVIOUS
<1>5. \A i \in 1..3 : Level(Axes[1][i], V4Metric(m, Axes[1][i])) \in Nat /\ Level(Axes[1][i], max[i]) \in Nat
  BY <1>1, <1>2, <1>3, <1>4
<1>6. Distance(m, 1, max) \in Int BY <1>2, <1>5, DistanceIs
<1>7. ASSUME Level("AV", x1) <= Level("AV", V4Metric(m, "AV"))
             /\ Level("PR", x2) <= Level("PR", V4Metric(m, "PR"))
             /\ Level("UI", x3) <= Level("UI", V4Metric(m, "UI"))
      PROVE  Distance(m, 1, max) # Unscored
  <2>1. \A i \in 1..3 : Level(Axes[1][i], max[i]) <= Level(Axes[1][i], V4Metric(m, Axes[1][i]))
    BY <1>1, <1>2, <1>4, <1>7
  <2> QED BY <1>2, <1>5, <2>1, DistanceIs
<1> QED BY <1>6, <1>7 DEF max

\* The distance of two vectors on the axis of effort.
LEMMA DistanceOn2 ==
  ASSUME NEW m, Weighed(m), NEW x1 \in {"H", "L"}, NEW x2 \in {"P", "N"}
  PROVE  /\ Distance(m, 2, <<x1, x2>>) \in Int
         /\ (/\ Level("AC", x1) <= Level("AC", V4Metric(m, "AC"))
            /\ Level("AT", x2) <= Level("AT", V4Metric(m, "AT")))
            => Distance(m, 2, <<x1, x2>>) # Unscored
<1> DEFINE max == <<x1, x2>>
<1>1. Axes[2][1] = "AC" /\ Axes[2][2] = "AT" BY DEF Axes
<1>2. DOMAIN max = 1..2 /\ max[1] = x1 /\ max[2] = x2 OBVIOUS
<1>3. Level("AC", x1) \in Nat /\ Level("AC", V4Metric(m, "AC")) \in Nat
      /\ Level("AT", x2) \in Nat /\ Level("AT", V4Metric(m, "AT")) \in Nat
  BY LevelsAreNumbers DEF Weighed
<1> HIDE DEF max
<1>4. \A i \in 1..2 : i = 1 \/ i = 2 OBVIOUS
<1>5. \A i \in 1..2 : Level(Axes[2][i], V4Metric(m, Axes[2][i])) \in Nat /\ Level(Axes[2][i], max[i]) \in Nat
  BY <1>1, <1>2, <1>3, <1>4
<1>6. Distance(m, 2, max) \in Int BY <1>2, <1>5, DistanceIs
<1>7. ASSUME Level("AC", x1) <= Level("AC", V4Metric(m, "AC"))
             /\ Level("AT", x2) <= Level("AT", V4Metric(m, "AT"))
      PROVE  Distance(m, 2, max) # Unscored
  <2>1. \A i \in 1..2 : Level(Axes[2][i], max[i]) <= Level(Axes[2][i], V4Metric(m, Axes[2][i]))
    BY <1>1, <1>2, <1>4, <1>7
  <2> QED BY <1>2, <1>5, <2>1, DistanceIs
<1> QED BY <1>6, <1>7 DEF max

\* The distance of two vectors on the axis of harm.
LEMMA DistanceOn3 ==
  ASSUME NEW m, Weighed(m), NEW x1 \in {"N", "L", "H"}, NEW x2 \in {"N", "L", "H"}, NEW x3 \in {"N", "L", "H"}, NEW x4 \in {"L", "M", "H"}, NEW x5 \in {"L", "M", "H"}, NEW x6 \in {"L", "M", "H"}
  PROVE  /\ Distance(m, 3, <<x1, x2, x3, x4, x5, x6>>) \in Int
         /\ (/\ Level("VC", x1) <= Level("VC", V4Metric(m, "VC"))
            /\ Level("VI", x2) <= Level("VI", V4Metric(m, "VI"))
            /\ Level("VA", x3) <= Level("VA", V4Metric(m, "VA"))
            /\ Level("CR", x4) <= Level("CR", V4Metric(m, "CR"))
            /\ Level("IR", x5) <= Level("IR", V4Metric(m, "IR"))
            /\ Level("AR", x6) <= Level("AR", V4Metric(m, "AR")))
            => Distance(m, 3, <<x1, x2, x3, x4, x5, x6>>) # Unscored
<1> DEFINE max == <<x1, x2, x3, x4, x5, x6>>
<1>1. Axes[3][1] = "VC" /\ Axes[3][2] = "VI" /\ Axes[3][3] = "VA" /\ Axes[3][4] = "CR" /\ Axes[3][5] = "IR" /\ Axes[3][6] = "AR" BY DEF Axes
<1>2. DOMAIN max = 1..6 /\ max[1] = x1 /\ max[2] = x2 /\ max[3] = x3 /\ max[4] = x4 /\ max[5] = x5 /\ max[6] = x6 OBVIOUS
<1>3. Level("VC", x1) \in Nat /\ Level("VC", V4Metric(m, "VC")) \in Nat
      /\ Level("VI", x2) \in Nat /\ Level("VI", V4Metric(m, "VI")) \in Nat
      /\ Level("VA", x3) \in Nat /\ Level("VA", V4Metric(m, "VA")) \in Nat
      /\ Level("CR", x4) \in Nat /\ Level("CR", V4Metric(m, "CR")) \in Nat
      /\ Level("IR", x5) \in Nat /\ Level("IR", V4Metric(m, "IR")) \in Nat
      /\ Level("AR", x6) \in Nat /\ Level("AR", V4Metric(m, "AR")) \in Nat
  BY LevelsAreNumbers DEF Weighed
<1> HIDE DEF max
<1>4. \A i \in 1..6 : i = 1 \/ i = 2 \/ i = 3 \/ i = 4 \/ i = 5 \/ i = 6 OBVIOUS
<1>5. \A i \in 1..6 : Level(Axes[3][i], V4Metric(m, Axes[3][i])) \in Nat /\ Level(Axes[3][i], max[i]) \in Nat
  BY <1>1, <1>2, <1>3, <1>4
<1>6. Distance(m, 3, max) \in Int BY <1>2, <1>5, DistanceIs
<1>7. ASSUME Level("VC", x1) <= Level("VC", V4Metric(m, "VC"))
             /\ Level("VI", x2) <= Level("VI", V4Metric(m, "VI"))
             /\ Level("VA", x3) <= Level("VA", V4Metric(m, "VA"))
             /\ Level("CR", x4) <= Level("CR", V4Metric(m, "CR"))
             /\ Level("IR", x5) <= Level("IR", V4Metric(m, "IR"))
             /\ Level("AR", x6) <= Level("AR", V4Metric(m, "AR"))
      PROVE  Distance(m, 3, max) # Unscored
  <2>1. \A i \in 1..6 : Level(Axes[3][i], max[i]) <= Level(Axes[3][i], V4Metric(m, Axes[3][i]))
    BY <1>1, <1>2, <1>4, <1>7
  <2> QED BY <1>2, <1>5, <2>1, DistanceIs
<1> QED BY <1>6, <1>7 DEF max

\* The distance of two vectors on the axis of beyond.
LEMMA DistanceOn4 ==
  ASSUME NEW m, Weighed(m), NEW x1 \in {"N", "L", "H"}, NEW x2 \in {"N", "L", "H", "S"}, NEW x3 \in {"N", "L", "H", "S"}
  PROVE  /\ Distance(m, 4, <<x1, x2, x3>>) \in Int
         /\ (/\ Level("SC", x1) <= Level("SC", V4Metric(m, "SC"))
            /\ Level("SI", x2) <= Level("SI", V4Metric(m, "SI"))
            /\ Level("SA", x3) <= Level("SA", V4Metric(m, "SA")))
            => Distance(m, 4, <<x1, x2, x3>>) # Unscored
<1> DEFINE max == <<x1, x2, x3>>
<1>1. Axes[4][1] = "SC" /\ Axes[4][2] = "SI" /\ Axes[4][3] = "SA" BY DEF Axes
<1>2. DOMAIN max = 1..3 /\ max[1] = x1 /\ max[2] = x2 /\ max[3] = x3 OBVIOUS
<1>3. Level("SC", x1) \in Nat /\ Level("SC", V4Metric(m, "SC")) \in Nat
      /\ Level("SI", x2) \in Nat /\ Level("SI", V4Metric(m, "SI")) \in Nat
      /\ Level("SA", x3) \in Nat /\ Level("SA", V4Metric(m, "SA")) \in Nat
  BY LevelsAreNumbers DEF Weighed
<1> HIDE DEF max
<1>4. \A i \in 1..3 : i = 1 \/ i = 2 \/ i = 3 OBVIOUS
<1>5. \A i \in 1..3 : Level(Axes[4][i], V4Metric(m, Axes[4][i])) \in Nat /\ Level(Axes[4][i], max[i]) \in Nat
  BY <1>1, <1>2, <1>3, <1>4
<1>6. Distance(m, 4, max) \in Int BY <1>2, <1>5, DistanceIs
<1>7. ASSUME Level("SC", x1) <= Level("SC", V4Metric(m, "SC"))
             /\ Level("SI", x2) <= Level("SI", V4Metric(m, "SI"))
             /\ Level("SA", x3) <= Level("SA", V4Metric(m, "SA"))
      PROVE  Distance(m, 4, max) # Unscored
  <2>1. \A i \in 1..3 : Level(Axes[4][i], max[i]) <= Level(Axes[4][i], V4Metric(m, Axes[4][i]))
    BY <1>1, <1>2, <1>4, <1>7
  <2> QED BY <1>2, <1>5, <2>1, DistanceIs
<1> QED BY <1>6, <1>7 DEF max

\* On the axis of reach, each level has a most severe vector that a vector of
\* the level does not exceed.
LEMMA WayDownOn1 ==
  ASSUME NEW m, Weighed(m), NEW e, Reach(m, e)
  PROVE  WayDown(m, e, 1) \in Int /\ WayDown(m, e, 1) # Unscored
<1>1. CASE e[1] = 0
  <2> DEFINE c == MaxComposed(1, e)
  <2>1. c = <<<<"N", "N", "N">>>> BY <1>1 DEF MaxComposed
  <2>2. DOMAIN c = 1..1 /\ c[1] = <<"N", "N", "N">> BY <2>1
  <2> HIDE DEF c
  <2>3. /\ Distance(m, 1, c[1]) \in Int
        /\ (/\ Level("AV", "N") <= Level("AV", V4Metric(m, "AV"))
            /\ Level("PR", "N") <= Level("PR", V4Metric(m, "PR"))
            /\ Level("UI", "N") <= Level("UI", V4Metric(m, "UI")))
           => Distance(m, 1, c[1]) # Unscored
    BY <2>2, DistanceOn1
  <2>4. Distance(m, 1, c[1]) # Unscored
    BY <1>1, <2>3, LevelAV, LevelPR, LevelUI DEF Weighed, Reach
  <2>5. \A i \in 1..1 : i = 1 OBVIOUS
  <2>6. \A i \in 1..1 : Distance(m, 1, c[i]) \in Int BY <2>3, <2>5
  <2>7. \E i \in 1..1 : Distance(m, 1, c[i]) # Unscored BY <2>4
  <2> QED BY <2>2, <2>6, <2>7, WayDownIs DEF c
<1>2. CASE e[1] = 1
  <2> DEFINE c == MaxComposed(1, e)
  <2>1. c = <<<<"A", "N", "N">>, <<"N", "L", "N">>, <<"N", "N", "P">>>> BY <1>2 DEF MaxComposed
  <2>2. DOMAIN c = 1..3 /\ c[1] = <<"A", "N", "N">> /\ c[2] = <<"N", "L", "N">> /\ c[3] = <<"N", "N", "P">> BY <2>1
  <2> HIDE DEF c
  <2>3. /\ Distance(m, 1, c[1]) \in Int
        /\ (/\ Level("AV", "A") <= Level("AV", V4Metric(m, "AV"))
            /\ Level("PR", "N") <= Level("PR", V4Metric(m, "PR"))
            /\ Level("UI", "N") <= Level("UI", V4Metric(m, "UI")))
           => Distance(m, 1, c[1]) # Unscored
    BY <2>2, DistanceOn1
  <2>4. /\ Distance(m, 1, c[2]) \in Int
        /\ (/\ Level("AV", "N") <= Level("AV", V4Metric(m, "AV"))
            /\ Level("PR", "L") <= Level("PR", V4Metric(m, "PR"))
            /\ Level("UI", "N") <= Level("UI", V4Metric(m, "UI")))
           => Distance(m, 1, c[2]) # Unscored
    BY <2>2, DistanceOn1
  <2>5. /\ Distance(m, 1, c[3]) \in Int
        /\ (/\ Level("AV", "N") <= Level("AV", V4Metric(m, "AV"))
            /\ Level("PR", "N") <= Level("PR", V4Metric(m, "PR"))
            /\ Level("UI", "P") <= Level("UI", V4Metric(m, "UI")))
           => Distance(m, 1, c[3]) # Unscored
    BY <2>2, DistanceOn1
  <2>6. Distance(m, 1, c[1]) # Unscored \/ Distance(m, 1, c[2]) # Unscored \/ Distance(m, 1, c[3]) # Unscored
    BY <1>2, <2>3, <2>4, <2>5, LevelAV, LevelPR, LevelUI DEF Weighed, Reach
  <2>7. \A i \in 1..3 : i = 1 \/ i = 2 \/ i = 3 OBVIOUS
  <2>8. \A i \in 1..3 : Distance(m, 1, c[i]) \in Int BY <2>3, <2>4, <2>5, <2>7
  <2>9. \E i \in 1..3 : Distance(m, 1, c[i]) # Unscored BY <2>6
  <2> QED BY <2>2, <2>8, <2>9, WayDownIs DEF c
<1>3. CASE e[1] = 2
  <2> DEFINE c == MaxComposed(1, e)
  <2>1. c = <<<<"P", "N", "N">>, <<"A", "L", "P">>>> BY <1>3 DEF MaxComposed
  <2>2. DOMAIN c = 1..2 /\ c[1] = <<"P", "N", "N">> /\ c[2] = <<"A", "L", "P">> BY <2>1
  <2> HIDE DEF c
  <2>3. /\ Distance(m, 1, c[1]) \in Int
        /\ (/\ Level("AV", "P") <= Level("AV", V4Metric(m, "AV"))
            /\ Level("PR", "N") <= Level("PR", V4Metric(m, "PR"))
            /\ Level("UI", "N") <= Level("UI", V4Metric(m, "UI")))
           => Distance(m, 1, c[1]) # Unscored
    BY <2>2, DistanceOn1
  <2>4. /\ Distance(m, 1, c[2]) \in Int
        /\ (/\ Level("AV", "A") <= Level("AV", V4Metric(m, "AV"))
            /\ Level("PR", "L") <= Level("PR", V4Metric(m, "PR"))
            /\ Level("UI", "P") <= Level("UI", V4Metric(m, "UI")))
           => Distance(m, 1, c[2]) # Unscored
    BY <2>2, DistanceOn1
  <2>5. Distance(m, 1, c[1]) # Unscored \/ Distance(m, 1, c[2]) # Unscored
    BY <1>3, <2>3, <2>4, LevelAV, LevelPR, LevelUI DEF Weighed, Reach
  <2>6. \A i \in 1..2 : i = 1 \/ i = 2 OBVIOUS
  <2>7. \A i \in 1..2 : Distance(m, 1, c[i]) \in Int BY <2>3, <2>4, <2>6
  <2>8. \E i \in 1..2 : Distance(m, 1, c[i]) # Unscored BY <2>5
  <2> QED BY <2>2, <2>7, <2>8, WayDownIs DEF c
<1> QED BY <1>1, <1>2, <1>3 DEF Reach

\* On the axis of effort, each level has a most severe vector that a vector of
\* the level does not exceed.
LEMMA WayDownOn2 ==
  ASSUME NEW m, Weighed(m), NEW e, Effort(m, e)
  PROVE  WayDown(m, e, 2) \in Int /\ WayDown(m, e, 2) # Unscored
<1>1. CASE e[2] = 0
  <2> DEFINE c == MaxComposed(2, e)
  <2>1. c = <<<<"L", "N">>>> BY <1>1 DEF MaxComposed
  <2>2. DOMAIN c = 1..1 /\ c[1] = <<"L", "N">> BY <2>1
  <2> HIDE DEF c
  <2>3. /\ Distance(m, 2, c[1]) \in Int
        /\ (/\ Level("AC", "L") <= Level("AC", V4Metric(m, "AC"))
            /\ Level("AT", "N") <= Level("AT", V4Metric(m, "AT")))
           => Distance(m, 2, c[1]) # Unscored
    BY <2>2, DistanceOn2
  <2>4. Distance(m, 2, c[1]) # Unscored
    BY <1>1, <2>3, LevelAC, LevelAT DEF Weighed, Effort
  <2>5. \A i \in 1..1 : i = 1 OBVIOUS
  <2>6. \A i \in 1..1 : Distance(m, 2, c[i]) \in Int BY <2>3, <2>5
  <2>7. \E i \in 1..1 : Distance(m, 2, c[i]) # Unscored BY <2>4
  <2> QED BY <2>2, <2>6, <2>7, WayDownIs DEF c
<1>2. CASE e[2] = 1
  <2> DEFINE c == MaxComposed(2, e)
  <2>1. c = <<<<"H", "N">>, <<"L", "P">>>> BY <1>2 DEF MaxComposed
  <2>2. DOMAIN c = 1..2 /\ c[1] = <<"H", "N">> /\ c[2] = <<"L", "P">> BY <2>1
  <2> HIDE DEF c
  <2>3. /\ Distance(m, 2, c[1]) \in Int
        /\ (/\ Level("AC", "H") <= Level("AC", V4Metric(m, "AC"))
            /\ Level("AT", "N") <= Level("AT", V4Metric(m, "AT")))
           => Distance(m, 2, c[1]) # Unscored
    BY <2>2, DistanceOn2
  <2>4. /\ Distance(m, 2, c[2]) \in Int
        /\ (/\ Level("AC", "L") <= Level("AC", V4Metric(m, "AC"))
            /\ Level("AT", "P") <= Level("AT", V4Metric(m, "AT")))
           => Distance(m, 2, c[2]) # Unscored
    BY <2>2, DistanceOn2
  <2>5. Distance(m, 2, c[1]) # Unscored \/ Distance(m, 2, c[2]) # Unscored
    BY <1>2, <2>3, <2>4, LevelAC, LevelAT DEF Weighed, Effort
  <2>6. \A i \in 1..2 : i = 1 \/ i = 2 OBVIOUS
  <2>7. \A i \in 1..2 : Distance(m, 2, c[i]) \in Int BY <2>3, <2>4, <2>6
  <2>8. \E i \in 1..2 : Distance(m, 2, c[i]) # Unscored BY <2>5
  <2> QED BY <2>2, <2>7, <2>8, WayDownIs DEF c
<1> QED BY <1>1, <1>2 DEF Effort

\* On the axis of harm, each level has a most severe vector that a vector of
\* the level does not exceed.
LEMMA WayDownOn3 ==
  ASSUME NEW m, Weighed(m), NEW e, Harm(m, e)
  PROVE  WayDown(m, e, 3) \in Int /\ WayDown(m, e, 3) # Unscored
<1>1. CASE e[6] = 0 /\ e[3] = 0
  <2> DEFINE c == MaxComposed(3, e)
  <2>1. c = <<<<"H", "H", "H", "H", "H", "H">>>> BY <1>1 DEF MaxComposed
  <2>2. DOMAIN c = 1..1 /\ c[1] = <<"H", "H", "H", "H", "H", "H">> BY <2>1
  <2> HIDE DEF c
  <2>3. /\ Distance(m, 3, c[1]) \in Int
        /\ (/\ Level("VC", "H") <= Level("VC", V4Metric(m, "VC"))
            /\ Level("VI", "H") <= Level("VI", V4Metric(m, "VI"))
            /\ Level("VA", "H") <= Level("VA", V4Metric(m, "VA"))
            /\ Level("CR", "H") <= Level("CR", V4Metric(m, "CR"))
            /\ Level("IR", "H") <= Level("IR", V4Metric(m, "IR"))
            /\ Level("AR", "H") <= Level("AR", V4Metric(m, "AR")))
           => Distance(m, 3, c[1]) # Unscored
    BY <2>2, DistanceOn3
  <2>4. Distance(m, 3, c[1]) # Unscored
    BY <1>1, <2>3, LevelCR, LevelVC DEF Weighed, Harm
  <2>5. \A i \in 1..1 : i = 1 OBVIOUS
  <2>6. \A i \in 1..1 : Distance(m, 3, c[i]) \in Int BY <2>3, <2>5
  <2>7. \E i \in 1..1 : Distance(m, 3, c[i]) # Unscored BY <2>4
  <2> QED BY <2>2, <2>6, <2>7, WayDownIs DEF c
<1>2. CASE e[6] = 0 /\ e[3] = 1
  <2> DEFINE c == MaxComposed(3, e)
  <2>1. c = <<<<"L", "H", "H", "H", "H", "H">>, <<"H", "L", "H", "H", "H", "H">>>> BY <1>2 DEF MaxComposed
  <2>2. DOMAIN c = 1..2 /\ c[1] = <<"L", "H", "H", "H", "H", "H">> /\ c[2] = <<"H", "L", "H", "H", "H", "H">> BY <2>1
  <2> HIDE DEF c
  <2>3. /\ Distance(m, 3, c[1]) \in Int
        /\ (/\ Level("VC", "L") <= Level("VC", V4Metric(m, "VC"))
            /\ Level("VI", "H") <= Level("VI", V4Metric(m, "VI"))
            /\ Level("VA", "H") <= Level("VA", V4Metric(m, "VA"))
            /\ Level("CR", "H") <= Level("CR", V4Metric(m, "CR"))
            /\ Level("IR", "H") <= Level("IR", V4Metric(m, "IR"))
            /\ Level("AR", "H") <= Level("AR", V4Metric(m, "AR")))
           => Distance(m, 3, c[1]) # Unscored
    BY <2>2, DistanceOn3
  <2>4. /\ Distance(m, 3, c[2]) \in Int
        /\ (/\ Level("VC", "H") <= Level("VC", V4Metric(m, "VC"))
            /\ Level("VI", "L") <= Level("VI", V4Metric(m, "VI"))
            /\ Level("VA", "H") <= Level("VA", V4Metric(m, "VA"))
            /\ Level("CR", "H") <= Level("CR", V4Metric(m, "CR"))
            /\ Level("IR", "H") <= Level("IR", V4Metric(m, "IR"))
            /\ Level("AR", "H") <= Level("AR", V4Metric(m, "AR")))
           => Distance(m, 3, c[2]) # Unscored
    BY <2>2, DistanceOn3
  <2>5. Distance(m, 3, c[1]) # Unscored \/ Distance(m, 3, c[2]) # Unscored
    BY <1>2, <2>3, <2>4, LevelCR, LevelVC DEF Weighed, Harm
  <2>6. \A i \in 1..2 : i = 1 \/ i = 2 OBVIOUS
  <2>7. \A i \in 1..2 : Distance(m, 3, c[i]) \in Int BY <2>3, <2>4, <2>6
  <2>8. \E i \in 1..2 : Distance(m, 3, c[i]) # Unscored BY <2>5
  <2> QED BY <2>2, <2>7, <2>8, WayDownIs DEF c
<1>3. CASE e[6] = 1 /\ e[3] = 0
  <2> DEFINE c == MaxComposed(3, e)
  <2>1. c = <<<<"H", "H", "L", "M", "M", "H">>, <<"H", "H", "H", "M", "M", "M">>>> BY <1>3 DEF MaxComposed
  <2>2. DOMAIN c = 1..2 /\ c[1] = <<"H", "H", "L", "M", "M", "H">> /\ c[2] = <<"H", "H", "H", "M", "M", "M">> BY <2>1
  <2> HIDE DEF c
  <2>3. /\ Distance(m, 3, c[1]) \in Int
        /\ (/\ Level("VC", "H") <= Level("VC", V4Metric(m, "VC"))
            /\ Level("VI", "H") <= Level("VI", V4Metric(m, "VI"))
            /\ Level("VA", "L") <= Level("VA", V4Metric(m, "VA"))
            /\ Level("CR", "M") <= Level("CR", V4Metric(m, "CR"))
            /\ Level("IR", "M") <= Level("IR", V4Metric(m, "IR"))
            /\ Level("AR", "H") <= Level("AR", V4Metric(m, "AR")))
           => Distance(m, 3, c[1]) # Unscored
    BY <2>2, DistanceOn3
  <2>4. /\ Distance(m, 3, c[2]) \in Int
        /\ (/\ Level("VC", "H") <= Level("VC", V4Metric(m, "VC"))
            /\ Level("VI", "H") <= Level("VI", V4Metric(m, "VI"))
            /\ Level("VA", "H") <= Level("VA", V4Metric(m, "VA"))
            /\ Level("CR", "M") <= Level("CR", V4Metric(m, "CR"))
            /\ Level("IR", "M") <= Level("IR", V4Metric(m, "IR"))
            /\ Level("AR", "M") <= Level("AR", V4Metric(m, "AR")))
           => Distance(m, 3, c[2]) # Unscored
    BY <2>2, DistanceOn3
  <2>5. Distance(m, 3, c[1]) # Unscored \/ Distance(m, 3, c[2]) # Unscored
    BY <1>3, <2>3, <2>4, LevelCR, LevelVC DEF Weighed, Harm
  <2>6. \A i \in 1..2 : i = 1 \/ i = 2 OBVIOUS
  <2>7. \A i \in 1..2 : Distance(m, 3, c[i]) \in Int BY <2>3, <2>4, <2>6
  <2>8. \E i \in 1..2 : Distance(m, 3, c[i]) # Unscored BY <2>5
  <2> QED BY <2>2, <2>7, <2>8, WayDownIs DEF c
<1>4. CASE e[6] = 1 /\ e[3] = 1
  <2> DEFINE c == MaxComposed(3, e)
  <2>1. c = <<<<"L", "H", "L", "H", "M", "H">>, <<"L", "H", "H", "H", "M", "M">>, <<"H", "L", "H", "M", "H", "M">>, <<"H", "L", "L", "M", "H", "H">>, <<"L", "L", "H", "H", "H", "M">>>> BY <1>4 DEF MaxComposed
  <2>2. DOMAIN c = 1..5 /\ c[1] = <<"L", "H", "L", "H", "M", "H">> /\ c[2] = <<"L", "H", "H", "H", "M", "M">> /\ c[3] = <<"H", "L", "H", "M", "H", "M">> /\ c[4] = <<"H", "L", "L", "M", "H", "H">> /\ c[5] = <<"L", "L", "H", "H", "H", "M">> BY <2>1
  <2> HIDE DEF c
  <2>3. /\ Distance(m, 3, c[1]) \in Int
        /\ (/\ Level("VC", "L") <= Level("VC", V4Metric(m, "VC"))
            /\ Level("VI", "H") <= Level("VI", V4Metric(m, "VI"))
            /\ Level("VA", "L") <= Level("VA", V4Metric(m, "VA"))
            /\ Level("CR", "H") <= Level("CR", V4Metric(m, "CR"))
            /\ Level("IR", "M") <= Level("IR", V4Metric(m, "IR"))
            /\ Level("AR", "H") <= Level("AR", V4Metric(m, "AR")))
           => Distance(m, 3, c[1]) # Unscored
    BY <2>2, DistanceOn3
  <2>4. /\ Distance(m, 3, c[2]) \in Int
        /\ (/\ Level("VC", "L") <= Level("VC", V4Metric(m, "VC"))
            /\ Level("VI", "H") <= Level("VI", V4Metric(m, "VI"))
            /\ Level("VA", "H") <= Level("VA", V4Metric(m, "VA"))
            /\ Level("CR", "H") <= Level("CR", V4Metric(m, "CR"))
            /\ Level("IR", "M") <= Level("IR", V4Metric(m, "IR"))
            /\ Level("AR", "M") <= Level("AR", V4Metric(m, "AR")))
           => Distance(m, 3, c[2]) # Unscored
    BY <2>2, DistanceOn3
  <2>5. /\ Distance(m, 3, c[3]) \in Int
        /\ (/\ Level("VC", "H") <= Level("VC", V4Metric(m, "VC"))
            /\ Level("VI", "L") <= Level("VI", V4Metric(m, "VI"))
            /\ Level("VA", "H") <= Level("VA", V4Metric(m, "VA"))
            /\ Level("CR", "M") <= Level("CR", V4Metric(m, "CR"))
            /\ Level("IR", "H") <= Level("IR", V4Metric(m, "IR"))
            /\ Level("AR", "M") <= Level("AR", V4Metric(m, "AR")))
           => Distance(m, 3, c[3]) # Unscored
    BY <2>2, DistanceOn3
  <2>6. /\ Distance(m, 3, c[4]) \in Int
        /\ (/\ Level("VC", "H") <= Level("VC", V4Metric(m, "VC"))
            /\ Level("VI", "L") <= Level("VI", V4Metric(m, "VI"))
            /\ Level("VA", "L") <= Level("VA", V4Metric(m, "VA"))
            /\ Level("CR", "M") <= Level("CR", V4Metric(m, "CR"))
            /\ Level("IR", "H") <= Level("IR", V4Metric(m, "IR"))
            /\ Level("AR", "H") <= Level("AR", V4Metric(m, "AR")))
           => Distance(m, 3, c[4]) # Unscored
    BY <2>2, DistanceOn3
  <2>7. /\ Distance(m, 3, c[5]) \in Int
        /\ (/\ Level("VC", "L") <= Level("VC", V4Metric(m, "VC"))
            /\ Level("VI", "L") <= Level("VI", V4Metric(m, "VI"))
            /\ Level("VA", "H") <= Level("VA", V4Metric(m, "VA"))
            /\ Level("CR", "H") <= Level("CR", V4Metric(m, "CR"))
            /\ Level("IR", "H") <= Level("IR", V4Metric(m, "IR"))
            /\ Level("AR", "M") <= Level("AR", V4Metric(m, "AR")))
           => Distance(m, 3, c[5]) # Unscored
    BY <2>2, DistanceOn3
  <2>8. Distance(m, 3, c[1]) # Unscored \/ Distance(m, 3, c[2]) # Unscored \/ Distance(m, 3, c[3]) # Unscored \/ Distance(m, 3, c[4]) # Unscored \/ Distance(m, 3, c[5]) # Unscored
    BY <1>4, <2>3, <2>4, <2>5, <2>6, <2>7, LevelCR, LevelVC DEF Weighed, Harm
  <2>9. \A i \in 1..5 : i = 1 \/ i = 2 \/ i = 3 \/ i = 4 \/ i = 5 OBVIOUS
  <2>10. \A i \in 1..5 : Distance(m, 3, c[i]) \in Int BY <2>3, <2>4, <2>5, <2>6, <2>7, <2>9
  <2>11. \E i \in 1..5 : Distance(m, 3, c[i]) # Unscored BY <2>8
  <2> QED BY <2>2, <2>10, <2>11, WayDownIs DEF c
<1>5. CASE e[6] = 1 /\ e[3] = 2
  <2> DEFINE c == MaxComposed(3, e)
  <2>1. c = <<<<"L", "L", "L", "H", "H", "H">>>> BY <1>5 DEF MaxComposed
  <2>2. DOMAIN c = 1..1 /\ c[1] = <<"L", "L", "L", "H", "H", "H">> BY <2>1
  <2> HIDE DEF c
  <2>3. /\ Distance(m, 3, c[1]) \in Int
        /\ (/\ Level("VC", "L") <= Level("VC", V4Metric(m, "VC"))
            /\ Level("VI", "L") <= Level("VI", V4Metric(m, "VI"))
            /\ Level("VA", "L") <= Level("VA", V4Metric(m, "VA"))
            /\ Level("CR", "H") <= Level("CR", V4Metric(m, "CR"))
            /\ Level("IR", "H") <= Level("IR", V4Metric(m, "IR"))
            /\ Level("AR", "H") <= Level("AR", V4Metric(m, "AR")))
           => Distance(m, 3, c[1]) # Unscored
    BY <2>2, DistanceOn3
  <2>4. Distance(m, 3, c[1]) # Unscored
    BY <1>5, <2>3, LevelCR, LevelVC DEF Weighed, Harm
  <2>5. \A i \in 1..1 : i = 1 OBVIOUS
  <2>6. \A i \in 1..1 : Distance(m, 3, c[i]) \in Int BY <2>3, <2>5
  <2>7. \E i \in 1..1 : Distance(m, 3, c[i]) # Unscored BY <2>4
  <2> QED BY <2>2, <2>6, <2>7, WayDownIs DEF c
<1> QED BY <1>1, <1>2, <1>3, <1>4, <1>5 DEF Harm

\* On the axis of beyond, each level has a most severe vector that a vector of
\* the level does not exceed.
LEMMA WayDownOn4 ==
  ASSUME NEW m, Weighed(m), NEW e, Beyond(m, e)
  PROVE  WayDown(m, e, 4) \in Int /\ WayDown(m, e, 4) # Unscored
<1>1. CASE e[4] = 0
  <2> DEFINE c == MaxComposed(4, e)
  <2>1. c = <<<<"H", "S", "S">>>> BY <1>1 DEF MaxComposed
  <2>2. DOMAIN c = 1..1 /\ c[1] = <<"H", "S", "S">> BY <2>1
  <2> HIDE DEF c
  <2>3. /\ Distance(m, 4, c[1]) \in Int
        /\ (/\ Level("SC", "H") <= Level("SC", V4Metric(m, "SC"))
            /\ Level("SI", "S") <= Level("SI", V4Metric(m, "SI"))
            /\ Level("SA", "S") <= Level("SA", V4Metric(m, "SA")))
           => Distance(m, 4, c[1]) # Unscored
    BY <2>2, DistanceOn4
  <2>4. Distance(m, 4, c[1]) # Unscored
    BY <1>1, <2>3, LevelSC, LevelSI DEF Weighed, Beyond
  <2>5. \A i \in 1..1 : i = 1 OBVIOUS
  <2>6. \A i \in 1..1 : Distance(m, 4, c[i]) \in Int BY <2>3, <2>5
  <2>7. \E i \in 1..1 : Distance(m, 4, c[i]) # Unscored BY <2>4
  <2> QED BY <2>2, <2>6, <2>7, WayDownIs DEF c
<1>2. CASE e[4] = 1
  <2> DEFINE c == MaxComposed(4, e)
  <2>1. c = <<<<"H", "H", "H">>>> BY <1>2 DEF MaxComposed
  <2>2. DOMAIN c = 1..1 /\ c[1] = <<"H", "H", "H">> BY <2>1
  <2> HIDE DEF c
  <2>3. /\ Distance(m, 4, c[1]) \in Int
        /\ (/\ Level("SC", "H") <= Level("SC", V4Metric(m, "SC"))
            /\ Level("SI", "H") <= Level("SI", V4Metric(m, "SI"))
            /\ Level("SA", "H") <= Level("SA", V4Metric(m, "SA")))
           => Distance(m, 4, c[1]) # Unscored
    BY <2>2, DistanceOn4
  <2>4. Distance(m, 4, c[1]) # Unscored
    BY <1>2, <2>3, LevelSC, LevelSI DEF Weighed, Beyond
  <2>5. \A i \in 1..1 : i = 1 OBVIOUS
  <2>6. \A i \in 1..1 : Distance(m, 4, c[i]) \in Int BY <2>3, <2>5
  <2>7. \E i \in 1..1 : Distance(m, 4, c[i]) # Unscored BY <2>4
  <2> QED BY <2>2, <2>6, <2>7, WayDownIs DEF c
<1>3. CASE e[4] = 2
  <2> DEFINE c == MaxComposed(4, e)
  <2>1. c = <<<<"L", "L", "L">>>> BY <1>3 DEF MaxComposed
  <2>2. DOMAIN c = 1..1 /\ c[1] = <<"L", "L", "L">> BY <2>1
  <2> HIDE DEF c
  <2>3. /\ Distance(m, 4, c[1]) \in Int
        /\ (/\ Level("SC", "L") <= Level("SC", V4Metric(m, "SC"))
            /\ Level("SI", "L") <= Level("SI", V4Metric(m, "SI"))
            /\ Level("SA", "L") <= Level("SA", V4Metric(m, "SA")))
           => Distance(m, 4, c[1]) # Unscored
    BY <2>2, DistanceOn4
  <2>4. Distance(m, 4, c[1]) # Unscored
    BY <1>3, <2>3, LevelSC, LevelSI DEF Weighed, Beyond
  <2>5. \A i \in 1..1 : i = 1 OBVIOUS
  <2>6. \A i \in 1..1 : Distance(m, 4, c[i]) \in Int BY <2>3, <2>5
  <2>7. \E i \in 1..1 : Distance(m, 4, c[i]) # Unscored BY <2>4
  <2> QED BY <2>2, <2>6, <2>7, WayDownIs DEF c
<1> QED BY <1>1, <1>2, <1>3 DEF Beyond
-----------------------------------------------------------------------------
(* CVSS.  The scores.                                                      *)

LEMMA MinOfTwo == ASSUME NEW x \in Int, NEW y \in Int PROVE Min({x, y}) = IF x <= y THEN x ELSE y
  BY DEF Min
LEMMA MaxOfTwo == ASSUME NEW x \in Int, NEW y \in Int PROVE Max({x, y}) = IF x >= y THEN x ELSE y
  BY DEF Max

\* A part of a scale, rounded to the nearest of a hundred.
LEMMA RoundedIn ==
  ASSUME NEW scale \in {840, 1680, 2520, 3360, 4200}, NEW exact \in Nat, exact <= 100 * scale
  PROVE  (2 * exact + scale) \div (2 * scale) \in 0..100
<1>1. \A x \in Nat : x <= 84000 => 0 <= (2 * x + 840) \div 1680 /\ (2 * x + 840) \div 1680 <= 100 BY SMT
<1>2. \A x \in Nat : x <= 168000 => 0 <= (2 * x + 1680) \div 3360 /\ (2 * x + 1680) \div 3360 <= 100 BY SMT
<1>3. \A x \in Nat : x <= 252000 => 0 <= (2 * x + 2520) \div 5040 /\ (2 * x + 2520) \div 5040 <= 100 BY SMT
<1>4. \A x \in Nat : x <= 336000 => 0 <= (2 * x + 3360) \div 6720 /\ (2 * x + 3360) \div 6720 <= 100 BY SMT
<1>5. \A x \in Nat : x <= 420000 => 0 <= (2 * x + 4200) \div 8400 /\ (2 * x + 4200) \div 8400 <= 100 BY SMT
<1>6. CASE scale = 840 BY <1>1, <1>6, SMT
<1>7. CASE scale = 1680 BY <1>2, <1>7, SMT
<1>8. CASE scale = 2520 BY <1>3, <1>8, SMT
<1>9. CASE scale = 3360 BY <1>4, <1>9, SMT
<1>10. CASE scale = 4200 BY <1>5, <1>10, SMT
<1> QED BY <1>6, <1>7, <1>8, <1>9, <1>10

LEMMA FiveAxes == IsFiniteSet(1..5) /\ Cardinality(1..5) = 5
<1>1. 1 \in Int /\ 5 \in Int OBVIOUS
<1>2. IsFiniteSet(1..5) /\ Cardinality(1..5) = IF 1 > 5 THEN 0 ELSE 5 - 1 + 1 BY <1>1, FS_Interval, Zenon
<1> QED BY <1>2

LEMMA SixLevels == ASSUME NEW m PROVE DOMAIN MacroVector(m) = 1..6
  BY SMT DEF MacroVector

\* A step down is a number, with or without a score.
LEMMA NextLowerIs ==
  ASSUME NEW e, DOMAIN e = 1..6, \A i \in 1..6 : e[i] \in Nat, NEW axis \in 1..5
  PROVE  NextLower(e, axis) \in Int
<1>1. ASSUME NEW i \in 1..6 PROVE Lookup(Down(e, i)) \in Int
  <2>1. \A j \in 1..6 : Down(e, i)[j] \in Nat BY DEF Down
  <2> QED BY <2>1, LookupIn
<1>2. NextLower36(e) \in Int BY <1>1 DEF NextLower36, Unscored
<1> QED BY <1>1, <1>2 DEF NextLower

LEMMA MaxSeverityIs ==
  ASSUME NEW e, Levels(e), NEW axis \in 1..4
  PROVE  MaxSeverity(axis, e) \in 1..10
<1>1. CASE axis = 1 BY <1>1 DEF MaxSeverity, Levels
<1>2. CASE axis = 2 BY <1>2 DEF MaxSeverity, Levels
<1>3. CASE axis = 3
  <2>1. MaxSeverity(3, e) = << <<7, 6>>, <<8, 8>>, <<0, 10>> >>[e[3] + 1][e[6] + 1] BY DEF MaxSeverity
  <2> QED BY <1>3, <2>1 DEF Levels
<1>4. CASE axis = 4 BY <1>4 DEF MaxSeverity, Levels
<1> QED BY <1>1, <1>2, <1>3, <1>4

\* A v4 vector that can be read has a score (cvss.py, cvss_v4_base_score).
LEMMA V4ScoreIn == ASSUME NEW m, V4Scorable(m) PROVE V4Score(m) \in 0..100
<1> DEFINE e == MacroVector(m)
           value == Lookup(e)
           lower == {axis \in 1..5 : NextLower(e, axis) # Unscored}
           gone == [axis \in lower \ {5} |->
                      (value - NextLower(e, axis)) * WayDown(m, e, axis) * (840 \div MaxSeverity(axis, e))]
           normalized == Total(gone)
           scale == 840 * Cardinality(lower)
           exact == Min({100 * scale, Max({0, value * scale - normalized})})
<1>1. Weighed(m) /\ Levels(e) /\ Reach(m, e) /\ Effort(m, e) /\ Harm(m, e) /\ Beyond(m, e) BY WeighedIs, MacroVectorIs
<1>2. DOMAIN e = 1..6 /\ \A i \in 1..6 : e[i] \in Nat
  <2>1. DOMAIN e = 1..6 BY SixLevels
  <2> HIDE DEF e
  <2>2. \A i \in 1..6 : i = 1 \/ i = 2 \/ i = 3 \/ i = 4 \/ i = 5 \/ i = 6 OBVIOUS
  <2>3. \A i \in 1..6 : e[i] \in Nat BY <1>1, <2>2 DEF Levels
  <2> QED BY <2>1, <2>3
<1>3. V4Score(m) = IF \A n \in {"VC", "VI", "VA", "SC", "SI", "SA"} : V4Metric(m, n) = "N" THEN 0
                   ELSE IF value = Unscored \/ \E axis \in 1..4 : WayDown(m, e, axis) = Unscored THEN Unscored
                   ELSE IF lower = {} THEN value
                   ELSE (2 * exact + scale) \div (2 * scale)
  BY DEF V4Score
<1> HIDE DEF e
<1>4. value \in 0..100 /\ value # Unscored BY <1>1, <1>2, LookupIn DEF Unscored
<1>5. \A axis \in 1..4 : WayDown(m, e, axis) \in Int /\ WayDown(m, e, axis) # Unscored
  <2>1. \A axis \in 1..4 : axis = 1 \/ axis = 2 \/ axis = 3 \/ axis = 4 OBVIOUS
  <2> QED BY <1>1, <2>1, WayDownOn1, WayDownOn2, WayDownOn3, WayDownOn4
<1>6. ASSUME lower # {} PROVE (2 * exact + scale) \div (2 * scale) \in 0..100
  <2>1. Cardinality(lower) \in 1..5
    <3>2. IsFiniteSet(lower) /\ Cardinality(lower) \in Nat /\ Cardinality(lower) <= 5
      BY FiveAxes, FS_Subset, FS_CardinalityType
    <3>3. Cardinality(lower) # 0 BY <1>6, <3>2, FS_EmptySet
    <3> QED BY <3>2, <3>3
  <2>2. \A axis \in 1..6 \cap DOMAIN gone : gone[axis] \in Int
    <3> SUFFICES ASSUME NEW axis \in 1..6 \cap DOMAIN gone PROVE gone[axis] \in Int OBVIOUS
    <3>0. axis \in 1..4 OBVIOUS
    <3>1. NextLower(e, axis) \in Int /\ WayDown(m, e, axis) \in Int BY <1>2, <1>5, <3>0, NextLowerIs
    <3>2. 840 \div MaxSeverity(axis, e) \in Int BY <1>1, <3>0, MaxSeverityIs
    <3>3. (value - NextLower(e, axis)) * WayDown(m, e, axis) \in Int BY <1>4, <3>1
    <3>4. gone[axis] = ((value - NextLower(e, axis)) * WayDown(m, e, axis)) * (840 \div MaxSeverity(axis, e)) OBVIOUS
    <3> QED BY <3>2, <3>3, <3>4
  <2> HIDE DEF gone, value, lower
  <2>3. normalized \in Int BY <2>2, TotalIs
  <2> HIDE DEF normalized
  <2>4. scale \in Nat /\ value * scale - normalized \in Int BY <1>4, <2>1, <2>3
  <2>5. Max({0, value * scale - normalized}) \in Nat BY <2>4, MaxOfTwo
  <2>6. exact \in Nat /\ exact <= 100 * scale
    <3> DEFINE top == 100 * scale
               least == Max({0, value * scale - normalized})
    <3>1. top \in Nat /\ least \in Nat BY <2>4, <2>5
    <3> HIDE DEF top, least
    <3>2. Min({top, least}) \in Nat /\ Min({top, least}) <= top BY <3>1, MinOfTwo
    <3> QED BY <3>2 DEF top, least
  <2>7. scale \in {840, 1680, 2520, 3360, 4200} BY <2>1
  <2> HIDE DEF exact, scale
  <2> QED BY <2>6, <2>7, RoundedIn
<1> QED BY <1>3, <1>4, <1>5, <1>6

\* A v3 vector that can be read has a score (cvss.py, cvss_v3_base_score).
LEMMA V3ScoreIn == ASSUME NEW m, V3Scorable(m) PROVE V3Score(m) \in 0..100
<1> DEFINE level(n) == V3Levels[n][m[n]]
           changed == m["S"] = "C"
           iss == 1000000 - (100 - level("C")) * (100 - level("I")) * (100 - level("A"))
           impact == IF changed THEN (752 * (iss - 29000)) \div 10 - 3250 * Fifteenth((iss - 20000 + 50) \div 100)
                     ELSE (642 * iss) \div 10
           reach == 822 * level("AV") * level("AC")
           rights == V3PR[m["S"]][m["PR"]] * level("UI")
           exploitability == (reach \div 1000) * rights + ((reach % 1000) * rights) \div 1000
           total == IF changed THEN ((impact + exploitability) \div 25) * 27 ELSE impact + exploitability
<1>1. V3Score(m) = IF impact <= 0 THEN 0 ELSE Roundup(Min({total, 100000000})) BY SMT DEF V3Score
<1>2. /\ level("AV") \in 0..100 /\ level("AC") \in 0..100 /\ level("UI") \in 0..100
      /\ level("C") \in 0..100 /\ level("I") \in 0..100 /\ level("A") \in 0..100
  BY DEF V3Scorable, V3Levels
<1>3. V3PR[m["S"]][m["PR"]] \in 0..100 BY DEF V3Scorable, V3PR
<1> HIDE DEF level
<1>4. iss \in Int
  <2> DEFINE c == 100 - level("C")
             i == 100 - level("I")
             a == 100 - level("A")
  <2>1. c \in Int /\ i \in Int /\ a \in Int BY <1>2
  <2> HIDE DEF c, i, a
  <2>2. c * i \in Int BY <2>1
  <2>3. (c * i) * a \in Int BY <2>1, <2>2
  <2>4. iss = 1000000 - (c * i) * a BY SMT DEF c, i, a
  <2> QED BY <2>3, <2>4, SMT
<1>5. \A x \in Int : Fifteenth(x) \in Int
  <2> SUFFICES ASSUME NEW x \in Int PROVE Fifteenth(x) \in Int OBVIOUS
  <2> DEFINE once(y) == (y * x + 5000) \div 10000
             thrice(y) == once(once(once(y)))
  <2>1. \A y \in Int : once(y) \in Int OBVIOUS
  <2> HIDE DEF once
  <2>2. \A y \in Int : thrice(y) \in Int BY <2>1
  <2> HIDE DEF thrice
  <2>3. thrice(thrice(thrice(thrice(thrice(10000))))) \in Int BY <2>2
  <2> QED BY <2>3 DEF Fifteenth, thrice, once
<1> HIDE DEF iss
<1>6. impact \in Int
  <2>1. (iss - 20000 + 50) \div 100 \in Int BY <1>4
  <2>2. Fifteenth((iss - 20000 + 50) \div 100) \in Int BY <1>5, <2>1
  <2>3. (752 * (iss - 29000)) \div 10 \in Int /\ (642 * iss) \div 10 \in Int BY <1>4
  <2> QED BY <2>2, <2>3
<1>7. exploitability \in Nat
  <2>1. \A x, y \in Nat : x * y \in Nat OBVIOUS
  <2>2. /\ level("AV") \in Nat /\ level("AC") \in Nat /\ level("UI") \in Nat /\ V3PR[m["S"]][m["PR"]] \in Nat
        /\ 822 * level("AV") \in Nat
    BY <1>2, <1>3
  <2>3. reach \in Nat BY <2>1, <2>2
  <2>4. rights \in Nat BY <2>1, <2>2
  <2> HIDE DEF reach, rights
  <2>5. reach \div 1000 \in Nat /\ reach % 1000 \in Nat BY <2>3
  <2>6. (reach \div 1000) * rights \in Nat /\ (reach % 1000) * rights \in Nat BY <2>1, <2>4, <2>5
  <2>7. ((reach % 1000) * rights) \div 1000 \in Nat BY <2>6
  <2> QED BY <2>6, <2>7
<1> HIDE DEF impact, exploitability
<1>8. ASSUME impact > 0 PROVE Roundup(Min({total, 100000000})) \in 0..100
  <2>1. total \in Nat BY <1>6, <1>7, <1>8, SMT
  <2> HIDE DEF total
  <2>2. Min({total, 100000000}) \in Nat /\ Min({total, 100000000}) <= 100000000
    <3>1. 100000000 \in Int BY SMT
    <3> QED BY <2>1, <3>1, MinOfTwo, SMT
  <2>3. ASSUME NEW x \in Nat, x <= 100000000 PROVE Roundup(x) \in 0..100
    <3> DEFINE scaled == (x + 50) \div 100
    <3>1. scaled \in Nat /\ scaled <= 1000000 BY <2>3, SMT
    <3>2. Roundup(x) = (scaled + 9999) \div 10000 BY SMT DEF Roundup
    <3> HIDE DEF scaled
    <3>3. (scaled + 9999) \div 10000 \in 0..100 BY <3>1, SMT
    <3> QED BY <3>2, <3>3, SMT
  <2> QED BY <2>2, <2>3, SMT
<1> QED BY <1>1, <1>6, <1>8, SMT

-----------------------------------------------------------------------------
(* CVSS.  What may be said of a metric, and what of it can be read.        *)

\* What a metric may say, in order, and never what no metric says.
IsScale(values) == Len(values) \in Nat /\ DOMAIN values = 1..Len(values) /\ "?" \notin Range(values)

LEMMA V4Scales == \A n \in DOMAIN V4Values : IsScale(V4Values[n])
<1>1. IsScale(V4Values["AV"])
  <2>1. V4Values["AV"] = <<"P", "L", "A", "N">> BY DEF V4Values, Impact, Requirement, MImpact, MSafety
  <2> QED BY <2>1 DEF IsScale, Range
<1>2. IsScale(V4Values["AC"])
  <2>1. V4Values["AC"] = <<"H", "L">> BY DEF V4Values, Impact, Requirement, MImpact, MSafety
  <2> QED BY <2>1 DEF IsScale, Range
<1>3. IsScale(V4Values["AT"])
  <2>1. V4Values["AT"] = <<"P", "N">> BY DEF V4Values, Impact, Requirement, MImpact, MSafety
  <2> QED BY <2>1 DEF IsScale, Range
<1>4. IsScale(V4Values["PR"])
  <2>1. V4Values["PR"] = <<"H", "L", "N">> BY DEF V4Values, Impact, Requirement, MImpact, MSafety
  <2> QED BY <2>1 DEF IsScale, Range
<1>5. IsScale(V4Values["UI"])
  <2>1. V4Values["UI"] = <<"A", "P", "N">> BY DEF V4Values, Impact, Requirement, MImpact, MSafety
  <2> QED BY <2>1 DEF IsScale, Range
<1>6. IsScale(V4Values["VC"])
  <2>1. V4Values["VC"] = <<"N", "L", "H">> BY DEF V4Values, Impact, Requirement, MImpact, MSafety
  <2> QED BY <2>1 DEF IsScale, Range
<1>7. IsScale(V4Values["VI"])
  <2>1. V4Values["VI"] = <<"N", "L", "H">> BY DEF V4Values, Impact, Requirement, MImpact, MSafety
  <2> QED BY <2>1 DEF IsScale, Range
<1>8. IsScale(V4Values["VA"])
  <2>1. V4Values["VA"] = <<"N", "L", "H">> BY DEF V4Values, Impact, Requirement, MImpact, MSafety
  <2> QED BY <2>1 DEF IsScale, Range
<1>9. IsScale(V4Values["SC"])
  <2>1. V4Values["SC"] = <<"N", "L", "H">> BY DEF V4Values, Impact, Requirement, MImpact, MSafety
  <2> QED BY <2>1 DEF IsScale, Range
<1>10. IsScale(V4Values["SI"])
  <2>1. V4Values["SI"] = <<"N", "L", "H">> BY DEF V4Values, Impact, Requirement, MImpact, MSafety
  <2> QED BY <2>1 DEF IsScale, Range
<1>11. IsScale(V4Values["SA"])
  <2>1. V4Values["SA"] = <<"N", "L", "H">> BY DEF V4Values, Impact, Requirement, MImpact, MSafety
  <2> QED BY <2>1 DEF IsScale, Range
<1>12. IsScale(V4Values["E"])
  <2>1. V4Values["E"] = <<"X", "U", "P", "A">> BY DEF V4Values, Impact, Requirement, MImpact, MSafety
  <2> QED BY <2>1 DEF IsScale, Range
<1>13. IsScale(V4Values["CR"])
  <2>1. V4Values["CR"] = <<"X", "L", "M", "H">> BY DEF V4Values, Impact, Requirement, MImpact, MSafety
  <2> QED BY <2>1 DEF IsScale, Range
<1>14. IsScale(V4Values["IR"])
  <2>1. V4Values["IR"] = <<"X", "L", "M", "H">> BY DEF V4Values, Impact, Requirement, MImpact, MSafety
  <2> QED BY <2>1 DEF IsScale, Range
<1>15. IsScale(V4Values["AR"])
  <2>1. V4Values["AR"] = <<"X", "L", "M", "H">> BY DEF V4Values, Impact, Requirement, MImpact, MSafety
  <2> QED BY <2>1 DEF IsScale, Range
<1>16. IsScale(V4Values["MAV"])
  <2>1. V4Values["MAV"] = <<"X", "P", "L", "A", "N">> BY DEF V4Values, Impact, Requirement, MImpact, MSafety
  <2> QED BY <2>1 DEF IsScale, Range
<1>17. IsScale(V4Values["MAC"])
  <2>1. V4Values["MAC"] = <<"X", "H", "L">> BY DEF V4Values, Impact, Requirement, MImpact, MSafety
  <2> QED BY <2>1 DEF IsScale, Range
<1>18. IsScale(V4Values["MAT"])
  <2>1. V4Values["MAT"] = <<"X", "P", "N">> BY DEF V4Values, Impact, Requirement, MImpact, MSafety
  <2> QED BY <2>1 DEF IsScale, Range
<1>19. IsScale(V4Values["MPR"])
  <2>1. V4Values["MPR"] = <<"X", "H", "L", "N">> BY DEF V4Values, Impact, Requirement, MImpact, MSafety
  <2> QED BY <2>1 DEF IsScale, Range
<1>20. IsScale(V4Values["MUI"])
  <2>1. V4Values["MUI"] = <<"X", "A", "P", "N">> BY DEF V4Values, Impact, Requirement, MImpact, MSafety
  <2> QED BY <2>1 DEF IsScale, Range
<1>21. IsScale(V4Values["MVC"])
  <2>1. V4Values["MVC"] = <<"X", "N", "L", "H">> BY DEF V4Values, Impact, Requirement, MImpact, MSafety
  <2> QED BY <2>1 DEF IsScale, Range
<1>22. IsScale(V4Values["MVI"])
  <2>1. V4Values["MVI"] = <<"X", "N", "L", "H">> BY DEF V4Values, Impact, Requirement, MImpact, MSafety
  <2> QED BY <2>1 DEF IsScale, Range
<1>23. IsScale(V4Values["MVA"])
  <2>1. V4Values["MVA"] = <<"X", "N", "L", "H">> BY DEF V4Values, Impact, Requirement, MImpact, MSafety
  <2> QED BY <2>1 DEF IsScale, Range
<1>24. IsScale(V4Values["MSC"])
  <2>1. V4Values["MSC"] = <<"X", "N", "L", "H">> BY DEF V4Values, Impact, Requirement, MImpact, MSafety
  <2> QED BY <2>1 DEF IsScale, Range
<1>25. IsScale(V4Values["MSI"])
  <2>1. V4Values["MSI"] = <<"X", "N", "L", "H", "S">> BY DEF V4Values, Impact, Requirement, MImpact, MSafety
  <2> QED BY <2>1 DEF IsScale, Range
<1>26. IsScale(V4Values["MSA"])
  <2>1. V4Values["MSA"] = <<"X", "N", "L", "H", "S">> BY DEF V4Values, Impact, Requirement, MImpact, MSafety
  <2> QED BY <2>1 DEF IsScale, Range
<1>27. IsScale(V4Values["S"])
  <2>1. V4Values["S"] = <<"X", "N", "P">> BY DEF V4Values, Impact, Requirement, MImpact, MSafety
  <2> QED BY <2>1 DEF IsScale, Range
<1>28. IsScale(V4Values["AU"])
  <2>1. V4Values["AU"] = <<"X", "N", "Y">> BY DEF V4Values, Impact, Requirement, MImpact, MSafety
  <2> QED BY <2>1 DEF IsScale, Range
<1>29. IsScale(V4Values["R"])
  <2>1. V4Values["R"] = <<"X", "A", "U", "I">> BY DEF V4Values, Impact, Requirement, MImpact, MSafety
  <2> QED BY <2>1 DEF IsScale, Range
<1>30. IsScale(V4Values["V"])
  <2>1. V4Values["V"] = <<"X", "D", "C">> BY DEF V4Values, Impact, Requirement, MImpact, MSafety
  <2> QED BY <2>1 DEF IsScale, Range
<1>31. IsScale(V4Values["RE"])
  <2>1. V4Values["RE"] = <<"X", "L", "M", "H">> BY DEF V4Values, Impact, Requirement, MImpact, MSafety
  <2> QED BY <2>1 DEF IsScale, Range
<1>32. IsScale(V4Values["U"])
  <2>1. V4Values["U"] = <<"X", "Clear", "Green", "Amber", "Red">> BY DEF V4Values, Impact, Requirement, MImpact, MSafety
  <2> QED BY <2>1 DEF IsScale, Range
<1>33. DOMAIN V4Values = {"AV", "AC", "AT", "PR", "UI", "VC", "VI", "VA", "SC", "SI", "SA", "E", "CR", "IR", "AR", "MAV",
                        "MAC", "MAT", "MPR", "MUI", "MVC", "MVI", "MVA", "MSC", "MSI", "MSA", "S", "AU", "R", "V", "RE", "U"}
  BY DEF V4Values
<1> QED BY <1>1, <1>2, <1>3, <1>4, <1>5, <1>6, <1>7, <1>8, <1>9, <1>10, <1>11, <1>12, <1>13, <1>14, <1>15, <1>16, <1>17, <1>18, <1>19, <1>20, <1>21, <1>22, <1>23, <1>24, <1>25, <1>26, <1>27, <1>28, <1>29, <1>30, <1>31, <1>32, <1>33

\* The metrics of v3, and that what each may say is in its table.
LEMMA V3Scales ==
  \A n \in MetricsOf("3") :
    /\ IsScale(ValuesOf("3", n))
    /\ n = "S" => Range(ValuesOf("3", n)) = {"U", "C"}
    /\ n = "PR" => Range(ValuesOf("3", n)) = {"N", "L", "H"}
    /\ n \in DOMAIN V3Levels => Range(ValuesOf("3", n)) = DOMAIN V3Levels[n]
<1>0. MetricsOf("3") = {"S", "PR", "AV", "AC", "UI", "C", "I", "A"} BY DEF MetricsOf, V3Levels
<1>1. ValuesOf("3", "S") = <<"U", "C">> BY DEF ValuesOf
<1>2. ValuesOf("3", "PR") = <<"H", "L", "N">>
  <2>1. V4Values["PR"] = <<"H", "L", "N">> BY DEF V4Values
  <2> QED BY <2>1 DEF ValuesOf
<1>3. ValuesOf("3", "AV") = <<"P", "L", "A", "N">>
  <2>1. V4Values["AV"] = <<"P", "L", "A", "N">> BY DEF V4Values
  <2> QED BY <2>1 DEF ValuesOf
<1>4. ValuesOf("3", "AC") = <<"H", "L">>
  <2>1. V4Values["AC"] = <<"H", "L">> BY DEF V4Values
  <2> QED BY <2>1 DEF ValuesOf
<1>5. ValuesOf("3", "UI") = <<"R", "N">> BY DEF ValuesOf
<1>6. \A n \in {"C", "I", "A"} : ValuesOf("3", n) = <<"N", "L", "H">> BY DEF ValuesOf, Impact
<1>7. /\ IsScale(<<"U", "C">>) /\ IsScale(<<"H", "L", "N">>) /\ IsScale(<<"P", "L", "A", "N">>)
      /\ IsScale(<<"H", "L">>) /\ IsScale(<<"R", "N">>) /\ IsScale(<<"N", "L", "H">>)
  BY DEF IsScale, Range
<1>8. /\ Range(<<"U", "C">>) = {"U", "C"} /\ Range(<<"H", "L", "N">>) = {"N", "L", "H"}
      /\ Range(<<"P", "L", "A", "N">>) = {"P", "L", "A", "N"} /\ Range(<<"H", "L">>) = {"H", "L"}
      /\ Range(<<"R", "N">>) = {"R", "N"} /\ Range(<<"N", "L", "H">>) = {"N", "L", "H"}
  BY DEF Range
<1>9. /\ DOMAIN V3Levels = {"AV", "AC", "UI", "C", "I", "A"}
      /\ DOMAIN V3Levels["AV"] = {"P", "L", "A", "N"} /\ DOMAIN V3Levels["AC"] = {"H", "L"}
      /\ DOMAIN V3Levels["UI"] = {"R", "N"}
      /\ \A n \in {"C", "I", "A"} : DOMAIN V3Levels[n] = {"N", "L", "H"}
  BY DEF V3Levels
<1>10. ASSUME NEW n \in MetricsOf("3") PROVE IsScale(ValuesOf("3", n)) BY <1>0, <1>1, <1>2, <1>3, <1>4, <1>5, <1>6, <1>7
<1>11. ASSUME NEW n \in DOMAIN V3Levels PROVE Range(ValuesOf("3", n)) = DOMAIN V3Levels[n]
  BY <1>3, <1>4, <1>5, <1>6, <1>8, <1>9
<1> QED BY <1>1, <1>2, <1>8, <1>10, <1>11

LEMMA ScalesAre ==
  ASSUME NEW ver \in {"3", "4"}, NEW n \in MetricsOf(ver)
  PROVE  IsScale(ValuesOf(ver, n))
<1>1. CASE ver = "3" BY <1>1, V3Scales
<1>2. CASE ver = "4" BY <1>2, V4Scales DEF MetricsOf, ValuesOf
<1> QED BY <1>1, <1>2

LEMMA ComponentIs ==
  ASSUME NEW ver, NEW c
  PROVE  c \in Components(ver) <=>
         /\ c = [name |-> c.name, value |-> c.value]
         /\ c.name \in MetricsOf(ver)
         /\ c.value \in Range(ValuesOf(ver, c.name)) \/ c.value = "?"
  BY DEF Components

\* What a vector that repeats no metric says of one.
LEMMA MetricIs ==
  ASSUME NEW parts, Parses(parts), NEW i \in DOMAIN parts
  PROVE  parts[i].name \in DOMAIN Metrics(parts) /\ Metrics(parts)[parts[i].name] = parts[i].value
<1> DEFINE n == parts[i].name
           k == CHOOSE j \in DOMAIN parts : parts[j].name = n
<1>1. k \in DOMAIN parts /\ parts[k].name = n OBVIOUS
<1>2. k = i BY <1>1 DEF Parses
<1>3. n \in {parts[j].name : j \in DOMAIN parts} OBVIOUS
<1>4. Metrics(parts)[n] = parts[k].value BY <1>3 DEF Metrics
<1> HIDE DEF k
<1> QED BY <1>2, <1>3, <1>4 DEF Metrics

LEMMA MetricFrom ==
  ASSUME NEW parts, NEW n \in DOMAIN Metrics(parts)
  PROVE  \E i \in DOMAIN parts : parts[i].name = n
  BY DEF Metrics

\* A vector is complete exactly if the tables of its version can be consulted.
Readable(ver, parts) ==
  /\ Parses(parts) /\ \A i \in DOMAIN parts : parts[i].value # "?"
  /\ (IF ver = "3" THEN {"S", "PR"} \cup DOMAIN V3Levels ELSE Mandatory) \subseteq DOMAIN Metrics(parts)

LEMMA ReadableIs ==
  ASSUME NEW ver \in {"3", "4"}, NEW parts, IsVector(ver, parts)
  PROVE  Readable(ver, parts) <=>
         Parses(parts) /\ IF ver = "3" THEN V3Scorable(Metrics(parts)) ELSE V4Scorable(Metrics(parts))
<1> DEFINE m == Metrics(parts)
<1>1. \A i \in DOMAIN parts : /\ parts[i].name \in MetricsOf(ver)
                              /\ parts[i].value \in Range(ValuesOf(ver, parts[i].name)) \/ parts[i].value = "?"
  <2>1. \A i \in DOMAIN parts : parts[i] \in Components(ver) BY DEF IsVector
  <2> QED BY <2>1, ComponentIs
<1>2. \A n \in MetricsOf(ver) : "?" \notin Range(ValuesOf(ver, n)) BY ScalesAre DEF IsScale
<1>3. \A i \in DOMAIN parts : parts[i].value \in Range(ValuesOf(ver, parts[i].name)) <=> parts[i].value # "?"
  BY <1>1, <1>2
<1> SUFFICES ASSUME Parses(parts)
             PROVE  Readable(ver, parts) <=> IF ver = "3" THEN V3Scorable(m) ELSE V4Scorable(m)
  BY DEF Readable
<1>4. \A n \in DOMAIN m : n \in MetricsOf(ver) /\ (m[n] \in Range(ValuesOf(ver, n)) <=> m[n] # "?")
  <2> SUFFICES ASSUME NEW n \in DOMAIN m
               PROVE  n \in MetricsOf(ver) /\ (m[n] \in Range(ValuesOf(ver, n)) <=> m[n] # "?")
    OBVIOUS
  <2>1. PICK i \in DOMAIN parts : parts[i].name = n BY MetricFrom
  <2>2. m[n] = parts[i].value BY <2>1, MetricIs
  <2> QED BY <1>1, <1>3, <2>1, <2>2
<1>5. (\A i \in DOMAIN parts : parts[i].value # "?") <=> \A n \in DOMAIN m : m[n] # "?"
  <2>1. ASSUME NEW i \in DOMAIN parts, \A n \in DOMAIN m : m[n] # "?" PROVE parts[i].value # "?"
    BY <2>1, MetricIs
  <2>2. ASSUME NEW n \in DOMAIN m, \A i \in DOMAIN parts : parts[i].value # "?" PROVE m[n] # "?"
    <3>1. PICK i \in DOMAIN parts : parts[i].name = n BY MetricFrom
    <3> QED BY <2>2, <3>1, MetricIs
  <2> QED BY <2>1, <2>2
<1> HIDE DEF m
<1>6. CASE ver = "4"
  <2>1. Readable(ver, parts) <=> (\A n \in DOMAIN m : m[n] # "?") /\ Mandatory \subseteq DOMAIN m
    BY <1>5, <1>6 DEF Readable, m
  <2>2. \A n \in DOMAIN m : n \in DOMAIN V4Values /\ (m[n] \in Range(V4Values[n]) <=> m[n] # "?")
    BY <1>4, <1>6 DEF MetricsOf, ValuesOf
  <2> QED BY <1>6, <2>1, <2>2 DEF V4Scorable
<1>7. CASE ver = "3"
  <2>1. Readable(ver, parts) <=>
          (\A n \in DOMAIN m : m[n] # "?") /\ {"S", "PR"} \cup DOMAIN V3Levels \subseteq DOMAIN m
    BY <1>5, <1>7 DEF Readable, m
  <2>2. /\ "S" \in DOMAIN m => (m["S"] \in {"U", "C"} <=> m["S"] # "?")
        /\ "PR" \in DOMAIN m => (m["PR"] \in {"N", "L", "H"} <=> m["PR"] # "?")
        /\ \A n \in DOMAIN V3Levels : n \in DOMAIN m => (m[n] \in DOMAIN V3Levels[n] <=> m[n] # "?")
    BY <1>4, <1>7, V3Scales
  <2>3. DOMAIN m \subseteq {"S", "PR"} \cup DOMAIN V3Levels BY <1>4, <1>7 DEF MetricsOf
  <2> QED BY <1>7, <2>1, <2>2, <2>3 DEF V3Scorable
<1> QED BY <1>6, <1>7

-----------------------------------------------------------------------------
(* CVSS.  A vector that can be read is scored.                             *)

LEMMA ScoreIs ==
  ASSUME NEW ver \in {"3", "4"}, NEW parts, IsVector(ver, parts)
  PROVE  IF Readable(ver, parts) THEN Score(ver, parts) \in 0..100 ELSE Score(ver, parts) = Unscored
<1>1. CASE ver = "3" BY <1>1, ReadableIs, V3ScoreIn DEF Score
<1>2. CASE ver = "4" BY <1>2, ReadableIs, V4ScoreIn DEF Score
<1> QED BY <1>1, <1>2

\* A vector keeps to the metrics of its version, and is worth what it says.
VectorInv == version \in {"3", "4"} /\ IsVector(version, vector) /\ score = Score(version, vector)

LEMMA VectorInvInit == VectorInit => VectorInv
  BY StartAssumption DEF VectorInit, VectorInv

\* A step of a vector gives a vector.
LEMMA RewriteKeeps ==
  ASSUME VectorInv, NEW parts, IsVector(version, parts), Rewrite(parts)
  PROVE  VectorInv'
  BY DEF VectorInv, Rewrite

LEMMA WorsenKeeps ==
  ASSUME VectorInv, NEW i \in DOMAIN vector, Worsen(i)
  PROVE  VectorInv'
<1> DEFINE n == vector[i].name
           values == ValuesOf(version, n)
           at == CHOOSE k \in DOMAIN values : values[k] = vector[i].value
           next == IF vector[i].value = "X" THEN Len(values) ELSE at + 1
           parts == [vector EXCEPT ![i].value = values[next]]
<1>1. Rewrite(parts) /\ at < Len(values) /\ score # Unscored BY DEF Worsen
<1>2. vector \in Seq(Components(version)) /\ vector[i] \in Components(version) BY DEF VectorInv, IsVector
<1>3. n \in MetricsOf(version) /\ vector[i] = [name |-> n, value |-> vector[i].value] BY <1>2, ComponentIs
<1>4. IsScale(values) BY <1>3, ScalesAre DEF VectorInv
<1>5. vector[i].value \in Range(values)
  <2>1. Readable(version, vector) BY <1>1, ScoreIs DEF VectorInv
  <2>2. vector[i].value # "?" BY <2>1 DEF Readable
  <2> QED BY <1>2, <2>2, ComponentIs
<1>6. at \in DOMAIN values /\ values[at] = vector[i].value BY <1>5 DEF Range
<1> HIDE DEF values, at
<1>7. next \in DOMAIN values BY <1>1, <1>4, <1>6 DEF IsScale
<1> HIDE DEF next
<1>8. [name |-> n, value |-> values[next]] \in Components(version)
  <2>1. values[next] \in Range(values) BY <1>7 DEF Range
  <2> QED BY <1>3, <2>1, ComponentIs DEF values
<1>9. parts = [vector EXCEPT ![i] = [name |-> n, value |-> values[next]]]
  <2>1. [vector[i] EXCEPT !.value = values[next]] = [name |-> n, value |-> values[next]] BY <1>3
  <2> QED BY <2>1
<1>10. IsVector(version, parts) BY <1>2, <1>8, <1>9 DEF IsVector
<1> HIDE DEF parts
<1> QED BY <1>1, <1>10, RewriteKeeps

LEMMA LoseKeeps ==
  ASSUME VectorInv, NEW i \in DOMAIN vector, Lose(i)
  PROVE  VectorInv'
<1> DEFINE parts == [k \in 1..(Len(vector) - 1) |-> vector[IF k < i THEN k ELSE k + 1]]
<1>1. vector \in Seq(Components(version)) BY DEF VectorInv, IsVector
<1>2. i \in 1..Len(vector) /\ Len(vector) \in Nat BY <1>1
<1>3. \A k \in 1..(Len(vector) - 1) : (IF k < i THEN k ELSE k + 1) \in 1..Len(vector) BY <1>2
<1>4. parts \in Seq(Components(version))
  <2>1. \A k \in 1..(Len(vector) - 1) : parts[k] \in Components(version) BY <1>1, <1>3
  <2>2. Len(vector) - 1 \in Nat BY <1>2
  <2> QED BY <2>1, <2>2
<1> QED BY <1>4, RewriteKeeps DEF Lose, IsVector

LEMMA RepeatKeeps ==
  ASSUME VectorInv, NEW i \in DOMAIN vector, Repeat(i)
  PROVE  VectorInv'
<1>1. vector \in Seq(Components(version)) /\ vector[i] \in Components(version) BY DEF VectorInv, IsVector
<1>2. IsVector(version, Append(vector, vector[i])) BY <1>1 DEF IsVector
<1> QED BY <1>2, RewriteKeeps DEF Repeat

LEMMA GarbleKeeps ==
  ASSUME VectorInv, NEW i \in DOMAIN vector, Garble(i)
  PROVE  VectorInv'
<1> DEFINE parts == [vector EXCEPT ![i].value = "?"]
<1>1. vector \in Seq(Components(version)) /\ vector[i] \in Components(version) BY DEF VectorInv, IsVector
<1>2. vector[i].name \in MetricsOf(version) /\ vector[i] = [name |-> vector[i].name, value |-> vector[i].value]
  BY <1>1, ComponentIs
<1>3. [name |-> vector[i].name, value |-> "?"] \in Components(version) BY <1>2, ComponentIs
<1>4. parts = [vector EXCEPT ![i] = [name |-> vector[i].name, value |-> "?"]]
  <2>1. [vector[i] EXCEPT !.value = "?"] = [name |-> vector[i].name, value |-> "?"] BY <1>2
  <2> QED BY <2>1
<1>5. IsVector(version, parts) BY <1>1, <1>3, <1>4 DEF IsVector
<1> QED BY <1>5, RewriteKeeps DEF Garble

LEMMA VectorInvNext == VectorInv /\ [VectorNext]_vectorVars => VectorInv'
<1> SUFFICES ASSUME VectorInv, [VectorNext]_vectorVars PROVE VectorInv' OBVIOUS
<1>1. CASE VectorNext BY <1>1, WorsenKeeps, LoseKeeps, RepeatKeeps, GarbleKeeps DEF VectorNext
<1>2. CASE UNCHANGED vectorVars BY <1>2 DEF vectorVars, VectorInv
<1> QED BY <1>1, <1>2

\* Whatever vectors a behaviour begins with, of the metrics of their version
\* and what these may say, and whatever spoils or worsens them: a vector is
\* worth something between 0 and 10 exactly if it says what it must.  The
\* tables of cvss.py hold a score for every MacroVector that comes up, each of
\* their vectors has a most severe one that it does not exceed, and no
\* interpolation leaves the scale.
THEOREM ReadableAreScored == VectorSpec => []ScoredIfReadable
<1>1. VectorInv => ScoredIfReadable
  <2>1. Complete <=> Readable(version, vector) BY DEF Complete, Readable
  <2> QED BY <2>1, ScoreIs DEF VectorInv, ScoredIfReadable
<1> QED BY <1>1, VectorInvInit, VectorInvNext, PTL DEF VectorSpec

=============================================================================
