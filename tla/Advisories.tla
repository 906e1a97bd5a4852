----------------------------- MODULE Advisories -----------------------------
(***************************************************************************)
(* From the records OSV gives for a machine's packages to its findings     *)
(* (scanner/osv_client.py, scanner/releases.py): which ecosystems are      *)
(* asked, what each record says about a fix on this machine, how it is     *)
(* rated, and how every record of one CVE and one package becomes one      *)
(* finding.  Records are fetched on a pool of threads and arrive in any    *)
(* order.                                                                  *)
(*                                                                         *)
(* An ecosystem is a record of its family, its form and its release's      *)
(* number; a fix is a spelling, of which two can be one version.  Which    *)
(* records are dropped as another release's is OsvLookup's subject.  What  *)
(* the code picks out of a list stays at its place in it: a list of        *)
(* records, or of findings, is a function whose places are in the list's   *)
(* order, with none between two of them where one was left out.            *)
(***************************************************************************)
EXTENDS Integers, Sequences, FiniteSets

CONSTANTS
  Hosts,       \* ecosystems a machine can run
  Installed,   \* its packages, in the inventory's order
  Answers,     \* Answers[h]: sets of records OSV may give a machine of h
  VersionRank, \* VersionRank[f]: f's place in its distribution's version order
  TextRank,    \* TextRank[s]: s's place in the order of texts
  HintsOf      \* HintsOf[h]: distributions the text of a version there can name

VARIABLES
  host,    \* the machine's ecosystem
  answer,  \* the records OSV gives for its packages
  pending, \* those still on a thread
  arrived, \* what was read of the others, in the order they arrived
  found    \* the findings, once every record is in

vars == <<host, answer, pending, arrived, found>>

NoFix == "none"
NoScore == -1
NoBand == "none"
Unreadable == -2

\* Texts and tuples, compared as Python compares them.
LexLess(a, b) == \E i \in DOMAIN a : a[i] < b[i] /\ \A k \in 1..(i - 1) : a[k] = b[k]

\* The first of some places, and min(): of those with the least key, the first.
First(places) == CHOOSE i \in places : \A j \in places : i <= j
LeastPlace(key) ==
  CHOOSE i \in DOMAIN key : \A j \in DOMAIN key : ~LexLess(key[j], key[i]) /\ (j < i => LexLess(key[i], key[j]))

-----------------------------------------------------------------------------
(* Releases *)

\* The families whose releases OSV describes one by one.
Families == {"Debian", "Ubuntu", "Alpine", "AlmaLinux", "Rocky Linux", "Red Hat", "openSUSE Leap"}

\* parse_release, as the set of the release named or of none: OSV's own form,
\* Ubuntu Pro's, Red Hat's repositories, and the form a RHEL host records.
Release(f, k) == [family |-> f, key |-> k, subscription |-> FALSE]
ParseRelease(eco) ==
  IF eco.family \in Families /\ eco.form \in {"release", "pro", "repository", "host"}
  THEN {[family |-> eco.family, key |-> eco.key, subscription |-> (eco.form = "pro")]} ELSE {}

\* What Oracle Linux, and the two rebuilds of RHEL, take their fixes from.
HostReleases(eco) ==
  IF eco.form = "release" /\ eco.family \in {"AlmaLinux", "Rocky Linux"}
  THEN {Release(f, eco.key) : f \in {eco.family, "Red Hat"}}
  ELSE IF eco.form = "release" /\ eco.family = "Oracle Linux"
  THEN {Release(f, eco.key) : f \in {"AlmaLinux", "Rocky Linux", "Red Hat"}}
  ELSE {r \in ParseRelease(eco) : ~r.subscription}

Named(f, form, k) == [family |-> f, form |-> form, key |-> k]
Bare(f) == Named(f, "bare", 0)

\* Red Hat's three repositories are one name here.
ReleaseQueries(eco) ==
  {Named(r.family, IF r.family = "Red Hat" THEN "repository" ELSE "release", r.key) : r \in HostReleases(eco)}

\* As a mutant: what rebuilds Red Hat is asked about under Red Hat alone.
RedHatAlone == {Bare("Red Hat")}

\* What Oracle Linux and Amazon Linux are asked about as.
RedHats == {Bare(f) : f \in {"Red Hat", "AlmaLinux", "Rocky Linux"}}
AllLinux ==
  RedHats \cup {Bare(f) : f \in {"Ubuntu", "Debian", "Alpine", "openSUSE Leap", "SUSE", "Chainguard", "Wolfi"}}

\* _resolve_ecosystems: the first that applies.  hint is the distribution that
\* the text of the package's version names.
ResolveEcosystems(eco, hint) ==
  IF eco.family = "Ubuntu" \/ hint = "Ubuntu" THEN {Bare("Ubuntu")}
  ELSE IF eco.family = "Debian" \/ hint = "Debian" THEN {Bare("Debian")}
  ELSE IF eco.family = "Alpine" \/ hint = "Alpine"
  THEN IF eco.form = "bare" THEN {Bare("Alpine"), Bare("Wolfi")} ELSE {eco}
  ELSE CASE eco.family \in {"AlmaLinux", "Rocky Linux"} -> {eco, Bare("Red Hat")}
         [] eco.family \in {"Red Hat", "Fedora"} -> {Bare("Red Hat")}
         [] eco.family \in {"Oracle Linux", "Amazon Linux"} -> RedHats
         [] eco.family = "Arch" -> AllLinux
         [] eco.family = "SUSE" -> {Bare("SUSE"), Bare("openSUSE Leap")}
         [] eco.family = "openSUSE Leap" -> {Bare("openSUSE Leap")}
         [] eco.family \in {"openSUSE Tumbleweed", "Wolfi", "Chainguard", "Windows"} -> {eco}
         [] eco.family = "generic" /\ hint = "Red Hat" -> RedHats
         [] eco.family = "generic" /\ hint = "Fedora" -> {Bare("Red Hat")}
         [] eco.family = "generic" /\ hint = "SUSE" -> {Bare("SUSE"), Bare("openSUSE Leap")}
         [] OTHER -> AllLinux

ReleaseEcosystems(eco) ==
  {q \in ResolveEcosystems(eco, "none") \cup ReleaseQueries(eco) : ParseRelease(q) # {}}

-----------------------------------------------------------------------------
(* What a record says of a fix on a machine of h *)

\* A release as it is shown, which is as it is compared: its other forms read
\* alike.
LabelForm(form) == CASE form = "pro" -> 1 [] form = "product" -> 2 [] form = "bare" -> 3 [] OTHER -> 0
LabelText(eco) == <<TextRank[eco.family], LabelForm(eco.form), eco.key>>

NoLabel == <<0, 0, 0>>
NoNote == [status |-> "none", label |-> NoLabel, fix |-> NoFix]
Available(fix) == [status |-> "available", label |-> NoLabel, fix |-> fix]
Elsewhere(status, b) == [status |-> status, label |-> LabelText(b.eco), fix |-> b.fix]

\* An entry that names no package is any package's.
PackageBlocks(doc) == {i \in DOMAIN doc.blocks : doc.blocks[i].name \in {"", doc.asked.name}}

\* As a mutant: a subscription's stream of the host's release is its release.
SameReleaseOrPro(h, eco) ==
  \/ eco \in ReleaseEcosystems(h)
  \/ \E r \in ParseRelease(eco) : [r EXCEPT !.subscription = FALSE] \in HostReleases(h)

\* Within one of the releases asked about, or one of the host's by its name.
SameRelease(h, eco) ==
  \/ eco \in ReleaseEcosystems(h)
  \/ \E r \in ParseRelease(eco) : ~r.subscription /\ r \in HostReleases(h)

\* A newer release's, or a subscription's for the host's.
Newer(h, eco) ==
  \E r \in ParseRelease(eco), own \in HostReleases(h) :
    r.family = own.family /\ (IF r.subscription THEN r.key = own.key ELSE r.key > own.key)

NewerOrder(b) ==
  <<IF b.eco.form = "pro" THEN 1 ELSE 0, b.eco.key,
    TextRank[b.eco.family], LabelForm(b.eco.form), b.eco.key, TextRank[b.fix]>>

FixSuffix(h, doc) ==
  LET blocks == PackageBlocks(doc)
      fixed == {i \in blocks : doc.blocks[i].fix # NoFix}
      own == {i \in fixed : SameRelease(h, doc.blocks[i].eco)}
      newer == {i \in fixed : Newer(h, doc.blocks[i].eco)}
      exact == {i \in fixed : HostReleases(h) = {} /\ doc.blocks[i].eco = doc.queried}
  IN IF \E i \in blocks : SameRelease(h, doc.blocks[i].eco)
     THEN IF own # {} THEN Available(doc.blocks[First(own)].fix)
          ELSE IF newer = {} THEN NoNote
          ELSE Elsewhere("newer_release", doc.blocks[LeastPlace([i \in newer |-> NewerOrder(doc.blocks[i])])])
     ELSE IF exact # {} THEN Available(doc.blocks[First(exact)].fix)
     ELSE IF fixed # {} THEN Elsewhere("upstream", doc.blocks[First(fixed)])
     ELSE NoNote

\* parse_cvss: the first score that can be read, else the first word.
ParseCvss(doc) ==
  LET scores == {i \in DOMAIN doc.scores : doc.scores[i] \in 0..100}
      words == {i \in DOMAIN doc.words : doc.words[i] # NoBand}
  IN [score |-> IF scores # {} THEN doc.scores[First(scores)] ELSE NoScore,
      band |-> IF scores = {} /\ words # {} THEN doc.words[First(words)] ELSE NoBand]

-----------------------------------------------------------------------------
(* What is asked, and which package answers for it *)

NameVersion(n, v) == [name |-> n, version |-> v]
Source(p) == NameVersion(p.source, p.version)
Binary(p) == NameVersion(p.name, p.version)

\* The binaries of a source, and the one its findings are reported against: a
\* kernel's image, the one named like the source, or the first by name.
Binaries(source) == {i \in DOMAIN Installed : Source(Installed[i]) = source}
FirstByName(places) == LeastPlace([i \in places |-> <<TextRank[Installed[i].name]>>])
Representative(source) ==
  LET images == {i \in Binaries(source) : Installed[i].image}
      like == {i \in Binaries(source) : Installed[i].name = source.name}
  IN Binary(Installed[IF images # {} THEN FirstByName(images)
                      ELSE IF like # {} THEN First(like) ELSE FirstByName(Binaries(source))])

\* What OSV is asked about, and of the sources that ask under a name, by their own
\* or by a binary's, the first in the inventory.
Asked == UNION {{Source(Installed[i]), Binary(Installed[i])} : i \in DOMAIN Installed}
Asks(source, asked) == asked = source \/ \E i \in Binaries(source) : asked = Binary(Installed[i])
ReportedAs ==
  [asked \in Asked |->
     Representative(Source(Installed[First({i \in DOMAIN Installed : Asks(Source(Installed[i]), asked)})]))]

\* As a mutant: a kernel is its name.
FindingPackageByName(raw) == NameVersion(raw.name, 0)

\* finding_package: each installed kernel is a package of its own.
KernelNames == UNION {{Installed[i].name, Installed[i].source} : i \in {i \in DOMAIN Installed : Installed[i].kernel}}
FindingPackage(raw) == IF raw.name \in KernelNames THEN NameVersion(raw.name, raw.version) ELSE NameVersion(raw.name, 0)

-----------------------------------------------------------------------------
(* One finding for every record of a CVE and a package *)

Rank == [critical |-> 0, unscored |-> 1, high |-> 2, medium |-> 3, low |-> 4]
DeriveSeverity(score) ==
  IF score >= 90 THEN "critical" ELSE IF score >= 70 THEN "high" ELSE IF score >= 40 THEN "medium" ELSE "low"

\* resolve_severity, and what _severity_rank ranks by.
ResolveSeverity(raw) ==
  IF raw.band # NoBand THEN raw.band ELSE IF raw.score = NoScore THEN "unscored" ELSE DeriveSeverity(raw.score)

Status == [none |-> 0, available |-> 1, newer_release |-> 2, upstream |-> 3]
Rating(raw) == Rank[ResolveSeverity(raw)]
Worth(raw) == IF raw.score = NoScore THEN 0 ELSE -raw.score
SeverityRank(raw) == <<Rating(raw), Worth(raw)>>

\* As a mutant: records are ordered by rank and identifier alone.
OrderByText(raw) ==
  <<Rating(raw), Worth(raw), TextRank[raw.name], raw.version, Status[raw.note.status],
    raw.note.label[1], raw.note.label[2], raw.note.label[3], TextRank[raw.note.fix], 0, 0>>

\* Every field of a record.
Order(raw) ==
  <<Rating(raw), Worth(raw), TextRank[raw.name], raw.version, Status[raw.note.status],
    raw.note.label[1], raw.note.label[2], raw.note.label[3], TextRank[raw.note.fix], TextRank[raw.band], raw.score>>

\* The families whose versions have an order here.
Ordered == {"Debian", "Ubuntu", "Red Hat", "Rocky Linux", "AlmaLinux", "SUSE", "openSUSE Leap", "openSUSE Tumbleweed"}
VersionOrder(h, raw) == <<IF h.family \in Ordered THEN VersionRank[raw.note.fix] ELSE 0>> \o Order(raw)

\* The earliest fix of those records of a group that have one, if any has, under
\* the group's worst rating.
MergeDuplicates(h, raws, group) ==
  LET worst == raws[LeastPlace([i \in group |-> Order(raws[i])])]
      fixed == {i \in group : raws[i].note.status = "available"}
      kept == IF fixed = {} THEN worst ELSE raws[LeastPlace([i \in fixed |-> VersionOrder(h, raws[i])])]
  IN [kept EXCEPT !.score = worst.score, !.band = worst.band]

\* _deduplicate_findings, each group where its first record was.
Group(raws, i) ==
  {j \in DOMAIN raws : raws[j].cve = raws[i].cve /\ FindingPackage(raws[j]) = FindingPackage(raws[i])}
Deduplicate(h, raws) ==
  [i \in {i \in DOMAIN raws : i = First(Group(raws, i))} |-> MergeDuplicates(h, raws, Group(raws, i))]

\* _reattribute: to the binary that answers for the name asked.
Reattributed(raws) ==
  [i \in DOMAIN raws |->
     LET to == ReportedAs[NameVersion(raws[i].name, raws[i].version)]
     IN [raws[i] EXCEPT !.name = to.name, !.version = to.version]]

FindingsOf(h, raws) == Deduplicate(h, Reattributed(Deduplicate(h, raws)))

-----------------------------------------------------------------------------
(* What the constants are.                                                 *)

\* Texts are in an order, and so are the versions of an inventory, of which two
\* are the same only if they are one.
ASSUME TextsAssumption ==
  /\ \A s, t \in DOMAIN TextRank : TextRank[s] \in Int /\ (TextRank[s] = TextRank[t] => s = t)
  /\ DOMAIN Rank \cup {NoBand, NoFix} \subseteq DOMAIN TextRank
  /\ \A p \in Asked : p.name \in DOMAIN TextRank /\ p.version \in Int
  /\ DOMAIN Installed \subseteq Nat /\ IsFiniteSet(DOMAIN Installed)

\* A record answers for what was asked, under a name that is asked; its entries,
\* scores and words are lists.
ASSUME AnswersAssumption ==
  \A h \in Hosts : \A d \in UNION Answers[h] :
    /\ d.asked \in Asked
    /\ \E hint \in HintsOf[h] : d.queried \in ResolveEcosystems(h, hint)
    /\ DOMAIN d.blocks \subseteq Nat /\ IsFiniteSet(DOMAIN d.blocks)
    /\ \A i \in DOMAIN d.blocks :
         /\ d.blocks[i].eco.family \in DOMAIN TextRank /\ d.blocks[i].eco.key \in Int
         /\ d.blocks[i].fix \in DOMAIN TextRank
         /\ d.blocks[i].fix # NoFix => VersionRank[d.blocks[i].fix] \in Int
    /\ DOMAIN d.scores \subseteq Nat /\ DOMAIN d.words \subseteq Nat
    /\ \A i \in DOMAIN d.words : d.words[i] \in DOMAIN Rank \cup {NoBand}

\* A machine is recorded by its release, if it has one, and one of Red Hat in a form
\* of its own.
ASSUME HostsAssumption ==
  \A h \in Hosts : h.form \in {"bare", IF h.family = "Red Hat" THEN "host" ELSE "release"}

-----------------------------------------------------------------------------
Raw(h, doc) ==
  [cve |-> doc.cve, name |-> doc.asked.name, version |-> doc.asked.version,
   note |-> FixSuffix(h, doc), score |-> ParseCvss(doc).score, band |-> ParseCvss(doc).band]

Init ==
  /\ host \in Hosts
  /\ answer \in Answers[host] /\ pending = answer
  /\ arrived = <<>> /\ found = <<>>

\* A thread's answer is read, whichever is first.
Arrive(doc) ==
  /\ doc \in pending
  /\ pending' = pending \ {doc}
  /\ arrived' = Append(arrived, Raw(host, doc))
  /\ UNCHANGED <<host, answer, found>>

Report ==
  /\ pending = {} /\ arrived # <<>> /\ found = <<>>
  /\ found' = FindingsOf(host, arrived)
  /\ UNCHANGED <<host, answer, pending, arrived>>

Next == Report \/ \E doc \in pending : Arrive(doc)

Spec == Init /\ [][Next]_vars

-----------------------------------------------------------------------------
(* Properties of what is reported *)

\* What a merge takes for one package: a name, and a kernel in one version.
SamePackage(a, b) == a.name = b.name /\ (a.name \in KernelNames => a.version = b.version)

\* The records that are merged with one before they are moved, and the findings
\* they may be moved to: of its CVE, in the package that answers for the name
\* asked, or for that name in another of the versions it is installed in.
Siblings(doc) == {d \in answer : d.cve = doc.cve /\ SamePackage(d.asked, doc.asked)}
Concerns(f, doc) == f.cve = doc.cve /\ \E d \in Siblings(doc) : SamePackage(f, ReportedAs[d.asked])
Reported == {found[i] : i \in DOMAIN found}

\* A CVE of a package is reported once, however many names found it, and each
\* installed kernel keeps its own (Req 2.8, 12.6); no record is lost; and each
\* counts where it is reported: a finding is rated as the worst of its records,
\* whichever of them its fix is from.
OneFindingEach ==
  found # <<>> =>
    /\ \A i, j \in DOMAIN found : found[i].cve = found[j].cve /\ SamePackage(found[i], found[j]) => i = j
    /\ \A d \in answer : \E f \in Reported :
         /\ Concerns(f, d)
         /\ \A e \in Siblings(d) : ~LexLess(SeverityRank(Raw(host, e)), SeverityRank(f))
    /\ \A f \in Reported : \E d \in answer : Concerns(f, d) /\ SeverityRank(f) = SeverityRank(Raw(host, d))

\* The fixes a record publishes for the package: in what the machine's package
\* manager installs from, and in no release, under the name asked.
FixesAt(doc, places) == {doc.blocks[i].fix : i \in places \cap PackageBlocks(doc)} \ {NoFix}
Installs(h, eco) ==
  IF HostReleases(h) = {} THEN eco = h ELSE \E r \in ParseRelease(eco) : ~r.subscription /\ r \in HostReleases(h)
OwnFixes(doc) == FixesAt(doc, {i \in DOMAIN doc.blocks : Installs(host, doc.blocks[i].eco)})
Unreleased(doc) ==
  FixesAt(doc, {i \in DOMAIN doc.blocks : doc.blocks[i].eco = doc.queried /\ ParseRelease(doc.blocks[i].eco) = {}})

\* The machine has releases, or was asked about under its own name.
Known(doc) == HostReleases(host) # {} \/ doc.queried = host

\* Where the machine has releases, or is asked about under its own name, a fix is
\* offered exactly when a record publishes one for what the machine installs from,
\* never for a newer release or a subscription; and it is the earliest of the
\* records', by the distribution's own order (Req 2.11, 14.7).  Where another
\* distribution's trackers are asked instead, a fix that is offered may be that
\* distribution's, but is never one for a release of it.
FixIsTheHosts ==
  found # <<>> =>
    /\ \A f \in Reported :
         f.note.status = "available" =>
           \E d \in answer : Concerns(f, d) /\ f.note.fix \in (IF Known(d) THEN OwnFixes(d) ELSE Unreleased(d))
    /\ \A d \in answer :
         Known(d) /\ OwnFixes(d) # {} =>
           \E f \in Reported :
             /\ Concerns(f, d) /\ f.note.status = "available"
             /\ host.family \in Ordered => VersionRank[f.note.fix] <= VersionRank[Raw(host, d).note.fix]

\* What is reported does not depend on which answer came first (Property 18):
\* it is the same for the reverse order, and for the order turned by one, and
\* so for every order of three.
OrderFree ==
  LET n == Len(arrived)
      Same(order) == LET other == FindingsOf(host, order) IN {other[i] : i \in DOMAIN other} = Reported
  IN found # <<>> => /\ Same([i \in 1..n |-> arrived[n + 1 - i]])
                     /\ Same([i \in 1..n |-> arrived[IF i = n THEN 1 ELSE i + 1]])

\* A query that can return what is published for a release.
Reaches(q, r) == q.family = r.family /\ (q.form = "bare" \/ (q.form = "release" /\ q.key = r.key))

\* A version on the machine names another distribution, by the first of three
\* marks it has, and the machine is asked about as one of it; one that is taken for
\* Alpine's leaves a release its own tracker.
Misled(h, hint, r) ==
  \/ hint = "Ubuntu" /\ h.family # "Ubuntu"
  \/ hint = "Debian" /\ h.family \notin {"Ubuntu", "Debian"}
  \/ hint = "Alpine" /\ h.family \notin {"Ubuntu", "Debian", "Alpine"} /\ ~(h.form = "release" /\ h.family = r.family)

\* What affects a release is among what its distribution-wide queries can
\* return: each release a machine takes fixes from is of a family asked about,
\* exactly where no version on it is taken for another distribution's (Req 14.7).
AskedWhole ==
  \A hint \in HintsOf[host] : \A r \in HostReleases(host) :
    (\E q \in ResolveEcosystems(host, hint) : Reaches(q, r)) <=> ~Misled(host, hint, r)
=============================================================================
