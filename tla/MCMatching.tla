----------------------------- MODULE MCMatching -----------------------------
(***************************************************************************)
(* What makes a finding, each part on inputs of its own: OSV's records     *)
(* becoming findings, two versions being compared, a CVSS vector being     *)
(* scored, a kernel feed being refreshed, the kernel CNA's record of a bug *)
(* being asked about a kernel, and the kernels of one machine being looked *)
(* up, listed and counted.                                                 *)
(***************************************************************************)
EXTENDS Advisories, UpstreamBugs, Kernels, KernelFeeds, Cvss, TLC

CONSTANTS Characters, MaxLength
VARIABLES part, a, b

V == INSTANCE Versions

versionVars == <<a, b>>
mcVars == <<part, vars, versionVars, vectorVars, bugVars, machineVars, feedVars>>

-----------------------------------------------------------------------------
(* Machines: two releases with a tracker of their own, one that takes its  *)
(* fixes from three, one that has no order of versions here, one without   *)
(* releases, one without a tracker, and one that is asked every tracker.   *)

debian == Named("Debian", "release", 12)
ubuntu == Named("Ubuntu", "release", 2404)
alma == Named("AlmaLinux", "release", 9)
rhel == Named("Red Hat", "host", 9)
oracle == Named("Oracle Linux", "release", 9)
alpine == Named("Alpine", "release", 320)
wolfi == Bare("Wolfi")
fedora == Named("Fedora", "release", 44)
arch == Bare("Arch")
MCHosts == {debian, ubuntu, alma, rhel, oracle, alpine, wolfi, fedora, arch}

\* A package of the machine's own, or of another distribution.
MCHintsOf == [h \in Hosts |-> {"none", "Ubuntu", "Debian", "Alpine", "Red Hat"}]

\* A library and its tools, built from one source, and its headers from a later
\* version of that; and two installed kernels.
Package(n, v, s, k, i) == [name |-> n, version |-> v, source |-> s, kernel |-> k, image |-> i]
MCInstalled ==
  << Package("libc-bin", 1, "glibc", FALSE, FALSE), Package("libc6", 1, "glibc", FALSE, FALSE),
     Package("kernel-core", 1, "kernel", TRUE, TRUE), Package("kernel-modules", 1, "kernel", TRUE, FALSE),
     Package("kernel-core", 2, "kernel", TRUE, TRUE), Package("libc-dev", 2, "glibc", FALSE, FALSE) >>

\* Two spellings of one version, and a later one whose text comes first.
MCVersionRank == "1.0" :> 1 @@ "1.00" :> 1 @@ "10" :> 2
MCTextRank ==
  LET texts == <<"none", "", "10", "1.0", "1.00", "kernel", "kernel-core", "kernel-modules", "libc-bin", "libc-dev", "libc6", "glibc",
                 "AlmaLinux", "Alpine", "Debian", "Fedora", "Red Hat", "Rocky Linux", "Ubuntu", "Wolfi",
                 "critical", "high", "low", "medium", "unscored">>
  IN [t \in {texts[i] : i \in DOMAIN texts} |-> CHOOSE i \in DOMAIN texts : texts[i] = t]

\* What an entry can be about: the machine's release, the next, a subscription
\* for it, an older one, a product that is no release, and the family's name.
Block(n, e, f) == [name |-> n, eco |-> e, fix |-> f]
\* For the machine that is asked every tracker, of two of those.
Base(h) == CASE h.family \in {"Oracle Linux", "Fedora"} -> "Red Hat" [] h = arch -> "Debian" [] OTHER -> h.family
Key(h) == IF h = arch THEN 12 ELSE h.key
Own(h) == CASE h \in {rhel, oracle} -> Named("Red Hat", "repository", 9) [] h = arch -> wolfi [] OTHER -> h
Next1(h) == Named(Base(h), IF Base(h) = "Red Hat" THEN "repository" ELSE "release", Key(h) + 1)
Old(h) == Named(Base(h), IF Base(h) = "Red Hat" THEN "repository" ELSE "release", Key(h) - 1)
Pro(h) == Named(Base(h), "pro", Key(h))
Product(h) == Named(Base(h), "product", Key(h))
Queried(h) == CASE h \in {alma, alpine, wolfi} -> h [] h = arch -> wolfi [] OTHER -> Bare(Base(h))

Entries(h) == {
  <<>>,
  <<Block("", Own(h), "none")>>,
  <<Block("", Own(h), "1.0")>>,
  <<Block("", Own(h), "10"), Block("", Next1(h), "1.0")>>,
  <<Block("", Own(h), "none"), Block("", Next1(h), "1.0"), Block("", Pro(h), "1.00")>>,
  <<Block("", Own(h), "none"), Block("other", Own(h), "1.0"), Block("", Old(h), "10")>>,
  <<Block("", Product(h), "1.0"), Block("", Next1(h), "none")>>,
  <<Block("", Old(h), "1.00"), Block("", Own(h), "1.00")>> }

Doc(cve, q, h, bs, sc, ws) ==
  [cve |-> cve, asked |-> q, queried |-> Queried(h), blocks |-> bs, scores |-> sc, words |-> ws]
Glibc == NameVersion("glibc", 1)
Later == NameVersion("glibc", 2)
Libc6 == NameVersion("libc6", 1)

Ratings == {<< <<>>, <<>> >>, << <<Unreadable, 75>>, <<"low">> >>, << <<Unreadable>>, <<NoBand, "high">> >>, << <<95>>, <<>> >>}
Userland(h) == {Doc("cve", q, h, bs, r[1], r[2]) : q \in {Glibc, Libc6}, bs \in Entries(h), r \in Ratings}
Kernel(h) ==
  {Doc("cve", q, h, bs, << 75 >>, <<>>) :
     q \in {NameVersion("kernel", 1), NameVersion("kernel-modules", 1), NameVersion("kernel", 2)},
     bs \in {<<Block("", Own(h), "none")>>, <<Block("", Own(h), "1.0")>>}}
\* Three at a time: a few that differ in what decides between them.
Few(h) ==
  {Doc("cve", q, h, <<Block("", Own(h), f)>>, r[1], r[2]) :
     q \in {Glibc, Libc6}, f \in {"1.0", "1.00", "10"},
     r \in {<< <<70>>, <<>> >>, << <<>>, <<"high">> >>, << <<0>>, <<>> >>, << <<>>, <<"low">> >>}}
\* Both versions of the source, that different packages answer for.
Both(h) ==
  {Doc("cve", q, h, <<Block("", Own(h), f)>>, r[1], r[2]) :
     q \in {Glibc, Libc6, Later}, f \in {"none", "1.0", "10"}, r \in {<< <<70>>, <<>> >>, << <<>>, <<"low">> >>}}
MCAnswers ==
  [h \in Hosts |-> {{d, e} : d, e \in Userland(h)} \cup {{d, e, f} : d, e, f \in Kernel(h)}
                   \cup (IF h \in {debian, alpine} THEN {{d, e, f} : d, e, f \in Few(h)} ELSE {})
                   \cup (IF h \in {debian, arch} THEN {{d, e, f} : d, e, f \in Both(h)} ELSE {})]

-----------------------------------------------------------------------------
(* Vectors: v3 from its least severe, and v4 with one group of metrics     *)
(* varied where the others are at their worst, between or at their least.  *)

Vector(ns, vs) == [i \in DOMAIN ns |-> [name |-> ns[i], value |-> vs[i]]]
V3Least == Vector(<<"S", "AV", "AC", "PR", "UI", "C", "I", "A">>, <<"U", "P", "H", "H", "R", "N", "N", "N">>)
V4Names == <<"AV", "AC", "AT", "PR", "UI", "VC", "VI", "VA", "SC", "SI", "SA", "E", "CR", "IR", "AR", "MSI", "MAV">>
Worst == <<"N", "L", "N", "N", "N", "H", "H", "H", "H", "H", "H", "A", "H", "H", "H", "X", "X">>
Between == <<"A", "H", "N", "L", "P", "L", "H", "L", "L", "N", "L", "P", "M", "L", "M", "X", "L">>
Least == <<"P", "H", "P", "H", "A", "N", "N", "N", "N", "N", "N", "U", "L", "L", "L", "X", "X">>
MCVaried == <<
  {"AV", "AC", "AT", "PR", "UI", "E"}, {"VC", "VI", "VA", "CR", "IR"}, {"SC", "SI", "SA", "E", "MSI"},
  {"S", "AV", "AC", "PR", "UI", "C", "I", "A"}, {} >>
From4(base, g) == Vector(V4Names, [i \in DOMAIN base |-> IF V4Names[i] \in g THEN Least[i] ELSE base[i]])
MCStart ==
  {[version |-> "3", varied |-> k, parts |-> V3Least] : k \in {4, 5}}
  \cup {[version |-> "4", varied |-> k, parts |-> From4(base, MCVaried[k])] : k \in {1, 2, 3, 5}, base \in {Worst, Between, Least}}

-----------------------------------------------------------------------------
(* Machines whose kernel OSV, a feed or nothing is about: two packages of  *)
(* one kernel, an unsupported flavour, a release that ended or is unknown; *)
(* and what is published for them, before and after.                       *)

System(f, r) == [family |-> f, release |-> r]
MCSystems ==
  {System("Debian", 12), System("Ubuntu", 2204), System("Ubuntu", 0), System("Ubuntu", 2410), System("Fedora", 44),
   System("Arch", 0), System("Oracle", 9), System("Oracle", 0), System("Amazon", 2023), System("Amazon", 2)}

Image(n, v, s) == [name |-> n, version |-> v, source |-> s]
MCImagesOf ==
  [s \in Systems |->
    CASE s.family = "Debian" -> {Image("linux-image", v, "linux") : v \in {<<1, 1>>, <<1, 2>>}}
      [] s.family = "Ubuntu" -> {Image("linux-image", <<1, 1>>, "linux"), Image("linux-image", <<1, 2>>, "linux"),
                                 Image("linux-image", <<2, 1>>, "none")}
      [] s.family = "Fedora" -> {Image("kernel", <<1, 1>>, "kernel"), Image("kernel-core", <<1, 1>>, "kernel"),
                                 Image("kernel-core", <<2, 1>>, "kernel")}
      [] s.family = "Arch" -> {Image("linux", <<2, 1>>, "linux"), Image("linux-lts", <<1, 1>>, "linux-lts"),
                               Image("linux-zen", <<2, 2>>, "linux-zen")}
      [] s.family = "Oracle" -> {Image("kernel-core", <<1, 1>>, "kernel"), Image("kernel-uek", <<2, 1>>, "kernel-uek"),
                                 Image("kernel-uek-core", <<2, 1>>, "kernel-uek")}
      [] s.family = "Amazon" -> {Image("kernel", <<1, 1>>, "kernel"), Image("kernel6.12", <<2, 1>>, "kernel6.12")}]

Ranged(c, from, fixes) ==
  [stream |-> <<"all", 0>>, cve |-> c,
   record |-> IF fixes = {} THEN {<<Event("introduced", from)>>}
              ELSE {<<Event("introduced", from), Event("fixed", f)>> : f \in fixes}]
Build(c, n, v, d) == [cve |-> c, name |-> n, fixed |-> v, dist |-> d]
Told(c, v, e) == [stream |-> <<"all", 0>>, cve |-> c, fixed |-> v, elsewhere |-> e]
MCServedOf ==
  [s \in Systems |->
    CASE s.family = "Debian" ->
           {{Told("one", <<1, 2>>, None), Told("two", None, <<2, 1>>)}, {Told("one", None, None), Told("two", None, None)}}
      [] s.family = "Ubuntu" ->
           {{Build("one", "linux", None, 0), Build("one", "linux", <<1, 2>>, 0), Build("two", "linux", None, 0)},
            {Build("two", "aws", None, 0)}}
      [] s.family \in {"Fedora", "Arch"} ->
           {{Ranged("one", None, {<<1, 2>>, <<2, 1>>}), Ranged("two", None, {<<3, 0>>})},
            {Ranged("one", None, {<<2, 2>>}), Ranged("two", None, {})}}
      [] s.family = "Oracle" ->
           {{Build("one", "kernel", <<1, 1>>, 9), Build("one", "kernel", <<1, 2>>, 9), Build("two", "kernel-uek", <<2, 2>>, 10)},
            {Build("one", "kernel-uek", <<2, 2>>, 9), Build("one", "kernel-uek", <<2, 1>>, 9), Build("two", "kernel", <<1, 1>>, 9)},
            {Build("two", "kernel", <<1, 2>>, 10)}}
      [] s.family = "Amazon" ->
           {{Build("one", "kernel", <<1, 2>>, 0), Build("two", "kernel", <<1, 1>>, 0)},
            {Build("one", "kernel6.12", <<2, 1>>, 0), Build("one", "kernel6.12", <<2, 2>>, 0)}}]

\* A CVE that is exploited, or was not asked about, beside one that is not.
MCKev == {"one" :> "absent" @@ "two" :> "listed", "one" :> "unchecked" @@ "two" :> "absent"}

-----------------------------------------------------------------------------
NoRecords == host = debian /\ answer = {} /\ pending = {} /\ arrived = <<>> /\ found = <<>>
NoVersions == a = <<>> /\ b = <<>>
NoVector == vector = <<>> /\ version = "3" /\ varied = {} /\ score = Unscored

NoBug == bug = [told |-> "none"] /\ kernel = None /\ verdict = NoVerdict
NoMachine ==
  /\ system = System("Debian", 12) /\ images = {} /\ running = Unknown /\ served = {} /\ table = {}
  /\ fresh = FALSE /\ enabled = FALSE /\ kev = <<>> /\ scan = NoScan

NoFeed ==
  /\ client = "paged" /\ serving = 0 /\ stored = <<>> /\ row = [refreshed |-> FALSE, count |-> 0, tag |-> NoTag]
  /\ refresh = <<>> /\ overtaken = {} /\ mistagged = FALSE

MCInit ==
  \/ part = "records" /\ Init /\ NoVersions /\ NoVector /\ NoBug /\ NoMachine /\ NoFeed
  \/ part = "versions" /\ NoRecords /\ V!Init /\ NoVector /\ NoBug /\ NoMachine /\ NoFeed
  \/ part = "vectors" /\ NoRecords /\ NoVersions /\ VectorInit /\ NoBug /\ NoMachine /\ NoFeed
  \/ part = "bugs" /\ NoRecords /\ NoVersions /\ NoVector /\ BugInit /\ NoMachine /\ NoFeed
  \/ part = "kernels" /\ NoRecords /\ NoVersions /\ NoVector /\ NoBug /\ MachineInit /\ NoFeed
  \/ part = "feeds" /\ NoRecords /\ NoVersions /\ NoVector /\ NoBug /\ NoMachine /\ FeedInit

MCNext ==
  /\ UNCHANGED part
  /\ \/ part = "records" /\ Next /\ UNCHANGED <<versionVars, vectorVars, bugVars, machineVars, feedVars>>
     \/ part = "versions" /\ V!Next /\ UNCHANGED <<vars, vectorVars, bugVars, machineVars, feedVars>>
     \/ part = "vectors" /\ VectorNext /\ UNCHANGED <<vars, versionVars, bugVars, machineVars, feedVars>>
     \/ part = "bugs" /\ BugNext /\ UNCHANGED <<vars, versionVars, vectorVars, machineVars, feedVars>>
     \/ part = "kernels" /\ MachineNext /\ UNCHANGED <<vars, versionVars, vectorVars, bugVars, feedVars>>
     \/ part = "feeds" /\ FeedNext /\ UNCHANGED <<vars, versionVars, vectorVars, bugVars, machineVars>>

MCSpec == MCInit /\ [][MCNext]_mcVars

\* The two orders of versions agree with their reference order, whichever way
\* two versions are compared (debian_version.py, rpm_version.py).
VersionOrdersTotal == part = "versions" => V!DebianOrderTotal /\ V!RpmOrderTotal

=============================================================================
