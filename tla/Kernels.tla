------------------------------- MODULE Kernels -------------------------------
(***************************************************************************)
(* The kernels of one machine (services/kernel.py, ubuntu_kernel.py,       *)
(* kernel_feeds.py): which feed checks them, what a scan looks up, which   *)
(* CVEs it lists and which it only counts, and what the dashboard then     *)
(* says was checked, while the machine is upgraded and rebooted and the    *)
(* feed is published, fetched, grows old and is switched off.              *)
(*                                                                         *)
(* A kernel image is a package with a version; the machine reports the     *)
(* version it runs, with the flavour where the distribution's kernels say  *)
(* it.  A feed is kept as it was served and read when it is asked, which   *)
(* is what reading it first and keeping the rows comes to.                 *)
(***************************************************************************)
EXTENDS KernelAdvisories, FiniteSets

CONSTANTS
  Systems,     \* what a machine can run: the distribution's family and release
  ImagesOf,    \* ImagesOf[s]: the kernel images there
  ServedOf,    \* ServedOf[s]: what is published of them at one time or another
  Cves,
  KevVerdicts, \* what the KEV catalogue may say of them
  MaxImages    \* bound: the images installed at once

Family(name) ==
  IF name = "kernel-core" THEN "kernel" ELSE IF name = "kernel-uek-core" THEN "kernel-uek" ELSE name
UnsupportedFlavours == {"linux-zen", "linux-hardened"}

VARIABLES
  system,      \* what the machine runs
  images,      \* its installed kernel images
  running,     \* the kernel it reports
  served,      \* what upstream publishes
  table,       \* the feed as stored, empty if it never was
  fresh,       \* it was refreshed within its maximum age
  enabled,     \* it is switched on
  kev,         \* kev[c]: what the KEV catalogue says of c, if it was asked
  scan         \* the last scan of the machine, and whether the feed changed since

machineVars == <<system, images, running, served, table, fresh, enabled, kev, scan>>

-----------------------------------------------------------------------------
(* Distributions.                                                          *)

\* Looked up in OSV with everything else.
KernelIsMatched(s) == s.family = "Debian"

KernelFeedFor(s) ==
  IF s.family = "Ubuntu" THEN "ubuntu"
  ELSE IF s.family \in {"Fedora", "Arch"} THEN "upstream"
  ELSE IF s.family = "Oracle" THEN "oracle"
  ELSE IF s.family = "Amazon" /\ s.release = 2023 THEN "amazon" ELSE "none"

\* A package is known by its name and its version; where a feed checks kernels, a
\* version says which kernel it is of, as unchecked_kernel_package_counts takes
\* it to; and a flavour no feed is of is not one of Ubuntu's.
ASSUME ImagesAssumption ==
  \A s \in Systems : \A i, j \in ImagesOf[s] :
    /\ i.name = j.name /\ i.version = j.version => i = j
    /\ KernelFeedFor(s) # "none" /\ i.version = j.version => Family(i.name) = Family(j.name)
    /\ s.family = "Ubuntu" => i.name \notin UnsupportedFlavours
    /\ i.version \in Nat \X Nat

\* What is published is finite, and gives a fix's version where there is one; the
\* CNA's records, and OSV's, are one for each CVE.
ASSUME ServedAssumption ==
  \A s \in Systems : \A advisories \in ServedOf[s] :
    /\ IsFiniteSet(advisories)
    /\ \A a \in advisories :
         /\ a.cve \in Cves
         /\ KernelFeedFor(s) # "upstream" => a.fixed \in Nat \X Nat
         /\ KernelFeedFor(s) \in {"oracle", "amazon"} => a.fixed # None
         /\ KernelFeedFor(s) = "upstream" \/ KernelIsMatched(s) => \A o \in advisories : a.cve = o.cve => a = o

Ended == 2410
FeedKey(s) == KernelFeedFor(s) = "upstream" \/ s.release # 0

\* What uname prints of an image: Arch's other flavours are named in it.
Flavour(name) == IF name \in {"linux-lts", "linux-zen"} THEN name ELSE "plain"
Uname(image) == <<Flavour(image.name), image.version>>
Unknown == <<"plain", None>>

-----------------------------------------------------------------------------
(* Looking a kernel up.                                                    *)

Parsed(s, advisories) ==
  CASE KernelFeedFor(s) = "oracle" -> OracleRows(advisories, s.release)
    [] KernelFeedFor(s) = "amazon" -> AmazonRows(advisories)
    [] KernelFeedFor(s) = "ubuntu" -> UbuntuRows(advisories)
    [] OTHER -> advisories

Stream(s, image) ==
  CASE KernelFeedFor(s) = "oracle" -> OracleStream(image.name, image.version)
    [] KernelFeedFor(s) = "amazon" -> <<image.name, 0>>
    [] KernelFeedFor(s) = "ubuntu" -> <<image.source, 0>>
    [] OTHER -> <<"all", 0>>
InFeed(s, advisories, image) ==
  \E r \in Parsed(s, advisories) : KernelFeedFor(s) = "upstream" \/ r.stream = Stream(s, image)

Verdict(s, v, row) ==
  CASE KernelFeedFor(s) = "upstream" -> UpstreamVerdict(v, Ranges(row.record))
    [] KernelFeedFor(s) = "ubuntu" -> UbuntuVerdict(v, row)
    [] KernelFeedFor(s) \in {"oracle", "amazon"} -> RpmVerdict(v, row)
    [] OTHER -> [UbuntuVerdict(v, row) EXCEPT !.elsewhere = row.elsewhere]

\* The findings of one image: a fix in its own release, elsewhere or nowhere.
Found(s, advisories, image) ==
  {[cve |-> r.cve, image |-> image,
    fix |-> IF Verdict(s, image.version, r).fixed # None THEN "available"
            ELSE IF Verdict(s, image.version, r).elsewhere # None THEN "newer" ELSE "none"] :
     r \in {r \in Parsed(s, advisories) :
              /\ KernelFeedFor(s) \in {"upstream", "none"} \/ r.stream = Stream(s, image)
              /\ Verdict(s, image.version, r).hit}}

\* The first reason that holds, in the order in which the code asks.
FirstReason(reasons) ==
  LET holding == {i \in DOMAIN reasons : reasons[i][1]}
  IN IF holding = {} THEN "checked" ELSE reasons[CHOOSE i \in holding : \A j \in holding : i <= j][2]

Usable(t, f) == t # {} /\ f

\* check_ubuntu_kernel: the image that runs, by its own version.
Running(is, uname) == {i \in is : uname # Unknown /\ Uname(i) = uname}
UbuntuReason(s, is, uname, t, f, on) ==
  LET image == CHOOSE i \in Running(is, uname) : TRUE
  IN FirstReason(<<
       <<s.release = 0, "release_unknown">>,
       <<~on, "feed_off">>,
       <<s.release = Ended, "end_of_life">>,
       <<~Usable(t, f), "feed_unavailable">>,
       <<uname = Unknown, "running_unknown">>,
       <<Running(is, uname) = {}, "running_not_installed">>,
       <<Running(is, uname) # {} /\ ~InFeed(s, t, image), "flavour_unknown">> >>)

\* check_feed_kernels: one kernel for each family and version.
Supported(is) == {i \in is : i.name \notin UnsupportedFlavours}
SameKernel(i, j) == Family(i.name) = Family(j.name) /\ i.version = j.version
Representatives(is) == {i \in is : \A j \in is : SameKernel(i, j) => i.name = Family(i.name) \/ i = j}
InItsFeed(s, is, t) ==
  {i \in Supported(is) : InFeed(s, t, CHOOSE j \in Representatives(Supported(is)) : SameKernel(i, j))}
FeedReason(s, is, t, f, on) ==
  FirstReason(<<
    <<~FeedKey(s), "release_unknown">>,
    <<~on, "feed_off">>,
    <<~Usable(t, f), "feed_unavailable">>,
    <<Supported(is) = {}, "flavour_unsupported">>,
    <<InItsFeed(s, is, t) = {}, "not_in_feed">> >>)

Reason(s, is, uname, t, f, on) ==
  IF KernelFeedFor(s) = "ubuntu" THEN UbuntuReason(s, is, uname, t, f, on) ELSE FeedReason(s, is, t, f, on)

\* The images a scan that can look them up does look up.
Assessed(s, is, uname, t, f, on, osv) ==
  IF KernelIsMatched(s) THEN IF osv = "ok" THEN is ELSE {}
  ELSE IF KernelFeedFor(s) = "none" \/ Reason(s, is, uname, t, f, on) # "checked" THEN {}
  ELSE IF KernelFeedFor(s) = "ubuntu" THEN Running(is, uname) ELSE InItsFeed(s, is, t)

-----------------------------------------------------------------------------
(* Scanning.                                                               *)

\* split_kernel_findings: counted if it cannot be fixed here and was found not
\* to be in the KEV catalogue.
\* Mutant: counted unless it was found to be.
CountedUnlessListed(x) == x.fix # "available" /\ kev[x.cve] # "listed"
Counted(x) == x.fix # "available" /\ kev[x.cve] = "absent"

Count(image, counted) ==
  [image |-> image,
   elsewhere |-> Cardinality({x \in counted : x.image = image /\ x.fix = "newer"}),
   no_fix |-> Cardinality({x \in counted : x.image = image /\ x.fix = "none"})]

\* The feed is fetched for a scan that needs it and has none.
UbuntuFeedIfNeeded ==
  KernelFeedFor(system) = "ubuntu" /\ FeedKey(system) /\ enabled /\ system.release # Ended /\ ~Usable(table, fresh)
KernelFeedIfNeeded ==
  KernelFeedFor(system) \notin {"ubuntu", "none"} /\ FeedKey(system) /\ enabled /\ ~Usable(table, fresh)
\* A feed without a kernel's advisories is refused.
Fetchable == Parsed(system, served) # {}

\* OSV answers for every package, or for some.
Scan(fetch, osv, answered) ==
  LET t == IF fetch THEN served ELSE table
      f == fetch \/ fresh
      assessed == Assessed(system, images, running, t, f, enabled, osv)
      looked == IF KernelIsMatched(system) THEN images ELSE assessed
      advisories == IF KernelIsMatched(system) THEN served ELSE t
      found == UNION {Found(system, advisories, i) : i \in looked \cap Representatives(images)}
      findings == IF osv = "ok" THEN found ELSE {x \in found : x.cve \in answered}
      counted == {x \in findings : Counted(x)}
  IN /\ fetch => images # {} /\ (UbuntuFeedIfNeeded \/ KernelFeedIfNeeded) /\ Fetchable
     /\ osv = "ok" \/ (KernelIsMatched(system) /\ answered # Cves)
     /\ osv = "ok" => answered = Cves
     /\ table' = t /\ fresh' = f
     /\ scan' = [done |-> TRUE, since |-> FALSE, images |-> images, running |-> running,
                 advisories |-> advisories, osv |-> osv,
                 listed |-> findings \ counted,
                 counts |-> {Count(i, counted) : i \in assessed}]
     /\ UNCHANGED <<system, images, running, served, enabled, kev>>

-----------------------------------------------------------------------------
(* What the dashboard says.                                                *)

\* kernel_view: an image that has no count was not looked up, except that OSV
\* has counts for all or for none.
\* Mutant: it has none that were counted.
UnfixedForAny(image) ==
  LET own == {c \in scan.counts : c.image = image}
  IN IF own = {} /\ scan.counts # {} THEN {Count(image, {})} ELSE own
UnfixedFor(image) ==
  LET own == {c \in scan.counts : c.image = image}
  IN IF own = {} /\ scan.counts # {} /\ KernelIsMatched(system) THEN {Count(image, {})} ELSE own

Checked ==
  /\ scan.images # {}
  /\ \/ KernelIsMatched(system)
     \/ KernelFeedFor(system) # "none" /\ \E i \in scan.images : UnfixedFor(i) # {}

\* Asked again, of the inventory that was collected and the feed as it is now.
UncheckedReason ==
  IF KernelFeedFor(system) = "none" THEN "not_supported"
  ELSE LET now == Reason(system, scan.images, scan.running, table, fresh, enabled)
       IN IF now = "checked" THEN "not_yet_scanned" ELSE now

\* The fleet's count goes by the versions that were looked up.
UncheckedImages ==
  {i \in scan.images :
     ~KernelIsMatched(system)
     /\ ~(KernelFeedFor(system) # "none" /\ \E c \in scan.counts : c.image.version = i.version)}

-----------------------------------------------------------------------------
(* What happens meanwhile.                                                 *)

NoScan ==
  [done |-> FALSE, since |-> FALSE, images |-> {}, running |-> Unknown, advisories |-> {}, osv |-> "ok",
   listed |-> {}, counts |-> {}]

MachineInit ==
  /\ system \in Systems
  /\ images = {} /\ running = Unknown
  /\ served \in ServedOf[system] /\ table = {} /\ fresh = FALSE
  /\ enabled \in BOOLEAN
  /\ kev \in KevVerdicts
  /\ scan = NoScan

Machine == UNCHANGED <<system, served, table, fresh, enabled, kev, scan>>

Install(i) ==
  i \notin images /\ Cardinality(images) < MaxImages /\ images' = images \cup {i} /\ UNCHANGED running /\ Machine
Remove(i) == i \in images /\ images' = images \ {i} /\ UNCHANGED running /\ Machine
\* Only Ubuntu's look-up asks which kernel runs.
Boot(i) ==
  KernelFeedFor(system) = "ubuntu" /\ i \in images /\ running' = Uname(i) /\ UNCHANGED images /\ Machine

Feed == UNCHANGED <<system, images, running, kev>>

\* The scheduled refresh; one that fails keeps what there was.
Refresh ==
  /\ KernelFeedFor(system) # "none" /\ FeedKey(system) /\ Fetchable
  /\ table' = served /\ fresh' = TRUE
  /\ scan' = [scan EXCEPT !.since = TRUE]
  /\ Feed /\ UNCHANGED <<served, enabled>>
Serve(a) ==
  /\ a # served /\ served' = a
  /\ Feed /\ UNCHANGED <<table, fresh, enabled, scan>>
Age ==
  /\ fresh /\ fresh' = FALSE
  /\ scan' = [scan EXCEPT !.since = TRUE]
  /\ Feed /\ UNCHANGED <<served, table, enabled>>
Switch ==
  /\ enabled' = ~enabled
  /\ scan' = [scan EXCEPT !.since = TRUE]
  /\ Feed /\ UNCHANGED <<served, table, fresh>>

MachineNext ==
  \/ \E i \in ImagesOf[system] : Install(i) \/ Remove(i) \/ Boot(i)
  \/ \E fetch \in BOOLEAN, osv \in {"ok", "part"}, answered \in SUBSET Cves : Scan(fetch, osv, answered)
  \/ Refresh \/ Age \/ Switch
  \/ \E a \in ServedOf[system] : Serve(a)

MachineSpec == MachineInit /\ [][MachineNext]_machineVars

-----------------------------------------------------------------------------
(* Properties.                                                             *)

\* The CVEs of a kernel as upstream told them at the scan: fixed only when every
\* advisory of this kernel's stream that names the CVE is met.
Exposed(image) ==
  LET of == {a \in scan.advisories :
               CASE KernelFeedFor(system) = "oracle" ->
                      a.dist = system.release /\ OracleStream(a.name, a.fixed) = Stream(system, image)
                 [] KernelFeedFor(system) = "amazon" -> a.name = image.name
                 [] KernelFeedFor(system) = "ubuntu" -> a.name = image.source
                 [] OTHER -> TRUE}
  IN {c \in Cves :
        IF KernelFeedFor(system) = "upstream"
        THEN \E a \in of : a.cve = c /\ UpstreamVerdict(image.version, Ranges(a.record)).hit
        ELSE LET fixes == {a.fixed : a \in {a \in of : a.cve = c}}
             IN fixes # {} /\ (fixes = {None} \/ \E x \in fixes \ {None} : Below(image.version, x))}

CountOf(image) ==
  LET c == CHOOSE c \in scan.counts : c.image = image IN c.elsewhere + c.no_fix

\* Of each kernel that was looked up (its packages taken as one) every CVE is
\* listed or counted, and no other; one that can be fixed, is known to be
\* exploited or was not asked about is listed (Req 12.9, the enrichment
\* invariant; services/kernel.py:195).
KernelAccounts ==
  \A i \in {c.image : c \in scan.counts} :
    LET kernel == {c.image : c \in {c \in scan.counts : SameKernel(c.image, i)}}
        listed == {x.cve : x \in {x \in scan.listed : x.image \in kernel}}
        reported == CHOOSE j \in kernel : j \in Representatives(kernel)
    IN /\ listed \subseteq Exposed(reported)
       /\ {c \in Exposed(reported) : kev[c] # "absent"} \subseteq listed
       /\ CountOf(reported) = Cardinality(Exposed(reported) \ listed)
       /\ \A j \in kernel : j # reported => CountOf(j) = 0

\* A kernel that reads as looked up was: in a feed that has its stream or by an
\* OSV that answered in full, as the one that runs where only that one is; a
\* machine whose kernel was not checked says why, and never that it only waits
\* for a scan when that scan has been (Req 12.5, 12.11 to 12.14).
CleanIsAssessed ==
  scan.done =>
    /\ \A i \in scan.images : UnfixedFor(i) # {} =>
         IF KernelIsMatched(system) THEN scan.osv = "ok"
         ELSE /\ \E j \in scan.images : SameKernel(i, j) /\ InFeed(system, scan.advisories, j)
              /\ i.name \notin UnsupportedFlavours
              /\ KernelFeedFor(system) = "ubuntu" => Uname(i) = scan.running
    /\ ~Checked /\ scan.images # {} /\ ~scan.since => UncheckedReason # "not_yet_scanned"
    /\ UncheckedImages = {} => \A i \in scan.images : KernelIsMatched(system) \/ UnfixedFor(i) # {}
=============================================================================
