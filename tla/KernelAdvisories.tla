--------------------------- MODULE KernelAdvisories ---------------------------
(***************************************************************************)
(* What the kernel feeds say of one kernel (scanner/kernel_feeds.py,       *)
(* scanner/ubuntu_kernel_feed.py): the rows made of what each publisher    *)
(* serves, and which of them apply to a version.                           *)
(*                                                                         *)
(* A version is its series (6.18, or the base an Oracle build is of) and   *)
(* its place in it; how versions are spelt is the subject of Versions.     *)
(***************************************************************************)
EXTENDS Naturals, Sequences

\* No version, and the "0" before all of them.
None == <<0, 0>>

Below(v, w) == v[1] < w[1] \/ (v[1] = w[1] /\ v[2] < w[2])
Earliest(S) == CHOOSE v \in S : \A w \in S : ~Below(w, v)

-----------------------------------------------------------------------------
(* The kernel CNA's records, through OSV.                                  *)

Event(k, v) == [kind |-> k, at |-> v]

\* What the events before the i-th of a range have left open.
Open(events, i) ==
  LET opening == {j \in 1..(i - 1) : /\ events[j].kind = "introduced"
                                     /\ \A k \in j..(i - 1) : events[k].kind = "introduced"}
  IN IF opening = {} THEN None ELSE events[i - 1].at

\* One stretch of versions for each event that ends one, and one without end.
Stretches(events) ==
  {[introduced |-> Open(events, i),
    fixed |-> IF events[i].kind = "fixed" THEN events[i].at ELSE None,
    last |-> IF events[i].kind = "last_affected" THEN events[i].at ELSE None] :
     i \in {i \in DOMAIN events : events[i].kind # "introduced"}}
  \cup {[introduced |-> events[i].at, fixed |-> None, last |-> None] :
     i \in {i \in DOMAIN events : i = Len(events) /\ events[i].kind = "introduced"}}
Ranges(record) == UNION {Stretches(events) : events \in record}

InRange(v, r) ==
  /\ ~Below(v, r.introduced)
  /\ r.fixed # None => Below(v, r.fixed)
  /\ r.last # None => ~Below(r.last, v)

Fixes(ranges) == {r.fixed : r \in ranges} \ {None}
FixedElsewhere(v, ranges) ==
  LET newer == {f \in Fixes(ranges) : f[1] > v[1]} IN IF newer = {} THEN None ELSE Earliest(newer)
ByRanges(v, ranges) ==
  [hit |-> \E r \in ranges : InRange(v, r), fixed |-> None, elsewhere |-> FixedElsewhere(v, ranges)]

\* A fix in the kernel's own series decides alone.
\* Mutant: the ranges decide, whatever series they name.
UpstreamVerdictByRanges(v, ranges) == ByRanges(v, ranges)
UpstreamVerdict(v, ranges) ==
  LET own == {f \in Fixes(ranges) : f[1] = v[1]}
  IN IF own = {} THEN ByRanges(v, ranges)
     ELSE [hit |-> Below(v, Earliest(own)), fixed |-> Earliest(own), elsewhere |-> None]

-----------------------------------------------------------------------------
(* Oracle's, Amazon's and Canonical's.                                     *)

Row(stream, cve, fixed) == [stream |-> stream, cve |-> cve, fixed |-> fixed]
SameRow(r, o) == r.stream = o.stream /\ r.cve = o.cve

\* A CVE that is named again was not fixed the first time.
KeepHighest(rows) == {r \in rows : \A o \in rows : SameRow(r, o) => ~Below(r.fixed, o.fixed)}
\* A stated fix outranks none.
KeepStated(rows) == {r \in rows : r.fixed # None \/ \A o \in rows : SameRow(r, o) => o.fixed = None}

\* The family of Oracle's kernel packages, and the stream of a build.
OracleFamily(name) ==
  IF name \in {"kernel", "kernel-core"} THEN "kernel"
  ELSE IF name \in {"kernel-uek", "kernel-uek-core"} THEN "kernel-uek" ELSE "none"
OracleStream(name, v) == <<OracleFamily(name), v[1]>>

\* Builds for another release are in the file, and left out.
OracleRows(advisories, release) ==
  KeepHighest({Row(OracleStream(a.name, a.fixed), a.cve, a.fixed) :
                 a \in {a \in advisories : a.dist = release /\ OracleFamily(a.name) # "none"}})
AmazonRows(advisories) == KeepHighest({Row(<<a.name, 0>>, a.cve, a.fixed) : a \in advisories})
UbuntuRows(advisories) == KeepStated({Row(<<a.name, 0>>, a.cve, a.fixed) : a \in advisories})

RpmVerdict(v, row) == [hit |-> Below(v, row.fixed), fixed |-> row.fixed, elsewhere |-> None]
UbuntuVerdict(v, row) ==
  [hit |-> row.fixed = None \/ Below(v, row.fixed), fixed |-> row.fixed, elsewhere |-> None]
=============================================================================
