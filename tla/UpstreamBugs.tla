----------------------------- MODULE UpstreamBugs -----------------------------
(***************************************************************************)
(* A bug comes into the kernel's sources, its fix into the main line and   *)
(* from there into the series that are maintained; the kernel CNA makes a  *)
(* record of it, and the feed is asked about a kernel (KernelAdvisories).  *)
(* The record tells it as one range for each fix, all in one range, or by  *)
(* the last version that has the bug.                                      *)
(***************************************************************************)
EXTENDS KernelAdvisories, FiniteSets

CONSTANTS
  Series,   \* the kernel's stable series
  Builds    \* the places in one

ASSUME BugAssumption ==
  /\ Series \subseteq Nat \ {0} /\ IsFiniteSet(Series)
  /\ Builds \subseteq Nat /\ \E n \in Builds : \A m \in Builds : m <= n

VARIABLES
  bug,      \* what happened to the sources
  kernel,   \* the kernel that is asked about
  verdict   \* what the feed says of the bug in it

bugVars == <<bug, kernel, verdict>>

Kernels == Series \X Builds

Bugs ==
  {b \in [intro : Kernels, main : Series \cup {0}, back : [Series -> Builds],
          told : {"apart", "joined", "last"}] :
     /\ b.main # 0 => b.main > b.intro[1]
     /\ \A s \in Series : b.back[s] > 0 =>
          b.main # 0 /\ s < b.main /\ Below(b.intro, <<s, b.back[s]>>)
     /\ b.told = "last" => b.main # 0}

HasBug(b, v) ==
  /\ ~Below(v, b.intro)
  /\ b.main # 0 => v[1] < b.main
  /\ b.back[v[1]] # 0 => v[2] < b.back[v[1]]

Backports(b) == {<<s, b.back[s]>> : s \in {s \in Series : b.back[s] > 0}}
MainFix(b) == IF b.main = 0 \/ b.told = "last" THEN {} ELSE {<<b.main, 0>>}
Last(b) == <<b.main - 1, CHOOSE n \in Builds : \A m \in Builds : m <= n>>

\* The k-th of the fixes, the earliest first.
Nth(fixes, k) == CHOOSE f \in fixes : Cardinality({g \in fixes : Below(g, f)}) = k - 1
Joined(intro, fixes) ==
  [i \in 1 .. 2 * Cardinality(fixes) |->
     IF i % 2 = 1 THEN Event("introduced", intro) ELSE Event("fixed", Nth(fixes, i \div 2))]

RecordOf(b) ==
  LET fixes == Backports(b) \cup MainFix(b)
  IN IF fixes = {} /\ b.told # "last" THEN {<<Event("introduced", b.intro)>>}
     ELSE IF b.told = "joined" THEN {Joined(b.intro, fixes)}
     ELSE {<<Event("introduced", b.intro), Event("fixed", f)>> : f \in fixes}
          \cup (IF b.told = "last" THEN {<<Event("introduced", b.intro), Event("last_affected", Last(b))>>} ELSE {})

NoVerdict == [hit |-> FALSE, fixed |-> None, elsewhere |-> None]

BugInit == bug \in Bugs /\ kernel = None /\ verdict = NoVerdict

Ask(v) ==
  /\ kernel = None
  /\ kernel' = v /\ verdict' = UpstreamVerdict(v, Ranges(RecordOf(bug)))
  /\ UNCHANGED bug

BugNext == \E v \in Kernels : Ask(v)
BugSpec == BugInit /\ [][BugNext]_bugVars

-----------------------------------------------------------------------------
(* Properties.                                                             *)

\* Property 21 (Req 12.12): no kernel that has the bug is passed over, none
\* without it is reported, and the fix that is offered, of this series or of a
\* later one, is one.  Only before a bug that came in through this very series
\* may a kernel be reported without having it, since the fix decides alone.
SeriesDecides ==
  kernel # None =>
    /\ HasBug(bug, kernel) => verdict.hit
    /\ verdict.hit /\ ~HasBug(bug, kernel) => bug.intro[1] = kernel[1] /\ Below(kernel, bug.intro)
    /\ verdict.hit /\ verdict.fixed # None =>
         verdict.fixed[1] = kernel[1] /\ Below(kernel, verdict.fixed) /\ ~HasBug(bug, verdict.fixed)
    /\ verdict.hit /\ verdict.elsewhere # None =>
         verdict.elsewhere[1] > kernel[1] /\ ~HasBug(bug, verdict.elsewhere)
    /\ verdict.hit /\ verdict.fixed = None /\ verdict.elsewhere = None =>
         \A f \in Backports(bug) \cup MainFix(bug) : f[1] < kernel[1]
=============================================================================
