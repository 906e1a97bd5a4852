------------------------------ MODULE Versions ------------------------------
(***************************************************************************)
(* The version orders of Debian (scanner/debian_version.py) and of RPM     *)
(* (scanner/rpm_version.py), which decide which of several fixes is the    *)
(* earliest and whether a running kernel is older than its fix.  A version *)
(* is a sequence of character codes; two versions grow, one character at a *)
(* time, and are compared by the code's loops and by a reference order.    *)
(***************************************************************************)
EXTENDS Integers, Sequences

CONSTANTS
  Characters, \* the codes a version is made of
  MaxLength   \* a version's length: a bound of the model

VARIABLES a, b

vars == <<a, b>>

Tilde == 126
Caret == 94
Dash == 45
Colon == 58
Zero == 48
IsDigit(c) == c \in 48..57
IsAlpha(c) == c \in 65..90 \/ c \in 97..122

Rest(s) == IF s = <<>> THEN s ELSE Tail(s)
From(s, i) == SubSeq(s, i, Len(s))
Sign(n) == IF n < 0 THEN -1 ELSE IF n > 0 THEN 1 ELSE 0

\* How many characters s begins with that are In.
RunLength(s, In(_)) ==
  CHOOSE n \in 0..Len(s) : (\A i \in 1..n : In(s[i])) /\ (n < Len(s) => ~In(s[n + 1]))

\* Digits without their leading zeros.
Significant(s) == LET IsZero(c) == c = Zero IN From(s, RunLength(s, IsZero) + 1)

\* The first difference of two sequences, a character against what stands for
\* the end of the other; 0 if there is none.
FirstDifference(s, t, Of(_)) ==
  LET at(u, i) == IF i <= Len(u) THEN Of(u[i]) ELSE 0
      differ == {i \in 1..(Len(s) + Len(t)) : at(s, i) # at(t, i)}
  IN IF differ = {} THEN 0
     ELSE LET i == CHOOSE n \in differ : \A m \in differ : n <= m IN Sign(at(s, i) - at(t, i))

Code(c) == c

\* As a mutant: runs of digits as texts.
CompareDigitsAsText(s, t) == FirstDifference(s, t, Code)

\* Runs of digits, by their value: the longer, or the first digit that differs.
CompareDigits(s, t) ==
  LET x == Significant(s) y == Significant(t)
  IN IF Len(x) # Len(y) THEN Sign(Len(x) - Len(y)) ELSE FirstDifference(x, y, Code)

\* The number before the first colon, and the two sides of the last dash.
Colons(s) == {i \in DOMAIN s : s[i] = Colon}
Dashes(s) == {i \in DOMAIN s : s[i] = Dash}
First(S) == CHOOSE i \in S : \A j \in S : i <= j
Last(S) == CHOOSE i \in S : \A j \in S : j <= i
Numeric(s) == s # <<>> /\ \A i \in DOMAIN s : IsDigit(s[i])
Head1(s) == SubSeq(s, 1, First(Colons(s)) - 1)

-----------------------------------------------------------------------------
(* Debian *)

\* _order
CharOrder(c) ==
  IF c = Tilde THEN -1 ELSE IF IsDigit(c) THEN 0 ELSE IF IsAlpha(c) THEN c ELSE c + 256

\* _verrevcmp: what comes before a digit, character by character, and then
\* digits, in turn.
RECURSIVE Verrevcmp(_, _)
Verrevcmp(s, t) ==
  LET Ord(u) == IF u = <<>> THEN 0 ELSE CharOrder(u[1])
      Other(u) == u # <<>> /\ ~IsDigit(u[1])
      ds == RunLength(s, IsDigit) dt == RunLength(t, IsDigit)
      digits == CompareDigits(SubSeq(s, 1, ds), SubSeq(t, 1, dt))
  IN IF s = <<>> /\ t = <<>> THEN 0
     ELSE IF Other(s) \/ Other(t)
     THEN IF Ord(s) # Ord(t) THEN Sign(Ord(s) - Ord(t)) ELSE Verrevcmp(Rest(s), Rest(t))
     ELSE IF digits # 0 THEN digits ELSE Verrevcmp(From(s, ds + 1), From(t, dt + 1))

\* _split: a text before the colon that is no number is no epoch, and is lost.
DebianSplit(s) ==
  LET body == IF Colons(s) = {} THEN s ELSE From(s, First(Colons(s)) + 1)
      cut == IF Dashes(body) = {} THEN 1 ELSE Last(Dashes(body))
  IN [epoch |-> IF Colons(s) # {} /\ Numeric(Head1(s)) THEN Head1(s) ELSE <<>>,
      upstream |-> IF Dashes(body) = {} THEN body ELSE IF cut = 1 THEN From(body, 2) ELSE SubSeq(body, 1, cut - 1),
      revision |-> IF cut = 1 THEN <<>> ELSE From(body, cut + 1)]

Or(x, y) == IF x # 0 THEN x ELSE y

\* compare
DebianCompare(s, t) ==
  LET v == DebianSplit(s) w == DebianSplit(t)
  IN Or(CompareDigits(v.epoch, w.epoch), Or(Verrevcmp(v.upstream, w.upstream), Verrevcmp(v.revision, w.revision)))

-----------------------------------------------------------------------------
(* RPM *)

\* A separator only separates.
Separates(c) == ~IsDigit(c) /\ ~IsAlpha(c) /\ c \notin {Tilde, Caret}
SkipSeparators(s) == From(s, RunLength(s, Separates) + 1)
Begins(s, c) == s # <<>> /\ s[1] = c

\* _rpmvercmp: a tilde sorts before the end, a caret after it and before any
\* run; and a run of digits is newer than one of letters.
RECURSIVE Rpmvercmp(_, _)
Rpmvercmp(v, w) ==
  LET s == SkipSeparators(v) t == SkipSeparators(w)
      numeric == s # <<>> /\ IsDigit(s[1])
      OfKind(c) == IF numeric THEN IsDigit(c) ELSE IsAlpha(c)
      rs == RunLength(s, OfKind) rt == RunLength(t, OfKind)
      runs == IF numeric THEN CompareDigits(SubSeq(s, 1, rs), SubSeq(t, 1, rt))
              ELSE FirstDifference(SubSeq(s, 1, rs), SubSeq(t, 1, rt), Code)
  IN IF Begins(s, Tilde) \/ Begins(t, Tilde)
     THEN IF ~Begins(s, Tilde) THEN 1 ELSE IF ~Begins(t, Tilde) THEN -1 ELSE Rpmvercmp(Rest(s), Rest(t))
     ELSE IF s = <<>> \/ t = <<>> THEN Sign(Len(s) - Len(t))
     ELSE IF s[1] = Caret \/ t[1] = Caret
     THEN IF s[1] # Caret THEN 1 ELSE IF t[1] # Caret THEN -1 ELSE Rpmvercmp(Rest(s), Rest(t))
     ELSE IF rt = 0 THEN (IF numeric THEN 1 ELSE -1)
     ELSE IF runs # 0 THEN runs ELSE Rpmvercmp(From(s, rs + 1), From(t, rt + 1))

\* _split: a text before the colon that is no number is part of the version.
RpmSplit(s) ==
  LET epoch == Colons(s) # {} /\ Numeric(Head1(s))
      body == IF epoch THEN From(s, First(Colons(s)) + 1) ELSE s
      cut == IF Dashes(body) = {} THEN Len(body) + 1 ELSE Last(Dashes(body))
  IN [epoch |-> IF epoch THEN Head1(s) ELSE <<>>,
      upstream |-> SubSeq(body, 1, cut - 1), revision |-> From(body, cut + 1)]

\* compare
RpmCompare(s, t) ==
  LET v == RpmSplit(s) w == RpmSplit(t)
  IN Or(CompareDigits(v.epoch, w.epoch), Or(Rpmvercmp(v.upstream, w.upstream), Rpmvercmp(v.revision, w.revision)))

-----------------------------------------------------------------------------
Init == a = <<>> /\ b = <<>>

\* A character more; the second version grows when the first has its length.
Next ==
  \E c \in Characters :
    \/ Len(a) < MaxLength /\ b = <<>> /\ a' = Append(a, c) /\ b' = b
    \/ Len(b) < MaxLength /\ b' = Append(b, c) /\ a' = a

Spec == Init /\ [][Next]_vars

-----------------------------------------------------------------------------
(* Properties *)

RECURSIVE Value(_)
Value(s) == IF s = <<>> THEN 0 ELSE 10 * Value(SubSeq(s, 1, Len(s) - 1)) + (s[Len(s)] - Zero)

\* dpkg's order as a sequence of numbers, compared one by one as if endless
\* zeros followed: the characters before a digit, a zero for their end, the
\* value of the digits, and so on.
RECURSIVE DebianKey(_)
DebianKey(s) ==
  LET NotDigit(c) == ~IsDigit(c)
      n == RunLength(s, NotDigit) d == RunLength(From(s, n + 1), IsDigit)
      rank(c) == IF c = Tilde THEN -1 ELSE IF IsAlpha(c) THEN c ELSE 1000 + c
  IN IF s = <<>> THEN <<>>
     ELSE [i \in 1..n |-> rank(s[i])] \o <<0, Value(SubSeq(s, n + 1, n + d))>> \o DebianKey(From(s, n + d + 1))

\* rpm's: the end of the version is 0, a tilde less, a caret 1, then letters,
\* then digits by their value.
RECURSIVE RpmKey(_)
RpmKey(v) ==
  LET s == SkipSeparators(v)
      d == RunLength(s, IsDigit) l == RunLength(s, IsAlpha)
  IN IF s = <<>> THEN <<>>
     ELSE IF s[1] = Tilde THEN <<-1>> \o RpmKey(Tail(s))
     ELSE IF s[1] = Caret THEN <<1>> \o RpmKey(Tail(s))
     ELSE IF d > 0 THEN <<3, Value(SubSeq(s, 1, d))>> \o RpmKey(From(s, d + 1))
     ELSE <<2>> \o SubSeq(s, 1, l) \o <<0>> \o RpmKey(From(s, l + 1))

ByKey(v, w, Key(_)) ==
  Or(Sign(Value(v.epoch) - Value(w.epoch)),
     Or(FirstDifference(Key(v.upstream), Key(w.upstream), Code), FirstDifference(Key(v.revision), Key(w.revision), Code)))

\* dpkg's loop decides by the reference order, which is total: so "the
\* earliest fix" and "older than the fix" do not depend on which two of three
\* versions are compared first (Req 2.11, 12.11).
DebianOrderTotal ==
  /\ DebianCompare(a, b) = ByKey(DebianSplit(a), DebianSplit(b), DebianKey)
  /\ DebianCompare(b, a) = -DebianCompare(a, b)

\* And so does rpm's.
RpmOrderTotal ==
  /\ RpmCompare(a, b) = ByKey(RpmSplit(a), RpmSplit(b), RpmKey)
  /\ RpmCompare(b, a) = -RpmCompare(a, b)
=============================================================================
