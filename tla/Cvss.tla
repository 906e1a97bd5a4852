-------------------------------- MODULE Cvss --------------------------------
(***************************************************************************)
(* CVSS scores (scanner/cvss.py).  A vector is what its components say, in *)
(* the order they are written; scores are in tenths and every other level  *)
(* is scaled to an integer.                                                *)
(*                                                                         *)
(* The state machine makes a vector worse, one metric at a time, and reads *)
(* its score at each step; or spoils it, as a feed can.                    *)
(*                                                                         *)
(* The code computes with floats.  In v3 the fixed-point arithmetic below  *)
(* gives the same tenth for each of the 2592 vectors.  In v4 it is exact,  *)
(* where the code's float falls short of half a tenth at some exact ties   *)
(* and rounds down.                                                        *)
(***************************************************************************)
EXTENDS Integers, Sequences, FiniteSets, Functions, FiniteSetsExt

CONSTANTS
  Start,  \* the vectors to begin with: [version : {"3", "4"}, parts : a sequence]
  Varied  \* Varied[s]: the metrics that are made worse from s

VARIABLES
  vector,  \* the components of the vector, each a name and a value
  version, \* the prefix it carries
  varied,  \* the metrics this behaviour varies
  score    \* what the vector is worth: tenths, or Unscored

vectorVars == <<vector, version, varied, score>>

Unscored == -1

\* _parse_vector: a repeated metric makes a vector unscorable.
Parses(parts) == \A i, j \in DOMAIN parts : i # j => parts[i].name # parts[j].name
Metrics(parts) ==
  [n \in {parts[i].name : i \in DOMAIN parts} |-> parts[CHOOSE i \in DOMAIN parts : parts[i].name = n].value]

-----------------------------------------------------------------------------
(* v3: levels in hundredths *)

V3Levels == [
  AV |-> [P |-> 20, L |-> 55, A |-> 62, N |-> 85], AC |-> [H |-> 44, L |-> 77], UI |-> [R |-> 62, N |-> 85],
  C |-> [N |-> 0, L |-> 22, H |-> 56], I |-> [N |-> 0, L |-> 22, H |-> 56], A |-> [N |-> 0, L |-> 22, H |-> 56]]

\* As a mutant: the two tables of PR are taken for each other.
V3PRSwapped == [U |-> [H |-> 50, L |-> 68, N |-> 85], C |-> [H |-> 27, L |-> 62, N |-> 85]]

\* Rights weigh less where the scope changes.
V3PR == [U |-> [H |-> 27, L |-> 62, N |-> 85], C |-> [H |-> 50, L |-> 68, N |-> 85]]

V3Scorable(m) ==
  /\ "S" \in DOMAIN m /\ m["S"] \in {"U", "C"}
  /\ "PR" \in DOMAIN m /\ m["PR"] \in {"N", "L", "H"}
  /\ \A n \in DOMAIN V3Levels : n \in DOMAIN m /\ m[n] \in DOMAIN V3Levels[n]

\* x to the fifteenth power, in ten-thousandths.
Fifteenth(x) ==
  LET once(y) == (y * x + 5000) \div 10000
      thrice(y) == once(once(once(y)))
  IN thrice(thrice(thrice(thrice(thrice(10000)))))

\* _roundup, of a value in ten-millionths to tenths.
Roundup(value) == LET scaled == (value + 50) \div 100 IN (scaled + 9999) \div 10000

V3Score(m) ==
  LET level(n) == V3Levels[n][m[n]]
      changed == m["S"] = "C"
      iss == 1000000 - (100 - level("C")) * (100 - level("I")) * (100 - level("A"))
      impact == IF changed THEN (752 * (iss - 29000)) \div 10 - 3250 * Fifteenth((iss - 20000 + 50) \div 100)
                ELSE (642 * iss) \div 10
      reach == 822 * level("AV") * level("AC")
      rights == V3PR[m["S"]][m["PR"]] * level("UI")
      exploitability == (reach \div 1000) * rights + ((reach % 1000) * rights) \div 1000
      total == IF changed THEN ((impact + exploitability) \div 25) * 27 ELSE impact + exploitability
  IN IF impact <= 0 THEN 0 ELSE Roundup(Min({total, 100000000}))

-----------------------------------------------------------------------------
(* v4: what each metric may say, the least severe first *)

Impact == <<"N", "L", "H">>
Requirement == <<"X", "L", "M", "H">>
MImpact == <<"X", "N", "L", "H">>
MSafety == <<"X", "N", "L", "H", "S">>
V4Values == [
  AV |-> <<"P", "L", "A", "N">>, AC |-> <<"H", "L">>, AT |-> <<"P", "N">>, PR |-> <<"H", "L", "N">>, UI |-> <<"A", "P", "N">>,
  VC |-> Impact, VI |-> Impact, VA |-> Impact, SC |-> Impact, SI |-> Impact, SA |-> Impact,
  E |-> <<"X", "U", "P", "A">>, CR |-> Requirement, IR |-> Requirement, AR |-> Requirement,
  MAV |-> <<"X", "P", "L", "A", "N">>, MAC |-> <<"X", "H", "L">>, MAT |-> <<"X", "P", "N">>, MPR |-> <<"X", "H", "L", "N">>,
  MUI |-> <<"X", "A", "P", "N">>, MVC |-> MImpact, MVI |-> MImpact, MVA |-> MImpact, MSC |-> MImpact, MSI |-> MSafety,
  MSA |-> MSafety, S |-> <<"X", "N", "P">>, AU |-> <<"X", "N", "Y">>, R |-> <<"X", "A", "U", "I">>, V |-> <<"X", "D", "C">>,
  RE |-> <<"X", "L", "M", "H">>, U |-> <<"X", "Clear", "Green", "Amber", "Red">>]

Modified == [AV |-> "MAV", AC |-> "MAC", AT |-> "MAT", PR |-> "MPR", UI |-> "MUI", VC |-> "MVC", VI |-> "MVI", VA |-> "MVA",
             SC |-> "MSC", SI |-> "MSI", SA |-> "MSA"]
Mandatory == DOMAIN Modified

V4Scorable(m) ==
  /\ \A n \in DOMAIN m : n \in DOMAIN V4Values /\ m[n] \in Range(V4Values[n])
  /\ Mandatory \subseteq DOMAIN m

\* _v4_metric: a requirement or a maturity that is not defined is the worst,
\* and a modified metric stands for its base.
Said(m, n) == IF n \in DOMAIN m THEN m[n] ELSE "X"
V4Metric(m, n) ==
  IF n = "E" THEN (IF Said(m, n) = "X" THEN "A" ELSE m[n])
  ELSE IF n \in {"CR", "IR", "AR"} THEN (IF Said(m, n) = "X" THEN "H" ELSE m[n])
  ELSE IF Said(m, Modified[n]) # "X" THEN m[Modified[n]] ELSE m[n]

\* _v4_macrovector, as <<eq1, ..., eq6>>.
MacroVector(m) ==
  LET is(n, v) == V4Metric(m, n) = v
      open == {n \in {"AV", "PR", "UI"} : is(n, "N")}
  IN << IF open = {"AV", "PR", "UI"} THEN 0 ELSE IF open # {} /\ ~is("AV", "P") THEN 1 ELSE 2,
        IF is("AC", "L") /\ is("AT", "N") THEN 0 ELSE 1,
        IF is("VC", "H") /\ is("VI", "H") THEN 0 ELSE IF \E n \in {"VC", "VI", "VA"} : is(n, "H") THEN 1 ELSE 2,
        IF Said(m, "MSI") = "S" \/ Said(m, "MSA") = "S" THEN 0
        ELSE IF \E n \in {"SC", "SI", "SA"} : is(n, "H") THEN 1 ELSE 2,
        CASE is("E", "A") -> 0 [] is("E", "P") -> 1 [] is("E", "U") -> 2,
        IF \E p \in {<<"CR", "VC">>, <<"IR", "VI">>, <<"AR", "VA">>} : is(p[1], "H") /\ is(p[2], "H") THEN 0 ELSE 1 >>

\* _V4_MACROVECTOR_SCORES, by eq1, eq2 and eq3, and then in the order of eq4,
\* eq5 and eq6; where eq3 is 2, eq6 is 1.
Published ==
  <<<<<<<<100,99,98,95,95,92,100,96,93,87,91,81,93,90,89,80,81,68>>,
        <<98,95,95,92,90,84,93,92,89,81,81,65,88,80,78,70,69,48>>,
        <<92,82,72,79,69,50,69,55,27>>>>,
      <<<<99,97,95,92,92,85,95,91,90,83,84,71,92,81,82,71,72,53>>,
        <<95,93,92,85,85,73,92,82,80,72,70,59,84,70,71,52,50,30>>,
        <<86,75,52,71,52,29,63,29,17>>>>>>,
    <<<<<<98,95,94,87,91,81,94,89,86,74,77,64,87,75,74,63,63,49>>,
        <<94,89,88,77,76,67,86,76,74,58,59,50,72,57,57,52,52,25>>,
        <<83,70,54,65,58,26,53,21,13>>>>,
      <<<<95,90,88,76,76,70,90,77,75,62,61,53,77,66,68,59,52,30>>,
        <<89,78,76,67,62,58,74,59,57,57,47,23,61,52,57,29,24,16>>,
        <<71,59,30,58,26,15,23,13,6>>>>>>,
    <<<<<<93,87,86,72,75,58,86,74,74,61,56,34,70,54,52,40,40,22>>,
        <<85,75,74,55,62,51,72,57,55,41,46,19,53,36,34,19,19,8>>,
        <<64,51,20,47,21,11,24,9,4>>>>,
      <<<<88,75,73,53,60,50,73,55,59,40,41,20,54,43,45,22,20,11>>,
        <<75,55,58,45,40,21,61,51,48,18,20,9,46,18,17,7,8,2>>,
        <<53,24,14,24,12,5,10,3,1>>>>>>>>

Lookup(e) ==
  IF e[1] > 2 \/ e[2] > 1 \/ e[3] > 2 \/ e[4] > 2 \/ e[5] > 2 \/ e[6] > 1 \/ (e[3] = 2 /\ e[6] = 0) THEN Unscored
  ELSE Published[e[1] + 1][e[2] + 1][e[3] + 1]
         [IF e[3] = 2 THEN 3 * e[4] + e[5] + 1 ELSE 6 * e[4] + 2 * e[5] + e[6] + 1]

Down(e, i) == [e EXCEPT ![i] = @ + 1]

\* _eq3eq6_next_lower_score: of two ways down from 00, the higher.
NextLower36(e) ==
  IF e[3] = 0 /\ e[6] = 0
  THEN LET left == Lookup(Down(e, 6)) right == Lookup(Down(e, 3))
       IN IF left # Unscored /\ right # Unscored /\ left > right THEN left ELSE right
  ELSE IF e[3] = 1 /\ e[6] = 0 THEN Lookup(Down(e, 6))
  ELSE IF e[3] < 2 THEN Lookup(Down(e, 3))
  ELSE Unscored

\* The axes a vector is measured on, and the most severe vectors of each of
\* their levels.
Axes == <<
  <<"AV", "PR", "UI">>, <<"AC", "AT">>, <<"VC", "VI", "VA", "CR", "IR", "AR">>, <<"SC", "SI", "SA">> >>
MaxComposed(axis, e) ==
  CASE axis = 1 -> << << <<"N", "N", "N">> >>,
                      << <<"A", "N", "N">>, <<"N", "L", "N">>, <<"N", "N", "P">> >>,
                      << <<"P", "N", "N">>, <<"A", "L", "P">> >> >>[e[1] + 1]
    [] axis = 2 -> << << <<"L", "N">> >>, << <<"H", "N">>, <<"L", "P">> >> >>[e[2] + 1]
    [] axis = 3 /\ e[6] = 0 ->
         << << <<"H", "H", "H", "H", "H", "H">> >>,
            << <<"L", "H", "H", "H", "H", "H">>, <<"H", "L", "H", "H", "H", "H">> >> >>[e[3] + 1]
    [] axis = 3 /\ e[6] = 1 ->
         << << <<"H", "H", "L", "M", "M", "H">>, <<"H", "H", "H", "M", "M", "M">> >>,
            << <<"L", "H", "L", "H", "M", "H">>, <<"L", "H", "H", "H", "M", "M">>, <<"H", "L", "H", "M", "H", "M">>,
               <<"H", "L", "L", "M", "H", "H">>, <<"L", "L", "H", "H", "H", "M">> >>,
            << <<"L", "L", "L", "H", "H", "H">> >> >>[e[3] + 1]
    [] axis = 4 -> << << <<"H", "S", "S">> >>, << <<"H", "H", "H">> >>, << <<"L", "L", "L">> >> >>[e[4] + 1]

MaxSeverity(axis, e) ==
  CASE axis = 1 -> <<1, 4, 5>>[e[1] + 1]
    [] axis = 2 -> <<1, 2>>[e[2] + 1]
    [] axis = 3 -> << <<7, 6>>, <<8, 8>>, <<0, 10>> >>[e[3] + 1][e[6] + 1]
    [] axis = 4 -> <<6, 5, 4>>[e[4] + 1]

\* How far a value is from the worst of its metric, in tenths.
Level(n, v) ==
  LET values == V4Values[IF n \in {"SI", "SA"} THEN Modified[n] ELSE n]
      best == CHOOSE i \in DOMAIN values : values[i] = v
  IN Len(values) - best + (IF n = "SC" THEN 1 ELSE 0)

\* The sum of up to six numbers, and the first number where there may be none.
Total(f) ==
  LET of(i) == IF i \in DOMAIN f THEN f[i] ELSE 0 IN of(1) + of(2) + of(3) + of(4) + of(5) + of(6)
FirstNumber(f) ==
  LET numbers == {i \in DOMAIN f : f[i] # Unscored}
  IN IF numbers = {} THEN Unscored ELSE f[CHOOSE i \in numbers : \A j \in numbers : i <= j]

\* _severity_distance, Unscored from a vector that is exceeded in some metric.
Away(f) == IF \E i \in DOMAIN f : f[i] < 0 THEN Unscored ELSE Total(f)
Distance(m, axis, max) ==
  Away([i \in DOMAIN max |-> Level(Axes[axis][i], V4Metric(m, Axes[axis][i])) - Level(Axes[axis][i], max[i])])

\* As a mutant: one most severe vector is tried.
WayFromOne(m, e, axis) == Distance(m, axis, MaxComposed(axis, e)[1])

\* From the first of the most severe vectors that the vector does not exceed.
WayDown(m, e, axis) ==
  FirstNumber([i \in DOMAIN MaxComposed(axis, e) |-> Distance(m, axis, MaxComposed(axis, e)[i])])

\* The score of the next lower MacroVector along an axis; the fifth is eq5.
NextLower(e, axis) ==
  IF axis = 3 THEN NextLower36(e) ELSE Lookup(Down(e, axis))

\* Each axis weighs in with the share of the way down the vector has gone, in
\* 840ths, which every MaxSeverity divides; eq5 only counts.
V4Score(m) ==
  LET e == MacroVector(m)
      value == Lookup(e)
      lower == {axis \in 1..5 : NextLower(e, axis) # Unscored}
      gone == [axis \in lower \ {5} |->
                 (value - NextLower(e, axis)) * WayDown(m, e, axis) * (840 \div MaxSeverity(axis, e))]
      normalized == Total(gone)
      scale == 840 * Cardinality(lower)
      exact == Min({100 * scale, Max({0, value * scale - normalized})})
  IN IF \A n \in {"VC", "VI", "VA", "SC", "SI", "SA"} : V4Metric(m, n) = "N" THEN 0
     ELSE IF value = Unscored \/ \E axis \in 1..4 : WayDown(m, e, axis) = Unscored THEN Unscored
     ELSE IF lower = {} THEN value
     ELSE (2 * exact + scale) \div (2 * scale)

\* cvss_v3_base_score and cvss_v4_base_score.
Score(ver, parts) ==
  IF ~Parses(parts) THEN Unscored
  ELSE IF ver = "3" THEN (IF V3Scorable(Metrics(parts)) THEN V3Score(Metrics(parts)) ELSE Unscored)
  ELSE IF V4Scorable(Metrics(parts)) THEN V4Score(Metrics(parts)) ELSE Unscored

-----------------------------------------------------------------------------
\* The base metrics of v3 and all of v4, and what each may say, the least severe
\* first.
MetricsOf(ver) == IF ver = "4" THEN DOMAIN V4Values ELSE {"S", "PR"} \cup DOMAIN V3Levels
ValuesOf(ver, n) ==
  IF ver = "4" THEN V4Values[n]
  ELSE CASE n = "S" -> <<"U", "C">>
         [] n \in {"C", "I", "A"} -> Impact
         [] n = "UI" -> <<"R", "N">>
         [] OTHER -> V4Values[n]

\* A vector says of the metrics of its version what these may say, or what none
\* may.
Components(ver) == UNION {[name : {n}, value : Range(ValuesOf(ver, n)) \cup {"?"}] : n \in MetricsOf(ver)}
IsVector(ver, parts) == parts \in Seq(Components(ver))
ASSUME StartAssumption == \A s \in Start : s.version \in {"3", "4"} /\ IsVector(s.version, s.parts)

VectorInit ==
  \E s \in Start :
    /\ vector = s.parts /\ version = s.version
    /\ varied = Varied[s.varied]
    /\ score = Score(s.version, s.parts)

Rewrite(parts) ==
  /\ vector' = parts
  /\ score' = Score(version, parts)
  /\ UNCHANGED <<version, varied>>

\* The next vector says something worse of one metric.
Worsen(i) ==
  LET values == ValuesOf(version, vector[i].name)
      at == CHOOSE k \in DOMAIN values : values[k] = vector[i].value
  IN /\ vector[i].name \in varied
     /\ score # Unscored
     /\ vector[i].value # "X" \/ vector[i].name \in {"MSI", "MSA"}
     /\ at < Len(values)
     /\ Rewrite([vector EXCEPT ![i].value = values[IF vector[i].value = "X" THEN Len(values) ELSE at + 1]])

\* A component is missing, repeated, or says what no metric says: in vectors
\* that are not varied, a bound of the model.
Spoils == varied = {} /\ score # Unscored
Lose(i) == Spoils /\ Rewrite([k \in 1..(Len(vector) - 1) |-> vector[IF k < i THEN k ELSE k + 1]])
Repeat(i) == Spoils /\ Rewrite(Append(vector, vector[i]))
Garble(i) == Spoils /\ Rewrite([vector EXCEPT ![i].value = "?"])

VectorNext == \E i \in DOMAIN vector : Worsen(i) \/ Lose(i) \/ Repeat(i) \/ Garble(i)

VectorSpec == VectorInit /\ [][VectorNext]_vectorVars

-----------------------------------------------------------------------------
(* Properties *)

\* A vector that is made worse in one metric is not worth less: findings are
\* ranked by these numbers.
NeverLower == [][\A i \in DOMAIN vector : Worsen(i) => score' >= score]_vectorVars

\* The components a score of the version rests on.
Complete ==
  /\ Parses(vector) /\ \A i \in DOMAIN vector : vector[i].value # "?"
  /\ (IF version = "3" THEN {"S", "PR"} \cup DOMAIN V3Levels ELSE Mandatory) \subseteq DOMAIN Metrics(vector)

\* A vector is worth something between 0 and 10 if it says what it must, and
\* nothing if not: the tables cover every MacroVector that can come up and
\* hold a most severe vector that none of its vectors exceeds, and a vector
\* that cannot be read is not given a number (Req 2.7).
ScoredIfReadable == IF Complete THEN score \in 0..100 ELSE score = Unscored
=============================================================================
