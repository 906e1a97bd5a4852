--------------------------- MODULE Scanner_proofs ----------------------------
(***************************************************************************)
(* Proofs about the scanner.                                               *)
(*                                                                         *)
(* OsvLookup, for any hosts, packages, advisories, requests lost and       *)
(* pages: nothing that affects a host is missed, except under a name whose *)
(* answer began with an empty page, and nothing foreign is reported of a   *)
(* release OSV is known to describe.                                       *)
(*                                                                         *)
(* HostKeys and Collect, for any number of scans, tests, addresses and     *)
(* keys: between two forgettings of an address every connection that went  *)
(* through saw the same key, every pin is the key of such a connection,    *)
(* reading machines over the connections is an implementation of the       *)
(* pinning of keys, and no inventory is read off an output the deadline    *)
(* cut short.                                                              *)
(***************************************************************************)
EXTENDS OsvLookup, Collect, TLAPS

-----------------------------------------------------------------------------
(* Matching against OSV.                                                   *)

\* OSV does not change under a job, so what it matches does not either.
LEMMA SameOsv ==
  ASSUME UNCHANGED osv
  PROVE  \A n \in Names, rs \in SUBSET Releases : Matches(n, rs)' = Matches(n, rs)
  BY DEF Matches

LEMMA MatchesType ==
  ASSUME NEW n, NEW rs
  PROVE  Matches(n, rs) \subseteq Vulns
  BY DEF Matches

LEMMA QueriesType == \A h \in Hosts, p \in Parts : Queries(h, p) \subseteq Names
  BY LookupAssumption DEF Queries, Asks, Parts

LEMMA EcoType ==
  \A h \in Hosts : /\ EcoOf[h] \in Ecos
                   /\ ReleasesOf[EcoOf[h]] \subseteq Releases
                   /\ Wide[EcoOf[h]] \subseteq Releases
                   /\ ReleasesOf[EcoOf[h]] \subseteq Wide[EcoOf[h]]
  BY LookupAssumption

\* What affects the own releases is matched by the wide query too.
LEMMA OwnIsWide ==
  ASSUME NEW h \in Hosts, NEW n
  PROVE  Matches(n, ReleasesOf[EcoOf[h]]) \subseteq Matches(n, Wide[EcoOf[h]])
  BY EcoType DEF Matches

\* Who was told stays so, whatever else is found and whoever answers with an empty
\* page.
LEMMA StaysTold ==
  ASSUME UNCHANGED osv, blank \subseteq blank', NEW h \in Hosts, NEW p \in Parts
  PROVE  \A vs, ws : Told(h, p, vs) /\ vs \subseteq ws =>
           \A n \in Queries(h, p) : <<EcoOf[h], n>> \in blank' \/ Matches(n, ReleasesOf[EcoOf[h]])' \subseteq ws
<1>1. \A n \in Queries(h, p) : Matches(n, ReleasesOf[EcoOf[h]])' = Matches(n, ReleasesOf[EcoOf[h]])
  BY QueriesType, EcoType, SameOsv
<1> QED
  BY <1>1 DEF Told

\* So does every host that was answered.
LEMMA MissedKept ==
  ASSUME LookupInv, UNCHANGED <<osv, result>>, blank \subseteq blank'
  PROVE  NothingMissed'
<1> SUFFICES ASSUME NEW h \in Hosts
             PROVE  /\ \A p \in result[h].parts : Told(h, p, result[h].vulns)'
                    /\ result[h].status = "OK" => \A p \in Parts : Asks(h, p) # {} => p \in result[h].parts
  BY DEF NothingMissed, Asks
<1>1. result[h].parts \subseteq Parts
  BY DEF LookupInv, TypeOK
<1>2. ASSUME NEW p \in result[h].parts
      PROVE  Told(h, p, result[h].vulns)'
  <2>1. Told(h, p, result[h].vulns)
    BY DEF LookupInv, NothingMissed
  <2>2. \A n \in Queries(h, p) :
           <<EcoOf[h], n>> \in blank' \/ Matches(n, ReleasesOf[EcoOf[h]])' \subseteq result[h].vulns
    BY <1>1, <2>1, StaysTold
  <2> QED
    BY <2>2 DEF Told, Queries, Asks
<1> QED
  BY <1>2 DEF LookupInv, NothingMissed

LEMMA InitOK == LookupInit => LookupInv
<1> SUFFICES ASSUME LookupInit PROVE LookupInv
  OBVIOUS
<1>1. TypeOK
  BY LookupAssumption DEF LookupInit, TypeOK, CacheKeys, Unasked, Parts
<1>2. CacheComplete /\ NotForeign
  BY DEF LookupInit, CacheComplete, NotForeign
<1>3. NothingMissed
  BY DEF LookupInit, NothingMissed, Unasked
<1>4. CallOK
  BY DEF LookupInit, CallOK
<1> QED
  BY <1>1, <1>2, <1>3, <1>4 DEF LookupInv

\* The end of a part, once what affects it is among the advisories.
LEMMA PartAnsweredOK ==
  ASSUME LookupInv, host \in Hosts, NEW new \in SUBSET Vulns, PartAnswered(new), UNCHANGED osv,
         cached' \subseteq CacheKeys, vague' \subseteq cached', cache' \in [CacheKeys -> SUBSET Vulns],
         tracked' \subseteq Releases, blank \subseteq blank', blank' \subseteq CacheKeys, CacheComplete', NotForeign',
         \A n \in Queries(host, part) : <<EcoOf[host], n>> \in blank' \/ Matches(n, Own) \subseteq found \cup new
  PROVE  LookupInv'
<1> DEFINE hit == {m \in Queries(host, "kernel") : <<EcoOf[host], m>> \in cached'}
           more == UNION {cache'[<<EcoOf[host], n>>] : n \in hit}
<1>t. TypeOK
  BY DEF LookupInv
<1>q. Queries(host, "kernel") \subseteq Names
  BY QueriesType DEF Parts
<1>e. EcoOf[host] \in Ecos
  BY EcoType
<1>m. more \subseteq Vulns
  BY <1>q, <1>e DEF CacheKeys
<1>1. CASE part = "userland" /\ Asks(host, "kernel") # {}
  <2>1. /\ part' = "kernel" /\ phase' = "batch"
        /\ todo' = {n \in Queries(host, "kernel") : <<EcoOf[host], n>> \notin cached'}
        /\ found' = found \cup new \cup more
        /\ host' = host /\ result' = result
    BY <1>1 DEF PartAnswered
  <2>2. NothingInFlight
    BY DEF PartAnswered
  <2>3. TypeOK'
    <3>1. todo' \subseteq Names /\ found' \subseteq Vulns
      BY <2>1, <1>q, <1>m, <1>t DEF TypeOK
    <3>2. pages' \in [Names -> 0..MaxPages]
      BY <2>2, LookupAssumption DEF NothingInFlight
    <3>3. host \in Hosts /\ host # NoHost
      BY LookupAssumption
    <3> QED
      BY <3>1, <3>2, <3>3, <2>1, <2>2, <1>t DEF TypeOK, NothingInFlight, Parts
  <2>4. NothingMissed'
    BY <2>1, MissedKept
  <2>5. CallOK'
    <3>1. ASSUME NEW n \in Queries(host, "kernel"), n \notin todo', <<EcoOf[host], n>> \notin blank'
          PROVE  Matches(n, Own) \subseteq found'
      <4>1. <<EcoOf[host], n>> \in cached'
        BY <3>1, <2>1
      <4>2. \A k \in cached' \ blank' : Matches(k[2], ReleasesOf[k[1]])' \subseteq cache'[k]
        BY DEF CacheComplete
      <4>3. \A e \in Ecos : <<e, n>> \in cached' \ blank' => Matches(n, ReleasesOf[e])' \subseteq cache'[<<e, n>>]
        BY <4>2
      <4>4. \A e \in Ecos : Matches(n, ReleasesOf[e])' = Matches(n, ReleasesOf[e])
        BY <1>q, LookupAssumption, SameOsv
      <4>5. Matches(n, Own) \subseteq cache'[<<EcoOf[host], n>>]
        BY <3>1, <4>1, <4>3, <4>4, <1>e DEF Own
      <4> QED
        BY <4>1, <4>5, <2>1
    <3>2. Own' = Own /\ \A n \in Queries(host, "kernel") : Matches(n, Own)' = Matches(n, Own)
      BY <2>1, <1>q, EcoType, SameOsv DEF Own
    <3>3. Queries(host, part)' = Queries(host, "kernel")
      BY <2>1 DEF Queries, Asks
    <3>4. \A n \in Queries(host, part)' \ todo' : <<EcoOf[host], n>> \in blank' \/ Matches(n, Own)' \subseteq found'
      BY <3>1, <3>2, <3>3
    <3>5. \A n \in Queries(host, "userland") : Matches(n, Own)' = Matches(n, Own)
      BY <2>1, QueriesType, EcoType, SameOsv DEF Own, Parts
    <3>6. \A n \in Queries(host, "userland") : <<EcoOf[host], n>> \in blank' \/ Matches(n, Own)' \subseteq found'
      BY <1>1, <2>1, <3>5
    <3>7. Told(host, "userland", found)'
      BY <2>1, <3>6 DEF Told, Own, Queries, Asks
    <3> QED
      BY <3>4, <3>7, <2>1, <2>2 DEF CallOK, NothingInFlight
  <2> QED
    BY <2>3, <2>4, <2>5 DEF LookupInv
<1>2. CASE ~(part = "userland" /\ Asks(host, "kernel") # {})
  <2>1. Answer("OK", {"userland", part}, found \cup new) /\ NothingInFlight
    BY <1>2 DEF PartAnswered
  <2>2. TypeOK'
    <3>1. pages' \in [Names -> 0..MaxPages]
      BY <2>1, LookupAssumption DEF NothingInFlight
    <3>2. [status |-> "OK", parts |-> {"userland", part}, vulns |-> found \cup new]
          \in [status : {"NONE", "OK", "DATA_SOURCE_UNAVAILABLE"}, parts : SUBSET Parts, vulns : SUBSET Vulns]
      BY <1>t DEF TypeOK, Parts
    <3> QED
      BY <3>1, <3>2, <2>1, <1>t DEF TypeOK, NothingInFlight, Answer, Parts
  <2>3. \A p \in {"userland", part} : \A n \in Queries(host, p) :
            <<EcoOf[host], n>> \in blank' \/ Matches(n, Own) \subseteq found \cup new
    <3>1. part = "kernel" => Told(host, "userland", found)
      BY LookupAssumption DEF LookupInv, CallOK
    <3>2. part = "kernel" => \A n \in Queries(host, "userland") :
             <<EcoOf[host], n>> \in blank' \/ Matches(n, Own) \subseteq found \cup new
      BY <3>1 DEF Told, Own
    <3> QED
      BY <3>2, <1>t DEF TypeOK, Parts
  <2>4. \A p \in Parts : Asks(host, p) # {} => p \in {"userland", part}
    BY <1>2, <1>t DEF TypeOK, Parts
  <2>5. NothingMissed'
    <3> SUFFICES ASSUME NEW h \in Hosts
                 PROVE  /\ \A p \in result'[h].parts : Told(h, p, result[h].vulns)'
                        /\ result'[h].status = "OK" => \A p \in Parts : Asks(h, p) # {} => p \in result'[h].parts
      BY DEF NothingMissed, Asks
    <3>1. CASE h = host
      <4>1. result'[h] = [status |-> "OK", parts |-> {"userland", part}, vulns |-> found \cup new]
        BY <3>1, <2>1, <1>t DEF Answer, TypeOK
      <4>2. ASSUME NEW p \in {"userland", part}
            PROVE  Told(h, p, result[h].vulns)'
        <5>1. p \in Parts
          BY <1>t DEF TypeOK, Parts
        <5>2. \A n \in Queries(h, p) : Matches(n, ReleasesOf[EcoOf[h]])' = Matches(n, Own)
          BY <3>1, <5>1, QueriesType, EcoType, SameOsv DEF Own
        <5>3. \A n \in Queries(h, p) :
                 <<EcoOf[h], n>> \in blank' \/ Matches(n, ReleasesOf[EcoOf[h]])' \subseteq result'[h].vulns
          BY <2>3, <3>1, <4>1, <5>2
        <5> QED
          BY <5>3 DEF Told, Queries, Asks
      <4> QED
        BY <4>1, <4>2, <3>1, <2>4
    <3>2. CASE h # host
      <4>1. result'[h] = result[h]
        BY <3>2, <2>1, <1>t DEF Answer, TypeOK
      <4>2. result[h].parts \subseteq Parts
        BY <1>t DEF TypeOK
      <4>3. \A p \in result[h].parts : Told(h, p, result[h].vulns)
        BY DEF LookupInv, NothingMissed
      <4>4. \A p \in result[h].parts : \A n \in Queries(h, p) :
               <<EcoOf[h], n>> \in blank' \/ Matches(n, ReleasesOf[EcoOf[h]])' \subseteq result[h].vulns
        BY <4>2, <4>3, StaysTold
      <4>5. \A p \in result'[h].parts : Told(h, p, result[h].vulns)'
        BY <4>1, <4>4 DEF Told, Queries, Asks
      <4> QED
        BY <4>1, <4>5 DEF LookupInv, NothingMissed
    <3> QED
      BY <3>1, <3>2
  <2>6. CallOK'
    BY <2>1, LookupAssumption DEF CallOK, Answer, NothingInFlight
  <2> QED
    BY <2>2, <2>5, <2>6 DEF LookupInv
<1> QED
  BY <1>1, <1>2


\* A part that failed: what was found of userland is all the answer claims.
LEMMA PartFailedOK ==
  ASSUME LookupInv, host \in Hosts, PartFailed, UNCHANGED <<osv, cached, cache, vague, blank>>,
         tracked' \subseteq Releases
  PROVE  LookupInv'
<1>t. TypeOK
  BY DEF LookupInv
<1> DEFINE left == IF part = "kernel"
                   THEN [status |-> "DATA_SOURCE_UNAVAILABLE", parts |-> {"userland"}, vulns |-> found]
                   ELSE [status |-> "DATA_SOURCE_UNAVAILABLE", parts |-> {}, vulns |-> {}]
<1>1. /\ NothingInFlight
      /\ result' = [result EXCEPT ![host] = left]
      /\ host' = NoHost /\ part' = "userland" /\ phase' = "idle" /\ todo' = {} /\ found' = {}
  BY DEF PartFailed, Answer
<1>2. TypeOK'
  <2>1. pages' \in [Names -> 0..MaxPages]
    BY <1>1, LookupAssumption DEF NothingInFlight
  <2>2. left \in [status : {"NONE", "OK", "DATA_SOURCE_UNAVAILABLE"}, parts : SUBSET Parts, vulns : SUBSET Vulns]
    BY <1>t DEF TypeOK, Parts
  <2> HIDE DEF left
  <2> QED
    BY <1>1, <2>1, <2>2, <1>t DEF TypeOK, NothingInFlight, Parts
<1>3. CacheComplete'
  BY SameOsv DEF LookupInv, CacheComplete, Matches
<1>4. NotForeign'
  BY SameOsv DEF LookupInv, NotForeign, Matches
<1>5. NothingMissed'
  <2> SUFFICES ASSUME NEW h \in Hosts
               PROVE  /\ \A p \in result'[h].parts : Told(h, p, result[h].vulns)'
                      /\ result'[h].status = "OK" => \A p \in Parts : Asks(h, p) # {} => p \in result'[h].parts
    BY DEF NothingMissed, Asks
  <2>1. CASE h = host
    <3>1. result'[h] = left
      BY <2>1, <1>1, <1>t DEF TypeOK
    <3>2. part = "kernel" => Told(h, "userland", found)
      BY <2>1, LookupAssumption DEF LookupInv, CallOK
    <3>3. part = "kernel" => \A n \in Queries(h, "userland") :
             <<EcoOf[h], n>> \in blank' \/ Matches(n, ReleasesOf[EcoOf[h]])' \subseteq found
      BY <3>2, StaysTold DEF Parts
    <3>4. \A p \in result'[h].parts : p = "userland" /\ part = "kernel" /\ result'[h].vulns = found
      BY <3>1
    <3>5. \A p \in result'[h].parts : Told(h, p, result[h].vulns)'
      BY <3>3, <3>4 DEF Told, Queries, Asks
    <3> QED
      BY <3>1, <3>5
  <2>2. CASE h # host
    <3>1. result'[h] = result[h]
      BY <2>2, <1>1, <1>t DEF TypeOK
    <3>2. result[h].parts \subseteq Parts
      BY <1>t DEF TypeOK
    <3>3. \A p \in result[h].parts : Told(h, p, result[h].vulns)
      BY DEF LookupInv, NothingMissed
    <3>4. \A p \in result[h].parts : \A n \in Queries(h, p) :
             <<EcoOf[h], n>> \in blank' \/ Matches(n, ReleasesOf[EcoOf[h]])' \subseteq result[h].vulns
      BY <3>2, <3>3, StaysTold
    <3>5. \A p \in result'[h].parts : Told(h, p, result[h].vulns)'
      BY <3>1, <3>4 DEF Told, Queries, Asks
    <3> QED
      BY <3>1, <3>5 DEF LookupInv, NothingMissed
  <2> QED
    BY <2>1, <2>2
<1>6. CallOK'
  BY <1>1 DEF CallOK, NothingInFlight
<1> QED
  BY <1>2, <1>3, <1>4, <1>5, <1>6 DEF LookupInv

\* The cache is left as it is.
LEMMA CacheKept ==
  ASSUME LookupInv, UNCHANGED <<osv, cached, cache, vague>>, blank \subseteq blank'
  PROVE  CacheComplete' /\ NotForeign'
  BY SameOsv DEF LookupInv, CacheComplete, NotForeign, Matches

LEMMA MatchOK ==
  ASSUME LookupInv, NEW h \in Hosts, Match(h)
  PROVE  LookupInv'
<1>t. TypeOK
  BY DEF LookupInv
<1>1. /\ UNCHANGED <<osv, clientVars, threadVars, result>>
      /\ host' = h /\ part' = "userland" /\ phase' = "batch"
      /\ todo' = Uncached(h, "userland") /\ found' = FromCache(h, "userland")
      /\ phase = "idle"
  BY DEF Match
<1>q. Queries(h, "userland") \subseteq Names /\ EcoOf[h] \in Ecos
  BY QueriesType, EcoType DEF Parts
<1>2. fetching = {} /\ answered = {} /\ failed = {} /\ unknown = {} /\ rereading = {}
  BY <1>t, <1>1 DEF LookupInv, CallOK, TypeOK
<1>3. CacheComplete' /\ NotForeign'
  BY <1>1, CacheKept DEF clientVars
<1>4. TypeOK'
  <2>1. h # NoHost
    BY LookupAssumption
  <2>2. todo' \subseteq Names
    BY <1>1, <1>q DEF Uncached
  <2>3. found' \subseteq Vulns
    <3>1. \A n \in Queries(h, "userland") : cache[<<EcoOf[h], n>>] \subseteq Vulns
      BY <1>q, <1>t DEF TypeOK, CacheKeys
    <3> QED
      BY <3>1, <1>1 DEF FromCache
  <2> QED
    BY <1>1, <1>2, <1>t, <2>1, <2>2, <2>3 DEF TypeOK, Parts, clientVars, threadVars
<1>5. NothingMissed'
  BY <1>1, MissedKept DEF clientVars
<1>6. CallOK'
  <2>1. ASSUME NEW n \in Queries(h, "userland"), n \notin todo', <<EcoOf[h], n>> \notin blank
        PROVE  Matches(n, ReleasesOf[EcoOf[h]]) \subseteq found'
    <3>1. <<EcoOf[h], n>> \in cached
      BY <2>1, <1>1 DEF Uncached
    <3>2. Matches(n, ReleasesOf[EcoOf[h]]) \subseteq cache[<<EcoOf[h], n>>]
      BY <2>1, <3>1 DEF LookupInv, CacheComplete
    <3> QED
      BY <3>1, <3>2, <1>1 DEF FromCache
  <2>2. \A n \in Queries(h, "userland") :
           Matches(n, ReleasesOf[EcoOf[h]])' = Matches(n, ReleasesOf[EcoOf[h]])
    BY <1>q, <1>1, EcoType, SameOsv
  <2>3. Queries(host, part)' = Queries(h, "userland") /\ Own' = ReleasesOf[EcoOf[h]]
    BY <1>1 DEF Queries, Asks, Own
  <2>4. \A n \in Queries(host, part)' \ todo' : <<EcoOf[h], n>> \in blank' \/ Matches(n, Own)' \subseteq found'
    BY <2>1, <2>2, <2>3, <1>1 DEF Own, clientVars
  <2>5. fetching' \cup answered' \cup failed' \cup unknown' = {}
    BY <1>1, <1>2 DEF threadVars
  <2> QED
    BY <2>4, <2>5, <1>1 DEF CallOK
<1> QED
  BY <1>3, <1>4, <1>5, <1>6 DEF LookupInv

LEMMA AllCachedOK ==
  ASSUME LookupInv, AllCached
  PROVE  LookupInv'
<1>t. TypeOK
  BY DEF LookupInv
<1>1. host \in Hosts /\ part \in Parts
  BY <1>t DEF AllCached, TypeOK
<1>2. UNCHANGED <<osv, clientVars>> /\ PartAnswered({})
  BY DEF AllCached
<1>3. CacheComplete' /\ NotForeign'
  BY <1>2, CacheKept DEF clientVars
<1>4. \A n \in Queries(host, part) : <<EcoOf[host], n>> \in blank' \/ Matches(n, Own) \subseteq found \cup {}
  BY <1>1, <1>2, LookupAssumption DEF AllCached, LookupInv, CallOK, clientVars
<1> QED
  BY <1>1, <1>2, <1>3, <1>4, <1>t, PartAnsweredOK DEF TypeOK, clientVars

\* What is remembered of the names asked is complete and not foreign.
LEMMA RememberOK ==
  ASSUME LookupInv, host \in Hosts, NEW answers \in [Names -> SUBSET Vulns], NEW unsure \in SUBSET todo,
         Remember(answers, unsure), UNCHANGED osv, blank \subseteq blank',
         \A n \in todo : <<EcoOf[host], n>> \in blank' \/ Matches(n, Own) \subseteq answers[n],
         \A n \in todo \ unsure : \A v \in answers[n] :
            \/ v \in Matches(n, Own)
            \/ ~\E r \in Releases, o \in Own : osv[v].block[r] # "none" /\ Family[o] = Family[r]
  PROVE  /\ cached' \subseteq CacheKeys /\ vague' \subseteq cached' /\ cache' \in [CacheKeys -> SUBSET Vulns]
         /\ CacheComplete' /\ NotForeign'
<1>t. TypeOK /\ EcoOf[host] \in Ecos
  BY EcoType DEF LookupInv
<1>1. /\ cached' = cached \cup {<<EcoOf[host], n>> : n \in todo}
      /\ cache' = [k \in CacheKeys |-> IF k[1] = EcoOf[host] /\ k[2] \in todo THEN answers[k[2]] ELSE cache[k]]
      /\ vague' = vague \cup {<<EcoOf[host], n>> : n \in unsure}
  BY DEF Remember
<1>2. cached' \subseteq CacheKeys /\ vague' \subseteq cached' /\ cache' \in [CacheKeys -> SUBSET Vulns]
  BY <1>1, <1>t DEF TypeOK, CacheKeys
<1>3. \A k \in CacheKeys : Matches(k[2], ReleasesOf[k[1]])' = Matches(k[2], ReleasesOf[k[1]])
  BY SameOsv, LookupAssumption DEF CacheKeys
<1>4. ASSUME NEW k \in cached'
      PROVE  \/ /\ k \in cached /\ cache'[k] = cache[k] /\ (k \notin vague' => k \notin vague)
             \/ /\ k[2] \in todo /\ k[1] = EcoOf[host] /\ cache'[k] = answers[k[2]]
                /\ k \notin vague' => k[2] \notin unsure
  <2>1. k \in CacheKeys
    BY <1>2
  <2>2. CASE k[1] = EcoOf[host] /\ k[2] \in todo
    <3>1. k = <<EcoOf[host], k[2]>>
      BY <2>1, <2>2 DEF CacheKeys
    <3> QED
      BY <3>1, <2>1, <2>2, <1>1
  <2>3. CASE ~(k[1] = EcoOf[host] /\ k[2] \in todo)
    BY <2>1, <2>3, <1>1 DEF CacheKeys
  <2> QED
    BY <2>2, <2>3
<1>5. CacheComplete'
  <2> SUFFICES ASSUME NEW k \in cached' \ blank' PROVE Matches(k[2], ReleasesOf[k[1]]) \subseteq cache'[k]
    BY <1>2, <1>3 DEF CacheComplete
  <2>1. k = <<k[1], k[2]>>
    BY <1>2 DEF CacheKeys
  <2> QED
    BY <1>4, <2>1 DEF LookupInv, CacheComplete, Own
<1>6. NotForeign'
  <2> SUFFICES ASSUME NEW k \in cached' \ vague', NEW v \in cache'[k]
               PROVE  \/ v \in Matches(k[2], ReleasesOf[k[1]])
                      \/ ~\E r \in Releases, o \in ReleasesOf[k[1]] : osv[v].block[r] # "none" /\ Family[o] = Family[r]
    BY <1>2, <1>3 DEF NotForeign
  <2> QED
    BY <1>4 DEF LookupInv, NotForeign, Own
<1> QED
  BY <1>2, <1>5, <1>6


LEMMA BatchOK ==
  ASSUME LookupInv,
         NEW lost, NEW ownLost, NEW paged, NEW empty, Batch(lost, ownLost, paged, empty)
  PROVE  LookupInv'
<1>t. TypeOK
  BY DEF LookupInv
<1>1. host \in Hosts /\ part \in Parts
  BY <1>t DEF Batch, TypeOK
<1>2. /\ Vulnerable(lost, empty) \subseteq todo /\ osv' = osv
      /\ blank' = blank \cup {<<EcoOf[host], n>> : n \in empty}
      /\ blank' \subseteq CacheKeys
  <2>1. Vulnerable(lost, empty) \subseteq todo
    BY DEF Vulnerable
  <2>2. blank' = blank \cup {<<EcoOf[host], n>> : n \in empty} /\ empty \subseteq todo
    BY DEF Batch
  <2> QED
    BY <2>1, <2>2, <1>1, <1>t, EcoType DEF Batch, TypeOK, CacheKeys
<1>3. \A n \in todo \ Vulnerable(lost, empty) :
         <<EcoOf[host], n>> \in blank' \/ (Matches(n, WideOwn) = {} /\ Matches(n, Own) = {})
  BY <1>1, <1>2, OwnIsWide DEF Vulnerable, Own, WideOwn
<1>4. CASE Vulnerable(lost, empty) = {}
  <2> DEFINE none == [n \in Names |-> {}]
  <2>1. Remember(none, {}) /\ tracked' = tracked /\ PartAnswered({})
    BY <1>4 DEF Batch
  <2>2. \A n \in todo : none[n] = {} /\ (<<EcoOf[host], n>> \in blank' \/ Matches(n, Own) \subseteq none[n])
    BY <1>3, <1>4, <1>t DEF TypeOK
  <2>3. none \in [Names -> SUBSET Vulns]
    OBVIOUS
  <2> HIDE DEF none
  <2>4. /\ cached' \subseteq CacheKeys /\ vague' \subseteq cached' /\ cache' \in [CacheKeys -> SUBSET Vulns]
        /\ CacheComplete' /\ NotForeign'
    BY <2>1, <2>2, <2>3, <1>1, <1>2, RememberOK
  <2>5. \A n \in Queries(host, part) : <<EcoOf[host], n>> \in blank' \/ Matches(n, Own) \subseteq found \cup {}
    BY <1>1, <1>2, <1>3, <1>4, LookupAssumption DEF LookupInv, CallOK
  <2> QED
    BY <2>1, <2>4, <2>5, <1>1, <1>2, <1>t, PartAnsweredOK DEF TypeOK
<1>5. CASE Vulnerable(lost, empty) # {}
  <2>1. /\ phase' = "fetch" /\ fetching' = Vulnerable(lost, empty)
        /\ unknown' = (IF Own = {} THEN todo ELSE ownLost \cup paged)
        /\ rereading' = (IF Own = {} THEN {} ELSE paged)
        /\ UNCHANGED <<cached, cache, tracked, vague, host, part, todo, answered, failed, pages, found, result>>
        /\ ownLost \subseteq todo /\ paged \subseteq todo
    BY <1>5 DEF Batch
  <2>2. TypeOK'
    BY <2>1, <1>1, <1>2, <1>t, LookupAssumption DEF TypeOK
  <2>3. CacheComplete' /\ NotForeign'
    BY <2>1, <1>2, CacheKept
  <2>4. NothingMissed'
    BY <2>1, <1>2, MissedKept
  <2>5. CallOK'
    <3>1. Own' = Own /\ WideOwn' = WideOwn /\ Queries(host, part)' = Queries(host, part)
      BY <2>1 DEF Own, WideOwn, Queries, Asks
    <3>2. \A n \in Names : Matches(n, Own)' = Matches(n, Own) /\ Matches(n, WideOwn)' = Matches(n, WideOwn)
      BY <3>1, <1>1, <1>2, EcoType, SameOsv DEF Own, WideOwn
    <3>3. Queries(host, part) \subseteq Names /\ todo \subseteq Names
      BY <1>1, <1>t, QueriesType DEF TypeOK
    <3>4. EcoOf[host]' = EcoOf[host]
      BY <2>1
    <3>5. \A n \in Queries(host, part) \ todo : <<EcoOf[host], n>> \in blank \/ Matches(n, Own) \subseteq found
      BY <1>1, LookupAssumption DEF LookupInv, CallOK
    <3>6. part = "kernel" => Told(host, "userland", found)
      BY <1>1, LookupAssumption DEF LookupInv, CallOK
    <3>7. \A n \in Queries(host, part)' \ todo' : <<EcoOf[host], n>> \in blank' \/ Matches(n, Own)' \subseteq found'
      BY <3>1, <3>2, <3>3, <3>5, <2>1, <1>2
    <3>8. \A n \in todo' \ fetching' : <<EcoOf[host], n>> \in blank' \/ Matches(n, WideOwn)' = {}
      BY <3>1, <3>2, <3>3, <2>1, <1>3
    <3>9. part' = "kernel" => Told(host, "userland", found)'
      BY <3>6, <2>1, <1>1, <1>2, StaysTold DEF Told, Queries, Asks, Parts
    <3> QED
      BY <3>4, <3>7, <3>8, <3>9, <2>1 DEF CallOK
  <2> QED
    BY <2>2, <2>3, <2>4, <2>5 DEF LookupInv
<1> QED
  BY <1>4, <1>5

\* A step of a thread, which only moves names between the sets of the answers.
LEMMA ThreadOK ==
  ASSUME LookupInv, phase = "fetch", TypeOK',
         UNCHANGED <<osv, clientVars, host, part, phase, todo, found, result>>,
         fetching \cup answered \cup failed \subseteq (fetching \cup answered \cup failed)'
  PROVE  LookupInv'
<1>t. TypeOK
  BY DEF LookupInv
<1>1. CacheComplete' /\ NotForeign'
  BY CacheKept DEF clientVars
<1>2. NothingMissed'
  BY MissedKept DEF clientVars
<1>3. host \in Hosts /\ part \in Parts /\ todo \subseteq Names
  BY <1>t DEF TypeOK
<1>4. CallOK'
  <2>1. Own' = Own /\ WideOwn' = WideOwn /\ Queries(host, part)' = Queries(host, part)
    BY DEF Own, WideOwn, Queries, Asks
  <2>2. \A n \in Names : Matches(n, Own)' = Matches(n, Own) /\ Matches(n, WideOwn)' = Matches(n, WideOwn)
    BY <2>1, <1>3, EcoType, SameOsv DEF Own, WideOwn
  <2>3. Queries(host, part) \subseteq Names
    BY <1>3, QueriesType
  <2>4. blank' = blank /\ EcoOf[host]' = EcoOf[host]
    BY DEF clientVars
  <2>5. CallOK
    BY DEF LookupInv
  <2>6. \A n \in Queries(host, part)' \ todo' : <<EcoOf[host], n>> \in blank' \/ Matches(n, Own)' \subseteq found'
    BY <2>1, <2>2, <2>3, <2>4, <2>5, <1>3, LookupAssumption DEF CallOK
  <2>7. part' = "kernel" => Told(host, "userland", found)'
    BY <2>4, <2>5, <1>3, LookupAssumption, StaysTold DEF CallOK, Told, Queries, Asks, Parts
  <2>8. \A n \in todo' \ (fetching \cup answered \cup failed)' :
           <<EcoOf[host], n>> \in blank' \/ Matches(n, WideOwn)' = {}
    BY <2>1, <2>2, <2>4, <2>5, <1>3 DEF CallOK
  <2> QED
    BY <2>4, <2>6, <2>7, <2>8 DEF CallOK
<1> QED
  BY <1>1, <1>2, <1>4 DEF LookupInv

LEMMA FetchEndsOK ==
  ASSUME LookupInv, NEW n \in fetching, NEW to \in {"answered", "failed"}, FetchEnds(n, to)
  PROVE  LookupInv'
<1>t. TypeOK
  BY DEF LookupInv
<1>1. phase = "fetch"
  BY DEF LookupInv, CallOK
<1>2. TypeOK'
  BY <1>t DEF FetchEnds, TypeOK, clientVars
<1>3. fetching \cup answered \cup failed \subseteq (fetching \cup answered \cup failed)'
  BY DEF FetchEnds
<1> QED
  BY <1>1, <1>2, <1>3, ThreadOK DEF FetchEnds

LEMMA NextPageOK ==
  ASSUME LookupInv, NEW n \in Names, NextPage(n)
  PROVE  LookupInv'
<1>t. TypeOK
  BY DEF LookupInv
<1>1. phase = "fetch"
  BY DEF LookupInv, CallOK, NextPage
<1>2. CASE pages[n] + 1 < MaxPages /\ pages' = [pages EXCEPT ![n] = @ + 1]
           /\ UNCHANGED <<osv, clientVars, host, part, phase, todo, fetching, answered, failed, unknown, rereading, found, result>>
  <2>1. pages' \in [Names -> 0..MaxPages]
    BY <1>2, <1>t, LookupAssumption DEF TypeOK
  <2>2. TypeOK'
    BY <2>1, <1>2, <1>t DEF TypeOK, clientVars
  <2> QED
    BY <1>1, <1>2, <2>2, ThreadOK
<1>3. CASE FetchEnds(n, "failed")
  BY <1>3, FetchEndsOK DEF NextPage
<1> QED
  BY <1>2, <1>3 DEF NextPage

LEMMA RereadOK ==
  ASSUME LookupInv, NEW n \in Names, NEW ok \in BOOLEAN, Reread(n, ok)
  PROVE  LookupInv'
<1>t. TypeOK
  BY DEF LookupInv
<1>1. phase = "fetch"
  BY <1>t DEF LookupInv, CallOK, Reread, TypeOK
<1>2. TypeOK'
  BY <1>t DEF Reread, TypeOK, clientVars
<1> QED
  BY <1>1, <1>2, ThreadOK DEF Reread

\* Nothing that affects the host's own releases is dropped.
LEMMA KeptOwn ==
  ASSUME NEW n \in answered, host \in Hosts
  PROVE  Matches(n, Own) \subseteq Kept(n)
<1> SUFFICES ASSUME NEW v \in Matches(n, Own) PROVE v \in Kept(n)
  OBVIOUS
<1>1. v \in Matches(n, WideOwn)
  BY OwnIsWide DEF Own, WideOwn
<1>2. PICK r \in Own : osv[v].block[r] = "affected"
  BY DEF Matches
<1>3. r \in Releases
  BY EcoType DEF Own
<1>4. Describes(v, {r})
  BY <1>2 DEF Describes
<1>5. r \in Described
  BY <1>1, <1>3, <1>4 DEF Described, Seen
<1>6. ~Elsewhere(v)
  BY <1>2, <1>5 DEF Elsewhere, Describes
<1> QED
  BY <1>1, <1>6 DEF Kept

\* What is kept on known ids, of releases known to be described, is the host's.
LEMMA KeptSure ==
  ASSUME host \in Hosts, NEW n \in answered \ unknown, Own \subseteq tracked \cup Seen, NEW v \in Kept(n)
  PROVE  \/ v \in Matches(n, Own)
         \/ ~\E r \in Releases, o \in Own : osv[v].block[r] # "none" /\ Family[o] = Family[r]
<1> SUFFICES ASSUME v \notin Matches(n, Own)
             PROVE  ~\E r \in Releases, o \in Own : osv[v].block[r] # "none" /\ Family[o] = Family[r]
  OBVIOUS
<1>1. ~Describes(v, Own) /\ ~Elsewhere(v)
  BY DEF Kept
<1>2. Described = Own
  BY DEF Described
<1> QED
  BY <1>1, <1>2 DEF Elsewhere

LEMMA CombineOK ==
  ASSUME LookupInv, Combine
  PROVE  LookupInv'
<1>t. TypeOK
  BY DEF LookupInv
<1>1. host \in Hosts /\ part \in Parts
  BY <1>t DEF Combine, Arrived, TypeOK
<1>2. osv' = osv /\ blank' = blank /\ tracked' = tracked \cup Seen /\ tracked' \subseteq Releases
  BY <1>t DEF Combine, Seen, TypeOK
<1>3. CASE failed # {}
  BY <1>1, <1>2, <1>3, PartFailedOK DEF Combine
<1>4. CASE failed = {}
  <2> DEFINE answers == [n \in Names |-> IF n \in answered THEN Kept(n) ELSE {}]
             unsure == {n \in answered : n \in unknown \/ ~(Own \subseteq tracked')}
             new == UNION {Kept(n) : n \in answered}
  <2>1. Remember(answers, unsure) /\ PartAnswered(new)
    BY <1>4 DEF Combine
  <2>2. \A n : Kept(n) \subseteq Vulns
    BY MatchesType DEF Kept
  <2>3. answers \in [Names -> SUBSET Vulns] /\ new \in SUBSET Vulns /\ unsure \in SUBSET todo
    BY <2>2, <1>t DEF TypeOK
  <2>4. \A n \in todo : <<EcoOf[host], n>> \in blank \/ Matches(n, Own) \subseteq answers[n]
    <3> SUFFICES ASSUME NEW n \in todo, <<EcoOf[host], n>> \notin blank PROVE Matches(n, Own) \subseteq answers[n]
      OBVIOUS
    <3>1. n \in Names
      BY <1>t DEF TypeOK
    <3>2. CASE n \in answered
      BY <3>1, <3>2, <1>1, KeptOwn
    <3>3. CASE n \notin answered
      <4>1. Matches(n, WideOwn) = {}
        BY <3>3, <1>4 DEF Combine, Arrived, LookupInv, CallOK
      <4> QED
        BY <4>1, <1>1, OwnIsWide DEF Own, WideOwn
    <3> QED
      BY <3>2, <3>3
  <2>5. \A n \in todo \ unsure : \A v \in answers[n] :
            \/ v \in Matches(n, Own)
            \/ ~\E r \in Releases, o \in Own : osv[v].block[r] # "none" /\ Family[o] = Family[r]
    <3> SUFFICES ASSUME NEW n \in todo \ unsure, NEW v \in answers[n]
                 PROVE  \/ v \in Matches(n, Own)
                        \/ ~\E r \in Releases, o \in Own : osv[v].block[r] # "none" /\ Family[o] = Family[r]
      OBVIOUS
    <3>1. n \in Names
      BY <1>t DEF TypeOK
    <3>2. n \in answered \ unknown /\ v \in Kept(n) /\ Own \subseteq tracked \cup Seen
      BY <3>1, <1>2
    <3> QED
      BY <3>2, <1>1, KeptSure
  <2>6. \A n \in Queries(host, part) : <<EcoOf[host], n>> \in blank \/ Matches(n, Own) \subseteq found \cup new
    <3> SUFFICES ASSUME NEW n \in Queries(host, part), <<EcoOf[host], n>> \notin blank
                 PROVE  Matches(n, Own) \subseteq found \cup new
      OBVIOUS
    <3>1. CASE n \in todo
      <4>1. answers[n] \subseteq new
        BY <3>1, <1>t DEF TypeOK
      <4> QED
        BY <4>1, <3>1, <2>4
    <3>2. CASE n \notin todo
      BY <3>2, <1>1, LookupAssumption DEF LookupInv, CallOK
    <3> QED
      BY <3>1, <3>2
  <2> HIDE DEF answers, unsure, new
  <2>7. /\ cached' \subseteq CacheKeys /\ vague' \subseteq cached' /\ cache' \in [CacheKeys -> SUBSET Vulns]
        /\ CacheComplete' /\ NotForeign'
    BY <2>1, <2>3, <2>4, <2>5, <1>1, <1>2, RememberOK
  <2> QED
    BY <2>1, <2>3, <2>6, <2>7, <1>1, <1>2, <1>t, PartAnsweredOK DEF TypeOK
<1> QED
  BY <1>3, <1>4

\* The invariant holds in every reachable state.
THEOREM LookupInductive == LookupSpec => []LookupInv
<1>1. LookupInv /\ [LookupNext]_lookupVars => LookupInv'
  <2> SUFFICES ASSUME LookupInv, [LookupNext]_lookupVars PROVE LookupInv'
    OBVIOUS
  <2>1. CASE UNCHANGED lookupVars
    <3>1. TypeOK' /\ CallOK' /\ NothingMissed'
      BY <2>1 DEF lookupVars, clientVars, threadVars, LookupInv, TypeOK, CallOK, NothingMissed,
           Told, Queries, Asks, Matches, Own, WideOwn
    <3> QED
      BY <3>1, <2>1, CacheKept DEF LookupInv, lookupVars, clientVars
  <2> QED
    BY <2>1, MatchOK, AllCachedOK, BatchOK, NextPageOK, FetchEndsOK, RereadOK, CombineOK DEF LookupNext, Fetched
<1> QED
  BY <1>1, InitOK, PTL DEF LookupSpec

\* No host is told that it is clean of what could not be asked, or of what was
\* asked and is there, whatever OSV pages: but for the names whose answer began
\* with an empty page.
THEOREM NothingIsMissed == LookupSpec => []NothingMissed
<1>1. LookupInv => NothingMissed
  BY DEF LookupInv
<1> QED
  BY <1>1, LookupInductive, PTL

\* Nothing of another release is reported of one that OSV describes.
THEOREM NothingForeign == LookupSpec => []NotForeign
<1>1. LookupInv => NotForeign
  BY DEF LookupInv
<1> QED
  BY <1>1, LookupInductive, PTL

-----------------------------------------------------------------------------
(* Reading machines, and the keys of their connections.                    *)

USE KeysAssumption DEF Conns

\* A connection that goes through on a key and a count that agree with what was
\* trusted leaves the trust as it was, or adds the first of its kind.
LEMMA TrustGrows ==
  ASSUME KeyTypeOK, OneKeyPerPin,
         NEW a \in Addresses, NEW n \in Nat, NEW k \in Keys,
         trusted' = trusted \cup {<<a, n, k>>},
         \A t \in trusted : t[1] = a /\ t[2] = n => t[3] = k
  PROVE  OneKeyPerPin'
BY DEF KeyTypeOK, OneKeyPerPin

LEMMA InitKeys == KeyInit => KeyInv
<1> SUFFICES ASSUME KeyInit PROVE KeyInv
  OBVIOUS
<1>1. KeyTypeOK
  BY DEF KeyInit, KeyTypeOK, Places, Connection
<1>2. OneKeyPerPin /\ PinnedIsTrusted /\ TrustIsOfPins
  BY DEF KeyInit, OneKeyPerPin, PinnedIsTrusted, TrustIsOfPins
<1>3. \A c \in Conns : Presents(c) /\ ReadIsTrusted(c)
  BY DEF KeyInit, Presents, ReadIsTrusted
<1> QED
  BY <1>1, <1>2, <1>3 DEF KeyInv

\* The steps by which a connection only moves on: its own place and record.
Moves(c) ==
  /\ \E place \in Places : Goes(c, place)
  /\ UNCHANGED <<policy, pins, forgets, trusted>>

LEMMA MoveKeeps ==
  ASSUME KeyInv, NEW c \in Conns, Moves(c),
         conn' \in [Conns -> Connection],
         \A d \in Conns : d # c => conn'[d] = conn[d],
         \/ writer' = writer
         \/ writer = c /\ writer' = Nobody
         \/ writer = Nobody /\ writer' = c /\ c \in Tests,
         Presents(c)', ReadIsTrusted(c)'
  PROVE  KeyInv'
<1> USE DEF KeyInv, Moves, Goes
<1>1. KeyTypeOK'
  BY DEF KeyTypeOK
<1>2. OneKeyPerPin' /\ PinnedIsTrusted' /\ TrustIsOfPins'
  BY DEF OneKeyPerPin, PinnedIsTrusted, TrustIsOfPins
<1>3. ASSUME NEW d \in Conns, d # c PROVE Presents(d)' /\ ReadIsTrusted(d)'
  <2>1. at'[d] = at[d] /\ conn'[d] = conn[d]
    BY <1>3 DEF KeyTypeOK
  <2>2. writer' = d <=> writer = d
    BY <1>3
  <2> QED
    BY <2>1, <2>2 DEF Presents, ReadIsTrusted
<1> QED
  BY <1>1, <1>2, <1>3

LEMMA StartKeeps ==
  ASSUME KeyInv, NEW c \in Conns, Starts(c)
  PROVE  KeyInv'
<1> USE DEF Goes
<1>1. CASE BadMaterial(c)
  <2>1. Moves(c)
    BY <1>1 DEF BadMaterial, Moves, Places, Outcomes
  <2>2. Presents(c)' /\ ReadIsTrusted(c)'
    BY <1>1 DEF BadMaterial, Presents, ReadIsTrusted, KeyInv, KeyTypeOK
  <2> QED
    BY <1>1, <2>1, <2>2, MoveKeeps DEF BadMaterial, KeyInv, KeyTypeOK
<1>2. ASSUME NEW a \in Addresses, Dial(c, a) PROVE KeyInv'
  <2>1. Moves(c)
    BY <1>2 DEF Dial, Moves, Places
  <2>2. conn' \in [Conns -> Connection]
    BY <1>2 DEF Dial, KeyInv, KeyTypeOK, Connection
  <2>3. Presents(c)' /\ ReadIsTrusted(c)'
    <3>1. at'[c] = "dialling" /\ writer' # c
      BY <1>2 DEF Dial, Presents, KeyInv, KeyTypeOK
    <3>2. conn'[c] = [addr |-> a, pinned |-> pins[a], key |-> NoKey, since |-> forgets[a]]
      BY <1>2 DEF Dial, KeyInv, KeyTypeOK
    <3>3. pins[a] # NoKey => <<a, forgets[a], pins[a]>> \in trusted
      BY DEF KeyInv, PinnedIsTrusted
    <3> QED
      BY <1>2, <3>1, <3>2, <3>3 DEF Dial, Presents, ReadIsTrusted, KeyInv, KeyTypeOK
  <2> QED
    BY <1>2, <2>1, <2>2, <2>3, MoveKeeps DEF Dial, KeyInv, KeyTypeOK
<1> QED
  BY <1>1, <1>2 DEF Starts

LEMMA HandshakeKeeps ==
  ASSUME KeyInv, NEW c \in Conns, NEW k \in Keys, Handshake(c, k)
  PROVE  KeyInv'
<1> USE DEF Handshake, Goes
<1>1. MayRefuse(c, k) \subseteq Outcomes
  BY DEF MayRefuse, Outcomes, Refusals
<1>2. \E o \in Outcomes \cup {"proved"} : Goes(c, o)
  BY <1>1 DEF Outcomes
<1>3. conn' \in [Conns -> Connection]
  BY DEF KeyInv, KeyTypeOK, Connection
<1>4. Moves(c)
  BY <1>2 DEF Moves, Places
<1>5. at'[c] \in Outcomes \cup {"proved"}
  BY <1>2 DEF KeyInv, KeyTypeOK
<1>6. at'[c] = "proved" => conn[c].pinned \in {NoKey, k}
  <2>1. CASE MayRefuse(c, k) = {}
    BY <2>1 DEF MayRefuse
  <2>2. CASE MayRefuse(c, k) # {}
    BY <2>2, <1>1 DEF Outcomes, Refusals, KeyInv, KeyTypeOK
  <2> QED
    BY <2>1, <2>2
<1>7. conn'[c] = [conn[c] EXCEPT !.key = k]
  BY DEF KeyInv, KeyTypeOK
<1>8. conn'[c].key = k /\ conn'[c].pinned = conn[c].pinned /\ conn'[c].addr = conn[c].addr
      /\ conn'[c].since = conn[c].since
  BY <1>7 DEF KeyInv, KeyTypeOK, Connection
<1>9. Presents(c)' /\ ReadIsTrusted(c)'
  BY <1>5, <1>6, <1>8 DEF Presents, ReadIsTrusted, KeyInv, KeyTypeOK, Outcomes, Refusals
<1> QED
  BY <1>3, <1>4, <1>9, MoveKeeps DEF KeyInv, KeyTypeOK

\* A connection goes through on a key that agrees with what is pinned and
\* trusted once it has.
LEMMA ThroughKeeps ==
  ASSUME KeyInv, NEW c \in Conns, NEW n \in Nat,
         GoesThrough(c, n), UNCHANGED <<policy, forgets>>,
         conn[c].key \in Keys,
         at[c] # "idle",
         n <= forgets[conn[c].addr],
         \A t \in trusted : t[1] = conn[c].addr /\ t[2] = n => t[3] = conn[c].key,
         conn[c].pinned # NoKey => n = conn[c].since /\ conn[c].pinned = conn[c].key,
         \/ pins' = pins /\ (n = forgets[conn[c].addr] => pins[conn[c].addr] = conn[c].key)
         \/ /\ pins[conn[c].addr] = NoKey
            /\ n = forgets[conn[c].addr]
            /\ pins' = [pins EXCEPT ![conn[c].addr] = conn[c].key],
         \/ writer' = writer /\ writer # c /\ (pins' = pins \/ writer = Nobody)
         \/ writer = c /\ writer' = Nobody
  PROVE  KeyInv'
<1> DEFINE a == conn[c].addr
           k == conn[c].key
<1> USE DEF KeyInv
<1>1. a \in Addresses /\ conn[c] \in Connection
  BY DEF KeyTypeOK, Connection
<1>2. trusted' = trusted \cup {<<a, n, k>>} /\ at' = [at EXCEPT ![c] = "connected"]
      /\ conn' = [conn EXCEPT ![c].since = n]
  BY DEF GoesThrough, Goes
<1>3. KeyTypeOK'
  BY <1>1, <1>2 DEF KeyTypeOK, Connection, Places
<1>4. OneKeyPerPin'
  BY <1>1, <1>2, TrustGrows
<1>5. PinnedIsTrusted'
  BY <1>1, <1>2 DEF PinnedIsTrusted, KeyTypeOK
<1>6. TrustIsOfPins'
  <2> SUFFICES ASSUME NEW t \in trusted'
               PROVE  t[2] <= forgets'[t[1]] /\ (t[2] = forgets'[t[1]] => pins'[t[1]] = t[3])
    BY DEF TrustIsOfPins
  <2>1. CASE t \in trusted
    BY <2>1, <1>1, <1>2 DEF TrustIsOfPins, KeyTypeOK
  <2>2. CASE t = <<a, n, k>>
    BY <2>2, <1>1, <1>2 DEF KeyTypeOK
  <2> QED
    BY <2>1, <2>2, <1>2
<1>7. ASSUME NEW d \in Conns PROVE Presents(d)' /\ ReadIsTrusted(d)'
  <2>1. CASE d # c
    <3>1. at'[d] = at[d] /\ conn'[d] = conn[d]
      BY <2>1, <1>2 DEF KeyTypeOK
    <3>2. writer' = d <=> writer = d
      BY <2>1
    <3>3. at[d] = "flushed" => pins' = pins
      BY <2>1 DEF Presents
    <3> QED
      BY <3>1, <3>2, <3>3, <1>2 DEF Presents, ReadIsTrusted
  <2>2. CASE d = c
    <3>1. at'[c] = "connected" /\ conn'[c] = [conn[c] EXCEPT !.since = n]
      BY <1>2 DEF KeyTypeOK
    <3>2. conn'[c].since = n /\ conn'[c].key = k /\ conn'[c].pinned = conn[c].pinned
          /\ conn'[c].addr = a
      BY <3>1, <1>1 DEF Connection
    <3> QED
      BY <2>2, <3>1, <3>2, <1>2 DEF Presents, ReadIsTrusted
  <2> QED
    BY <2>1, <2>2
<1> QED
  BY <1>3, <1>4, <1>5, <1>6, <1>7

LEMMA TouchKeeps ==
  ASSUME KeyInv, NEW c \in Conns, Touch(c)
  PROVE  KeyInv'
<1> DEFINE a == conn[c].addr
<1>1. conn[c] \in Connection /\ Presents(c) /\ ReadIsTrusted(c)
  BY DEF KeyInv, KeyTypeOK
<1>2. /\ conn[c].key = conn[c].pinned /\ conn[c].key \in Keys /\ a \in Addresses
      /\ conn[c].since \in Nat /\ conn[c].since <= forgets[a]
      /\ <<a, conn[c].since, conn[c].key>> \in trusted
      /\ writer # c
  BY <1>1 DEF Touch, Presents, ReadIsTrusted, Connection
<1>3. \A t \in trusted : t[1] = a /\ t[2] = conn[c].since => t[3] = conn[c].key
  BY <1>2 DEF KeyInv, OneKeyPerPin
<1>4. conn[c].since = forgets[a] => pins[a] = conn[c].key
  BY <1>2 DEF KeyInv, TrustIsOfPins
<1> QED
  BY <1>2, <1>3, <1>4, ThroughKeeps DEF Touch

\* With no pin, nothing was trusted since the last forgetting.
LEMMA NoPinNoTrust ==
  ASSUME KeyInv, NEW a \in Addresses, pins[a] = NoKey
  PROVE  \A t \in trusted : t[1] = a => t[2] # forgets[a]
BY DEF KeyInv, KeyTypeOK, TrustIsOfPins

LEMMA PinKeeps ==
  ASSUME KeyInv, NEW c \in Conns, Pin(c)
  PROVE  KeyInv'
<1> DEFINE a == conn[c].addr
<1>1. /\ conn[c] \in Connection /\ a \in Addresses /\ conn[c].key \in Keys
      /\ forgets[a] \in Nat /\ writer = Nobody /\ c # Nobody /\ conn[c].pinned = NoKey
  BY DEF Pin, KeyInv, KeyTypeOK, Presents, Connection
<1>2. CASE pins[a] # NoKey /\ Goes(c, "lost") /\ UNCHANGED <<pins, conn, writer, trusted>>
  <2>1. Moves(c)
    BY <1>2 DEF Pin, Moves, Places
  <2>2. at'[c] = "lost"
    BY <1>2 DEF Goes, KeyInv, KeyTypeOK
  <2>3. Presents(c)' /\ ReadIsTrusted(c)'
    BY <1>1, <1>2, <2>2 DEF Pin, Presents, ReadIsTrusted, KeyInv
  <2> QED
    BY <1>1, <1>2, <2>1, <2>3, MoveKeeps DEF KeyInv, KeyTypeOK
<1>3. CASE pins[a] = NoKey /\ c \in Scans
  BY <1>1, <1>3, NoPinNoTrust, ThroughKeeps DEF Pin
<1>4. CASE pins[a] = NoKey /\ c \in Tests
  <2>0. Goes(c, "flushed") /\ writer' = c /\ UNCHANGED <<policy, forgets, pins, conn, trusted>>
    BY <1>4 DEF Pin
  <2>1. Moves(c)
    BY <2>0 DEF Moves, Places
  <2>2. at'[c] = "flushed"
    BY <2>0 DEF Goes, KeyInv, KeyTypeOK
  <2>3. Presents(c)' /\ ReadIsTrusted(c)'
    BY <1>1, <1>4, <2>0, <2>2 DEF Presents, ReadIsTrusted, KeyInv
  <2> QED
    BY <1>1, <1>4, <2>0, <2>1, <2>3, MoveKeeps DEF KeyInv, KeyTypeOK
<1> QED
  BY <1>2, <1>3, <1>4 DEF Pin

LEMMA CommitPinKeeps ==
  ASSUME KeyInv, NEW c \in Conns, CommitPin(c)
  PROVE  KeyInv'
<1> DEFINE a == conn[c].addr
<1>1. /\ conn[c] \in Connection /\ a \in Addresses /\ conn[c].key \in Keys
      /\ forgets[a] \in Nat /\ writer = c /\ conn[c].pinned = NoKey /\ pins[a] = NoKey
  BY DEF CommitPin, KeyInv, KeyTypeOK, Presents, Connection
<1>2. \A t \in trusted : t[1] = a /\ t[2] = forgets[a] => t[3] = conn[c].key
  BY <1>1, NoPinNoTrust
<1>3. /\ at[c] = "flushed" /\ forgets[a] <= forgets[a] /\ writer' = Nobody
      /\ pins' = [pins EXCEPT ![a] = conn[c].key] /\ UNCHANGED <<policy, forgets>>
      /\ GoesThrough(c, forgets[a])
  BY <1>1 DEF CommitPin
<1> QED
  BY <1>1, <1>2, <1>3, ThroughKeeps

LEMMA CompareKeeps ==
  ASSUME KeyInv, NEW c \in Conns, Compare(c)
  PROVE  KeyInv'
<1> DEFINE a == conn[c].addr
<1>1. /\ conn[c] \in Connection /\ a \in Addresses /\ conn[c].key \in Keys
      /\ forgets[a] \in Nat /\ writer # c /\ conn[c].pinned = NoKey
  BY DEF Compare, KeyInv, KeyTypeOK, Presents, Connection
<1>2. CASE pins[a] = conn[c].key
  <2>1. \A t \in trusted : t[1] = a /\ t[2] = forgets[a] => t[3] = conn[c].key
    BY <1>2 DEF KeyInv, TrustIsOfPins
  <2>2. GoesThrough(c, forgets[a])
    BY <1>1, <1>2 DEF Compare
  <2> QED
    BY <1>1, <1>2, <2>1, <2>2, ThroughKeeps DEF Compare
<1>3. CASE pins[a] # conn[c].key
  <2>1. PICK o \in {"HOST_KEY_MISMATCH", "ERROR"} : Goes(c, o)
    BY <1>3 DEF Compare
  <2>2. Moves(c) /\ UNCHANGED <<conn, writer>>
    BY <1>3, <2>1 DEF Compare, Moves, Places, Outcomes, Refusals
  <2>3. at'[c] = o
    BY <2>1 DEF Goes, KeyInv, KeyTypeOK
  <2>4. Presents(c)' /\ ReadIsTrusted(c)'
    BY <1>1, <2>2, <2>3 DEF Presents, ReadIsTrusted, KeyInv, Moves
  <2> QED
    BY <2>2, <2>4, MoveKeeps DEF KeyInv, KeyTypeOK
<1> QED
  BY <1>2, <1>3

LEMMA EndKeeps ==
  ASSUME KeyInv, NEW c \in Conns, Unreachable(c) \/ WriteRefused(c)
  PROVE  KeyInv'
<1>1. PICK o \in {"CONNECTION_FAILURE", "ERROR"} : Goes(c, o)
  BY DEF Unreachable, WriteRefused
<1>2. Moves(c) /\ conn' = conn
  BY <1>1 DEF Unreachable, WriteRefused, Moves, Places, Outcomes
<1>3. at'[c] = o
  BY <1>1 DEF Goes, KeyInv, KeyTypeOK
<1>4. writer' # c /\ (writer' = writer \/ (writer = c /\ writer' = Nobody))
  <2>0. Presents(c) /\ c # Nobody
    BY DEF KeyInv
  <2>1. CASE Unreachable(c)
    <3>1. writer' = writer /\ at[c] = "dialling"
      BY <2>1 DEF Unreachable
    <3> QED
      BY <3>1, <2>0 DEF Presents
  <2>2. CASE WriteRefused(c)
    <3>1. writer' = IF writer = c THEN Nobody ELSE writer
      BY <2>2 DEF WriteRefused
    <3> QED
      BY <3>1, <2>0
  <2> QED
    BY <2>1, <2>2
<1>5. Presents(c)' /\ ReadIsTrusted(c)'
  BY <1>2, <1>3, <1>4 DEF Presents, ReadIsTrusted, KeyInv, Moves
<1> QED
  BY <1>2, <1>4, <1>5, MoveKeeps DEF KeyInv, KeyTypeOK

LEMMA LeaveKeeps ==
  ASSUME KeyInv, NEW c \in Conns, Leave(c)
  PROVE  KeyInv'
<1>1. at'[c] = "idle" /\ writer # c /\ Moves(c)
  BY DEF Leave, Goes, Moves, Places, Outcomes, Refusals, KeyInv, KeyTypeOK, Presents
<1>2. conn[c] \in Connection
  BY DEF KeyInv, KeyTypeOK
<1>3. conn' = [conn EXCEPT ![c] = [addr |-> conn[c].addr, pinned |-> NoKey, key |-> NoKey, since |-> 0]]
  BY DEF Leave
<1>4. conn' \in [Conns -> Connection]
  BY <1>2, <1>3 DEF KeyInv, KeyTypeOK, Connection
<1>5. Presents(c)' /\ ReadIsTrusted(c)'
  BY <1>1, <1>2, <1>3 DEF Leave, Presents, ReadIsTrusted, KeyInv, KeyTypeOK, Connection
<1> QED
  BY <1>1, <1>3, <1>4, <1>5, MoveKeeps DEF Leave, KeyInv, KeyTypeOK

LEMMA ForgetKeeps ==
  ASSUME KeyInv, NEW a \in Addresses, Forget(a)
  PROVE  KeyInv'
<1> USE DEF KeyInv, Forget
<1>1. KeyTypeOK'
  BY DEF KeyTypeOK
<1>2. OneKeyPerPin'
  BY DEF OneKeyPerPin
<1>3. PinnedIsTrusted'
  BY DEF PinnedIsTrusted, KeyTypeOK
<1>4. TrustIsOfPins'
  BY DEF TrustIsOfPins, KeyTypeOK
<1>5. \A c \in Conns : Presents(c)' /\ ReadIsTrusted(c)'
  <2> SUFFICES ASSUME NEW c \in Conns PROVE Presents(c)' /\ ReadIsTrusted(c)'
    OBVIOUS
  <2>1. conn[c] \in Connection /\ Presents(c) /\ ReadIsTrusted(c) /\ conn' = conn /\ at' = at
    BY DEF KeyTypeOK
  <2>2. at[c] # "flushed"
    BY <2>1 DEF Presents
  <2> QED
    BY <2>1, <2>2 DEF Presents, ReadIsTrusted, KeyTypeOK, Connection
<1> QED
  BY <1>1, <1>2, <1>3, <1>4, <1>5

LEMMA KeyStep == KeyInv /\ [KeyNext]_keyVars => KeyInv'
<1> SUFFICES ASSUME KeyInv, [KeyNext]_keyVars PROVE KeyInv'
  OBVIOUS
<1>1. ASSUME NEW c \in Conns, Starts(c) \/ Connecting(c) \/ Leave(c) PROVE KeyInv'
  BY <1>1, StartKeeps, HandshakeKeeps, TouchKeeps, PinKeeps, CommitPinKeeps, CompareKeeps,
     EndKeeps, LeaveKeeps DEF Connecting
<1>2. ASSUME NEW a \in Addresses, Forget(a) PROVE KeyInv'
  BY <1>2, ForgetKeeps
<1>3. CASE UNCHANGED keyVars
  BY <1>3 DEF keyVars, KeyInv, KeyTypeOK, OneKeyPerPin, PinnedIsTrusted, TrustIsOfPins,
     Presents, ReadIsTrusted
<1> QED
  BY <1>1, <1>2, <1>3 DEF KeyNext

\* Everything the store and its connections keep, for any number of them.
THEOREM KeysInductive == KeySpec => []KeyInv
BY InitKeys, KeyStep, PTL DEF KeySpec

\* Between two forgettings of an address every connection to it that went
\* through saw one key.
THEOREM OneKey == KeySpec => [](OneKeyPerPin /\ PinnedIsTrusted)
<1>1. KeyInv => OneKeyPerPin /\ PinnedIsTrusted
  BY DEF KeyInv
<1> QED
  BY <1>1, KeysInductive, PTL

-----------------------------------------------------------------------------
(* Reading *)

\* Every step of a reading is a step of the pinning or leaves it alone.
LEMMA ReadingStep == [Next]_vars => [KeyNext]_keyVars
<1> SUFFICES ASSUME [Next]_vars PROVE [KeyNext]_keyVars
  OBVIOUS
<1>1. ASSUME NEW c \in Conns, (Starts(c) \/ Connecting(c)) /\ UNCHANGED readVars
      PROVE  KeyNext
  BY <1>1 DEF KeyNext
<1>2. ASSUME NEW c \in Conns, Watchdog(c) \/ Reading(c)
      PROVE  UNCHANGED keyVars
  BY <1>2 DEF Watchdog, Reading, Exec, OutputEnds, TooMuch, ReadRaises, Finish, Parse, Fails, CommandOver
<1>3. ASSUME NEW c \in Conns, Closing(c)
      PROVE  KeyNext
  BY <1>3 DEF Closing, KeyNext
<1>4. ASSUME NEW a \in Addresses, Forget(a) /\ UNCHANGED readVars
      PROVE  KeyNext
  BY <1>4 DEF KeyNext
<1>5. CASE UNCHANGED vars
  BY <1>5 DEF vars, keyVars
<1> QED
  BY <1>1, <1>2, <1>3, <1>4, <1>5 DEF Next

\* The reading of machines implements the pinning of keys.
THEOREM ReadingPins == Spec => KeySpec
<1>1. Init => KeyInit
  BY DEF Init
<1> QED
  BY <1>1, ReadingStep, PTL DEF Spec, KeySpec

THEOREM ReadingKeepsKeys == Spec => []KeyInv
BY ReadingPins, KeysInductive, PTL

\* What a command's output came to is only what its watchdog did to it.
CutInv ==
  /\ watchdog \in [Conns -> 0..2]
  /\ stream \in [Conns -> Ends \cup {"open"}]
  /\ got \in [Conns -> SUBSET Ends]
  /\ \A c \in Conns :
       /\ stream[c] = "watchdog" => watchdog[c] = 2
       /\ "watchdog" \notin got[c]

LEMMA StepsOfTheWatchdog ==
  ASSUME CutInv, NEW c \in Conns
  PROVE  /\ Has(c, "expire") <=> watchdog[c] >= 1
         /\ Has(c, "close") <=> watchdog[c] = 2
<1>1. watchdog[c] \in 0..2 /\ WatchdogSteps[1] = "expire" /\ WatchdogSteps[2] = "close"
  BY DEF CutInv, WatchdogSteps
<1>2. CASE watchdog[c] = 0
  BY <1>1, <1>2 DEF Has
<1>3. CASE watchdog[c] = 1
  BY <1>1, <1>3 DEF Has
<1>4. CASE watchdog[c] = 2
  BY <1>1, <1>4 DEF Has
<1> QED
  BY <1>1, <1>2, <1>3, <1>4

LEMMA CutStep == CutInv /\ [Next]_vars => CutInv'
<1> SUFFICES ASSUME CutInv, [Next]_vars PROVE CutInv'
  OBVIOUS
<1> USE DEF CutInv
<1>1. ASSUME NEW c \in Conns, Watchdog(c) PROVE CutInv'
  <2>1. Len(WatchdogSteps) = 2
    BY DEF WatchdogSteps
  <2>2. watchdog[c] \in 0..1 /\ watchdog' = [watchdog EXCEPT ![c] = @ + 1] /\ UNCHANGED <<stream, got>>
    BY <1>1, <2>1 DEF Watchdog
  <2>3. watchdog' \in [Conns -> 0..2]
    BY <2>2
  <2>4. ASSUME NEW d \in Conns PROVE stream'[d] = "watchdog" => watchdog'[d] = 2
    BY <2>2
  <2> QED
    BY <2>2, <2>3, <2>4
<1>2. ASSUME NEW c \in Conns, CommandOver(c), got' = got PROVE CutInv'
  <2>1. watchdog' = [watchdog EXCEPT ![c] = 0] /\ stream' = [stream EXCEPT ![c] = "open"]
    BY <1>2 DEF CommandOver
  <2>2. watchdog' \in [Conns -> 0..2] /\ stream' \in [Conns -> Ends \cup {"open"}]
    BY <2>1
  <2>3. ASSUME NEW d \in Conns PROVE stream'[d] = "watchdog" => watchdog'[d] = 2
    BY <2>1
  <2> QED
    BY <1>2, <2>2, <2>3
<1>3. ASSUME NEW c \in Conns, NEW what \in Commands, Exec(c, what) PROVE CutInv'
  BY <1>3 DEF Exec
<1>4. ASSUME NEW c \in Conns, NEW how \in Ends, OutputEnds(c, how) PROVE CutInv'
  BY <1>4, StepsOfTheWatchdog DEF OutputEnds
<1>5. ASSUME NEW c \in Conns, Finish(c) PROVE CutInv'
  <2>1. CASE Has(c, "expire")
    BY <1>2, <1>5, <2>1 DEF Finish, Fails
  <2>2. CASE ~Has(c, "expire")
    <3>1. CommandOver(c) /\ got' = [got EXCEPT ![c] = @ \cup {stream[c]}] /\ stream[c] # "open"
      BY <1>5, <2>2 DEF Finish
    <3>2. stream[c] \in Ends /\ stream[c] # "watchdog"
      <4>1. watchdog[c] # 2
        BY <2>2, StepsOfTheWatchdog
      <4> QED
        BY <3>1, <4>1
    <3>3. watchdog' = [watchdog EXCEPT ![c] = 0] /\ stream' = [stream EXCEPT ![c] = "open"]
      BY <3>1 DEF CommandOver
    <3>4. /\ watchdog' \in [Conns -> 0..2] /\ stream' \in [Conns -> Ends \cup {"open"}]
          /\ got' \in [Conns -> SUBSET Ends]
      BY <3>1, <3>2, <3>3
    <3>5. ASSUME NEW d \in Conns
          PROVE  /\ stream'[d] = "watchdog" => watchdog'[d] = 2
                 /\ "watchdog" \notin got'[d]
      BY <3>1, <3>2, <3>3
    <3> QED
      BY <3>4, <3>5
  <2> QED
    BY <2>1, <2>2
<1>6. ASSUME NEW c \in Conns, TooMuch(c) \/ ReadRaises(c) PROVE CutInv'
  BY <1>2, <1>6 DEF TooMuch, ReadRaises, Fails
<1>7. ASSUME NEW c \in Conns,
             (\E l \in {"packages", "unsupported", "nothing"} : Parse(c, l)) \/ Closing(c)
      PROVE  CutInv'
  BY <1>7 DEF Parse, Closing
<1>8. CASE UNCHANGED readVars
  BY <1>8 DEF readVars
<1>9. CASE UNCHANGED vars
  BY <1>9 DEF vars
<1> QED
  BY <1>1, <1>3, <1>4, <1>5, <1>6, <1>7, <1>8, <1>9 DEF Next, Reading

\* No inventory is read off an output that the deadline cut short.
THEOREM InventoryNotCut == Spec => []NeverCutShort
<1>1. Init => CutInv
  BY DEF Init, CutInv, Ends
<1>2. CutInv => NeverCutShort
  BY DEF CutInv, NeverCutShort
<1> QED
  BY <1>1, <1>2, CutStep, PTL DEF Spec
=============================================================================
