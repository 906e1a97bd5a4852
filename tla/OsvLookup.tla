----------------------------- MODULE OsvLookup ------------------------------
(***************************************************************************)
(* Matching a machine's packages against OSV (scanner/osv_client.py, under *)
(* scanner/matcher.py), for the machines of one scan job, which share a    *)
(* client, its cache and what it has learnt about OSV.  A lookup asks for  *)
(* ids in batches, then for the advisories in full on a pool of threads    *)
(* while the ids of a release are re-read on another, and only then        *)
(* decides which advisories are the host's.  Any request may fail, and any *)
(* answer may come in pages.                                               *)
(*                                                                         *)
(* OSV is honest and does not change under a job.  What it says of the     *)
(* version a package is installed at is abstracted to one block per        *)
(* release.                                                                *)
(***************************************************************************)
EXTENDS Integers

CONSTANTS
  Hosts, Ecos, Releases, Packages, Names, Vulns, Families,
  EcoOf,         \* EcoOf[h]: the ecosystem of a host's packages
  Installed,     \* Installed[h]: its packages
  NamesOf,       \* NamesOf[p]: what OSV is asked about for p: its source and itself
  Kernel,        \* the packages that are the kernel
  KernelMatched, \* the ecosystems whose kernel is looked up in OSV
  ReleasesOf,    \* ReleasesOf[e]: the releases whose advisories apply to a host
  Wide,          \* Wide[e]: the releases its distribution-wide queries cover
  Family,        \* Family[r]: the distribution a release belongs to
  MaxPages,      \* _MAX_OSV_PAGES
  Databases,     \* what OSV may have to say: a bound of the model
  NoHost

\* What OSV says of an advisory in a release: nothing, that the version a
\* package is installed at is affected, or that it is not.
Blocks == {"none", "affected", "fixed"}
Record == [name : Names, block : [Releases -> Blocks]]

ASSUME LookupAssumption ==
  /\ Databases \subseteq [Vulns -> Record]
  /\ EcoOf \in [Hosts -> Ecos] /\ Installed \in [Hosts -> SUBSET Packages]
  /\ NamesOf \in [Packages -> SUBSET Names]
  /\ Family \in [Releases -> Families]
  /\ ReleasesOf \in [Ecos -> SUBSET Releases] /\ Wide \in [Ecos -> SUBSET Releases]
  /\ \A e \in Ecos : ReleasesOf[e] \subseteq Wide[e]
  /\ MaxPages \in Nat \ {0}
  /\ NoHost \notin Hosts

VARIABLES
  osv,       \* osv[v]: the name an advisory is filed under, and its blocks
  cached,    \* cached: the <<ecosystem, name>> that need not be asked again
  cache,     \* cache[e, n]: the advisories remembered for them
  tracked,   \* releases OSV was seen to describe
  host, part,\* the host being matched, userland first and then its kernel
  phase,     \* what the lookup of a part is doing
  todo,      \* names that have to be asked
  fetching, answered, failed,  \* of these, the full answers
  pages,     \* pages[n]: pages read of n's answer
  unknown,   \* names whose ids in the host's release are unknown
  rereading, \* names whose ids in the host's release are still being re-read
  found,     \* advisories of the parts already answered, and of the cache
  result,    \* result[h]: what the matcher was told
  vague,     \* cached keys filtered without all ids, or by an unseen release (history)
  blank      \* keys whose first page was a token and no advisory (history)

clientVars == <<cached, cache, tracked, vague, blank>>
threadVars == <<fetching, answered, failed, pages, unknown, rereading>>
lookupVars == <<osv, clientVars, host, part, phase, todo, threadVars, found, result>>

Parts == {"userland", "kernel"}
CacheKeys == Ecos \X Names
Unasked == [status |-> "NONE", parts |-> {}, vulns |-> {}]

-----------------------------------------------------------------------------
(* What OSV says, and what the client asks *)

\* The advisories OSV matches for a name at its installed version.
Matches(n, rs) == {v \in Vulns : osv[v].name = n /\ \E r \in rs : osv[v].block[r] = "affected"}
Describes(v, rs) == \E r \in rs : osv[v].block[r] # "none"

Own == ReleasesOf[EcoOf[host]]
WideOwn == Wide[EcoOf[host]]

\* match_packages: the kernel is asked apart, and not everywhere.
Asks(h, p) ==
  IF p = "userland" THEN Installed[h] \ Kernel
  ELSE IF EcoOf[h] \in KernelMatched THEN Installed[h] \cap Kernel ELSE {}

\* _match_by_source: under the source's name and the binary's.
Queries(h, p) == UNION {NamesOf[b] : b \in Asks(h, p)}
FromCache(h, p) == UNION {cache[<<EcoOf[h], n>>] : n \in {m \in Queries(h, p) : <<EcoOf[h], m>> \in cached}}
Uncached(h, p) == {n \in Queries(h, p) : <<EcoOf[h], n>> \notin cached}

-----------------------------------------------------------------------------
LookupInit ==
  /\ osv \in Databases
  /\ cached = {} /\ cache = [k \in CacheKeys |-> {}]
  /\ tracked = {} /\ vague = {} /\ blank = {}
  /\ host = NoHost /\ part = "userland" /\ phase = "idle"
  /\ todo = {} /\ fetching = {} /\ answered = {} /\ failed = {}
  /\ pages = [n \in Names |-> 0]
  /\ unknown = {} /\ rereading = {}
  /\ found = {}
  /\ result = [h \in Hosts |-> Unasked]

\* The engine's next host.
Match(h) ==
  /\ phase = "idle" /\ result[h] = Unasked
  /\ host' = h /\ part' = "userland" /\ phase' = "batch"
  /\ todo' = Uncached(h, "userland")
  /\ found' = FromCache(h, "userland")
  /\ UNCHANGED <<osv, clientVars, threadVars, result>>

NothingInFlight ==
  /\ fetching' = {} /\ answered' = {} /\ failed' = {} /\ unknown' = {} /\ rereading' = {}
  /\ pages' = [n \in Names |-> 0]

\* The matcher is answered: with a status, and the advisories it keeps.
Answer(status, parts, vulns) ==
  /\ result' = [result EXCEPT ![host] = [status |-> status, parts |-> parts, vulns |-> vulns]]
  /\ host' = NoHost /\ part' = "userland" /\ phase' = "idle"
  /\ todo' = {} /\ found' = {}

\* A part is answered in full.  Userland is followed by the kernel.
PartAnswered(new) ==
  /\ NothingInFlight
  /\ IF part = "userland" /\ Asks(host, "kernel") # {}
     THEN /\ part' = "kernel" /\ phase' = "batch"
          /\ todo' = {n \in Queries(host, "kernel") : <<EcoOf[host], n>> \notin cached'}
          /\ found' = found \cup new \cup
               UNION {cache'[<<EcoOf[host], n>>] : n \in {m \in Queries(host, "kernel") : <<EcoOf[host], m>> \in cached'}}
          /\ UNCHANGED <<host, result>>
     ELSE Answer("OK", {"userland", part}, found \cup new)

\* OsvUnavailableError; a kernel that fails keeps the userland findings.
PartFailed ==
  /\ NothingInFlight
  /\ IF part = "kernel"
     THEN Answer("DATA_SOURCE_UNAVAILABLE", {"userland"}, found)
     ELSE Answer("DATA_SOURCE_UNAVAILABLE", {}, {})

\* Nothing was asked, or all of it is cached.
AllCached ==
  /\ phase = "batch" /\ todo = {}
  /\ UNCHANGED <<osv, clientVars>>
  /\ PartAnswered({})

Remember(answers, unsure) ==
  /\ cached' = cached \cup {<<EcoOf[host], n>> : n \in todo}
  /\ cache' = [k \in CacheKeys |-> IF k[1] = EcoOf[host] /\ k[2] \in todo THEN answers[k[2]] ELSE cache[k]]
  /\ vague' = vague \cup {<<EcoOf[host], n>> : n \in unsure}

\* As a mutant: a failed batch reads as one that matched nothing.
VulnerableIfListed(lost, empty) == {n \in todo : n \notin lost /\ n \notin empty /\ Matches(n, WideOwn) # {}}

\* The names asked about in full: ids came back, or the batch failed.
Vulnerable(lost, empty) == {n \in todo : n \in lost \/ (n \notin empty /\ Matches(n, WideOwn) # {})}

\* _filter_vulnerable_queries: the ids of every query, chunk by chunk, a chunk
\* lost as a whole.  The ids in the release of a paged answer are asked again.  An
\* answer whose first page is empty, with a token for the rest, reads as no ids.
Batch(lost, ownLost, paged, empty) ==
  /\ phase = "batch" /\ todo # {}
  /\ lost \subseteq todo /\ ownLost \subseteq todo /\ paged \subseteq todo \ ownLost
  /\ empty \subseteq {n \in todo \ lost : Matches(n, WideOwn) # {}}
  /\ blank' = blank \cup {<<EcoOf[host], n>> : n \in empty}
  /\ UNCHANGED osv
  /\ IF Vulnerable(lost, empty) = {}
     THEN /\ Remember([n \in Names |-> {}], {})
          /\ UNCHANGED tracked
          /\ PartAnswered({})
     ELSE /\ phase' = "fetch"
          /\ fetching' = Vulnerable(lost, empty)
          /\ unknown' = IF Own = {} THEN todo ELSE ownLost \cup paged
          /\ rereading' = IF Own = {} THEN {} ELSE paged
          /\ UNCHANGED <<cached, cache, tracked, vague, host, part, todo, answered, failed, pages, found, result>>

FetchEnds(n, to) ==
  /\ fetching' = fetching \ {n}
  /\ answered' = IF to = "answered" THEN answered \cup {n} ELSE answered
  /\ failed' = IF to = "failed" THEN failed \cup {n} ELSE failed
  /\ UNCHANGED <<osv, clientVars, host, part, phase, todo, pages, unknown, rereading, found, result>>

\* As a mutant: pages are followed as long as there are any.
PagesWithoutEnd(n) ==
  /\ n \in fetching
  /\ pages' = [pages EXCEPT ![n] = (@ + 1) % MaxPages]
  /\ UNCHANGED <<osv, clientVars, host, part, phase, todo, fetching, answered, failed, unknown, rereading, found, result>>

\* _query_all_pages: a page with a token, of which there is a last.
NextPage(n) ==
  /\ n \in fetching
  /\ \/ /\ pages[n] + 1 < MaxPages
        /\ pages' = [pages EXCEPT ![n] = @ + 1]
        /\ UNCHANGED <<osv, clientVars, host, part, phase, todo, fetching, answered, failed, unknown, rereading, found, result>>
     \/ /\ pages[n] + 1 = MaxPages
        /\ FetchEnds(n, "failed")

\* The last page, or a request that failed.
Fetched(n, to) ==
  /\ n \in fetching
  /\ FetchEnds(n, to)

\* The ids in the release are re-read, or stay unknown.
Reread(n, ok) ==
  /\ n \in rereading
  /\ rereading' = rereading \ {n}
  /\ unknown' = IF ok THEN unknown \ {n} ELSE unknown
  /\ UNCHANGED <<osv, clientVars, host, part, phase, todo, fetching, answered, failed, pages, found, result>>

\* The releases the full answers describe.
Seen == {r \in Releases : \E n \in answered : \E v \in Matches(n, WideOwn) : Describes(v, {r})}

\* As a mutant: a release is judged on the answers of this lookup alone.
DescribedHere == Own \cap Seen

\* The host's releases that OSV is known to track.
Described == Own \cap (tracked \cup Seen)

\* _covers_family_but_not_release
Elsewhere(v) ==
  /\ \E r \in Releases : osv[v].block[r] # "none" /\ \E d \in Described : Family[d] = Family[r]
  /\ ~Describes(v, Described)

\* _advisories_for_host
Kept(n) ==
  {v \in Matches(n, WideOwn) :
     /\ ~(n \notin unknown /\ v \notin Matches(n, Own) /\ Describes(v, Own))
     /\ ~Elsewhere(v)}

\* Once every answer is in, and every id.
Arrived == phase = "fetch" /\ fetching = {} /\ rereading = {}

Combine ==
  /\ Arrived
  /\ UNCHANGED <<osv, blank>>
  /\ tracked' = tracked \cup Seen
  /\ IF failed # {}
     THEN /\ PartFailed
          /\ UNCHANGED <<cached, cache, vague>>
     ELSE /\ Remember([n \in Names |-> IF n \in answered THEN Kept(n) ELSE {}],
                      {n \in answered : n \in unknown \/ ~(Own \subseteq tracked')})
          /\ PartAnswered(UNION {Kept(n) : n \in answered})

LookupNext ==
  \/ \E h \in Hosts : Match(h)
  \/ AllCached
  \/ \E lost, own, paged, empty \in SUBSET todo : Batch(lost, own, paged, empty)
  \/ \E n \in Names : \/ NextPage(n)
                      \/ \E to \in {"answered", "failed"} : Fetched(n, to)
                      \/ \E ok \in BOOLEAN : Reread(n, ok)
  \/ Combine

LookupSpec == LookupInit /\ [][LookupNext]_lookupVars

\* Requests have timeouts, so a thread's request ends; OSV may page for ever.
LookupFairSpec ==
  /\ LookupSpec
  /\ WF_lookupVars(AllCached \/ \E lost, own, paged, empty \in SUBSET todo : Batch(lost, own, paged, empty))
  /\ \A n \in Names : /\ WF_lookupVars(NextPage(n) \/ \E to \in {"answered", "failed"} : Fetched(n, to))
                      /\ WF_lookupVars(\E ok \in BOOLEAN : Reread(n, ok))
  /\ WF_lookupVars(Combine)

-----------------------------------------------------------------------------
(* Properties *)

\* A host is told of what affects it: of every advisory filed under a name of one
\* of its packages whose own release it affects at the installed version, unless
\* OSV began its answer about that name with an empty page.
Told(h, p, vulns) ==
  \A n \in Queries(h, p) : <<EcoOf[h], n>> \in blank \/ Matches(n, ReleasesOf[EcoOf[h]]) \subseteq vulns

TypeOK ==
  /\ osv \in [Vulns -> Record]
  /\ cached \subseteq CacheKeys /\ vague \subseteq cached /\ blank \subseteq CacheKeys
  /\ cache \in [CacheKeys -> SUBSET Vulns]
  /\ tracked \subseteq Releases
  /\ host \in Hosts \cup {NoHost} /\ part \in Parts
  /\ phase \in {"idle", "batch", "fetch"} /\ (host = NoHost <=> phase = "idle")
  /\ todo \subseteq Names /\ fetching \subseteq todo /\ answered \subseteq todo /\ failed \subseteq todo
  /\ pages \in [Names -> 0..MaxPages]
  /\ unknown \subseteq todo /\ rereading \subseteq unknown
  /\ found \subseteq Vulns
  /\ result \in [Hosts -> [status : {"NONE", "OK", "DATA_SOURCE_UNAVAILABLE"},
                           parts : SUBSET Parts, vulns : SUBSET Vulns]]

\* A host is told of every advisory that affects it, of every part of it that
\* was answered for; and an answer without a complaint is about all of it:
\* "could not ask" never reads as "nothing found" (OsvUnavailableError, Req
\* 10.1, 12.7), but a first page that is empty does (osv_client.py:942).
NothingMissed ==
  \A h \in Hosts :
    /\ \A p \in result[h].parts : Told(h, p, result[h].vulns)
    /\ result[h].status = "OK" => \A p \in Parts : Asks(h, p) # {} => p \in result[h].parts

\* What is remembered was answered: a failure is never cached as clean.
CacheComplete ==
  \A k \in cached \ blank : Matches(k[2], ReleasesOf[k[1]]) \subseteq cache[k]

\* An advisory of the host's distribution that does not affect its release is
\* dropped, once OSV was seen to describe the release, in this answer or an
\* earlier one, and its ids there are known (Req 14.7).
NotForeign ==
  \A k \in cached \ vague : \A v \in cache[k] :
    \/ v \in Matches(k[2], ReleasesOf[k[1]])
    \/ ~\E r \in Releases, o \in ReleasesOf[k[1]] : osv[v].block[r] # "none" /\ Family[o] = Family[r]

\* A name is still to be asked or the host is told of it, and a name not asked
\* about in full matches nothing, or its first page was empty.
CallOK ==
  /\ phase # "fetch" => fetching \cup answered \cup failed \cup unknown = {}
  /\ host # NoHost =>
       /\ \A n \in Queries(host, part) \ todo :
            <<EcoOf[host], n>> \in blank \/ Matches(n, Own) \subseteq found
       /\ part = "kernel" => Told(host, "userland", found)
  /\ phase = "fetch" =>
       \A n \in todo \ (fetching \cup answered \cup failed) :
         <<EcoOf[host], n>> \in blank \/ Matches(n, WideOwn) = {}

\* The inductive invariant.
LookupInv == TypeOK /\ CacheComplete /\ NotForeign /\ NothingMissed /\ CallOK

\* Every lookup comes to an end, though OSV's pages may not.
EveryLookupEnds == \A h \in Hosts : host = h ~> host # h
=============================================================================
