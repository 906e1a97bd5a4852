----------------------------- MODULE KernelFeeds -----------------------------
(***************************************************************************)
(* One kernel feed being refreshed (services/enrichment.py, with the       *)
(* clients of scanner/kernel_feeds.py and ubuntu_kernel_feed.py): by the   *)
(* schedule, by a request, and by a scan that finds none.  Everything is   *)
(* downloaded before anything is written, so a refresh holds its answer    *)
(* while others are downloaded, and nothing keeps two refreshes apart.     *)
(*                                                                         *)
(* A publisher serves one content after another.  A tag names a content:   *)
(* it is the server's, or the digest of what was read.                     *)
(***************************************************************************)
EXTENDS Naturals, Sequences, FiniteSets

CONSTANTS
  Contents,    \* what the publisher serves at one time or another
  Refreshers,
  NoTag

VARIABLES
  client,      \* who the publisher is: paged, tagged or untagged
  serving,     \* what it serves
  stored,      \* the table, as the pages it was read from; empty if there is none
  row,         \* its row in feed_refreshes
  refresh,     \* refresh[r]: where r is
  overtaken,   \* history: who asked before the table was last stored
  mistagged    \* history: one of them recorded the tag it had asked about

feedVars == <<client, serving, stored, row, refresh, overtaken, mistagged>>

Clients == {"paged", "tagged", "untagged"}
Idle == [at |-> "idle", asked |-> NoTag, cached |-> 0, pages |-> <<>>, result |-> "none", loaded |-> NoTag]

FeedInit ==
  /\ client \in Clients /\ serving \in Contents
  /\ stored = <<>> /\ row = [refreshed |-> FALSE, count |-> 0, tag |-> NoTag]
  /\ refresh = [r \in Refreshers |-> Idle]
  /\ overtaken = {} /\ mistagged = FALSE

-----------------------------------------------------------------------------
Tag(pages) == IF client = "untagged" THEN NoTag ELSE pages

\* Ask whether it has changed only when there is a table to keep.
Fetch(r) ==
  /\ refresh[r].at = "idle"
  /\ refresh' = [refresh EXCEPT ![r] =
       [Idle EXCEPT !.at = "asking", !.cached = Len(stored), !.asked = IF stored = <<>> THEN NoTag ELSE row.tag]]
  /\ overtaken' = overtaken \ {r}
  /\ UNCHANGED <<client, serving, stored, row, mistagged>>

Others == UNCHANGED <<client, serving, stored, row, overtaken, mistagged>>

\* The kernel CNA's records come in pages, each as it is served then.
NextPage(r) ==
  /\ client = "paged" /\ refresh[r].at = "asking" /\ refresh[r].pages = <<>>
  /\ refresh' = [refresh EXCEPT ![r].pages = <<serving>>]
  /\ Others

Pending(r, result, pages) ==
  refresh' = [refresh EXCEPT ![r].at = "pending", ![r].result = result, ![r].pages = pages]

\* An answer in full is a table, unless it is what was asked about.
Answered(r, pages) ==
  IF refresh[r].asked # NoTag /\ Tag(pages) = refresh[r].asked
  THEN Pending(r, "unchanged", <<>>) ELSE Pending(r, "table", pages)
LastPage(r) ==
  /\ client = "paged" /\ refresh[r].at = "asking" /\ refresh[r].pages # <<>>
  /\ Answered(r, Append(refresh[r].pages, serving))
  /\ Others
Download(r) ==
  /\ client # "paged" /\ refresh[r].at = "asking"
  /\ Answered(r, <<serving>>)
  /\ Others

\* No answer, one that is too large or too long, or one without a kernel's
\* advisories.
Fail(r) ==
  /\ refresh[r].at = "asking"
  /\ Pending(r, "failed", <<>>)
  /\ Others

\* The row of a feed that has not changed is loaded, and then written.
Load(r) ==
  /\ refresh[r].at = "pending" /\ refresh[r].result = "unchanged"
  /\ refresh' = [refresh EXCEPT ![r].at = "loaded", ![r].loaded = row.tag]
  /\ Others

\* The session sends the columns it changed in the row as it was loaded.
RecordUnchanged(r) ==
  /\ refresh[r].at = "loaded"
  /\ row' = [refreshed |-> TRUE, count |-> refresh[r].cached,
             tag |-> IF refresh[r].asked = refresh[r].loaded THEN row.tag ELSE refresh[r].asked]
  /\ refresh' = [refresh EXCEPT ![r] = Idle]
  /\ mistagged' = (mistagged \/ (r \in overtaken /\ refresh[r].asked # refresh[r].loaded))
  /\ UNCHANGED <<client, serving, stored, overtaken>>

\* A table replaces what is stored, in one transaction with its row.
\* Mutant: unless it is as long.
StoreIfLonger(pages) == IF Len(stored) = Len(pages) THEN stored ELSE pages
Store(pages) == pages
Replace(r) ==
  /\ refresh[r].at = "pending" /\ refresh[r].result = "table"
  /\ stored' = Store(refresh[r].pages)
  /\ row' = [refreshed |-> TRUE, count |-> Len(refresh[r].pages), tag |-> Tag(refresh[r].pages)]
  /\ refresh' = [refresh EXCEPT ![r] = Idle]
  /\ overtaken' = Refreshers /\ mistagged' = FALSE
  /\ UNCHANGED <<client, serving>>

\* A failure keeps the table, its count and its tag.
RecordFailure(r) ==
  /\ refresh[r].at = "pending" /\ refresh[r].result = "failed"
  /\ refresh' = [refresh EXCEPT ![r] = Idle]
  /\ Others

\* The process stops, or the write is refused.
Stop(r) == refresh[r].at # "idle" /\ refresh' = [refresh EXCEPT ![r] = Idle] /\ Others

Publish(c) ==
  /\ c # serving /\ serving' = c
  /\ UNCHANGED <<client, stored, row, refresh, overtaken, mistagged>>

FeedNext ==
  \/ \E r \in Refreshers :
       \/ Fetch(r) \/ NextPage(r) \/ LastPage(r) \/ Download(r) \/ Fail(r)
       \/ Load(r) \/ RecordUnchanged(r) \/ Replace(r) \/ RecordFailure(r) \/ Stop(r)
  \/ \E c \in Contents : Publish(c)

FeedSpec == FeedInit /\ [][FeedNext]_feedVars

-----------------------------------------------------------------------------
(* Properties.                                                             *)

\* The tag a refresh asks with is what lets a feed stay as it is, so it must be
\* of the table that is stored (FeedRefreshOutcome.unchanged: "exactly the
\* records already cached").  It is, whatever fails or stops, however the publisher
\* changes between pages and whichever refreshes overlap, but for one thing: that a
\* refresh finds unchanged what another has replaced since it asked, and gives the
\* new table the tag of the old.  The next table that is stored mends it.
TagIsOfTable ==
  /\ ~mistagged => row.tag \in {NoTag, stored}
  /\ row.refreshed <=> stored # <<>>
  /\ row.refreshed => row.count > 0
=============================================================================
