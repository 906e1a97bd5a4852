# A formal model of CveDeck

CveDeck logs in to hosts over SSH, collects their package inventory, matches it
against OSV and NVD, keeps what it finds per machine with a history of what each
scan changed, and shows it on a dashboard. It is one process: uvicorn with a
thread pool for requests, a few background threads, and SQLite. This directory
holds TLA+ specifications of it, checked with TLC and, where it matters most,
proved with TLAPS. Paths below are relative to `src/backend/app/`.

Contents: the system's parts; the modules, each with its state, actions and
abstractions; the runs and their bounds; the proofs; where the code departs from
what it says (Known divergences); what is not modelled.

## The system's parts

| Part | Code | State it keeps | Operations | Hard behaviour | Modelled in |
| --- | --- | --- | --- | --- | --- |
| Scan jobs | `services/scan_jobs.py` | `scan_jobs`, `scan_job_targets`; in memory the credentials, the asked cancels, the waited-on jobs, the scan slot, the worker's queue | create, submit, run in turn, run, cancel, interrupt at start-up | worker, requests and cancellers interleave; commits fail; the process stops | `ScanJobs`, `JobLifecycle` |
| Scheduled scans | `services/scan_schedule.py` | one `scan_schedule` row | update, tick | a stop between two commits, clocks that skip or repeat an hour, a scan that outlasts a day | `ScanSchedule` |
| Scanner engine | `scanner/engine.py`, `api/wiring.py` | none of its own; writes machines, findings, runs | scan a list of hosts, one at a time, each isolated | one source or write of several fails | `ScanJobs`, `ScanHistory` |
| Findings and history | `data/repository.py` | `cve_findings`, `scan_runs`, `scan_finding_changes` | save a scan, record a run, prune | partial scans, baselines, pruning at the limit | `ScanHistory` |
| Host keys | `scanner/host_keys.py`, `api/wiring.py` | `ssh_host_keys` | connect, pin, touch, forget | two connections to one host, and a forgetting beside them | `HostKeys` |
| Collectors | `scanner/collectors.py` | a connection, its channels and watchdogs | run a command, read it, parse it | a host that trickles, dies or sends too much | `Collect` |
| Matching | `scanner/matcher.py`, `osv_client.py`, `releases.py`, `nvd_client.py` | the client's cache for a job | query, page, fetch on threads, re-read, merge | partial answers, limits, answers in any order | `OsvLookup`, `Advisories` |
| Versions, CVSS | `scanner/debian_version.py`, `rpm_version.py`, `cvss.py` | none | compare, score | boundary cases | `Versions`, `Cvss` |
| Kernel feeds | `services/kernel_feeds.py`, `ubuntu_kernel.py`, `kernel.py`, `scanner/kernel_feeds.py`, `ubuntu_kernel_feed.py` | a table for each feed and stream, its row in `feed_refreshes` | refresh, ensure fresh, match, count, say what was checked | outage, overlap of refreshes, kernels installed and not run | `KernelFeeds`, `KernelAdvisories`, `UpstreamBugs`, `Kernels` |
| Exploitation intel | `services/enrichment.py`, `services/feed_scheduler.py` | KEV and EPSS caches, feed metadata | refresh, reapply, enrich, health | partial failure, staleness, a stop between two commits | `FeedRefresh` |
| Online sync | `services/sync.py` | `sync_status` of every row, the online copy | sync | two syncs at once, failure in the middle | `Sync` |
| Authentication | `auth/`, `api/auth_routes.py` | accounts, sessions, tokens, the set-up code; the throttle in memory | set up, log in, throttle, touch, revoke, reset | requests that verify a password while others write | `Sessions`, `LoginThrottle` |
| Remediation | `services/remediation.py` | one row per record | add, update | none that outlives a transaction | a writer in `Sync` |
| Database start-up | `data/migrations_runtime.py`, `data/migrations/`, `data/schema.py`, `data/sqlite_journal.py` | the schema, `alembic_version`, the journal mode | create, stamp, upgrade, choose, checkpoint | two processes at once, a stop between statements | `Schema`, `Migrations` |
| Dashboard | `src/frontend/` | browser state | start, find, poll and cancel a job | answers that arrive late | `FollowJob` |
| Discovery, connection tests | `scanner/discovery.py`, `api/actions.py` | none | sweep, enrol, test a connection | I/O | tests in `HostKeys` and `Collect`, enrolment in `ScanHistory` |
| HTTP application, deployment | `api/app.py`, `api/routes.py`, `docker-compose.yml` | none | serve, start, stop, restart | a restart at any point | in `ScanJobs` |

Requests call `scan_jobs.create_job` and then `submit` or `run_in_turn`; the
schedule's tick does the same. The worker thread takes jobs off its queue and
calls `run_job`, which gives the engine its callbacks; for each host the engine
connects through the pinned keys, reads the inventory, asks OSV with the client
of its job, looks the kernels up in the feeds' tables, enriches what was found
from the KEV and EPSS caches, and writes machine, findings and run through the
repository. The feed scheduler and the refresh route write the caches and the
tables. Sync reads every table. Everything a request may do goes through the
gate of `auth/dependencies.py`.

What makes each part correct, in a line: *jobs*, one scan at a time, one owner
of a job, nothing lost and nothing left reading "running"; *schedule*, a slot
runs once and none stays due; *history*, a machine's change rows account for its
findings, and a source's outage resolves nothing; *host keys*, only one key is
trusted between two forgettings; *collectors*, no inventory is read off an
output that was cut; *matching*, "could not ask" never reads as "nothing found",
and one finding per CVE and package whatever the order of the answers; *kernels*,
every CVE is listed or counted and a clean kernel was looked up; *intel*, what is
stated comes from a catalogue that was held; *sync*, the online copy ends as the
local one; *accounts*, what has ended stays ended; *schema*, who has opened the
database has the schema of its classes.

## Modules

| Module | What it is |
| --- | --- |
| `JobLifecycle` | Abstract specification: what a poller of `GET /api/scans/jobs` may see of a job |
| `ScanJobs`, `ScanJobsInductive`, `ScanJobsCancel`, `ScanJobs_proofs` | `services/scan_jobs.py` in detail; its inductive invariant; a history of the cancels that were accepted; its theorems, that it implements `JobLifecycle` among them |
| `ScanSchedule`, `ScanSchedule_proofs` | The daily schedule over `JobLifecycle`, and its theorems |
| `ScanHistory`, `ScanHistory_proofs` | One machine's findings and its history of scans |
| `HostKeys` | Trust on first use, as scans and connection tests share it |
| `Collect` | Reading a machine over such a connection: it extends `HostKeys` and implements it |
| `OsvLookup` | Asking OSV for the machines of a job |
| `Scanner_proofs` | The theorems of `HostKeys`, `Collect` and `OsvLookup` |
| `Advisories` | From OSV's records to a machine's findings |
| `Versions`, `Cvss` | The version orders, and the CVSS scores |
| `KernelAdvisories`, `UpstreamBugs` | What the publishers' records say of a kernel; and what happens to the bugs they tell of |
| `Kernels`, `KernelFeeds` | The kernels of one machine over its scans; one feed being refreshed |
| `Matching_proofs` | The theorems of `Advisories`, `UpstreamBugs`, `KernelFeeds`, `Kernels` and `Cvss` |
| `FeedRefresh`, `FeedRefresh_proofs` | The KEV and EPSS caches and what the findings say of them |
| `Sync`, `Sync_proofs` | `services/sync.py` against every writer of the rows it sends |
| `Sessions` | Accounts, sessions, tokens and the first run |
| `LoginThrottle` | The slowing down of failed sign-ins |
| `FollowJob` | The dashboard following a job |
| `Server_proofs` | The theorems of `Sessions`, `LoginThrottle`, `FollowJob` and `Migrations` |
| `Schema`, `Migrations` | The schema as the classes declare it and as the revisions make it; bringing a database up to it |
| `MC...` | Instances for TLC. `MCMatching` and `MCServer` extend parts that share no state and put them one beside the other, the initial state choosing the part |

How they compose. `ScanJobs` implements `JobLifecycle`, and `ScanSchedule` is
composed with `JobLifecycle`, so that what holds of the schedule holds with the
threads of `ScanJobs` beneath it. That scans never overlap (`NoTwoScans`) is what
lets `ScanHistory` and `OsvLookup` take one scan at a time. `Collect` extends
`HostKeys`; `KernelAdvisories` is used by `UpstreamBugs` and by `Kernels`.
`Migrations` takes the classes and the revisions as constants, and `MCServer` gives it
`Schema`'s.

### Scan jobs

State. `status`, `rows` and `born` are the two tables: a job's status, the
state of each target row, and how the job was written down (its place in the
order of `created_at` and the status it was given). `credentials`,
`cancelRequested`, `handoffs` and `slot` are `_credentials`,
`_cancel_requested`, `_handoffs` and `_scan_slot`; `queue` is the worker's
queue and `workerUp` says that `_worker` is not `None`. `request[j]`, `run[j]`,
`cancel[c]` and `busy` are program counters: of the request behind job `j`, of
`run_job(j)`, of a thread in `cancel_job`, and of the worker.

Actions. One per stretch of code between two points where another thread can be
seen to act: a commit, a critical section under `_credentials_lock`, the
acquisition of the slot, a read of shared state. `CreateJob` is `create_job` to
its commit, `_prune` included; `HoldCredentials` the rest of it. `Submit` is
what `start_scan_job` and the schedule do with the job; `WaitOn`, `HandOver` and
`HandoffReturns` are `run_in_turn`, with a worker or without. `EnterSlot` to
`Cleanup` are `run_job` and, inside it, the engine's loop over the hosts;
`ScanRaises` and `CommitFails` are its error paths. `ReadForCancel`,
`AskCancel`, `WriteCancelled`, `FinallyCancel` are `cancel_job`. `Crash` loses
everything but the database at any point; `Startup` is `interrupt_unfinished`
and `start_worker`.

A session keeps what it has read: the requests decide on the status the job was
given when it was written down (`born`), because they read it back once, after
that commit. `run_job` does so too when it runs in the session of a waiting
request (`ReadsQueued`), which is why it must ask `_credentials` again.

Left out: what a host's scan does and returns, counts and messages, who asked
for a cancel, the order of the hosts in a job (any), and the graceful part of a
shutdown (the worker may go on for five seconds, then it is a `Crash`).

Fairness, used by the liveness run alone. Every thread in the middle of its work
goes on (`WF`): requests and cancellers run on a thread pool, each remote
command and query has a timeout. The slot is a `threading.Lock`, and a thread
that waits for it gets it if it is free again and again (`SF` on `EnterSlot`):
there is one contender with a worker, and without one contenders are the
requests of a test app. The container is restarted (`docker-compose.yml`,
`restart: unless-stopped`). Nobody has to ask for a scan or cancel one.

### Scan history

State, of one machine. `firstSeen` is `cve_findings`: a finding is listed if it
has a time. `runs` is `scan_runs`, each with its `scan_finding_changes` as the
sets `new` and `resolved`; a count that reads NULL is told by `baseline`,
`assessed` and `status`. `machine` is `last_scan_status` and
`last_scan_sources_ok` of `target_machines`. `scan` is the scan in progress, in
the engine's memory, with `truth`, what asking every source would have found.

Actions. `Match` is `_scan_one` of the engine up to its last network call: OSV
answers in full, in part or not at all, a kernel's feed may be missing or stale
(`_check_ubuntu_kernel` and `_check_feed_kernels` then give nothing), and
`split_kernel_findings` takes out what is only counted. `ScanFails` is the
engine's `_scan_target` catching what the collector raises. `Save` is the single
transaction of `save_findings`, `record_scan_run` with `_prune_scan_runs`, and
the machine's row; `SaveFails` the rollback in `wiring.py`, after which
`RecordFailure` writes the failed run; `NothingRecorded` the rollback when that
fails too, or a process that stops. `Enroll` is `POST /api/discovery/enroll`,
at any moment, also while a scan is in progress. `Init` covers a database
upgraded to a history: findings and no runs.

Abstractions. Findings are keys (`finding_key`): `_deduplicate_findings` of
`osv_client.py` leaves one per key, so a machine has one row per key. `Fed` are
the keys OSV knows nothing of, in kernels looked up in a distribution's feed;
`Unfixed` those that may be counted and not listed. All the ways a scan can fail
are one. Scans of a machine do not overlap, which is `NoTwoScans` of
`ScanJobs_proofs`; times are those of the scans, in order. NVD is not
configured in any deployment and is left out, as are the fields of a finding
that follow each scan, the inventory and the kernel counts.

### Scheduled scans

State. `schedule` is the row, `reached` the hosts whose last scan used the server
key, `keySet` that there is such a key; `zone` an offset from UTC at every
moment; `tick` where the ticker is between reading the row and recording the
slot; `status` and `rows` are the job tables of `JobLifecycle`, and `slotOf` says
which slot a scheduled job was started for.

Actions. `Update` is the route that sets the row, arming it. `TickReads`,
`TickSkips`, `TickStarts` and `TickRecords` are `tick` and `_start`, cut at the
commits: the job's and the slot's are separate. `TickFails` is a tick that
raises, `Stop` and `Restart` the process. The jobs move as `JobLifecycle` lets
them, one of them possibly for longer than a day.

Abstractions. A day has three ticks and a slot is a moment of a day in local
time; the zone is given for the whole of a behaviour, with its change in it: none,
an hour skipped, an hour repeated. `forgotten` records the slots whose record was
lost, by a stop or a refused commit, or by clocks that went back under the tick.

Fairness, for `DueIsHandled` alone: the ticker goes on (`WF` on its steps) and a
process that stopped is started again (`WF` on `Restart`; `restart:
unless-stopped`).

### Host keys and collectors

State of `HostKeys`. `pins` are the rows of `ssh_host_keys`, `conn[c]` what a
connection has read and seen, `at[c]` its place or its outcome, `writer` the
connection test that has flushed a pin it has not committed. `forgets` and
`trusted` are history: how often an address was forgotten, and which keys went
through in between.

Actions. `Dial` reads the pin; `Handshake` is what paramiko does with the policy
and the presented key, then the credentials; `Touch`, `Pin`, `CommitPin`,
`Compare` and `WriteRefused` are the rest of `connect_pinned` and of the store, a savepoint that
loses to another first connection included. `Forget` is the route. An address
presents whatever key it likes at each handshake.

`Collect` goes on from there: `Exec` opens a channel and arms its watchdog,
`Watchdog` is the timer's thread, which sets its flag and then closes the
channel, `OutputEnds` how the stream ends, `ReadRaises`, `TooMuch` and `Finish`
what the reader makes of it, `Parse` the listing, `Closing` the `finally` that
closes the client. `Scanner_proofs` shows each of its steps to be one of
`HostKeys` or to leave its variables alone.

Fairness, for `EveryConnectionEnds`: each thread goes on, since dialling, reads
and the database have timeouts; a timer goes off. That a stream ends is asked of
the watchdog alone: a host may trickle for ever.

Left out: WinRM, what a listing says, and how it is parsed.

### Asking OSV

State of `OsvLookup`. `osv` is what OSV says of each advisory, fixed for a
behaviour; `cached` and `cache` what the client of the job remembers, `tracked`
the releases it has seen OSV describe. `host`, `part` and `phase` say what is
being matched: userland and then the kernel, ids in batches and then full answers.
`fetching`, `answered`, `failed` and `pages` are the pool's requests, `unknown`
and `rereading` the ids in the host's release that were lost or came in pages.

Actions. `Match` is the engine's next host; `Batch` is
`_filter_vulnerable_queries` with any chunk lost, `NextPage` and `Fetched` a
request of the pool, `Reread` one of the other pool, `Combine` the end of
`match_packages`, with `_advisories_for_host` and the writing of the cache. A
lost full answer fails the part, and a kernel that fails keeps the userland.

Abstractions. OSV does not change under a job. Chunks of queries and their
concurrency limits are left out; a batch's requests and their answers are one
step, since nothing else reads what they write. OSV may answer with a page token
and no advisory yet, and the code then misses what it has (Known divergences):
`blank`, a history variable, holds the names that were answered so, which are the
only ones `NothingMissed` excepts.

Fairness, for `EveryLookupEnds`: a request ends, having a timeout. OSV may page
for ever.

### Records, versions, scores

`Advisories` takes the records that arrive, in any order (`Arrive`), and makes
findings of them (`Report`, `FindingsOf`): which blocks of a record are about the
machine, the fix it offers, the rating, one finding for each CVE of a source, each
installed kernel on its own. What the code picks out of a list keeps its place: a list is
a function of places, and what was left out leaves a gap, so that a merge can be
reasoned about as what it makes of a set of records. Two versions of one source may be
installed, for which different packages answer; the text of a package's version may
name another distribution than the machine's (`HintsOf`). An ecosystem is a family, a form (a release, a
repository, a subscription, a product, a bare name) and a number; a fix is a
spelling with a place in the distribution's order, two of which can be one
version.

`Versions` are the loops of both orders, character by character, against the
order of a key computed from the version. `Cvss` are both equations; its state
machine makes a vector worse, one metric at a time, or spoils it. A vector is made
of the base metrics of v3, or any of v4 (the code passes over others in v3). In v4 the
arithmetic is exact, where the code's float falls short of half a tenth at some
ties and rounds down.

### Kernels and their feeds

`KernelAdvisories` are the verdicts on a kernel from the rows of each publisher:
the kernel CNA's ranges, Ubuntu's, Oracle's and Amazon's builds. `UpstreamBugs`
lets a bug come in, be fixed in the main line and in any series, and be told in
any of three ways, and asks the feed about every kernel.

State of `Kernels`. A machine's `images` and the kernel it runs, the feed as
published (`served`), as stored (`table`) and whether it is `fresh` and `enabled`,
what KEV says (`kev`), and `scan`, the last scan's listed findings, its counts
and what it looked at.

Actions. `Install`, `Remove` and `Boot` are the machine's, `Serve` and `Age` the
world's, `Refresh` and `Switch` the dashboard's; `Scan` is `_check_ubuntu_kernel`,
`_check_feed_kernels`, OSV's part for Debian, `split_kernel_findings` and the
counts, with the fetch a scan makes for itself. What the dashboard then says was
checked is `UnfixedFor`, `UncheckedImages` and `UncheckedReason`.

`KernelFeeds` is one feed under refresh: `Fetch` reads the tag, `NextPage`, `LastPage`
and `Download` the answer, a paged publisher changing between pages, `Load` and
`RecordUnchanged` an unchanged one, `Replace` and `RecordFailure` the others, `Stop` at
any point, and `Publish` the world's. Images of two families are assumed not to share a
version, and the publishers' documents are taken as the records they hold.

### Accounts, sign-ins, the dashboard's follower

State of `Sessions`. The tables (`users`, `sessions`, `tokens`, `setup`), the
`server`'s start, and `work[r]`, where a request or `cvedeck-admin` is. A request
reads, works on a password, and writes in one transaction; the gate looks a
session up and commits before the handler runs. `signedIn`, `lastRequest`,
`ended` and `revoked` are history. A password is checked by being equal;
`LoginThrottle` has what refusing costs.

`LoginThrottle`: `Attempt` asks `retry_after` and then works on a password on one
of a few threads; `Failed` and `Succeeded` record how it ended, forgetting stale
entries on the way. The first power of two that no float holds is a constant, so
that a small instance reaches it.

`FollowJob`: `job` is the hook's state, `effect` what the last render set the
timers for, `request` what is under way. Answers arrive whenever they do, also
after the page has turned to another job, and each may be lost. `left` and `doubled`
are history: the jobs given up for another, and those told of while another request
about them was under way or asked about by a timer that was left.

### The schema

`Schema` has the tables as the classes declare them, and every revision as its
statements. `Migrations` runs them as `upgrade_to_head` decides, for a server and
a command that may do so at once, either stopping anywhere. SQLite's part, modelled
from how the code uses it: a statement that changes the schema commits by itself
until the first one that writes a row begins a transaction. A database starts out
empty, as any of the nineteen releases left it, or as one from before there were
revisions.

State. `disk` is what is committed (tables, half-made copies of a batch, whether
there is `alembic_version`, and its rows), `writer` and `draft` the process with a
transaction open and what it has made of the database, `at[p]` and `todo[p]` where a
process is and the statements it has yet to run. `Open` is the beginning of
`upgrade_to_head`; `Decide` puts the statements in place of what they are decided by
(`create_all`, `stamp`, `upgrade`); `Run`, `Commit`, `GiveUp` and `Finish` follow;
`Stop` is the process stopping. `SchemaAssumption` says what the theorem needs of the
revisions; TLC evaluates it of `Schema`'s, so a revision that is added and breaks it
stops the run.

A column's type and its foreign keys are left out; whether it may be null, is
unique or indexed is not.

### Online synchronisation

State. `local[r]` and `online[r]` are a row in the two databases, `pending` the
rows whose `sync_status` is `PENDING_SYNC`, `sync[s]` where a thread is in
`sync()` with `sent`, the values it has read. `scanned` are the machines whose
scan is committed and whose outcome `_record_outcome` has yet to write.

Actions. `WriteMachine`, `WriteOther` and `Delete` are the writers in
`repository.py` and `wiring.py`, which mark what they write, and
`RecordServerKey` the one in `scan_jobs.py` that does not. `Read` is `sync()` up
to the first call to the online database; `Propagate` its one transaction there,
`Refused` each way that fails, one of which is a commit whose answer is lost;
`Flip` the `UPDATE ... WHERE` every column is as it was sent, `FlipFails` its
refusal. `Stop` is the process stopping, after which nobody records the outcome.

Abstractions. What a row says is two fields: `data`, whose writers mark the row,
and for a machine the server key. A finding or a run that is deleted comes back
with another key (`_new_id`). Deletions are not sent, by design (`sync.py:51`).
The tables are read in one step, since every property speaks of one row at a
time. The packages of an inventory, which have no status of their own, are left
out.

Fairness, for `Converges` alone: somebody synchronises again and again (`WF` on
`Read`; the button on the dashboard is the only caller), and neither database
refuses every time (`SF` on `Propagate` and `Flip`). It is asked only of
behaviours in which the writing ends.

### Exploitation intelligence

State. `cache[f]` and `meta[f]` are a feed's catalogue (`kev_entries`,
`epss_scores`) and its row in `feed_refreshes`; `findings[c]` the signals stored
with the finding of a CVE; `refresh[r]` a thread or process in
`refresh_feeds_and_reapply`, with all it has read: what it downloaded, the row it
loaded, the maps, the findings. `scan[s]` is a scan between enriching its
findings and saving them. `said` is a history variable: what the catalogues that
were held have said of each CVE.

Actions. `Download` is every fetch of `refresh_all`, which come first. Then, feed
by feed, `Load` reads the row, `Count` counts the cached records if the digest
matches, and `Write` is the writes and the commit of the checkpoint: a failure
recorded, the row of an unchanged feed, or the catalogue replaced with its row.
`SkipReapply` is the early return of line 844. `ReadIntel`, `ReadFindings` and
`Reapply` are `reapply_to_stored` up to the last read before the findings, the
stream of findings, and the commit. `GiveUp` is an exception anywhere: a refused
write, for instance, which the periodic task logs. `Enrich`, `SaveFindings` and
`ScanFails` are a scan; `Stop` is the process stopping.

The session matters. It sends the columns that it changed in the row as it
loaded it (`Sent`), so an unchanged feed's stale digest is not written over a
newer one; the row of a feed that is replaced is read again in the transaction,
as nothing kept the first. A finding that a scan has deleted and written anew
since it was read is not found by the update, and the reapply fails as a whole
(`stale`).

Abstractions. The findings are those of one host; a catalogue maps a CVE to what
it says of it, so `kev_listed` with its due date, and a score with its
percentile, are one value. A digest is the catalogue it is of. The reads of
`ReadIntel` are taken at once: what lies between them and the next is the gap
that matters. Left out are the kernel feeds (`KernelFeeds`), which `refresh_all` goes on to
and which must be unchanged too for the reapply to be skipped; demo mode, which
refreshes nothing; and the age of a feed, which gates nothing.

Fairness, for `Converges` alone: a refresh in progress goes on and someone starts
one again (`WF`; the periodic task does, by default), and of each feed some
answer is written again and again, that is, they do not all fail. It is asked
only of behaviours in which upstream ends by serving one catalogue.

## Runs

| Run | Instance | What it shows |
| --- | --- | --- |
| `scan_jobs` | two jobs of two hosts and of one, two cancellers, one failure anywhere, with and without a worker, one job kept | No two scans overlap; credentials are held for no job that is not queued; a job is in some thread's hands while nothing has failed; a cancelled job scans no host if it had not started, and else at most the one the engine had decided on; the two tables implement `JobLifecycle` |
| `scan_jobs_live` | the same jobs, one canceller, one failure or restart anywhere, two jobs kept | Every job the worker can be given ends, but for one whose own request, cancel or run met the failure, and that one keeps no other from its turn; every waiting request is answered |
| `scan_schedule` | two jobs, two days of three ticks, two times of day, three zones, one failure or stop anywhere | A slot is run once unless its record was lost; no slot stays due |
| `scan_history` | a package's finding and two kernel findings (one counted, one of a feed), two runs kept, five scans | The change rows that are kept account for the findings and their dates; the latest successful run is kept; no OSV outage is taken for a patch |
| `scan_history_feed` | two findings, three scans | Violated: a kernel feed's outage is taken for a patch |
| `collect` | a scan and a test of one address with two keys, both policies, one forgetting | The keys that go through agree; no inventory is read off an output the deadline cut; every connection ends |
| `osv_lookup` | two hosts of one release and another release, two advisories, OSV saying anything of them, any request lost, two pages, the first perhaps empty | Nothing that affects a host is missed, but under a name answered by an empty page; nothing foreign is reported; every lookup ends |
| `matching` | parts one beside the other: records of nine distributions; pairs of versions of up to two characters of eight kinds; CVSS vectors; bugs of four series; kernels of ten systems; a feed under two refreshes | One finding each, rated as the worst record; the fix is the host's earliest; the order of answers does not matter; the orders are total; a vector is scored if readable and never lower for being worse; the series decides; kernels account for their CVEs; a clean one was looked up; a feed's tag is of its table |
| `feed_refresh` | KEV, two CVEs, two catalogues, two refreshes at once, a scan | A finding states only what a held catalogue says; the cache converges to what upstream serves |
| `feed_skip` | both feeds, two catalogues each, one refresh at a time, a scan | Violated: a reapply is skipped as unnecessary when findings are behind the cache |
| `sync` | a machine, a row that may be deleted, two values, two syncs at once | A row that reads `SYNCED` is online, and as its writers left it unless the two had read it differently; the databases converge once the writing ends |
| `server` | parts one beside the other: an account with two sessions and a token; the first run with two names; sign-ins from two addresses; a page and two jobs; the schema from every release with two processes | A set-up code exactly until an account; a session lives as long as it should and what has ended stays ended; the work an address can cause is bounded; the end of a job is told once; who opened the database has its schema |

Bounds.

*Jobs.* Two are enough for two to contend for the slot, the queue and the limit
of kept jobs (`MaxJobs = 1`, so that creating the second would prune the first if
it has ended, and must not if it has not). Two hosts let a cancel fall between
them. Two cancellers can contend for one job's credentials. `MaxFaults = 1` and
`MaxCrashes = 1` in `scan_jobs_live`: one failure or one restart, at any step; in
`scan_jobs` one failure. A failed job is not retried by the code, so more failures
meet no new state.

*Schedule.* Two days give a slot a next one; two times of day let the schedule
be moved past a slot and back; three ticks a day are the fewest in which there is
a moment before, at and after a slot. Two jobs are what two slots can start;
should the table run out of identities, a slot is left due, and the clock's bound
ends the behaviour before.

*History.* One finding of each kind is enough, since each is treated on its own;
only the counts join them. `Keep = 2` makes every scan after the second prune,
with the latest successful run inside or outside of what is kept, and
`MaxClock = 6` allows five scans: a baseline, a change, the change undone, and
failures and partial scans between. The proofs are for any number.

*Connections.* A scan and a test meet at one address in every order, and each may
connect again and again; addresses share nothing. `MaxForgets = 1` separates two
periods of trust.

*OSV.* A name can be asked about by two hosts, so the second is answered from the
cache of the first; the library goes by two names and the kernel is apart; the
second release makes advisories foreign. `MaxPages = 2` is the least with a page
that is not the last.

*Matching.* Records: every pair out of the entries and ratings that the code
tells apart, for nine kinds of distribution, of which Arch is asked about under ten
trackers and has none of its own, and triples for the choices that depend on three,
or on two versions of one source. On each, a version may name Ubuntu, Debian, Alpine,
Red Hat or none. `MaxLength = 2` with eight characters (a digit, a zero, a letter,
tilde, caret, dot, dash, colon) has every pair of classes at a boundary, an epoch
and a revision among them; longer versions repeat the loop. All v3 base vectors;
v4 in groups, each from three backgrounds, so that each equivalence class and
each edge between MacroVectors is met. Four series with three builds hold a bug's
origin, its fix and one on either side. Two kernel images, so that one is
installed and not run.

*Sync.* Rows do not touch each other: one of each kind, with two values to tell
an old one from a new, meets every case.

*Feeds.* Two catalogues are needed for a digest to be of another one, two
refreshes for a row to change after it was loaded, and two CVEs for a catalogue to
withdraw one and yet not be empty; the feeds do not touch each other, so
`feed_refresh` has one and `feed_skip`, whose question is about all of them, both.

*Server.* Two requests and the command, two sessions of one account so that a
changed password keeps one and ends the other; lifetimes in their order (touch 2,
idle 3, absolute 4, `MaxTime = 4`) so that each can be what ends a session. Before
there is an account, two names and `MaxTime = 2`. The throttle's constants keep
their order (`FREE_ATTEMPTS` 1, per address 2, delays 1 and 2); four attempts from
one address pass both limits. Two jobs and two requests let an answer arrive for
the other job. Two processes meet in every order of statements.

What the two violated properties say is quoted from the code, with the behaviour
found, in `PROJECT.json` under `findings`.

## Proofs

`ScanJobs_proofs` proves for every set of jobs, hosts and cancellers, any
requests, any number of failures and restarts, and both worker modes, from
`JobsAssumption` (the jobs are finitely many and `NoJob` is none of them),
`RequestedAssumption` (a request names at least one host, known hosts only) and
`BoundsAssumption` (the bounds are numbers):

- `TypeCorrect`: `TypeOK` always holds;
- `NoTwoScans`, `Ownership`, `CredentialsReleased`, `NoHiddenScan`:
  `OneScanAtATime`, `OneOwner`, `CredentialsOnlyWhileQueued` and
  `ScansOnlyRunning`;
- `NothingForgotten`: `NoJobForgotten`, that a job which has not ended is in some
  thread's hands while there is a worker and nothing has failed;
- `Refinement`: `Spec` implements `JobLifecycle`;
- `CancelledScanStops`: `CancelStopsTheScan`, of `CancelSpec`, which is `Spec` with a
  history variable.

None of the safety properties is inductive. `OneOwner`, for instance, depends on a job
not being handed over twice, on a request not having reached `run_job` before it has
held the credentials, and on an asked cancel staying asked until its own canceller
withdraws it: if it did not, `run_job` would take the job for an orphan and mark it
interrupted while the canceller writes it down. `IInv` collects these facts: `DownInv`
(a stopped process holds nothing), `SlotInv` (the slot belongs to the job being run),
`HandoverInv` (a job is queued or run once, after it was written down), `OwnerInv` (the
credentials), `StatusInv` (the row of a job in hand), `RowsInv` (the rows of its hosts,
which the refinement needs), `BornInv` (what a session read at a job's commit still
stands while the job is queued) and `CarriedInv` (where a queued job is between the
request and `run_job`, and with whom its credentials are). Each has a lemma of its own,
one step per action; `Inductive` puts them together and every theorem is read off it,
but for `CancelledScanStops`, which needs `AllowanceInv` too: a job that may begin no
other host is in the hands of a `run_job` that will ask before it goes on, or out of
reach of any, its credentials gone; and one that may begin one more has its cancel
standing, or is past its loop.

`ScanHistory_proofs` proves for every set of findings, whichever of them are in kernels,
any limit of kept runs and any number of scans, from `FindingsAssumption` (the findings
are finitely many, `Fed` and `Unfixed` are among them) and `LimitsAssumption` (`Keep` is
at least 1), that the history is right: `Accounting`, `Dating`, `Counting`, `RowAgrees`,
`LatestKept` and `OutagesAreNotPatches`, all read off `HistoryInductive`. The properties
lean on each other, so the invariant `HInv` has them all: the dates tell which run
speaks of a finding last, that run tells what the next may find new or resolved, and
those sets give the counts. Besides them it needs that a complete scan reports what
there is (`ScanInv`), that times order the runs (`TimeInv`), and that a failed run
reports no change, no run a finding as both new and resolved, and there is a latest
success if there is any (`ChangeInv`). The argument has two halves. Adding a run at a
later time preserves each conjunct, because it speaks last of what it mentions and what
it mentions is what changed (`AddedAccounts`, `AddedDates`, `AddedCounts`). Pruning
preserves them because a successful run that is pruned is older than every successful
one that is kept, and failures report nothing: what is kept is the last stretch of what
was said (`PrunedAreOlder` and the lemmas after it). `RecordStep` joins the halves for
the two steps that write a run.

`Sync_proofs` proves `NothingLeftOut` (`SyncedIsOnline`) for every set of rows
and values and any number of syncs at once, from `RowsAssumption` alone (a
machine's row is no other row, and there is something to write). No route keeps
two syncs apart, so the theorem supposes nothing of the kind: that a row reading
`SYNCED` is online holds however they interleave, and what it says there is left
open for the rows in `contested` only, a history variable that no action reads. A
row enters it when a sync reads it while another holds it as something else, and
leaves it when a sync reads it that no other holds. `SyncInv` says of the rest
that all who hold a row have read it alike (`AlikeInv`), so that the order of
their upserts does not matter; that what is held reads `SYNCED` only as it was
read (`ReadInv`), so that sending it overwrites nothing newer; and that once it is
sent the online row is what was read (`SentInv`), so that a row found unchanged
may be marked. All the writers are treated at once, by what they have in common
(`Writes`).

`FeedRefresh_proofs` proves `DigestSafe`, `StatedSafe` and `UsableStays`
(`DigestIsOfCache`, `StatedIsHeld`, `StaysUsable`) for one feed or both, any
CVEs and catalogues, any number of refreshes and scans at once, and failures
anywhere, from `FeedsAssumption` (the CVEs are finitely many, a catalogue that is
published lists some, and the constants are told apart). `FInv` says why:
a feed is either held, with its digest, its count and its catalogue in
agreement, or was never held (`CacheInv`); a refresh that has found its feed
unchanged had loaded the row of one that is held, so what it writes cannot
disagree with what another wrote since (`WriteInv`); whatever is on its way to
the findings is of feeds that are held (`IntelInv`), and goes to findings that
are still there (`SeenInv`). No step lets go of what is held (`Keeps`), which is
proved once, for `Write` (`WriteHolds`), and cited by every other lemma.

`ScanSchedule_proofs` proves `SlotRunOnce` (`OneRunPerSlot`) and
`ScheduledScansApart` (`OneScheduledScan`, that two scheduled scans are never
under way together) for any zones, times, hosts and number of jobs, from
`ScheduleAssumption`. `SlotInv` says how a slot that has a job is remembered: it
is covered by the row's last run in local time, or is in the hands of the tick,
or was forgotten, by a record that was lost or by clocks that went back. What a
step of `JobLifecycle` may do is taken from its promise alone (`JobsKeep`).

`Scanner_proofs` proves for any scans, tests, addresses and keys, from
`KeysAssumption`: `KeysInductive` and `OneKey`, that between two forgettings of
an address one key goes through and a pin is the key of a connection that did;
`ReadingPins`, that `Collect` implements `HostKeys` (its `KeySpec`), its clients
being closed only when their reading has ended;
`ReadingKeepsKeys`, so that the keys agree whatever is read; and `InventoryNotCut`
(`NeverCutShort`). What makes the last inductive is the order of the watchdog's two
steps: an output that ended by the closing of its channel was ended by a watchdog
that had already said it expired.

It proves `NothingIsMissed` and `NothingForeign` (`NothingMissed`,
`NotForeign`) for any hosts, packages, advisories, lost requests and pages, empty
ones among them, from `LookupAssumption` alone. `LookupInv` adds that what is cached
was answered in full (`CacheComplete`), and that a name of the host's is still to be
asked or what affects the host under it was found (`CallOK`); both, like the
theorem, but for the names in `blank`.

`Server_proofs` has three parts. For any number of names, requests, sessions and
tokens and any lifetimes, from `LifetimeAssumption`: `SetupCodeUntilAccount`
(`CodeUntilAccount`), `EndedStays` (`EndedStaysEnded`) and `SessionsLastAsTheyShould`
(`SessionLifetime`). Accounts are never removed, and whoever acts for a session or an
account had one when it was looked up; what has ended has no row and its number is
not handed out again. `Lifetimes` ties a row to the history: its end is that of
the sign-in, and the hour it was last seen lags behind the last request by less than
`TOUCH_INTERVAL` (`RowTimes`), because a look-up that does not touch the row is
committed before the row is due (`LookupTimes`).

For any jobs and requests under way, from `FollowAssumption`: `EndsAreToldOnce`
(`EndToldOnce`). Requests may overlap as they like. `FollowInv` says who may still
tell of an end: once a job is told of that is not in `doubled`, no request about it is
under way, and the page, being off it, sends none (`ToldOver`); and a job the page is
off was told of or was given up for another (`Untold`).

For any addresses, names and threads, any limits and any delays that do not
shrink, from `ThrottleAssumption` and `DelayAssumption`: `SignInWorkIsBounded`
(`WorkIsBounded`). `ThrottleInv` bounds the attempts of a key in each of the states of
its entry (`Fits`): none, below the limit, locked, and open again, unless its delay
has overflowed since it last succeeded (`overflowed`). Each delay that is
sat out pays for one more round of as many attempts as fit on the threads.
`DelayAssumption` (a delay that can be computed is a number not below the first) is
what the powers of two give; the provers know no powers, and TLC evaluates it.

For any processes that open an existing database and may stop anywhere, and any
classes and revisions of which `SchemaAssumption` holds: `DoneHasTheSchema`
(`DoneIsHead`, with nothing left out by `torn`). In `MigrateInv` the database is on its
way, and then nobody is done, or is what the classes declare. On its way it is at a
place of the pending statements of a release (`Climbing`), or is being recorded as the
first (`Adopting`). Of the processes that run the pending statements at once, one is
where the database is; the others have been passed, and the next statement of each has
been run already, so it is refused. No two are where it
is at once, after the first statement (`Sole`): either could go on then. Once a statement begins a transaction, only its process
goes on (`writer`), and all it makes is committed at the end: that is the classes'
schema, by the assumption. There (`AtHead`), a process that decided before must be kept
from recording an earlier revision: it has a table to make that is there (`Doomed`).
What is assumed of the revisions is what this takes: they lead to the classes' schema
from every release; a statement that is committed by itself cannot be run twice, nor
on what the revisions lead to, unless it makes a copy for a batch; and a table is made
among those in the transaction, or by the last before it.

`Matching_proofs` has four parts, of which each is on a state of its own.

*Records* (`Advisories`), for any machines, packages and records:
`ReportedOnce` (`OneFindingEach`), `FixesAreTheHosts` (`FixIsTheHosts`), `AnyOrderWillDo`
(`OrderFree`) and `ReleasesAreAsked` (`AskedWhole`). The invariant, `FoundInv`, is
plain: what has arrived is what the records say that are no longer on a thread, and
the findings are `FindingsOf` all of them. The work is in what `FindingsOf` does.
Keys of one length are in a total order (`KeysAreOrdered`), and a record's key says all
there is in it (`OneOfAnOrder`), so what a merge makes of some places depends on the
set of records there and on nothing else (`MergedIs`, `MergedIsOne`). So a
deduplication keeps, of each CVE and package, one record made of all of that set
(`DeduplicatedIs`), which is rated as the worst of them and has their earliest fix
(`MergedIsBest`). A record kept by the first merge is moved whole to the package that
answers for its name and version (`KeptIs`); so the second merge is one of sets of
records again, each record counts in a finding it concerns, and each finding is
rated as one of those it concerns (`FindingsAre`). Both merges are of the values alone
(`FoundWhateverOrder`, which is more than `OrderFree`: it is for any two orders). What a
record says of a fix is `FixSuffixIs`: with releases, `SameReleaseIs` (a release that
applies by one of the ecosystems asked about applies by its name); without, `AskedIs`
(what is asked about then names no release, or is the machine's own). Which queries
reach which release is `ReleasesAsked` for the machine itself and `ReleasesHinted` for
a version that names a distribution.

It rests on `TextsAssumption` (texts are in an order), `AnswersAssumption` (a record
answers for something that was asked, under one of the ecosystems the machine can be
asked about, and its parts are lists) and `HostsAssumption` (a machine is recorded by
its release, or by its distribution's bare name). None is about which packages,
versions or records there are.

*Bugs* (`UpstreamBugs`), for any series, any numbers in them and any history of a
bug, from `BugAssumption` (series are finitely many, and one number is the last):
`UpstreamIsRight` (`SeriesDecides`). `BugInv` says that a verdict is `UpstreamVerdict` of
the record of what happened, so all there is to prove is about that operator: that
the ranges made of a bug, told in any of three ways, tell of it
(`RangesTell`, `JoinedStretches`), and then that the kernel's own series decides
(`OwnDecides`) or, where it is not named, the ranges do (`RangesDecide`).

*Scores* (`Cvss`), for any vectors to begin with and any metrics varied, from
`StartAssumption` (a vector is of version 3 or 4, and says of that version's metrics
what they may say or what none may): `ReadableAreScored` (`ScoredIfReadable`).
`VectorInv` says that a vector stays one and that its score is `Score` of it, so all
there is to prove is about the equations, for every vector there is, where TLC has the
few thousand of the instance. In v4, what a vector says of each metric gives
the six levels and what they say of the metrics again (`MacroVectorIs`); the table has a
score for every MacroVector that comes up (`LookupIn`); on each axis one of the most
severe vectors of its level is not exceeded (`WayDownOn1` to `WayDownOn4`, a case for
each value of the metrics); and the mean over the axes, clipped and rounded, stays within the
scale (`V4ScoreIn`). In v3, what is summed is a number and rounds into the scale
(`V3ScoreIn`). `ReadableIs` has that a vector says all it must exactly if its version's tables
can be consulted.

*Feeds* (`KernelFeeds`), for any contents and refreshers, which overlap as they like:
`TagsAreKept` (`TagIsOfTable`). `FeedInv` adds what a refresh asked about: as long as
no table was stored since (it is not in `overtaken`), and none of those that were
overtaken has recorded its tag (`mistagged`), that is the tag of the stored table, or
none.

*Kernels* (`Kernels`), for any systems, images, feeds and histories, from
`ImagesAssumption` and `ServedAssumption`: `CheckedKernelsWere` (`CleanIsAssessed`) and
`KernelsAreAccounted` (`KernelAccounts`). `KernelInv` says that what the last scan looked
up is what the feed it read, and the switch as it stood, let it, and that neither has
changed since unless the scan knows (`since`). `AccountInv` says that the scan's counts
are of what `Found` finds for one image of each kernel, and what it lists is the rest;
that `Found` is right about an image is proved publisher by publisher (`UbuntuHits`,
`OracleHits`, `AmazonHits`, `RecordHits`). `ImagesAssumption` has that a name in a version
is one image, and a version one kernel, as
`unchecked_kernel_package_counts` (`data/repository.py:341`) takes it; `ServedAssumption`
that what is published is finite, its builds are numbers, and where a publisher has
one record for a CVE it has one.

Proved and not among the runs' properties, since the theorem says more: `TypeOK`,
`OneOwner` and `ScansOnlyRunning` of `ScanJobs`; `CountsAddUp` and
`RowMatchesHistory` of `ScanHistory`; `DigestIsOfCache` and `StaysUsable` of
`FeedRefresh`; `OneScheduledScan` of `ScanSchedule`; and the inductive invariants
`IInv`, `AllowanceInv`, `HInv`, `SyncInv`, `FInv`, `SlotInv`, `LookupInv`, `Lifetimes`,
`FollowInv`, `ThrottleInv`, `MigrateInv`, `FoundInv`, `BugInv`, `VectorInv`, `FeedInv`, `KernelInv` and
`AccountInv`.
Each was first checked by TLC, on the instance of the run (`FoundInv` without
`answer \in Answers[host]`, which no step touches and whose set is large).

Model-checked only. Liveness (the two `Converges`, `EveryJobEnds`,
`EveryHandoffAnswered`, `DueIsHandled`, `EveryConnectionEnds`, `EveryLookupEnds`) is out
of the prover's reach. `VersionOrdersTotal` is about loops over characters (`Versions` is
recursive), where induction over data is out of its reach. `NeverLower` compares the
scores of two vectors, which may be of two MacroVectors: it would be a theorem of the
270 scores of the table, pair by pair, and of a fifteenth power. `DoneIsHead` on an empty
database, where two processes may make every table at once, stays with the run: it
holds of two and not of three, so the theorem is of the others.

## Known divergences

Where the code does not do what it, or a document, says. The two with a run of
their own are `scan_history_feed` and `feed_skip`. The others below are stated as
definitions and can be seen by adding the definition as an INVARIANT to the
configuration named, or changing the constant named; or they were met while
modelling, and the property concerned leaves the case out.

- *A cancel in the window before a request waits.* `ScanJobs.HandoffGetsEveryOutcome`
  (`ScanJobs.cfg`): a cancel between the commit of `create_job`
  (`services/scan_jobs.py:168`) and `_waited_on` (`:427`) ends the job first, and
  the request then answers without its hosts, against the comment of lines 62-63.
- *A failure nobody records.* `ScanJobs.FailureRecorded` (`ScanJobs.cfg`): what
  fails before `run_job` has marked the job is logged at `services/scan_jobs.py:461`
  and the job reads as queued until the next start. So it does when the commit of a
  cancel fails (`:323`) after `run_job` found the credentials gone and left the job
  to it. `EveryJobEnds` leaves these jobs out (`Abandoned`).
- *A cancel of a job that has ended* leaves its id in `_cancel_requested`
  (`services/scan_jobs.py:304`); nothing reads it again.
- *Two syncs at once.* The older of two reads may be written last, and its rows
  read `SYNCED` (`services/sync.py:200`, `requirements.md:105`). No route keeps two
  apart. `SyncedIsOnline` excepts the text of these rows (`contested`), and `sync`
  violates it with the exception taken out.
- *The server key of a machine* is recorded without marking the row as pending
  (`RecordServerKey`); `SyncedIsOnline` speaks of the other fields.
- *A finding marked as not listed that was never looked up.*
  `FeedRefresh.AbsentWasSaid` (`FeedRefresh.cfg` with `Matched = {one, other}`): the
  map of signals is of the CVEs that were stored when the reapply began
  (`services/enrichment.py:632`, against `:613`), and a finding written before the
  findings are read (`:640`) is not in it: it reads as not listed, whatever the catalogue says.
- *A kernel feed's tag of another table.* `TagIsOfTable` without its `~mistagged`
  (`Matching.cfg`): a slow refresh holds an old content; another stores the new one
  and finds it unchanged later; the slow one stores the old; and the other's tag is
  recorded with it (`services/enrichment.py:308`), after which nothing is
  downloaded until the publisher changes. `TagIsOfTable` excepts the time from that
  step to the next table that is stored, and no other overlap.
- *A package command that fails part way.* `Collect.NeverTruncated`
  (`Collect.cfg`): the exit status is not looked at (`scanner/collectors.py:449`),
  and a command that is killed leaves an output that parses, against the docstring
  at `:420`.
- *A page token with an empty page.* The batch reads the query as one with no ids
  (`scanner/osv_client.py:942`, against `:906`), and caches it as clean.
  `NothingMissed` excepts these names (`blank`), and `osv_lookup` violates it with
  the exception taken out.
- *A package version that names another distribution* overrides the host's own
  ecosystem (`scanner/osv_client.py:822`), and nothing of the host's distribution is
  found for that package. `AskedWhole` says exactly when (`Misled`).
- *Another distribution's fix on a machine without releases.* An Arch machine is asked
  about under ten trackers, and an entry of the one that was asked counts as its own
  (`scanner/osv_client.py:450`): a Wolfi fix is offered there as installable, where
  the docstring at `:406` has that a fix from another release never is. `FixIsTheHosts`
  says of such a machine only that the fix is of no release.
- *A name in two versions for which different packages answer* is merged by its name
  (`package_identifier.py:62`, `scanner/osv_client.py:1142`) before it is moved, so a
  CVE of both versions is reported for one of the two packages, also where they are
  built from different sources, each of which Req 2.8 has reported. `OneFindingEach`
  counts a record where any of its name's versions is reported (`Siblings`).
- *A kernel of the series a bug came to by a stable backport* may be reported before
  it has the bug, since the fix decides alone; `SeriesDecides` says so.
- *An OSV answer in part* still counts the kernel's CVEs, and records none of those
  that were not answered; and `kernel` and `kernel-core` of one version share one
  count. `KernelAccounts` takes a kernel's packages as one.
- *Enrolling a machine that was scanned* resets its status to `NEVER_SCANNED`, which
  `enums.py:70` keeps for machines that were not; `RowMatchesHistory` leaves that
  machine out.
- *Two first-run set-ups at once* with different names can each make an account
  (`auth/service.py:210`); the module allows it and `CodeUntilAccount` does not
  count accounts.
- *A sign-in being verified while the password is reset* starts its session
  afterwards, under the old password; `EndedStaysEnded` is about sessions there were.
- *A delay that overflows.* `2**over` of a float at 1024 failures past the free
  ones raises after the failure was counted and before a lock is set or the address
  counted (`auth/throttle.py:88`): the account and the address that tries it are no
  longer slowed down. `WorkIsBounded` excepts the two until a sign-in succeeds
  (`overflowed`), and no other key.
- *The end of a job told twice.* A cancel that is answered while a poll is under way
  tells of the end as the poll does, and a stale answer may take the page from
  another job (`src/frontend/src/lib/useScanJob.ts:111`, "exactly once");
  `EndToldOnce` excepts the jobs that were asked about by another request just when
  their end was told, or by the timer of a job that was left (`doubled`), and those
  given up for another (`left`). It holds of every job of overlapping requests
  otherwise.
- *A database no start can upgrade.* A stop inside `create_all`, before the stamp,
  or between statements that commit by themselves and the first that writes a row,
  leaves tables the next start tries to create again; it fails, each time,
  against "Safe to call on every startup and idempotent". On an empty database two
  processes at once can leave two rows in `alembic_version`; and with one of them
  stopping half-way, or with three, one may finish with a schema that is not the
  classes' (`torn`, which `DoneIsHead` leaves out; the run has two).
- *The journal mode* may be changed by another process after it was chosen, and
  stopping then skips the checkpoint (`data/sqlite_journal.py:188`). Not modelled.

## Not modelled, and why

- The NVD client: no deployment configures it. WinRM: as the collectors, without
  their watchdog.
- The parsers of OSV, NVD, OVAL, CVE records and package lists; schemas, views and
  the routes that only read: they shape data and keep none.
- Password hashing and the rehash of an old hash, cookies, the checks of the
  origin, and the backup command: a step each, of a library or of the file
  system.
- PostgreSQL, and SQLite's journal mode: which mode a second process is granted
  depends on locks outside this code.
- Demo mode and its seed, the sweep of a network, the React views, the shell of the
  deployment: no state of the server's, or none that another part reads.
- The inventories' packages and the dependency paths: each scan replaces them in the
  transaction `ScanHistory` has.
- `services/remediation.py` but for its writes: nothing there outlives a
  transaction.
