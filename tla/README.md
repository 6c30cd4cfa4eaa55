# pagasa-pp-cli in TLA+

`pagasa-pp-cli` is a command-line client (and an MCP server around it) for a public weather
site. Fetching and formatting is the small part of it. The large part is state that many
short-lived processes share without a server between them: a SQLite file with mirrored
resources and the *learn loop* (learnings, playbooks, quarantined candidates), an append-only
journal of invocations with a derivation offset, a response cache, rate-limit ledgers and
profile metadata. Every invocation is a process of its own; agents run several at once, put
some in the background (`teach ... &`) and kill them. This directory specifies that shared
state, checks it with TLC and proves its main properties with TLAPS.

## The system

| component | state | operations | interacts with |
|---|---|---|---|
| Candidate quarantine (`store/candidates.go`, `cli/learnings_candidates.go`, `learn/synthesize.go`, `cli/teach.go`) | table `learn_candidates` | derive, confirm (three forms), reject, expire, purge, promote on teach, synthesize, refresh | writes playbooks in its transactions; fed by derivation and synthesis |
| Playbook table (`store/playbooks.go`, `cli/teach_playbook.go`, `cli/playbook_init.go`) | table `learning_playbooks`, one row per query family | upsert, append a note, seed from the binary | written by teach, amend, confirm and the seeding |
| Invocation journal (`learn/journal.go`) | one segment file per day, an offset file | append (repair tail, write, clean up), read from an offset, load and store the offset | appended to by every command after it has run |
| Flag-correction derivation (`learn/derive.go`, `cli/root.go`) | none of its own | one pass after each command outside the learn family | reads the journal twice, derives candidates, stores the offset |
| Store opening (`store/store.go`, `store/extras.go`) | schema stamp, tables, full-text index | version probe, connect, version check, one migration transaction with busy retries | every command that touches the database, of any release |
| Synced resources (`store/store.go`) | `resources`, `sync_state`, junction tables | upsert (batch), reconcile a partition, cursors | full-text index |
| Learnings and recall (`store/learnings.go`, `learn/recall.go`, `learn/match.go`) | `search_learnings` | upsert with confidence, forget, match and rank | journal (family of a recall), telemetry |
| Telemetry (`store/events.go`) | `learn_events`, capped | insert and prune, aggregate | every learn command |
| HTTP client (`client/client.go`) | response cache directory, content type of the last answer | request with retries, cached get, invalidation after a mutation | both limiters, the tenant gate |
| Endpoint ledger (`platform/ratelimit.go`) | one ledger and one lock file per endpoint class | reserve a token, break an abandoned lock | all processes of a profile |
| Adaptive limiter (`cliutil/ratelimit.go`) | pace of one process | wait, observe headers, raise, halve | HTTP client |
| Fan-out (`cliutil/fanout.go`) | worker slots of one call | run, cancel, collect | commands over several sources |
| Platform gate, receipts, legacy migration (`platform/*.go`) | profile metadata, receipts and their index, legacy files | verify, bind, write, back up, adopt | HTTP client, store |
| MCP server (`mcp/*`, `cmd/pagasa-pp-mcp`) | tool registry, subprocesses | list, call, bound the output | runs the CLI |
| Text analysis, extraction, formatting, paths | none | pure | everything |

What makes it hard, and what makes each part correct:

* **No server, no common lock.** A command is a sequence of SQLite statements, transactions and
  file operations, and any other process may run between two of them. SQLite makes one
  transaction atomic; nothing makes a command atomic. *Correct*: captured text reaches a
  verified playbook only together with a judgment of the row that holds it; a tombstone is
  never lost; a purge costs no open row.
* **Ids that come back.** `learn_candidates.id` is reused after a purge, and a confirm works by
  id. *Correct*: what a confirm marks is what it printed. (It is not, if a purge intervenes.)
* **A log with a cursor and no lock.** Appends, retention, passes and offset writes interleave;
  a kill may leave half a line. *Correct*: a pass may repeat work and may never skip any; the
  family under which a correction is filed is that of the last recall before it.
* **Two clock readings.** A segment is named by one, the file written later. (A line can land
  behind the offset at midnight.)
* **Binaries of several releases on one file.** *Correct*: the stamp never goes down and never
  promises what the file lacks; no migration loses a row; every open comes back.
* **Lock files.** A killed process leaves its lock, and the others must decide that it is dead.
  *Correct*: the budget holds across processes and nobody waits forever. (It does not when two
  waiters find the same abandoned lock.)
* **Answers that do not arrive.** A request whose answer is lost may have been performed.
  *Correct*: an unsafe write is sent once, a retry waits as long as the server asked and all
  retries fit into one budget; a cached response is bounded in age whoever wrote it.
* **Pages published, fetched and cached apart.** *Correct*: commands that read the same two pages do
  not contradict each other, no signal is understated, a correction by the station is not undone,
  drift goes forward.
* **What was learned is read with other tables than it was written with.** *Correct*: what was taught
  is recalled, and only a result about something alike lets the agent skip its search.
* **Start-up work and one-time work in every process.** Seeding, pruning, sweeping and migrating
  files run in many processes at once and are killed. *Correct*: the sentinel is true, an amendment
  stays, a sweep deletes only what the server no longer lists, no legacy file is lost.
* **Cancellation.** *Correct*: every source of a fan-out gets one outcome, and the call returns.

## Modules

| module | what it is |
|---|---|
| `CandidateQuarantine` | abstract: what the candidate table promises. A verdict per derivation signature and the set of signatures whose text guides an agent; judging is the only action that adds guidance |
| `Playbooks` | the playbook table as operators on a set of rows (upsert that keeps empty columns, append) |
| `Candidates` | the candidate table and every command on it, one action per statement or transaction; refines `CandidateQuarantine` |
| `CandidatesProofs` | type correctness of `Candidates`; the quarantine and the shown row, while nobody purges |
| `CandidatesRefinement` | `Candidates` implements `CandidateQuarantine`, while nobody purges; what no step does to the two tables, purges included |
| `FlagCorrections` | the pairing rule as operators on a journal: who corrects whom, what holds a batch, which recall anchors a correction |
| `JournalDerive` | the journal files and the processes that append, clean up and derive |
| `JournalProofs` | the pairing and its anchors for every journal; nothing is skipped while no clock reading is stale and the window is not at its last second |
| `StoreOpen` | opening and migrating the database by processes of several releases |
| `StoreOpenProofs` | its invariant and four theorems |
| `EndpointLedger` | the token ledger and its lock file, used by several processes |
| `LedgerProofs` | the lock and the budget, while no two processes can find one abandoned lock |
| `HttpRequest` | one call of the HTTP client with its retries, against a server that loses answers, fails and refuses |
| `ResponseCache` | the cached GET and the invalidation after a change, by several processes |
| `WeatherHistory` | extends `ResponseCache` by the snapshots that `now` and `digest` save and `history` and `drift` list |
| `AdaptiveLimiter` | the pace of one process, shared by its goroutines |
| `ClientProofs` | `HttpRequest`, `ResponseCache` with `WeatherHistory`, and `AdaptiveLimiter` |
| `StormReports` | what `watch`, `approach` and `storm` say of two pages |
| `StationCapture` | captures of the station table into `aws_obs` |
| `RecallSurface` | which candidates a recall shows |
| `McpPages` | a list read page by page through the MCP server |
| `ReadingProofs` | `StationCapture`, `RecallSurface`, `StormReports` and `McpPages` |
| `Fanout` | `FanoutRun`: feeder, channel, workers, cancellation |
| `Learned` | teach, teach-lookup, teach-pattern, forget and recall |
| `PlaybookSeed` | the seeding of embedded playbooks, on `Playbooks` |
| `ResourceMirror` | listing, write-through and sweep of mirrored resources |
| `ClientMigration` | `client migrate`: adoption and backup of legacy files |
| `LearnEvents` | the events, their pruning and the statistics over them |
| `LocalSideProofs` | `Fanout`, `ClientMigration`, `PlaybookSeed`, `ResourceMirror`, `Learned` and `LearnEvents` |
| `MC*` | instances for TLC |

### Candidates

`cands` is the table as a set of rows, `playbooks` the playbook table, `job[p]` the command a
process is running with what it has read so far. An action is one SQL statement or one
transaction, with everything the code does up to the next one:

* `UpsertCandidate` is the single upsert of `DeriveCandidate`: insert, bump (reopening an expired
  row) or, for a tombstone, nothing. `FreshId` is what SQLite does for `INTEGER PRIMARY KEY`
  without `AUTOINCREMENT`. `DeriveFlagAlias` is an observation of a derivation pass; the pass
  itself is `JournalDerive`.
* `ConfirmShow`, `ConfirmCommit`: `learnings confirm` reads and prints, then confirms by id.
  `ConfirmWithPlaybook` and `ConfirmWithNote` are the two transactions, which check status and
  class again but use the payload read before. (With `--json` the printing happens after the
  transaction; the row printed is the one read before it either way.)
* `PurgeExpire`, `PurgeDelete`: the two statements of `learnings purge`.
* `PromoteList`, `PromoteNext`, `PromoteRow`, `SynthesizeGate`, `SynthesizeDerive`,
  `SynthesizeReadback`, `SynthesizeRefresh`: what `teach` does after storing its learning.
* `Age` lets an open row pass the TTL; `Crash` ends a command anywhere.

Data: a payload is the signature it was derived for and its number of steps; notes are the
sequence of pieces they were put together from; a class is the kind of signature. Sightings
above `MaxSightings` are one value, because the code only ever asks whether there is one.

### FlagCorrections and JournalDerive

`segments[d]` is the file of day `d`: its complete lines and whether a torn piece follows them.
`offset` is the offset file. A position is a day and a line, so offsets are line numbers where
the code has bytes. `Invoke` reads the clock and names the segment, `RepairInspect`, `RepairHeal`,
`Write`, `WriteTorn` and `Cleanup` are `AppendJournalEntry`, `LoadOffset`, `Read`, `ReadSeed`,
`Decide`, `Derive` and `StoreOffset` are `DeriveFlagCorrections`, and `Abort` is a kill or any error,
after each of which the pass stops. The journal is read twice: `Read` takes the batch and pairs it
(`InBatch` anchors a pair by a recall of the batch), `ReadSeed` looks for the recall before the offset
that anchors the other pairs (`Seeded`). Between the two, lines are appended and segments removed, and
the second read leaves out what it cannot read (`unread`). The clock has `Second` ticks to the second.
A line is stamped in whole seconds (`Stamp`), while `Decide` compares the stamp with the clock as it
is. `sighted` splits the sightings column by observation, so that it
can be said which observation was counted. Simplified: the files of one read are read at one
instant, retention is one step, a torn prefix never happens to parse, and whether two entries
name a correction (did-you-mean, the one new flag) is part of an entry's kind. A family of learn
commands is represented by `recall`, whose entries carry a family and run no pass.

### StoreOpen

`db` is the committed content of the file: stamp, key of the resources table, rows, how the
index finds each row, and the schema versions whose tables exist. `writer` holds SQLite's write
lock from `BEGIN IMMEDIATE` to commit or rollback. Since the migration is one transaction its
effect, `Migrated`, appears at `Commit`; it is computed from the version read under the lock,
with the three version gates in the code's order. `Busy` is one round of `retryOnBusy`;
`MaxRetries` stands for the deadline. `Leave` is an error, a cancellation, a kill or a close.

### EndpointLedger

`ledger` is the ledger file, `lock` the time at which the lock file was made, `job[p]` a call of
`Wait`. A token is `Interval` units, so that a tick refills `Steady` units and nothing is
fractional; `Refill` is the `math.Ceil` of the code. `Acquire` is the open with `O_EXCL`,
`FindStale` the `stat` that finds an old file and `Break` its removal, `ReadLedger` the reading of
clock and file with the arithmetic, `WriteLedger` and `WriteFails` the replacement of the file,
`Release` the removal of the lock, with the sleep that follows it: the slot is recorded as granted
unless the sleep is cancelled. `GiveUp` is a context that ends while polling. The lock file has no
owner, as in the code: `Break` and `Release` remove whatever file is there. The guard of `Tick` is
an assumption about the environment, that reading and rewriting one small file takes less than the
two minutes of `Stale`; without it a living holder's lock could be broken.

### HttpRequest

`call` is one run of `doInternal`. `Begin` is everything before its loop, `Send` the end of the waits
of the two limiters, `Lost`, `Answered`, `ServerError` and `RateLimited` the four ways an attempt
ends, `Woken` the end of `sleepContext`. `MayRetry` is the condition of the three retry branches, with
`RetryWithinBudget` counting the time since the first attempt. The server is external; `performed`
counts what it did, which the client cannot see. Time passes only where the client waits, up to the
bound that wait has in the code. Headers and bodies are left out; of an idempotency key only whether
there is one.

### ResponseCache and WeatherHistory

One cached resource, several processes. `Get` looks at the file's age, `ReadFile` reads whatever file
is there by then, `ServerAnswers` and `Arrives` are the fetch, `Arrives` and `FillFile` the two
halves of `os.WriteFile` (truncate, then write; an error of either is ignored, so that the body may be
written in part or not at all), `Post`, `PostApplied` and `ClearCache` a change and
`invalidateCacheAfterMutation`. `file.node` counts the removals at the place, which tells a file from
one created after it was removed: a writer that still holds the removed one is without effect. A server may answer with nothing, which is cached like any body. `file.spoiled` says
that a process which had this file open was killed, could not write or had nothing to write; it leaves an
empty entry that is served for the whole lifetime, and `BlankIsTransient` is about all others. The content type and the platform
envelope stored beside the body are left out. `reader[p].since` is the command's own timeout. The
age of an entry is that of the file, so what is served may be as old as the lifetime plus one call,
which is what `ServedFresh` says. `WeatherHistory` files what a call got under the time the command
took it (`digest` before its fetches, `now` after). Snapshots exist only of whole pages.

### AdaptiveLimiter

Rates are whole requests per `Period`, times are relative to now. `Reserve` is the critical section of
`Wait`, `SendAtSlot` the end of its sleep, `RateAnswer` what `doInternal` tells the limiter, headers
first. Slots are rounded down, as `time.Duration` does. `gap` is the distance of the last two slots.

### StormReports

`page` is what PAGASA publishes on two pages, at different times, `fetched` what the parallel fetches
brought (each the published page, the cached copy, a page of an unknown layout, or an error) and
`report` what the three commands would say of the same two results. HTML is abstracted to what the
parsers find in it. They look for each panel on its own and leave what they do not find at its zero
value, so a page comes with any part of it missing (`SynopsisOf`, `StormDetailOf`), of the signals any
rows.

### StationCapture

`Fetched`, `Stored` and `Pruned` are the page, the batch upsert and the prune of one capture.
A reading is keyed by station and the time stamp on the page; a stamp that cannot be parsed drops the
row. `newest` is what the property needs to say which capture fetched last.

### RecallSurface

The query of `surfaceCandidates` with its `ORDER BY` and `LIMIT` (`Scanned`), and the ranking by tier
and cap that follows (`Surfaced`). Candidates come, are seen again and are confirmed. The query knows
only one of the three tiers, so a row whose command the playbook runs may be cut by the limit; the
property is therefore about rows of one tier, and about the asked family.

### McpPages

`api` is what the API lists, page by page; `CallTool` one call with the cursor of the one before,
its disjuncts the outcomes of `fitJSONPageItems` and `boundedPageListEnvelope`. Bytes are small
numbers: of an item, of the other fields of a page, and of the marks a cut result carries. The length
of the marks, which varies with that of the cursor in them, is one number (`Note`).
An invalid cursor is an error and changes nothing.

### Fanout

`Feed` and `StopFeeding` are the two cases of the select, both possible when both are ready; `Pull`,
`CheckCanceled` and `CallReturns` the body of a worker; `FanReturn` follows `wg.Wait`. `slots` are
the result and the error of each source.

### Learned

A query is a set of capitalized and plain words. `PatternOf` is the key the store files it under,
`Entities` what `Normalize` and `PromoteEntities` make of it. The two sides have normalizers of their
own: a word in `Odd` is not kept whole by the store's (a hyphen, a letter beyond a to z), one in
`Dropped` is a stopword of the store's only. `TeachBegins`, `TeachFiles` and `TeachInfers` are the
three transactions of teach; `Hits` and `PatternHits` are `Recall` and `patterns.Apply`, with the
thresholds of the code in tenths. `ClassifyEntityMatch` compares entities by `strings.Contains` either
way: `Within` says which words are part of which (`Alike`). `Results` are the answers a recall may
give, the first `Limit` of what it found in the order of `Precedes`. The fields a resource is compared
by are none, as registered in this CLI, so a resource that is in the store is never an exact match; no
tickers are registered either. Boosts by use and the refresh of lookups from synced data are left out;
the first only orders results whose match, source and confidence agree, which here may come in any
order, and the second has no caller.

### PlaybookSeed

`seeder[p]` goes through the embedded entries of its own release: `SeedReads` (the notes of the row,
`Preserve` if they carry an amend marker), `SeedUpserts` (on `Playbooks`), `SeedEnds` (the sentinel).
`heard` are the amendments no seeding had to overlook. The embedded directory of this build is empty;
`Seeds` are bases as the tests of the code make them, one of which does not parse in the first release.

### ResourceMirror

Rows are keyed by the bare id, because `resourceParentKeyColumns` is empty: of an item that two parents
list there is one row, whose data name the parent it was last written for (`Replaced`). `FetchPage` is
one round of `paginatedGet` with its four ways to tell that there is more, `Cut` the ends it marks as
truncated. An answer may also have another form than its endpoint declares (`Forms`: a bare array, or
no usable signal) or hold no items where they are looked for; then the enumeration ends without a mark,
and `whole` is false. `SyncStores` is `UpsertBatch`, `Sweep` is `ReconcilePartition`.
`WriteThrough` is what any live read does. This release has no sync command: the caller is modelled
by what `ReconcilePartition` asks of it.

### ClientMigration

`file` is what is at each of five places, with the tenant a database belongs to. The steps of
`client migrate` follow the code: inspection, gate, profile, adoption (with the `VACUUM INTO`, which a
kill may leave half-done), the checks before the first rename, and the renames with their rollback. A
copy is removed when it turns out bad, and also when it is good and its chmod, its opening or the update
of its metadata fails (`CopyVerified`). The status `backed_up` stands for a file that has a path of its
backup: a later run passes over it and goes on to the other file. `raced` says that a process copied, or
adopted, while another one was copying.
This CLI registers no tenant source, so the command ends before the gate; the code behind it is
modelled as it would run.

### LearnEvents

`events` are the rows of the table; as in SQLite without `AUTOINCREMENT`, the next id is the largest
plus one (`NextIds`), so a prune or a cascade can free it. `client[p].todo` are the statements a
command has yet to execute, or `StatsSteps` the statement at which `learnings stats` is. Rows of `search_learnings` are numbered and never numbered again.

## Runs

| run | expects | what it shows |
|---|---|---|
| `CandidatesJudged` | pass | two processes, one playbook family, two flag corrections, nobody purges: `QuarantineHolds`, `ConfirmsWhatItShowed`, and the table implements `CandidateQuarantine` |
| `CandidatesPurged` | pass | the same with purges, so with ids reused: `TombstonesHold`, `OpenRowsSurvive`, `PromotionIsAtomic` |
| `CandidatesBlessed` | violation | with purges `ConfirmsWhatItShowed` fails: print, reject and purge by another process, a new derivation takes the id, commit |
| `Journal` | pass | no correction behind the offset is uncounted, unless it came in the last second of its window; a success corrects one failure; batch and seed, read one after the other, anchor a correction to the last recall that is still there |
| `JournalCounted` | violation | an observation can be counted twice |
| `JournalMidnight` | violation | an append caught by midnight is skipped for good |
| `StoreOpened` | pass | two releases, three processes, files of four eras: the stamp never falls and is true, rows survive, opens return |
| `LedgerPaced` | pass | two processes, one of which may be killed anywhere: no stretch of time gets more requests than the budget, and no one waits forever for the lock |
| `ReadSide` | pass | eight scenes: an unsafe write is performed once, calls end in time and heed the server; the cache's age, entries and blanks; drift in order; the storm commands agree and understate nothing; the limiter is polite and does not starve; corrections win; proven candidates are shown; the walk through a list is complete |
| `LocalSide` | pass | six scenes: fan-outs account for every source and return; what was taught is recalled and a skip is justified; the seeding is complete and keeps amendments; a sweep spares what is listed; legacy files are recoverable and move only after their copy; a report adds up |
| `WatchClear` | violation | with both pages unread, `watch` says that no signal is in effect |
| `LedgerBroken` | violation | three processes: two find the lock of a killed third, both get past it and are given one slot |

**Bounds.** Two processes suffice for the races looked for: each is between one command's two
steps and one other command (purge, derive and reject need no step of their own in between and
may happen any number of times). One family and one or two corrections make all commands meet on
the same rows, and one taking over the id of another needs two candidates. `MaxSteps` 2 lets an
episode be shorter or longer than another. The run `Journal` has two ticks to the second, days and a window
of two seconds and a retention of one day, so that corrections inside and outside the window and in its
last second, a rollover and a deletion of a segment fit into three lines and five ticks; at most one
line is damaged, on the first day (`OneTorn`). `StoreOpened` starts
from a fresh file, from the two old row-id schemes and from a file of the older release.
`LedgerPaced` has a burst of two and three requests of each process, so that the bucket runs
empty, goes into debt and is full again after an idle stretch; a rate of two requests in three
ticks makes a refill fall between ticks. A process is killed only while the clock (`MaxNow`) still
has room for its lock to become old. `LedgerBroken` has the third process, which two waiters need.
Processes, and corrections where they are alike, are symmetric; the runs with symmetry check no
liveness.

`ReadSide` and `LocalSide` explore components that share no state one after the other: `scene` picks
one, the others stand still in an initial state, so that the state space is the sum and not the product.
The cache has two scenes, one with changes, kills, failed writes and empty answers, and one with snapshots
and none of these. Their bounds: two retries
of a budget of five seconds, so that both the count and the budget end a call; two readers, a
lifetime and a call of one unit each in five units; a storm that changes twice, two areas and two
signals; two callers and rates from the floor to three times the start, with and without a cap; three
captures of two stations around midnight; three candidates with room for one; two pages of up to
three items, some too long; a fan-out of six sources over two workers, so that the channel of four is
full with sources left; five queries over six words, one of them a part of another, one
odd and one a stopword of the store only, two teaches, one lookup and room for one result; two releases, one
amendment and two seeders; three ids of two parents on pages of one item with a limit of two pages;
two migrations from every combination of legacy files, older backups and targets (one old backup at
most); three recording commands beside one report. Each lets the hazard happen
that its property is about: a mutant of the code violates it there. The tables in `MCReadSide` and `MCLocalSide` give the data.

**Deadlock** is checked where the system goes on forever (candidates, store). The clock and the
number of lines end every behaviour of the journal runs, and the number of requests those of the
ledger runs, so there it is not. In `ReadSide` and `LocalSide` a call, a fan-out, the clocks and the changes come to
their end, so there it is not either.

**Fairness** is assumed in `StoreOpen`, `EndpointLedger` and `Fanout`. In the first, a process that is opening the store takes its next
step. Nothing forces a lock holder to let go other than its own steps and its own deadline, and
a `COMMIT` or `BEGIN` may be busy as often as the deadline allows; `OpenReturns` holds because
the retries are bounded. In the second, the clock runs and a process that can take its next step
takes it: the polling loop of `acquireLedgerLock` is a `for` with a sleep of ten milliseconds, and
the holder of the lock waits for nothing. Nothing forces a request, a kill or a cancellation, and
no strong fairness is needed: the requests of the other processes are finite in the model, so
`NobodyStuck` does not say that the lock is handed out fairly. In `Fanout` the
feeding goroutine and each worker take their next step when they can, which is the Go scheduler's
promise, and `fn` returns, which `FanoutRun` asks of its caller; nothing forces a cancellation.
The other modules state safety only: no code waits for anything there, or only for a time.

**Slow.** With `Slow = FALSE` the clock does not advance between reading it and using the
reading. `JournalMidnight` sets it to `TRUE` and shows what the difference costs.

## Proofs

`CandidatesProofs!TypeCorrect` proves `Spec => []TypeOK` for all processes, families, corrections
and bounds. `TypeOK` alone is not inductive: a promotion upserts a playbook under the family of a
row, which must not be the empty family, and a synthesis derives under the family a teach
resolved. The invariant adds that playbook candidates are anchored (`Anchored`) and that a teach
in progress has a family (`TeachResolved`). Assumptions: `ConstantsDistinct` and
`BoundsAssumption` of `Candidates`.

`CaptureIsQuarantined`, `ConfirmsTheShownRow` and `CandidatesRefinement!TableImplementsQuarantine`
assume `~PurgeInUse`, without which `CandidatesBlessed` refutes them. A command works with copies
of rows it has read, by id, while the table moves on; so the invariant `SafeInv` says what a copy is
still worth. Every copy is of a row that is there with the same id and signature (`HeldRows`: rows
change status, never identity, and none is deleted); payloads are of the signature they are stored
under, and a synthesis about to refresh holds rows of its own family only (`PayloadsOwn`); a family
has one playbook (`OnePlaybook`); no purge is under way (`NoPurge`). No interleaving, purges included, makes two rows with one id or one signature (`UniqueRows`, the lemma
the others rest on), and it follows that
the open row a confirm finds is the row it copied (`SameRow`), hence the signature whose text goes
into the playbook is the one being confirmed. For the refinement, lemmas about a table `C` (applied
to `cands` and `cands'`) say how replacing or inserting a row changes the verdict of each signature,
and `UpsertGuidance` and `AppendGuidance` bound what a playbook statement adds to the guidance; each
action then maps to `Observe`, `Judge`, `Dismiss`, `Expire`, `Edit` or a stutter.

The second part of `CandidatesRefinement` needs no restriction on purges. Every statement but the second of a purge leaves each
tombstone as it is and each row's id and signature in the table (`RowsStand`), and the second of a
purge deletes no open row, because it looks at the status the row has then: hence `TombstonesHold`
and `OpenRowsSurvive`. `BooksChange` says of every step which captured text it can add to a playbook;
with one playbook per family, an invariant of its own, `PromotionIsAtomic` follows.

`JournalProofs` is about the operators first. `PairingIsInjective`: of two failures the later one
comes between the earlier and its next invocation, so no success is next to both. `BatchAnchors` and
`SeedAnchors`: what a pass carries from one read to the other is anchored by the last recall of the
batch if there is one, and the second read gives what is left the last recall up to the offset. They speak of the last of a set of positions, which exists because days and lines are
bounded; the provers get that from the well-foundedness of the naturals, applied to a set. With the
types, which are inductive (`JournalTypeCorrect`), `OneFailurePerSuccess` follows for every state.
`AnchorsAgree` needs an invariant about the passes between their two reads: what was appended or
removed meanwhile has not changed which recall before the failure is the last that is left (`AnchoredBy`). `NothingSkipped` is not inductive: it says nothing of the offsets that
passes carry, nor of failures whose next invocation is still to come. The invariant `ScanInv` says of
each offset, stored, loaded or about to be stored, that it is settled (`SettledAt`): every pair whose
success lies at or before it is counted, or about to be by the pass that carries it, and every failure
there that nothing follows yet is out of its window for good, or waits for the decision of the pass.
An append keeps this since lines are only added behind the end of the present day's segment (`Edge`),
which no offset is beyond; a cleanup since it removes a prefix (`TrimmedSettled`). A pair
counts whose stamps are less than the window apart: in the last second of the window the clock of a pass
may be beyond it while a correction is still stamped inside. Both theorems assume
`~Slow`: a line is written on the day and at the time it is stamped with (`Stamped`), and the clock a
pass decides by is the one of its read. `JournalMidnight` shows that it fails otherwise.

`StoreOpenProofs` proves `StoreTypeCorrect`, `StampStaysTrue`, `NoDowngrade` and `NoRowLost` for
any processes, releases, rows and first versions, from `ReleasesAssumption`. The argument is the
one the comment in `migrate` makes: from the second read of `user_version` to the commit the
process holds the write lock, so what it has read is still the version of the file (`LockHeld`),
and since it did not reject that version its own stamp is not lower. The truth of the stamp then
follows from what each version gate rewrites (`MigratedSound`).

`LocalSideProofs!NoSourceDropped` proves `EverySourceAccounted` for any number of sources and any
finite, non-empty set of workers (`FanoutAssumption`). The invariant `FanInv` follows each source:
while it is yet to be fed, in the channel, or with a worker (`Open`), its slots are empty, and
otherwise it has exactly one outcome (`Outcomes`); it is in one place at a time (`OnePlace`) and
called at most once (`Counted`); a worker leaves only when the channel is closed and empty, and the
run returns only when all have left (`Gone`). So nothing is open when the run returns.

`ClientProofs` proves `UnsafeWriteOnce`, `EndsInTime` and `ServerIsHeard` for any retries, budgets
and timeouts, from `RequestAssumption` and `BackoffAssumption` (a power of two is a natural number,
which the provers do not know; it is evaluated by TLC for the retries of each run). Of each place a
call can wait in, the invariant says how far it may be from the start of the call (`OnTime`) and
that the time a refusal asked for is over when the wait is (`Heard`); and an unsafe write never
sleeps, because a call sleeps only to be retried, so its only exchange is the only one that can have
an effect (`SentOnce`). The bound of `EndsInTime` needs the wait to be part of the budget: a sleep
ends within it, hence so does the last pacing begin.

`ClientProofs`, second part, is about `HistorySpec`, the cache with the snapshots taken through it,
for any lifetime, timeout and number of processes (`CacheAssumption`, `HistoryAssumption`). `ServedFresh`
is not inductive: what a call returns was in a file, which another call filled with what it had been
sent. `CacheInv` dates the answer at each of these places: a fetched body is of the time of the call
(`CallSafe`), a body in the file is at most one call older than the file (`FileSafe`), and a process
that reads has found the file no older than the lifetime. With them, and with the mark that a call
overlapped a change (`overlaps`), `CacheForgetsNoEntry` follows; `CacheBlankIsTransient` needs that a
writer holds the file that is there or one that was removed, and that whoever lets go of the file that
is there has put a body into it or is on record as having `spoiled` it. A snapshot is filed within one call of
the time of its body plus the lifetime (`Dated`), hence `DriftKeepsOrder`.

The third part is about `AdaptiveLimiter`, for any rates, goroutines and answers. Rates are within
their bounds (`Governed`, with lemmas about each change of the rate), so two slots are never closer
than the rate asks (`PaceInv`, `LimiterIsPolite`). `NoDeathSpiral` bounds a sum without summing:
`LineInv` says that between any time and the slot of a caller there lie at least as many slots of
waiting callers as longest delays fit, so the last in a line of `n` waits at most `n` of them.

`LedgerProofs` assumes `OneBreaker`: either no process is killed, or there are at most two. The code
needs it, since two living processes that find one abandoned lock can both get past it
(`LedgerBroken`); with a killed holder and one survivor there is only one to break it. First the
lock (`LockInv`): at most one process is critical, the file at the lock's place is its own and not
old, and whoever is about to break a lock is the only one alive (`Held`). Then the account
(`BudgetInv`): the holder has computed its reservation from the ledger that is still there
(`Reserving`), and for every time `t`, the requests granted from `t` on are paid by what the bucket
then had and what it was refilled since (`Covered`, `Bounded`). `WithinBudget`, which speaks of all
stretches, follows by subtraction. The products of rate and time are beyond the solvers as such; they
enter through `Products` and `RefillFills`, a lemma about the rounded-up wait.

`ReadingProofs` has four parts.

* Captures (`CaptureAssumption`): `CaptureInv` follows the newest page of each station. Pages are known
  by their visit, a later one has no older stamp (`PageOrderInv`), every page on its way is ranked
  against the newest reading (`Ranked`), no row is newer than that reading, and a row of the same stamp
  is that reading (`RowsInv`, `NewestKept`) unless an overtaken capture has written it.
* Recall: a shown candidate is one that fewer than the cap come before. Both the order of the query and
  that of the section are strict and total on rows with different ids (`SurfaceInv`), so a row with
  fewer before it is shown whenever one with more is.
* Storm (`StormAssumption`): the reports stand on results that are still there (`StormInv`). `approach`
  and `storm` look for the name of a cyclone or the links to its bulletins, `watch` also for signals, so
  they can disagree only where it found signals and no links, which the property states. The
  signal shown is the highest that lists the area; that a set of signals has a highest one comes from
  well-foundedness.
* MCP pages (`McpPagesAssumption`): what the caller was given are exactly the items before its cursor
  (`Reached`), in order, or, once it was told that it cannot go on, the items before some place
  (`WalkInv`). A call gives the items between its cursor and the next one (`NextAfterIs`); without
  items it passes over some only where the property makes its exception. How much fits into a result
  is not known to the proof, except that the sum over no items is zero.

`LocalSideProofs` has, after the fan-out, five parts.

* Migration, any number of processes: a legacy file is with its backup where both were, or it is the
  backup and there was none (`LegacyInv`), because a process renames only what it has checked has no
  backup (`MoverSafe`), also when it goes on where an earlier run stopped. For `MovedOnlyAfterCopy`,
  `CopyInv` says what each process believes of the database at each of its steps and, while none has
  copied or adopted beside a copy, that only one is copying and that an adopted database stays, since
  only the process that made a copy removes it.
* Seeding (`SeedAssumption`: no two entries of a release are for one family): an amendment that is to
  be heard has its mark in the notes of its family, and a seeder that is about to overwrite notes
  overwrites none such (`SeederSafe`); a seeder without a failure has installed all entries it has
  passed (`AllInstalled`), whose rows later seedings and amendments of the same release keep.
* Mirror: while the server only adds, what it listed at the beginning was on a page it has got or
  is still beyond its offset (`SyncSafe`), while every answer had its declared form (`whole`), and a page
  that is not full is the last (`FullPage`). So an enumeration that was neither cut short nor ended by
  such an answer has got all of it, and there is one row to an id (`OneEach`), whose deletion is thereby
  that of an unlisted item.
* Learnings: a row, in the table or on its way there, has the key of its query and the entities the
  lookups gave then, and lookups are only added (`LearnedInv`). The row of a query is
  therefore found for it, and missing from an answer only when the answer is full of results that rank
  as high. What lets an agent skip its search has an entity, or a canonical, in common with the query or
  one that contains another.
* Telemetry: of a report during which no event was recorded, `StatsSafe` says at each statement that
  what the following ones will find is bounded by what was counted. Prunes and cascades only remove
  rows, and whoever records an event marks the reports under way.

Every invariant and every safety action property of the passing runs is thereby stated by a theorem,
for every value of the constants; TLC checks the same formulas on the instances, and their mutants.
Model-checked only is liveness (`OpenReturns`, `NobodyStuck`, `FanoutReturns`), which is out of the
provers' reach together with `ENABLED`. The instances (`MC*`) compose modules for TLC and are not
proved about.

## Disagreements found

1. `learnings confirm` can confirm a candidate it never printed (`CandidatesBlessed`).
2. "Every observation is counted exactly once" holds only while passes do not overlap and no
   process dies inside one (`JournalCounted`).
3. A journal line named before midnight and written after it can be skipped for good
   (`JournalMidnight`).
4. Two processes that find one abandoned ledger lock are both let in and given the same slot
   (`LedgerBroken`).
5. With neither page read, `watch` answers that no tropical cyclone is active (`WatchClear`).

Met while modelling and kept out of the properties by a condition stated beside each:

* A word with a hyphen or a letter beyond a to z is filed under one key and looked for under another,
  so what was taught with it may not be recalled; teaching a query again keeps the entities the row
  was first filed with (`TaughtIsRecalled`).
* `odds`, `whats` and `s` are stopwords of the store only (`learnings.go:54`, `entities/config.go:15`),
  so what was taught with such a word may not be recalled, or only as a weaker match (`TaughtIsRecalled`).
* An exact match is by substrings (`match.go:120`), so the answer taught for one place is recalled as exact
  for another whose name is part of its name (`SkipIsJustified`).
* In the second in which the window of a failure ends, a pass gives the failure up and a correction that
  is written then still pairs with it, and is never counted (`NothingSkipped`; `journal.go:222` against
  `derive.go:203`). A segment that the second read of a pass cannot read leaves a correction with an
  older recall or none (`AnchorsAgree`).
* A write to the cache that fails, is killed or has nothing to write leaves an empty entry, which is
  served for its whole lifetime (`BlankIsTransient`; `client.go:606`).
* `watch` takes a signal on a bulletin for an active cyclone even when the bulletin's links were not
  found, where `approach` and `storm` say that there is none (`CommandsAgree`; `extract.go:243`).
* A prune, a forget or an insert between the statements of `learnings stats` is seen by some of them;
  an insert can push a ratio above 1 (`ReportAddsUp`), although a comment calls this safe.
* A capture that fetched before another one and stores after it undoes a correction (`CorrectionsWin`).
* An amend between the reading and the upsert of a seeding is lost, a row that cannot be read counts
  as not amended, and an older binary still seeding during an upgrade leaves its rows under the newer
  sentinel (`AmendKept`, `SeedComplete`).
* A migration that copies removes its copy when a later step on it fails, also a good copy that another
  migration has adopted meanwhile and moved the legacy database for; a copy cut short leaves a file
  that every later migration refuses (`MovedOnlyAfterCopy`; `migration.go:160`).
* An answer that is not of the form its endpoint declares ends an enumeration without a mark, and a
  sweep that trusted it deletes rows the server still lists (`helpers.go:344`). An item that two parents
  list has one row (`store.go:1329`), which goes when the parent it was last written for stops listing
  it (`SweepSparesListed`).
* Offset pages skip an item when the server removes an earlier one during a sync (`SweepSparesListed`).
* A page whose other fields leave no room for the marks of a cut result, but would fit without them,
  ends the walk through an MCP list with its items neither given nor previewed (`WalkIsComplete`).
* A row of the second tier may be cut by the scan limit of recall (`ProvenIsShown`).

## Plan

Every component with state of its own has a module, and every safety property of a passing run a
theorem. Next: an abstract token budget that `EndpointLedger` implements; the same for the cache
(a register that is at most so old); a small module for three syntheses of one family, whose
instance of `Candidates` is too large; in `JournalDerive`, what passes that overlap may still count.

## Not modelled

* HTML extraction, table and JSON output, help texts, path resolution and configuration: pure
  functions of their input, covered by unit tests.
* The analysis of text into words, stopwords, synonyms and entities: `Learned` takes its result.
* The platform gate and receipts beyond what `client migrate` uses of them: linear checks of one file
  in one process. `doctor`, the read-only SQL tool and the subprocess runner of the MCP server: single
  calls without state.
* Functions without a caller in this binary: `LookupPlaybookByFamily` and its rekeying, the
  `SaveSync*` cursors, `ResolveByName`, `RefreshFromSynced`, `writeMutationResponseToStore`.
* The contents of SQLite and of the file system below the operations used.
