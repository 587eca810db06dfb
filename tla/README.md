# Lysilogy in TLA+

Lysilogy is a local reader for research papers: a Rust server (tokio, axum) with
a command line over the same data, a data directory of artifacts, a PostgreSQL
catalog of Works and citations, and a web client. This directory holds TLA+
models of the parts whose correctness depends on the order in which things
happen, the TLC configurations that check them, and TLAPS proofs of what holds
for every size of the instance.

    tlc -workers 2 -config MCPaperTasks.cfg MCPaperTasks.tla    # one run
    tlapm PaperTasksProofs.tla                                  # one file of proofs

`PROJECT.json` lists the components, the runs, the mutants (for each property a
plausible bug that breaks it), the lines each definition models, the findings,
the hazards of the code and the theorems.

## 1. The system

### Processes and shared state

One *server* process handles HTTP requests. Every handler is a future: each
`await` is a point where another task may run and where the handler is dropped
when its client closes the connection. Work that must outlive a request is
spawned as a detached task. *Commands* (`lysilogy expand`, `fetch-cited-by`,
`scan`, ...) are processes of their own over the same data directory and
database. Shared state:

| State | Where | Written by |
| --- | --- | --- |
| catalog: processing status of each paper | memory, `src/library.rs` | handlers, spawned runs, scans |
| jobs: `job.json` | memory and disk, `src/jobs.rs` | runs and refreshes |
| artifacts: `extraction.json`, `analysis.json`, `reader-tools.json`, `highlights.jsonl`, `experiments/`, ... | disk, `src/store.rs`, each file replaced by a rename | handlers, runs, commands |
| notes, Markdown files in the user's own vault | disk, `src/notes.rs` | handlers, editors outside the program |
| saved answers of the model | disk, `src/paper_artifacts/checkpoint.rs` | extraction runs |
| `reading-index.json` | disk, `src/source_index/cache.rs` | index builds |
| in-memory registries of index builds, acquisitions, expansions, literature jobs | `src/api/source_index/jobs.rs`, `src/api/{acquisition,expansion,literature}.rs` | handlers and their tasks |
| mutexes `highlight_write`, `tools_write`, `tools_extract`, `experiment_write`, `import_write`, the slot of each provider | `AppState` in `src/api.rs`, `src/citation_graph/http.rs` | |
| `ops.acquisition`, `ops.work_expansion`, `reader.*`, `graph.*` | PostgreSQL, `crates/lysilogy-db` | server and commands |
| the PDFs of the libraries, the blob store | disk | users, uploads, acquisition |

### Components

**Paper tasks and the catalog** (`api.rs`, `jobs.rs`, `library.rs`). State: status,
job, artifacts of a paper. Operations: analyse, refresh a component, revise with
feedback, Markdown, map, sources for clarifications and tools, rescan. Interacts
with the artifact store, the models, `pdftotext`, the extraction mutex. Hard:
the reservation of a paper is a status that other steps write too; failures and
dropped handlers at every await; a scan that is older than the catalog it
replaces. Correct when one run works on a paper, statuses never claim what is
not stored, nobody's result is overwritten with an older one, and a paper does
not stay in work for ever.

**Reading-index builds** (`source_index`). State: the cache file, the map of
builds, a flag per build that an interactive request raises, the extraction
mutex. Hard: joining, promotion, a second look at the cache, a PDF replaced
during its extraction, fairness of the mutex towards a build that polls. Correct
when builds are single, exclusive, never wasted, and interactive requests are
answered.

**Acquisition** (`crates/lysilogy-ingest/src/acquire`, `lysilogy-db/src/acquisition.rs`,
`api/acquisition.rs`). State: one row per Work with a lease, the blob store, the
library documents. A staged run that may die anywhere and is resumed. Hard: the
lease, verdicts made of several runs' trials, what a resumed stage may rely on.

**Expansion** (`expansion.rs`, `api/expansion.rs`, `walk.rs`, `lysilogy-db/src/expansion.rs`).
State: citation edges, the ledger of what is known, a registry of jobs with one
permit. Hard: cached answers without the permit, partial failures, two processes
at one Work, a walk over a cyclic graph that grows.

**Background jobs** (`api/acquisition.rs`, `api/expansion.rs`, `api/literature.rs`). Three
registries of one form. State: the latest job per key, a semaphore. Hard: a
request beside the end of the job it asks for, permits, panics in nested tasks,
an answer the handler finds in a cache while its client may leave. Correct when
a key has one job, a running entry has somebody who will end it, and permits are
kept.

**Reader tools** (`api/reader_tools.rs`, `reader_tools.rs`). State: one file per
paper with saved references and tasks. Long tasks that read without the mutex
and write under it, handlers that write under it, recovery by other processes.

**Work identity** (`lysilogy-db/src/work.rs`, `claim.rs`, `citation.rs`). State: Works,
the identifiers that name them, redirects, citations, claims and the fields
displayed from them. Operations: find or create by identifier, attach, assert,
record, override, review, merge. Every request resolves a Work through the
redirects in one statement and writes in a later one. Hard: two requests that
create the same Work, a merge between resolving and writing, chains of merges, a
merge whose many statements interleave with others at the database's default
isolation. Correct when an identifier names one Work, redirects are one hop to
a Work that is there, what is displayed is what the claims select, and a merge
leaves no row behind.

**Curation and ramps** (`curation.rs`, `ramp.rs`). Marks, tags, and reading ramps:
ordered Works with the citation path to each, changed under the lock of a ramp
by requests and without it by merges. Correct when positions are distinct, paths
are citations, and nothing the curator said is lost by a merge.

**Documents** (`document.rs`, `scan.rs`). Files are listed and hashed first and reconciled
with the table later: unchanged, replaced, moved, duplicated, gone. Correct when
a scan leaves the table equal to the files it listed, and a document that moved
keeps its history and its Work.

**Local evidence** (`local_evidence.rs`). A run resolves the entries of one bibliography,
makes stubs, folds a stub when its Work turns up, and asserts the citations, one
statement at a time; it may end anywhere and be run again. Correct when an
entry that counts as done is connected.

**Literature** (`literature.rs`, `ingest.rs`). The flow of a paper: identifiers, the record of a
provider, its Work, its references as Works and citations, their titles. Beside
other flows and merges. Correct when a paper is linked to the Work its evidence
names and a flow that completes has cited all it was told of.

**Paper artifacts and analysis** (`paper_artifacts/run.rs`, `analysis/`). A plan of model calls in
batches, chunks of pages beside text calls, retries, a budget, answers saved for the next
attempt, a self check and a repair. Hard: a budget looked at before and charged
after calls that run at the same time; failures that retries make good;
when saved answers may be cleared. Correct when the overshoot is bounded, a
clean record means nothing was lost, and nothing paid is paid again after a crash.

**Citation-graph clients** (`citation_graph/`). Requests page through several providers, spaced and
cooled down per provider under a mutex that is held over the sleep and the call.
Correct when no provider sees two requests at once or one in its cooldown, a
report of a part does not say complete, and a request ends.

**Experiments** (`api.rs`, `store.rs`, `main.rs`). Two blind arms generated at the same time, imports,
judgments, recovery by every process that opens the directory. Correct when a
judgment stands over the outputs that were judged and no run stays running.

**Labels of citations** (`labels.rs`, `relationship.rs`). Claims why a paper cites a work: made by passes that ask a
model, cache its answers and look for a claim long before they make one; reviewed and edited by readers; moved by
merges. Correct when a citation has one label in force and no claim is lost.

**Notes, highlights** (`notes.rs`, `api.rs`, `store.rs`). Files that several write: a note also from
outside the program, the marks of a paper from readers and from analyses. Correct
when a write destroys nothing its author has not seen.

**Artifact store** (`store.rs`): the files above and their recovery at start-up.
**Prominence, provenance, neighbours, annotations**: read-only views and
scores. **Web client, evaluation data, scripts.** `PROJECT.json` has the same list with
the status of each and the reason for what is left out.

How they meet: acquisition reads and links documents that scans change;
expansion runs the identification and the local evidence of held papers; every
part of the catalog keeps rows about Works that merges redirect; reader
tools import what they find, extract through the paper tasks' `load_or_extract`
and share its mutex with the index builds; everything in the data directory is
seen by every process that opens it.

## 2. The modules

| Module | Component | Instances | Proofs |
| --- | --- | --- | --- |
| `PaperTasks` | paper tasks and the catalog, one paper | `MCPaperTasks` | `PaperTasksProofs` |
| `IndexJobs` | reading-index builds | `MCIndexJobs` | `JobsProofs` |
| `Acquisition` | runs over one acquisition row | `MCAcquisition` | `AcquisitionProofs` |
| `Expansion` | walks, graph and ledger | `MCExpansion` | `ExpansionProofs`, which also proves that it implements `JobRegistry` |
| `JobRegistry` | the registries of background jobs, abstractly | `MCJobRegistry` | `JobsProofs` |
| `ReaderTools` | the reader tools of one paper | `MCReaderTools` | `ReaderToolsProofs` |
| `Extraction` | the model calls of one paper's analysis | `MCExtraction` | `PaperProofs` |
| `CitationGraph` | requests that page through providers | `MCCitationGraph` | `CitationGraphProofs` |
| `Works` | Works, identifiers, redirects, citations, claims, merges | with `Catalog` | `CatalogProofs` |
| `Curation`, `Ramps`, `Documents`, `Evidence`, `Literature` | what else the catalog database holds, each beside `Works` | with `Catalog` | `CatalogProofs`, but for `Documents` |
| `Catalog` | the six together: one merge moves the rows of all | `MCCatalog` | `CatalogProofs` |
| `Experiments`, `Notes`, `Highlights` | files of a paper written by several | with `MCRecords` | `PaperProofs` |
| `Labels` | passes that label the citations of a paper | with `MCRecords` | `PaperProofs` |

In each module an action is the code from one await that others can observe to
the next. Operators named `...Blindly`, `...Unguarded`, `...Again` and so on under the
heading *Fault for the mutation runs* are no part of a specification: each is a
bug that the property it is listed with must catch.

### PaperTasks

`pc[t]` is where a request stands: `reserve` is the compare-and-set of the catalog
status (`queue_analysis`, `refresh_component`, `queue_feedback`, `markdown`), `begin`
and `run` the job record, `load` to `mark` the body of `load_or_extract`, `prepare` and
`model` the run proper, `lock`/`save` the write under `highlight_write`, `complete` and
`settle` the end of the job and of the reservation; `restore`, `failjob`, `markfail`
are the failure handlers in the order each kind has them. `Leave` drops a handler
that is still in its request, `Restart` loses all tasks and rebuilds the
catalog from disk and the job as `JobTracker::load` does, `Scan` and
`ReplaceCatalog` are the two halves of `AppState::refresh`. `analysis` holds the task
that generated it; `Old` one whose quotations the map still has to check.

Left out: several papers (statuses, jobs and locks are per paper or
independent of the paper), the tasks inside a job, the contents of
`feedback.jsonl`; what happens to highlights under the mutex is `Highlights`.

### IndexJobs

Requests follow `get_or_build`; the map lock is held from `Join`/`Recheck`/`Spawn`'s
guard to its effect, so each is one step. Builds follow the detached
worker: `Enqueue` or `TryLock` on the mutex, the stamp (`Begin`), the text (`Extract`), the
stamp again (`Check`), the file (`Write`), the guard given back, the result published.
`stamp[d]` numbers the versions of a PDF; `EditSource` replaces it at any moment.
`queue` is tokio's fair mutex: first come, first served, `try_lock` only when free.
`Users` are the foreground callers (`clarify`, `tools_source`).

### Acquisition

`row` is the stored row; `Claim` the conditional update of the lease; each stage of
`run_claimed` an action or two, with the reload of the row between stages
(`Proceed`). Candidates are numbered in order; a candidate's attempt ends
`permanent`, `transient` or `pdf`, or follows a landing page whose link is fetched and
logged first. `Fail` is a database or I/O error in any step, after which the
lease is released; `Crash` ends the process, the lease stays. Documents appear,
disappear and are linked by others (`Scan`, `Match`); the blob may be removed
(`LoseBlob`). `dead` is history: the links whose newest trial was permanent.

Left out: the contents of records, warnings and URLs; merges of the Work;
preprints and versions; throttling.

### Expansion

Works are numbered by the order in which their prominence sorts them. `Refs` is
what the provider says of a Work, `Entries` what local evidence finds in its
paper. `Start` enters a job, `Inline` and `Background` are the two ways out of the
look at the cache, `Acquire` the semaphore. `Cached` ... `Record` are `expand_work` with each
reference a statement of its own; `Plan` and `Descend` are `plan_frontier`, one parent
at a time, and the cut to the remaining budget (the budget keeps a prefix of
the unbounded plan, since pairs are taken in order). `Fail` aborts a walk
anywhere; `Leave` drops the handler of an inline walk; `Kill` and `Restart` end
processes.

Left out: the attempt count, last error and warnings of a row; merges and
redirects; the prominence refresh after a walk; user overrides that retract an
assertion. Marks and order are constant during a walk. The children of a
parent are read and planned in one step. When local evidence turns out to be
linked to another Work, its ingest is one step. That a concurrent insert of the
same assertion ends as a conflict is one of the failures of `Fail`.

### JobRegistry

What the three registries have in common, and the abstract specification of the
job side of `Expansion`. `job[k]` is the entry of a Work or a paper, `task[x]` the handler
of a request and what it spawned: `queued` at the semaphore, `working` under a permit,
`publish` with a result to enter. `End` covers an error and a panic of the inner
task, whose `JoinError` the outer one enters as a failure. A registry in `CacheFirst`
(expansion) may keep the request in its handler: `check`, `inline`, `reply`; only there can
`Leave` lose the work. The literature registry has no semaphore, which is as many permits
as requests. Left out: a second acquire error (the semaphore is never closed) and
what a job does.

`Expansion` instantiates it with one registry of one permit. `TaskOf` maps a walk to
its task: a queued walk waits, an inline or a background walk at any of its steps
works, a finished one publishes; commands map to nothing. `Awaiting` is the queue
without the job that holds the permit, and `KeepsRegistry` is the specification under
this mapping.

### ReaderTools

`file` is `reader-tools.json`; a writer that holds the mutex keeps in `draft` what it is
about to write, computed from what it read under the mutex. A task's record
`worker[j]` says where it is, which reference it works on (`at`) and what it will store
next (`put`); `begin`, `resolve` and `fold` are its reads without the mutex, `call` the
minutes at a model, a registry or a download. `Drop` is a failed write or a
client that leaves during the write, which may or may not be done then.
`Open`/`Recover` are `recover_running_experiments` in another process: read and write
without the mutex.

Left out: candidates, supercuts, the notes of a task, and the records of finished tasks (what
they hold no later step looks at); `ambiguous` and `unresolved` are one value; IDs
are slots that are used again; a dropped write that lands after the mutex was
taken by somebody else is not modelled; the limit of five hundred references is
the number of `Refs`.

### Works

`call[r]` is what a request has resolved and not written yet: every operation is a
*hold* (the look-ups, through at most eight redirects) and a *write* (one transaction).
`merge` is the open merge: it locks the two Works, changes the rows of identifiers, redirects,
citations, claims and overrides in several statements, and shows them when it
commits. The database runs at its default isolation, so each statement reads what has
been committed when it starts; a transaction that locks or references a Work
the merge has locked waits for it (`Free`). Claims carry a rank (0 is the curator's override) and whether they are rejected or
retracted; `Selection` is the order of `claim.rs` (rank, agreement,
completeness of the value, age), and `shown` the value written back by the
reselection that record, override, review and merge make in their transaction.
Identifiers of versions (arXiv) name a Work through a version of it.

Left out: venues, all but one displayed field, evidence records and retractions of
citations, parsing of identifiers. At most one merge is open at a time: two merges of
different Works meet only in rows that one of the two has locked.

### Curation, Ramps

`mark`, `tags`, `tagged` with holds and writes as above; the merge moves a mark unless the survivor
has one, and both Works' tags. An add, a removal or a reorder takes the row lock of its ramp and
changes its items in further statements (`AddItem`/`InsertItem`, `RemoveItem`/`DeleteItem`,
`ReadOrder`/`Reorder`); a merge repoints items, vias and paths without that lock
(`MoveItems`, then `MoveRamps` at its commit), so that the two may wait for each other: the
database then aborts one (`BreakDeadlock`). Left out: titles, notes and the status of items.

### Documents

`ListFiles` hashes the files of the library, or the one file a literature run or an
acquisition registers; `ApplyScan` is the transaction that follows, with the order of
`document.rs`: unchanged, replaced, moved, new, and, in a full scan, retired. `EditLibrary` is
the user. The full scan (`apply_scan`) is modelled as its tests use it: nothing else
calls it yet.
Left out: columns of the extraction, views.

### Evidence, Literature

Both are runs whose every statement is a step, and which `EndRun` and `EndFlow` may end
after any of them: an error, or a process that is gone. `Evidence` takes the entries of a bibliography in
order: the accepted resolution of an earlier run, the identifier, the title, a stub; a stub that
is seen to be pure is folded by a merge in a later transaction. `Literature` goes from
identifiers and record (`LookUpProvider`, `SearchTitle`) through the Work of the paper, its identifiers
and the link of its document to references and titles. What the provider
answers and whether a title matches are choices; a claim is its one title.

### Catalog

One `area` is exercised in each behaviour, beside merges: identity, citations, claims,
curation, ramps, documents, evidence, literature. The areas share only Works, which
`Commit` (the rows of all in one transaction) and the rows of `Works` represent in each. In
area `evidence` the merges are those of the runs themselves; in `literature` the
curator merges the Works that flows have made, once.

### Extraction

A run is a command or the reader's analysis. `NextBatch` groups the plan, `at[a]` says where the call
of an ask stands, `Settle` is what an answer does to the draft, the failures and the retry of
its chunk. `saved` holds answers with a key of what was asked, so that a later run finds them
(`Replay`) exactly when it asks the same. `Checked`, `Admitted`, `Write`, `Conclude` are the
self check, the repair, the record and the reader's use of it. Left out: prompts, pages, the
alignment of quotations (an answer *full*, *loose*, *bare* or *thin* is what steers the run),
the cost of a call beyond one unit, and the ledger over all papers.

### CitationGraph

`line[p]` is the mutex of a provider's slot and its queue, `next_request[p]` its clock in ticks,
`seen[p]` what the provider observes, a history. A request leaves its clients' sleep or call with
`Leave`, which drops the mutex. `ReadFirst`, `ReadBatch` and `ReadPage` are the five ways
the providers answer (`Shape`). Assumed of the providers: a page has no more than was asked for,
the count of OpenAlex is right, and Semantic Scholar repeats nothing.

### Experiments, Notes, Highlights, Labels

`Experiments`: every process that opens the directory has a memory and a mutex of its own; only
the files are shared. An execution holds its record in memory and writes it after each arm;
`RecoverRead`/`RecoverWrite` are the recovery run by run; imports and judgments read before and
write after. `Notes`: the text of the file is its revision; a save looks three times (before the directory, before
and after the temporary file) and publishes by link or rename; `EditOutside` changes the
file between any two steps. `Highlights`: `analysis`, `marks` and `printed` are written one after
the other under `highlight_write`; analyses and refreshes of the paper exclude each other by its
status, the map does not; `CutShort` ends a writer between two files. Left out in these three: what
the files say beyond who wrote it; a write of a dropped handler that lands after the
mutex was taken by somebody else.

`Labels`: `labels` are the rows of claims, each with the citation it is on, what it says, the record it
was made of and the claim that has replaced it; `answered` is the cache of the model's answers, by model and
request. A pass looks at one citation after the other (`LookForClaim`, `FindAnswer`), calls under
`AtOnce` permits (`AskModel`, `ModelAnswers`, `CacheAnswer`), then makes the claims (`RecordDraft`); a reader's
edit is a transaction with the lock of the old claim (`LockClaim`, `CommitEdit`); a merge folds a citation in
statements (`BeginFold` takes the snapshot of the statement that moves claims, `CommitFold` deletes the citation
with what is left on it). Whether an answer is grounded in the passage is a constant.

## 3. The runs

| Run | Instance | Distinct states | Properties |
| --- | --- | --- | --- |
| `paper_tasks` | 2 tasks of any of six kinds, failing reads, clients that leave | 77,315 | `StatusBacked` |
| `paper_tasks_extracted` | 3 analyses or refreshes of an extracted paper | 424,375 | `ExclusiveRuns` `BusyMeansRunning` `NoLostAnalysis` `Settles` |
| `index_jobs` | 2 requests, 2 builds, 1 user, 2 versions of one PDF | 637,356 | `Coalesced` `IndexMatchesStamp` `OneBuildPerSource` `AnswerIsCurrent` `InteractiveAnswered` |
| `acquisition` | 2 runs, 2 links, 1 per run, 2 trials kept, 2 attempts | 1,428,212 | `SingleRunner` `RowTrue` `DownloadKept` |
| `expansion` | 2 requests (one level, refresh, three levels), 1 command, 4 Works | 258,862 | `WalkBounded` `PoliteProvider` `LedgerBacked` `KeepsRegistry` `JobsFinish` |
| `job_registry` | 3 requests; 3 Works with 2 permits, 1 with a cache and 1 permit, 1 paper without a semaphore | 112,572 | `RegistryExact` `JobsEnd` |
| `reader_tools` | 2 requests, 2 tasks, 2 references, 2 papers | 273,116 | `TasksExact` `AnswersFit` `NothingTakenBack` |
| `reader_tools_beside` | 2 requests, 1 task, a command beside the server | 50,612 | `TasksEnd` |
| `catalog` | 3 Works and room for 3 more, 2 writers, one merge at a time | 936,804 | `RowsConsistent` `PassedConnected` `RecordsMatch` `IdentifiersKept` `Reselects` `FollowsMerges` `ScanExact` |
| `extraction` | 3 runs with a budget of 3 calls, 2 features, 3 chunks, both concurrencies 2 | 1,494,338 | `SpendBounded` `LossesRecorded` `SavedKept` |
| `citation_graph` | 2 requests for 7 kinds of list at 2 clocks, pages of 1, a limit of 2 | 340,019 | `CoverageTrue` `Polite` `FetchEnds` |
| `records` | 2 experiments with 2 handlers and a command; or a note with 2 savers; or the marks of 2 passages with 2 writers; or the labels of 3 citations with 2 passes and 2 readers | 536,722 | `JudgedStands` `RunsEnd` `FilesKept` |

What they show: each property is stated, with the code it is about, above its definition. The
names of conjunctions stand for several: `Coalesced` is `SingleFlight`, `GuardedExtraction` and `NoOrphan`; `RowTrue` that
no verdict on links is false and every attempt is counted; `WalkBounded` is `ExpandsOnce` and
`WithinBudget`; `RegistryExact`, `TasksExact`, `AnswersFit` and `NothingTakenBack` the facts named in
their definitions; `RowsConsistent` the redirects, citations, overrides and ramps; `FollowsMerges` the
curation and the rows about a Work; `FilesKept` the notes, the marks and the labels. `TypeOK` of `PaperTasks`, `IndexJobs`, `Acquisition`,
`Expansion`, `JobRegistry`, `ReaderTools`, `Extraction` and `CitationGraph` is proved rather than checked.

### Why the bounds are enough

Every conflict above is between two actors and one more that prepares the state
they meet in; each instance has those. In `paper_tasks` a third actor is the scan and
the restart, which are always enabled; the third task of `paper_tasks_extracted`
lets two runs meet while one is failing. Two links with one tried per run make
*untried* and *tried by an earlier run* both happen; a log of two trials makes it
forget when landing pages are logged too. The two requests of `index_jobs` are one
that starts a background build and one that joins it urgently; with two builds a
second one of the same source, or of a new version, is possible, and with one user
the mutex is contended for ever. The three requests of
`job_registry` are one more than its two permits. Works 1 and 2 of `expansion` cite each other (a
cycle over levels), and a walk of three levels reaches one Work more than the budget.
Counters that would grow without bound have a named one: `MaxStamp` (edits of a PDF),
`MaxAttempts` (no new run is started), `MaxRuns`, `MaxOpens`, `Builds` and the one-shot `Tasks` and `Requests` of
`PaperTasks` and `IndexJobs`; requests, tasks and runs of the other modules repeat for ever.
Symmetry is used only in runs without liveness properties.

`catalog`: w1, w2 and w3 cite each other in a chain, so that a merge of two of them meets a
citation between them and a second merge a redirect; two writers and a merge are the most that
meet in the code's statements. `Areas` splits the behaviours (identity 33,382 states, citations
2,370, claims 88,949, curation 43,672, ramps 99,653, documents 180,799, evidence 59,827,
literature 428,152), and `Busy` lets one request at a time work on claims, beside the merge.
`MaxWorks` Works in the end, `Subjects` and `MaxClaims` of the claims, `LastPosition` of a ramp, `Edits` of the
library, `FlowClaims` and `MayMerge` are the other bounds. Two claims of one rank agree, differ and
are counted; two files of equal contents move, swap and vanish; two bibliographies share an
identifier and a title, and three entries are one more than a stub and its Work; of the two papers
of the literature flow, the one found by its title cites the one found by its identifier.

`extraction`: three chunks under a concurrency of two leave one to start late; a budget of three is
passed in the middle of a batch; three runs are one that fails, one that replays and one
that clears. `citation_graph`: lists are shorter than, equal to and longer than a page, the limit
and the pages allowed; a cooldown is shorter or longer than the spacing; the three
providers without a clock of their own here share one, which only makes their requests meet
more often. `records`: a note has three texts, so that a writer, its opponent and the template
differ; three openings are a server, its restart and a command.

### Where the checked instances are narrower than the code, and why

- `ExclusiveRuns`, `BusyMeansRunning`, `NoLostAnalysis` and `Settles` are checked for an
  extracted paper whose extraction can be read and, for the last three, with
  clients that stay. Outside of that they do not hold: see the findings, and
  the hazards at `api.rs:619` and `api.rs:945`.
- `SingleRunner` and all that rests on it is checked while live runs end within
  their ten-minute lease (`Timely`); the lease is not renewed, a limit the
  documentation names (`docs/ramps/ramp-c.md:1029`).
- `AnswerIsCurrent` compares the answer of a request that waited with the request its
  build was spawned for, not with itself: `get_or_build` joins the build of the
  directory without a look at the stamp (`jobs.rs:44`), so a request that arrives between
  the last `Check` of a build and its publication may get the index of a PDF replaced just
  before. What is on disk is right (`IndexMatchesStamp`), and the next request builds anew.
- `RunningIsWorked` and `JobsEnd` of `JobRegistry` are about registries without a cache. With
  one, a handler that is dropped leaves its entry Running for good (a hazard).
- `reader_tools` has no command beside the server; with one, `OneTask` fails (a finding).
- `records` has one process at a time (`Beside = FALSE`) and no failing write of an experiment; beside a
  command `JudgedStands` fails (a finding). In its marks part no abstract is refreshed while
  the map of an older analysis waits; `MarksFollow` is the finding about that. In its labels part
  merges run beside no other writer (`FoldsBeside = FALSE`) and there is one model: see the findings.
- `Reselects` leaves out the review whose Work was merged after it was read (the finding
  `SelectionFollows`); `ScanExact` speaks of what a scan does to the files it
  lists (`PartialKeepsOthers` is the finding about the others).
- `FollowsMerges` allows exactly one kind of row about a merged Work: that of a request that had
  resolved the Work before the merge. Ramp items and relationships are joined with the redirects when they are
  read; marks and tags are not (`api/curation.rs:454` resolves the Work it is asked for and reads the rows of the
  survivor), so such a row stays with the merged Work and is not shown any more.
- `Polite` says that a request is neither beside another nor within the cooldown the last
  answer asked for; the spacing after a shorter Retry-After is the finding `Spaced`.

### Fairness

`FairSpec` asks weak fairness of the steps of a task, build, walk or request once it
has started: the runtime polls every ready future and spawned tasks are not
dropped. Nobody has to send a request, leave, replace a PDF, rescan or restart,
except `UserUnlock` in `IndexJobs`: whoever holds the extraction mutex gives it back.
That and the progress of `Extract`, `Generate` and `Call` rest on the timeouts of the model
calls and builds; `pdftotext` in `extract.rs` has none (a hazard), so a hanging
one is outside these assumptions. A waiter of a tokio mutex or semaphore is
served in order. In `IndexJobs` and `Expansion` the queue is part of the state, so weak
fairness is enough; in `ReaderTools` it is not, and the order of service appears
as strong fairness of `TakeLock`. In `Experiments` the arms of an execution end (the reader that
generates them is stopped by its timeout) and a process that has opened the directory finishes its
recovery; in `CitationGraph` time passes and a request goes on, since the client gives up
a call after 25 seconds. `Catalog` and `Extraction` have no liveness property and assume none.

## 4. Findings

Sixteen times a model does what the code does and a document, a comment or a message of the
repository excludes. `PROJECT.json` quotes the lines. Each is reproduced by checking the property
with the configuration named, changed as it says; none is part of the passing runs.

| Property | Configuration | What happens |
| --- | --- | --- |
| `ExclusiveRuns` | `MCPaperTasksDropped.cfg` | the extraction that a run of a new paper makes on its way sets the status to Extracted and so drops the run's own reservation (`api.rs:961`); a second run works beside the first |
| `NoLostAnalysis` | `MCPaperTasksLost.cfg` | the paper map loads an analysis before it waits for `highlight_write` and writes its checked copy over a newer one (`api.rs:1049`) |
| `KnownIsComplete` | `MCExpansionPartial.cfg` | a walk that fails after its first reference leaves edges that the next walk takes for the whole fanout and records as known (`expansion.rs:333`) |
| `OneTask` | `MCReaderTools.cfg` with an opener | a command marks the running tasks of the server as failed (`store.rs:96`), and a second task of the paper starts |
| `SavedUsable` | `MCExtractionSaved.cfg` | an answer that parses and makes no analysis is saved, and replayed by every retry (`run.rs:507`) |
| `ChunksPassOnly` | `MCExtractionBudget.cfg` | text calls of the same batch pass the budget beside the chunks (`run.rs:977`) |
| `JudgedStands` | `MCExperimentsBeside.cfg` (with `MCRecords`) | an import or a recovery of a command replaces the outputs that the server's judgment stands over (`store.rs:121`) |
| `MarksFollow` | `MCRecordsMarked.cfg` (with `MCRecords`) | a refreshed abstract brings back newer sections beside the marks of older ones (`api.rs:713`) |
| `ClaimsStay` | `MCRecords.cfg`, part `labels`, `FoldsBeside = TRUE` | a claim made on a folded citation after the statement that moves its claims is deleted with the citation (`work.rs:780`) |
| `OneLabel` | `MCRecords.cfg`, part `labels`, two models | passes with two models make two claims in force on one citation (`labels.rs:389`) |
| `RecordsBack` | `MCRecords.cfg`, part `labels` | of two answers to the same request the second replaces the record of the first, whose claim is kept (`source_record.rs:36`) |
| `Spaced` | `MCCitationGraphSpaced.cfg` | a Retry-After shorter than the spacing replaces it (`http.rs:172`) |
| `SelectionFollows` | `MCCatalog.cfg`, area `claims` | a review reselects the Work its claim was moved from (`claim.rs:231`) |
| `SeedIsItem` | `MCCatalog.cfg`, area `ramps` | a removal and a merge of the seed leave a ramp without the item of its seed (`work.rs:939`) |
| `PartialKeepsOthers` | `MCCatalog.cfg`, area `documents` | registering one file moves the document of another with the same contents (`document.rs:441`) |
| `MadeOnlyWhenNone` | `MCCatalog.cfg`, area `literature` | a flow makes a second Work for a paper another flow has just made one for (`literature.rs:107`) |

## 5. The proofs

All theorems are of the form `Spec => []P`, `Spec => [][A]_vars` or, for the refinement,
`Spec => KeepsRegistry`, without fairness, and
for all values of the constants that the named assumptions of the module
allow: disjointness of model values, positive bounds, functions of the right
type. The assumptions are evaluated by TLC in every run. Some have hypotheses beyond
that, stated in them: `Extracted` and clients that stay for `PaperTasks`, `Timely` for
`Acquisition`, no opener for `ReaderTools`, one process at a time for `Experiments`, one model and no merge beside
writers for `Labels`; section 4 has what happens when those of the last three do not hold.

**JobsProofs**, about `IndexJobs`. `TypeCorrect` (`TypeOK` with *Known*: a build that is under way has a
directory, a waiting request a build). `Exclusion`: the guarded stages are entered by
`Begin`, which asks for the guard, and only the holder gives it up. `Coalescing`: one live build per slot and
no orphans need each other and *Made* (a build past its result has one), since the slot is
freed in the step that publishes. `Freshness`: *Bracketed* says that between `Begin`
and `Check` the stamp the build read is at most the version of the text, which is at
most the present stamp; stamps only grow, so a `Check` that finds the first one again
finds all three equal. `Currency`: what a request wants and the stamp it began with never
change once it has begun, so that stamp bounds, from below, what the request reads of
its directory and what the build it spawned reads; a build is *spawned for* a request that
has begun in its directory. `BuiltOnce`: the index on disk only gets newer and is at least as new as
every one ever built (*Persisted*, *Grown*); a build that was spawned because the cache would not
do finds it older than the source, then than the stamp it took (*Outdated*), and nobody else writes
until it does, so no earlier build had its stamp.

**PaperTasksProofs.** `TypeCorrect`. `Backing`: the statuses that are *carried* (by a scan, by
a refresh, by an extraction between its look and its mark) are backed as well,
and artifacts are replaced but never removed; hence the status shown is backed,
with no assumption on kinds, clients or restarts. `ExtractedExclusion`, under `Extracted`
(the paper is extracted at the start and reads do not fail): nobody extracts, so nobody
drops a reservation; a reserved paper is busy, and only the holder makes it
otherwise. `NoStrandedPaper`, if clients stay as well: no carried status is one of a paper in work, so
whoever ends a reservation leaves the paper idle, and a paper in work has a holder.
`AmendsWhatItLoaded`, if nobody asks for the map: only holders replace the analysis, so what a refresh
has loaded is the stored one until it saves.

**AcquisitionProofs.** `TypeCorrect` for any runs. Under `Timely`, one invariant gives `OneRunner`,
`RowsTrue` and `DownloadsKept`: at most one run is active, and then the lease is live;
what it has loaded is the row, in the state its stage is for; a row
`link_found` or with a download has candidates; what the log takes for dead
is dead (it may have forgotten some); and each candidate of a run in its download
stage is still to be tried, beyond its limit, dead, or has made the run pend.
That no verdict is false says nothing of a run half way; the last part is what the verdict
of an emptied list follows from.

**ExpansionProofs.** `TypeCorrect`. `OneWalk`: a server walk in flight has its seed entered as
running, and `Start` refuses those. `Ledger`: the row a walk is about to write counts a set
of Works each of which is in the graph or still to be asserted by that walk,
and the graph only grows. `Polite`: queue order (jobs past `queued` are the head of the
queue) and *Cheap* (a walk the handler does itself is one Work found known before, and
what is known stays known), so that it never turns to the provider. `Bounds`: for each walk, the level
and the plan of the next are lists without repetition, apart from what is done, and what is done with the
rest of the level (or with the plan, once it is cut) stays within the budget, while `cut` says
whether anything was left out (*Bounded*); a walk without a budget or a level keeps it trivially, and each step of a
walk is a function of its record, so that the lemmas are about records and not about states.
`KeepsTheRegistry`: the initial state maps to the initial state and
every step of `Expansion` to the step of the registry of the same name, to `End` when a walk
ends at whatever step, or to a stutter (the steps inside a walk, all of a command); beyond the invariants above it needs
*InLine*: the queue holds exactly the
jobs that are queued, at work or at their end, each once, and only the first may be past `queued`;
without it the mapped queue would not move as the registry's does.

**JobsProofs**, about `JobRegistry`. `RegistryTypeCorrect`. `Exact`: a task in flight has
its key entered as running and is alone with it, and a running key without a cache has a
task; `Start` refuses running keys and only `PublishJob`, which ends the task, enters anything
else; `Acquire` adds one to a set smaller than the permits, by the theorems on
finite cardinalities, for any number of requests.

**ReaderToolsProofs.** `TypeCorrect` for any `Openers`. With `Openers = {}` the invariant `Alone`: whoever is about
to write holds the mutex; what it holds is the file as it is with one change of
the kind its request makes; at most one task is recorded as running, and every
task at work is recorded with its own action; every reference a task is about is
saved and touched by that action, so the busy guard protects it; a reference it
is yet to resolve is not resolved, and the one it compares is still linked to
the paper it read; answers match links. From it follow `OneTaskShown`, `AnswersAlwaysFit` and
`NothingIsTakenBack`.

**PaperProofs**, about `Extraction`. `TypeCorrect`. `SpendIsBounded`: calls under way belong to the batch, which holds at most
`PlanConcurrency` plan calls, the object pass among them with at most
`ChunkConcurrency` of its chunks in flight (*Placed*, *Windowed*, *Narrow*); counting them (`Wide`) and the look at the budget
that each of them began with give the bound. `LossesAreRecorded`: *Accounted* (a call that is over has a
value, a failure or was stopped), *Early* (values come with the end of a call), *Regained* (a recovered chunk
has a value) and *Complete* (whatever the plan has taken is over once it is checked).
`SavedAnswersKept`: only `Conclude` removes saved answers.

**PaperProofs**, about what `MCRecords` puts together, for any processes, handlers, savers, markers, passes and readers.
`JudgmentsStand`, under `~Beside`: one process is open (*OneOpen*), what executes or handles a run is that process, served and with its
recovery behind it (*ExecutionsOK*, *HandlersOK*), a recovery has read only runs that are not completed (*RecoveriesOK*), and an import
comes from a command, which does nothing else; so nobody is about to write a run that is judged, or that a judgment about to be
saved has read. The mutex alone does not give this: an import writes without it.
`FilesAreKept` takes one invariant for each part of `FilesKept`.

- *NotesInv*: a save between its first look and its rename holds the mutex, and the note is then what its client has
  seen unless an editor has changed it since.
- *MarksInv*: who is past the mutex holds it, what it is to write is one change of the marks that are there, and
  `highlights.md` shows `highlights.jsonl` unless a writer is between the two or was cut short.
- *LabelsInv*: rows on a citation include one made of the record of its request (*ClaimsOK*). So a pass that gets to
  make a claim finds the citation empty, though it looked before the model was asked, and the fold of a citation with claims into another with
  claims is refused, since both then have a row of the same record. This is where the hypotheses come in: with two models, or with folded
  citations whose requests differ, two rows of different records may be in force (the finding `OneLabel`); with writers
  beside a merge a row may be lost (the finding `ClaimsStay`). An edit holds the lock of the claim it replaces, which is in force until it commits.

What is assumed of the constants of these modules is that their model values (`Absent`, `Missing`, `Unmarked`, `Null`) are none of the values they
stand beside; `Null` is also no number of a claim.

**CitationGraphProofs.** `TypeCorrect`. `CoverageIsTrue`: the count of edges a request has is what the pages it
read hold, up to its limit, so the coverage it reports is right (*Sound*, *Counted*). `Politeness`: who holds a slot is at the head of
its line, nobody is in a line twice (*Queued*, *Heads*), and the clock of a slot is never less than what
is left of the cooldown (*Timed*).

**CatalogProofs.** One inductive invariant of `Catalog`, in parts, each of which a step keeps given the ones before:

- *TypeInv*: the types of the tables and of what each request, run and flow holds; redirects are flat; the two Works of an open
  merge redirect to nothing and do not cite each other (*MergeOK*). Every step but the commit of a merge *Adds*: it leaves the redirects
  alone and only adds Works, citations that no open merge has locked, and identifiers nobody owns, so that one lemma covers all
  writers and only the commit needs its own.
- *WorksInv*: no Work cites itself, an override is alone, an identifier has one owner.
- *RampsInv*: positions are distinct, and the path of an item ends where its Work leads, each step a citation up to redirects; a request about to
  insert has such a path, and who inserts or removes holds the lock of a ramp that exists. `RowsAreConsistent` follows from these;
  `IdentifiersStay` from *WorksInv* and the two ways rows of identifiers change (an insertion where there is no owner, a commit that moves all).
- *RunsInv*: what is left to a run of local evidence is the end of the bibliography, what it has come past is connected when
  accepted, the entry it is at is accepted as the Work it holds (up to the merge it has opened), and a paper has one run (`EntriesConnected`).
- *FlowsInv*: an identifier of its evidence names the Work a flow of the literature holds, its references' identifiers the Works it is to
  cite and describe (`RecordsAlwaysMatch`).
- `ClaimsReselected`: a step changes the claims about one Work and shows what selection picks from them, or is a review of a claim a
  merge has moved, or the commit of a merge, which selects anew for the survivor.
- `MergesFollowed` rests on *HeldOK* (a request holds the Work it is about), *MergedWorks* (a Work with a redirect exists) and
  *Grows*: the rows a step adds are about Works its request holds or has just made. The commit of a merge leaves no row
  about the Work it merges.

The position after the last of a ramp is a least number with a property, which is derived from the
well-foundedness of the naturals. What is assumed of the constants, and why: no Work in `Known` cites itself (a CHECK of the
schema, `0001_init.sql:203`); entries of bibliographies are distinct (they have row identifiers); a printed title is a value
or absent; the index answers with an OpenAlex identifier or nothing; `None` is no request. The attempt to prove
`MergesFollowed` showed that an earlier form of its part about marks was false for a Work that had been merged before and whose
survivor is merged again, which the checked instance does not reach: `Where` now follows the redirect a step makes, not older ones.

### Only model-checked

Liveness (`InteractiveAnswered`, `Settles`, `JobsFinish`, `JobsEnd`, `TasksEnd`, `RunsEnd`, `FetchEnds`), which is out of reach of the
provers. `ScanExact` of `Documents`: a scan walks the list of paths
with a recursive function and takes identifiers of which the model has finitely many; what such a walk computes needs an induction
over the list. No module declares a RECURSIVE operator.

## 6. The plan

Done: the paper tasks, the index builds, acquisition, expansion with its refinement, reader tools, registries,
the catalog database with all its writers, the extraction runs, the citation-graph client, experiments, notes, highlights and labels.

Left, in the order of what is at stake:

1. An abstract specification of a merge as one atomic step that `Catalog` implements.
2. The ledger of what all papers spend (`analysis/spend.rs`), with runs side by side: the overshoot of its total.
3. The records in `feedback.jsonl`, which `begin_feedback_record` and the review of a revision rewrite without a mutex.
4. Pure operators against a reference over small inputs: `suggest_order` of ramps, the admission verdict, corrections and
   alignment of `paper_artifacts`.
5. Two merges open at once, and `Documents` in place of the free `Scan` of `Acquisition`.

Bounds stay at two actors and what prepares their meeting, so that the whole can be checked in minutes.

## 7. Not modelled

The models stand for about a tenth of the Rust code: the part that changes shared state. Most of the rest is text
processing (PDF layout, bibliography parsing, prompts, title scores, Markdown), the fields of records and their conversion
to SQL rows and JSON, queries for views, command-line arguments and printing, HTTP clients as such, floating-point scores, configuration, and
the tests that live in the same files; it is sequential or without state of its own, and a model of it would
say no more than the code. The web client, evaluation data and scripts are outside the running server.
`PROJECT.json` gives the reason for each part.
