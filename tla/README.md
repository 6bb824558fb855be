# Doc Extractor in TLA+

Doc Extractor scrapes documentation sites and PDFs into PostgreSQL, exports
them, and feeds the changes to a downstream pipeline.  A FastAPI web process
takes requests, worker processes extract and export, one scheduler process
fans out jobs and reaps lost work.  They share nothing but the database and two
directories, of images and of exports.  This directory holds TLA+ models of the
protocols between them, the TLC runs that check the models, and TLAPS proofs.

Paths below are relative to `src/backend/app/`.

## How to run

    tlc -workers 2 -config RunQueue_protocol.cfg MCRunQueue.tla
    tlc -workers 2 -config Services.cfg MCServices.tla
    tlapm RunQueueProofs.tla

and likewise `DeltaFeedProofs`, `ExtractRunProofs`, `JobSchedulingProofs`,
`ExportFilesProofs`, `ServicesProofs`, `ContentsProofs` and `SplitProofs`, the
longest with some ten minutes. The prefix of a `.cfg` names the module:
`RunQueue_*` belongs to `MCRunQueue`, `Services` to `MCServices`.  Every run
takes at most about four minutes on two cores.  `PROJECT.json` lists the runs
with their properties, for each property a mutant of the code that breaks it,
the source lines behind each definition, the hazards and the findings.

## Inventory

| Component | State it keeps | Operations | What must hold | Model |
|---|---|---|---|---|
| Run and export queue (`services/queue.py`) | rows of `extraction_runs`, `export_jobs` | enqueue, claim, reap, retry delay | one active run per source; a run and an export of one source exclude each other; queued work ends | RunQueue |
| Worker lanes (`worker.py`) | the run or job each lane holds, heartbeat | poll, run, handle a failure, crash | a lane works only on what it owns | RunQueue |
| Run control (`routes/extraction.py`, `routes/export.py`) | `control`, `status` | trigger, cancel, pause, resume | a stop request is neither lost nor turned into another | RunQueue |
| Extraction (`services/firecrawl.py`) | run and source status, TOC, articles, checkpoint | TOC phase, content phase on five paths, second pass, reconcile | no page is removed by mistake; a resumed run equals an uninterrupted one; articles come to mirror the site | ExtractRun; control in RunQueue |
| Outbox and delta feed (`services/change_log.py`, `delta_feed.py`) | `content_changes`; the consumer's cursor | record, snapshot, pull | no change is lost, none is shown before its run is over | DeltaFeed |
| Article store (`models/article*.py`, `routes/sources.py`, `routes/articles.py`) | articles, versions | store, archive, resanitize; changelog, list, diff | no content is lost; what is told adds up | ArticleHistory, ArticleList |
| TOC checkpoint (`services/toc_checkpoint.py`) | one row per source | save, append, clear | what a resumed run skips is done | ExtractRun |
| Job scheduling (`scheduler.py`, `services/scheduling.py`) | jobs, firings, next due time | tick, fan out, reconcile, edit | a slot fires once; every firing closes; no job starves | JobScheduling |
| Realm sessions (`services/auth/`) | the snapshot of cookies, its status, time stamps | just-in-time login, re-login, upload, test | one login per firing; no spent session | RealmSession |
| Webhooks (`services/webhook_dispatcher.py`) | hooks, per-run plans, delivery log | plan, post, retry, log | counters match the log | WebhookDelivery |
| Exports (`services/exporter.py`, `export_retention.py`, `routes/export.py`) | directories and rows | generate, zip, delete, sweep | rows keep their files; orphans go; a file holds what was selected | ExportFiles, ExportSplit |
| Media (`services/media_gc.py`, `maintenance.py`) | image directories | write, prune, sweep | what an article refers to is there | MediaFiles |
| PDF pipeline (`services/pdf_*.py`, `docling_client.py`) | two caches, lists of pending pages | convert, align, cut, escalate, retry | no page is lost, doubled or misnumbered | PdfImport, Docling, PageAlign, PdfSplit |
| Image description (`services/image_describe.py`) | captions, cache by content | describe, inject, repair | a described image has its caption, where its reference is found | ImageEnrich |
| Catalogue and version keys (`routes/products.py`, `routes/sources.py`, `services/versioning.py`) | products, templates | edit, bump, roll back | a run scrapes the release it is tagged with; a page keeps its article | Catalogue |
| Users (`routes/auth.py`, `core/`) | users, keys, grants | login, edit, delete | nobody's rights exceed what the user ever had | Accounts |
| Engines, profiles, sanitizer | none | parse third-party HTML | | not modelled |
| Dashboard, frontend, deployment, one-off scripts | | | | not modelled |

How they interact: the API and the scheduler insert PENDING rows; a lane of a
worker claims one by `FOR UPDATE SKIP LOCKED`; the API stops a run through its
`control` column, which the run polls; the scheduler's reapers find a stale
heartbeat; a run writes articles and, in the same transaction, the outbox; a
consumer pulls the outbox by id, below the lowest id of any active run.

What is hard: transactions of READ COMMITTED that overlap, an ORM that writes
only the attributes it saw change, workers that die (or only stall) between two
commits, stop requests that meet requeues, ids that become visible out of
order, files that are written before the rows that name them, and rows (the
checkpoint, a realm, a batch's zip) that several actors share.  `PROJECT.json`
lists these as hazards, each at its line.

## Modules

A definition named after a bug, and marked as a mutant where it stands, is not
part of a model: it is a body that a plausible mistake would give to the
definition that follows it.

### The queue and the feed

**RunQueue** models the queue, the lanes, the control API, the reapers and the
control paths of the five kinds of run (`web`, `pdf`, `escalate`, `enrich`,
`retry_blocked`; the last behaves as what the others have in common).  One
action is one committed transaction.  A claim has two
steps, its select (`PickRun`, `PickExport`: the row is locked from here on) and
its commit (`ClaimRun`, `ClaimExport`).  A lane goes from `picked` to `claimed`,
`working`, and leaves by `FinishRun`, `SettleSignal`, `AuthWall` or, after an
exception, `failing` and `HandleFailure`.  `Crash` takes both lanes of a worker.
The constant `Races` lets in three gaps that transactions leave open:

- `claim_skew`: the claims of the two lanes read snapshots that overlap;
- `stale_api`: a request loads a row, others commit, then it writes;
- `stall`: the heartbeat of a live worker is late and its run is reaped.

Left out: `ORDER BY created_at` (any ready row may be the oldest), more than one
stale request at a time, the deletion of a source with its runs, the text of
error messages, and the Firecrawl webhook, which the current submission path
does not use.  A heartbeat is abstracted to "a live lane works on the run".

**SourceLock** is what the queue promises about a source: a readers-writer lock,
the RUNNING run its writer and the RUNNING exports its readers.  `Lock` in
RunQueue instantiates it with the refinement mapping `Writer`, `Readers`.

**DeltaFeed** models the outbox and its consumer.  A row's id is allocated by
`Insert`; it is visible after `CommitRun`.  A run is reduced to what the safe
ceiling reads: queued, claimed, `floored` (its `run_start` sentinel is
committed), paused, ended.  The consumer (external; its contract is in
`docs/API.md` and in the docstring of `routes/articles.py`) takes a snapshot,
then pulls in batches, and saves the cursor only of a stream that ended.
A served record carries the article as it is when the batch is read, so
`content` counts the versions of an article and `copy` is the one that the
consumer holds.  The constant `Gaps` lets in what the feed is not proof against:

- `stale_ceiling`: a stream that found no active run has no bound in its later
  batches; without this gap such a stream ends with the rows there were;
- `slow_deletion`: a deletion's ids are allocated before it commits;
- `page_returns`, `describe_removed`, `resanitize`: articles change in a way
  that no row tells, or a row tells wrongly.  `drifted` collects the articles
  this has happened to.

Left out: filters by source and visibility; a deletion of several sources at
once (it is several tombstones in one transaction, as here); a worker that was
reaped and still writes, after its run has ended.

A deletion reads the articles that it will tell of (`ReadDeletion`) under no lock
but the advisory one that keeps deletions apart.  The runs of its source go on
until the delete is flushed, which waits for the rows they have open (`Cascade`)
and takes every article of the source, told or not.  A page stored in between goes
without a tombstone, and a snapshot that scanned it leaves a copy that nothing
corrects.  That is always let in, and such a page is in `drifted`.  The ids of the
tombstones are seen with the commit (`DeleteSource`) or, with `slow_deletion`,
before it (`RecordDeletion`, `CommitDeletion`).  `Deletable` bounds which sources
are ever deleted.

### A run and what starts it

**ExtractRun** is one source through its extractions: discovery and the
collapse guard (`Collapse`, `BuildToc`), the pages (`PageStored`, `PageFails`,
`PageRaises`, `PageBlocked`), the checkpoint, the second pass over blocked
pages, the removals (`Relinked`, `Reconcile`), `retry_blocked`, and pause,
crash, resume, cancel.  `path` is how the source is scraped: by batch with or
without change tracking, raw HTTP, Browserless, or raw HTTP with the TOC
rebuilt from the pages.  A page is a topic and its URL the topic at a release,
so that a new release, and the moment the source gets a URL template, change
the keys.  A batch of the code is one page here.  The threshold of the second
pass is half of the pages in place of 5 %, which two pages cannot show.  A
`retry_blocked` run that is claimed before it is handed its list does nothing,
and is left out.

**JobScheduling** is the scheduler's tick, one step per commit, between the
writers of the API.  Cron rules are periods; a run is its status.

**RealmSession** is the row of one realm under all its writers.  Each works on
a copy loaded earlier and writes back the columns it changed; a rollback gives
up a login that was only flushed.  Time is counted in half hours.

### Services

**WebhookDelivery**: hooks, the plan a run makes of them, and one background
task per event and hook.  A hook that is deleted and created again under the
same id, which the model has and the code does not, is harmless to the
property.

**Accounts**: requests in three steps, authenticated, checked, committed.  The
count of administrators and the commit that relies on it are therefore apart, and
two administrators can remove each other in the model as in the code.  `peak`
remembers the highest role a user has had, which bounds what a key of theirs may
carry whoever rotated it.  User ids are given out once; passwords, tokens and
`change_password` are not in the state.

**Catalogue**: a product, sources and one page followed through edits, bumps and
rollbacks, with the run that reads them.  The token of a release is written as
the release's number; deleting a product deletes its sources as `DeleteSource`
does.

### What articles hold and how they leave

**PdfImport**: a page is one article and a batch of one, all versions of the
PDF have the same pages, and a crash can come before every commit.
**Docling**: time is two flags that expire (the retry window of a transient
error, the deadline of a task), so nothing is said about when a conversion
ends.  **PageAlign**: passages are numbers, docling may put its lines in any
order.

**PdfSplit**: titles match exactly or not at all.  The lines at which
the pages start are any that do not decrease: they come from
`_align_page_lines`, guessed and clamped to the page before, or from the page
markers, fewer than the pages, or not at all; the first may lie behind the first
line.  An entry whose page has no start looks some lines ahead.  The pages of the
outline may go back, since a bookmark without a destination counts as one of the
first page.  Without an outline the headings of docling open the articles, each
at the next line that spells it or nowhere, and when that opens none every
heading line does.

**ImageEnrich**: the text of an article is the set of images captioned in it; the
phase ends a run of the source or is the whole of one of kind `enrich`.  The
reference to an image is plain, has a title, or is `unmatched`: then
`inject_caption` returns the text as it was, while the image counts as described
and the article as updated.  An earlier release did not find titles either;
`Repair` mends those articles that are not removed.  The sanitizer is taken to
keep references and captions.

**ArticleHistory**: time is the number of claims; `resanitize` is atomic here (its
race with a run is in ImageEnrich) and a new sanitizer comes once; what change
tracking reports as the same is left out.  A run has one of five kinds, and its
counters are overwritten where the code does: the conversion of a PDF writes the
pages done into `extracted`, and `Persist` zeroes it; a run that finds the file
of the last one completes with what a stopped conversion left; a retry of pages
zeroes both at each claim; a run of kind `enrich` sets both to the number of the
articles it captioned.  The latest run of the list is of any kind, so that after
an `enrich` run every article is told unchanged.

**ArticleList**: the cursor mode only. **ExportSplit**: a run is one step; a
`split_by` the API does not know is left out.  **MediaFiles**: one worker, whose
lane runs the sweep between two runs; with two workers the sweep of one meets
the run of the other. **ExportFiles**: a directory is a job and an attempt, so
that a job claimed again leaves one behind.  The API is one process whose zip
builder does not yield, so a zip is built in one step.  Which batch's directory
a sweep finds empty is ignored, and an export and a sweep take less than
`retention_days`.

**MCRunQueue**, **MCDeltaFeed**, **MCExtractRun**, **MCJobScheduling** and
**MCExportFiles** give the tables of an instance.  **MCServices** and
**MCContents** each hold small instances of several modules that share no
state.  A behaviour is a behaviour of one of them (`part`) and the variables of
the others are "off", so that the states of the instances add up and do not
multiply.  The modules named `*Proofs` hold the theorems: each extends the
module it is named after, **ServicesProofs** extends MCServices, and
**ContentsProofs** and **SplitProofs** extend MCContents, whose constants
`Services.cfg` and `Contents.cfg` give their values.

## Runs

| Run | What it shows |
|---|---|
| `protocol` | 2 workers, a web run, an image run, an export, one source; one crash, one resume, no race.  Types, `ClaimsAreExclusive`, `LaneOwnsRun`, `LaneOwnsExport`, `StopSurvivesRequeue`, `FinalIsFinal`, the refinement of SourceLock; under fairness `RunSettles` and `ExportSettles` |
| `races` | 1 worker, a PDF run and a retry-escalation run, an export, all three races, no resume: `AttemptsBounded` holds even so |
| `arrival` | Two runs of two sources, two articles, three rows, deletions of one of the sources: `NoLostChange`, `DeliveredIsTerminal`; under fairness `ChangesArrive` |
| `drift` | Two runs of one source, three rows, a dropped pull, all gaps but the stale ceiling, deletions that read before they lock: `StaleIsOwed`, every article that did not drift is right or will be sent |
| `cycle` | Two pages and an index, two releases, the five paths, three events (changes of the site, faults): `KeysUnique`, `StoredIsKept`, `CheckpointIsHonest`, `RemovalsAreDue`; under fairness `Converges` |
| `firing` | Two jobs, one source, two slots, every state of the source's realm, two edits: `OneFiringPerSlot`, `ClosedTellsTheTruth`; under fairness `DueJobFires`, `FiringCloses` |
| `volume` | Two jobs, two attempts each, a size cap of one export, one crash: `RowKeepsFiles`; under fairness `OrphanGoes` |
| `services` | `SiblingsDoNotRepeat` (three runs, two of one firing), `CountersMatchLog` (two events to one hook), `RightsWereHeld` (two users, two keys, four requests), `RunScrapesItsVersion` and `OneIdentity` (two products, two releases, three edits) |
| `contents` | Two pages, runs, documents and changes of the PDF and the like: `LostIsListed`, `PagesAreTheirOwn`, `AnchorsHold`, `NothingDropped`, `DescribedIsCaptioned`, `ChangelogAddsUp`, `HistoryIsWhole`, `SelectionKept`, `ImagesAreThere`, `SteadyIsSentOnce`, each on the instance of its module |

Three more runs end in a violation; each is a disagreement of the code with
what its comments say.

| Run | What happens |
|---|---|
| `claimskew` | An export is picked, a run of its source is picked before the export's claim commits, both commit: the two are RUNNING together. |
| `ceiling` | A pull starts with no run active, a run starts during it, a deletion commits a higher id: the run's lower row is never sent. |
| `zip` | A batch is downloaded while one of its jobs is running; the zip is cached, the job completes, and from then on every download is the zip without it. |

Other disagreements that the models contain, and that properties except by
name.  A retry-escalation run asked to pause ends CANCELLED.  A run that is
reaped to PENDING and then cancelled leaves its source EXTRACTING.  Cancelling
a run drops the checkpoint that another run of the source was paused on.  The
image phase describes removed pages, and the row it writes brings the page
back for a consumer (`drifted`).  A vendor's date of a page is renewed when
`resanitize` changed its hash (`misdated`).  A deletion is said to "tombstone
every live article" (`services/change_log.py:86`), but a page stored after it read
them gets none (`drifted`).  Two overlapping requests can each remove the other's
administrator, although the code says that one must remain
(`routes/auth.py:563`).  The opening lines of a guide before its
first section are not in any article (`NothingDropped` starts at the first),
although "the document's opening content is never orphaned"
(`services/pdf_convert.py:692`); nor are the pages of an outline
"non-decreasing" (`:667`) when a bookmark has no destination.  An image whose
reference is not matched stays without a caption for good
(`services/image_describe.py:479`), because its row is described.  The counters
of a PDF's runs leave out what an earlier claim created, and those of an `enrich`
run count articles that the changelog does not know (`CountersAddUp` says what
each kind counts).

A retry that finds another run's document in the cache forgets the pages it lost
(`foreign`).  So does a run that was requeued after it had written pages of a
replaced PDF, when the former PDF is back by then: its hash is that of the last
completed run, and nothing is converted (`services/pdf_import.py:208`).  The
tree of `browse_source` calls a page new by the time it was created, the list of
articles by the run that created it: the two differ once a run was resumed, or a
later one did not complete (`Browsed` and `Listed`, which `ChangelogAddsUp`
compares only apart from these).

### Bounds

Two runs of one source are the fewest that compete for it, and a third adds only
a further row that waits; two workers are the fewest whose claims overlap or
that take over from each other.  `ReapAttempts` and `PdfAttempts` are 2 in place
of 3 and 5: enough to retry once and to reach the cap.  `MaxCrashes` and
`MaxResumes` bound how often the environment strikes.  In DeltaFeed three rows
suffice to lose a row under another's commit, and `Batch` is 1, so that every
row ends a batch, against 500 in the code; in `arrival`, the largest instance,
one of the two sources is `Deletable` and no pull is dropped, which `drift`
has.  In ExtractRun two pages and the index are the fewest of which one can be
lost while another stays and the guard can still trigger (`MinPrior` is 2
against 20); three events are a change, a fault and a stop.  In JobScheduling
five firings are all that two slots of two jobs and a firing by hand need: with
fewer the bound itself would keep a job due.  In ExportFiles two jobs are a
batch of which one is done, and `MaxClaims` lets one be claimed again.  In the
services, two users are an administrator and one whose keys they rotate, and
each kind of edit of the catalogue occurs before, between and after the steps of
a bump.  Three pages, passages and lines are the fewest where an anchor is
dropped as out of order and a page lies between two that are kept; three entries
of a TOC, in two levels, are a chapter of two pages beside another.  Of the
images, two share an article and two their bytes, and `Forms` says which
references each may have: all three forms occur, and each article has one that
is matched. `MaxConverted` is one page done, enough to be left in a counter.
Three bookmarks are the fewest of which one goes back between two that are kept.
Which version of the PDF is served first (`FirstDoc`) does not matter, since
they are interchangeable.  `MaxRequests`, `MaxStops`, `MaxChanges`, `MaxEdits`,
`MaxRuns` and the like count what the environment does.  The proofs below do not
depend on the bounds.

Deadlock is not checked: the system comes to rest when every run has ended and
the bounds are used up.

### Fairness

In RunQueue: a lane that can claim polls for ever (`worker._lane`),
whatever it does next ends because every outside call has a timeout, the
scheduler reaps at every tick, and a retry delay passes.  Nobody has to resume
a paused run or click anything, and no race is fair.  In DeltaFeed: a
transaction ends; a run ends unless it stays paused (strong fairness, because a
run may be put back in the queue in between; that it does end is `RunSettles`);
the consumer keeps pulling.  In ExtractRun: a run goes on, and in the end
somebody triggers or resumes one, as a scheduled job does.  In JobScheduling:
the scheduler ticks (`scheduler.main_loop` outlives every exception) and the
workers move runs on; `DueJobFires` and `FiringCloses` are stated for when
nobody edits any more, which the bounds bring about.  In ExportFiles: the lane
ends what it builds and the hourly sweep comes again.

## Proofs

The theorems hold for any sets of sources, runs, jobs, workers, pages, hooks,
users and the like, and for any value of the bounds.  What is assumed of the
constants is named where they are declared and evaluated by TLC in the runs:
bounds are numbers, tables are functions, `NoRun` and its kin are outside the
sets they stand beside.  Every invariant was checked by TLC before it was proved.

**RunQueueProofs**: every safety property of `protocol`, those of `races` and
`claimskew` under conditions.  Whatever `Races` is: `TypeCorrectness`,
`OneActiveRunTheorem`, `ClaimsAreExclusiveTheorem`.  They follow from
`RowInvariance`: the type invariant, the unique index, and that the row a claim
has locked is pending and locked by nobody else.  That no other action changes a
locked row is what the guards on row locks (`Locked`, `At`) give.

With no stale request and no late heartbeat, but with claims that overlap
(`Races \subseteq {"claim_skew"}`, a hypothesis of each): `LaneOwnsRunTheorem`,
`LaneOwnsExportTheorem`, `AttemptsBoundedTheorem`, `FinalIsFinalTheorem`,
`StopSurvivesRequeueTheorem`.  None of these properties is inductive alone.
`LockInvariance` adds what the first two need: a lane that is busy owns a RUNNING
row, no two lanes the same one, and no request is held.  Every step but a claim
only lets go (`LetsGo`): it makes nothing RUNNING and gives no lane a row it did
not have.

A run and an export of one source are not always apart: the run `claimskew` brings
them together.  `ExclusionUnlessOverlap` says that nothing else can.  In every
behaviour `SourceExclusion` holds for good, or there is a state in which a run and
an export of one source are both picked and not yet claimed (`ClaimsOverlap`).
`LockUnlessOverlap` says the same of the refinement of SourceLock.  The invariant
behind both, `ApartInv`, is kept by every step from a state without an overlap: what
is picked still satisfies the condition of its select (`PicksApart`), because
a claim of the other kind would have had to be open as well.

**DeltaFeedProofs**: `NoChangeIsLost`, `DeliveredStaysTerminal` and
`StaleCopiesAreOwed`, each with the hypothesis that `stale_ceiling` is not among
the `Gaps` (with it the first is false: run `ceiling`).  The argument for the
first two: the sentinel of a run is visible before any other id of it is
allocated (`FlooredHasFloor`, `OpenIsFloored`), so an id that is open is never
below the ceiling, and what is behind a stream is visible and settled
(`BehindIsSettled`, `BehindIsDelivered`).  The third adds what an open row says
of its article (`ArticleInv`) and that a copy was taken behind the position; a
cascade needs no more, since what it takes untold has drifted.

**ExtractRunProofs**: `KeysStayUnique`, `CheckpointsAreHonest`,
`StoredPagesSurvive` and the action property `RemovalsStayDue`.  A stored page
survives because its article can still be linked when the removals are done
(`StoredIsLinked`: it is linked, or no other article is linked at its URL); a
guide that was found empty had at most one page, which the run cannot add to
(`GuideIsGuarded`).

**JobSchedulingProofs**: `SlotsFireOnce`, with the next due time ahead of every
firing (`NextIsAhead`) and every job in the tick due for a slot after its last
one (`TickIsDue`), and `ClosingIsTruthful`.  **ExportFilesProofs**:
`RowsKeepFiles`; the directory of an attempt still to come does not exist
(`AttemptsAreFresh`), and the sweep's lists hold what it saw (`SweepFits`).

**ServicesProofs**: `CountersStayExact` (an event is waiting, on its way, or
logged once for each hook, `EventsFit`), `RightsStayHeld` (what a request is
about to write is within what its user ever had, `DecisionsFit`),
`RunsScrapeTheirVersion` and `PagesStayOne`.  The last two share `ShelfInv`:
after a bump nobody raced, the URL and what the run has read are at the
product's release (`SettledFits`); while nothing is adrift, a templated URL
carries the product's version, the page was stored at another URL only when a
profile moved the token (`RowFits`), and the run's template is the one that
makes its key match it (`RunFits`). `SiblingsStayQuiet` is for one extraction
lane.  With two, two runs of a firing can log in at once; a worker process does
"extractions one at a time" (`worker.py:3`) and the run has one.

**ContentsProofs**: `ImagesStayThere`, for one lane (`worker.py:3` again): every
article has a directory of its own, and what is about to be committed is on disk
(`IdsFit`, `FilesFit`).  `CaptionsStay`: a phase waits for the answers of one
article, that of the text it will write (`WaitsForOne`); what this release
described is captioned where its reference is matched (`OthersAreCaptioned`),
and what an earlier one left is on the list that the phase repairs first, or in
an article that is removed (`EarlierAwaits`). `HistoryStaysWhole`: what was
never stored has no history, and an article whose hash is not that of its page
was resanitized and has images (`RowsTell`). `ChangelogsAddUp`, for finitely
many pages: a run is known by the time of its claim (`ClaimsFit`), an article
was created by a run that has begun, and at its claim unless some run was
claimed twice (`CreatorsFit`).  What a counter is worth depends on the kind of
run (`CountersFit`): the numbers of articles and versions that name it, or only
of those since its claim when the code starts anew; between the claim of a PDF
run and its `Persist` there are none of these (`PhaseFits`).
`PagesStayTheirOwn`, for batches of one page or more: the documents so far hold
the pages before the next batch, each with its number (`DocsFit`), and the task
the client asks for was submitted for the batch it is at (`AskingFits`), also
after a restart, since docling-serve never gives an id twice.
`SteadyStaysSentOnce`, for pages of one article or more: what kept its place was
sent if and only if the cursor is past it, and once (`SteadyFits`).
`LostPagesAreListed`: a retry that wrote keeps its list until it completes
(`OwnerFits`); the list of a cached document covers what it lost (`CacheFits`);
and at every step of a job what its document lost is still to be tried or on its
list, and of the pages written so far only those are lost (`JobFits`).

**SplitProofs**: the three properties of algorithms.  Each algorithm is a pass
over lines, pages or articles, and is written as a recursive function of the
index that the pass has reached.  That such a function exists, and that what
holds at 0 and is handed on by each step holds at every index, is proved once, as
lemmas about sets of numbers, from the well-foundedness of `<` (`WalkIs`,
`PassIs`, `AllReached`); every pass then has one lemma that says what it computes.

- `NothingIsDropped`: of the starts of the pages nothing is used, not even that they do
  not decrease.  A search begins behind the boundary before it, whatever
  its page (`WindowIsAhead`), so the boundaries are in order (`InOrder`), and so
  they are when headings or lines open the articles (`HeadingsInOrder`,
  `LinesInOrder`).  An extent reaches to the next boundary, so that what is not
  kept was empty (`KeptAre`).
- `SelectionIsKept`: what is in the files so far is what was taken so far
  (`Added`), so that the files joined are the selection (`JoinsFlatten`).  A
  chapter is in one file because its articles come together: a discovery finds
  the entries depth first (`FoundRight`), hence a row lies behind its parent with
  no row of the first level in between (`TocRight`), hence the chapters of
  articles in the order of the TOC never go back (`ChaptersRise`).
- `AnchorsAlwaysHold`: each page has a rank, the length of the longest chain that
  ends at it; the pages laid down by the patience sort are the lowest of their
  rank, and each follows one of the rank below (`Ranked`).  The chain of the last
  one is in order and as long as its rank.  No other set of pages in order is
  longer, because ranks grow along it and so are all different.  A guess lies in
  its bracket, since rounding does not leave it (`RoundIs`), and the clamp moves
  no anchored page.

What trying to prove them changed.  `LostIsListed` held on its instance and was
false with two changes of the PDF instead of one: the requeued run described
above.  It is excepted now, and the instance has two changes.  `StoredIsKept`
was false where a source gets its template between two passes of a rebuilt TOC;
it now says the last URL that a cycle stored for a page.  `OneIdentity` held on
the run's instance and was false beyond it, with three releases and four edits:
a bump committed while a run is under way, or `enable_versioning` at a version
the URL does not carry, followed by a token lookup that fails, stores the page a
second time.  The two are now among what sets a source adrift, and the hazard of
the bump names the lines. `MaxRelease` is positive, because a site that never
has a release has no URL. The lookup of a stored copy and the filter by status
had overlapping cases, which TLA+ leaves open and TLC takes in order; they are
now chains of conditions, as in the code.  The rows of a page of the list and
the pages of a converted document were sorted and joined by recursive helpers;
they are now sequences described by what holds of them.  The passes of PdfSplit,
ExportSplit and PageAlign were folds, whose definition takes an operator that
the provers cannot instantiate; they are recursive functions now, with each step
an operator of its own (`Searched`, `Packed`, `Grouped`, `Laid`), and the
patience sort goes over the pages and not over a list of their lines.  Sizes and
bounds that were numbers in these modules are constants, under assumptions that
were tacit: the URLs are finitely many (`UrlsAssumption`), sizes and limits are
numbers (`LimitsAssumption`).

Every safety property of a passing run is a theorem.  Only model-checked are the
liveness properties (`RunSettles`, `ExportSettles`, `ChangesArrive`, `Converges`,
`DueJobFires`, `FiringCloses`, `OrphanGoes`), since fairness is out of the
prover's reach, and what the three violations show.

## Not modelled

The scraping engines and the 43 site profiles turn third-party HTML into
entries and Markdown; what matters of them elsewhere, that a page is found or
not, scraped, blocked or failed, is an input of ExtractRun.  Sanitizing and
conversion to Markdown, the PDF renderer, full-text search, the dashboard and
the one-off scripts compute an answer and keep no state.  The frontend and the
deployment have no part in the protocols.  Vendors and tiers are rows that the
database's constraints protect.

## Plan

1. *Done*: every module above, and the proofs of all safety properties that the
   runs check.
2. An abstract feed (a log that is delivered in order, exactly once below the
   cursor) which DeltaFeed implements, and the composition of a reaped worker
   that still writes (`stall` of RunQueue) with the feed.
