----------------------------- MODULE ExtractRun -----------------------------
(***************************************************************************)
(* The extractions of one documentation site: each discovers the table of  *)
(* contents, scrapes the pages, and then removes the articles whose page   *)
(* is gone. The site changes meanwhile, pages fail or are blocked, and a   *)
(* run may be paused, lost with its worker, or fail, and go on from the    *)
(* checkpoint.  RunQueue has who may run; here one run at a time is given. *)
(*                                                                         *)
(* A page is a topic; its URL is the topic at a release.  A topic key is   *)
(* the URL, or the topic alone once the source has a URL template.         *)
(***************************************************************************)
EXTENDS Integers, FiniteSets

CONSTANTS
    Page,
    Index,          \* the synthetic entry of a discovery that found nothing
    Paths,          \* the ways to get the pages that a source may use
    MinPrior,       \* toc_collapse_min_prior
    RawMin,         \* raw_http_min_attempts
    MaxRelease,     \* bound on the releases of the product
    MaxEdits,       \* bound on the changes of the site and its template
    MaxFaults,      \* bound on failing pages, poor discoveries, stops and crashes
    MaxEvents       \* bound on both together

ASSUME PagesAssumption == IsFiniteSet(Page) /\ Page # {} /\ Index \notin Page
ASSUME PathsAssumption == Paths \subseteq {"batch", "tracked", "raw", "rebuild", "browserless"}
ASSUME BoundsAssumption == /\ MinPrior \in Nat /\ RawMin \in Nat \ {0}
                           /\ MaxRelease \in Nat \ {0} /\ MaxEdits \in Nat
                           /\ MaxFaults \in Nat /\ MaxEvents \in Nat

VARIABLES
    site,           \* its release, its pages, the text (a counter) of each
    path,           \* how the source's pages are scraped
    templated,      \* the source has a url_template
    articles,       \* the rows of the articles table
    toc,            \* the URLs of the toc_entries
    ckpt,           \* content_done: the URLs that a resumed run skips
    run,            \* the run in progress or on hold
    left,           \* the blocked pages that the last run reported
    lastOk,         \* articles_total of the last extraction that completed
    tracked,        \* what Firecrawl's change tracking last saw at each URL
    since,          \* the site's texts when this cycle of extraction began,
    fate,           \* and what has become of each URL in it
    edits, faults

vars == <<site, path, templated, articles, toc, ckpt, run, left, lastOk, tracked, since, fate,
          edits, faults>>
world == <<site, path, templated, edits>>       \* what a run does not change
kept == <<left, lastOk, since>>                 \* what the content phase does not change

Topic == Page \cup {Index}
Url == Topic \X (1 .. MaxRelease)
AnyRelease == 0
Key == Topic \X (0 .. MaxRelease)
Text == 0 .. MaxEdits
Unseen == -1

\* link: the article points at the TOC entry of its URL.
Article == [key : Key, url : Url, text : Text, link : BOOLEAN, removed : BOOLEAN]

\* blocked: pages recorded as blocked, open: those whose key leaves the release open,
\* dangling: those that point at TOC entries that have been replaced since.
List == [blocked : SUBSET Url, open : SUBSET Url, dangling : SUBSET Url]
Empty == [blocked |-> {}, open |-> {}, dangling |-> {}]
AllDangle(l) == [l EXCEPT !.dangling = l.blocked]

\* todo: the pages yet to scrape; open: those whose key leaves the release open; mark:
\* the page to be checkpointed next; list: the run's blocked_pending; seen: the worker's own copy of it, which it reads again
\* only when it has become fresh; asked: what the second pass was to scrape.
Run == [phase : {"none", "queued", "scrape", "retry", "reconcile", "close", "finish", "paused"},
        kind : {"extract", "retry_blocked"}, allow : BOOLEAN, total : Nat,
        todo : SUBSET Url, open : SUBSET Url, mark : SUBSET Url, list : List, seen : List,
        fresh : BOOLEAN, asked : List, persisted : BOOLEAN, warned : BOOLEAN, tried : Nat, failed : Nat]
NoRun == [phase |-> "none", kind |-> "extract", allow |-> FALSE, total |-> 0,
          todo |-> {}, open |-> {}, mark |-> {}, list |-> Empty, seen |-> Empty, fresh |-> FALSE,
          asked |-> Empty, persisted |-> FALSE, warned |-> FALSE, tried |-> 0, failed |-> 0]

TypeOK ==
    /\ site \in [release : 1 .. MaxRelease, pages : SUBSET Page, text : [Topic -> Text]]
    /\ path \in Paths /\ templated \in BOOLEAN
    /\ articles \subseteq Article
    /\ toc \subseteq Url /\ ckpt \subseteq Url
    /\ run \in Run
    /\ run.phase \notin {"scrape", "retry"} => run.mark = {} /\ run.todo = {}
    /\ left \in List
    /\ \A l \in {run.list, run.seen, run.asked, left} : l.dangling \cup l.open \subseteq l.blocked
    /\ lastOk \in 0 .. Cardinality(Page)
    /\ tracked \in [Url -> Text \cup {Unseen}]
    /\ since \in [Topic -> Text]
    /\ fate \in [Url -> {"untried", "stored", "failed", "blocked"}]
    /\ edits \in 0 .. MaxEdits /\ faults \in 0 .. MaxFaults
-----------------------------------------------------------------------------
(* What an article is matched by *)

Live == {a \in articles : ~a.removed}

\* derive_topic_key, with the template that the source had at discovery
KeyOf(u) == IF u \in run.open THEN <<u[1], AnyRelease>> ELSE u

\* Mutant of Matches: the removed articles are left out of the lookup by key.
MatchesLive(u) == {a \in Live : a.key = KeyOf(u)}

\* An article is found by its key; else it is the one live article at the URL;
\* else, when the key leaves the release open, the one live article of any release.
Matches(u) ==
    LET byKey == {a \in articles : a.key = KeyOf(u)}
        byUrl == {a \in Live : a.url = u}
        byPage == {a \in Live : u \in run.open /\ a.url[1] = u[1]}
    IN  IF byKey # {} THEN byKey
        ELSE IF Cardinality(byUrl) = 1 THEN byUrl
        ELSE IF Cardinality(byPage) = 1 THEN byPage ELSE {}

\* process_article_result for a page that came back: its article (or a new one)
\* takes the URL, the key and the TOC link of this run.  When change tracking
\* vouches that the text is the same, the stored text is left as it is.
Stored(u) ==
    LET old == Matches(u)
        same == path = "tracked" /\ tracked[u] = site.text[u[1]]
                /\ \E a \in old : a.key = KeyOf(u)
    IN  (articles \ old) \cup
            {[key |-> KeyOf(u), url |-> u, link |-> TRUE,
              text |-> IF same THEN (CHOOSE a \in old : TRUE).text ELSE site.text[u[1]],
              removed |-> \E a \in old : a.removed]}
-----------------------------------------------------------------------------
(* Discovery *)

Fault == faults < MaxFaults /\ edits + faults < MaxEvents /\ faults' = faults + 1
NoFault == faults' = faults
IfFault(bad) == IF bad THEN Fault ELSE NoFault

\* _collapse_baseline and _toc_collapsed; the ratio is one half.
Baseline == IF lastOk = 0 \/ Cardinality(Live) < lastOk THEN Cardinality(Live) ELSE lastOk

Collapsed(n) == \/ n <= 1 /\ Baseline > 1
                \/ Baseline >= MinPrior /\ 2 * n < Baseline

SiteUrls == {<<p, site.release>> : p \in site.pages}
Served(u) == u \in SiteUrls \cup {<<Index, site.release>>}

\* Discovery returns the site's pages, or with a fault only some of them; an empty
\* answer is taken for one index page.
Entries(found) == IF found = {} THEN {<<Index, site.release>>} ELSE found

Trigger(allow) ==
    /\ run.phase = "none"
    /\ run' = [NoRun EXCEPT !.phase = "queued", !.allow = allow]
    /\ UNCHANGED <<world, articles, toc, ckpt, kept, tracked, fate, faults>>

Discovering == run.phase = "queued" /\ run.kind = "extract"

\* A run that is over, however it ended, still shows the pages it recorded.
Over == run' = NoRun /\ left' = run.list

\* A discovery that collapsed fails the run before anything is written.
Collapse(found) ==
    /\ Discovering
    /\ IfFault(found # SiteUrls)
    /\ Collapsed(Cardinality(Entries(found))) /\ ~run.allow
    /\ Over
    /\ UNCHANGED <<world, articles, toc, ckpt, lastOk, tracked, since, fate>>

\* Otherwise the TOC is replaced, which unlinks every article, and the pages that
\* the checkpoint does not list are left to scrape.  A rendered source has no list.
BuildToc(found) ==
    LET entries == Entries(found)
        skipped == IF path = "browserless" THEN {} ELSE ckpt \cap entries
        cycle == ckpt = {}                      \* a new cycle of extraction begins
    IN
    /\ Discovering
    /\ IfFault(found # SiteUrls)
    /\ ~Collapsed(Cardinality(entries)) \/ run.allow
    /\ toc' = entries
    /\ articles' = {[a EXCEPT !.link = FALSE] : a \in articles}
    /\ run' = [run EXCEPT !.phase = "scrape", !.total = Cardinality(entries),
                          !.todo = entries \ skipped, !.persisted = @ \/ skipped # {},
                          !.open = IF templated /\ found # {} THEN entries ELSE {},
                          !.list = AllDangle(@), !.seen = AllDangle(run.list)]
    /\ left' = AllDangle(left)
    /\ since' = IF cycle THEN site.text ELSE since
    /\ fate' = IF cycle THEN [u \in Url |-> "untried"] ELSE fate
    /\ UNCHANGED <<world, ckpt, lastOk, tracked>>
-----------------------------------------------------------------------------
(* Content: page by page, each in its own commit, in the first pass and in the *)
(* second one over blocked pages alike (a batch of the code is one page here)  *)

Attempt(u) == run.phase \in {"scrape", "retry"} /\ run.mark = {} /\ u \in run.todo

\* The second pass hands on the TOC entry that was recorded with the page: when it
\* is gone the foreign key fails, and the page is skipped.
Dangles(u) == run.phase = "retry" /\ u \in run.asked.dangling

Raw == path \in {"raw", "rebuild"}

\* Mutant of After: the raw path checkpoints every page it tried.
AfterAny(r, u, stored) ==
    [r EXCEPT !.todo = @ \ {u}, !.mark = IF r.phase = "scrape" THEN {u} ELSE {}]

\* A page is done with.  The batch path checkpoints what it has tried, the raw one
\* what it has stored.
After(r, u, stored) ==
    [r EXCEPT !.todo = @ \ {u},
              !.mark = IF r.phase = "scrape" /\ (path \in {"batch", "tracked"} \/ (Raw /\ stored))
                       THEN {u} ELSE {},
              !.tried = IF Raw THEN @ + 1 ELSE @,
              !.failed = IF Raw /\ ~stored THEN @ + 1 ELSE @]

Saw(u) == tracked' = IF path = "tracked" THEN [tracked EXCEPT ![u] = site.text[u[1]]] ELSE tracked
Missed(u) == fate' = [fate EXCEPT ![u] = IF @ = "untried" THEN "failed" ELSE @]

PageStored(u) ==
    /\ Attempt(u) /\ Served(u) /\ ~Dangles(u)
    /\ articles' = Stored(u)
    /\ Saw(u)
    /\ run' = [After(run, u, TRUE) EXCEPT !.persisted = TRUE]
    /\ fate' = [fate EXCEPT ![u] = "stored"]
    /\ UNCHANGED <<world, toc, ckpt, kept, faults>>

\* It cannot be fetched, is gone by now, or is empty.
PageFails(u) ==
    /\ Attempt(u)
    /\ IfFault(Served(u))
    /\ run' = After(run, u, FALSE)
    /\ Missed(u)
    /\ UNCHANGED <<world, articles, toc, ckpt, kept, tracked>>

\* Storing it fails, and the rollback makes the worker read its run afresh.
PageRaises(u) ==
    /\ Attempt(u) /\ Served(u)
    /\ IfFault(~Dangles(u))
    /\ Saw(u)
    /\ run' = [After(run, u, FALSE) EXCEPT !.fresh = TRUE]
    /\ Missed(u)
    /\ UNCHANGED <<world, articles, toc, ckpt, kept>>

\* A bot-protection page is recorded on the run, once, with the TOC entry it has.
PageBlocked(u) ==
    /\ Attempt(u) /\ Fault
    /\ run' = [After(run, u, FALSE) EXCEPT
                  !.list = IF u \in @.blocked THEN @
                           ELSE [blocked |-> @.blocked \cup {u},
                                 open |-> @.open \cup ({u} \cap run.open),
                                 dangling |-> @.dangling \cup (IF Dangles(u) THEN {u} ELSE {})],
                  !.warned = TRUE]
    /\ fate' = [fate EXCEPT ![u] = IF @ = "stored" THEN @ ELSE "blocked"]
    /\ UNCHANGED <<world, articles, toc, ckpt, kept, tracked>>

Checkpoint ==
    /\ run.mark # {}
    /\ ckpt' = ckpt \cup run.mark
    /\ run' = [run EXCEPT !.mark = {}]
    /\ UNCHANGED <<world, articles, toc, kept, tracked, fate, faults>>

Passed(phase) == run.phase = phase /\ run.todo = {} /\ run.mark = {}

\* _raw_failure_exceeded, with a rate of 30 %.
RawFailed == run.tried >= RawMin /\ 10 * run.failed > 3 * run.tried
-----------------------------------------------------------------------------
(* Between the content and the removals *)

\* _should_auto_retry_blocked, by the worker's copy of the list (5 % of the pages
\* in the code, half of them here): the list is cleared, and its pages are scraped
\* once more.
SecondPass(r) ==
    LET seen == IF r.fresh THEN r.list ELSE r.seen
    IN  IF seen.blocked # {} /\ 2 * Cardinality(seen.blocked) <= r.total
        THEN [r EXCEPT !.phase = "retry", !.todo = seen.blocked, !.asked = seen,
                       !.open = (@ \ seen.blocked) \cup seen.open, !.list = Empty, !.seen = Empty,
                       !.tried = 0, !.failed = 0]
        ELSE [r EXCEPT !.phase = "reconcile"]

EndContent ==
    /\ Passed("scrape") /\ ~RawFailed
    /\ run' = SecondPass(run)
    /\ UNCHANGED <<world, articles, toc, ckpt, kept, tracked, fate, faults>>

\* The stored pages may carry the authored hierarchy.  Then the TOC is replaced by
\* it, with the URL of every live article added (_toc_superset), and all articles
\* are linked by URL; if that fails the discovered TOC stays.
RebuildToc(hierarchy) ==
    /\ Passed("scrape") /\ ~RawFailed /\ path = "rebuild"
    /\ toc' = hierarchy \cup {a.url : a \in Live}
    /\ articles' = {[a EXCEPT !.link = a.url \in toc'] : a \in articles}
    /\ run' = SecondPass([run EXCEPT !.list = AllDangle(@), !.seen = AllDangle(@)])
    /\ UNCHANGED <<world, ckpt, kept, tracked, fate, faults>>

\* The second pass is over, or broke off (a stop request is taken for a failure):
\* then what it was to do is put back, unless some page was recorded again.
EndRetry ==
    /\ run.phase = "retry"
    /\ \/ run.todo = {} /\ NoFault
          /\ run' = [run EXCEPT !.phase = IF run.kind = "extract" THEN "reconcile" ELSE "finish",
                                !.list = IF RawFailed /\ run.kind = "extract" /\ @ = Empty
                                         THEN run.asked ELSE @]
       \/ run.todo # {} /\ Fault
          /\ run' = [run EXCEPT !.phase = IF run.kind = "extract" THEN "reconcile" ELSE "finish",
                                !.todo = {},
                                !.list = IF run.kind = "extract" /\ @ = Empty
                                         THEN run.asked ELSE @]
    /\ UNCHANGED <<world, articles, toc, ckpt, kept, tracked, fate>>
-----------------------------------------------------------------------------
(* Removals and the end *)

\* Mutant of Relinked: the pages that a resumed run skipped are not linked again.
RelinkedNever == articles

\* An unlinked article is linked to the entry of its URL that no article holds.
Relinked == {[a EXCEPT !.link = \/ a.link
                                \/ /\ a.url \in toc
                                   /\ ~\E b \in articles : b.link /\ b.url = a.url]
                : a \in articles}

Reconcile ==
    /\ run.phase = "reconcile"
    /\ articles' = {[a EXCEPT !.removed = ~a.link] : a \in Relinked}
    /\ run' = [run EXCEPT !.phase = "close"]
    /\ UNCHANGED <<world, toc, ckpt, kept, tracked, fate, faults>>

\* Mutant of ClearCheckpoint: the next cycle goes on from the old checkpoint.
ClearCheckpointNever ==
    /\ run.phase = "close"
    /\ run' = [run EXCEPT !.phase = "finish"]
    /\ UNCHANGED <<world, articles, toc, ckpt, kept, tracked, fate, faults>>

ClearCheckpoint ==
    /\ run.phase = "close"
    /\ ckpt' = {}
    /\ run' = [run EXCEPT !.phase = "finish"]
    /\ UNCHANGED <<world, articles, toc, kept, tracked, fate, faults>>

\* A run that stored nothing and was warned fails; what it recorded is dropped only
\* if the worker knew of it.
AllBlocked == run.kind = "extract" /\ ~run.persisted /\ run.warned

Finish ==
    /\ run.phase = "finish"
    /\ run' = NoRun
    /\ left' = IF AllBlocked /\ (run.fresh \/ run.seen # Empty) THEN Empty ELSE run.list
    /\ lastOk' = IF run.kind = "extract" /\ ~AllBlocked THEN run.total ELSE lastOk
    /\ UNCHANGED <<world, articles, toc, ckpt, tracked, since, fate, faults>>
-----------------------------------------------------------------------------
(* Retrying blocked pages, stopping, losing and failing *)

\* retry_blocked_run: the run's own list starts empty; what breaks it off is not put
\* back.
RetryRun(list) == [NoRun EXCEPT !.phase = "retry", !.kind = "retry_blocked",
                                !.todo = list.blocked, !.open = list.open, !.asked = list]

\* A run over the pages that the last one reported.
RetryBlocked ==
    /\ run.phase = "none" /\ left.blocked # {}
    /\ run' = RetryRun(left)
    /\ UNCHANGED <<world, articles, toc, ckpt, kept, tracked, fate, faults>>

Requeued == [NoRun EXCEPT !.phase = "queued", !.allow = run.allow, !.list = run.list,
                          !.persisted = run.persisted]

\* A stop is honoured between two batches.  A paused run keeps the checkpoint, and
\* its resume forgets the warning; a cancelled one drops it.
Pause ==
    /\ run.kind = "extract" /\ run.phase \in {"queued", "scrape"} /\ run.mark = {}
    /\ Fault
    /\ run' = [Requeued EXCEPT !.phase = "paused"]
    /\ UNCHANGED <<world, articles, toc, ckpt, kept, tracked, fate>>

Resume ==
    /\ run.phase = "paused"
    /\ run' = [run EXCEPT !.phase = "queued"]
    /\ UNCHANGED <<world, articles, toc, ckpt, kept, tracked, fate, faults>>

Cancel ==
    /\ run.kind = "extract" /\ run.phase \in {"queued", "scrape", "paused"} /\ run.mark = {}
    /\ Fault
    /\ ckpt' = {}
    /\ Over
    /\ UNCHANGED <<world, articles, toc, lastOk, tracked, since, fate>>

\* The worker dies, and the run is queued again by the reaper; a run over blocked
\* pages, whose list was cleared when it began, then finds nothing more to do.
Crash ==
    /\ run.phase \in {"scrape", "retry", "reconcile", "close", "finish"}
    /\ Fault
    /\ run' = IF run.kind = "extract" THEN [Requeued EXCEPT !.warned = run.warned]
              ELSE [run EXCEPT !.phase = "retry", !.todo = run.list.blocked, !.open = run.list.open,
                               !.asked = run.list, !.list = Empty, !.seen = Empty]
    /\ UNCHANGED <<world, articles, toc, ckpt, kept, tracked, fate>>

\* Too many raw pages failed, or anything else was raised.  The checkpoint stays.
Fails ==
    /\ run.kind = "extract" /\ run.phase \in {"scrape", "reconcile", "close"}
    /\ IfFault(~(Passed("scrape") /\ RawFailed))
    /\ Over
    /\ UNCHANGED <<world, articles, toc, ckpt, lastOk, tracked, since, fate>>
-----------------------------------------------------------------------------
(* The site *)

Edited == edits < MaxEdits /\ edits + faults < MaxEvents /\ edits' = edits + 1
siteUnchanged == UNCHANGED <<path, articles, toc, ckpt, run, kept, tracked, fate, faults>>

PageEdited(p) ==
    /\ Edited
    /\ site' = [site EXCEPT !.text[p] = edits + 1, !.pages = @ \cup {p}]
    /\ siteUnchanged /\ UNCHANGED templated

PageDropped(p) ==
    /\ Edited /\ p \in site.pages
    /\ site' = [site EXCEPT !.pages = @ \ {p}]
    /\ siteUnchanged /\ UNCHANGED templated

Released ==
    /\ Edited /\ site.release < MaxRelease
    /\ site' = [site EXCEPT !.release = @ + 1]
    /\ siteUnchanged /\ UNCHANGED templated

\* The user gives the source a URL template, or takes it away.
TemplateSet ==
    /\ Edited
    /\ templated' = ~templated
    /\ siteUnchanged /\ UNCHANGED site
-----------------------------------------------------------------------------
Init ==
    /\ site = [release |-> 1, pages |-> Page, text |-> [p \in Topic |-> 0]]
    /\ path \in Paths /\ templated \in BOOLEAN
    /\ articles = {} /\ toc = {} /\ ckpt = {}
    /\ run = NoRun /\ left = Empty /\ lastOk = 0
    /\ tracked = [u \in Url |-> Unseen]
    /\ since = site.text
    /\ fate = [u \in Url |-> "untried"]
    /\ edits = 0 /\ faults = 0

\* What the worker does next.
Step ==
    \/ \E found \in SUBSET SiteUrls : Collapse(found) \/ BuildToc(found)
    \/ \E u \in Url : PageStored(u) \/ PageFails(u) \/ PageRaises(u) \/ PageBlocked(u)
    \/ Checkpoint \/ EndContent \/ \E h \in SUBSET toc : RebuildToc(h)
    \/ EndRetry \/ Reconcile \/ ClearCheckpoint \/ Finish \/ Fails

Next ==
    \/ Step
    \/ \E allow \in BOOLEAN : Trigger(allow)
    \/ RetryBlocked \/ Pause \/ Resume \/ Cancel \/ Crash
    \/ \E p \in Page : PageEdited(p) \/ PageDropped(p)
    \/ Released \/ TemplateSet

Spec == Init /\ [][Next]_vars

\* A worker that is alive goes on, jobs trigger extractions for ever, and a user
\* resumes what was paused.
FairSpec == Spec /\ WF_vars(Step) /\ WF_vars(Trigger(FALSE)) /\ WF_vars(Resume)
-----------------------------------------------------------------------------
(* Properties *)

\* A source has one article per topic key (the unique index is never hit).
KeysUnique == \A a, b \in articles : a.key = b.key => a = b

Reconciled == run.kind = "extract" /\ run.phase \in {"close", "finish"}

\* The last release of a page that the cycle has stored.  (An article moves on with
\* its page; a rebuilt TOC may still have an older URL, of an article that was left.)
StoredLast(u) ==
    /\ fate[u] = "stored"
    /\ \A v \in Url : v[1] = u[1] /\ fate[v] = "stored" => v[2] <= u[2]

\* What a cycle has stored, over all its pauses and crashes, is live when the
\* removals are done, and no older than the cycle.  (Change tracking may vouch for
\* a text that is older.)
Fresh(a, u) == a.url = u /\ (path # "tracked" => a.text >= since[u[1]])
StoredIsKept == Reconciled => \A u \in toc : StoredLast(u) => \E a \in Live : Fresh(a, u)

\* A page that a resumed run may skip has been tried in this cycle; on the raw path,
\* which is to retry what failed, it has been stored.
CheckpointIsHonest ==
    \A u \in ckpt : fate[u] # "untried" /\ (Raw => fate[u] = "stored")

\* An article is removed only when its URL has left the TOC or another live article
\* has taken its place: never because a resumed run skipped its page.  A discovery
\* that finds nothing does not take the place of a guide of several pages, unless the
\* user allowed it.
RemovalsAreDue ==
    [][/\ \A a \in articles, b \in articles' :
             a.key = b.key /\ ~a.removed /\ b.removed =>
                 \/ a.url \notin toc
                 \/ \E c \in articles' : c # b /\ c.url = a.url /\ ~c.removed
       /\ /\ Reconcile /\ ~run.allow /\ lastOk # 1
          /\ Cardinality({a \in Live : a.url[1] # Index}) > 1
          => \E u \in toc : u[1] # Index]_vars

\* The articles come to mirror the site once it no longer changes, unless the guard
\* takes the change for a collapse.  (Not where change tracking vouches for texts, or
\* where the TOC is rebuilt from the articles.)
Mirrored == {<<a.url, a.text>> : a \in Live} = {<<u, site.text[u[1]]>> : u \in Entries(SiteUrls)}
Converges ==
    path \in {"batch", "raw", "browserless"} =>
        <>[](Mirrored \/ Collapsed(Cardinality(Entries(SiteUrls))))
=============================================================================
