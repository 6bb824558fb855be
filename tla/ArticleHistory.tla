--------------------------- MODULE ArticleHistory ---------------------------
(***************************************************************************)
(* What is told of the articles of a source: the versions that its runs    *)
(* archive, the changelog and the browse tree (routes/sources.py), and the *)
(* change status and the diffs of routes/articles.py.                      *)
(*                                                                         *)
(* A page has the number of the content that a scrape of it, or the         *)
(* conversion of the PDF, gives now, 0 when it is absent.                   *)
(* Time is the number of claims so far: it tells what was stored before a   *)
(* run was claimed from what was stored since.                             *)
(***************************************************************************)
EXTENDS Naturals, FiniteSets, Sequences

CONSTANTS
    Pages,
    Illustrated,   \* pages with images: what is stored is not what was scraped
    MaxRuns,       \* runs of the source (bound)
    MaxEdits,      \* changes of the site (bound)
    MaxRaw,        \* contents of a page (bound)
    MaxClaims,     \* claims, of new and of resumed runs (bound)
    MaxConverted   \* pages that the conversion of a PDF reports as done (bound)

VARIABLES
    kinds,      \* the kinds of run that the type of the source has
    site,       \* the vendor's content of each page
    edits,      \* how often it changed
    article,    \* the row of each page
    versions,   \* its archived texts, the oldest first
    run,        \* the extraction runs
    claims,     \* claims so far
    improved,   \* the sanitizer was improved
    kept,       \* history: the contents stored for each page
    misdated    \* history: pages re-dated though the vendor changed nothing

historyVars == <<kinds, site, edits, article, versions, run, claims, improved, kept, misdated>>

Runs == 1 .. MaxRuns
NoRun == 0

NoArticle == [raw |-> 0, fresh |-> FALSE, unclean |-> FALSE, captioned |-> FALSE,
              createdBy |-> NoRun, created |-> 0, linked |-> FALSE, removedBy |-> NoRun]

\* A run: since the last claim of a PDF run it may have persisted; enriched has the
\* articles with an outbox row of a run of kind enrich.
Queued == [state |-> "none", kind |-> "none", started |-> 0, persisted |-> 0, toc |-> {},
           left |-> {}, enriched |-> {}, extracted |-> 0, updated |-> 0]

WebKinds == {"web", "retry_blocked"}
PdfKinds == {"pdf", "escalate"}

Stored == {p \in Pages : article[p].raw # 0}
OnSite == {p \in Pages : site[p] # 0}
Active == {r \in Runs : run[r].state \in {"converting", "running", "paused"}}
Completed == {r \in Runs : run[r].state = "completed"}

Init ==
    /\ kinds \in {WebKinds \cup {"enrich"}, PdfKinds \cup {"enrich"}}
    /\ site \in [Pages -> 0 .. 1]
    /\ edits = 0
    /\ article = [p \in Pages |-> NoArticle]
    /\ versions = [p \in Pages |-> <<>>]
    /\ run = [r \in Runs |-> Queued]
    /\ claims = 0 /\ improved = FALSE
    /\ kept = [p \in Pages |-> {}]
    /\ misdated = {}

Edit(p, content) ==
    /\ edits < MaxEdits /\ content # site[p]
    /\ site' = [site EXCEPT ![p] = content]
    /\ edits' = edits + 1
    /\ UNCHANGED <<kinds, article, versions, run, claims, improved, kept, misdated>>

-----------------------------------------------------------------------------
(* A run.                                                                  *)

\* A run queued by the schedule or an operator.  One that tries pages again needs a run
\* that left some, blocked or not escalated, and one of kind enrich an image without a
\* description.  Runs of kind extract are told by the type of the source.
CanBegin(r, kind) ==
    /\ run[r].state = "none" /\ Active = {} /\ \A q \in 1 .. r - 1 : run[q].state # "none"
    /\ kind \in kinds
    /\ kind = "retry_blocked" => \E q \in Completed : run[q].kind \in WebKinds
    /\ kind = "escalate" => \E q \in Completed : run[q].kind \in PdfKinds
    /\ kind = "enrich" => \E p \in Illustrated \cap Stored : ~article[p].captioned

Unlinked == [p \in Pages |-> [article[p] EXCEPT !.linked = FALSE]]

\* The claim stamps started_at, also on a run that is resumed.  A run of the web
\* scrapes all of its TOC with the batch engine, what the checkpoint has not with the
\* others; a retry takes the blocked pages alone.  A PDF is converted first, and a
\* retry of its pages starts both counters anew.
Starts(r, kind) ==
    LET claimed == [run[r] EXCEPT !.kind = kind, !.started = claims + 1, !.state = "running"]
        lefts   == {OnSite, OnSite \ (run[r].toc \ run[r].left)}
    IN  CASE kind = "web"           -> {[claimed EXCEPT !.toc = OnSite, !.left = left] : left \in lefts}
          [] kind = "retry_blocked" -> {[claimed EXCEPT !.left = left] : left \in SUBSET OnSite}
          [] kind = "pdf"           -> {[claimed EXCEPT !.state = "converting"]}
          [] kind = "escalate"      -> {[claimed EXCEPT !.state = "converting", !.extracted = 0,
                                                        !.updated = 0]}
          [] kind = "enrich"        -> {claimed}

\* A run of the web builds the TOC again, which unlinks every article.
Claim(r, kind) ==
    /\ claims < MaxClaims
    /\ CanBegin(r, kind) \/ (run[r].state = "paused" /\ run[r].kind = kind)
    /\ \E start \in Starts(r, kind) : run' = [run EXCEPT ![r] = start]
    /\ claims' = claims + 1
    /\ article' = IF kind = "web" THEN Unlinked ELSE article
    /\ UNCHANGED <<kinds, site, edits, versions, improved, kept, misdated>>

\* The file has the bytes of the latest run that completed: this one is over.
SameFile(r) ==
    /\ run[r].state = "converting" /\ run[r].kind = "pdf"
    /\ \E q \in Completed : run[q].kind \in PdfKinds
    /\ \E p \in Stored : article[p].removedBy = NoRun
    /\ run' = [run EXCEPT ![r].state = "completed"]
    /\ UNCHANGED <<kinds, site, edits, article, versions, claims, improved, kept, misdated>>

\* The conversion and the escalation of a PDF report the pages done as the articles
\* extracted.
Progress(r) ==
    /\ run[r].state = "converting"
    /\ \E done \in 0 .. MaxConverted : run' = [run EXCEPT ![r].extracted = done]
    /\ UNCHANGED <<kinds, site, edits, article, versions, claims, improved, kept, misdated>>

\* Mutant of Persist: the pages done stay in the counter.
PersistUncleared(r) ==
    /\ run[r].state = "converting"
    /\ run' = [run EXCEPT ![r] = [@ EXCEPT !.state = "running", !.persisted = run[r].started,
                                    !.toc = OnSite, !.left = OnSite]]
    /\ article' = Unlinked
    /\ UNCHANGED <<kinds, site, edits, versions, claims, improved, kept, misdated>>

\* _persist_segments: the TOC is built again and the counter starts from zero.
Persist(r) ==
    /\ run[r].state = "converting"
    /\ run' = [run EXCEPT ![r] = [@ EXCEPT !.state = "running", !.persisted = run[r].started,
                                    !.toc = OnSite, !.left = OnSite, !.extracted = 0]]
    /\ article' = Unlinked
    /\ UNCHANGED <<kinds, site, edits, versions, claims, improved, kept, misdated>>

\* A row of article_versions: a text, the run that replaced it (none for an operator's
\* request) and when, and, history, what it was replaced by.
Version(raw, r, by) == [raw |-> raw, run |-> r, at |-> claims, by |-> by]

\* Mutant of Archived: the text is archived after it was overwritten.
ArchivedAfter(p, r, by) == Append(versions[p], Version(by, r, by))

Archived(p, r, by) == Append(versions[p], Version(article[p].raw, r, by))

Rescraped(a, r, content) ==
    [a EXCEPT !.raw = content, !.fresh = TRUE, !.unclean = FALSE, !.captioned = FALSE,
              !.linked = TRUE]

Created(r, content) ==
    [NoArticle EXCEPT !.raw = content, !.fresh = TRUE, !.createdBy = r, !.created = claims,
                     !.linked = TRUE]

\* process_article_result: a page is new, unchanged by its hash, or changed.
Store(r, p) ==
    LET content == site[p]
        a       == article[p]
    IN  /\ run[r].state = "running" /\ p \in run[r].left /\ content # 0
        /\ \/ /\ a.raw = 0
              /\ article' = [article EXCEPT ![p] = Created(r, content)]
              /\ run' = [run EXCEPT ![r].left = @ \ {p}, ![r].extracted = @ + 1]
              /\ UNCHANGED <<versions, misdated>>
           \/ /\ a.raw = content /\ a.fresh
              /\ article' = [article EXCEPT ![p].linked = TRUE]
              /\ run' = [run EXCEPT ![r].left = @ \ {p}]
              /\ UNCHANGED <<versions, misdated>>
           \/ /\ a.raw # 0 /\ (a.raw # content \/ ~a.fresh)
              /\ article' = [article EXCEPT ![p] = Rescraped(a, r, content)]
              /\ versions' = [versions EXCEPT ![p] = Archived(p, r, content)]
              /\ run' = [run EXCEPT ![r].left = @ \ {p}, ![r].updated = @ + 1]
              /\ misdated' = IF a.raw = content /\ ~a.unclean
                             THEN misdated \cup {p} ELSE misdated
        /\ kept' = [kept EXCEPT ![p] = @ \cup {content}]
        /\ UNCHANGED <<kinds, site, edits, claims, improved>>

\* A page that fails, is blocked or is gone meanwhile.
Skip(r, p) ==
    /\ run[r].state = "running" /\ p \in run[r].left
    /\ run' = [run EXCEPT ![r].left = @ \ {p}]
    /\ UNCHANGED <<kinds, site, edits, article, versions, claims, improved, kept, misdated>>

\* The captions of the images change the served text, and nothing else; a run of kind
\* enrich counts the articles by their outbox rows.
Enrich(r, p) ==
    /\ run[r].state = "running" /\ run[r].left = {} /\ run[r].kind # "retry_blocked"
    /\ p \in Illustrated /\ article[p].raw # 0 /\ ~article[p].captioned
    /\ article' = [article EXCEPT ![p].captioned = TRUE]
    /\ run' = IF run[r].kind = "enrich" THEN [run EXCEPT ![r].enriched = @ \cup {p}] ELSE run
    /\ UNCHANGED <<kinds, site, edits, versions, claims, improved, kept, misdated>>

\* A stored page of the TOC is linked again; the others are removed, by this run
\* unless they were before, and those that returned are not any more.
Reconciled(r, p) ==
    LET linked == article[p].linked \/ p \in run[r].toc
    IN  [article[p] EXCEPT !.linked = linked,
            !.removedBy = IF linked THEN NoRun ELSE IF @ = NoRun THEN r ELSE @]

Complete(r) ==
    /\ run[r].state = "running" /\ run[r].left = {}
    /\ article' = IF run[r].kind \in PdfKinds \cup {"web"}
                  THEN [p \in Pages |-> IF p \in Stored THEN Reconciled(r, p) ELSE article[p]]
                  ELSE article
    /\ LET over  == [run[r] EXCEPT !.state = "completed", !.toc = {}]
           count == Cardinality(run[r].enriched)
       IN  run' = [run EXCEPT ![r] =
                     IF run[r].kind # "enrich" THEN over
                     ELSE [over EXCEPT !.extracted = count, !.updated = count]]
    /\ UNCHANGED <<kinds, site, edits, versions, claims, improved, kept, misdated>>

\* Paused, or queued again after an expired session or a lost worker; or it fails
\* or is cancelled.
Stop(r) ==
    /\ run[r].state \in {"converting", "running"}
    /\ \E state \in {"paused", "ended"} : run' = [run EXCEPT ![r].state = state]
    /\ UNCHANGED <<kinds, site, edits, article, versions, claims, improved, kept, misdated>>

-----------------------------------------------------------------------------
(* The sanitizer.                                                          *)

\* A release improves the sanitizer: the text, and the hash, of some stored
\* articles are not what a scrape of the same page would give now.
Improve(stale) ==
    /\ ~improved /\ stale # {} /\ stale \subseteq Stored
    /\ improved' = TRUE
    /\ article' = [p \in Pages |-> IF p \in stale
                     THEN [article[p] EXCEPT !.unclean = TRUE, !.fresh = FALSE] ELSE article[p]]
    /\ UNCHANGED <<kinds, site, edits, versions, run, claims, kept, misdated>>

Unclean == {p \in Stored : article[p].unclean}

\* resanitize_source: the hash is that of the stored text, with the served images
\* and their captions, where a run takes that of the page as scraped.
Resanitize ==
    /\ Active = {} /\ Unclean # {}
    /\ versions' = [p \in Pages |-> IF p \in Unclean THEN Archived(p, NoRun, article[p].raw)
                                    ELSE versions[p]]
    /\ article' = [p \in Pages |-> IF p \in Unclean
                     THEN [article[p] EXCEPT !.unclean = FALSE, !.fresh = p \notin Illustrated]
                     ELSE article[p]]
    /\ UNCHANGED <<kinds, site, edits, run, claims, improved, kept, misdated>>

Next ==
    \/ \E p \in Pages, content \in 0 .. MaxRaw : Edit(p, content)
    \/ \E r \in Runs, kind \in kinds : Claim(r, kind)
    \/ \E r \in Runs : SameFile(r) \/ Progress(r) \/ Persist(r) \/ Complete(r) \/ Stop(r)
    \/ \E r \in Runs, p \in Pages : Store(r, p) \/ Skip(r, p) \/ Enrich(r, p)
    \/ \E stale \in SUBSET Pages : Improve(stale)
    \/ Resanitize

Spec == Init /\ [][Next]_historyVars

-----------------------------------------------------------------------------
(* What the API tells.                                                     *)

\* The completed run that started last.
Latest == IF Completed = {} THEN NoRun
          ELSE CHOOSE r \in Completed : \A q \in Completed : run[q].started <= run[r].started

UpdatedBy(p, r) == \E i \in DOMAIN versions[p] : versions[p][i].run = r

\* list_articles: by the run that created the row.
Listed(p) == IF Latest = NoRun THEN "unchanged"
             ELSE IF article[p].createdBy = Latest THEN "new"
             ELSE IF UpdatedBy(p, Latest) THEN "updated" ELSE "unchanged"

\* browse_source: by the time the row was created.
Browsed(p) == IF Latest = NoRun THEN "unchanged"
              ELSE IF article[p].created >= run[Latest].started THEN "new"
              ELSE IF UpdatedBy(p, Latest) THEN "updated" ELSE "unchanged"

\* The filter by status of list_articles, and the counts that go with it.
Filtered(status) ==
    {p \in Stored :
        IF Latest = NoRun THEN status = "unchanged"
        ELSE CASE status = "new"       -> article[p].createdBy = Latest
               [] status = "updated"   -> UpdatedBy(p, Latest) /\ article[p].createdBy # Latest
               [] status = "unchanged" -> ~UpdatedBy(p, Latest) /\ article[p].createdBy # Latest}

Facet(status) == Cardinality(Filtered(status))

CreatedBy(r) == {p \in Stored : article[p].createdBy = r}

\* The earliest run that created an article: its pages are told in one entry.
Baseline ==
    LET creators == {r \in Runs : CreatedBy(r) # {}}
    IN  IF creators = {} THEN NoRun
        ELSE CHOOSE r \in creators : \A q \in creators : run[r].started <= run[q].started

Added == {p \in Stored : article[p].createdBy # NoRun /\ article[p].createdBy # Baseline}
Changed == UNION {{p} \X DOMAIN versions[p] : p \in Pages}

\* The pages that the changelog says a run added, and the changes it made.
ToldAdded(r) == Cardinality(IF r = Baseline THEN CreatedBy(r)
                            ELSE {p \in Added : article[p].createdBy = r})
ToldChanged(r) == Cardinality({c \in Changed : versions[c[1]][c[2]].run = r})

\* What it created and changed since its last claim.
CreatedSince(r) == {p \in CreatedBy(r) : article[p].created >= run[r].started}
ChangedSince(r) ==
    {c \in Changed : /\ versions[c[1]][c[2]].run = r
                     /\ versions[c[1]][c[2]].at >= run[r].started}

Claimed == Cardinality({r \in Runs : run[r].state # "none"})

\* get_version_diff: what replaced a version is the next one, or the live text.
Replacing(p, i) == IF i < Len(versions[p]) THEN versions[p][i + 1].raw ELSE article[p].raw

-----------------------------------------------------------------------------
\* The changelog agrees with the counters of a run of the web, over runs that are
\* stopped, resumed and scrape a page again, and rows that resanitize archives for no
\* run.  Those of a PDF are overwritten: once it has persisted, the articles extracted
\* are those created since its last claim, and so are the changes of a retry of its
\* pages.  A run of kind enrich counts articles, and the changelog has none of it.
CountersAddUp ==
    \A r \in Runs :
        /\ run[r].kind \in WebKinds => run[r].extracted = ToldAdded(r)
        /\ run[r].kind \in PdfKinds /\ run[r].persisted = run[r].started
              => run[r].extracted = Cardinality(CreatedSince(r))
        /\ run[r].kind \in WebKinds \cup {"pdf"} => run[r].updated = ToldChanged(r)
        /\ run[r].kind = "escalate" => run[r].updated = Cardinality(ChangedSince(r))
        /\ run[r].kind = "enrich" => ToldAdded(r) = 0 /\ ToldChanged(r) = 0

\* So do the list, its filter and the counts beside it, for the run they are about,
\* whatever its kind.  The tree of browse_source, which goes by time, tells the same as
\* the list only while no run was resumed and none was claimed after the latest that
\* completed.
ChangelogAddsUp ==
    /\ CountersAddUp
    /\ Latest # NoRun => /\ Facet("new") = ToldAdded(Latest)
                         /\ Facet("updated") <= ToldChanged(Latest)
    /\ \A status \in {"new", "updated", "unchanged"} :
          Filtered(status) = {p \in Stored : Listed(p) = status}
    /\ Claimed = claims /\ Latest # NoRun /\ run[Latest].started = claims
          => \A p \in Stored : Browsed(p) = Listed(p)

\* No content that was stored is lost, and the diff of a version leads to the
\* content that did replace it.  A page is dated anew though the vendor changed
\* nothing only after resanitize, and only when it has images; the captions do not.
HistoryIsWhole ==
    \A p \in Pages :
        /\ kept[p] \subseteq {article[p].raw} \cup {versions[p][i].raw : i \in DOMAIN versions[p]}
        /\ \A i \in DOMAIN versions[p] : Replacing(p, i) = versions[p][i].by
        /\ p \in misdated => p \in Illustrated /\ \E i \in DOMAIN versions[p] : versions[p][i].run = NoRun
=============================================================================
