----------------------------- MODULE MCContents -----------------------------
(* A small instance of each model of what articles hold and how they leave   *)
(* the system: the PDF pipeline, the images, the versions, the list and the  *)
(* export.  They share no state, so a behaviour is a behaviour of one of     *)
(* them, its part, while the variables of the others keep the value "off".   *)
(* Where two of them have a variable of the same name, one is renamed.       *)
EXTENDS Naturals, Sequences, FiniteSets, TLC

CONSTANTS
    Parts, Urls, NoUrl,
    Docs, FirstDoc, NoDoc, MaxPages, Budget, Breaker, MaxRuns, MaxStops, MaxChanges,
    Sources, ArticleIds, Images, SourceOf, ArticleOf, Sha, Forms, MaxNew,
    MaxPhases, MaxRewrites,
    SitePages, Illustrated, MaxEdits, MaxRaw, MaxClaims, MaxConverted,
    Workers, Pdf, ImageFiles, MaxIds,
    PageCount, BatchPages, MaxResubmits, MaxTasks, MaxRestarts,
    MaxId, MaxPlace, PageLimit,
    MaxPassage, MaxMissed, MaxLines,
    Titles, MaxDocLines, MaxOutline, MaxHeadings, AnchorBack, FallbackWindow,
    MaxEntries, MaxLevel, Sizes, Limits, DefaultLimit

Alike == Permutations(Urls)

\* Two sources of an article each; images of both have the same bytes.
OneEach == [a1 |-> "s1", a2 |-> "s2"]
TwoAndOne == [i1 |-> "a1", i2 |-> "a1", i3 |-> "a2"]
SameBytes == [i1 |-> "h1", i2 |-> "h2", i3 |-> "h1"]
Written == [i1 |-> {"titled", "unmatched"}, i2 |-> {"plain"}, i3 |-> {"plain"}]

VARIABLES
    part,
    pdf, changes, stops, runs, stored, cache, raw, job, handing, owner,
    foreign,
    task, given, restarts, leg, asking, attempt, window, late, docs, engine,
    partly,
    text, told, markdown,
    lines, pageStarts, outline, headings, segments,
    worth, form, removed, meaningful, described, content, known, phase, phases, rewrite,
    rewrites, earlier, raced,
    kinds, site, edits, article, versions, run, claims, improved, kept, misdated,
    found, toc, placed, nested, builds, repeated, export,
    page, repaints, shown, dir, ids, work, deleted, torn,
    place, moves, walk, cursor, sent, steady

importVars == <<pdf, changes, stops, runs, stored, cache, raw, job, handing,
    owner, foreign>>
convertVars == <<task, given, restarts, leg, asking, attempt, window, late,
    docs, engine, partly>>
alignVars == <<text, told, markdown>>
cutVars == <<lines, pageStarts, outline, headings, segments>>
imagesVars == <<worth, form, removed, meaningful, described, content, known, phase, phases,
    rewrite, rewrites, earlier, raced>>
historyVars == <<kinds, site, edits, article, versions, run, claims, improved, kept,
    misdated>>
bookVars == <<found, toc, placed, nested, builds, repeated, export>>
mediaVars == <<page, repaints, shown, dir, ids, work, deleted, torn>>
listVars == <<place, moves, walk, cursor, sent, steady>>
contentVars ==
    <<part, importVars, convertVars, alignVars, cutVars, imagesVars,
    historyVars, bookVars, mediaVars, listVars>>

ASSUME BoundsAssumption ==
    {MaxPages, MaxIds, MaxRuns, Budget, PageCount, MaxTasks, MaxId, MaxPlace, MaxDocLines,
     MaxPassage, MaxOutline, MaxHeadings, AnchorBack, FallbackWindow} \subseteq Nat
ASSUME SizesAssumption == {BatchPages, PageLimit} \subseteq Nat \ {0}
ASSUME PagesAssumption == IsFiniteSet(SitePages)
ASSUME DocsAssumption == FirstDoc \in Docs
ASSUME UrlsAssumption == IsFiniteSet(Urls)
ASSUME LimitsAssumption == Sizes \subseteq Nat /\ Limits \cup {DefaultLimit, MaxLevel} \subseteq Nat
ASSUME ImagesAssumption == ArticleOf \in [Images -> ArticleIds] /\ SourceOf \in [ArticleIds -> Sources]

Import == INSTANCE PdfImport
Convert == INSTANCE Docling
Align == INSTANCE PageAlign
Cut == INSTANCE PdfSplit
Caption == INSTANCE ImageEnrich WITH Articles <- ArticleIds
Ledger == INSTANCE ArticleHistory WITH Pages <- SitePages
Book == INSTANCE ExportSplit WITH article <- placed, told <- nested, runs <- builds
Media == INSTANCE MediaFiles WITH
    Pages <- SitePages, Images <- ImageFiles, edits <- repaints, article <- shown
Pager == INSTANCE ArticleList WITH changes <- moves
-----------------------------------------------------------------------------
ContentsInit ==
    /\ part \in Parts
    /\ IF part = "import" THEN Import!Init
       ELSE /\ pdf = "off" /\ changes = "off" /\ stops = "off" /\ runs = "off"
            /\ stored = "off" /\ cache = "off" /\ raw = "off" /\ job = "off"
            /\ handing = "off" /\ owner = "off" /\ foreign = "off"
    /\ IF part = "convert" THEN Convert!Init
       ELSE /\ task = "off" /\ given = "off" /\ restarts = "off" /\ leg = "off"
            /\ asking = "off" /\ attempt = "off" /\ window = "off" /\ late = "off"
            /\ docs = "off" /\ engine = "off" /\ partly = "off"
    /\ IF part = "align" THEN Align!Init
       ELSE /\ text = "off" /\ told = "off" /\ markdown = "off"
    /\ IF part = "cut" THEN Cut!Init
       ELSE /\ lines = "off" /\ pageStarts = "off" /\ outline = "off"
            /\ headings = "off" /\ segments = "off"
    /\ IF part = "images" THEN Caption!Init
       ELSE /\ worth = "off" /\ form = "off" /\ removed = "off" /\ earlier = "off"
            /\ meaningful = "off" /\ described = "off" /\ content = "off"
            /\ known = "off" /\ phase = "off" /\ phases = "off" /\ rewrite = "off"
            /\ rewrites = "off" /\ raced = "off"
    /\ IF part = "history" THEN Ledger!Init
       ELSE /\ kinds = "off" /\ site = "off" /\ edits = "off" /\ article = "off" /\ versions = "off"
            /\ run = "off" /\ claims = "off" /\ improved = "off" /\ kept = "off"
            /\ misdated = "off"
    /\ IF part = "book" THEN Book!Init
       ELSE /\ found = "off" /\ toc = "off" /\ placed = "off" /\ nested = "off"
            /\ builds = "off" /\ repeated = "off" /\ export = "off"
    /\ IF part = "media" THEN Media!Init
       ELSE /\ page = "off" /\ repaints = "off" /\ shown = "off" /\ dir = "off"
            /\ ids = "off" /\ work = "off" /\ deleted = "off" /\ torn = "off"
    /\ IF part = "list" THEN Pager!Init
       ELSE /\ place = "off" /\ moves = "off" /\ walk = "off" /\ cursor = "off"
            /\ sent = "off" /\ steady = "off"

ContentsNext ==
    /\ UNCHANGED part
    /\ IF part = "import" THEN Import!Next ELSE UNCHANGED importVars
    /\ IF part = "convert" THEN Convert!Next ELSE UNCHANGED convertVars
    /\ IF part = "align" THEN Align!Next ELSE UNCHANGED alignVars
    /\ IF part = "cut" THEN Cut!Next ELSE UNCHANGED cutVars
    /\ IF part = "images" THEN Caption!Next ELSE UNCHANGED imagesVars
    /\ IF part = "history" THEN Ledger!Next ELSE UNCHANGED historyVars
    /\ IF part = "book" THEN Book!Next ELSE UNCHANGED bookVars
    /\ IF part = "media" THEN Media!Next ELSE UNCHANGED mediaVars
    /\ IF part = "list" THEN Pager!Next ELSE UNCHANGED listVars

ContentsSpec == ContentsInit /\ [][ContentsNext]_contentVars
-----------------------------------------------------------------------------
\* Every article whose content was lost is on the pending list of the run that wrote
\* it (pdf_import.py, pdf_escalate.py).
LostIsListed == part = "import" => Import!LostIsListed

\* A page of the converted PDF carries the number it has in the PDF, over tasks that
\* were lost and submitted again (docling_client.py).
PagesAreTheirOwn == part = "convert" => Convert!PagesAreTheirOwn

\* The anchored pages start at their own lines, and as many as can be are anchored
\* (pdf_convert.py, align_page_lines).
AnchorsHold == part = "align" => Align!AnchorsHold

\* The cut of a PDF loses no line with content after its first section, and keeps the
\* order (pdf_convert.py, the search windows).
NothingDropped == part = "cut" => Cut!NothingDropped

\* A described image whose reference is matched has its caption in the stored text
\* (image_describe.py, phases of two sources at once).
DescribedIsCaptioned == part = "images" => Caption!DescribedIsCaptioned

\* The changelog, the list and its counts agree with the counters of the runs
\* (routes/sources.py, routes/articles.py).
ChangelogAddsUp == part = "history" => Ledger!ChangelogAddsUp

\* No content that was stored is lost, and each version leads to what replaced it
\* (firecrawl.py, routes/extraction.py).
HistoryIsWhole == part = "history" => Ledger!HistoryIsWhole

\* The files of a split export hold the selection, and no chapter that fits is torn
\* (exporter.py).
SelectionKept == part = "book" => Book!FilesHoldTheSelection /\ Book!ChaptersKept

\* The files of the images that an article refers to are there (firecrawl.py,
\* media_gc.py).
ImagesAreThere == part = "media" => Media!ImagesAreThere

\* An article that keeps its place is sent once to a client that pages through the list
\* (routes/articles.py, the keyset cursor).
SteadyIsSentOnce == part = "list" => Pager!SteadyIsSentOnce
=============================================================================
