---------------------------- MODULE ExportSplit ----------------------------
(***************************************************************************)
(* How an export is split into files (services/exporter.py), over the TOC   *)
(* that an extraction stores (services/firecrawl.py): a file holds whole    *)
(* articles up to a limit, and, when chapters are respected, whole chapters.*)
(*                                                                         *)
(* A page is its URL and has one article.  A run is one step here; a page   *)
(* that left the TOC keeps its article and the place it had.                *)
(***************************************************************************)
EXTENDS Naturals, FiniteSets, Sequences, SequencesExt

CONSTANTS
    Urls,
    NoUrl,         \* of an entry that is only a heading
    MaxEntries,    \* entries that a discovery finds (bound)
    MaxLevel,      \* depth of the TOC (bound)
    MaxRuns,       \* runs (bound)
    Sizes,         \* of articles, in bytes or tokens
    Limits,        \* that an export asks for; 0 asks for the default one
    DefaultLimit

VARIABLES
    found,      \* the entries that the running discovery has found, depth first
    toc,        \* the rows of the TOC: page, parent row
    article,    \* the article of each page: its place, TOC row and size
    told,       \* the site's profile says which page encloses an entry
    runs,       \* runs so far
    repeated,   \* history: the TOC led to a page from two places
    export      \* the last export: what was asked for, and its files

splitVars == <<found, toc, article, told, runs, repeated, export>>

None == 0
NoArticle(size) == [order |-> 0, entry |-> None, size |-> size, stored |-> FALSE]
NoExport == [articles |-> <<>>, by |-> "none", limit |-> 0, chapters |-> FALSE, files |-> <<>>]

Stored == {u \in Urls : article[u].stored}

Init ==
    /\ found = <<>>
    /\ toc = <<>>
    /\ \E size \in [Urls -> Sizes] : article = [u \in Urls |-> NoArticle(size[u])]
    /\ told \in BOOLEAN
    /\ runs = 0 /\ repeated = FALSE
    /\ export = NoExport

-----------------------------------------------------------------------------
(* The TOC.                                                                *)

\* The page that encloses an entry: that of the last entry one level up.
Enclosing(level) ==
    LET above == {i \in DOMAIN found : found[i].level + 1 = level}
    IN  IF above = {} THEN NoUrl
        ELSE found[CHOOSE i \in above : \A j \in above : j <= i].url

\* Depth first, an entry is at most one level below the one before it.  Some
\* profiles say which page encloses it.
Discover(url, level) ==
    /\ runs < MaxRuns /\ Len(found) < MaxEntries
    /\ level <= IF found = <<>> THEN 0 ELSE found[Len(found)].level + 1
    /\ found' = Append(found, [url |-> url, level |-> level,
                               parent |-> IF told THEN Enclosing(level) ELSE NoUrl])
    /\ export' = NoExport
    /\ UNCHANGED <<toc, article, told, runs, repeated>>

\* A page is kept where it was found first; headings are all kept.
IsFirst(entries, i) ==
    entries[i].url = NoUrl \/ \A j \in 1 .. i - 1 : entries[j].url # entries[i].url

Deduped(entries) ==
    LET out[i \in 0 .. Len(entries)] ==
            IF i = 0 THEN <<>>
            ELSE IF IsFirst(entries, i) THEN Append(out[i - 1], entries[i]) ELSE out[i - 1]
    IN  out[Len(entries)]

\* The row whose page the entry names; or else the last one that is one level up,
\* when no row since then was above that level.
ParentOf(entries, i) ==
    LET named == {j \in 1 .. i - 1 : entries[i].parent # NoUrl /\ entries[j].url = entries[i].parent}
        above == {j \in 1 .. i - 1 : /\ entries[j].level + 1 = entries[i].level
                                     /\ \A k \in j + 1 .. i - 1 : entries[k].level > entries[j].level}
    IN  IF named # {} THEN CHOOSE j \in named : TRUE
        ELSE IF above # {} THEN CHOOSE j \in above : TRUE ELSE None

\* A run stores the TOC and every page of it.
Persist ==
    LET entries == Deduped(found)
        Row(u)  == CHOOSE i \in DOMAIN entries : entries[i].url = u
        OnToc   == {u \in Urls : \E i \in DOMAIN entries : entries[i].url = u}
    IN  /\ found # <<>>
        /\ toc' = [i \in DOMAIN entries |-> [url |-> entries[i].url,
                                             parent |-> ParentOf(entries, i)]]
        /\ article' = [u \in Urls |->
              IF u \in OnToc
              THEN [article[u] EXCEPT !.order = Row(u), !.entry = Row(u), !.stored = TRUE]
              ELSE [article[u] EXCEPT !.entry = None]]
        /\ repeated' = (entries # found)
        /\ found' = <<>> /\ runs' = runs + 1
        /\ UNCHANGED told
        /\ export' = NoExport

-----------------------------------------------------------------------------
(* The export.                                                             *)

\* By the place in the TOC; a removed page may share its place with another.
InOrder(articles) ==
    \A i, j \in DOMAIN articles : i < j => article[articles[i]].order <= article[articles[j]].order

\* Articles that were picked, all those below some TOC rows, or those of a search:
\* any set of them, in the order of the TOC or, for a search, of their rank.
Resolved == SetToAllKPermutations(Stored) \ {<<>>}

Metric(u, by) == IF by = "articles" THEN 1 ELSE article[u].size

\* The row at the top of the branch that an article is in.
Chapter(u) ==
    LET Root[i \in 0 .. Len(toc)] ==
            IF i = None \/ toc[i].parent = None THEN i ELSE Root[toc[i].parent]
    IN  Root[article[u].entry]

Total(articles, by) ==
    LET sum[i \in 0 .. Len(articles)] ==
            IF i = 0 THEN 0 ELSE sum[i - 1] + Metric(articles[i], by)
    IN  sum[Len(articles)]

\* More articles at the end of the last group.
Extended(groups, articles) == Append(Front(groups), Last(groups) \o articles)

\* The chapters that the articles, in this order, go through.
Grouped(chapters, u) ==
    IF chapters # <<>> /\ Chapter(u) = Chapter(Head(Last(chapters)))
    THEN Extended(chapters, <<u>>) ELSE Append(chapters, <<u>>)

Chapters(articles) ==
    LET chapters[i \in 0 .. Len(articles)] ==
            IF i = 0 THEN <<>> ELSE Grouped(chapters[i - 1], articles[i])
    IN  chapters[Len(articles)]

\* Whole articles, a new file when the next one would exceed the limit.
Packed(files, u, by, limit) ==
    IF files # <<>> /\ Total(Last(files) \o <<u>>, by) <= limit
    THEN Extended(files, <<u>>) ELSE Append(files, <<u>>)

SplitArticles(articles, by, limit) ==
    LET groups[i \in 0 .. Len(articles)] ==
            IF i = 0 THEN <<>> ELSE Packed(groups[i - 1], articles[i], by, limit)
    IN  groups[Len(articles)]

\* Mutant of AddChapter: the files of a large chapter go before the open one.
AddChapterBefore(files, chapter, by, limit) ==
    LET fits == Total(Last(files) \o chapter, by) <= limit
    IN  IF fits THEN Extended(files, chapter)
        ELSE IF Total(chapter, by) > limit
        THEN Front(files) \o SplitArticles(chapter, by, limit) \o <<Last(files)>>
        ELSE Append(files, chapter)

\* A chapter goes into the open file, or into a new one, or is split by itself.
\* The last of `files' is the open one, empty when none is.
AddChapter(files, chapter, by, limit) ==
    LET fits == Total(Last(files) \o chapter, by) <= limit
    IN  IF fits THEN Extended(files, chapter)
        ELSE IF Total(chapter, by) > limit
        THEN Append(files \o SplitArticles(chapter, by, limit), <<>>)
        ELSE Append(files, chapter)

\* Without the empty ones.
Flushed(files) ==
    LET groups[k \in 0 .. Len(files)] ==
            IF k = 0 THEN <<>>
            ELSE IF files[k] # <<>> THEN Append(groups[k - 1], files[k]) ELSE groups[k - 1]
    IN  groups[Len(files)]

SplitByChapter(articles, by, limit) ==
    LET chapters == Chapters(articles)
        files[c \in 0 .. Len(chapters)] ==
            IF c = 0 THEN << <<>> >> ELSE AddChapter(files[c - 1], chapters[c], by, limit)
    IN  Flushed(files[Len(chapters)])

Limit(asked) == IF asked = 0 THEN DefaultLimit ELSE asked

Files(articles, by, limit, chapters) ==
    IF by = "none" THEN <<articles>>
    ELSE IF chapters THEN SplitByChapter(articles, by, limit)
    ELSE SplitArticles(articles, by, limit)

Export(articles, by, asked, chapters) ==
    /\ found = <<>> /\ export = NoExport
    /\ export' = [articles |-> articles, by |-> by, limit |-> Limit(asked),
                  chapters |-> chapters, files |-> Files(articles, by, Limit(asked), chapters)]
    /\ UNCHANGED <<found, toc, article, told, runs, repeated>>

Next ==
    \/ \E url \in Urls \cup {NoUrl}, level \in 0 .. MaxLevel : Discover(url, level)
    \/ Persist
    \/ \E articles \in Resolved, by \in {"none", "articles", "size"},
          asked \in Limits, chapters \in BOOLEAN : Export(articles, by, asked, chapters)

Spec == Init /\ [][Next]_splitVars

-----------------------------------------------------------------------------
\* The files hold the articles, each once and in their order, none is empty, and
\* one above the limit is a single article.
FilesHoldTheSelection ==
    /\ FlattenSeq(export.files) = export.articles
    /\ \A i \in DOMAIN export.files :
          LET file == export.files[i]
          IN  /\ file # <<>>
              /\ export.by # "none" /\ Total(file, export.by) > export.limit => Len(file) = 1

\* The articles of a chapter, in their order.
Within(articles, row) ==
    LET within[i \in 0 .. Len(articles)] ==
            IF i = 0 THEN <<>>
            ELSE IF Chapter(articles[i]) = row THEN Append(within[i - 1], articles[i])
            ELSE within[i - 1]
    IN  within[Len(articles)]

\* A chapter no larger than the limit is in one file, however the TOC was nested.
ChaptersInOneFile ==
    export.by # "none" /\ export.chapters =>
        \A row \in 0 .. Len(toc) :
            LET chapter == Within(export.articles, row)
            IN  Total(chapter, export.by) <= export.limit =>
                    \E i \in DOMAIN export.files \cup {1} :
                        chapter = <<>> \/ ToSet(chapter) \subseteq ToSet(export.files[i])

\* The same, of exports in the order of a TOC that led to no page twice and has all
\* their pages.
ChaptersKept ==
    InOrder(export.articles) /\ ~repeated
        /\ (\A i \in DOMAIN export.articles : article[export.articles[i]].entry # None)
    => ChaptersInOneFile
=============================================================================
