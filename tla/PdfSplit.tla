------------------------------ MODULE PdfSplit ------------------------------
(***************************************************************************)
(* A converted PDF is cut into articles (services/pdf_convert.py): the     *)
(* lines of the document, the line at which each page begins, the outline   *)
(* of the PDF and the headings that docling found give the line at which    *)
(* each article begins.                                                     *)
(*                                                                         *)
(* A line is blank, body text, or a heading that spells a title; the       *)
(* looser matches of a title (bold lines, numbering, containment) are      *)
(* left out.  Lines and pages count from 1.                                *)
(***************************************************************************)
EXTENDS Naturals, Sequences, FiniteSets, FiniteSetsExt, SequencesExt

CONSTANTS
    Titles,
    MaxDocLines, MaxPages, MaxOutline, MaxHeadings,   \* (bounds)
    AnchorBack,      \* _ANCHOR_BACK
    FallbackWindow   \* _FALLBACK_WINDOW

VARIABLES
    lines,        \* of the document
    pageStarts,   \* page_line_starts
    outline,      \* the bookmarks: title, level, page
    headings,     \* the titles that docling takes for headings
    segments      \* the articles, <<>> before the cut: first line, last line, entry

splitVars == <<lines, pageStarts, outline, headings, segments>>

Blank == "blank"
Body == "body"
Line == Titles \cup {Blank, Body}
Entry == [title : Titles, level : {1, 2}, page : 1 .. MaxPages]

EndLine == Len(lines)

\* Where the pages start may be guessed, clamped to the page before, or past the last
\* line; the first page need not start at the first line.  There are fewer starts than
\* pages when they come from the markers, and none from pymupdf.
PageStarts ==
    {s \in BoundedSeq(1 .. EndLine + 1, MaxPages) :
        \A p, q \in DOMAIN s : p < q => s[p] <= s[q]}

\* A bookmark without a destination counts as one of the first page, so the pages of an
\* outline may decrease.  The headings are used only when there is no outline, and
\* then the pages are not.
Init ==
    /\ lines \in UNION {[1 .. n -> Line] : n \in 1 .. MaxDocLines}
    /\ outline \in BoundedSeq(Entry, MaxOutline)
    /\ IF outline # <<>> THEN pageStarts \in PageStarts /\ headings = <<>>
       ELSE pageStarts = <<>> /\ headings \in BoundedSeq(Titles, MaxHeadings)
    /\ segments = <<>>

\* The headings between two lines that spell a title; the one nearest to the
\* anchor, the first of two.
Distance(x, y) == IF x > y THEN x - y ELSE y - x
Matches(title, lo, hi) == {l \in lo .. hi : l <= EndLine /\ lines[l] = title}
Nearest(hits, anchor) ==
    Min({l \in hits : \A k \in hits : Distance(l, anchor) <= Distance(k, anchor)})

HasPage(i) == outline[i].page <= Len(pageStarts)
Top(i) == pageStarts[outline[i].page]

\* The line where the next strictly later page of the outline begins.
NextPageLine(i) ==
    LET later == {k \in i .. Len(outline) - 1 :
                     outline[k + 1].page > outline[k].page /\ HasPage(k + 1)}
    IN  IF later = {} THEN EndLine + 1 ELSE Top(Min(later) + 1)

Larger(x, y) == IF x > y THEN x ELSE y

\* Mutant of Window: the search begins at the entry's page, wherever the last
\* article began.
WindowBack(i, cursor) ==
    IF HasPage(i)
    THEN LET lo == IF Top(i) > AnchorBack THEN Top(i) - AnchorBack ELSE 1
         IN  [lo |-> lo, hi |-> Larger(lo, NextPageLine(i) - 1), anchor |-> Top(i)]
    ELSE [lo |-> cursor, hi |-> cursor + FallbackWindow, anchor |-> cursor]

\* Where an entry looks for its heading: [lo, hi], and the line it expects.  One whose
\* page has no start looks a number of lines ahead.
Window(i, cursor) ==
    IF HasPage(i)
    THEN LET lo == Larger(cursor, IF Top(i) > AnchorBack THEN Top(i) - AnchorBack ELSE 1)
         IN  [lo |-> lo, hi |-> Larger(lo, NextPageLine(i) - 1), anchor |-> Larger(cursor, Top(i))]
    ELSE [lo |-> cursor, hi |-> cursor + FallbackWindow, anchor |-> cursor]

\* The boundary of an entry, <<>> when it opens no article: a heading found, a
\* top-level chapter, or the first entry.
Boundary(i, cursor, first) ==
    LET w     == Window(i, cursor)
        found == Matches(outline[i].title, w.lo, w.hi)
    IN  IF found # {} THEN <<Nearest(found, w.anchor)>>
        ELSE IF outline[i].level # 1 /\ ~first THEN <<>>
        ELSE <<w.anchor>>

\* The boundaries so far and the line after the last of them, when entry i was looked for.
Searched(acc, i) ==
    LET b == Boundary(i, acc.cursor, acc.found = <<>>)
    IN  IF b = <<>> THEN acc
        ELSE [cursor |-> b[1] + 1, found |-> Append(acc.found, [line |-> b[1], entry |-> i])]

\* The boundaries in order; each search begins after the one before.
FromOutline ==
    LET search[i \in 0 .. Len(outline)] ==
            IF i = 0 THEN [cursor |-> 1, found |-> <<>>] ELSE Searched(search[i - 1], i)
    IN  search[Len(outline)].found

\* A heading of docling opens an article at the next line that spells it, or none.
Followed(acc, i) ==
    LET hits == Matches(headings[i], acc.cursor, EndLine)
    IN  IF hits = {} THEN acc
        ELSE [cursor |-> Min(hits) + 1, found |-> Append(acc.found, [line |-> Min(hits), entry |-> 0])]

FromHeadings ==
    LET follow[i \in 0 .. Len(headings)] ==
            IF i = 0 THEN [cursor |-> 1, found |-> <<>>] ELSE Followed(follow[i - 1], i)
    IN  follow[Len(headings)].found

\* When nothing opens an article, every heading line does.
FromLines ==
    LET heads[l \in 0 .. EndLine] ==
            IF l = 0 THEN <<>>
            ELSE IF lines[l] \in Titles THEN Append(heads[l - 1], [line |-> l, entry |-> 0])
            ELSE heads[l - 1]
    IN  heads[EndLine]

Boundaries ==
    LET found == IF outline # <<>> THEN FromOutline ELSE FromHeadings
    IN  IF found # <<>> THEN found ELSE FromLines

\* An article reaches to the next boundary, whatever lies between.
Extent(bs, k) ==
    [first |-> bs[k].line, last |-> IF k < Len(bs) THEN bs[k + 1].line - 1 ELSE EndLine,
     entry |-> bs[k].entry]

HasContent(s) == \E l \in s.first .. s.last : l <= EndLine /\ lines[l] # Blank

\* Articles without content are not emitted.
Kept(bs) ==
    LET kept[k \in 0 .. Len(bs)] ==
            IF k = 0 THEN <<>>
            ELSE IF HasContent(Extent(bs, k)) THEN Append(kept[k - 1], Extent(bs, k))
            ELSE kept[k - 1]
    IN  kept[Len(bs)]

\* A document without any is one article.
SplitIntoSegments ==
    IF Kept(Boundaries) = <<>> THEN <<[first |-> 1, last |-> EndLine, entry |-> 0]>>
    ELSE Kept(Boundaries)

Split ==
    /\ segments = <<>>
    /\ segments' = SplitIntoSegments
    /\ UNCHANGED <<lines, pageStarts, outline, headings>>

Next == Split

Spec == Init /\ [][Next]_splitVars

-----------------------------------------------------------------------------
Content == {l \in 1 .. EndLine : lines[l] # Blank}
Holding(l) == {k \in DOMAIN segments : l \in segments[k].first .. segments[k].last}

\* From the first article on, every line with content is in exactly one article,
\* and the articles keep the order of the lines and of the outline: no search
\* goes back behind a boundary, wherever the pages are said to start, and a dropped
\* section held nothing.
NothingDropped ==
    segments # <<>> =>
        /\ \A l \in Content : l >= segments[1].first => Cardinality(Holding(l)) = 1
        /\ \A k \in 2 .. Len(segments) : segments[k - 1].last < segments[k].first
                                         /\ segments[k - 1].entry <= segments[k].entry
=============================================================================
