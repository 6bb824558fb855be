----------------------------- MODULE PageAlign -----------------------------
(***************************************************************************)
(* Where each page of a PDF starts in the markdown that docling made of it *)
(* (services/pdf_convert.py): from docling's page breaks, which leave pages *)
(* out, and from passages that occur once, which may be out of order.      *)
(*                                                                         *)
(* Lines and pages count from 0, as in the code.  A passage long enough to *)
(* be told apart is a number.                                              *)
(***************************************************************************)
EXTENDS Integers, FiniteSets, FiniteSetsExt, Sequences, SequencesExt

CONSTANTS
    PageCount,     \* pages of the PDF
    MaxPassage,    \* passages (bound)
    MaxMissed,     \* passages that docling did not tell as elements (bound)
    MaxLines       \* lines of the markdown, breaks included (bound)

VARIABLES
    text,       \* the passages of each page, as read from the PDF itself
    told,       \* the passages that are elements of docling's document
    markdown    \* its markdown: passages, other lines and page breaks

alignVars == <<text, told, markdown>>

Pages == 0 .. PageCount - 1
Passages == 1 .. MaxPassage
Other == 0          \* a line that is no passage
Blank == -1
Break == -2
NoPage == -1

Init ==
    /\ text \in [Pages -> SUBSET Passages]
    /\ \E missed \in SUBSET Passages : Cardinality(missed) <= MaxMissed /\ told = Passages \ missed
    /\ markdown = <<>>

\* docling writes a line, in an order of its own.
Write(line) ==
    /\ Len(markdown) < MaxLines
    /\ markdown' = Append(markdown, line)
    /\ UNCHANGED <<text, told>>

Next == \E line \in Passages \cup {Other, Blank, Break} : Write(line)

Spec == Init /\ [][Next]_alignVars

-----------------------------------------------------------------------------
(* The page breaks.                                                        *)

Lines ==
    LET lines[i \in 0 .. Len(markdown)] ==
            IF i = 0 THEN <<>>
            ELSE IF markdown[i] = Break THEN lines[i - 1] ELSE Append(lines[i - 1], markdown[i])
    IN  lines[Len(markdown)]

NLines == Len(Lines)
LineAt(i) == Lines[i + 1]

\* A start per break, unless nothing was written since the last one; and from there
\* the first line that is not blank.
SplitPageBreaks ==
    LET Skip[i \in 0 .. NLines] == IF i < NLines /\ LineAt(i) = Blank THEN Skip[i + 1] ELSE i
        split == FoldLeft(LAMBDA s, line :
                     IF line # Break THEN [s EXCEPT !.lines = @ + 1]
                     ELSE IF Last(s.starts) = s.lines THEN s
                     ELSE [s EXCEPT !.starts = Append(@, s.lines)],
                 [lines |-> 0, starts |-> <<0>>], markdown)
    IN  [i \in 0 .. Len(split.starts) - 1 |-> Skip[split.starts[i + 1]]]

-----------------------------------------------------------------------------
(* The anchors.                                                            *)

\* A passage that is one element, of one page, and one line.
Locates(k) ==
    /\ k \in told
    /\ Cardinality({p \in Pages : k \in text[p]}) = 1
    /\ Cardinality({i \in DOMAIN Lines : Lines[i] = k}) = 1

LineOf(k) == (CHOOSE i \in DOMAIN Lines : Lines[i] = k) - 1

\* The pages with such a passage, each at the line of its first one.
Anchorable == {p \in Pages : \E k \in text[p] : Locates(k)}
RawLine(p) == LineOf(Min({k \in text[p] : Locates(k)}))

\* Patience sort of the lines of these pages, page after page: the page with the least
\* line that ends a sequence of each length, and the page that each follows.
Laid(s, p) ==
    LET k == Cardinality({j \in DOMAIN s.tails : RawLine(s.tails[j]) < RawLine(p)})
    IN  [tails |-> IF k = Len(s.tails) THEN Append(s.tails, p)
                   ELSE [s.tails EXCEPT ![k + 1] = p],
         prev  |-> [s.prev EXCEPT ![p] = IF k = 0 THEN NoPage ELSE s.tails[k]]]

Patience ==
    LET laid[n \in 0 .. PageCount] ==
            IF n = 0 THEN [tails |-> <<>>, prev |-> [p \in Pages |-> NoPage]]
            ELSE IF n - 1 \in Anchorable THEN Laid(laid[n - 1], n - 1) ELSE laid[n - 1]
    IN  laid[PageCount]

\* A longest sequence: the last page laid, and back from each page to the one it follows.
LisKeep(laid) ==
    LET Chain[p \in Pages] ==
            IF laid.prev[p] = NoPage THEN {p} ELSE {p} \cup Chain[laid.prev[p]]
    IN  IF laid.tails = <<>> THEN {} ELSE Chain[Last(laid.tails)]

\* The pages that are kept: in their order, lines increase.
Anchors == LisKeep(Patience)

\* Half to even.
Round(num, den) ==
    LET q == num \div den
        r == num % den
    IN  IF 2 * r < den \/ (2 * r = den /\ q % 2 = 0) THEN q ELSE q + 1

\* Mutant of Placed: the opening of the page is looked for up to the end.
PlacedAnywhere(p, anchors) ==
    LET below   == {a \in anchors : a < p}
        above   == {a \in anchors : a > p}
        lo      == IF below = {} THEN 0 ELSE RawLine(Max(below))
        hi      == IF above = {} THEN NLines ELSE RawLine(Min(above))
        Opens(i) == LineAt(i) \in text[p] /\ (p > 0 => LineAt(i) \notin text[p - 1])
        opening == {i \in lo .. NLines - 1 : Opens(i)}
    IN  IF opening # {} THEN Min(opening)
        ELSE IF below = {} \/ above = {} THEN lo
        ELSE lo + Round((p - Max(below)) * (hi - lo), Min(above) - Max(below))

\* The line of a page without an anchor, between the anchored pages around it: the
\* first that is on the page and not on the one before, or else in proportion.
Placed(p, anchors) ==
    LET below   == {a \in anchors : a < p}
        above   == {a \in anchors : a > p}
        lo      == IF below = {} THEN 0 ELSE RawLine(Max(below))
        hi      == IF above = {} THEN NLines ELSE RawLine(Min(above))
        Opens(i) == LineAt(i) \in text[p] /\ (p > 0 => LineAt(i) \notin text[p - 1])
        opening == {i \in lo .. hi - 1 : Opens(i)}
    IN  IF opening # {} THEN Min(opening)
        ELSE IF below = {} \/ above = {} THEN lo
        ELSE lo + Round((p - Max(below)) * (hi - lo), Min(above) - Max(below))

Clamped(starts) == [p \in Pages |-> Max({starts[q] : q \in 0 .. p})]

Trusted ==
    /\ NLines >= 2
    /\ Cardinality(Anchors) >= Max({2, PageCount \div 10})

AlignPageLines ==
    IF Trusted
    THEN Clamped([p \in Pages |-> IF p \in Anchors THEN RawLine(p) ELSE Placed(p, Anchors)])
    ELSE SplitPageBreaks

-----------------------------------------------------------------------------
\* The anchors are as many as can be kept in order, each page they anchor starts at
\* its own line whatever was guessed around it, and no guess leaves its bracket.
AnchorsHold ==
    Trusted =>
        /\ \A p, q \in Anchors : p < q => RawLine(p) < RawLine(q)
        /\ \A others \in SUBSET Anchorable :
              (\A p, q \in others : p < q => RawLine(p) < RawLine(q))
                  => Cardinality(others) <= Cardinality(Anchors)
        /\ \A p \in Anchors : AlignPageLines[p] = RawLine(p)
        /\ \A p \in Pages, a \in Anchors :
              /\ p < a => AlignPageLines[p] <= RawLine(a)
              /\ a < p => AlignPageLines[p] >= RawLine(a)
=============================================================================
