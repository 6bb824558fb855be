---------------------------- MODULE SplitProofs ----------------------------
(***************************************************************************)
(* Proofs about the passes over lines, pages and articles (MCContents), for *)
(* any values of its constants: NothingDropped, SelectionKept and           *)
(* AnchorsHold.                                                            *)
(*                                                                         *)
(* A pass is a recursive function of the index it has reached.  That it is  *)
(* defined at all (PassIs, WalkIs), and what holds of it at every index     *)
(* (AllReached), follows from the well-foundedness of the numbers.          *)
(***************************************************************************)
EXTENDS MCContents, FiniteSetTheorems, SequenceTheorems, WellFoundedInduction, TLAPS
-----------------------------------------------------------------------------
\* A set of numbers has a least one.
LEMMA LeastOf == ASSUME NEW S \in SUBSET Nat, S # {} PROVE \E x \in S : \A y \in S : x <= y
<1> DEFINE R == OpToRel(<, Nat)
<1>1. ASSUME NEW x \in Nat, NEW y \in Nat, y < x PROVE <<y, x>> \in R
  BY <1>1 DEF OpToRel
<1>2. IsWellFoundedOn(R, Nat)  BY NatLessThanWellFounded
<1> HIDE DEF R
<1>3. PICK x \in S : \A y \in S : ~(<<y, x>> \in R)
  BY <1>2, WFMin
<1>4. ASSUME NEW y \in S PROVE x <= y
  <2>1. x \in Nat /\ y \in Nat  OBVIOUS
  <2>2. ~(y < x)  BY <1>1, <1>3, <2>1
  <2> QED  BY <2>1, <2>2
<1> QED  BY <1>4

\* A bounded set of numbers has a greatest one.
LEMMA GreatestOf ==
    ASSUME NEW n \in Nat, NEW S \in SUBSET (0 .. n), S # {}
    PROVE  \E x \in S : \A y \in S : y <= x
<1> DEFINE U == {u \in Nat : \A y \in S : y <= u}
<1>1. n \in U  OBVIOUS
<1>2. PICK u \in U : \A v \in U : u <= v  BY <1>1, LeastOf
<1>3. CASE u \in S  BY <1>2, <1>3
<1>4. CASE u \notin S
  <2>1. \A y \in S : y <= u - 1  BY <1>2, <1>4
  <2>2. PICK y \in S : y <= u - 1  BY <2>1
  <2>3. u - 1 \in U  BY <1>2, <2>1, <2>2
  <2> QED  BY <1>2, <2>3
<1> QED  BY <1>3, <1>4

\* What holds at 0 and is handed on from each index to the next holds at every index.
LEMMA AllReached ==
    ASSUME NEW n \in Nat, NEW P, 0 \in P, \A i \in 1 .. n : i - 1 \in P => i \in P
    PROVE  \A i \in 0 .. n : i \in P
<1> DEFINE Out == {i \in 0 .. n : i \notin P}
<1>1. SUFFICES ASSUME Out # {} PROVE FALSE  OBVIOUS
<1>2. PICK x \in Out : \A y \in Out : x <= y
  <2>1. Out \in SUBSET Nat  OBVIOUS
  <2> HIDE DEF Out
  <2> QED  BY <1>1, <2>1, LeastOf
<1>3. x \in 1 .. n /\ x - 1 \in 0 .. n /\ x - 1 \notin Out  BY <1>2
<1> QED  BY <1>2, <1>3

\* A walk over 0 .. n: an index either starts, or takes one step from an earlier one.
Earlier(n, from) == from \in [0 .. n -> Int] /\ \A i \in 0 .. n : from[i] = -1 \/ from[i] \in 0 .. i - 1
Walks(T, n, from, start, step, f) ==
    /\ f \in [0 .. n -> T]
    /\ \A i \in 0 .. n : from[i] = -1 => f[i] = start[i]
    /\ \A i \in 0 .. n : from[i] # -1 => f[i] = step[i][f[from[i]]]

\* A function whose value at an index is computed from that at an earlier one exists.
LEMMA WalkIs ==
    ASSUME NEW T, NEW n \in Nat, NEW from, Earlier(n, from), NEW start \in [0 .. n -> T],
           NEW step \in [0 .. n -> [T -> T]]
    PROVE  \E f : Walks(T, n, from, start, step, f)
<1> DEFINE P == {m \in 0 .. n : \E f : Walks(T, m, from, start, step, f)}
<1> USE DEF Earlier
<1>1. 0 \in P
  <2>1. from[0] = -1  OBVIOUS
  <2>2. PICK f : f = [i \in 0 .. 0 |-> start[0]]  OBVIOUS
  <2>3. f \in [0 .. 0 -> T] /\ \A i \in 0 .. 0 : i = 0  BY <2>2
  <2>4. Walks(T, 0, from, start, step, f)  BY <2>1, <2>2, <2>3 DEF Walks
  <2> QED  BY <2>4
<1>2. ASSUME NEW m \in 1 .. n, m - 1 \in P PROVE m \in P
  <2>1. PICK f : Walks(T, m - 1, from, start, step, f)  BY <1>2
  <2>2. PICK v \in T : v = IF from[m] = -1 THEN start[m] ELSE step[m][f[from[m]]]
    <3>1. from[m] # -1 => from[m] \in 0 .. m - 1  OBVIOUS
    <3>2. from[m] # -1 => step[m][f[from[m]]] \in T  BY <2>1, <3>1 DEF Walks
    <3> QED  BY <3>2
  <2>3. PICK g : g = [i \in 0 .. m |-> IF i = m THEN v ELSE f[i]]  OBVIOUS
  <2>4. g \in [0 .. m -> T] /\ g[m] = v /\ \A i \in 0 .. m - 1 : g[i] = f[i]
    BY <2>1, <2>3 DEF Walks
  <2>5. ASSUME NEW i \in 0 .. m
        PROVE  /\ from[i] = -1 => g[i] = start[i]
               /\ from[i] # -1 => g[i] = step[i][g[from[i]]]
    <3>1. from[i] = -1 \/ (from[i] \in 0 .. i - 1 /\ from[i] \in 0 .. m - 1)  OBVIOUS
    <3>2. from[i] # -1 => g[from[i]] = f[from[i]]  BY <2>4, <3>1
    <3>3. CASE i = m  BY <2>2, <2>4, <3>2, <3>3
    <3>4. CASE i # m
      <4>1. i \in 0 .. m - 1  BY <3>4
      <4> QED  BY <2>1, <2>4, <3>2, <4>1 DEF Walks
    <3> QED  BY <3>3, <3>4
  <2>6. Walks(T, m, from, start, step, g)  BY <2>4, <2>5 DEF Walks
  <2> QED  BY <2>6
<1>3. n \in P
  <2> HIDE DEF P
  <2>1. \A i \in 1 .. n : i - 1 \in P => i \in P  BY <1>2
  <2>2. \A i \in 0 .. n : i \in P  BY <1>1, <2>1, AllReached
  <2> QED  BY <2>2
<1> QED  BY <1>3

\* A pass: the value at each index is computed from the one before.
Passes(T, n, c, step, f) ==
    f \in [0 .. n -> T] /\ f[0] = c /\ \A i \in 1 .. n : f[i] = step[i][f[i - 1]]

\* A pass over 1 .. n exists, whatever each step does.
LEMMA PassIs ==
    ASSUME NEW T, NEW n \in Nat, NEW c \in T, NEW step \in [1 .. n -> [T -> T]]
    PROVE  \E f : Passes(T, n, c, step, f)
<1>1. PICK from : from = [i \in 0 .. n |-> i - 1]  OBVIOUS
<1>2. PICK start : start = [i \in 0 .. n |-> c]  OBVIOUS
<1>3. PICK all : all = [i \in 0 .. n |-> IF i = 0 THEN [x \in T |-> x] ELSE step[i]]  OBVIOUS
<1>4. start \in [0 .. n -> T] /\ all \in [0 .. n -> [T -> T]] /\ Earlier(n, from)
  BY <1>1, <1>2, <1>3 DEF Earlier
<1>5. PICK f : Walks(T, n, from, start, all, f)
  BY <1>4, WalkIs
<1>6. Passes(T, n, c, step, f)
  BY <1>1, <1>2, <1>3, <1>5 DEF Walks, Passes
<1> QED  BY <1>6

-----------------------------------------------------------------------------
(* The cut of a PDF (PdfSplit).                                            *)

\* What a PDF is given with, and what the cut leaves alone.
Given ==
    /\ lines \in Seq(Cut!Line)
    /\ pageStarts \in Seq(Nat) /\ \A p \in 1 .. Len(pageStarts) : pageStarts[p] >= 1
    /\ outline \in Seq(Cut!Entry)
    /\ headings \in Seq(Titles)

\* The document has so many lines.
LEMMA LinesAre == ASSUME Given PROVE Cut!EndLine \in Nat
BY DEF Given, Cut!EndLine

\* A page that is known to start anywhere starts at a line that counts from 1.
LEMMA StartsAre ==
    ASSUME Given, NEW i \in 1 .. Len(outline), Cut!HasPage(i)
    PROVE  Cut!Top(i) \in Nat /\ Cut!Top(i) >= 1
<1>1. outline[i] \in Cut!Entry  BY DEF Given
<1>2. outline[i].page \in Nat /\ outline[i].page >= 1
  <2>1. MaxPages \in Nat  BY BoundsAssumption
  <2> QED  BY <1>1, <2>1 DEF Cut!Entry
<1>3. Len(pageStarts) \in Nat  BY DEF Given
<1>4. outline[i].page \in 1 .. Len(pageStarts)  BY <1>2, <1>3 DEF Cut!HasPage
<1> QED  BY <1>4 DEF Given, Cut!Top

\* The heading nearest to the anchor is one of the headings.
LEMMA NearestIsOne ==
    ASSUME NEW S \in SUBSET Nat, S # {}, NEW anchor \in Nat
    PROVE  Cut!Nearest(S, anchor) \in S
<1> DEFINE far(l) == Cut!Distance(l, anchor)
           F == {far(l) : l \in S}
           B == {l \in S : \A k \in S : far(l) <= far(k)}
<1>1. F \in SUBSET Nat /\ F # {}
  <2>1. \A l \in S : far(l) \in Nat  BY DEF Cut!Distance
  <2> HIDE DEF far
  <2> QED  BY <2>1
<1>2. PICK x \in F : \A y \in F : x <= y
  <2> HIDE DEF F
  <2> QED  BY <1>1, LeastOf
<1>3. B \in SUBSET Nat /\ B # {}
  <2>1. PICK l \in S : x = far(l)  BY <1>2
  <2>2. \A k \in S : far(l) <= far(k)  BY <1>2, <2>1
  <2> QED  BY <2>2
<1>4. Cut!Nearest(S, anchor) = CHOOSE u \in B : \A v \in B : u <= v
  BY DEF Cut!Nearest, Cut!Min
<1> HIDE DEF B
<1>5. \E u \in B : \A v \in B : u <= v  BY <1>3, LeastOf
<1>6. Cut!Nearest(S, anchor) \in B  BY <1>4, <1>5
<1> QED  BY <1>6 DEF B

\* The line where the next page begins is a line number.
LEMMA NextPageLineIs ==
    ASSUME Given, NEW i \in 1 .. Len(outline) PROVE Cut!NextPageLine(i) \in Nat
<1> DEFINE later == {k \in i .. Len(outline) - 1 :
                        outline[k + 1].page > outline[k].page /\ Cut!HasPage(k + 1)}
<1>1. CASE later = {}  BY <1>1, LinesAre DEF Cut!NextPageLine
<1>2. CASE later # {}
  <2>1. later \in SUBSET Nat  BY DEF Given
  <2>2. Cut!Min(later) = CHOOSE u \in later : \A v \in later : u <= v  BY DEF Cut!Min
  <2>3. Cut!Min(later) \in later
    <3> HIDE DEF later
    <3>1. \E u \in later : \A v \in later : u <= v  BY <1>2, <2>1, LeastOf
    <3> QED  BY <2>2, <3>1
  <2>4. PICK k : k = Cut!Min(later)  OBVIOUS
  <2>5. Cut!HasPage(k + 1) /\ k + 1 \in 1 .. Len(outline)  BY <2>3, <2>4 DEF Given
  <2>6. Cut!NextPageLine(i) = Cut!Top(k + 1)
    BY <1>2, <2>4 DEF Cut!NextPageLine
  <2> QED  BY <2>5, <2>6, StartsAre
<1> QED  BY <1>1, <1>2

\* A search begins at the cursor or after it, and expects its heading there or after it.
LEMMA WindowIsAhead ==
    ASSUME Given, NEW i \in 1 .. Len(outline), NEW cur \in Nat
    PROVE  LET w == Cut!Window(i, cur)
           IN  /\ w.lo \in Nat /\ w.hi \in Int /\ w.anchor \in Nat
               /\ cur <= w.lo /\ cur <= w.anchor
<1>1. AnchorBack \in Nat /\ FallbackWindow \in Nat  BY BoundsAssumption
<1>2. CASE Cut!HasPage(i)
  <2>1. PICK top : top = Cut!Top(i)  OBVIOUS
  <2>2. top \in Nat  BY <1>2, <2>1, StartsAre
  <2>3. PICK next : next = Cut!NextPageLine(i)  OBVIOUS
  <2>4. next \in Nat  BY <2>3, NextPageLineIs
  <2> QED  BY <1>1, <1>2, <2>1, <2>2, <2>3, <2>4 DEF Cut!Window, Cut!Larger
<1>3. CASE ~Cut!HasPage(i)  BY <1>1, <1>3 DEF Cut!Window
<1> QED  BY <1>2, <1>3

\* The boundary of an entry is at the cursor or after it.
LEMMA BoundaryIsAhead ==
    ASSUME Given, NEW i \in 1 .. Len(outline), NEW cur \in Nat, NEW first
    PROVE  \/ Cut!Boundary(i, cur, first) = <<>>
           \/ \E x \in Nat : cur <= x /\ Cut!Boundary(i, cur, first) = <<x>>
<1>1. PICK w : w = Cut!Window(i, cur)  OBVIOUS
<1>2. /\ w.lo \in Nat /\ w.hi \in Int /\ w.anchor \in Nat
      /\ cur <= w.lo /\ cur <= w.anchor
  BY <1>1, WindowIsAhead
<1>3. PICK S : S = Cut!Matches(outline[i].title, w.lo, w.hi)  OBVIOUS
<1>4. S \in SUBSET Nat /\ \A l \in S : cur <= l  BY <1>2, <1>3 DEF Cut!Matches
<1>5. Cut!Boundary(i, cur, first) =
        IF S # {} THEN <<Cut!Nearest(S, w.anchor)>>
        ELSE IF outline[i].level # 1 /\ ~first THEN <<>>
        ELSE <<w.anchor>>
  BY <1>1, <1>3 DEF Cut!Boundary
<1>6. S # {} => Cut!Nearest(S, w.anchor) \in S  BY <1>2, <1>4, NearestIsOne
<1>7. CASE S # {}  BY <1>4, <1>5, <1>6, <1>7
<1>8. CASE S = {} /\ outline[i].level # 1 /\ ~first  BY <1>5, <1>8
<1>9. CASE S = {} /\ ~(outline[i].level # 1 /\ ~first)
  <2>1. Cut!Boundary(i, cur, first) = <<w.anchor>>
    BY <1>5, <1>9
  <2> QED  BY <1>2, <2>1
<1> QED  BY <1>7, <1>8, <1>9

\* Boundaries in the order of the lines and of the outline.
Mark == [line : Nat, entry : Nat]
InOrder(bs) ==
    /\ bs \in Seq(Mark)
    /\ \A a \in 1 .. Len(bs) : bs[a].line >= 1
    /\ \A a, b \in 1 .. Len(bs) : a < b => bs[a].line < bs[b].line /\ bs[a].entry <= bs[b].entry

\* A boundary behind all others keeps the order.
LEMMA MarkAdded ==
    ASSUME NEW bs, InOrder(bs), NEW m \in Mark, m.line >= 1,
           \A a \in 1 .. Len(bs) : bs[a].line < m.line /\ bs[a].entry <= m.entry
    PROVE  InOrder(Append(bs, m))
<1>1. bs \in Seq(Mark) /\ Len(bs) \in Nat  BY DEF InOrder
<1>2. PICK cs : cs = Append(bs, m)  OBVIOUS
<1>3. /\ cs \in Seq(Mark) /\ Len(cs) = Len(bs) + 1 /\ cs[Len(bs) + 1] = m
      /\ \A a \in 1 .. Len(bs) : cs[a] = bs[a]
  BY <1>1, <1>2
<1>4. \A a \in 1 .. Len(cs) : cs[a].line >= 1  BY <1>1, <1>3 DEF InOrder
<1>5. ASSUME NEW a \in 1 .. Len(cs), NEW b \in 1 .. Len(cs), a < b
      PROVE  cs[a].line < cs[b].line /\ cs[a].entry <= cs[b].entry
  <2>1. a \in 1 .. Len(bs)  BY <1>1, <1>3, <1>5
  <2>2. CASE b \in 1 .. Len(bs)  BY <1>3, <1>5, <2>1, <2>2 DEF InOrder
  <2>3. CASE b = Len(bs) + 1  BY <1>3, <2>1, <2>3
  <2> QED  BY <1>1, <1>3, <2>2, <2>3
<1> QED  BY <1>2, <1>3, <1>4, <1>5 DEF InOrder

\* The boundaries that the outline gives are in order: each search begins behind the last one.
LEMMA OutlineInOrder == ASSUME Given PROVE InOrder(Cut!FromOutline)
<1> DEFINE n == Len(outline)
           T == [cursor : Nat, found : Seq(Mark)]
           c == [cursor |-> 1, found |-> <<>>]
           Rebuilt(f) == f = [i \in 0 .. n |-> IF i = 0 THEN c ELSE Cut!Searched(f[i - 1], i)]
<1>1. n \in Nat /\ c \in T  BY DEF Given
<1>2. ASSUME NEW acc \in T, NEW i \in 1 .. n
      PROVE  \/ Cut!Searched(acc, i) = acc
             \/ \E x \in Nat : /\ acc.cursor <= x
                               /\ Cut!Searched(acc, i) =
                                    [cursor |-> x + 1, found |-> Append(acc.found, [line |-> x, entry |-> i])]
  <2>1. PICK b : b = Cut!Boundary(i, acc.cursor, acc.found = <<>>)  OBVIOUS
  <2>2. b = <<>> \/ \E x \in Nat : acc.cursor <= x /\ b = <<x>>
    BY <2>1, BoundaryIsAhead
  <2>3. Cut!Searched(acc, i) =
          IF b = <<>> THEN acc
          ELSE [cursor |-> b[1] + 1, found |-> Append(acc.found, [line |-> b[1], entry |-> i])]
    BY <2>1 DEF Cut!Searched
  <2>4. CASE b = <<>>  BY <2>3, <2>4
  <2>5. ASSUME NEW x \in Nat, acc.cursor <= x, b = <<x>>
        PROVE  Cut!Searched(acc, i) =
                 [cursor |-> x + 1, found |-> Append(acc.found, [line |-> x, entry |-> i])]
    BY <2>3, <2>5
  <2> QED  BY <2>2, <2>4, <2>5
<1>3. \A acc \in T, i \in 1 .. n : Cut!Searched(acc, i) \in T
  <2>1. ASSUME NEW acc \in T, NEW i \in 1 .. n PROVE Cut!Searched(acc, i) \in T
    <3>1. CASE Cut!Searched(acc, i) = acc  BY <3>1
    <3>2. ASSUME NEW x \in Nat,
                 Cut!Searched(acc, i) =
                    [cursor |-> x + 1, found |-> Append(acc.found, [line |-> x, entry |-> i])]
          PROVE  Cut!Searched(acc, i) \in T
      <4>1. [line |-> x, entry |-> i] \in Mark  BY <1>1 DEF Mark
      <4>2. Append(acc.found, [line |-> x, entry |-> i]) \in Seq(Mark)  BY <4>1
      <4> QED  BY <3>2, <4>2
    <3> QED  BY <1>2, <3>1, <3>2
  <2> QED  BY <2>1
<1>4. \E f : Rebuilt(f)
  <2> HIDE DEF T, c, n
  <2>1. PICK step : step = [p \in 1 .. n |-> [x \in T |-> Cut!Searched(x, p)]]  OBVIOUS
  <2>2. step \in [1 .. n -> [T -> T]]  BY <1>3, <2>1
  <2>3. PICK f : Passes(T, n, c, step, f)
    <3> HIDE DEF Rebuilt
    <3> QED  BY <1>1, <2>2, PassIs
  <2>4. Rebuilt(f)
    <3>1. ASSUME NEW i \in 1 .. n PROVE f[i - 1] \in T /\ f[i] = Cut!Searched(f[i - 1], i)
      <4>1. i - 1 \in 0 .. n  BY <1>1
      <4>2. f[i - 1] \in T /\ f[i] = step[i][f[i - 1]]  BY <2>3, <4>1 DEF Passes
      <4> QED  BY <2>1, <4>2
    <3> QED  BY <2>3, <3>1 DEF Passes
  <2> HIDE DEF Rebuilt
  <2> QED  BY <2>4
<1>5. PICK h : Rebuilt(h) /\ Cut!FromOutline = h[n].found
  <2>1. Cut!FromOutline = (CHOOSE g : Rebuilt(g))[n].found
    BY DEF Cut!FromOutline
  <2> HIDE DEF Rebuilt
  <2> QED  BY <1>4, <2>1
<1>6. h[0] = c /\ \A i \in 1 .. n : h[i] = Cut!Searched(h[i - 1], i)
  <2> HIDE DEF n, c
  <2> QED  BY <1>1, <1>5
<1> DEFINE P == {i \in 0 .. n : /\ h[i] \in T /\ h[i].cursor >= 1 /\ InOrder(h[i].found)
                                /\ \A a \in 1 .. Len(h[i].found) :
                                      h[i].found[a].line < h[i].cursor /\ h[i].found[a].entry <= i}
<1>7. 0 \in P
  <2>1. h[0] \in T /\ h[0].cursor = 1 /\ h[0].found = <<>>  BY <1>1, <1>6
  <2>2. InOrder(<<>>)  BY DEF InOrder
  <2> QED  BY <1>1, <2>1, <2>2
<1>8. ASSUME NEW i \in 1 .. n, i - 1 \in P PROVE i \in P
  <2>1. PICK acc : acc = h[i - 1]  OBVIOUS
  <2>2. /\ acc \in T /\ acc.cursor >= 1 /\ InOrder(acc.found)
        /\ \A a \in 1 .. Len(acc.found) : acc.found[a].line < acc.cursor /\ acc.found[a].entry <= i - 1
    BY <1>8, <2>1
  <2>3. h[i] = Cut!Searched(acc, i)  BY <1>6, <2>1
  <2>4. h[i] \in T  BY <1>3, <2>2, <2>3
  <2>5. i \in Nat /\ acc.cursor \in Nat /\ \A a \in 1 .. Len(acc.found) : acc.found[a] \in Mark
    BY <1>1, <2>2 DEF InOrder
  <2>6. CASE h[i] = acc
    <3>1. \A a \in 1 .. Len(acc.found) : acc.found[a].entry <= i  BY <2>2, <2>5 DEF Mark
    <3> QED  BY <2>2, <2>4, <2>6, <3>1
  <2>7. ASSUME NEW x \in Nat, acc.cursor <= x,
               h[i] = [cursor |-> x + 1, found |-> Append(acc.found, [line |-> x, entry |-> i])]
        PROVE  i \in P
    <3>1. PICK m : m = [line |-> x, entry |-> i]  OBVIOUS
    <3>2. m \in Mark /\ m.line = x /\ m.entry = i  BY <2>5, <3>1 DEF Mark
    <3>3. \A a \in 1 .. Len(acc.found) : acc.found[a].line < x /\ acc.found[a].entry <= i
      BY <2>2, <2>5, <2>7 DEF Mark
    <3>4. PICK fs : fs = Append(acc.found, m)  OBVIOUS
    <3>5. InOrder(fs)  BY <2>2, <2>7, <2>5, <3>2, <3>3, <3>4, MarkAdded
    <3>6. \A a \in 1 .. Len(fs) : fs[a].line < x + 1 /\ fs[a].entry <= i
      <4>1. acc.found \in Seq(Mark)  BY <2>2
      <4>2. /\ Len(fs) = Len(acc.found) + 1 /\ fs[Len(acc.found) + 1] = m
            /\ \A a \in 1 .. Len(acc.found) : fs[a] = acc.found[a]
        BY <3>4, <4>1
      <4>3. ASSUME NEW a \in 1 .. Len(fs) PROVE fs[a].line < x + 1 /\ fs[a].entry <= i
        <5>1. CASE a \in 1 .. Len(acc.found)
          <6>1. fs[a] = acc.found[a] /\ acc.found[a] \in Mark  BY <2>5, <4>2, <5>1
          <6> QED  BY <3>3, <5>1, <6>1 DEF Mark
        <5>2. CASE a = Len(acc.found) + 1  BY <2>5, <3>2, <4>2, <5>2
        <5> QED  BY <4>1, <4>2, <5>1, <5>2
      <4> QED  BY <4>3
    <3>7. h[i].cursor = x + 1 /\ h[i].found = fs  BY <2>7, <3>1, <3>4
    <3> QED  BY <2>4, <3>5, <3>6, <3>7
  <2> QED  BY <1>2, <2>2, <2>3, <2>6, <2>7
<1>9. n \in P
  <2>1. n \in 0 .. n  BY <1>1
  <2> HIDE DEF P, n
  <2>2. \A i \in 0 .. n : i \in P  BY <1>1, <1>7, <1>8, AllReached
  <2> QED  BY <2>1, <2>2
<1> QED  BY <1>5, <1>9

\* The boundaries that the headings of docling give are in order, for the same reason.
LEMMA HeadingsInOrder == ASSUME Given PROVE InOrder(Cut!FromHeadings)
<1> DEFINE n == Len(headings)
           T == [cursor : Nat, found : Seq(Mark)]
           c == [cursor |-> 1, found |-> <<>>]
           Rebuilt(f) == f = [i \in 0 .. n |-> IF i = 0 THEN c ELSE Cut!Followed(f[i - 1], i)]
<1>1. n \in Nat /\ c \in T  BY DEF Given
<1>2. ASSUME NEW acc \in T, NEW i \in 1 .. n
      PROVE  \/ Cut!Followed(acc, i) = acc
             \/ \E x \in Nat : /\ acc.cursor <= x
                               /\ Cut!Followed(acc, i) =
                                    [cursor |-> x + 1, found |-> Append(acc.found, [line |-> x, entry |-> 0])]
  <2>1. PICK hits : hits = Cut!Matches(headings[i], acc.cursor, Cut!EndLine)  OBVIOUS
  <2>2. hits \in SUBSET Nat /\ \A l \in hits : acc.cursor <= l
    <3>1. acc.cursor \in Nat  OBVIOUS
    <3> QED  BY <2>1, <3>1, LinesAre DEF Cut!Matches
  <2>3. Cut!Followed(acc, i) =
          IF hits = {} THEN acc
          ELSE [cursor |-> Cut!Min(hits) + 1,
                found |-> Append(acc.found, [line |-> Cut!Min(hits), entry |-> 0])]
    BY <2>1 DEF Cut!Followed
  <2>4. CASE hits = {}  BY <2>3, <2>4
  <2>5. CASE hits # {}
    <3>1. \E u \in hits : \A v \in hits : u <= v  BY <2>2, <2>5, LeastOf
    <3>2. PICK x : x = Cut!Min(hits)  OBVIOUS
    <3>3. x = CHOOSE u \in hits : \A v \in hits : u <= v  BY <3>2 DEF Cut!Min
    <3>4. x \in hits  BY <3>1, <3>3
    <3> QED  BY <2>2, <2>3, <2>5, <3>2, <3>4
  <2> QED  BY <2>4, <2>5
<1>3. \A acc \in T, i \in 1 .. n : Cut!Followed(acc, i) \in T
  <2>1. ASSUME NEW acc \in T, NEW i \in 1 .. n PROVE Cut!Followed(acc, i) \in T
    <3>1. CASE Cut!Followed(acc, i) = acc  BY <3>1
    <3>2. ASSUME NEW x \in Nat,
                 Cut!Followed(acc, i) =
                    [cursor |-> x + 1, found |-> Append(acc.found, [line |-> x, entry |-> 0])]
          PROVE  Cut!Followed(acc, i) \in T
      <4>1. [line |-> x, entry |-> 0] \in Mark  BY <1>1 DEF Mark
      <4>2. Append(acc.found, [line |-> x, entry |-> 0]) \in Seq(Mark)  BY <4>1
      <4> QED  BY <3>2, <4>2
    <3> QED  BY <1>2, <3>1, <3>2
  <2> QED  BY <2>1
<1>4. \E f : Rebuilt(f)
  <2> HIDE DEF T, c, n
  <2>1. PICK step : step = [p \in 1 .. n |-> [x \in T |-> Cut!Followed(x, p)]]  OBVIOUS
  <2>2. step \in [1 .. n -> [T -> T]]  BY <1>3, <2>1
  <2>3. PICK f : Passes(T, n, c, step, f)
    <3> HIDE DEF Rebuilt
    <3> QED  BY <1>1, <2>2, PassIs
  <2>4. Rebuilt(f)
    <3>1. ASSUME NEW i \in 1 .. n PROVE f[i - 1] \in T /\ f[i] = Cut!Followed(f[i - 1], i)
      <4>1. i - 1 \in 0 .. n  BY <1>1
      <4>2. f[i - 1] \in T /\ f[i] = step[i][f[i - 1]]  BY <2>3, <4>1 DEF Passes
      <4> QED  BY <2>1, <4>2
    <3> QED  BY <2>3, <3>1 DEF Passes
  <2> HIDE DEF Rebuilt
  <2> QED  BY <2>4
<1>5. PICK h : Rebuilt(h) /\ Cut!FromHeadings = h[n].found
  <2>1. Cut!FromHeadings = (CHOOSE g : Rebuilt(g))[n].found
    BY DEF Cut!FromHeadings
  <2> HIDE DEF Rebuilt
  <2> QED  BY <1>4, <2>1
<1>6. h[0] = c /\ \A i \in 1 .. n : h[i] = Cut!Followed(h[i - 1], i)
  <2> HIDE DEF n, c
  <2> QED  BY <1>1, <1>5
<1> DEFINE P == {i \in 0 .. n : /\ h[i] \in T /\ h[i].cursor >= 1 /\ InOrder(h[i].found)
                                /\ \A a \in 1 .. Len(h[i].found) :
                                      h[i].found[a].line < h[i].cursor /\ h[i].found[a].entry = 0}
<1>7. 0 \in P
  <2>1. h[0] \in T /\ h[0].cursor = 1 /\ h[0].found = <<>>  BY <1>1, <1>6
  <2>2. InOrder(<<>>)  BY DEF InOrder
  <2> QED  BY <1>1, <2>1, <2>2
<1>8. ASSUME NEW i \in 1 .. n, i - 1 \in P PROVE i \in P
  <2>1. PICK acc : acc = h[i - 1]  OBVIOUS
  <2>2. /\ acc \in T /\ acc.cursor >= 1 /\ InOrder(acc.found)
        /\ \A a \in 1 .. Len(acc.found) : acc.found[a].line < acc.cursor /\ acc.found[a].entry = 0
    BY <1>8, <2>1
  <2>3. h[i] = Cut!Followed(acc, i)  BY <1>6, <2>1
  <2>4. h[i] \in T  BY <1>3, <2>2, <2>3
  <2>5. i \in Nat /\ acc.cursor \in Nat /\ \A a \in 1 .. Len(acc.found) : acc.found[a] \in Mark
    BY <1>1, <2>2 DEF InOrder
  <2>6. CASE h[i] = acc
    <3>1. \A a \in 1 .. Len(acc.found) : acc.found[a].entry = 0  BY <2>2, <2>5 DEF Mark
    <3> QED  BY <2>2, <2>4, <2>6, <3>1
  <2>7. ASSUME NEW x \in Nat, acc.cursor <= x,
               h[i] = [cursor |-> x + 1, found |-> Append(acc.found, [line |-> x, entry |-> 0])]
        PROVE  i \in P
    <3>1. PICK m : m = [line |-> x, entry |-> 0]  OBVIOUS
    <3>2. m \in Mark /\ m.line = x /\ m.entry = 0  BY <2>5, <3>1 DEF Mark
    <3>3. \A a \in 1 .. Len(acc.found) : acc.found[a].line < x /\ acc.found[a].entry = 0
      BY <2>2, <2>5, <2>7 DEF Mark
    <3>4. PICK fs : fs = Append(acc.found, m)  OBVIOUS
    <3>5. InOrder(fs)
      <4>1. \A a \in 1 .. Len(acc.found) :
              acc.found[a].line < m.line /\ acc.found[a].entry <= m.entry
        BY <2>5, <3>2, <3>3 DEF Mark
      <4>2. m.line >= 1  BY <2>2, <2>5, <2>7, <3>2
      <4> QED  BY <2>2, <3>2, <3>4, <4>1, <4>2, MarkAdded
    <3>6. \A a \in 1 .. Len(fs) : fs[a].line < x + 1 /\ fs[a].entry = 0
      <4>1. acc.found \in Seq(Mark)  BY <2>2
      <4>2. /\ Len(fs) = Len(acc.found) + 1 /\ fs[Len(acc.found) + 1] = m
            /\ \A a \in 1 .. Len(acc.found) : fs[a] = acc.found[a]
        BY <3>4, <4>1
      <4>3. ASSUME NEW a \in 1 .. Len(fs) PROVE fs[a].line < x + 1 /\ fs[a].entry = 0
        <5>1. CASE a \in 1 .. Len(acc.found)
          <6>1. fs[a] = acc.found[a] /\ acc.found[a] \in Mark  BY <2>5, <4>2, <5>1
          <6> QED  BY <3>3, <5>1, <6>1 DEF Mark
        <5>2. CASE a = Len(acc.found) + 1  BY <2>5, <3>2, <4>2, <5>2
        <5> QED  BY <4>1, <4>2, <5>1, <5>2
      <4> QED  BY <4>3
    <3>7. h[i].cursor = x + 1 /\ h[i].found = fs  BY <2>7, <3>1, <3>4
    <3> QED  BY <2>4, <3>5, <3>6, <3>7
  <2> QED  BY <1>2, <2>2, <2>3, <2>6, <2>7
<1>9. n \in P
  <2>1. n \in 0 .. n  BY <1>1
  <2> HIDE DEF P, n
  <2>2. \A i \in 0 .. n : i \in P  BY <1>1, <1>7, <1>8, AllReached
  <2> QED  BY <2>1, <2>2
<1> QED  BY <1>5, <1>9

\* When nothing opens an article: the heading lines, in their order.
LEMMA LinesInOrder == ASSUME Given PROVE InOrder(Cut!FromLines)
<1> DEFINE n == Cut!EndLine
           T == Seq(Mark)
           m(l) == [line |-> l, entry |-> 0]
           Taken(s, l) == IF lines[l] \in Titles THEN Append(s, m(l)) ELSE s
           Rebuilt(f) == f = [l \in 0 .. n |-> IF l = 0 THEN <<>> ELSE Taken(f[l - 1], l)]
<1>1. n \in Nat  BY LinesAre
<1>2. <<>> \in T /\ \A s \in T, l \in 1 .. n : Taken(s, l) \in T /\ m(l) \in Mark
  <2>1. \A l \in 1 .. n : m(l) \in Mark  BY <1>1 DEF Mark
  <2>2. <<>> \in T  OBVIOUS
  <2> HIDE DEF m
  <2>3. \A s \in T, l \in 1 .. n : Taken(s, l) \in T  BY <2>1
  <2> QED  BY <2>1, <2>2, <2>3
<1>3. \E f : Rebuilt(f)
  <2> HIDE DEF T, n, Taken
  <2>1. PICK step : step = [p \in 1 .. n |-> [x \in T |-> Taken(x, p)]]  OBVIOUS
  <2>2. step \in [1 .. n -> [T -> T]]  BY <1>2, <2>1
  <2>3. PICK f : Passes(T, n, <<>>, step, f)
    <3> HIDE DEF Rebuilt
    <3> QED  BY <1>1, <1>2, <2>2, PassIs
  <2>4. Rebuilt(f)
    <3>1. ASSUME NEW i \in 1 .. n PROVE f[i - 1] \in T /\ f[i] = Taken(f[i - 1], i)
      <4>1. i - 1 \in 0 .. n  BY <1>1
      <4>2. f[i - 1] \in T /\ f[i] = step[i][f[i - 1]]  BY <2>3, <4>1 DEF Passes
      <4> QED  BY <2>1, <4>2
    <3> QED  BY <2>3, <3>1 DEF Passes
  <2> HIDE DEF Rebuilt
  <2> QED  BY <2>4
<1>4. PICK h : Rebuilt(h) /\ Cut!FromLines = h[n]
  <2>1. Cut!FromLines = (CHOOSE g : Rebuilt(g))[n]
    BY DEF Cut!FromLines
  <2> HIDE DEF Rebuilt
  <2> QED  BY <1>3, <2>1
<1>5. h[0] = <<>> /\ \A i \in 1 .. n : h[i] = Taken(h[i - 1], i)
  <2> HIDE DEF n, Taken
  <2> QED  BY <1>1, <1>4
<1> DEFINE P == {i \in 0 .. n : /\ InOrder(h[i])
                                /\ \A a \in 1 .. Len(h[i]) : h[i][a].line <= i /\ h[i][a].entry = 0}
<1>6. 0 \in P
  <2>1. h[0] = <<>> /\ 0 \in 0 .. n  BY <1>1, <1>5
  <2>2. InOrder(<<>>)  BY DEF InOrder
  <2> QED  BY <2>1, <2>2
<1>7. ASSUME NEW i \in 1 .. n, i - 1 \in P PROVE i \in P
  <2>1. PICK s : s = h[i - 1]  OBVIOUS
  <2>2. InOrder(s) /\ \A a \in 1 .. Len(s) : s[a].line <= i - 1 /\ s[a].entry = 0
    BY <1>7, <2>1
  <2>3. s \in Seq(Mark) /\ i \in Nat /\ i >= 1 /\ i \in 0 .. n  BY <1>1, <2>2 DEF InOrder
  <2>4. h[i] = Taken(s, i)  BY <1>5, <2>1
  <2>5. ASSUME NEW a \in 1 .. Len(s)
        PROVE  s[a].line < i /\ s[a].entry <= 0 /\ s[a].line <= i /\ s[a].entry = 0
    <3>1. s[a] \in Mark  BY <2>3
    <3>2. s[a].line \in Nat /\ s[a].entry \in Nat  BY <3>1 DEF Mark
    <3> QED  BY <2>2, <2>3, <3>2
  <2>6. CASE h[i] = s  BY <2>2, <2>3, <2>5, <2>6
  <2>7. CASE h[i] = Append(s, m(i))
    <3>1. PICK x : x = m(i)  OBVIOUS
    <3>2. x \in Mark /\ x.line = i /\ x.entry = 0  BY <1>2, <3>1
    <3>3. InOrder(h[i])  BY <2>2, <2>3, <2>5, <2>7, <3>1, <3>2, MarkAdded
    <3>4. /\ Len(h[i]) = Len(s) + 1 /\ h[i][Len(s) + 1] = x
          /\ \A a \in 1 .. Len(s) : h[i][a] = s[a]
      BY <2>3, <2>7, <3>1
    <3>5. ASSUME NEW a \in 1 .. Len(h[i]) PROVE h[i][a].line <= i /\ h[i][a].entry = 0
      <4>1. CASE a \in 1 .. Len(s)  BY <2>2, <2>5, <3>4, <4>1
      <4>2. CASE a = Len(s) + 1  BY <2>3, <3>2, <3>4, <4>2
      <4> QED  BY <2>3, <3>4, <4>1, <4>2
    <3> QED  BY <2>3, <3>3, <3>5
  <2> QED  BY <2>4, <2>6, <2>7
<1>8. n \in P
  <2>1. n \in 0 .. n  BY <1>1
  <2> HIDE DEF P, n
  <2>2. \A i \in 0 .. n : i \in P  BY <1>1, <1>6, <1>7, AllReached
  <2> QED  BY <2>1, <2>2
<1> QED  BY <1>4, <1>8

\* The articles kept are extents with content, each of them and in order.
Extents == [first : Nat, last : Int, entry : Nat]

\* An article reaches from its boundary to the line before the next one, or to the end.
LEMMA ExtentIs ==
    ASSUME NEW bs, InOrder(bs), Cut!EndLine \in Nat, NEW k \in 1 .. Len(bs)
    PROVE  /\ Cut!Extent(bs, k) \in Extents
           /\ Cut!Extent(bs, k).first = bs[k].line
           /\ Cut!Extent(bs, k).entry = bs[k].entry
           /\ k < Len(bs) => Cut!Extent(bs, k).last = bs[k + 1].line - 1
           /\ k = Len(bs) => Cut!Extent(bs, k).last = Cut!EndLine
<1>1. bs \in Seq(Mark) /\ Len(bs) \in Nat  BY DEF InOrder
<1>2. bs[k] \in Mark  BY <1>1
<1>3. k < Len(bs) => bs[k + 1] \in Mark  BY <1>1
<1> QED  BY <1>1, <1>2, <1>3 DEF Cut!Extent, Extents, Mark

\* What is kept of the boundaries: the extents with content, no other, and in order.
LEMMA KeptAre ==
    ASSUME NEW bs, InOrder(bs), Cut!EndLine \in Nat
    PROVE  /\ Cut!Kept(bs) \in Seq(Extents)
           /\ \A a \in 1 .. Len(Cut!Kept(bs)) : \E k \in 1 .. Len(bs) :
                 Cut!Kept(bs)[a] = Cut!Extent(bs, k) /\ Cut!HasContent(Cut!Extent(bs, k))
           /\ \A k \in 1 .. Len(bs) : Cut!HasContent(Cut!Extent(bs, k)) =>
                 \E a \in 1 .. Len(Cut!Kept(bs)) : Cut!Kept(bs)[a] = Cut!Extent(bs, k)
           /\ \A a, b \in 1 .. Len(Cut!Kept(bs)) : a < b =>
                 /\ Cut!Kept(bs)[a].last < Cut!Kept(bs)[b].first
                 /\ Cut!Kept(bs)[a].entry <= Cut!Kept(bs)[b].entry
<1> DEFINE n == Len(bs)
           T == Seq(Extents)
           e(k) == Cut!Extent(bs, k)
           Taken(s, k) == IF Cut!HasContent(e(k)) THEN Append(s, e(k)) ELSE s
           Rebuilt(f) == f = [k \in 0 .. n |-> IF k = 0 THEN <<>> ELSE Taken(f[k - 1], k)]
<1>1. n \in Nat /\ bs \in Seq(Mark)  BY DEF InOrder
<1>2. <<>> \in T /\ \A s \in T, k \in 1 .. n : Taken(s, k) \in T /\ e(k) \in Extents
  BY <1>1, ExtentIs
<1>3. \E f : Rebuilt(f)
  <2> HIDE DEF T, n, Taken
  <2>1. PICK step : step = [p \in 1 .. n |-> [x \in T |-> Taken(x, p)]]  OBVIOUS
  <2>2. step \in [1 .. n -> [T -> T]]  BY <1>2, <2>1
  <2>3. PICK f : Passes(T, n, <<>>, step, f)
    <3> HIDE DEF Rebuilt
    <3> QED  BY <1>1, <1>2, <2>2, PassIs
  <2>4. Rebuilt(f)
    <3>1. ASSUME NEW i \in 1 .. n PROVE f[i - 1] \in T /\ f[i] = Taken(f[i - 1], i)
      <4>1. i - 1 \in 0 .. n  BY <1>1
      <4>2. f[i - 1] \in T /\ f[i] = step[i][f[i - 1]]  BY <2>3, <4>1 DEF Passes
      <4> QED  BY <2>1, <4>2
    <3> QED  BY <2>3, <3>1 DEF Passes
  <2> HIDE DEF Rebuilt
  <2> QED  BY <2>4
<1>4. PICK h : Rebuilt(h) /\ Cut!Kept(bs) = h[n]
  <2>1. Cut!Kept(bs) = (CHOOSE g : Rebuilt(g))[n]
    BY DEF Cut!Kept
  <2> HIDE DEF Rebuilt
  <2> QED  BY <1>3, <2>1
<1>5. h[0] = <<>> /\ \A i \in 1 .. n : h[i] = Taken(h[i - 1], i)
  <2> HIDE DEF n, Taken
  <2> QED  BY <1>1, <1>4
<1> DEFINE Right(s, i) ==
              /\ s \in T
              /\ \A a \in 1 .. Len(s) : \E k \in 1 .. i : s[a] = e(k) /\ Cut!HasContent(e(k))
              /\ \A k \in 1 .. i : Cut!HasContent(e(k)) => \E a \in 1 .. Len(s) : s[a] = e(k)
              /\ \A a, b \in 1 .. Len(s) : a < b => s[a].last < s[b].first /\ s[a].entry <= s[b].entry
           P == {i \in 0 .. n : Right(h[i], i)}
<1>6. 0 \in P
  <2>1. h[0] = <<>> /\ 0 \in 0 .. n  BY <1>1, <1>5
  <2>2. <<>> \in T /\ Len(<<>>) = 0  BY <1>2
  <2>3. 1 .. 0 = {}  OBVIOUS
  <2>4. Right(<<>>, 0)  BY <2>2, <2>3
  <2> QED  BY <2>1, <2>4
<1>7. ASSUME NEW i \in 1 .. n, i - 1 \in P PROVE i \in P
  <2>1. PICK s : s = h[i - 1]  OBVIOUS
  <2>2. Right(s, i - 1)  BY <1>7, <2>1
  <2>3. i \in Nat /\ i >= 1 /\ i \in 0 .. n /\ \A k \in 1 .. i : k = i \/ k \in 1 .. i - 1  BY <1>1
  <2>4. h[i] = Taken(s, i)  BY <1>5, <2>1
  <2> HIDE DEF e
  <2>5. CASE ~Cut!HasContent(e(i))
    <3>1. h[i] = s  BY <2>4, <2>5
    <3>2. Right(s, i)  BY <2>2, <2>3, <2>5
    <3> QED  BY <2>3, <3>1, <3>2
  <2>6. CASE Cut!HasContent(e(i))
    <3>1. PICK g : g = Append(s, e(i))  OBVIOUS
    <3>2. h[i] = g  BY <2>4, <2>6, <3>1
    <3>3. e(i) \in Extents  BY <1>2
    <3>4. /\ g \in T /\ Len(g) = Len(s) + 1 /\ g[Len(s) + 1] = e(i) /\ Len(s) \in Nat
          /\ \A a \in 1 .. Len(s) : g[a] = s[a]
      BY <2>2, <3>1, <3>3
    <3>5. ASSUME NEW a \in 1 .. Len(g)
          PROVE  \E k \in 1 .. i : g[a] = e(k) /\ Cut!HasContent(e(k))
      <4>1. CASE a \in 1 .. Len(s)
        <5>1. PICK k \in 1 .. i - 1 : s[a] = e(k) /\ Cut!HasContent(e(k))  BY <2>2, <4>1
        <5>2. k \in 1 .. i  BY <2>3
        <5> QED  BY <3>4, <4>1, <5>1, <5>2
      <4>2. CASE a = Len(s) + 1
        <5>1. i \in 1 .. i  BY <2>3
        <5> QED  BY <2>6, <3>4, <4>2, <5>1
      <4> QED  BY <3>4, <4>1, <4>2
    <3>6. \A k \in 1 .. i : Cut!HasContent(e(k)) => \E a \in 1 .. Len(g) : g[a] = e(k)
      BY <2>2, <2>3, <2>6, <3>4
    <3>7. ASSUME NEW a \in 1 .. Len(s) PROVE g[a].last < e(i).first /\ g[a].entry <= e(i).entry
      <4>1. PICK k \in 1 .. i - 1 : g[a] = e(k)  BY <2>2, <3>4
      <4>2. k \in 1 .. n /\ k < n /\ k < i /\ k + 1 \in 1 .. i /\ k + 1 \in 1 .. n  BY <1>1
      <4>3. e(k).last = bs[k + 1].line - 1 /\ e(k).entry = bs[k].entry
        BY <1>1, <4>2, ExtentIs DEF e
      <4>4. e(i).first = bs[i].line /\ e(i).entry = bs[i].entry
        BY <1>1, ExtentIs DEF e
      <4>5. bs[k] \in Mark /\ bs[k + 1] \in Mark /\ bs[i] \in Mark  BY <1>1, <4>2
      <4>6. bs[k].entry <= bs[i].entry  BY <4>2 DEF InOrder
      <4>7. bs[k + 1].line <= bs[i].line
        <5>1. k + 1 = i \/ k + 1 < i  BY <4>2, <2>3
        <5> QED  BY <4>2, <4>5, <5>1 DEF InOrder, Mark
      <4> QED  BY <4>1, <4>3, <4>4, <4>5, <4>6, <4>7 DEF Mark
    <3>8. ASSUME NEW a \in 1 .. Len(g), NEW b \in 1 .. Len(g), a < b
          PROVE  g[a].last < g[b].first /\ g[a].entry <= g[b].entry
      <4>1. a \in 1 .. Len(s)  BY <3>4, <3>8
      <4>2. CASE b \in 1 .. Len(s)  BY <2>2, <3>4, <3>8, <4>1, <4>2
      <4>3. CASE b = Len(s) + 1  BY <3>4, <3>7, <4>1, <4>3
      <4> QED  BY <3>4, <4>2, <4>3
    <3>9. Right(g, i)  BY <3>4, <3>5, <3>6, <3>8
    <3> QED  BY <2>3, <3>2, <3>9
  <2> QED  BY <2>5, <2>6
<1>8. n \in P
  <2>1. n \in 0 .. n  BY <1>1
  <2> HIDE DEF P, n
  <2>2. \A i \in 0 .. n : i \in P  BY <1>1, <1>6, <1>7, AllReached
  <2> QED  BY <2>1, <2>2
<1> QED  BY <1>4, <1>8

\* A set with one element, counted as the instance counts.
LEMMA OneHolds == ASSUME NEW S, NEW x, S = {x} PROVE Cut!Cardinality(S) = 1
<1>1. Cut!Cardinality(S) = Cardinality(S)  BY Zenon DEF Cut!Cardinality, Cardinality
<1>2. Cardinality({x}) = 1  BY FS_Singleton
<1> QED  BY <1>1, <1>2

\* The articles of a cut hold every line with content from the first of them on, once.
Whole(segs) ==
    /\ \A l \in Cut!Content : l >= segs[1].first =>
          Cut!Cardinality({k \in DOMAIN segs : l \in segs[k].first .. segs[k].last}) = 1
    /\ \A k \in 2 .. Len(segs) :
          segs[k - 1].last < segs[k].first /\ segs[k - 1].entry <= segs[k].entry

\* With bookmarks or without, the boundaries are in order.
LEMMA BoundariesInOrder == ASSUME Given PROVE InOrder(Cut!Boundaries)
<1>1. PICK bs : bs = IF outline # <<>> THEN Cut!FromOutline ELSE Cut!FromHeadings
  OBVIOUS
<1>2. InOrder(bs)  BY <1>1, OutlineInOrder, HeadingsInOrder
<1>3. Cut!Boundaries = IF bs # <<>> THEN bs ELSE Cut!FromLines
  BY <1>1 DEF Cut!Boundaries
<1> QED  BY <1>2, <1>3, LinesInOrder

\* The cut of split_into_segments is whole.
LEMMA CutIsWhole == ASSUME Given PROVE Whole(Cut!SplitIntoSegments)
<1>1. Cut!EndLine \in Nat  BY LinesAre
<1>2. PICK bs : bs = Cut!Boundaries  OBVIOUS
<1>3. InOrder(bs) /\ bs \in Seq(Mark) /\ Len(bs) \in Nat
  BY <1>2, BoundariesInOrder DEF InOrder
<1>4. PICK segs : segs = Cut!Kept(bs)  OBVIOUS
<1>5. CASE segs = <<>>
  <2>1. PICK one : one = [first |-> 1, last |-> Cut!EndLine, entry |-> 0]  OBVIOUS
  <2>2. Cut!SplitIntoSegments = <<one>>
    BY <1>2, <1>4, <1>5, <2>1 DEF Cut!SplitIntoSegments
  <2>3. ASSUME NEW l \in Cut!Content
        PROVE  Cut!Cardinality({k \in DOMAIN <<one>> : l \in <<one>>[k].first .. <<one>>[k].last}) = 1
    <3>1. l \in one.first .. one.last  BY <2>1 DEF Cut!Content
    <3>2. DOMAIN <<one>> = {1} /\ <<one>>[1] = one  OBVIOUS
    <3>3. {k \in DOMAIN <<one>> : l \in <<one>>[k].first .. <<one>>[k].last} = {1}
      BY <3>1, <3>2
    <3> QED  BY <3>3, OneHolds
  <2>4. Len(<<one>>) = 1 /\ 2 .. 1 = {}  OBVIOUS
  <2> QED  BY <2>2, <2>3, <2>4 DEF Whole
<1>6. CASE segs # <<>>
  <2>1. Cut!SplitIntoSegments = segs
    BY <1>2, <1>4, <1>6 DEF Cut!SplitIntoSegments
  <2> DEFINE e(k) == Cut!Extent(bs, k)
  <2>2. /\ segs \in Seq(Extents)
        /\ \A a \in 1 .. Len(segs) : \E k \in 1 .. Len(bs) : segs[a] = e(k) /\ Cut!HasContent(e(k))
        /\ \A k \in 1 .. Len(bs) : Cut!HasContent(e(k)) => \E a \in 1 .. Len(segs) : segs[a] = e(k)
        /\ \A a, b \in 1 .. Len(segs) :
              a < b => segs[a].last < segs[b].first /\ segs[a].entry <= segs[b].entry
    BY <1>1, <1>3, <1>4, KeptAre
  <2>3. Len(segs) \in Nat /\ DOMAIN segs = 1 .. Len(segs) /\ Len(segs) >= 1
    BY <1>6, <2>2
  <2>4. ASSUME NEW l \in Cut!Content, l >= segs[1].first
        PROVE  Cut!Cardinality({k \in DOMAIN segs : l \in segs[k].first .. segs[k].last}) = 1
    <3>1. l \in Nat /\ l >= 1 /\ l <= Cut!EndLine /\ lines[l] # Cut!Blank
      BY <1>1, <2>4 DEF Cut!Content
    <3>2. PICK k1 \in 1 .. Len(bs) : segs[1] = e(k1)  BY <2>2, <2>3
    <3>3. k1 \in 1 .. Len(bs) /\ bs[k1].line <= l
      BY <1>1, <1>3, <2>4, <3>2, ExtentIs
    <3> DEFINE K == {k \in 1 .. Len(bs) : bs[k].line <= l}
    <3>4. K \in SUBSET (0 .. Len(bs)) /\ K # {}  BY <1>3, <3>3
    <3>5. PICK k \in K : \A j \in K : j <= k
      <4> HIDE DEF K
      <4> QED  BY <1>3, <3>4, GreatestOf
    <3>6. k \in 1 .. Len(bs) /\ bs[k].line <= l /\ (k < Len(bs) => bs[k + 1].line > l)
      <4>1. k < Len(bs) => k + 1 \in 1 .. Len(bs) /\ k + 1 \notin K  BY <1>3, <3>5
      <4>2. k < Len(bs) => bs[k + 1] \in Mark  BY <1>3, <4>1
      <4> QED  BY <3>1, <3>5, <4>1, <4>2 DEF Mark
    <3>7. l \in e(k).first .. e(k).last /\ e(k) \in Extents
      <4>1. k < Len(bs) => bs[k + 1] \in Mark  BY <1>3, <3>6
      <4>2. bs[k] \in Mark  BY <1>3, <3>6
      <4>3. CASE k < Len(bs)
        <5>1. e(k).first = bs[k].line /\ e(k).last = bs[k + 1].line - 1 /\ e(k) \in Extents
          BY <1>1, <1>3, <3>6, <4>3, ExtentIs
        <5> QED  BY <3>1, <3>6, <4>1, <4>2, <4>3, <5>1 DEF Mark
      <4>4. CASE k = Len(bs)
        <5>1. e(k).first = bs[k].line /\ e(k).last = Cut!EndLine /\ e(k) \in Extents
          BY <1>1, <1>3, <3>6, <4>4, ExtentIs
        <5> QED  BY <1>1, <3>1, <3>6, <4>2, <5>1 DEF Mark
      <4> QED  BY <1>3, <3>6, <4>3, <4>4
    <3>8. Cut!HasContent(e(k))  BY <3>1, <3>7 DEF Cut!HasContent
    <3>9. PICK a \in 1 .. Len(segs) : segs[a] = e(k)  BY <2>2, <3>6, <3>8
    <3>10. ASSUME NEW b \in 1 .. Len(segs), l \in segs[b].first .. segs[b].last PROVE b = a
      <4>1. segs[a] \in Extents /\ segs[b] \in Extents
        <5>1. segs \in Seq(Extents)  BY <2>2
        <5> QED  BY <5>1
      <4>2. /\ segs[a].first \in Int /\ segs[a].last \in Int
            /\ segs[b].first \in Int /\ segs[b].last \in Int
        BY <4>1 DEF Extents
      <4>3. a < b => segs[a].last < segs[b].first  BY <2>2
      <4>4. b < a => segs[b].last < segs[a].first  BY <2>2
      <4>5. l \in segs[a].first .. segs[a].last  BY <3>7, <3>9
      <4> QED  BY <2>3, <3>10, <4>2, <4>3, <4>4, <4>5
    <3>11. l \in segs[a].first .. segs[a].last  BY <3>7, <3>9
    <3>12. {j \in DOMAIN segs : l \in segs[j].first .. segs[j].last} = {a}
      BY <2>3, <3>9, <3>10, <3>11
    <3> QED  BY <3>12, OneHolds
  <2>5. ASSUME NEW k \in 2 .. Len(segs)
        PROVE  segs[k - 1].last < segs[k].first /\ segs[k - 1].entry <= segs[k].entry
    <3>1. k - 1 \in 1 .. Len(segs) /\ k \in 1 .. Len(segs) /\ k - 1 < k  BY <2>3
    <3> QED  BY <2>2, <3>1
  <2> QED  BY <2>1, <2>4, <2>5 DEF Whole
<1> QED  BY <1>5, <1>6

\* What holds of a cut: its input is as it was given, and its articles are whole.
CutInv == Given /\ Cut!NothingDropped

\* A whole cut is what the property asks of the articles.
LEMMA WholeIsNothingDropped == ASSUME Whole(segments) PROVE Cut!NothingDropped
BY DEF Whole, Cut!NothingDropped, Cut!Holding

\* Before the cut there is a document and no article.
LEMMA CutStarts == ASSUME Cut!Init PROVE CutInv
<1>1. {MaxDocLines, MaxPages, MaxOutline, MaxHeadings} \subseteq Nat  BY BoundsAssumption
<1>2. lines \in Seq(Cut!Line)
  <2>1. UNION {[1 .. n -> Cut!Line] : n \in 1 .. MaxDocLines} \subseteq Seq(Cut!Line)
    BY <1>1
  <2> QED  BY <2>1 DEF Cut!Init
<1>3. outline \in Seq(Cut!Entry)
  <2>1. outline \in UNION {[1 .. m -> Cut!Entry] : m \in 0 .. MaxOutline}
    BY DEF Cut!Init, Cut!BoundedSeq, Cut!SeqOf
  <2> QED  BY <1>1, <2>1
<1>4. PICK E : E = 1 .. Cut!EndLine + 1  OBVIOUS
<1>5. pageStarts \in Seq(E)
  <2>1. CASE outline # <<>>
    <3>1. pageStarts \in Cut!BoundedSeq(E, MaxPages)
      BY <1>4, <2>1 DEF Cut!Init, Cut!PageStarts
    <3>2. pageStarts \in UNION {[1 .. m -> E] : m \in 0 .. MaxPages}
      BY <3>1 DEF Cut!BoundedSeq, Cut!SeqOf
    <3> QED  BY <1>1, <3>2
  <2>2. CASE outline = <<>>  BY <2>2 DEF Cut!Init
  <2> QED  BY <2>1, <2>2
<1>6. headings \in Seq(Titles)
  <2>1. CASE outline # <<>>  BY <2>1 DEF Cut!Init
  <2>2. CASE outline = <<>>
    <3>1. headings \in UNION {[1 .. m -> Titles] : m \in 0 .. MaxHeadings}
      BY <2>2 DEF Cut!Init, Cut!BoundedSeq, Cut!SeqOf
    <3> QED  BY <1>1, <3>1
  <2> QED  BY <2>1, <2>2
<1>7. pageStarts \in Seq(Nat) /\ \A p \in 1 .. Len(pageStarts) : pageStarts[p] >= 1
  <2>1. Cut!EndLine \in Nat  BY <1>2 DEF Cut!EndLine
  <2>2. \A e \in E : e \in Nat /\ e >= 1  BY <1>4, <2>1
  <2>3. \A p \in 1 .. Len(pageStarts) : pageStarts[p] \in E  BY <1>5
  <2>4. pageStarts \in Seq(Nat)  BY <1>5, <2>2
  <2> QED  BY <2>2, <2>3, <2>4
<1>8. segments = <<>>  BY DEF Cut!Init
<1> QED  BY <1>2, <1>3, <1>6, <1>7, <1>8 DEF CutInv, Given, Cut!NothingDropped

\* The cut keeps the document and makes whole articles.
LEMMA CutKept == ASSUME CutInv, Cut!Next PROVE CutInv'
<1>1. segments' = Cut!SplitIntoSegments /\ UNCHANGED <<lines, pageStarts, outline, headings>>
  BY DEF Cut!Next, Cut!Split
<1>2. Given /\ Given'  BY <1>1 DEF CutInv, Given
<1>3. Whole(Cut!SplitIntoSegments)  BY <1>2, CutIsWhole
<1>4. Cut!Content' = Cut!Content
  BY <1>1 DEF Cut!Content, Cut!EndLine
<1>5. Whole(segments)'
  <2> HIDE DEF Cut!Content
  <2> QED  BY <1>1, <1>3, <1>4 DEF Whole
<1>6. Cut!NothingDropped'
  BY <1>5 DEF Whole, Cut!NothingDropped, Cut!Holding
<1> QED  BY <1>2, <1>6 DEF CutInv

\* Wherever the pages of a PDF are said to start, whatever its bookmarks and the headings
\* docling found, a cut loses no line with content behind its first boundary, has no line
\* twice and keeps the order of the lines and of the outline (split_into_segments of
\* pdf_convert.py, its search windows and cursor).
THEOREM NothingIsDropped == ContentsSpec => []NothingDropped
<1> DEFINE I == part = "cut" => CutInv
<1>1. ContentsInit => I
  BY CutStarts DEF ContentsInit
<1>2. I /\ [ContentsNext]_contentVars => I'
  <2> SUFFICES ASSUME I, [ContentsNext]_contentVars, part' = "cut" PROVE CutInv'
    OBVIOUS
  <2>1. CASE UNCHANGED contentVars
    <3>1. UNCHANGED <<lines, pageStarts, outline, headings, segments>> /\ CutInv
      BY <2>1 DEF contentVars, cutVars
    <3>2. Cut!Content' = Cut!Content
      BY <3>1 DEF Cut!Content, Cut!EndLine
    <3>3. Cut!NothingDropped'
      BY <3>1, <3>2 DEF CutInv, Cut!NothingDropped, Cut!Holding
    <3> QED  BY <3>1, <3>3 DEF CutInv, Given
  <2>2. CASE ContentsNext
    <3>1. Cut!Next /\ CutInv  BY <2>2 DEF ContentsNext
    <3> QED  BY <3>1, CutKept
  <2> QED  BY <2>1, <2>2
<1>3. I => NothingDropped
  BY DEF NothingDropped, CutInv
<1> QED  BY <1>1, <1>2, <1>3, PTL DEF ContentsSpec

-----------------------------------------------------------------------------
(* The files of an export (ExportSplit).                                   *)

\* The pieces one after another, up to each of them.
Joins(S, parts, f) ==
    /\ f \in [0 .. Len(parts) -> Seq(S)] /\ f[0] = <<>>
    /\ \A i \in 1 .. Len(parts) : f[i] = f[i - 1] \o parts[i]

\* The pieces can be put one after another.
LEMMA JoinsExist ==
    ASSUME NEW S, NEW parts \in Seq(Seq(S)) PROVE \E f : Joins(S, parts, f)
<1> DEFINE n == Len(parts)
           T == Seq(S)
           Joined(s, p) == s \o parts[p]
<1>1. n \in Nat /\ <<>> \in T  OBVIOUS
<1>2. \A s \in T, p \in 1 .. n : Joined(s, p) \in T
  <2>1. \A p \in 1 .. n : parts[p] \in Seq(S)  OBVIOUS
  <2> QED  BY <2>1, ConcatProperties
<1>3. PICK step : step = [p \in 1 .. n |-> [x \in T |-> Joined(x, p)]]  OBVIOUS
<1>4. step \in [1 .. n -> [T -> T]]
  <2> HIDE DEF T, n, Joined
  <2> QED  BY <1>2, <1>3
<1>5. PICK f : Passes(T, n, <<>>, step, f)
  <2> HIDE DEF T, n
  <2> QED  BY <1>1, <1>4, PassIs
<1>6. ASSUME NEW i \in 1 .. n PROVE f[i] = Joined(f[i - 1], i)
  <2> HIDE DEF T, n, Joined
  <2>1. i - 1 \in 0 .. n  BY <1>1
  <2>2. f[i - 1] \in T /\ f[i] = step[i][f[i - 1]]  BY <1>5, <2>1 DEF Passes
  <2> QED  BY <1>3, <2>2
<1>7. f \in [0 .. n -> T] /\ f[0] = <<>>  BY <1>5 DEF Passes
<1>8. Joins(S, parts, f)
  <2> HIDE DEF T, n, Joined
  <2>1. \A i \in 1 .. n : f[i] = Joined(f[i - 1], i)  BY <1>6
  <2> QED  BY <1>7, <2>1 DEF Joins, T, n, Joined
<1> QED  BY <1>8

\* They are what the sequence of the pieces is flattened to.
LEMMA JoinsFlatten ==
    ASSUME NEW S, NEW parts \in Seq(Seq(S)), NEW f, Joins(S, parts, f)
    PROVE  Book!FlattenSeq(parts) = f[Len(parts)] /\ Book!FlattenSeq(parts) \in Seq(S)
<1> DEFINE n == Len(parts)
           Joined(s, p) == s \o parts[p]
           Rebuilt(g) == g = [i \in 1 .. n |-> IF i = 1 THEN parts[i] ELSE Joined(g[i - 1], i)]
<1>1. n \in Nat /\ \A i \in 1 .. n : parts[i] \in Seq(S)  OBVIOUS
<1>2. f[n] \in Seq(S)  BY <1>1 DEF Joins
<1>3. CASE n = 0
  <2>1. parts = <<>> /\ Book!FlattenSeq(parts) = parts  BY <1>3 DEF Book!FlattenSeq
  <2> QED  BY <1>2, <1>3, <2>1 DEF Joins
<1>4. CASE n # 0
  <2>1. Book!FlattenSeq(parts) = (CHOOSE g : Rebuilt(g))[n]  BY <1>4 DEF Book!FlattenSeq
  <2>2. \A i \in 1 .. n : i # 1 => f[i] = Joined(f[i - 1], i)  BY DEF Joins
  <2>3. f[1] = parts[1]
    <3>1. f[1] = <<>> \o parts[1]
      <4>1. 1 \in 1 .. n /\ 1 - 1 = 0  BY <1>1, <1>4
      <4>2. f[1] = f[1 - 1] \o parts[1] /\ f[0] = <<>>  BY <4>1 DEF Joins
      <4> QED  BY <4>1, <4>2
    <3> QED  BY <1>1, <1>4, <3>1, ConcatEmptySeq
  <2> HIDE DEF Joined, n
  <2>4. PICK g : g = [i \in 1 .. n |-> f[i]]  OBVIOUS
  <2>5. \A i \in 1 .. n : i # 1 => i - 1 \in 1 .. n  BY <1>1
  <2>6. Rebuilt(g)  BY <1>1, <2>2, <2>3, <2>4, <2>5
  <2>7. PICK h : Rebuilt(h) /\ Book!FlattenSeq(parts) = h[n]
    <3> HIDE DEF Rebuilt
    <3> QED  BY <2>1, <2>6
  <2> DEFINE P == {i \in 0 .. n : i # 0 => h[i] = f[i]}
  <2>8. 0 \in P  BY <1>1
  <2>9. \A i \in 1 .. n : i - 1 \in P => i \in P
    <3>1. ASSUME NEW i \in 1 .. n, i - 1 \in P PROVE i \in P
      <4>1. h[i] = IF i = 1 THEN parts[i] ELSE Joined(h[i - 1], i)  BY <2>7
      <4>2. i # 1 => h[i - 1] = f[i - 1]  BY <1>1, <3>1
      <4>3. i \in 0 .. n  BY <1>1
      <4> QED  BY <2>2, <2>3, <4>1, <4>2, <4>3
    <3> QED  BY <3>1
  <2>10. n \in P
    <3>1. n \in 0 .. n  BY <1>1
    <3> HIDE DEF P
    <3>2. \A i \in 0 .. n : i \in P  BY <1>1, <2>8, <2>9, AllReached
    <3> QED  BY <3>1, <3>2
  <2> QED  BY <1>2, <1>4, <2>7, <2>10 DEF n
<1> QED  BY <1>3, <1>4

\* One sequence after another.
Then(left, right) == left \o right

\* Which two of three sequences are joined first does not matter.
LEMMA ThenAssociates ==
    ASSUME NEW S, NEW a \in Seq(S), NEW b \in Seq(S), NEW c \in Seq(S)
    PROVE  Then(Then(a, b), c) = Then(a, Then(b, c))
BY ConcatAssociative DEF Then

\* No pieces, no elements.
LEMMA FlatEmpty == Book!FlattenSeq(<<>>) = <<>>
BY DEF Book!FlattenSeq

\* A piece more: its elements come last.
LEMMA FlatAppend ==
    ASSUME NEW S, NEW parts \in Seq(Seq(S)), NEW more \in Seq(S)
    PROVE  Book!FlattenSeq(Append(parts, more)) = Book!FlattenSeq(parts) \o more
<1> DEFINE n == Len(parts)
<1>1. n \in Nat  OBVIOUS
<1>2. PICK f : Joins(S, parts, f)  BY JoinsExist
<1>3. PICK all : all = Append(parts, more)  OBVIOUS
<1>4. /\ all \in Seq(Seq(S)) /\ Len(all) = n + 1 /\ all[n + 1] = more
      /\ \A i \in 1 .. n : all[i] = parts[i]
  BY <1>3
<1>5. PICK last : last = f[n] \o more  OBVIOUS
<1>6. f \in [0 .. n -> Seq(S)] /\ f[0] = <<>> /\ f[n] \in Seq(S)  BY <1>1, <1>2 DEF Joins
<1>7. last \in Seq(S)  BY <1>5, <1>6
<1>8. PICK g : g = [i \in 0 .. n + 1 |-> IF i = n + 1 THEN last ELSE f[i]]  OBVIOUS
<1>9. /\ g \in [0 .. n + 1 -> Seq(S)] /\ g[0] = <<>> /\ g[n + 1] = last
      /\ \A i \in 0 .. n : g[i] = f[i]
  BY <1>1, <1>6, <1>7, <1>8
<1>10. \A i \in 1 .. n + 1 : g[i] = g[i - 1] \o all[i]
  <2>1. ASSUME NEW i \in 1 .. n + 1 PROVE g[i] = g[i - 1] \o all[i]
    <3>1. CASE i = n + 1
      <4>1. i - 1 = n /\ n \in 0 .. n  BY <1>1, <3>1
      <4>2. g[i - 1] = f[n] /\ all[i] = more /\ g[i] = last  BY <1>4, <1>9, <3>1, <4>1
      <4> QED  BY <1>5, <4>2
    <3>2. CASE i # n + 1
      <4>1. i \in 1 .. n /\ i \in 0 .. n /\ i - 1 \in 0 .. n  BY <1>1, <3>2
      <4>2. g[i] = f[i] /\ g[i - 1] = f[i - 1] /\ all[i] = parts[i]  BY <1>4, <1>9, <4>1
      <4>3. f[i] = f[i - 1] \o parts[i]  BY <1>2, <4>1 DEF Joins
      <4> QED  BY <4>2, <4>3
    <3> QED  BY <3>1, <3>2
  <2> QED  BY <2>1
<1>11. Joins(S, all, g)  BY <1>4, <1>9, <1>10 DEF Joins
<1>12. Book!FlattenSeq(all) = last  BY <1>4, <1>9, <1>11, JoinsFlatten
<1>13. Book!FlattenSeq(parts) = f[n]  BY <1>2, JoinsFlatten
<1> QED  BY <1>3, <1>5, <1>12, <1>13

\* Two sequences of pieces, one after the other.
LEMMA FlatConcat ==
    ASSUME NEW S, NEW left \in Seq(Seq(S)), NEW right \in Seq(Seq(S))
    PROVE  Book!FlattenSeq(left \o right) = Book!FlattenSeq(left) \o Book!FlattenSeq(right)
<1> DEFINE m == Len(left)
           n == Len(right)
<1>1. m \in Nat /\ n \in Nat  OBVIOUS
<1>2. PICK f : Joins(S, left, f)  BY JoinsExist
<1>3. PICK g : Joins(S, right, g)  BY JoinsExist
<1>4. /\ f \in [0 .. m -> Seq(S)] /\ f[m] \in Seq(S) /\ f[0] = <<>>
      /\ g \in [0 .. n -> Seq(S)] /\ g[0] = <<>>
  <2>1. f \in [0 .. m -> Seq(S)] /\ f[0] = <<>>  BY <1>2 DEF Joins
  <2>2. g \in [0 .. n -> Seq(S)] /\ g[0] = <<>>  BY <1>3 DEF Joins
  <2>3. m \in 0 .. m  BY <1>1
  <2> QED  BY <2>1, <2>2, <2>3
<1>5. PICK all : all = left \o right  OBVIOUS
<1>6. /\ all \in Seq(Seq(S)) /\ Len(all) = m + n
      /\ \A i \in 1 .. m + n : all[i] = IF i <= m THEN left[i] ELSE right[i - m]
  BY <1>5, ConcatProperties
<1>7. \A i \in 0 .. n : f[m] \o g[i] \in Seq(S)
  <2>1. \A i \in 0 .. n : g[i] \in Seq(S)  BY <1>4
  <2> QED  BY <1>4, <2>1, ConcatProperties
<1> DEFINE tail(i) == f[m] \o g[i]
<1> HIDE DEF tail, m, n
<1>8. PICK h : h = [i \in 0 .. m + n |-> IF i <= m THEN f[i] ELSE tail(i - m)]  OBVIOUS
<1>9. h \in [0 .. m + n -> Seq(S)] /\ h[0] = <<>>
  BY <1>1, <1>4, <1>7, <1>8 DEF tail
<1>10. tail(0) = f[m]  BY <1>4, ConcatEmptySeq DEF tail
<1>11. \A i \in 1 .. m + n : h[i] = h[i - 1] \o all[i]
  <2>1. ASSUME NEW i \in 1 .. m + n PROVE h[i] = h[i - 1] \o all[i]
    <3>1. CASE i <= m
      <4>1. i \in 1 .. m /\ i - 1 <= m /\ i - 1 \in 0 .. m + n /\ i \in 0 .. m + n  BY <1>1, <3>1
      <4>2. h[i] = f[i] /\ h[i - 1] = f[i - 1] /\ all[i] = left[i]  BY <1>6, <1>8, <3>1, <4>1
      <4>3. f[i] = f[i - 1] \o left[i]  BY <1>2, <4>1 DEF Joins, m
      <4> QED  BY <4>2, <4>3
    <3>2. CASE ~(i <= m)
      <4>1. /\ i - m \in 1 .. n /\ i - m \in 0 .. n /\ (i - m) - 1 \in 0 .. n
            /\ i - 1 \in 0 .. m + n /\ i \in 0 .. m + n
        BY <1>1, <3>2
      <4>2. h[i] = tail(i - m) /\ all[i] = right[i - m]  BY <1>6, <1>8, <3>2, <4>1
      <4>3. h[i - 1] = tail((i - m) - 1)
        <5>1. CASE i - 1 = m
          <6>1. h[i - 1] = f[m] /\ (i - m) - 1 = 0  BY <1>1, <1>8, <4>1, <5>1
          <6> QED  BY <1>10, <6>1
        <5>2. CASE i - 1 # m
          <6>1. ~(i - 1 <= m) /\ (i - 1) - m = (i - m) - 1  BY <1>1, <3>2, <5>2
          <6> QED  BY <1>8, <4>1, <6>1
        <5> QED  BY <5>1, <5>2
      <4>4. g[i - m] = g[(i - m) - 1] \o right[i - m]  BY <1>3, <4>1 DEF Joins, n
      <4>5. g[(i - m) - 1] \in Seq(S) /\ right[i - m] \in Seq(S)  BY <1>4, <4>1 DEF n
      <4>6. tail(i - m) = tail((i - m) - 1) \o right[i - m]
        <5>1. (f[m] \o g[(i - m) - 1]) \o right[i - m] = f[m] \o (g[(i - m) - 1] \o right[i - m])
          <6>1. PICK a \in Seq(S), b \in Seq(S), c \in Seq(S) :
                   a = f[m] /\ b = g[(i - m) - 1] /\ c = right[i - m]
            BY <1>4, <4>5
          <6>2. Then(Then(a, b), c) = Then(a, Then(b, c))  BY <6>1, ThenAssociates
          <6> QED  BY <6>1, <6>2 DEF Then
        <5>2. tail(i - m) = f[m] \o (g[(i - m) - 1] \o right[i - m])  BY <4>4 DEF tail
        <5> QED  BY <5>1, <5>2 DEF tail
      <4> QED  BY <4>2, <4>3, <4>6
    <3> QED  BY <3>1, <3>2
  <2> QED  BY <2>1
<1>12. Joins(S, all, h)  BY <1>6, <1>9, <1>11 DEF Joins
<1>13. Book!FlattenSeq(all) = h[m + n]  BY <1>6, <1>12, JoinsFlatten
<1>14. h[m + n] = tail(n)
  <2>1. m + n \in 0 .. m + n /\ (m + n) - m = n  BY <1>1
  <2>2. CASE n = 0  BY <1>1, <1>8, <1>10, <2>1, <2>2
  <2>3. CASE n # 0  BY <1>1, <1>8, <2>1, <2>3
  <2> QED  BY <2>2, <2>3
<1>15. Book!FlattenSeq(left) = f[m]  BY <1>2, JoinsFlatten DEF m
<1>16. Book!FlattenSeq(right) = g[n]  BY <1>3, JoinsFlatten DEF n
<1> QED  BY <1>5, <1>13, <1>14, <1>15, <1>16 DEF tail

\* More articles in the last group come after those that the groups held.
Extends(S, groups, more, ext, n, last) ==
    /\ ext \in Seq(Seq(S)) /\ n \in Nat /\ last \in Seq(S)
    /\ n = Len(groups) /\ n = Len(ext) /\ n >= 1
    /\ last = Book!Last(groups) /\ last = groups[n]
    /\ \A k \in 1 .. n - 1 : ext[k] = groups[k]
    /\ ext[n] = last \o more
    /\ Book!FlattenSeq(ext) = Book!FlattenSeq(groups) \o more

\* A longer last group: the others stay, and what was added comes last.
LEMMA ExtendedAre ==
    ASSUME NEW S, NEW groups \in Seq(Seq(S)), groups # <<>>, NEW more \in Seq(S)
    PROVE  \E n, last : Extends(S, groups, more, Book!Extended(groups, more), n, last)
<1> DEFINE n == Len(groups)
<1>1. n \in Nat /\ n >= 1 /\ groups[n] \in Seq(S)  OBVIOUS
<1>2. PICK last : last = groups[n] /\ last = Book!Last(groups) /\ last \in Seq(S)
  BY <1>1 DEF Book!Last
<1>3. PICK front : front = Book!Front(groups)  OBVIOUS
<1>4. /\ front \in Seq(Seq(S)) /\ Len(front) = n - 1
      /\ \A k \in 1 .. n - 1 : front[k] = groups[k]
  <2>1. front = SubSeq(groups, 1, n - 1)  BY <1>3 DEF Book!Front
  <2>2. n - 1 \in Int /\ \A k \in 1 .. n - 1 : groups[k] \in Seq(S)  BY <1>1
  <2>3. PICK m \in Int : m = n - 1  BY <2>2
  <2>4. \A k \in 1 .. m : groups[k] \in Seq(S)  BY <2>2, <2>3
  <2>5. /\ SubSeq(groups, 1, m) \in Seq(Seq(S))
        /\ Len(SubSeq(groups, 1, m)) = IF 1 <= m THEN m - 1 + 1 ELSE 0
        /\ \A k \in 1 .. m - 1 + 1 : SubSeq(groups, 1, m)[k] = groups[1 + k - 1]
    BY <2>3, <2>4, SubSeqProperties
  <2>6. front \in Seq(Seq(S)) /\ Len(front) = n - 1  BY <1>1, <2>1, <2>3, <2>5
  <2>7. ASSUME NEW k \in 1 .. n - 1 PROVE front[k] = groups[k]
    <3>1. k \in 1 .. m - 1 + 1 /\ 1 + k - 1 = k  BY <1>1, <2>3
    <3> QED  BY <2>1, <2>3, <2>5, <3>1
  <2> QED  BY <2>6, <2>7
<1>5. PICK both : both = last \o more  OBVIOUS
<1>6. both \in Seq(S)  BY <1>2, <1>5, ConcatProperties
<1>7. PICK ext : ext = Append(front, both)  OBVIOUS
<1>8. ext = Book!Extended(groups, more)  BY <1>2, <1>3, <1>5, <1>7 DEF Book!Extended
<1>9. /\ ext \in Seq(Seq(S)) /\ Len(ext) = n /\ ext[n] = both
      /\ \A k \in 1 .. n - 1 : ext[k] = groups[k]
  BY <1>1, <1>4, <1>6, <1>7
<1>10. groups = Append(front, last)
  <2>1. PICK same : same = Append(front, last)  OBVIOUS
  <2>2. /\ same \in Seq(Seq(S)) /\ Len(same) = n /\ same[n] = last
        /\ \A k \in 1 .. n - 1 : same[k] = front[k]
    BY <1>1, <1>2, <1>4, <2>1
  <2>3. ASSUME NEW k \in 1 .. n PROVE same[k] = groups[k]
    <3>1. k = n \/ k \in 1 .. n - 1  BY <1>1
    <3> QED  BY <1>2, <1>4, <2>2, <3>1
  <2>4. groups = same  BY <2>2, <2>3, SeqEqual
  <2> QED  BY <2>1, <2>4
<1>11. Book!FlattenSeq(groups) = Book!FlattenSeq(front) \o last
  BY <1>2, <1>4, <1>10, FlatAppend
<1>12. Book!FlattenSeq(ext) = Book!FlattenSeq(front) \o both
  BY <1>4, <1>6, <1>7, FlatAppend
<1>13. Book!FlattenSeq(front) \in Seq(S)
  <2>1. PICK f : Joins(S, front, f)  BY <1>4, JoinsExist
  <2> QED  BY <1>4, <2>1, JoinsFlatten
<1>14. Book!FlattenSeq(ext) = Book!FlattenSeq(groups) \o more
  <2>1. PICK x : x = Book!FlattenSeq(front) /\ x \in Seq(S)  BY <1>13
  <2>2. Then(Then(x, last), more) = Then(x, Then(last, more))
    BY <1>2, <2>1, ThenAssociates
  <2>3. Book!FlattenSeq(ext) = Then(x, Then(last, more))
    BY <1>5, <1>12, <2>1 DEF Then
  <2>4. Book!FlattenSeq(groups) = Then(x, last)  BY <1>11, <2>1 DEF Then
  <2> QED  BY <2>2, <2>3, <2>4 DEF Then
<1> HIDE DEF n
<1>15. n = Len(groups)  BY DEF n
<1>16. Extends(S, groups, more, ext, n, last)
  BY <1>1, <1>2, <1>5, <1>9, <1>14, <1>15 DEF Extends
<1> QED  BY <1>8, <1>16

\* The articles of the pages.
BookArticle == [order : Nat, entry : Nat, size : Sizes, stored : BOOLEAN]
ArticlesAre == placed \in [Urls -> BookArticle]
By == {"none", "articles", "size"}

\* An article measures a number.
LEMMA MetricIs ==
    ASSUME ArticlesAre, NEW u \in Urls, NEW by PROVE Book!Metric(u, by) \in Nat
<1>1. placed[u].size \in Nat  BY LimitsAssumption DEF ArticlesAre, BookArticle
<1> QED  BY <1>1 DEF Book!Metric

\* What articles measure together is a number; none measure 0.
LEMMA TotalIs ==
    ASSUME ArticlesAre, NEW by, NEW articles \in Seq(Urls)
    PROVE  Book!Total(articles, by) \in Nat
<1> DEFINE n == Len(articles)
           Added(s, i) == s + Book!Metric(articles[i], by)
           Rebuilt(f) == f = [i \in 0 .. n |-> IF i = 0 THEN 0 ELSE Added(f[i - 1], i)]
<1>1. n \in Nat  OBVIOUS
<1>2. \A s \in Nat, i \in 1 .. n : Added(s, i) \in Nat
  <2>1. \A i \in 1 .. n : Book!Metric(articles[i], by) \in Nat  BY MetricIs
  <2> QED  BY <2>1
<1> HIDE DEF Added
<1>3. \E f : Rebuilt(f)
  <2> HIDE DEF n
  <2>1. PICK step : step = [p \in 1 .. n |-> [x \in Nat |-> Added(x, p)]]  OBVIOUS
  <2>2. step \in [1 .. n -> [Nat -> Nat]]  BY <1>2, <2>1
  <2>3. PICK f : Passes(Nat, n, 0, step, f)
    <3> HIDE DEF Rebuilt
    <3> QED  BY <1>1, <2>2, PassIs
  <2>4. Rebuilt(f)
    <3>1. ASSUME NEW i \in 1 .. n PROVE f[i - 1] \in Nat /\ f[i] = Added(f[i - 1], i)
      <4>1. i - 1 \in 0 .. n  BY <1>1
      <4>2. f[i - 1] \in Nat /\ f[i] = step[i][f[i - 1]]  BY <2>3, <4>1 DEF Passes
      <4> QED  BY <2>1, <4>2
    <3> QED  BY <2>3, <3>1 DEF Passes
  <2> HIDE DEF Rebuilt
  <2> QED  BY <2>4
<1>4. PICK h : Rebuilt(h) /\ Book!Total(articles, by) = h[n]
  <2>1. Book!Total(articles, by) = (CHOOSE g : Rebuilt(g))[n]
    BY DEF Book!Total, Added
  <2> HIDE DEF Rebuilt
  <2> QED  BY <1>3, <2>1
<1> DEFINE P == {i \in 0 .. n : h[i] \in Nat}
<1>5. 0 \in P  BY <1>1, <1>4
<1>6. \A i \in 1 .. n : i - 1 \in P => i \in P
  <2>1. \A i \in 1 .. n : i \in 0 .. n /\ h[i] = Added(h[i - 1], i)  BY <1>1, <1>4
  <2> QED  BY <1>2, <2>1
<1>7. n \in P
  <2>1. n \in 0 .. n  BY <1>1
  <2> HIDE DEF P, n
  <2>2. \A i \in 0 .. n : i \in P  BY <1>1, <1>5, <1>6, AllReached
  <2> QED  BY <2>1, <2>2
<1> QED  BY <1>4, <1>7

\* No articles measure 0.
LEMMA NoneMeasure0 == ASSUME NEW by PROVE Book!Total(<<>>, by) = 0
<1> DEFINE Added(s, i) == s + Book!Metric(<<>>[i], by)
           Rebuilt(f) == f = [i \in 0 .. 0 |-> IF i = 0 THEN 0 ELSE Added(f[i - 1], i)]
<1>1. Len(<<>>) = 0  OBVIOUS
<1>2. Book!Total(<<>>, by) = (CHOOSE g : Rebuilt(g))[0]  BY <1>1 DEF Book!Total
<1> HIDE DEF Added
<1>3. PICK f : f = [i \in 0 .. 0 |-> 0]  OBVIOUS
<1>4. Rebuilt(f)  BY <1>3
<1>5. PICK h : Rebuilt(h) /\ Book!Total(<<>>, by) = h[0]
  <2> HIDE DEF Rebuilt
  <2> QED  BY <1>2, <1>4
<1> QED  BY <1>5

\* Articles packed into files are all there and in order; a file above the limit is a
\* single article.
LEMMA PackedAre ==
    ASSUME ArticlesAre, NEW articles \in Seq(Urls), NEW by, NEW limit \in Nat
    PROVE  LET files == Book!SplitArticles(articles, by, limit)
           IN  /\ files \in Seq(Seq(Urls))
               /\ Book!FlattenSeq(files) = articles
               /\ \A k \in 1 .. Len(files) :
                     files[k] # <<>> /\ (Book!Total(files[k], by) <= limit \/ Len(files[k]) = 1)
<1> DEFINE n == Len(articles)
           T == Seq(Seq(Urls))
           Taken(s, i) == Book!Packed(s, articles[i], by, limit)
           Rebuilt(f) == f = [i \in 0 .. n |-> IF i = 0 THEN <<>> ELSE Taken(f[i - 1], i)]
<1>1. n \in Nat /\ <<>> \in T /\ \A i \in 1 .. n : articles[i] \in Urls  OBVIOUS
<1>2. ASSUME NEW s \in T, NEW i \in 1 .. n
      PROVE  \/ Taken(s, i) = Append(s, <<articles[i]>>)
             \/ /\ s # <<>> /\ Taken(s, i) = Book!Extended(s, <<articles[i]>>)
                /\ Book!Total(Book!Last(s) \o <<articles[i]>>, by) <= limit
  BY DEF Book!Packed
<1>3. \A s \in T, i \in 1 .. n : Taken(s, i) \in T
  <2>1. ASSUME NEW s \in T, NEW i \in 1 .. n PROVE Taken(s, i) \in T
    <3>1. <<articles[i]>> \in Seq(Urls)  BY <1>1
    <3>2. Append(s, <<articles[i]>>) \in T  BY <3>1
    <3>3. ASSUME s # <<>> PROVE Book!Extended(s, <<articles[i]>>) \in T
      <4>1. PICK m, last : Extends(Urls, s, <<articles[i]>>, Book!Extended(s, <<articles[i]>>), m, last)
        BY <3>1, <3>3, ExtendedAre
      <4> QED  BY <4>1 DEF Extends
    <3> HIDE DEF Taken, T
    <3> QED  BY <1>2, <3>2, <3>3
  <2> QED  BY <2>1
<1> HIDE DEF Taken
<1>4. \E f : Rebuilt(f)
  <2> HIDE DEF T, n
  <2>1. PICK step : step = [p \in 1 .. n |-> [x \in T |-> Taken(x, p)]]  OBVIOUS
  <2>2. step \in [1 .. n -> [T -> T]]  BY <1>3, <2>1
  <2>3. PICK f : Passes(T, n, <<>>, step, f)
    <3> HIDE DEF Rebuilt
    <3> QED  BY <1>1, <2>2, PassIs
  <2>4. Rebuilt(f)
    <3>1. ASSUME NEW i \in 1 .. n PROVE f[i - 1] \in T /\ f[i] = Taken(f[i - 1], i)
      <4>1. i - 1 \in 0 .. n  BY <1>1
      <4>2. f[i - 1] \in T /\ f[i] = step[i][f[i - 1]]  BY <2>3, <4>1 DEF Passes
      <4> QED  BY <2>1, <4>2
    <3> QED  BY <2>3, <3>1 DEF Passes
  <2> HIDE DEF Rebuilt
  <2> QED  BY <2>4
<1>5. PICK h : Rebuilt(h) /\ Book!SplitArticles(articles, by, limit) = h[n]
  <2>1. Book!SplitArticles(articles, by, limit) = (CHOOSE g : Rebuilt(g))[n]
    BY DEF Book!SplitArticles, Taken
  <2> HIDE DEF Rebuilt
  <2> QED  BY <1>4, <2>1
<1>6. h[0] = <<>> /\ \A i \in 1 .. n : h[i] = Taken(h[i - 1], i)
  <2> HIDE DEF n
  <2> QED  BY <1>1, <1>5
<1> DEFINE Fits(s) == \A k \in 1 .. Len(s) :
                         s[k] # <<>> /\ (Book!Total(s[k], by) <= limit \/ Len(s[k]) = 1)
           P == {i \in 0 .. n : /\ h[i] \in T /\ Fits(h[i])
                                /\ Book!FlattenSeq(h[i]) = SubSeq(articles, 1, i)}
<1>7. 0 \in P
  <2>1. SubSeq(articles, 1, 0) = <<>>  OBVIOUS
  <2>2. Fits(<<>>)  OBVIOUS
  <2>3. 0 \in 0 .. n  BY <1>1
  <2>4. Book!FlattenSeq(h[0]) = SubSeq(articles, 1, 0)  BY <1>6, <2>1, FlatEmpty
  <2>5. h[0] \in T /\ Fits(h[0])
    <3> HIDE DEF Fits, T
    <3> QED  BY <1>1, <1>6, <2>2
  <2> HIDE DEF Fits, n, T
  <2> QED  BY <2>3, <2>4, <2>5
<1>8. ASSUME NEW i \in 1 .. n, i - 1 \in P PROVE i \in P
  <2>1. PICK s : s = h[i - 1]  OBVIOUS
  <2>2. s \in T /\ Fits(s) /\ Book!FlattenSeq(s) = SubSeq(articles, 1, i - 1)
    BY <1>8, <2>1
  <2>3. PICK one : one = <<articles[i]>>  OBVIOUS
  <2>4. one \in Seq(Urls) /\ Len(one) = 1 /\ one # <<>> /\ i \in 0 .. n /\ i \in Nat
    BY <1>1, <2>3
  <2>5. SubSeq(articles, 1, i) = SubSeq(articles, 1, i - 1) \o one
    <3>1. 1 \in 1 .. Len(articles) /\ i \in 1 .. Len(articles) /\ i \in 1 .. i  BY <1>1, <2>4
    <3> QED  BY <2>3, <3>1, SubSeqRecursiveSecond
  <2>6. PICK t : t = Taken(s, i) /\ t = h[i]  BY <1>6, <2>1
  <2>7. t \in T  BY <1>3, <2>2, <2>6
  <2>8. CASE t = Append(s, one)
    <3>1. Book!FlattenSeq(t) = SubSeq(articles, 1, i)
      BY <2>2, <2>4, <2>5, <2>8, FlatAppend
    <3>2. /\ Len(t) = Len(s) + 1 /\ Len(s) \in Nat /\ t[Len(s) + 1] = one
          /\ \A k \in 1 .. Len(s) : t[k] = s[k]
      BY <2>2, <2>4, <2>8
    <3>3. Fits(t)
      <4>1. ASSUME NEW k \in 1 .. Len(t)
            PROVE  t[k] # <<>> /\ (Book!Total(t[k], by) <= limit \/ Len(t[k]) = 1)
        <5>1. CASE k \in 1 .. Len(s)  BY <2>2, <3>2, <5>1
        <5>2. CASE k = Len(s) + 1  BY <2>4, <3>2, <5>2
        <5> QED  BY <3>2, <5>1, <5>2
      <4> QED  BY <4>1
    <3> HIDE DEF Fits, T
    <3> QED  BY <2>4, <2>6, <2>7, <3>1, <3>3
  <2>9. CASE s # <<>> /\ t = Book!Extended(s, one) /\ Book!Total(Book!Last(s) \o one, by) <= limit
    <3> PICK m, last : Extends(Urls, s, one, t, m, last)
      <4>1. s \in Seq(Seq(Urls)) /\ s # <<>>  BY <2>2, <2>9
      <4> HIDE DEF Fits, T, n
      <4> QED  BY <2>4, <2>9, <4>1, ExtendedAre
    <3>1. /\ m = Len(s) /\ m = Len(t) /\ m >= 1 /\ m \in Nat /\ last \in Seq(Urls)
          /\ last = Book!Last(s) /\ last = s[m]
          /\ \A k \in 1 .. m - 1 : t[k] = s[k]
          /\ t[m] = last \o one
          /\ Book!FlattenSeq(t) = Book!FlattenSeq(s) \o one
      BY DEF Extends
    <3>2. Book!FlattenSeq(t) = SubSeq(articles, 1, i)
      BY <2>2, <2>5, <3>1
    <3>3. Book!Total(t[m], by) <= limit /\ t[m] # <<>>
      <4>1. last \o one # <<>>  BY <2>4, <3>1, ConcatEqualIffEmpty
      <4> QED  BY <2>9, <3>1, <4>1
    <3>4. Fits(t)
      <4>1. ASSUME NEW k \in 1 .. Len(t)
            PROVE  t[k] # <<>> /\ (Book!Total(t[k], by) <= limit \/ Len(t[k]) = 1)
        <5>1. CASE k \in 1 .. m - 1
          <6>1. k \in 1 .. Len(s)  BY <3>1, <5>1
          <6> QED  BY <2>2, <3>1, <5>1, <6>1
        <5>2. CASE k = m  BY <3>3, <5>2
        <5> QED  BY <3>1, <5>1, <5>2
      <4> QED  BY <4>1
    <3> HIDE DEF Fits, T
    <3> QED  BY <2>4, <2>6, <2>7, <3>2, <3>4
  <2> QED  BY <1>2, <2>2, <2>3, <2>6, <2>8, <2>9
<1>9. n \in P
  <2>1. n \in 0 .. n  BY <1>1
  <2> HIDE DEF P, n
  <2>2. \A i \in 0 .. n : i \in P  BY <1>1, <1>7, <1>8, AllReached
  <2> QED  BY <2>1, <2>2
<1>10. SubSeq(articles, 1, n) = articles  BY SubSeqFull
<1> QED  BY <1>5, <1>9, <1>10

\* The chapters that the first articles go through.
ChapterPass(articles, h) ==
    /\ h \in [0 .. Len(articles) -> Seq(Seq(Urls))]
    /\ h[0] = <<>> /\ h[Len(articles)] = Book!Chapters(articles)
    /\ \A i \in 1 .. Len(articles) : h[i] = Book!Grouped(h[i - 1], articles[i])

\* An article goes to the last chapter when that is its own, and opens one otherwise.
LEMMA GroupedIs ==
    ASSUME NEW s \in Seq(Seq(Urls)), NEW u \in Urls
    PROVE  /\ Book!Grouped(s, u) \in Seq(Seq(Urls))
           /\ \/ /\ s # <<>> /\ Book!Chapter(u) = Book!Chapter(Head(Book!Last(s)))
                 /\ \E m, last : Extends(Urls, s, <<u>>, Book!Grouped(s, u), m, last)
              \/ /\ s # <<>> => Book!Chapter(u) # Book!Chapter(Head(Book!Last(s)))
                 /\ Book!Grouped(s, u) = Append(s, <<u>>)
<1>1. <<u>> \in Seq(Urls)  OBVIOUS
<1>2. CASE s # <<>> /\ Book!Chapter(u) = Book!Chapter(Head(Book!Last(s)))
  <2>1. Book!Grouped(s, u) = Book!Extended(s, <<u>>)  BY <1>2 DEF Book!Grouped
  <2>2. PICK m, last : Extends(Urls, s, <<u>>, Book!Grouped(s, u), m, last)
    BY <1>1, <1>2, <2>1, ExtendedAre
  <2>3. Book!Grouped(s, u) \in Seq(Seq(Urls))  BY <2>2 DEF Extends
  <2> QED  BY <1>2, <2>2, <2>3
<1>3. CASE ~(s # <<>> /\ Book!Chapter(u) = Book!Chapter(Head(Book!Last(s))))
  <2>1. Book!Grouped(s, u) = Append(s, <<u>>)  BY <1>3 DEF Book!Grouped
  <2>2. Append(s, <<u>>) \in Seq(Seq(Urls))  BY <1>1
  <2> QED  BY <1>3, <2>1, <2>2
<1> QED  BY <1>2, <1>3

\* The pass of _split_by_chapter that groups the articles exists.
LEMMA ChaptersPass ==
    ASSUME NEW articles \in Seq(Urls) PROVE \E h : ChapterPass(articles, h)
<1> DEFINE n == Len(articles)
           T == Seq(Seq(Urls))
           Taken(s, i) == Book!Grouped(s, articles[i])
           Rebuilt(f) == f = [i \in 0 .. n |-> IF i = 0 THEN <<>> ELSE Taken(f[i - 1], i)]
<1>1. n \in Nat /\ <<>> \in T /\ \A i \in 1 .. n : articles[i] \in Urls  OBVIOUS
<1>2. \A s \in T, i \in 1 .. n : Taken(s, i) \in T  BY <1>1, GroupedIs
<1> HIDE DEF Taken
<1>3. \E f : Rebuilt(f)
  <2> HIDE DEF T, n
  <2>1. PICK step : step = [p \in 1 .. n |-> [x \in T |-> Taken(x, p)]]  OBVIOUS
  <2>2. step \in [1 .. n -> [T -> T]]  BY <1>2, <2>1
  <2>3. PICK f : Passes(T, n, <<>>, step, f)
    <3> HIDE DEF Rebuilt
    <3> QED  BY <1>1, <2>2, PassIs
  <2>4. Rebuilt(f)
    <3>1. ASSUME NEW i \in 1 .. n PROVE f[i - 1] \in T /\ f[i] = Taken(f[i - 1], i)
      <4>1. i - 1 \in 0 .. n  BY <1>1
      <4>2. f[i - 1] \in T /\ f[i] = step[i][f[i - 1]]  BY <2>3, <4>1 DEF Passes
      <4> QED  BY <2>1, <4>2
    <3> QED  BY <2>3, <3>1 DEF Passes
  <2> HIDE DEF Rebuilt
  <2> QED  BY <2>4
<1>4. PICK h : Rebuilt(h) /\ Book!Chapters(articles) = h[n]
  <2>1. Book!Chapters(articles) = (CHOOSE g : Rebuilt(g))[n]
    BY DEF Book!Chapters, Taken
  <2> HIDE DEF Rebuilt
  <2> QED  BY <1>3, <2>1
<1>5. h[0] = <<>> /\ \A i \in 1 .. n : h[i] = Taken(h[i - 1], i)
  <2> HIDE DEF n
  <2> QED  BY <1>1, <1>4
<1> DEFINE P == {i \in 0 .. n : h[i] \in T}
<1>6. \A i \in 0 .. n : i \in P
  <2>1. 0 \in P
    <3> HIDE DEF T
    <3> QED  BY <1>1, <1>5
  <2>2. \A i \in 1 .. n : i - 1 \in P => i \in P
    <3>1. \A i \in 1 .. n : i \in 0 .. n  BY <1>1
    <3> HIDE DEF T
    <3> QED  BY <1>2, <1>5, <3>1
  <2> HIDE DEF P, n
  <2> QED  BY <1>1, <2>1, <2>2, AllReached
<1>7. h \in [0 .. n -> T]
  <2> HIDE DEF n, T, Rebuilt
  <2>1. h = [i \in 0 .. n |-> IF i = 0 THEN <<>> ELSE Taken(h[i - 1], i)]  BY <1>4 DEF Rebuilt
  <2>2. \A i \in 0 .. n : (IF i = 0 THEN <<>> ELSE Taken(h[i - 1], i)) = h[i]
    BY <1>1, <1>5
  <2> QED  BY <1>6, <2>1, <2>2
<1> HIDE DEF Rebuilt
<1> QED  BY <1>4, <1>5, <1>7 DEF ChapterPass, Taken

\* The chapters hold the articles in their order.
LEMMA ChaptersAre ==
    ASSUME NEW articles \in Seq(Urls)
    PROVE  /\ Book!Chapters(articles) \in Seq(Seq(Urls))
           /\ Book!FlattenSeq(Book!Chapters(articles)) = articles
<1> DEFINE n == Len(articles)
<1>1. n \in Nat /\ \A i \in 1 .. n : articles[i] \in Urls  OBVIOUS
<1>2. PICK h : ChapterPass(articles, h)  BY ChaptersPass
<1>3. /\ h \in [0 .. n -> Seq(Seq(Urls))] /\ h[0] = <<>> /\ h[n] = Book!Chapters(articles)
      /\ \A i \in 1 .. n : h[i] = Book!Grouped(h[i - 1], articles[i])
  BY <1>2 DEF ChapterPass
<1> DEFINE P == {i \in 0 .. n : Book!FlattenSeq(h[i]) = SubSeq(articles, 1, i)}
<1>4. 0 \in P
  <2>1. SubSeq(articles, 1, 0) = <<>>  OBVIOUS
  <2> QED  BY <1>1, <1>3, <2>1, FlatEmpty
<1>5. ASSUME NEW i \in 1 .. n, i - 1 \in P PROVE i \in P
  <2>1. i - 1 \in 0 .. n /\ i \in 0 .. n  BY <1>1
  <2>2. PICK s \in Seq(Seq(Urls)) : s = h[i - 1]  BY <1>3, <2>1
  <2>3. PICK one : one = <<articles[i]>>  OBVIOUS
  <2>8. one \in Seq(Urls) /\ articles[i] \in Urls  BY <1>1, <2>3
  <2>4. SubSeq(articles, 1, i) = SubSeq(articles, 1, i - 1) \o one
    <3>1. 1 \in 1 .. Len(articles) /\ i \in 1 .. Len(articles) /\ i \in 1 .. i  BY <1>1
    <3> QED  BY <2>3, <3>1, SubSeqRecursiveSecond
  <2>5. Book!FlattenSeq(h[i]) = Book!FlattenSeq(s) \o one
    <3>1. h[i] = Append(s, one) \/ \E m, last : Extends(Urls, s, one, h[i], m, last)
      <4>1. h[i] = Book!Grouped(s, articles[i])  BY <1>3, <2>2
      <4>2. \/ \E m, last : Extends(Urls, s, <<articles[i]>>, Book!Grouped(s, articles[i]), m, last)
            \/ Book!Grouped(s, articles[i]) = Append(s, <<articles[i]>>)
        BY <2>2, <2>8, GroupedIs
      <4> QED  BY <2>3, <4>1, <4>2
    <3>2. CASE h[i] = Append(s, one)  BY <2>2, <2>8, <3>2, FlatAppend
    <3>3. ASSUME NEW m, NEW last, Extends(Urls, s, one, h[i], m, last)
          PROVE  Book!FlattenSeq(h[i]) = Book!FlattenSeq(s) \o one
      BY <3>3 DEF Extends
    <3> QED  BY <3>1, <3>2, <3>3
  <2> QED  BY <1>5, <2>1, <2>2, <2>4, <2>5
<1>6. n \in P
  <2>1. n \in 0 .. n  BY <1>1
  <2> HIDE DEF P, n
  <2>2. \A i \in 0 .. n : i \in P  BY <1>1, <1>4, <1>5, AllReached
  <2> QED  BY <2>1, <2>2
<1>7. SubSeq(articles, 1, n) = articles  BY SubSeqFull
<1>8. n \in 0 .. n  BY <1>1
<1> QED  BY <1>3, <1>6, <1>7, <1>8

\* The articles of one chapter among the first articles.
WithinPass(articles, row, w) ==
    /\ w \in [0 .. Len(articles) -> Seq(Urls)]
    /\ w[0] = <<>> /\ w[Len(articles)] = Book!Within(articles, row)
    /\ \A i \in 1 .. Len(articles) :
          w[i] = IF Book!Chapter(articles[i]) = row THEN Append(w[i - 1], articles[i]) ELSE w[i - 1]

\* The pass that picks the articles of one chapter exists.
LEMMA WithinPasses ==
    ASSUME NEW articles \in Seq(Urls), NEW row PROVE \E w : WithinPass(articles, row, w)
<1> DEFINE n == Len(articles)
           T == Seq(Urls)
           Taken(s, i) == IF Book!Chapter(articles[i]) = row THEN Append(s, articles[i]) ELSE s
           Rebuilt(f) == f = [i \in 0 .. n |-> IF i = 0 THEN <<>> ELSE Taken(f[i - 1], i)]
<1>1. n \in Nat /\ <<>> \in T /\ \A i \in 1 .. n : articles[i] \in Urls  OBVIOUS
<1>2. \A s \in T, i \in 1 .. n : Taken(s, i) \in T  BY <1>1
<1> HIDE DEF Taken
<1>3. \E f : Rebuilt(f)
  <2> HIDE DEF T, n
  <2>1. PICK step : step = [p \in 1 .. n |-> [x \in T |-> Taken(x, p)]]  OBVIOUS
  <2>2. step \in [1 .. n -> [T -> T]]  BY <1>2, <2>1
  <2>3. PICK f : Passes(T, n, <<>>, step, f)
    <3> HIDE DEF Rebuilt
    <3> QED  BY <1>1, <2>2, PassIs
  <2>4. Rebuilt(f)
    <3>1. ASSUME NEW i \in 1 .. n PROVE f[i - 1] \in T /\ f[i] = Taken(f[i - 1], i)
      <4>1. i - 1 \in 0 .. n  BY <1>1
      <4>2. f[i - 1] \in T /\ f[i] = step[i][f[i - 1]]  BY <2>3, <4>1 DEF Passes
      <4> QED  BY <2>1, <4>2
    <3> QED  BY <2>3, <3>1 DEF Passes
  <2> HIDE DEF Rebuilt
  <2> QED  BY <2>4
<1>4. PICK h : Rebuilt(h) /\ Book!Within(articles, row) = h[n]
  <2>1. Book!Within(articles, row) = (CHOOSE g : Rebuilt(g))[n]
    BY DEF Book!Within, Taken
  <2> HIDE DEF Rebuilt
  <2> QED  BY <1>3, <2>1
<1>5. h[0] = <<>> /\ \A i \in 1 .. n : h[i] = Taken(h[i - 1], i)
  <2> HIDE DEF n
  <2> QED  BY <1>1, <1>4
<1> DEFINE P == {i \in 0 .. n : h[i] \in T}
<1>6. \A i \in 0 .. n : i \in P
  <2>1. 0 \in P
    <3> HIDE DEF T
    <3> QED  BY <1>1, <1>5
  <2>2. \A i \in 1 .. n : i - 1 \in P => i \in P
    <3>1. \A i \in 1 .. n : i \in 0 .. n  BY <1>1
    <3> HIDE DEF T
    <3> QED  BY <1>2, <1>5, <3>1
  <2> HIDE DEF P, n
  <2> QED  BY <1>1, <2>1, <2>2, AllReached
<1>7. h \in [0 .. n -> T]
  <2> HIDE DEF n, T, Rebuilt
  <2>1. h = [i \in 0 .. n |-> IF i = 0 THEN <<>> ELSE Taken(h[i - 1], i)]  BY <1>4 DEF Rebuilt
  <2>2. \A i \in 0 .. n : (IF i = 0 THEN <<>> ELSE Taken(h[i - 1], i)) = h[i]
    BY <1>1, <1>5
  <2> QED  BY <1>6, <2>1, <2>2
<1> HIDE DEF Rebuilt
<1> QED  BY <1>4, <1>5, <1>7 DEF WithinPass, Taken

Key(chapter) == Book!Chapter(Head(chapter))

\* What a later article does to the keys of the chapters and to one of the chapters.
LEMMA KeyStays ==
    ASSUME NEW S, NEW chapter \in Seq(S), chapter # <<>>, NEW more \in Seq(S)
    PROVE  Head(chapter \o more) = Head(chapter) /\ chapter \o more # <<>>
<1>1. PICK both : both = chapter \o more  OBVIOUS
<1>2. both[1] = chapter[1] /\ both \in Seq(S)  BY <1>1, ConcatProperties
<1>3. both # <<>>  BY <1>1, ConcatEqualIffEmpty
<1> QED  BY <1>1, <1>2, <1>3

\* Articles whose chapters do not decrease: a chapter is in one group of them.
LEMMA ChapterIsGrouped ==
    ASSUME NEW articles \in Seq(Urls), NEW row,
           \A i \in 1 .. Len(articles) : Book!Chapter(articles[i]) \in Nat,
           \A i, j \in 1 .. Len(articles) :
              i < j => Book!Chapter(articles[i]) <= Book!Chapter(articles[j])
    PROVE  \/ Book!Within(articles, row) = <<>>
           \/ \E c \in 1 .. Len(Book!Chapters(articles)) :
                 Book!Chapters(articles)[c] = Book!Within(articles, row)
<1> DEFINE n == Len(articles)
           of(i) == Book!Chapter(articles[i])
<1>1. n \in Nat /\ \A i \in 1 .. n : articles[i] \in Urls  OBVIOUS
<1>2. PICK h : ChapterPass(articles, h)  BY ChaptersPass
<1>3. PICK w : WithinPass(articles, row, w)  BY WithinPasses
<1>4. /\ h \in [0 .. n -> Seq(Seq(Urls))] /\ h[0] = <<>> /\ h[n] = Book!Chapters(articles)
      /\ \A i \in 1 .. n : h[i] = Book!Grouped(h[i - 1], articles[i])
  BY <1>2 DEF ChapterPass
<1>5. /\ w \in [0 .. n -> Seq(Urls)] /\ w[0] = <<>> /\ w[n] = Book!Within(articles, row)
      /\ \A i \in 1 .. n : w[i] = IF of(i) = row THEN Append(w[i - 1], articles[i]) ELSE w[i - 1]
  BY <1>3 DEF WithinPass
<1> DEFINE Keyed(s) == \A c \in 1 .. Len(s) : s[c] # <<>> /\ Key(s[c]) \in Nat
           Rising(s) == \A a, b \in 1 .. Len(s) : a < b => Key(s[a]) < Key(s[b])
           Ends(s, i) == IF i = 0 THEN s = <<>>
                         ELSE s # <<>> /\ Key(s[Len(s)]) = of(i)
           Holds(s, x) == \/ x = <<>> /\ \A c \in 1 .. Len(s) : Key(s[c]) # row
                          \/ \E c \in 1 .. Len(s) : Key(s[c]) = row /\ s[c] = x
           P == {i \in 0 .. n : Keyed(h[i]) /\ Rising(h[i]) /\ Ends(h[i], i) /\ Holds(h[i], w[i])}
<1>6. 0 \in P
  <2>1. Len(<<>>) = 0 /\ 0 \in 0 .. n  BY <1>1
  <2> QED  BY <1>4, <1>5, <2>1
<1>7. ASSUME NEW i \in 1 .. n, i - 1 \in P PROVE i \in P
  <2>1. i - 1 \in 0 .. n /\ i \in 0 .. n /\ i \in Nat /\ i # 0  BY <1>1
  <2>2. PICK s : s = h[i - 1]  OBVIOUS
  <2>3. PICK t : t = h[i]  OBVIOUS
  <2>4. PICK x : x = w[i - 1]  OBVIOUS
  <2>5. PICK u : u = articles[i]  OBVIOUS
  <2>6. PICK r : r = of(i)  OBVIOUS
  <2>7. /\ s \in Seq(Seq(Urls)) /\ x \in Seq(Urls) /\ u \in Urls /\ r \in Nat
        /\ r = Book!Chapter(u)
        /\ w[i] = IF r = row THEN Append(x, u) ELSE x
    BY <1>1, <1>4, <1>5, <2>1, <2>2, <2>4, <2>5, <2>6
  <2>8. Keyed(s) /\ Rising(s) /\ Ends(s, i - 1) /\ Holds(s, x)
    BY <1>7, <2>2, <2>4
  <2>15. \A c \in 1 .. Len(s) : s[c] # <<>> /\ Key(s[c]) \in Nat
    BY <2>8 DEF Keyed
  <2>16. \A a, b \in 1 .. Len(s) : a < b => Key(s[a]) < Key(s[b])
    BY <2>8 DEF Rising
  <2>9. t = Book!Grouped(s, u)  BY <1>4, <2>2, <2>3, <2>5
  <2>10. <<u>> \in Seq(Urls) /\ <<u>> # <<>> /\ Key(<<u>>) = r  BY <2>7 DEF Key
  <2>11. ASSUME NEW m, NEW last, Extends(Urls, s, <<u>>, t, m, last),
                s # <<>>, r = Book!Chapter(Head(Book!Last(s)))
         PROVE  i \in P
    <3>1. /\ m \in Nat /\ m >= 1 /\ m = Len(s) /\ m = Len(t) /\ last = s[m] /\ last \in Seq(Urls)
          /\ last = Book!Last(s) /\ \A c \in 1 .. m - 1 : t[c] = s[c]
          /\ t[m] = last \o <<u>>
      BY <2>11 DEF Extends
    <3>2. Key(s[m]) = r /\ s[m] # <<>> /\ m \in 1 .. Len(s)
      <4>1. m \in 1 .. Len(s)  BY <3>1
      <4>2. s[m] # <<>>  BY <2>15, <4>1
      <4>3. Key(s[m]) = r  BY <2>11, <3>1 DEF Key
      <4> QED  BY <4>1, <4>2, <4>3
    <3>3. Key(t[m]) = r /\ t[m] # <<>>
      <4>1. Head(last \o <<u>>) = Head(last) /\ last \o <<u>> # <<>>
        BY <2>10, <3>1, <3>2, KeyStays
      <4> QED  BY <3>1, <3>2, <4>1 DEF Key
    <3>4. \A c \in 1 .. Len(s) : Key(t[c]) = Key(s[c]) /\ t[c] # <<>>
      <4>1. \A c \in 1 .. Len(s) : c = m \/ c \in 1 .. m - 1  BY <3>1
      <4> QED  BY <2>8, <3>1, <3>2, <3>3, <4>1
    <3>5. Keyed(t) /\ Rising(t)  BY <2>8, <3>1, <3>4
    <3>6. Ends(t, i)
      <4>1. t # <<>>  BY <3>1
      <4> QED  BY <2>1, <2>6, <3>1, <3>3, <4>1
    <3>7. Holds(t, w[i])
      <4>1. CASE r = row
        <5>1. PICK c \in 1 .. Len(s) : Key(s[c]) = row /\ s[c] = x
          <6>1. Key(s[m]) = row  BY <3>2, <4>1
          <6>2. Holds(s, x)  BY <2>8
          <6> QED  BY <3>2, <6>1, <6>2
        <5>2. c = m
          <6>1. c < m => Key(s[c]) < Key(s[m])  BY <2>16, <3>2
          <6>2. c \in Nat /\ c <= m  BY <3>1
          <6> QED  BY <2>7, <3>1, <3>2, <4>1, <5>1, <6>1, <6>2
        <5>3. w[i] = x \o <<u>>  BY <2>7, <4>1, AppendIsConcat
        <5>4. t[m] = w[i]  BY <3>1, <5>1, <5>2, <5>3
        <5>5. m \in 1 .. Len(t) /\ Key(t[m]) = row  BY <3>1, <3>3, <4>1
        <5> QED  BY <5>4, <5>5
      <4>2. CASE r # row
        <5>1. w[i] = x  BY <2>7, <4>2
        <5>2. CASE x = <<>> /\ \A c \in 1 .. Len(s) : Key(s[c]) # row
          <6>1. \A c \in 1 .. Len(t) : Key(t[c]) # row  BY <3>1, <3>4, <5>2
          <6> QED  BY <5>1, <5>2, <6>1
        <5>3. ASSUME NEW c \in 1 .. Len(s), Key(s[c]) = row, s[c] = x PROVE Holds(t, x)
          <6>2. c # m  BY <3>2, <4>2, <5>3
          <6>1. c \in 1 .. m - 1  BY <3>1, <6>2
          <6> QED  BY <3>1, <3>4, <5>3, <6>1
        <5> QED  BY <2>8, <5>1, <5>2, <5>3
      <4> QED  BY <4>1, <4>2
    <3> HIDE DEF Keyed, Rising, Ends, Holds
    <3> QED  BY <2>1, <2>3, <3>5, <3>6, <3>7
  <2>12. ASSUME t = Append(s, <<u>>), s # <<>> => r # Book!Chapter(Head(Book!Last(s)))
         PROVE  i \in P
    <3>1. /\ Len(s) \in Nat /\ Len(t) = Len(s) + 1 /\ t[Len(s) + 1] = <<u>>
          /\ \A c \in 1 .. Len(s) : t[c] = s[c]
      BY <2>7, <2>10, <2>12
    <3>2. ASSUME NEW c \in 1 .. Len(s) PROVE Key(s[c]) < r
      <4>1. s # <<>> /\ Len(s) \in 1 .. Len(s)  BY <3>1
      <4>2. i - 1 # 0 /\ Key(s[Len(s)]) = of(i - 1)  BY <2>8, <4>1
      <4>3. i - 1 \in 1 .. n /\ i - 1 < i  BY <2>1, <4>2
      <4>4. of(i - 1) <= r /\ of(i - 1) \in Nat  BY <2>6, <4>3
      <4>5. Key(s[Len(s)]) # r  BY <2>12, <4>1 DEF Key, Book!Last
      <4>6. Key(s[c]) <= Key(s[Len(s)])
        <5>1. c = Len(s) \/ c < Len(s)  BY <3>1
        <5>2. Key(s[c]) \in Nat /\ Key(s[Len(s)]) \in Nat  BY <2>15, <4>1
        <5>3. c < Len(s) => Key(s[c]) < Key(s[Len(s)])  BY <2>16, <4>1
        <5> QED  BY <5>1, <5>2, <5>3
      <4>7. Key(s[c]) \in Nat  BY <2>15
      <4> QED  BY <2>7, <4>2, <4>4, <4>5, <4>6, <4>7
    <3>3. \A c \in 1 .. Len(t) : c = Len(s) + 1 \/ c \in 1 .. Len(s)  BY <3>1
    <3>4. Keyed(t)  BY <2>7, <2>8, <2>10, <3>1, <3>3
    <3>5. Rising(t)
      <4>1. ASSUME NEW a \in 1 .. Len(t), NEW b \in 1 .. Len(t), a < b
            PROVE  Key(t[a]) < Key(t[b])
        <5>1. a \in 1 .. Len(s)  BY <3>1, <4>1
        <5>2. CASE b \in 1 .. Len(s)  BY <2>8, <3>1, <4>1, <5>1, <5>2
        <5>3. CASE b = Len(s) + 1  BY <2>10, <3>1, <3>2, <5>1, <5>3
        <5> QED  BY <3>3, <5>2, <5>3
      <4> QED  BY <4>1
    <3>6. Ends(t, i)
      <4>1. t # <<>>  BY <3>1
      <4> QED  BY <2>1, <2>6, <2>10, <3>1, <4>1
    <3>7. Holds(t, w[i])
      <4>1. CASE r = row
        <5>1. \A c \in 1 .. Len(s) : Key(s[c]) # row
          <6>1. \A c \in 1 .. Len(s) : Key(s[c]) \in Nat /\ Key(s[c]) < r  BY <2>8, <3>2
          <6> QED  BY <2>7, <4>1, <6>1
        <5>2. x = <<>>  BY <2>8, <5>1
        <5>3. w[i] = <<u>>  BY <2>7, <4>1, <5>2
        <5>4. Len(s) + 1 \in 1 .. Len(t)  BY <3>1
        <5> QED  BY <2>10, <3>1, <4>1, <5>3, <5>4
      <4>2. CASE r # row
        <5>1. w[i] = x  BY <2>7, <4>2
        <5>2. CASE x = <<>> /\ \A c \in 1 .. Len(s) : Key(s[c]) # row
          <6>1. \A c \in 1 .. Len(t) : Key(t[c]) # row  BY <2>10, <3>1, <3>3, <4>2, <5>2
          <6> QED  BY <5>1, <5>2, <6>1
        <5>3. ASSUME NEW c \in 1 .. Len(s), Key(s[c]) = row, s[c] = x PROVE Holds(t, x)
          <6>1. c \in 1 .. Len(t)  BY <3>1
          <6> QED  BY <3>1, <5>3, <6>1
        <5> QED  BY <2>8, <5>1, <5>2, <5>3
      <4> QED  BY <4>1, <4>2
    <3> HIDE DEF Keyed, Rising, Ends, Holds
    <3> QED  BY <2>1, <2>3, <3>4, <3>5, <3>6, <3>7
  <2> HIDE DEF P
  <2>13. \/ /\ s # <<>> /\ Book!Chapter(u) = Book!Chapter(Head(Book!Last(s)))
            /\ \E m, last : Extends(Urls, s, <<u>>, Book!Grouped(s, u), m, last)
         \/ /\ s # <<>> => Book!Chapter(u) # Book!Chapter(Head(Book!Last(s)))
            /\ Book!Grouped(s, u) = Append(s, <<u>>)
    BY <2>7, GroupedIs
  <2>14. r = Book!Chapter(u)  BY <2>7
  <2> QED  BY <2>9, <2>11, <2>12, <2>13, <2>14
<1>8. n \in P
  <2>1. n \in 0 .. n  BY <1>1
  <2> HIDE DEF P, n
  <2>2. \A i \in 0 .. n : i \in P  BY <1>1, <1>6, <1>7, AllReached
  <2> QED  BY <2>1, <2>2
<1>9. Holds(h[n], w[n])  BY <1>8
<1>10. h[n] = Book!Chapters(articles) /\ w[n] = Book!Within(articles, row)  BY <1>4, <1>5
<1> QED  BY <1>9, <1>10

\* What two sequences hold, their concatenation holds.
LEMMA HeldBoth ==
    ASSUME NEW S, NEW a \in Seq(S), NEW b \in Seq(S)
    PROVE  /\ Book!ToSet(a) \subseteq Book!ToSet(a \o b)
           /\ Book!ToSet(b) \subseteq Book!ToSet(a \o b)
<1>1. PICK both : both = a \o b  OBVIOUS
<1>2. /\ both \in Seq(S) /\ Len(both) = Len(a) + Len(b) /\ Len(a) \in Nat /\ Len(b) \in Nat
      /\ \A i \in 1 .. Len(a) + Len(b) : both[i] = IF i <= Len(a) THEN a[i] ELSE b[i - Len(a)]
  BY <1>1, ConcatProperties
<1>3. ASSUME NEW i \in 1 .. Len(a) PROVE i \in 1 .. Len(both) /\ both[i] = a[i]
  BY <1>2
<1>4. ASSUME NEW i \in 1 .. Len(b)
      PROVE  Len(a) + i \in 1 .. Len(both) /\ both[Len(a) + i] = b[i]
  <2>1. Len(a) + i \in 1 .. Len(a) + Len(b) /\ ~(Len(a) + i <= Len(a)) /\ (Len(a) + i) - Len(a) = i
    BY <1>2
  <2> QED  BY <1>2, <2>1
<1>5. DOMAIN a = 1 .. Len(a) /\ DOMAIN b = 1 .. Len(b) /\ DOMAIN both = 1 .. Len(both)
  BY <1>2
<1> QED  BY <1>1, <1>3, <1>4, <1>5 DEF Book!ToSet

\* The pieces one after another are a sequence.
LEMMA FlatIs ==
    ASSUME NEW S, NEW parts \in Seq(Seq(S)) PROVE Book!FlattenSeq(parts) \in Seq(S)
<1>1. PICK f : Joins(S, parts, f)  BY JoinsExist
<1> QED  BY <1>1, JoinsFlatten

\* A chapter more: it comes last, and no file that held something loses it.
Fits(s, by, limit) ==
    \A k \in 1 .. Len(s) : Book!Total(s[k], by) <= limit \/ Len(s[k]) = 1
Added(s, chapter, by, limit, t) ==
    /\ t \in Seq(Seq(Urls)) /\ t # <<>>
    /\ Book!FlattenSeq(t) = Book!FlattenSeq(s) \o chapter
    /\ Fits(s, by, limit) => Fits(t, by, limit)
    /\ \A k \in 1 .. Len(s) : k \in 1 .. Len(t) /\ Book!ToSet(s[k]) \subseteq Book!ToSet(t[k])
    /\ Book!Total(chapter, by) <= limit =>
          \E k \in 1 .. Len(t) : Book!ToSet(chapter) \subseteq Book!ToSet(t[k])

\* AddChapter does so, into the open file, into a new one or over several.
LEMMA AddedIs ==
    ASSUME ArticlesAre, NEW s \in Seq(Seq(Urls)), s # <<>>, NEW chapter \in Seq(Urls),
           NEW by, NEW limit \in Nat
    PROVE  Added(s, chapter, by, limit, Book!AddChapter(s, chapter, by, limit))
<1>1. PICK t : t = Book!AddChapter(s, chapter, by, limit)  OBVIOUS
<1>2. Len(s) \in Nat /\ Len(s) >= 1  OBVIOUS
<1>3. Book!FlattenSeq(s) \in Seq(Urls)  BY FlatIs
<1>4. CASE Book!Total(Book!Last(s) \o chapter, by) <= limit
  <2>1. t = Book!Extended(s, chapter)  BY <1>1, <1>4 DEF Book!AddChapter
  <2>2. PICK m, last : Extends(Urls, s, chapter, t, m, last)  BY <2>1, ExtendedAre
  <2>3. /\ t \in Seq(Seq(Urls)) /\ m \in Nat /\ last \in Seq(Urls)
        /\ m = Len(s) /\ m = Len(t) /\ m >= 1
        /\ last = Book!Last(s) /\ last = s[m]
        /\ \A k \in 1 .. m - 1 : t[k] = s[k]
        /\ t[m] = last \o chapter
        /\ Book!FlattenSeq(t) = Book!FlattenSeq(s) \o chapter
    BY <2>2 DEF Extends
  <2>4. t # <<>> /\ m \in 1 .. Len(t) /\ \A k \in 1 .. m : k = m \/ k \in 1 .. m - 1  BY <2>3
  <2>5. Book!ToSet(s[m]) \subseteq Book!ToSet(t[m]) /\ Book!ToSet(chapter) \subseteq Book!ToSet(t[m])
    BY <2>3, HeldBoth
  <2>6. Fits(s, by, limit) => Fits(t, by, limit)
    <3>1. Book!Total(t[m], by) <= limit  BY <1>4, <2>3
    <3> QED  BY <2>3, <2>4, <3>1 DEF Fits
  <2>7. \A k \in 1 .. Len(s) : k \in 1 .. Len(t) /\ Book!ToSet(s[k]) \subseteq Book!ToSet(t[k])
    BY <2>3, <2>4, <2>5
  <2> QED  BY <1>1, <2>3, <2>4, <2>5, <2>6, <2>7 DEF Added
<1>5. CASE ~(Book!Total(Book!Last(s) \o chapter, by) <= limit) /\ Book!Total(chapter, by) > limit
  <2>1. PICK fs : fs = Book!SplitArticles(chapter, by, limit)  OBVIOUS
  <2>2. /\ fs \in Seq(Seq(Urls)) /\ Book!FlattenSeq(fs) = chapter
        /\ \A k \in 1 .. Len(fs) : Book!Total(fs[k], by) <= limit \/ Len(fs[k]) = 1
    BY <2>1, PackedAre
  <2>3. PICK both : both = s \o fs  OBVIOUS
  <2>4. /\ both \in Seq(Seq(Urls)) /\ Len(both) = Len(s) + Len(fs) /\ Len(fs) \in Nat
        /\ \A k \in 1 .. Len(s) + Len(fs) : both[k] = IF k <= Len(s) THEN s[k] ELSE fs[k - Len(s)]
    BY <2>2, <2>3, ConcatProperties
  <2>5. <<>> \in Seq(Urls)  OBVIOUS
  <2>6. t = Append(both, <<>>)  BY <1>1, <1>5, <2>1, <2>3 DEF Book!AddChapter
  <2>7. /\ t \in Seq(Seq(Urls)) /\ Len(t) = Len(both) + 1 /\ t[Len(both) + 1] = <<>>
        /\ \A k \in 1 .. Len(both) : t[k] = both[k]
    <3>1. PICK none \in Seq(Urls) : none = <<>>  BY <2>5
    <3>2. t = Append(both, none)  BY <2>6, <3>1
    <3>3. t \in Seq(Seq(Urls)) /\ Len(t) = Len(both) + 1 /\ t[Len(both) + 1] = none
      BY <2>4, <3>1, <3>2, AppendProperties
    <3>4. \A k \in 1 .. Len(both) : t[k] = both[k]
      BY <2>4, <3>1, <3>2, AppendProperties
    <3> QED  BY <3>1, <3>3, <3>4
  <2>12. PICK a \in Nat, b \in Nat : /\ a = Len(s) /\ b = Len(fs)
                                     /\ Len(both) = a + b /\ Len(t) = a + b + 1
    BY <1>2, <2>4, <2>7
  <2>8. Book!FlattenSeq(t) = Book!FlattenSeq(s) \o chapter
    <3>1. Book!FlattenSeq(both) = Book!FlattenSeq(s) \o chapter  BY <2>2, <2>3, FlatConcat
    <3>2. Book!FlattenSeq(t) = Book!FlattenSeq(both) \o <<>>  BY <2>4, <2>5, <2>6, FlatAppend
    <3>3. Book!FlattenSeq(both) \in Seq(Urls)  BY <2>4, FlatIs
    <3>4. Book!FlattenSeq(both) \o <<>> = Book!FlattenSeq(both)  BY <3>3, ConcatEmptySeq
    <3> QED  BY <3>1, <3>2, <3>4
  <2>9. ASSUME Fits(s, by, limit) PROVE Fits(t, by, limit)
    <3>1. ASSUME NEW k \in 1 .. Len(t) PROVE Book!Total(t[k], by) <= limit \/ Len(t[k]) = 1
      <4>1. CASE k = Len(both) + 1
        <5>1. Book!Total(<<>>, by) <= limit  BY NoneMeasure0
        <5> QED  BY <2>7, <4>1, <5>1
      <4>2. CASE k \in 1 .. Len(s)
        <5>1. k \in 1 .. Len(both) /\ k <= Len(s) /\ k \in 1 .. Len(s) + Len(fs)
          BY <2>12, <4>2
        <5>3. t[k] = s[k]  BY <2>4, <2>7, <5>1
        <5> QED  BY <2>9, <4>2, <5>3 DEF Fits
      <4>3. CASE k # Len(both) + 1 /\ k \notin 1 .. Len(s)
        <5>1. /\ k - Len(s) \in 1 .. Len(fs) /\ k \in 1 .. Len(both) /\ ~(k <= Len(s))
              /\ k \in 1 .. Len(s) + Len(fs)
          <6>1. k \in 1 .. a + b + 1 /\ k # a + b + 1 /\ k \notin 1 .. a  BY <2>12, <4>3
          <6>3. a \in Nat /\ b \in Nat  BY <2>12
          <6>4. k \in Int /\ k >= 1 /\ k <= a + b  BY <6>1, <6>3
          <6>5. ~(k <= a)  BY <6>1, <6>3, <6>4
          <6>2. k \in 1 .. a + b /\ ~(k <= a) /\ k - a \in 1 .. b  BY <6>3, <6>4, <6>5
          <6> QED  BY <2>12, <6>2
        <5>2. t[k] = fs[k - Len(s)]  BY <2>4, <2>7, <5>1
        <5> QED  BY <2>2, <5>1, <5>2
      <4> QED  BY <4>1, <4>2, <4>3
    <3> QED  BY <3>1 DEF Fits
  <2>10. ASSUME NEW k \in 1 .. Len(s)
         PROVE  k \in 1 .. Len(t) /\ Book!ToSet(s[k]) \subseteq Book!ToSet(t[k])
    <3>1. /\ k \in 1 .. Len(t) /\ k \in 1 .. Len(both) /\ k <= Len(s)
          /\ k \in 1 .. Len(s) + Len(fs)
      BY <2>12
    <3>2. t[k] = s[k]  BY <2>4, <2>7, <3>1
    <3> QED  BY <3>1, <3>2
  <2>11. t # <<>> /\ ~(Book!Total(chapter, by) <= limit)
    <3>1. Book!Total(chapter, by) \in Nat  BY TotalIs
    <3>2. t # <<>>  BY <1>2, <2>4, <2>7
    <3> QED  BY <1>5, <3>1, <3>2
  <2> QED  BY <1>1, <2>7, <2>8, <2>9, <2>10, <2>11 DEF Added
<1>6. CASE ~(Book!Total(Book!Last(s) \o chapter, by) <= limit) /\ ~(Book!Total(chapter, by) > limit)
  <2>1. t = Append(s, chapter)  BY <1>1, <1>6 DEF Book!AddChapter
  <2>2. /\ t \in Seq(Seq(Urls)) /\ Len(t) = Len(s) + 1 /\ t[Len(s) + 1] = chapter
        /\ \A k \in 1 .. Len(s) : t[k] = s[k]
    BY <2>1
  <2>3. Book!FlattenSeq(t) = Book!FlattenSeq(s) \o chapter  BY <2>1, FlatAppend
  <2>4. Book!Total(chapter, by) <= limit
    <3>1. Book!Total(chapter, by) \in Nat  BY TotalIs
    <3> QED  BY <1>6, <3>1
  <2>5. /\ t # <<>> /\ Len(s) + 1 \in 1 .. Len(t)
        /\ \A k \in 1 .. Len(t) : k = Len(s) + 1 \/ k \in 1 .. Len(s)
        /\ \A k \in 1 .. Len(s) : k \in 1 .. Len(t)
    BY <1>2, <2>2
  <2>6. Fits(s, by, limit) => Fits(t, by, limit)  BY <2>2, <2>4, <2>5 DEF Fits
  <2> QED  BY <1>1, <2>2, <2>3, <2>5, <2>6 DEF Added
<1> QED  BY <1>4, <1>5, <1>6

\* Without the empty files nothing is lost.
LEMMA FlushedAre ==
    ASSUME NEW S, NEW files \in Seq(Seq(S))
    PROVE  LET out == Book!Flushed(files)
           IN  /\ out \in Seq(Seq(S))
               /\ Book!FlattenSeq(out) = Book!FlattenSeq(files)
               /\ \A a \in 1 .. Len(out) : out[a] # <<>> /\ \E k \in 1 .. Len(files) : out[a] = files[k]
               /\ \A k \in 1 .. Len(files) :
                     files[k] # <<>> => \E a \in 1 .. Len(out) : out[a] = files[k]
<1> DEFINE n == Len(files)
           T == Seq(Seq(S))
           Taken(s, k) == IF files[k] # <<>> THEN Append(s, files[k]) ELSE s
           Rebuilt(f) == f = [k \in 0 .. n |-> IF k = 0 THEN <<>> ELSE Taken(f[k - 1], k)]
<1>1. n \in Nat /\ <<>> \in T /\ \A k \in 1 .. n : files[k] \in Seq(S)  OBVIOUS
<1>2. \A s \in T, k \in 1 .. n : Taken(s, k) \in T  BY <1>1
<1>3. \E f : Rebuilt(f)
  <2> HIDE DEF T, n, Taken
  <2>1. PICK step : step = [p \in 1 .. n |-> [x \in T |-> Taken(x, p)]]  OBVIOUS
  <2>2. step \in [1 .. n -> [T -> T]]  BY <1>2, <2>1
  <2>3. PICK f : Passes(T, n, <<>>, step, f)
    <3> HIDE DEF Rebuilt
    <3> QED  BY <1>1, <2>2, PassIs
  <2>4. Rebuilt(f)
    <3>1. ASSUME NEW i \in 1 .. n PROVE f[i - 1] \in T /\ f[i] = Taken(f[i - 1], i)
      <4>1. i - 1 \in 0 .. n  BY <1>1
      <4>2. f[i - 1] \in T /\ f[i] = step[i][f[i - 1]]  BY <2>3, <4>1 DEF Passes
      <4> QED  BY <2>1, <4>2
    <3> QED  BY <2>3, <3>1 DEF Passes
  <2> HIDE DEF Rebuilt
  <2> QED  BY <2>4
<1>4. PICK h : Rebuilt(h) /\ Book!Flushed(files) = h[n]
  <2>1. Book!Flushed(files) = (CHOOSE g : Rebuilt(g))[n]
    BY DEF Book!Flushed
  <2> HIDE DEF Rebuilt
  <2> QED  BY <1>3, <2>1
<1>5. h[0] = <<>> /\ \A k \in 1 .. n : h[k] = Taken(h[k - 1], k)
  <2> HIDE DEF n, Taken
  <2> QED  BY <1>1, <1>4
<1>6. PICK f : Joins(S, files, f)  BY JoinsExist
<1>7. /\ f \in [0 .. n -> Seq(S)] /\ f[0] = <<>>
      /\ \A i \in 1 .. n : f[i] = f[i - 1] \o files[i]
  BY <1>6 DEF Joins
<1> DEFINE Right(s, i) ==
              /\ s \in T /\ Book!FlattenSeq(s) = f[i]
              /\ \A a \in 1 .. Len(s) : s[a] # <<>> /\ \E k \in 1 .. i : s[a] = files[k]
              /\ \A k \in 1 .. i : files[k] # <<>> => \E a \in 1 .. Len(s) : s[a] = files[k]
           P == {i \in 0 .. n : Right(h[i], i)}
<1>8. 0 \in P
  <2>1. h[0] = <<>> /\ 0 \in 0 .. n /\ Len(<<>>) = 0  BY <1>1, <1>5
  <2>2. <<>> \in T /\ Book!FlattenSeq(<<>>) = f[0]  BY <1>1, <1>7, FlatEmpty
  <2>3. 1 .. 0 = {}  OBVIOUS
  <2>4. Right(<<>>, 0)
    <3> HIDE DEF T
    <3> QED  BY <2>1, <2>2, <2>3
  <2> HIDE DEF Right
  <2> QED  BY <2>1, <2>4
<1>9. ASSUME NEW i \in 1 .. n, i - 1 \in P PROVE i \in P
  <2>1. PICK s : s = h[i - 1]  OBVIOUS
  <2>2. Right(s, i - 1)  BY <1>9, <2>1
  <2>3. /\ i \in Nat /\ i >= 1 /\ i \in 0 .. n /\ i \in 1 .. i /\ i - 1 \in 0 .. n
        /\ \A k \in 1 .. i : k = i \/ k \in 1 .. i - 1
        /\ \A k \in 1 .. i - 1 : k \in 1 .. i
    BY <1>1
  <2>4. h[i] = Taken(s, i)  BY <1>5, <2>1
  <2>5. f[i] = f[i - 1] \o files[i] /\ f[i - 1] \in Seq(S)  BY <1>7, <2>3
  <2>6. CASE files[i] = <<>>
    <3>1. h[i] = s  BY <2>4, <2>6
    <3>2. f[i] = f[i - 1]  BY <2>5, <2>6, ConcatEmptySeq
    <3>3. Right(s, i)  BY <2>2, <2>3, <2>6, <3>2
    <3> HIDE DEF Right
    <3> QED  BY <2>3, <3>1, <3>3
  <2>7. CASE files[i] # <<>>
    <3>1. PICK g : g = Append(s, files[i])  OBVIOUS
    <3>2. h[i] = g  BY <2>4, <2>7, <3>1
    <3>3. files[i] \in Seq(S)  BY <1>1
    <3>4. /\ g \in T /\ Len(g) = Len(s) + 1 /\ g[Len(s) + 1] = files[i] /\ Len(s) \in Nat
          /\ \A a \in 1 .. Len(s) : g[a] = s[a]
      BY <2>2, <3>1, <3>3
    <3>5. Book!FlattenSeq(g) = f[i]
      <4>1. s \in Seq(Seq(S)) /\ Book!FlattenSeq(s) = f[i - 1]  BY <2>2
      <4> HIDE DEF T, Right, Taken, Rebuilt, P, n
      <4>2. Book!FlattenSeq(Append(s, files[i])) = Book!FlattenSeq(s) \o files[i]
        BY <3>3, <4>1, FlatAppend
      <4> QED  BY <2>5, <3>1, <4>1, <4>2
    <3>6. \A a \in 1 .. Len(g) : a = Len(s) + 1 \/ a \in 1 .. Len(s)  BY <3>4
    <3>7. ASSUME NEW a \in 1 .. Len(g)
          PROVE  g[a] # <<>> /\ \E k \in 1 .. i : g[a] = files[k]
      <4>1. CASE a = Len(s) + 1  BY <2>3, <2>7, <3>4, <4>1
      <4>2. CASE a \in 1 .. Len(s)
        <5>1. s[a] # <<>> /\ \E k \in 1 .. i - 1 : s[a] = files[k]  BY <2>2, <4>2
        <5> QED  BY <2>3, <3>4, <4>2, <5>1
      <4> QED  BY <3>6, <4>1, <4>2
    <3>8. ASSUME NEW k \in 1 .. i, files[k] # <<>>
          PROVE  \E a \in 1 .. Len(g) : g[a] = files[k]
      <4>1. CASE k = i
        <5>1. Len(s) + 1 \in 1 .. Len(g)  BY <3>4
        <5> QED  BY <3>4, <4>1, <5>1
      <4>2. CASE k \in 1 .. i - 1
        <5>1. PICK a \in 1 .. Len(s) : s[a] = files[k]  BY <2>2, <3>8, <4>2
        <5>2. a \in 1 .. Len(g)  BY <3>4
        <5> QED  BY <3>4, <5>1, <5>2
      <4> QED  BY <2>3, <4>1, <4>2
    <3>9. Right(g, i)  BY <3>4, <3>5, <3>7, <3>8
    <3> HIDE DEF Right
    <3> QED  BY <2>3, <3>2, <3>9
  <2> QED  BY <2>6, <2>7
<1>10. n \in P
  <2>1. n \in 0 .. n  BY <1>1
  <2> HIDE DEF P, n
  <2>2. \A i \in 0 .. n : i \in P  BY <1>1, <1>8, <1>9, AllReached
  <2> QED  BY <2>1, <2>2
<1>11. Book!FlattenSeq(files) = f[n]  BY <1>6, JoinsFlatten
<1>12. PICK out : out = Book!Flushed(files)  OBVIOUS
<1>13. Right(out, n)
  <2>1. Right(h[n], n) /\ out = h[n]
    <3> HIDE DEF Right
    <3> QED  BY <1>4, <1>10, <1>12
  <2> QED  BY <2>1
<1> QED  BY <1>11, <1>12, <1>13

\* An export by chapters: the files hold the articles, and a small chapter is in one.
LEMMA ByChapterAre ==
    ASSUME ArticlesAre, NEW articles \in Seq(Urls), NEW by, NEW limit \in Nat
    PROVE  LET files    == Book!SplitByChapter(articles, by, limit)
               chapters == Book!Chapters(articles)
           IN  /\ files \in Seq(Seq(Urls)) /\ Book!FlattenSeq(files) = articles
               /\ \A k \in 1 .. Len(files) : files[k] # <<>>
               /\ Fits(files, by, limit)
               /\ \A c \in 1 .. Len(chapters) :
                     Book!Total(chapters[c], by) <= limit =>
                        \/ chapters[c] = <<>>
                        \/ \E k \in 1 .. Len(files) :
                              Book!ToSet(chapters[c]) \subseteq Book!ToSet(files[k])
<1>1. PICK chapters : chapters = Book!Chapters(articles)  OBVIOUS
<1>2. chapters \in Seq(Seq(Urls)) /\ Book!FlattenSeq(chapters) = articles
  BY <1>1, ChaptersAre
<1> DEFINE n == Len(chapters)
           none == << <<>> >>
           T == Seq(Seq(Urls)) \ {<<>>}
           Taken(s, c) == Book!AddChapter(s, chapters[c], by, limit)
           Rebuilt(f) == f = [c \in 0 .. n |-> IF c = 0 THEN none ELSE Taken(f[c - 1], c)]
<1>3. n \in Nat /\ none \in T /\ \A c \in 1 .. n : chapters[c] \in Seq(Urls)
  BY <1>2
<1>4. \A s \in T, c \in 1 .. n : Added(s, chapters[c], by, limit, Taken(s, c))
  <2>1. ASSUME NEW s \in T, NEW c \in 1 .. n
        PROVE  Added(s, chapters[c], by, limit, Taken(s, c))
    BY <1>3, AddedIs
  <2> QED  BY <2>1
<1> HIDE DEF Taken
<1>5. \A s \in T, c \in 1 .. n : Taken(s, c) \in T  BY <1>4 DEF Added
<1>6. \E f : Rebuilt(f)
  <2> HIDE DEF T, n, none
  <2>1. PICK step : step = [p \in 1 .. n |-> [x \in T |-> Taken(x, p)]]  OBVIOUS
  <2>2. step \in [1 .. n -> [T -> T]]  BY <1>5, <2>1
  <2>3. PICK f : Passes(T, n, none, step, f)
    <3> HIDE DEF Rebuilt
    <3> QED  BY <1>3, <2>2, PassIs
  <2>4. Rebuilt(f)
    <3>1. ASSUME NEW i \in 1 .. n PROVE f[i - 1] \in T /\ f[i] = Taken(f[i - 1], i)
      <4>1. i - 1 \in 0 .. n  BY <1>3
      <4>2. f[i - 1] \in T /\ f[i] = step[i][f[i - 1]]  BY <2>3, <4>1 DEF Passes
      <4> QED  BY <2>1, <4>2
    <3> QED  BY <2>3, <3>1 DEF Passes
  <2> HIDE DEF Rebuilt
  <2> QED  BY <2>4
<1>7. PICK h : Rebuilt(h) /\ Book!SplitByChapter(articles, by, limit) = Book!Flushed(h[n])
  <2>1. PICK all : all = (CHOOSE g : Rebuilt(g))  OBVIOUS
  <2>2. Book!SplitByChapter(articles, by, limit) = Book!Flushed(all[n])
    BY <1>1, <2>1 DEF Book!SplitByChapter, Taken
  <2> HIDE DEF Rebuilt
  <2>3. Rebuilt(all)  BY <1>6, <2>1
  <2> QED  BY <2>2, <2>3
<1>8. h[0] = none /\ \A c \in 1 .. n : h[c] = Taken(h[c - 1], c)
  <2> HIDE DEF n, none
  <2> QED  BY <1>3, <1>7
<1> HIDE DEF Rebuilt
<1>9. PICK f : Joins(Urls, chapters, f)  BY <1>2, JoinsExist
<1>10. /\ f \in [0 .. n -> Seq(Urls)] /\ f[0] = <<>>
       /\ \A c \in 1 .. n : f[c] = f[c - 1] \o chapters[c]
  BY <1>9 DEF Joins
<1> DEFINE Within1(x, t) == \E k \in 1 .. Len(t) : Book!ToSet(x) \subseteq Book!ToSet(t[k])
           Right(s, c) ==
              /\ s \in T /\ Book!FlattenSeq(s) = f[c] /\ Fits(s, by, limit)
              /\ \A d \in 1 .. c : Book!Total(chapters[d], by) <= limit => Within1(chapters[d], s)
           P == {c \in 0 .. n : Right(h[c], c)}
<1>11. 0 \in P
  <2>2. none \in Seq(Seq(Urls)) /\ none # <<>> /\ Len(none) = 1 /\ none[1] = <<>>  OBVIOUS
  <2>3. Book!FlattenSeq(none) = f[0]
    <3>1. <<>> \in Seq(Seq(Urls)) /\ <<>> \in Seq(Urls)  OBVIOUS
    <3>2. Book!FlattenSeq(Append(<<>>, <<>>)) = Book!FlattenSeq(<<>>) \o <<>>
      BY <3>1, FlatAppend
    <3>3. Append(<<>>, <<>>) = none  OBVIOUS
    <3>4. <<>> \o <<>> = <<>>  BY <3>1, ConcatEmptySeq
    <3> QED  BY <1>10, <3>2, <3>3, <3>4, FlatEmpty
  <2>4. Fits(none, by, limit)
    <3>1. Book!Total(<<>>, by) <= limit  BY NoneMeasure0
    <3>2. \A k \in 1 .. Len(none) : none[k] = <<>>  BY <2>2
    <3> QED  BY <3>1, <3>2 DEF Fits
  <2>5. 1 .. 0 = {} /\ 0 \in 0 .. n  BY <1>3
  <2>6. Right(none, 0)
    <3> HIDE DEF n, Within1, none
    <3> QED  BY <2>2, <2>3, <2>4, <2>5
  <2> HIDE DEF Right
  <2> QED  BY <1>8, <2>5, <2>6
<1>12. ASSUME NEW c \in 1 .. n, c - 1 \in P PROVE c \in P
  <2>1. PICK s : s = h[c - 1]  OBVIOUS
  <2>2. Right(s, c - 1)  BY <1>12, <2>1
  <2>3. /\ c \in 0 .. n /\ \A d \in 1 .. c : d = c \/ d \in 1 .. c - 1
    BY <1>3
  <2>4. PICK t : t = Taken(s, c)  OBVIOUS
  <2>5. h[c] = t  BY <1>8, <2>1, <2>4
  <2>6. PICK x : x = chapters[c]  OBVIOUS
  <2>7. Added(s, x, by, limit, t)  BY <1>4, <2>2, <2>4, <2>6
  <2>8. /\ t \in T /\ Book!FlattenSeq(t) = f[c] /\ Fits(t, by, limit)
    BY <1>10, <2>2, <2>6, <2>7 DEF Added
  <2>9. ASSUME NEW d \in 1 .. c, Book!Total(chapters[d], by) <= limit
        PROVE  Within1(chapters[d], t)
    <3>1. CASE d = c  BY <2>6, <2>7, <2>9, <3>1 DEF Added
    <3>2. CASE d \in 1 .. c - 1
      <4>1. PICK k \in 1 .. Len(s) : Book!ToSet(chapters[d]) \subseteq Book!ToSet(s[k])
        BY <2>2, <2>9, <3>2
      <4>2. k \in 1 .. Len(t) /\ Book!ToSet(s[k]) \subseteq Book!ToSet(t[k])
        BY <2>7, <4>1 DEF Added
      <4> QED  BY <4>1, <4>2
    <3> QED  BY <2>3, <3>1, <3>2
  <2>10. Right(t, c)
    <3> HIDE DEF T, Within1
    <3> QED  BY <2>8, <2>9
  <2> HIDE DEF Right
  <2> QED  BY <2>3, <2>5, <2>10
<1>13. Right(h[n], n)
  <2>1. n \in 0 .. n  BY <1>3
  <2> HIDE DEF P, n
  <2>2. \A c \in 0 .. n : c \in P  BY <1>3, <1>11, <1>12, AllReached
  <2>3. n \in P  BY <2>1, <2>2
  <2> QED  BY <2>3 DEF P
<1>14. PICK s : s = h[n]  OBVIOUS
<1>15. PICK files : files = Book!SplitByChapter(articles, by, limit)  OBVIOUS
<1>16. Right(s, n) /\ files = Book!Flushed(s)  BY <1>7, <1>13, <1>14, <1>15
<1>17. Book!FlattenSeq(s) = articles
  <2>1. Book!FlattenSeq(chapters) = f[n]  BY <1>2, <1>9, JoinsFlatten
  <2> QED  BY <1>2, <1>16, <2>1
<1>18. /\ files \in Seq(Seq(Urls)) /\ Book!FlattenSeq(files) = articles
       /\ \A a \in 1 .. Len(files) : files[a] # <<>> /\ \E k \in 1 .. Len(s) : files[a] = s[k]
       /\ \A k \in 1 .. Len(s) : s[k] # <<>> => \E a \in 1 .. Len(files) : files[a] = s[k]
  <2>1. s \in Seq(Seq(Urls))  BY <1>16
  <2> QED  BY <1>16, <1>17, <2>1, FlushedAre
<1>19. Fits(files, by, limit)  BY <1>16, <1>18 DEF Fits
<1>20. ASSUME NEW c \in 1 .. n, Book!Total(chapters[c], by) <= limit, chapters[c] # <<>>
       PROVE  Within1(chapters[c], files)
  <2>1. PICK x : x = chapters[c]  OBVIOUS
  <2>2. PICK k \in 1 .. Len(s) : Book!ToSet(x) \subseteq Book!ToSet(s[k])  BY <1>16, <1>20, <2>1
  <2>3. s[k] # <<>>
    <3>1. x \in Seq(Urls) /\ x # <<>>  BY <1>3, <1>20, <2>1
    <3>2. 1 \in DOMAIN x  BY <3>1
    <3>3. x[1] \in Book!ToSet(x)  BY <3>2 DEF Book!ToSet
    <3>4. Book!ToSet(<<>>) = {}
      <4>1. DOMAIN <<>> = {}  OBVIOUS
      <4> QED  BY <4>1 DEF Book!ToSet
    <3> QED  BY <2>2, <3>3, <3>4
  <2>4. PICK a \in 1 .. Len(files) : files[a] = s[k]  BY <1>18, <2>2, <2>3
  <2> QED  BY <2>1, <2>2, <2>4
<1> QED
  <2>1. /\ files \in Seq(Seq(Urls)) /\ Book!FlattenSeq(files) = articles
        /\ \A k \in 1 .. Len(files) : files[k] # <<>>
        /\ Fits(files, by, limit)
    BY <1>18, <1>19
  <2>2. \A c \in 1 .. Len(chapters) :
           Book!Total(chapters[c], by) <= limit =>
              \/ chapters[c] = <<>>
              \/ \E k \in 1 .. Len(files) :
                    Book!ToSet(chapters[c]) \subseteq Book!ToSet(files[k])
    BY <1>20
  <2> QED  BY <1>1, <1>15, <2>1, <2>2

\* The entries that a discovery finds, depth first; the page that encloses one is that of
\* the last entry one level up.
BookEntry == [url : Urls \cup {NoUrl}, level : Nat, parent : Urls \cup {NoUrl}]
DepthFirst ==
    \A i \in 1 .. Len(found) :
        IF i = 1 THEN found[i].level = 0 ELSE found[i].level <= found[i - 1].level + 1
Encloses(j, i) ==
    /\ found[j].level + 1 = found[i].level
    /\ \A k \in j + 1 .. i - 1 : found[k].level + 1 # found[i].level
Enclosed ==
    \A i \in 1 .. Len(found) : found[i].parent # NoUrl =>
        \E j \in 1 .. i - 1 : found[j].url = found[i].parent /\ Encloses(j, i)
FoundRight == found \in Seq(BookEntry) /\ DepthFirst /\ Enclosed

\* A discovery goes on depth first, and names the page that encloses an entry.
LEMMA FoundGrows ==
    ASSUME FoundRight, NEW url \in Urls \cup {NoUrl}, NEW level \in Nat,
           Book!Discover(url, level)
    PROVE  FoundRight'
<1>1. found \in Seq(BookEntry) /\ DepthFirst /\ Enclosed  BY DEF FoundRight
<1> DEFINE n == Len(found)
           above == {i \in 1 .. n : found[i].level + 1 = level}
<1>2. n \in Nat /\ \A i \in 1 .. n : found[i] \in BookEntry /\ found[i].level \in Nat
  <2>1. n \in Nat /\ \A i \in 1 .. n : found[i] \in BookEntry  BY <1>1
  <2>2. \A e \in BookEntry : e.level \in Nat  BY DEF BookEntry
  <2> QED  BY <2>1, <2>2
<1>3. PICK enclosing : enclosing = Book!Enclosing(level)  OBVIOUS
<1>4. \/ enclosing = NoUrl
      \/ \E m \in 1 .. n : /\ found[m].level + 1 = level /\ enclosing = found[m].url
                           /\ \A k \in m + 1 .. n : found[k].level + 1 # level
  <2>1. enclosing = IF above = {} THEN NoUrl
                    ELSE found[CHOOSE i \in above : \A j \in above : j <= i].url
    <3>1. DOMAIN found = 1 .. n  BY <1>1
    <3> QED  BY <1>3, <3>1 DEF Book!Enclosing
  <2>2. CASE above = {}  BY <2>1, <2>2
  <2>3. CASE above # {}
    <3>1. PICK m : m = (CHOOSE i \in above : \A j \in above : j <= i)  OBVIOUS
    <3>2. \E i \in above : \A j \in above : j <= i
      <4>1. above \in SUBSET (0 .. n)  BY <1>2
      <4> HIDE DEF above, n
      <4> QED  BY <1>2, <2>3, <4>1, GreatestOf
    <3>3. m \in above /\ \A j \in above : j <= m
      <4> HIDE DEF above
      <4> QED  BY <3>1, <3>2
    <3>4. enclosing = found[m].url  BY <2>1, <2>3, <3>1
    <3>5. \A k \in m + 1 .. n : found[k].level + 1 # level  BY <1>2, <3>3
    <3> QED  BY <3>3, <3>4, <3>5
  <2> QED  BY <2>2, <2>3
<1>5. PICK new : new = [url |-> url, level |-> level,
                        parent |-> IF nested THEN enclosing ELSE NoUrl]
  OBVIOUS
<1>6. found' = Append(found, new)  BY <1>3, <1>5 DEF Book!Discover
<1>7. new \in BookEntry
  <2>1. enclosing \in Urls \cup {NoUrl}  BY <1>2, <1>4 DEF BookEntry
  <2> QED  BY <1>5, <2>1 DEF BookEntry
<1>8. PICK later : later = found'  OBVIOUS
<1>9. /\ later \in Seq(BookEntry) /\ Len(later) = n + 1 /\ later[n + 1] = new
      /\ \A i \in 1 .. n : later[i] = found[i]
  BY <1>1, <1>6, <1>7, <1>8
<1>10. \A i \in 1 .. n + 1 : i = n + 1 \/ i \in 1 .. n  BY <1>2
<1>11. ASSUME NEW i \in 1 .. n + 1
       PROVE  IF i = 1 THEN later[i].level = 0 ELSE later[i].level <= later[i - 1].level + 1
  <2>1. CASE i \in 1 .. n
    <3>1. i # 1 => i - 1 \in 1 .. n  BY <1>2, <2>1
    <3> QED  BY <1>1, <1>9, <2>1, <3>1 DEF DepthFirst
  <2>2. CASE i = n + 1
    <3>1. level <= IF found = <<>> THEN 0 ELSE found[n].level + 1  BY DEF Book!Discover
    <3>2. later[i].level = level  BY <1>5, <1>9, <2>2
    <3>3. CASE n = 0
      <4>1. found = <<>> /\ i = 1  BY <1>1, <2>2, <3>3
      <4> QED  BY <3>1, <3>2, <4>1
    <3>4. CASE n # 0
      <4>1. found # <<>> /\ i # 1 /\ i - 1 = n /\ n \in 1 .. n  BY <1>2, <2>2, <3>4
      <4> QED  BY <1>9, <3>1, <3>2, <4>1
    <3> QED  BY <3>3, <3>4
  <2> QED  BY <1>10, <2>1, <2>2
<1>12. ASSUME NEW i \in 1 .. n + 1, later[i].parent # NoUrl
       PROVE  \E j \in 1 .. i - 1 :
                 /\ later[j].url = later[i].parent /\ later[j].level + 1 = later[i].level
                 /\ \A k \in j + 1 .. i - 1 : later[k].level + 1 # later[i].level
  <2>1. CASE i \in 1 .. n
    <3>1. PICK j \in 1 .. i - 1 : found[j].url = found[i].parent /\ Encloses(j, i)
      BY <1>1, <1>9, <1>12, <2>1 DEF Enclosed
    <3>2. j \in 1 .. n /\ \A k \in j + 1 .. i - 1 : k \in 1 .. n  BY <1>2, <2>1
    <3> QED  BY <1>9, <2>1, <3>1, <3>2 DEF Encloses
  <2>2. CASE i = n + 1
    <3>1. later[i].parent = enclosing /\ enclosing # NoUrl /\ later[i].level = level
      BY <1>5, <1>9, <1>12, <2>2
    <3>2. PICK m \in 1 .. n : /\ found[m].level + 1 = level /\ enclosing = found[m].url
                              /\ \A k \in m + 1 .. n : found[k].level + 1 # level
      BY <1>4, <3>1
    <3>3. i - 1 = n /\ \A k \in m + 1 .. n : k \in 1 .. n  BY <1>2, <2>2
    <3> QED  BY <1>9, <3>1, <3>2, <3>3
  <2> QED  BY <1>10, <2>1, <2>2
<1>13. DepthFirst' /\ Enclosed'
  BY <1>8, <1>9, <1>11, <1>12 DEF DepthFirst, Enclosed, Encloses
<1> QED  BY <1>8, <1>9, <1>13 DEF FoundRight

\* The first entries without their repetitions: nothing was left out if as many remain.
LEMMA DedupedAre ==
    ASSUME FoundRight
    PROVE  /\ Book!Deduped(found) \in Seq(BookEntry)
           /\ Book!Deduped(found) = found => \A i \in 1 .. Len(found) : Book!IsFirst(found, i)
<1> DEFINE n == Len(found)
           T == Seq(BookEntry)
           Taken(s, i) == IF Book!IsFirst(found, i) THEN Append(s, found[i]) ELSE s
           Rebuilt(f) == f = [i \in 0 .. n |-> IF i = 0 THEN <<>> ELSE Taken(f[i - 1], i)]
<1>1. n \in Nat /\ <<>> \in T /\ \A i \in 1 .. n : found[i] \in BookEntry
  BY DEF FoundRight
<1>2. \A s \in T, i \in 1 .. n : Taken(s, i) \in T  BY <1>1
<1>3. \E f : Rebuilt(f)
  <2> HIDE DEF T, n, Taken
  <2>1. PICK step : step = [p \in 1 .. n |-> [x \in T |-> Taken(x, p)]]  OBVIOUS
  <2>2. step \in [1 .. n -> [T -> T]]  BY <1>2, <2>1
  <2>3. PICK f : Passes(T, n, <<>>, step, f)
    <3> HIDE DEF Rebuilt
    <3> QED  BY <1>1, <2>2, PassIs
  <2>4. Rebuilt(f)
    <3>1. ASSUME NEW i \in 1 .. n PROVE f[i - 1] \in T /\ f[i] = Taken(f[i - 1], i)
      <4>1. i - 1 \in 0 .. n  BY <1>1
      <4>2. f[i - 1] \in T /\ f[i] = step[i][f[i - 1]]  BY <2>3, <4>1 DEF Passes
      <4> QED  BY <2>1, <4>2
    <3> QED  BY <2>3, <3>1 DEF Passes
  <2> HIDE DEF Rebuilt
  <2> QED  BY <2>4
<1>4. PICK h : Rebuilt(h) /\ Book!Deduped(found) = h[n]
  <2>1. Book!Deduped(found) = (CHOOSE g : Rebuilt(g))[n]
    BY DEF Book!Deduped
  <2> HIDE DEF Rebuilt
  <2> QED  BY <1>3, <2>1
<1>5. h[0] = <<>> /\ \A i \in 1 .. n : h[i] = Taken(h[i - 1], i)
  <2> HIDE DEF n, Taken
  <2> QED  BY <1>1, <1>4
<1> HIDE DEF Rebuilt
<1> DEFINE Right(s, i) ==
              /\ s \in T /\ Len(s) <= i
              /\ Len(s) = i => \A j \in 1 .. i : Book!IsFirst(found, j)
           P == {i \in 0 .. n : Right(h[i], i)}
<1>6. 0 \in P
  <2>1. h[0] = <<>> /\ Len(<<>>) = 0 /\ 1 .. 0 = {} /\ 0 \in 0 .. n  BY <1>1, <1>5
  <2> HIDE DEF T
  <2> QED  BY <1>1, <2>1
<1>7. ASSUME NEW i \in 1 .. n, i - 1 \in P PROVE i \in P
  <2>1. PICK s : s = h[i - 1]  OBVIOUS
  <2>2. s \in T /\ Len(s) <= i - 1 /\ (Len(s) = i - 1 => \A j \in 1 .. i - 1 : Book!IsFirst(found, j))
    BY <1>7, <2>1
  <2>3. /\ i \in 0 .. n /\ Len(s) \in Nat /\ found[i] \in BookEntry
        /\ \A j \in 1 .. i : j = i \/ j \in 1 .. i - 1
    BY <1>1, <2>2
  <2>4. h[i] = Taken(s, i)  BY <1>5, <2>1
  <2>5. CASE Book!IsFirst(found, i)
    <3>1. PICK g : g = Append(s, found[i])  OBVIOUS
    <3>2. h[i] = g  BY <2>4, <2>5, <3>1
    <3>3. g \in T /\ Len(g) = Len(s) + 1  BY <2>2, <2>3, <3>1
    <3>4. Right(g, i)
      <4> HIDE DEF T
      <4> QED  BY <2>2, <2>3, <2>5, <3>3
    <3> HIDE DEF Right
    <3> QED  BY <2>3, <3>2, <3>4
  <2>6. CASE ~Book!IsFirst(found, i)
    <3>1. h[i] = s  BY <2>4, <2>6
    <3>2. Right(s, i)
      <4>1. Len(s) <= i /\ Len(s) # i  BY <2>2, <2>3
      <4> HIDE DEF T
      <4> QED  BY <2>2, <4>1
    <3> HIDE DEF Right
    <3> QED  BY <2>3, <3>1, <3>2
  <2> QED  BY <2>5, <2>6
<1>8. Right(h[n], n)
  <2>1. n \in 0 .. n  BY <1>1
  <2> HIDE DEF P, n
  <2>2. \A i \in 0 .. n : i \in P  BY <1>1, <1>6, <1>7, AllReached
  <2>3. n \in P  BY <2>1, <2>2
  <2> QED  BY <2>3 DEF P
<1> QED  BY <1>4, <1>8

\* An entry below the first level has one last entry above it, one level up.
LEMMA OneAbove ==
    ASSUME FoundRight, NEW i \in 1 .. Len(found), found[i].level # 0
    PROVE  \E j \in 1 .. i - 1 : /\ found[j].level + 1 = found[i].level
                                 /\ \A k \in j + 1 .. i - 1 : found[k].level > found[j].level
<1> DEFINE n == Len(found)
           lower == {j \in 1 .. i - 1 : found[j].level < found[i].level}
<1>1. n \in Nat /\ \A k \in 1 .. n : found[k] \in BookEntry  BY DEF FoundRight
<1>2. \A k \in 1 .. n : found[k].level \in Nat
  <2>1. \A e \in BookEntry : e.level \in Nat  BY DEF BookEntry
  <2> QED  BY <1>1, <2>1
<1>3. \A k \in 1 .. n :
         IF k = 1 THEN found[k].level = 0 ELSE found[k].level <= found[k - 1].level + 1
  BY DEF FoundRight, DepthFirst
<1>4. i # 1 /\ 1 \in 1 .. n /\ 1 \in 1 .. i - 1  BY <1>1, <1>3
<1>5. 1 \in lower  BY <1>2, <1>3, <1>4
<1>6. PICK j \in lower : \A k \in lower : k <= j
  <2>1. lower \in SUBSET (0 .. n)  BY <1>1
  <2> HIDE DEF lower, n
  <2> QED  BY <1>1, <1>5, <2>1, GreatestOf
<1>7. j \in 1 .. i - 1 /\ j \in 1 .. n /\ j + 1 \in 1 .. n /\ (j + 1) - 1 = j /\ j + 1 # 1
      /\ \A k \in j + 1 .. i - 1 : k \in 1 .. n /\ k \in 1 .. i - 1 /\ ~(k <= j)
  BY <1>1, <1>6
<1>8. \A k \in j + 1 .. i - 1 : found[k].level >= found[i].level
  BY <1>2, <1>6, <1>7
<1>9. found[j].level < found[i].level  BY <1>6
<1>10. found[j + 1].level >= found[i].level
  <2>1. CASE j + 1 = i  BY <1>2, <2>1
  <2>2. CASE j + 1 # i
    <3>1. j + 1 \in j + 1 .. i - 1  BY <1>1, <1>7, <2>2
    <3> QED  BY <1>8, <3>1
  <2> QED  BY <2>1, <2>2
<1>11. found[j + 1].level <= found[j].level + 1  BY <1>3, <1>7
<1>12. found[j].level + 1 = found[i].level
  BY <1>2, <1>7, <1>9, <1>10, <1>11
<1>13. \A k \in j + 1 .. i - 1 : found[k].level > found[j].level
  BY <1>2, <1>7, <1>8, <1>9
<1> QED  BY <1>7, <1>12, <1>13

\* The parent row of an entry, when no page was found twice: none on the first level, or
\* else the row of the last entry above it.
LEMMA ParentIs ==
    ASSUME FoundRight, \A k \in 1 .. Len(found) : Book!IsFirst(found, k),
           NEW i \in 1 .. Len(found)
    PROVE  LET p == Book!ParentOf(found, i)
           IN  \/ found[i].level = 0 /\ p = Book!None
               \/ /\ found[i].level # 0 /\ p \in 1 .. i - 1
                  /\ found[p].level + 1 = found[i].level
                  /\ \A k \in p + 1 .. i - 1 : found[k].level > found[p].level
<1> DEFINE n == Len(found)
           named == {j \in 1 .. i - 1 : /\ found[i].parent # NoUrl
                                        /\ found[j].url = found[i].parent}
           above == {j \in 1 .. i - 1 : /\ found[j].level + 1 = found[i].level
                                        /\ \A k \in j + 1 .. i - 1 : found[k].level > found[j].level}
<1>1. n \in Nat /\ \A k \in 1 .. n : found[k] \in BookEntry  BY DEF FoundRight
<1>2. \A k \in 1 .. n : found[k].level \in Nat
  <2>1. \A e \in BookEntry : e.level \in Nat  BY DEF BookEntry
  <2> QED  BY <1>1, <2>1
<1>3. \A j \in 1 .. i - 1 : j \in 1 .. n  BY <1>1
<1>4. PICK p : p = Book!ParentOf(found, i)  OBVIOUS
<1>5. p = IF named # {} THEN CHOOSE j \in named : TRUE
          ELSE IF above # {} THEN CHOOSE j \in above : TRUE ELSE Book!None
  BY <1>4 DEF Book!ParentOf
<1>6. found[i].parent # NoUrl =>
         \E j \in 1 .. i - 1 : found[j].url = found[i].parent /\ Encloses(j, i)
  BY DEF FoundRight, Enclosed
<1>7. CASE found[i].level = 0
  <2>1. above = {}
    <3>1. \A j \in 1 .. i - 1 : found[j].level + 1 # found[i].level  BY <1>2, <1>3, <1>7
    <3> QED  BY <3>1
  <2>2. named = {}
    <3>1. found[i].parent = NoUrl
      <4>1. SUFFICES ASSUME found[i].parent # NoUrl PROVE FALSE  OBVIOUS
      <4>2. PICK j \in 1 .. i - 1 : Encloses(j, i)  BY <1>6, <4>1
      <4> QED  BY <1>2, <1>3, <1>7, <4>2 DEF Encloses
    <3> QED  BY <3>1
  <2> QED  BY <1>4, <1>5, <1>7, <2>1, <2>2
<1>8. CASE found[i].level # 0
  <2>1. PICK j \in above : TRUE
    <3>1. above # {}  BY <1>8, OneAbove
    <3> HIDE DEF above
    <3> QED  BY <3>1
  <2>2. named \subseteq above
    <3>1. SUFFICES ASSUME NEW m \in named PROVE m \in above  OBVIOUS
    <3>2. PICK q \in 1 .. i - 1 : found[q].url = found[i].parent /\ Encloses(q, i)
      BY <1>6, <3>1
    <3>3. m = q
      <4>1. found[m].url = found[q].url /\ found[q].url # NoUrl  BY <3>1, <3>2
      <4>2. Book!IsFirst(found, m) /\ Book!IsFirst(found, q)  BY <1>3, <3>1, <3>2
      <4>3. m \in 1 .. n /\ q \in 1 .. n  BY <1>3, <3>1, <3>2
      <4>4. ~(m < q)
        <5>1. m < q => m \in 1 .. q - 1  BY <1>1, <4>3
        <5> QED  BY <4>1, <4>2, <5>1 DEF Book!IsFirst
      <4>5. ~(q < m)
        <5>1. q < m => q \in 1 .. m - 1  BY <1>1, <4>3
        <5> QED  BY <4>1, <4>2, <5>1 DEF Book!IsFirst
      <4> QED  BY <1>1, <4>3, <4>4, <4>5
    <3>4. found[q].level + 1 = found[i].level
          /\ \A k \in q + 1 .. i - 1 : found[k].level + 1 # found[i].level
      BY <3>2 DEF Encloses
    <3>5. j \in 1 .. i - 1 /\ found[j].level + 1 = found[i].level
          /\ \A k \in j + 1 .. i - 1 : found[k].level > found[j].level
      OBVIOUS
    <3>6. q = j
      <4>1. q \in 1 .. n /\ j \in 1 .. n  BY <1>3, <3>2, <3>5
      <4>2. ~(q < j)
        <5>1. q < j => j \in q + 1 .. i - 1  BY <1>1, <3>5, <4>1
        <5> QED  BY <3>4, <3>5, <5>1
      <4>3. ~(j < q)
        <5>1. j < q => q \in j + 1 .. i - 1  BY <1>1, <3>2, <3>5, <4>1
        <5> QED  BY <1>2, <3>4, <3>5, <4>1, <5>1
      <4> QED  BY <4>1, <4>2, <4>3
    <3> QED  BY <3>3, <3>6
  <2>3. p \in above
    <3> HIDE DEF above, named
    <3> QED  BY <1>5, <2>1, <2>2
  <2> QED  BY <1>4, <1>8, <2>3
<1> QED  BY <1>7, <1>8

\* What Persist stores: a row is below an earlier one, with no row of the first level
\* between them.
TocRight ==
    \A i \in 1 .. Len(toc) : toc[i].parent # Book!None =>
        /\ toc[i].parent \in 1 .. i - 1
        /\ \A k \in toc[i].parent + 1 .. i : toc[k].parent # Book!None

\* Rows of entries found once have their parents before them, inside one branch.
LEMMA RowsAreRight ==
    ASSUME FoundRight, \A k \in 1 .. Len(found) : Book!IsFirst(found, k),
           NEW rows, rows = [i \in DOMAIN found |-> [url |-> found[i].url,
                                                     parent |-> Book!ParentOf(found, i)]],
           NEW i \in 1 .. Len(found), rows[i].parent # Book!None
    PROVE  /\ rows[i].parent \in 1 .. i - 1
           /\ \A k \in rows[i].parent + 1 .. i : rows[k].parent # Book!None
<1> DEFINE n == Len(found)
<1>1. n \in Nat /\ DOMAIN found = 1 .. n /\ \A k \in 1 .. n : found[k] \in BookEntry
  BY DEF FoundRight
<1>2. \A k \in 1 .. n : found[k].level \in Nat
  <2>1. \A e \in BookEntry : e.level \in Nat  BY DEF BookEntry
  <2> QED  BY <1>1, <2>1
<1>3. \A k \in 1 .. n : rows[k].parent = Book!ParentOf(found, k)  BY <1>1
<1>4. \A k \in 1 .. n :
         \/ found[k].level = 0 /\ rows[k].parent = Book!None
         \/ /\ found[k].level # 0 /\ rows[k].parent \in 1 .. k - 1
            /\ found[rows[k].parent].level + 1 = found[k].level
            /\ \A m \in rows[k].parent + 1 .. k - 1 :
                  found[m].level > found[rows[k].parent].level
  BY <1>3, ParentIs
<1>5. PICK p : p = rows[i].parent  OBVIOUS
<1>6. /\ found[i].level # 0 /\ p \in 1 .. i - 1 /\ found[p].level + 1 = found[i].level
      /\ \A m \in p + 1 .. i - 1 : found[m].level > found[p].level
  BY <1>4, <1>5
<1>7. ASSUME NEW k \in p + 1 .. i PROVE rows[k].parent # Book!None
  <2>1. k \in 1 .. n /\ p \in 1 .. n /\ (k = i \/ k \in p + 1 .. i - 1)  BY <1>1, <1>6
  <2>2. found[k].level # 0  BY <1>2, <1>6, <2>1
  <2>3. rows[k].parent \in 1 .. k - 1  BY <1>4, <2>1, <2>2
  <2> QED  BY <2>1, <2>3 DEF Book!None
<1> QED  BY <1>5, <1>6, <1>7

\* The row at the top of the branch of a row, in a TOC that is right.
LEMMA RootsAre ==
    ASSUME TocRight, Len(toc) \in Nat
    PROVE  \E root : /\ root \in [0 .. Len(toc) -> Nat]
                     /\ \A u : Book!Chapter(u) = root[placed[u].entry]
                     /\ \A i \in 1 .. Len(toc) :
                           /\ root[i] \in 1 .. i /\ toc[root[i]].parent = Book!None
                           /\ \A k \in root[i] + 1 .. i : toc[k].parent # Book!None
<1> DEFINE n == Len(toc)
           up(i) == toc[i].parent
           Taken(f, i) == IF i = Book!None \/ up(i) = Book!None THEN i ELSE f[up(i)]
           Rebuilt(f) == f = [i \in 0 .. n |-> Taken(f, i)]
<1>1. \A i \in 1 .. n : up(i) # Book!None =>
         up(i) \in 1 .. i - 1 /\ \A k \in up(i) + 1 .. i : up(k) # Book!None
  BY DEF TocRight
<1> HIDE DEF up
<1>2. Book!None = 0  BY DEF Book!None
<1>12. n \in Nat  OBVIOUS
<1>3. \E f : Rebuilt(f) /\ f \in [0 .. n -> Nat]
  <2>1. PICK from : from = [i \in 0 .. n |-> IF i = 0 \/ up(i) = 0 THEN -1 ELSE up(i)]  OBVIOUS
  <2>2. PICK start : start = [i \in 0 .. n |-> i]  OBVIOUS
  <2>3. PICK step : step = [i \in 0 .. n |-> [x \in Nat |-> x]]  OBVIOUS
  <2>4. \A i \in 0 .. n : i = 0 \/ i \in 1 .. n  OBVIOUS
  <2>5. ASSUME NEW i \in 0 .. n PROVE from[i] = -1 \/ from[i] \in 0 .. i - 1
    BY <1>1, <1>2, <2>1, <2>4
  <2>6. \A i \in 0 .. n : from[i] \in Int /\ (from[i] = -1 \/ from[i] \in 0 .. i - 1)
    BY <2>5
  <2>7. Earlier(n, from)
    <3>1. from \in [0 .. n -> Int]
      <4> HIDE DEF n
      <4> QED  BY <2>1, <2>6
    <3> QED  BY <2>6, <3>1 DEF Earlier
  <2>8. start \in [0 .. n -> Nat] /\ step \in [0 .. n -> [Nat -> Nat]]  BY <2>2, <2>3
  <2>9. PICK f : Walks(Nat, n, from, start, step, f)
    <3> HIDE DEF n
    <3> QED  BY <1>12, <2>7, <2>8, WalkIs
  <2>10. f \in [0 .. n -> Nat]  BY <2>9 DEF Walks
  <2>11. ASSUME NEW i \in 0 .. n PROVE f[i] = Taken(f, i)
    <3>1. CASE i = 0 \/ up(i) = 0
      <4>1. from[i] = -1  BY <2>1, <3>1
      <4> QED  BY <1>2, <2>2, <2>9, <3>1, <4>1 DEF Walks
    <3>2. CASE ~(i = 0 \/ up(i) = 0)
      <4>1. from[i] = up(i) /\ up(i) \in 1 .. i - 1 /\ up(i) # -1 /\ up(i) \in 0 .. n
        BY <1>1, <1>2, <2>1, <2>4, <3>2
      <4>2. f[i] = step[i][f[up(i)]]  BY <2>9, <4>1 DEF Walks
      <4>3. f[up(i)] \in Nat  BY <2>10, <4>1
      <4> QED  BY <1>2, <2>3, <3>2, <4>2, <4>3
    <3> QED  BY <3>1, <3>2
  <2>12. Rebuilt(f)
    <3> HIDE DEF Taken, n
    <3> QED  BY <2>10, <2>11
  <2> HIDE DEF Rebuilt
  <2> QED  BY <2>10, <2>12
<1>4. PICK f : Rebuilt(f) /\ f \in [0 .. n -> Nat]  BY <1>3
<1>5. PICK root : root = CHOOSE g : Rebuilt(g)  OBVIOUS
<1>6. \A u : Book!Chapter(u) = root[placed[u].entry]
  BY <1>5 DEF Book!Chapter, up
<1>7. Rebuilt(root)
  <2> HIDE DEF Rebuilt
  <2> QED  BY <1>4, <1>5
<1>8. \A i \in 0 .. n : root[i] = Taken(root, i)
  <2> HIDE DEF Taken, n
  <2> QED  BY <1>7
<1> HIDE DEF Rebuilt
<1> DEFINE Right(i) == /\ root[i] \in 1 .. i /\ up(root[i]) = Book!None
                       /\ \A k \in root[i] + 1 .. i : up(k) # Book!None
           P == {m \in 0 .. n : \A i \in 1 .. m : Right(i)}
<1>9. 0 \in P
  <2>1. 1 .. 0 = {}  OBVIOUS
  <2> HIDE DEF Right
  <2> QED  BY <2>1
<1>10. ASSUME NEW i \in 1 .. n, i - 1 \in P PROVE i \in P
  <2>1. i \in 0 .. n /\ \A k \in 1 .. i : k = i \/ k \in 1 .. i - 1  OBVIOUS
  <2>2. \A k \in 1 .. i - 1 : Right(k)  BY <1>10
  <2>3. Right(i)
    <3>1. CASE up(i) = Book!None
      <4>1. root[i] = i  BY <1>8, <2>1, <3>1
      <4>2. \A k \in i + 1 .. i : FALSE  OBVIOUS
      <4> QED  BY <3>1, <4>1, <4>2
    <3>2. CASE up(i) # Book!None
      <4>1. root[i] = root[up(i)]  BY <1>2, <1>8, <2>1, <3>2
      <4>2. up(i) \in 1 .. i - 1 /\ \A k \in up(i) + 1 .. i : up(k) # Book!None  BY <1>1, <3>2
      <4>3. Right(up(i))
        <5> HIDE DEF Right
        <5> QED  BY <2>2, <4>2
      <4>4. root[i] \in 1 .. i  BY <4>1, <4>2, <4>3
      <4>5. ASSUME NEW k \in root[i] + 1 .. i PROVE up(k) # Book!None
        <5>1. k \in root[up(i)] + 1 .. up(i) \/ k \in up(i) + 1 .. i
          BY <4>1, <4>2, <4>4
        <5> QED  BY <4>2, <4>3, <5>1
      <4> QED  BY <4>1, <4>3, <4>4, <4>5
    <3> QED  BY <3>1, <3>2
  <2> HIDE DEF Right
  <2> QED  BY <2>1, <2>2, <2>3
<1>11. \A i \in 1 .. n : Right(i)
  <2>1. n \in 0 .. n  OBVIOUS
  <2> HIDE DEF P, n
  <2>2. \A i \in 0 .. n : i \in P  BY <1>9, <1>10, <1>12, AllReached
  <2>3. n \in P  BY <2>1, <2>2
  <2> HIDE DEF Right
  <2> QED  BY <2>3 DEF P
<1> QED
  <2>1. root \in [0 .. n -> Nat]
    <3>1. \A i \in 0 .. n : root[i] \in Nat
      <4>1. root[0] = 0  BY <1>2, <1>8
      <4>2. \A i \in 0 .. n : i = 0 \/ i \in 1 .. n  OBVIOUS
      <4> QED  BY <1>11, <4>1, <4>2
    <3>2. root = [i \in 0 .. n |-> root[i]]
      <4>1. root = [i \in 0 .. n |-> Taken(root, i)]  BY <1>7 DEF Rebuilt
      <4> HIDE DEF Taken, n
      <4> QED  BY <1>8, <4>1
    <3> HIDE DEF n, Taken
    <3> QED  BY <3>1, <3>2
  <2> QED  BY <1>6, <1>11, <2>1 DEF up

\* What holds between the steps of a run and an export: the entries and the rows are
\* right, an article is at the row of its page, and the last export is the one that the
\* present rows give.
BookRow == [url : Urls \cup {NoUrl}, parent : Nat]
PlacesRight ==
    \A u \in Urls : placed[u].entry # Book!None =>
        placed[u].order = placed[u].entry /\ placed[u].entry \in 1 .. Len(toc)
Exported(articles, by, limit, chapters) ==
    export = [articles |-> articles, by |-> by, limit |-> limit, chapters |-> chapters,
              files |-> Book!Files(articles, by, limit, chapters)]
ExportRight ==
    \/ export = Book!NoExport
    \/ \E articles \in Seq(Urls), by \in By, limit \in Nat, chapters \in BOOLEAN :
          articles # <<>> /\ Exported(articles, by, limit, chapters)
BookInv ==
    /\ FoundRight /\ ArticlesAre /\ toc \in Seq(BookRow)
    /\ ~repeated => TocRight /\ PlacesRight
    /\ ExportRight

\* What the files of an export are is settled by the TOC and the articles.
LEMMA FilesStay ==
    ASSUME UNCHANGED <<toc, placed>>, NEW articles, NEW by, NEW limit, NEW chapters
    PROVE  Book!Files(articles, by, limit, chapters)' = Book!Files(articles, by, limit, chapters)
BY DEF Book!Files, Book!SplitByChapter, Book!SplitArticles, Book!Packed, Book!Chapters,
       Book!Grouped, Book!AddChapter, Book!Total, Book!Metric, Book!Chapter, Book!Extended,
       Book!Flushed, Book!None

\* The articles of an export are a sequence of pages.
LEMMA ResolvedAre == Book!Resolved \subseteq Seq(Urls) \ {<<>>}
<1>1. \A S : Book!Cardinality(S) = Cardinality(S)
  BY Zenon DEF Book!Cardinality, Cardinality
<1>2. ASSUME NEW S \in SUBSET Book!Stored, NEW f \in Book!SetToSeqs(S) PROVE f \in Seq(Urls)
  <2>1. S \subseteq Urls  BY DEF Book!Stored
  <2>2. Cardinality(S) \in Nat
    BY <2>1, UrlsAssumption, FS_Subset, FS_CardinalityType
  <2>3. f \in [1 .. Cardinality(S) -> S]  BY <1>1 DEF Book!SetToSeqs
  <2>4. PICK m \in Nat : m = Cardinality(S)  BY <2>2
  <2>5. f \in [1 .. m -> Urls]  BY <2>1, <2>3, <2>4
  <2> QED  BY <2>4, <2>5
<1>3. ASSUME NEW f \in Book!SetToAllKPermutations(Book!Stored) PROVE f \in Seq(Urls)
  <2>1. PICK S \in SUBSET Book!Stored : f \in Book!SetToSeqs(S)
    BY DEF Book!SetToAllKPermutations
  <2> QED  BY <1>2, <2>1
<1> QED  BY <1>3 DEF Book!Resolved

\* At first there is no TOC, no page and no export.
LEMMA BookStarts == ASSUME Book!Init PROVE BookInv
<1>1. /\ found = <<>> /\ toc = <<>> /\ export = Book!NoExport
      /\ \E size \in [Urls -> Sizes] : placed = [u \in Urls |-> Book!NoArticle(size[u])]
  BY DEF Book!Init
<1>2. Len(<<>>) = 0 /\ 1 .. 0 = {} /\ <<>> \in Seq(BookEntry) /\ <<>> \in Seq(BookRow)  OBVIOUS
<1>3. FoundRight  BY <1>1, <1>2 DEF FoundRight, DepthFirst, Enclosed
<1>4. ArticlesAre
  <2>1. \A size \in Sizes : Book!NoArticle(size) \in BookArticle
    BY DEF Book!NoArticle, Book!None, BookArticle
  <2> QED  BY <1>1, <2>1 DEF ArticlesAre
<1>5. TocRight  BY <1>1, <1>2 DEF TocRight
<1>6. PlacesRight
  <2>1. \A size : Book!NoArticle(size).entry = Book!None  BY DEF Book!NoArticle
  <2> QED  BY <1>1, <2>1 DEF PlacesRight
<1> QED  BY <1>1, <1>2, <1>3, <1>4, <1>5, <1>6 DEF BookInv, ExportRight

\* The parent of a row is the number of a row, or none.
LEMMA ParentsAreNumbers ==
    ASSUME NEW entries, NEW i \in Nat PROVE Book!ParentOf(entries, i) \in Nat
<1> DEFINE named == {j \in 1 .. i - 1 : entries[i].parent # NoUrl /\ entries[j].url = entries[i].parent}
           above == {j \in 1 .. i - 1 : /\ entries[j].level + 1 = entries[i].level
                                        /\ \A k \in j + 1 .. i - 1 : entries[k].level > entries[j].level}
<1>1. Book!ParentOf(entries, i) =
         IF named # {} THEN CHOOSE j \in named : TRUE
         ELSE IF above # {} THEN CHOOSE j \in above : TRUE ELSE Book!None
  BY DEF Book!ParentOf
<1>2. named \subseteq Nat /\ above \subseteq Nat /\ Book!None \in Nat  BY DEF Book!None
<1> HIDE DEF named, above
<1> QED  BY <1>1, <1>2

\* A run stores a TOC whose rows are right, and gives every page of it its place.
LEMMA PersistKeeps == ASSUME BookInv, Book!Persist PROVE BookInv'
<1> DEFINE entries == Book!Deduped(found)
           Row(u)  == CHOOSE i \in DOMAIN entries : entries[i].url = u
           OnToc   == {u \in Urls : \E i \in DOMAIN entries : entries[i].url = u}
           Stays(u) == IF u \in OnToc
                       THEN [placed[u] EXCEPT !.order = Row(u), !.entry = Row(u), !.stored = TRUE]
                       ELSE [placed[u] EXCEPT !.entry = Book!None]
<1>1. /\ toc' = [i \in DOMAIN entries |-> [url |-> entries[i].url,
                                          parent |-> Book!ParentOf(entries, i)]]
      /\ placed' = [u \in Urls |-> Stays(u)]
      /\ repeated' = (entries # found) /\ found' = <<>> /\ export' = Book!NoExport
  BY DEF Book!Persist
<1>2. FoundRight /\ ArticlesAre  BY DEF BookInv
<1>3. /\ entries \in Seq(BookEntry)
      /\ entries = found => \A i \in 1 .. Len(found) : Book!IsFirst(found, i)
  BY <1>2, DedupedAre
<1> HIDE DEF entries
<1>4. PICK n \in Nat : n = Len(entries) /\ DOMAIN entries = 1 .. n
      /\ \A i \in 1 .. n : entries[i] \in BookEntry
  BY <1>3
<1>5. toc' \in Seq(BookRow) /\ Len(toc') = n
  <2>1. ASSUME NEW i \in 1 .. n
        PROVE  [url |-> entries[i].url, parent |-> Book!ParentOf(entries, i)] \in BookRow
    <3>1. Book!ParentOf(entries, i) \in Nat  BY ParentsAreNumbers
    <3>2. entries[i].url \in Urls \cup {NoUrl}  BY <1>4 DEF BookEntry
    <3> QED  BY <3>1, <3>2 DEF BookRow
  <2>2. toc' \in [1 .. n -> BookRow]  BY <1>1, <1>4, <2>1
  <2> QED  BY <2>2
<1>6. ASSUME NEW u \in OnToc PROVE Row(u) \in 1 .. n
  BY <1>4
<1>7. ASSUME NEW u \in Urls
      PROVE  /\ Stays(u) \in BookArticle
             /\ Stays(u).entry # Book!None =>
                   Stays(u).order = Stays(u).entry /\ Stays(u).entry \in 1 .. n
  <2>1. placed[u] \in BookArticle  BY <1>2 DEF ArticlesAre
  <2>2. CASE u \in OnToc
    <3>1. PICK r \in 1 .. n : r = Row(u)  BY <1>6, <2>2
    <3>2. Stays(u) = [placed[u] EXCEPT !.order = r, !.entry = r, !.stored = TRUE]
      BY <2>2, <3>1
    <3>3. r \in Nat  BY <1>4
    <3> HIDE DEF Stays, OnToc
    <3> QED  BY <2>1, <3>1, <3>2, <3>3 DEF BookArticle
  <2>3. CASE u \notin OnToc
    <3>1. Stays(u) = [placed[u] EXCEPT !.entry = Book!None]  BY <2>3
    <3> HIDE DEF Stays, OnToc
    <3> QED  BY <2>1, <3>1 DEF BookArticle, Book!None
  <2> QED  BY <2>2, <2>3
<1>8. ArticlesAre' /\ PlacesRight'
  <2> HIDE DEF Stays
  <2>1. \A u \in Urls : placed'[u] = Stays(u)  BY <1>1
  <2>2. placed' \in [Urls -> BookArticle]  BY <1>1, <1>7
  <2>3. ArticlesAre'  BY <2>2 DEF ArticlesAre
  <2>4. PlacesRight'  BY <1>5, <1>7, <2>1 DEF PlacesRight
  <2> QED  BY <2>3, <2>4
<1>9. ASSUME ~repeated' PROVE TocRight'
  <2>1. entries = found  BY <1>1, <1>9
  <2>2. \A k \in 1 .. Len(found) : Book!IsFirst(found, k)  BY <1>3, <2>1
  <2>3. PICK rows : rows = toc'  OBVIOUS
  <2>4. rows = [i \in DOMAIN found |-> [url |-> found[i].url, parent |-> Book!ParentOf(found, i)]]
    BY <1>1, <2>1, <2>3
  <2>5. \A i \in 1 .. Len(found) : rows[i].parent # Book!None =>
           /\ rows[i].parent \in 1 .. i - 1
           /\ \A k \in rows[i].parent + 1 .. i : rows[k].parent # Book!None
    BY <1>2, <2>2, <2>4, RowsAreRight
  <2>6. Len(toc') = Len(found)  BY <1>4, <1>5, <2>1
  <2> QED  BY <2>3, <2>5, <2>6 DEF TocRight, Book!None
<1>10. FoundRight'
  <2>1. Len(<<>>) = 0 /\ 1 .. 0 = {} /\ <<>> \in Seq(BookEntry)  OBVIOUS
  <2> QED  BY <1>1, <2>1 DEF FoundRight, DepthFirst, Enclosed
<1>11. ExportRight'  BY <1>1 DEF ExportRight
<1> QED  BY <1>5, <1>8, <1>9, <1>10, <1>11 DEF BookInv

\* No discovery, run or export breaks the invariant.
LEMMA BookKept == ASSUME BookInv, Book!Next PROVE BookInv'
<1>1. ASSUME NEW url \in Urls \cup {NoUrl}, NEW level \in 0 .. MaxLevel, Book!Discover(url, level)
      PROVE  BookInv'
  <2>1. FoundRight'
    <3>1. level \in Nat  OBVIOUS
    <3> QED  BY <1>1, <3>1, FoundGrows DEF BookInv
  <2>2. UNCHANGED <<toc, placed, nested, builds, repeated>> /\ export' = Book!NoExport
    BY <1>1 DEF Book!Discover
  <2> QED
    BY <2>1, <2>2 DEF BookInv, ArticlesAre, TocRight, PlacesRight, ExportRight
<1>2. CASE Book!Persist  BY <1>2, PersistKeeps
<1>3. ASSUME NEW articles \in Book!Resolved, NEW by \in {"none", "articles", "size"},
             NEW asked \in Limits, NEW chapters \in BOOLEAN,
             Book!Export(articles, by, asked, chapters)
      PROVE  BookInv'
  <2>1. UNCHANGED <<found, toc, placed, nested, builds, repeated>>  BY <1>3 DEF Book!Export
  <2>2. PICK limit \in Nat : limit = Book!Limit(asked)  BY LimitsAssumption DEF Book!Limit
  <2>3. Book!Files(articles, by, limit, chapters)' = Book!Files(articles, by, limit, chapters)
    BY <2>1, FilesStay
  <2>4. Exported(articles, by, limit, chapters)'
    BY <1>3, <2>2, <2>3 DEF Book!Export, Exported
  <2>5. articles \in Seq(Urls) /\ articles # <<>>  BY ResolvedAre
  <2>6. ExportRight'  BY <2>4, <2>5 DEF ExportRight, By
  <2> QED
    BY <2>1, <2>6 DEF BookInv, FoundRight, DepthFirst, Enclosed, Encloses, ArticlesAre,
                      TocRight, PlacesRight
<1> QED  BY <1>1, <1>2, <1>3 DEF Book!Next

\* What a split into files has to keep.
LEMMA SplitHolds ==
    ASSUME ArticlesAre, NEW articles \in Seq(Urls), articles # <<>>, NEW by \in By,
           NEW limit \in Nat, NEW chapters \in BOOLEAN
    PROVE  LET files == Book!Files(articles, by, limit, chapters)
           IN  /\ files \in Seq(Seq(Urls)) /\ Book!FlattenSeq(files) = articles
               /\ \A k \in 1 .. Len(files) : files[k] # <<>>
               /\ by # "none" => Fits(files, by, limit)
<1>1. PICK files : files = Book!Files(articles, by, limit, chapters)  OBVIOUS
<1>2. CASE by = "none"
  <2>1. files = <<articles>>  BY <1>1, <1>2 DEF Book!Files
  <2>2. files \in Seq(Seq(Urls)) /\ Len(files) = 1 /\ files[1] = articles  BY <2>1
  <2>3. Book!FlattenSeq(files) = articles
    <3>1. <<>> \in Seq(Seq(Urls))  OBVIOUS
    <3>2. Book!FlattenSeq(Append(<<>>, articles)) = Book!FlattenSeq(<<>>) \o articles
      BY <3>1, FlatAppend
    <3>3. Append(<<>>, articles) = files  BY <2>1
    <3>4. <<>> \o articles = articles  BY ConcatEmptySeq
    <3> QED  BY <3>2, <3>3, <3>4, FlatEmpty
  <2> QED  BY <1>1, <1>2, <2>2, <2>3
<1>3. CASE by # "none" /\ chapters
  <2>1. files = Book!SplitByChapter(articles, by, limit)  BY <1>1, <1>3 DEF Book!Files
  <2> QED  BY <1>1, <2>1, ByChapterAre
<1>4. CASE by # "none" /\ ~chapters
  <2>1. files = Book!SplitArticles(articles, by, limit)  BY <1>1, <1>4 DEF Book!Files
  <2> QED  BY <1>1, <2>1, PackedAre DEF Fits
<1> QED  BY <1>2, <1>3, <1>4

\* In the order of a TOC that is right, the chapters of the articles do not decrease.
LEMMA ChaptersRise ==
    ASSUME TocRight, PlacesRight, Len(toc) \in Nat, NEW articles \in Seq(Urls), Book!InOrder(articles),
           \A i \in DOMAIN articles : placed[articles[i]].entry # Book!None
    PROVE  /\ \A i \in 1 .. Len(articles) : Book!Chapter(articles[i]) \in Nat
           /\ \A i, j \in 1 .. Len(articles) :
                 i < j => Book!Chapter(articles[i]) <= Book!Chapter(articles[j])
<1>1. DOMAIN articles = 1 .. Len(articles) /\ \A i \in 1 .. Len(articles) : articles[i] \in Urls
  OBVIOUS
<1>2. PICK root : /\ root \in [0 .. Len(toc) -> Nat]
                  /\ \A u : Book!Chapter(u) = root[placed[u].entry]
                  /\ \A i \in 1 .. Len(toc) :
                        /\ root[i] \in 1 .. i /\ toc[root[i]].parent = Book!None
                        /\ \A k \in root[i] + 1 .. i : toc[k].parent # Book!None
  BY RootsAre
<1> DEFINE at(i) == placed[articles[i]].entry
<1>3. \A i \in 1 .. Len(articles) :
         at(i) \in 1 .. Len(toc) /\ placed[articles[i]].order = at(i)
  BY <1>1 DEF PlacesRight
<1>4. \A i, j \in 1 .. Len(articles) : i < j => at(i) <= at(j)
  BY <1>1, <1>3 DEF Book!InOrder
<1>5. ASSUME NEW a \in 1 .. Len(toc), NEW b \in 1 .. Len(toc), a <= b PROVE root[a] <= root[b]
  <2>1. SUFFICES ASSUME root[b] < root[a] PROVE FALSE
    <3>1. root[a] \in Nat /\ root[b] \in Nat  BY <1>2
    <3> QED  BY <3>1
  <2>2. root[a] \in 1 .. a /\ root[b] \in 1 .. b /\ toc[root[a]].parent = Book!None
    BY <1>2
  <2>3. root[a] \in root[b] + 1 .. b  BY <1>5, <2>1, <2>2
  <2> QED  BY <1>2, <2>2, <2>3
<1>6. \A i \in 1 .. Len(articles) : Book!Chapter(articles[i]) = root[at(i)]
  BY <1>2
<1>7. \A i \in 1 .. Len(articles) : root[at(i)] \in Nat  BY <1>2, <1>3
<1>8. \A i, j \in 1 .. Len(articles) : i < j => root[at(i)] <= root[at(j)]
  BY <1>3, <1>4, <1>5
<1> HIDE DEF at
<1> QED  BY <1>6, <1>7, <1>8

\* The invariant says of an export what the property asks.
LEMMA SelectionHolds == ASSUME BookInv PROVE Book!FilesHoldTheSelection /\ Book!ChaptersKept
<1>1. CASE export = Book!NoExport
  <2>1. export.files = <<>> /\ export.articles = <<>> /\ export.by = "none"
    BY <1>1 DEF Book!NoExport
  <2>2. DOMAIN <<>> = {}  OBVIOUS
  <2>3. Book!FilesHoldTheSelection  BY <2>1, <2>2, FlatEmpty DEF Book!FilesHoldTheSelection
  <2>4. Book!ChaptersInOneFile  BY <2>1 DEF Book!ChaptersInOneFile
  <2> QED  BY <2>3, <2>4 DEF Book!ChaptersKept
<1>2. CASE export # Book!NoExport
  <2>1. PICK articles \in Seq(Urls), by \in By, limit \in Nat, chapters \in BOOLEAN :
           articles # <<>> /\ Exported(articles, by, limit, chapters)
    BY <1>2 DEF BookInv, ExportRight
  <2>2. PICK files : files = Book!Files(articles, by, limit, chapters)  OBVIOUS
  <2>3. /\ export.articles = articles /\ export.by = by /\ export.limit = limit
        /\ export.chapters = chapters /\ export.files = files
    BY <2>1, <2>2 DEF Exported
  <2>4. /\ files \in Seq(Seq(Urls)) /\ Book!FlattenSeq(files) = articles
        /\ \A k \in 1 .. Len(files) : files[k] # <<>>
        /\ by # "none" => Fits(files, by, limit)
    BY <2>1, <2>2, SplitHolds DEF BookInv
  <2>5. ArticlesAre /\ DOMAIN files = 1 .. Len(files)  BY <2>4 DEF BookInv
  <2>6. ASSUME NEW k \in 1 .. Len(files), by # "none", Book!Total(files[k], by) > limit
        PROVE  Len(files[k]) = 1
    <3>1. files[k] \in Seq(Urls)  BY <2>4
    <3>2. Book!Total(files[k], by) \in Nat  BY <2>5, <3>1, TotalIs
    <3>3. Book!Total(files[k], by) <= limit \/ Len(files[k]) = 1  BY <2>4, <2>6 DEF Fits
    <3> QED  BY <2>6, <3>2, <3>3
  <2>7. Book!FilesHoldTheSelection
    BY <2>3, <2>4, <2>5, <2>6 DEF Book!FilesHoldTheSelection
  <2>8. ASSUME Book!InOrder(articles), ~repeated, by # "none", chapters,
               \A i \in DOMAIN articles : placed[articles[i]].entry # Book!None,
               NEW row \in 0 .. Len(toc), Book!Total(Book!Within(articles, row), by) <= limit
        PROVE  \E i \in DOMAIN files \cup {1} :
                  \/ Book!Within(articles, row) = <<>>
                  \/ Book!ToSet(Book!Within(articles, row)) \subseteq Book!ToSet(files[i])
    <3>1. TocRight /\ PlacesRight /\ Len(toc) \in Nat  BY <2>8 DEF BookInv
    <3>2. PICK all : all = Book!Chapters(articles)  OBVIOUS
    <3>3. PICK chapter : chapter = Book!Within(articles, row)  OBVIOUS
    <3>4. chapter = <<>> \/ \E c \in 1 .. Len(all) : all[c] = chapter
      BY <2>8, <3>1, <3>2, <3>3, ChaptersRise, ChapterIsGrouped
    <3>5. files = Book!SplitByChapter(articles, by, limit)
      BY <2>2, <2>8 DEF Book!Files
    <3>6. \A c \in 1 .. Len(all) : Book!Total(all[c], by) <= limit =>
             all[c] = <<>> \/ \E k \in 1 .. Len(files) : Book!ToSet(all[c]) \subseteq Book!ToSet(files[k])
      BY <2>5, <3>2, <3>5, ByChapterAre
    <3>7. Book!Total(chapter, by) <= limit  BY <2>8, <3>3
    <3>8. chapter = <<>> \/ \E k \in 1 .. Len(files) : Book!ToSet(chapter) \subseteq Book!ToSet(files[k])
      BY <3>4, <3>6, <3>7
    <3> QED  BY <2>5, <3>3, <3>8
  <2>9. Book!ChaptersKept
    <3>1. ASSUME Book!InOrder(articles), ~repeated,
                 \A i \in DOMAIN articles : placed[articles[i]].entry # Book!None
          PROVE  Book!ChaptersInOneFile
      BY <2>3, <2>8, <3>1 DEF Book!ChaptersInOneFile
    <3> QED  BY <2>3, <3>1 DEF Book!ChaptersKept
  <2> QED  BY <2>7, <2>9
<1> QED  BY <1>1, <1>2

\* Whatever a discovery finds and however articles are selected: the files of a split
\* export hold each selected article once and in order, a file above the limit is a
\* single article, and in TOC order a chapter that fits the limit is in one file
\* (_split_articles and _split_by_chapter of exporter.py).
THEOREM SelectionIsKept == ContentsSpec => []SelectionKept
<1> DEFINE I == part = "book" => BookInv
<1>1. ContentsInit => I
  BY BookStarts DEF ContentsInit
<1>2. I /\ [ContentsNext]_contentVars => I'
  <2> SUFFICES ASSUME I, [ContentsNext]_contentVars, part' = "book" PROVE BookInv'
    OBVIOUS
  <2>1. CASE UNCHANGED contentVars
    <3>1. UNCHANGED <<found, toc, placed, nested, builds, repeated, export>> /\ BookInv
      BY <2>1 DEF contentVars, bookVars
    <3>2. ASSUME NEW articles, NEW by, NEW limit, NEW chapters
          PROVE  Exported(articles, by, limit, chapters)' <=> Exported(articles, by, limit, chapters)
      <4>1. Book!Files(articles, by, limit, chapters)' = Book!Files(articles, by, limit, chapters)
        BY <3>1, FilesStay
      <4> QED  BY <3>1, <4>1 DEF Exported
    <3>3. ExportRight'  BY <3>1, <3>2 DEF BookInv, ExportRight
    <3> QED
      BY <3>1, <3>3 DEF BookInv, FoundRight, DepthFirst, Enclosed, Encloses, ArticlesAre,
                        TocRight, PlacesRight
  <2>2. CASE ContentsNext
    <3>1. Book!Next /\ BookInv  BY <2>2 DEF ContentsNext
    <3> QED  BY <3>1, BookKept
  <2> QED  BY <2>1, <2>2
<1>3. I => SelectionKept
  BY SelectionHolds DEF SelectionKept
<1> QED  BY <1>1, <1>2, <1>3, PTL DEF ContentsSpec

-----------------------------------------------------------------------------
(* The lines where the pages start (PageAlign).                            *)

\* What a document and its markdown are.
AlignInv ==
    text \in [Align!Pages -> SUBSET Align!Passages] /\ markdown \in Seq(Int)

\* At first nothing is written.
LEMMA AlignStarts == ASSUME Align!Init PROVE AlignInv
BY DEF Align!Init, AlignInv

\* docling writes lines and leaves the pages as they are.
LEMMA AlignKept == ASSUME AlignInv, Align!Next PROVE AlignInv'
<1>1. PICK line \in Align!Passages \cup {Align!Other, Align!Blank, Align!Break} :
         Align!Write(line)
  BY DEF Align!Next
<1>2. line \in Int  BY <1>1 DEF Align!Passages, Align!Other, Align!Blank, Align!Break
<1>3. markdown' = Append(markdown, line) /\ text' = text  BY <1>1 DEF Align!Write
<1> QED  BY <1>2, <1>3 DEF AlignInv, Align!Pages, Align!Passages

\* The markdown without its page breaks is a sequence of lines.
LEMMA AlignLines == ASSUME AlignInv PROVE Align!Lines \in Seq(Int) /\ Align!NLines \in Nat
<1> DEFINE n == Len(markdown)
           T == Seq(Int)
           Taken(s, i) == IF markdown[i] = Align!Break THEN s ELSE Append(s, markdown[i])
           Rebuilt(f) == f = [i \in 0 .. n |-> IF i = 0 THEN <<>> ELSE Taken(f[i - 1], i)]
<1>1. n \in Nat /\ <<>> \in T /\ \A i \in 1 .. n : markdown[i] \in Int
  BY DEF AlignInv
<1>2. \A s \in T, i \in 1 .. n : Taken(s, i) \in T  BY <1>1
<1>3. \E f : Rebuilt(f)
  <2> HIDE DEF T, n, Taken
  <2>1. PICK step : step = [p \in 1 .. n |-> [x \in T |-> Taken(x, p)]]  OBVIOUS
  <2>2. step \in [1 .. n -> [T -> T]]  BY <1>2, <2>1
  <2>3. PICK f : Passes(T, n, <<>>, step, f)
    <3> HIDE DEF Rebuilt
    <3> QED  BY <1>1, <2>2, PassIs
  <2>4. Rebuilt(f)
    <3>1. ASSUME NEW i \in 1 .. n PROVE f[i - 1] \in T /\ f[i] = Taken(f[i - 1], i)
      <4>1. i - 1 \in 0 .. n  BY <1>1
      <4>2. f[i - 1] \in T /\ f[i] = step[i][f[i - 1]]  BY <2>3, <4>1 DEF Passes
      <4> QED  BY <2>1, <4>2
    <3> QED  BY <2>3, <3>1 DEF Passes
  <2> HIDE DEF Rebuilt
  <2> QED  BY <2>4
<1>4. PICK h : Rebuilt(h) /\ Align!Lines = h[n]
  <2>1. Align!Lines = (CHOOSE g : Rebuilt(g))[n]
    BY DEF Align!Lines
  <2> HIDE DEF Rebuilt
  <2> QED  BY <1>3, <2>1
<1>5. h[0] = <<>> /\ \A i \in 1 .. n : h[i] = Taken(h[i - 1], i)
  <2> HIDE DEF n, Taken
  <2> QED  BY <1>1, <1>4
<1> HIDE DEF Rebuilt
<1> DEFINE P == {i \in 0 .. n : h[i] \in T}
<1>6. 0 \in P
  <2>1. 0 \in 0 .. n  BY <1>1
  <2> HIDE DEF T
  <2> QED  BY <1>1, <1>5, <2>1
<1>7. \A i \in 1 .. n : i - 1 \in P => i \in P
  <2>1. \A i \in 1 .. n : i \in 0 .. n  BY <1>1
  <2> HIDE DEF T, Taken
  <2> QED  BY <1>2, <1>5, <2>1
<1>8. n \in P
  <2>1. n \in 0 .. n  BY <1>1
  <2> HIDE DEF P, n
  <2>2. \A i \in 0 .. n : i \in P  BY <1>1, <1>6, <1>7, AllReached
  <2> QED  BY <2>1, <2>2
<1>9. Align!Lines \in Seq(Int)  BY <1>4, <1>8
<1> QED  BY <1>9 DEF Align!NLines

\* A page that can be anchored has its line.
LEMMA RawLineIs ==
    ASSUME AlignInv, NEW p \in Align!Anchorable
    PROVE  /\ p \in 0 .. PageCount - 1 /\ Align!RawLine(p) \in 0 .. Align!NLines - 1
<1>1. p \in Align!Pages /\ \E k \in text[p] : Align!Locates(k)  BY DEF Align!Anchorable
<1> DEFINE located == {k \in text[p] : Align!Locates(k)}
<1>2. PICK k \in located : \A j \in located : k <= j
  <2>1. located \in SUBSET Nat /\ located # {}
    <3>1. text[p] \subseteq Nat  BY <1>1, BoundsAssumption DEF AlignInv, Align!Passages
    <3> QED  BY <1>1, <3>1
  <2> HIDE DEF located
  <2> QED  BY <2>1, LeastOf
<1>3. PICK m : m = Align!Min(located)  OBVIOUS
<1>4. m \in located
  <2>1. m = CHOOSE x \in located : \A j \in located : x <= j  BY <1>3 DEF Align!Min
  <2> HIDE DEF located
  <2> QED  BY <1>2, <2>1
<1> DEFINE at == {i \in DOMAIN Align!Lines : Align!Lines[i] = m}
<1>5. at # {}
  <2>1. Align!Cardinality(at) = 1  BY <1>4 DEF Align!Locates
  <2>2. \A S : Align!Cardinality(S) = Cardinality(S)
    BY Zenon DEF Align!Cardinality, Cardinality
  <2> HIDE DEF at
  <2> QED  BY <2>1, <2>2, FS_EmptySet
<1>6. PICK i : i = CHOOSE x \in DOMAIN Align!Lines : Align!Lines[x] = m  OBVIOUS
<1>7. i \in DOMAIN Align!Lines  BY <1>5, <1>6
<1>8. Align!RawLine(p) = i - 1  BY <1>3, <1>6 DEF Align!RawLine, Align!LineOf
<1>9. i \in 1 .. Align!NLines /\ Align!NLines \in Nat  BY <1>7, AlignLines DEF Align!NLines
<1> QED  BY <1>1, <1>8, <1>9 DEF Align!Pages

\* What the patience sort has laid: of each length, the page that ends a sequence, and the
\* page that each follows.
Line(p) == Align!RawLine(p)
AnchorableAre ==
    /\ PageCount \in Nat /\ Align!Anchorable \subseteq 0 .. PageCount - 1
    /\ \A p \in Align!Anchorable : Line(p) \in Int
LaidState == [tails : Seq(Align!Anchorable), prev : [Align!Pages -> Int]]
LaidAt(s, p, k, t) ==
    /\ t \in LaidState /\ k \in 0 .. Len(s.tails)
    /\ Len(t.tails) = IF k = Len(s.tails) THEN Len(s.tails) + 1 ELSE Len(s.tails)
    /\ t.tails[k + 1] = p
    /\ \A j \in 1 .. Len(s.tails) : j # k + 1 => t.tails[j] = s.tails[j]
    /\ t.prev[p] = IF k = 0 THEN -1 ELSE s.tails[k]
    /\ \A q \in Align!Pages : q # p => t.prev[q] = s.prev[q]

Lower(s, p) == {j \in DOMAIN s.tails : Line(s.tails[j]) < Line(p)}

\* One step of the patience sort: a page takes the place behind those with a lower line.
LEMMA LaidIs ==
    ASSUME AnchorableAre, NEW s \in LaidState, NEW p \in Align!Anchorable
    PROVE  LaidAt(s, p, Cardinality(Lower(s, p)), Align!Laid(s, p))
<1>1. \A S : Align!Cardinality(S) = Cardinality(S)
  BY Zenon DEF Align!Cardinality, Cardinality
<1>2. PICK tails \in Seq(Align!Anchorable), prev \in [Align!Pages -> Int] :
         s = [tails |-> tails, prev |-> prev]
  BY DEF LaidState
<1>3. PICK n \in Nat : n = Len(tails) /\ DOMAIN tails = 1 .. n  BY <1>2
<1>4. PICK k : k = Cardinality(Lower(s, p))  OBVIOUS
<1>5. k \in 0 .. n
  <2>1. Lower(s, p) \in SUBSET (1 .. n)  BY <1>2, <1>3 DEF Lower
  <2>2. IsFiniteSet(1 .. n) /\ Cardinality(1 .. n) <= n
    <3>1. 1 \in Int /\ n \in Int  BY <1>3
    <3>2. IsFiniteSet(1 .. n) /\ Cardinality(1 .. n) = IF 1 > n THEN 0 ELSE n - 1 + 1
      BY <3>1, FS_Interval
    <3> QED  BY <1>3, <3>2
  <2>3. IsFiniteSet(Lower(s, p)) /\ k <= Cardinality(1 .. n)
    BY <1>4, <2>1, <2>2, FS_Subset
  <2>4. k \in Nat  BY <1>4, <2>3, FS_CardinalityType
  <2>5. Cardinality(1 .. n) \in Nat  BY <2>2, FS_CardinalityType
  <2> QED  BY <1>3, <2>2, <2>3, <2>4, <2>5
<1>6. PICK t : t = Align!Laid(s, p)  OBVIOUS
<1>7. k = Align!Cardinality({j \in DOMAIN s.tails : Align!RawLine(s.tails[j]) < Align!RawLine(p)})
  BY <1>1, <1>4 DEF Lower, Line
<1>8. PICK later : later = IF k = n THEN Append(tails, p) ELSE [tails EXCEPT ![k + 1] = p]
  OBVIOUS
<1>9. PICK follows : follows = [prev EXCEPT ![p] = IF k = 0 THEN Align!NoPage ELSE tails[k]]
  OBVIOUS
<1>10. t = [tails |-> later, prev |-> follows]
  <2>1. t = [tails |-> IF k = Len(s.tails) THEN Append(s.tails, p)
                       ELSE [s.tails EXCEPT ![k + 1] = p],
             prev  |-> [s.prev EXCEPT ![p] = IF k = 0 THEN Align!NoPage ELSE s.tails[k]]]
    BY <1>6, <1>7 DEF Align!Laid
  <2>2. s.tails = tails /\ s.prev = prev  BY <1>2
  <2> QED  BY <1>3, <1>8, <1>9, <2>1, <2>2
<1>11. /\ later \in Seq(Align!Anchorable) /\ Len(later) = (IF k = n THEN n + 1 ELSE n)
       /\ later[k + 1] = p /\ \A j \in 1 .. n : j # k + 1 => later[j] = tails[j]
  <2>1. CASE k = n
    <3>1. later = Append(tails, p)  BY <1>8, <2>1
    <3> QED  BY <1>2, <1>3, <2>1, <3>1
  <2>2. CASE k # n
    <3>1. later = [tails EXCEPT ![k + 1] = p] /\ k + 1 \in 1 .. n  BY <1>3, <1>5, <1>8, <2>2
    <3>2. tails \in [1 .. n -> Align!Anchorable]  BY <1>2, <1>3
    <3>3. later \in [1 .. n -> Align!Anchorable]  BY <3>1, <3>2
    <3>4. later \in Seq(Align!Anchorable) /\ Len(later) = n  BY <1>3, <3>3
    <3> QED  BY <2>2, <3>1, <3>2, <3>4
  <2> QED  BY <2>1, <2>2
<1>12. /\ follows \in [Align!Pages -> Int] /\ follows[p] = (IF k = 0 THEN -1 ELSE tails[k])
       /\ \A q \in Align!Pages : q # p => follows[q] = prev[q]
  <2>1. p \in Align!Pages  BY DEF Align!Anchorable
  <2>2. (IF k = 0 THEN Align!NoPage ELSE tails[k]) \in Int
    <3>1. k # 0 => tails[k] \in Align!Anchorable  BY <1>2, <1>3, <1>5
    <3>2. \A q \in Align!Anchorable : q \in Int
      <4>1. PageCount \in Nat /\ Align!Anchorable \subseteq 0 .. PageCount - 1  BY DEF AnchorableAre
      <4> QED  BY <4>1
    <3>3. k # 0 => tails[k] \in Int  BY <3>1, <3>2
    <3> QED  BY <3>3 DEF Align!NoPage
  <2> QED  BY <1>2, <1>9, <2>1, <2>2 DEF Align!NoPage
<1>13. s.tails = tails /\ s.prev = prev /\ t.tails = later /\ t.prev = follows
  BY <1>2, <1>10
<1>14. t \in LaidState  BY <1>10, <1>11, <1>12 DEF LaidState
<1> QED  BY <1>3, <1>4, <1>5, <1>6, <1>11, <1>12, <1>13, <1>14 DEF LaidAt

\* The pages before the m-th that can be anchored, with the length of the longest sequence
\* that ends at each: a page further on that increases the line has a greater one.
Upto(m) == {p \in Align!Anchorable : p < m}
Ranked(s, m, r) ==
    /\ s \in LaidState /\ s.tails \in Seq(Upto(m))
    /\ r \in [Upto(m) -> 1 .. Len(s.tails)]
    /\ \A j \in 1 .. Len(s.tails) : r[s.tails[j]] = j
    /\ \A i, j \in 1 .. Len(s.tails) : i < j => Line(s.tails[i]) < Line(s.tails[j])
    /\ \A p \in Upto(m) : Line(s.tails[r[p]]) <= Line(p)
    /\ \A p \in Upto(m) :
          \/ r[p] = 1 /\ s.prev[p] = -1
          \/ /\ s.prev[p] \in Upto(m) /\ s.prev[p] < p /\ Line(s.prev[p]) < Line(p)
             /\ r[s.prev[p]] = r[p] - 1
    /\ \A p, q \in Upto(m) : p < q /\ Line(p) < Line(q) => r[p] < r[q]
    /\ \A p \in Align!Pages : p \notin Upto(m) => s.prev[p] = -1

\* The ends of the sequences below a line are the first ones.
LEMMA LowerIs ==
    ASSUME AnchorableAre, NEW m \in Nat, NEW s, NEW r, Ranked(s, m, r),
           NEW p \in Align!Anchorable
    PROVE  \A j \in 1 .. Len(s.tails) : Line(s.tails[j]) < Line(p) <=> j <= Cardinality(Lower(s, p))
<1> DEFINE n == Len(s.tails)
           at(j) == Line(s.tails[j])
<1>1. s.tails \in Seq(Upto(m)) /\ n \in Nat /\ DOMAIN s.tails = 1 .. n  BY DEF Ranked
<1>2. \A j \in 1 .. n : at(j) \in Int
  <2>1. \A j \in 1 .. n : s.tails[j] \in Upto(m)  BY <1>1
  <2>2. \A q \in Upto(m) : Line(q) \in Int  BY DEF AnchorableAre, Upto
  <2> QED  BY <2>1, <2>2
<1>3. \A i, j \in 1 .. n : i < j => at(i) < at(j)  BY DEF Ranked
<1>4. Line(p) \in Int  BY DEF AnchorableAre
<1>5. Lower(s, p) = {j \in 1 .. n : at(j) < Line(p)}  BY <1>1 DEF Lower
<1> HIDE DEF at, n
<1>6. PICK k \in 0 .. n : Lower(s, p) = 1 .. k
  <2>1. CASE Lower(s, p) = {}
    <3>1. 0 \in 0 .. n /\ 1 .. 0 = {}  BY <1>1
    <3> QED  BY <2>1, <3>1
  <2>2. CASE Lower(s, p) # {}
    <3>1. Lower(s, p) \in SUBSET (0 .. n)  BY <1>1, <1>5
    <3>2. PICK k \in Lower(s, p) : \A j \in Lower(s, p) : j <= k
      BY <1>1, <2>2, <3>1, GreatestOf
    <3>3. k \in 1 .. n /\ at(k) < Line(p)  BY <1>5, <3>2
    <3>4. ASSUME NEW j \in 1 .. k PROVE j \in Lower(s, p)
      <4>1. j \in 1 .. n  BY <1>1, <3>3
      <4>2. at(j) <= at(k)  BY <1>2, <1>3, <3>3, <4>1
      <4>3. at(j) < Line(p)  BY <1>2, <1>4, <3>3, <4>1, <4>2
      <4> QED  BY <1>5, <4>1, <4>3
    <3>5. \A j \in Lower(s, p) : j \in 1 .. k  BY <1>1, <1>5, <3>2, <3>3
    <3>6. Lower(s, p) = 1 .. k  BY <3>4, <3>5
    <3>7. k \in 0 .. n  BY <1>1, <3>3
    <3> QED  BY <3>6, <3>7
  <2> QED  BY <2>1, <2>2
<1>7. Cardinality(1 .. k) = k
  <2>1. 1 \in Int /\ k \in Int /\ k \in Nat  BY <1>1, <1>6
  <2>2. Cardinality(1 .. k) = IF 1 > k THEN 0 ELSE k - 1 + 1  BY <2>1, FS_Interval
  <2> QED  BY <2>1, <2>2
<1>8. \A j \in 1 .. n : j \in Lower(s, p) <=> j <= k  BY <1>1, <1>6
<1>9. \A j \in 1 .. n : j \in Lower(s, p) <=> at(j) < Line(p)  BY <1>5
<1> QED  BY <1>6, <1>7, <1>8, <1>9 DEF at, n

\* The next page takes its place after the sequences that end below its line.
LEMMA RankGrows ==
    ASSUME AnchorableAre, NEW m \in Align!Anchorable, NEW s, NEW r, Ranked(s, m, r)
    PROVE  \E r2 : Ranked(Align!Laid(s, m), m + 1, r2)
<1> DEFINE A == Upto(m)
<1>1. m \in Nat /\ m \notin A /\ Upto(m + 1) = A \cup {m}
  <2>1. \A p \in Align!Anchorable : p \in Int /\ p >= 0
    <3>1. PageCount \in Nat /\ Align!Anchorable \subseteq 0 .. PageCount - 1  BY DEF AnchorableAre
    <3> QED  BY <3>1
  <2>2. m \in Nat  BY <2>1
  <2>3. \A p \in Align!Anchorable : p < m + 1 <=> p < m \/ p = m  BY <2>1, <2>2
  <2>4. A = {p \in Align!Anchorable : p < m}  BY DEF Upto
  <2>5. Upto(m + 1) = {p \in Align!Anchorable : p < m + 1}  BY DEF Upto
  <2>6. m \notin A  BY <2>2, <2>4
  <2> HIDE DEF A
  <2>7. Upto(m + 1) = A \cup {m}  BY <2>3, <2>4, <2>5
  <2> QED  BY <2>2, <2>6, <2>7
<1>2. PICK L \in Nat : L = Len(s.tails)  BY DEF Ranked
<1>3. PICK t : t = Align!Laid(s, m)  OBVIOUS
<1>4. PICK k : k = Cardinality(Lower(s, m))  OBVIOUS
<1>5. LaidAt(s, m, k, t)  BY <1>3, <1>4, LaidIs DEF Ranked
<1>6. PICK M : M = Len(t.tails)  OBVIOUS
<1>7. /\ t \in LaidState /\ k \in 0 .. L /\ M = (IF k = L THEN L + 1 ELSE L)
      /\ t.tails[k + 1] = m
      /\ \A j \in 1 .. L : j # k + 1 => t.tails[j] = s.tails[j]
      /\ t.prev[m] = (IF k = 0 THEN -1 ELSE s.tails[k])
      /\ \A q \in Align!Pages : q # m => t.prev[q] = s.prev[q]
  BY <1>2, <1>5, <1>6 DEF LaidAt
<1>8. /\ s.tails \in Seq(A) /\ r \in [A -> 1 .. L]
      /\ \A j \in 1 .. L : r[s.tails[j]] = j
      /\ \A i, j \in 1 .. L : i < j => Line(s.tails[i]) < Line(s.tails[j])
      /\ \A p \in A : Line(s.tails[r[p]]) <= Line(p)
      /\ \A p \in A :
            \/ r[p] = 1 /\ s.prev[p] = -1
            \/ /\ s.prev[p] \in A /\ s.prev[p] < p /\ Line(s.prev[p]) < Line(p)
               /\ r[s.prev[p]] = r[p] - 1
      /\ \A p, q \in A : p < q /\ Line(p) < Line(q) => r[p] < r[q]
      /\ \A p \in Align!Pages : p \notin A => s.prev[p] = -1
  BY <1>2 DEF Ranked
<1>9. \A j \in 1 .. L : s.tails[j] \in A  BY <1>2, <1>8
<1>10. \A p \in A \cup {m} : Line(p) \in Int /\ p \in Align!Anchorable /\ p \in Align!Pages /\ p \in Int
  <2>1. /\ PageCount \in Nat /\ Align!Anchorable \subseteq 0 .. PageCount - 1
        /\ \A p \in Align!Anchorable : Line(p) \in Int
    BY DEF AnchorableAre
  <2>2. A \cup {m} \subseteq Align!Anchorable  BY DEF Upto
  <2> QED  BY <2>1, <2>2 DEF Align!Anchorable
<1>11. \A j \in 1 .. L : Line(s.tails[j]) < Line(m) <=> j <= k
  BY <1>1, <1>2, <1>4, LowerIs
<1>12. \A p \in A : p < m  BY DEF Upto
<1> HIDE DEF A
<1>13. /\ k \in Nat /\ M \in Nat /\ k + 1 \in 1 .. M /\ \A j \in 1 .. L : j \in 1 .. M
       /\ \A j \in 1 .. M : j = k + 1 \/ (j \in 1 .. L /\ j # k + 1)
  BY <1>2, <1>7
<1>14. PICK r2 : r2 = [q \in A \cup {m} |-> IF q = m THEN k + 1 ELSE r[q]]  OBVIOUS
<1>15. /\ r2 \in [A \cup {m} -> 1 .. M] /\ r2[m] = k + 1
       /\ \A q \in A : r2[q] = r[q] /\ r[q] \in 1 .. L
  <2>1. \A q \in A : r[q] \in 1 .. L /\ r[q] \in 1 .. M /\ q # m  BY <1>1, <1>8, <1>13
  <2> QED  BY <1>13, <1>14, <2>1
<1>16. \A j \in 1 .. M : t.tails[j] \in A \cup {m}
  BY <1>7, <1>9, <1>13
<1>17. t.tails \in Seq(A \cup {m})
  <2>1. t.tails \in Seq(Align!Anchorable)  BY <1>7 DEF LaidState
  <2>2. t.tails \in [1 .. M -> A \cup {m}]  BY <1>6, <1>13, <1>16, <2>1
  <2> QED  BY <1>13, <2>2
<1>18. ASSUME NEW j \in 1 .. M PROVE r2[t.tails[j]] = j
  BY <1>7, <1>8, <1>9, <1>13, <1>15
<1>19. ASSUME NEW i \in 1 .. M, NEW j \in 1 .. M, i < j
       PROVE  Line(t.tails[i]) < Line(t.tails[j])
  <2>1. CASE i = k + 1
    <3>1. j \in 1 .. L /\ j # k + 1 /\ i \in 1 .. L /\ ~(i <= k)  BY <1>2, <1>13, <1>19, <2>1
    <3>2. Line(s.tails[i]) < Line(s.tails[j]) /\ ~(Line(s.tails[i]) < Line(m))
      BY <1>8, <1>11, <1>19, <3>1
    <3>3. Line(s.tails[i]) \in Int /\ Line(s.tails[j]) \in Int /\ Line(m) \in Int
      BY <1>9, <1>10, <3>1
    <3>4. Line(m) < Line(s.tails[j])  BY <3>2, <3>3
    <3> QED  BY <1>7, <2>1, <3>1, <3>4
  <2>2. CASE j = k + 1
    <3>1. i \in 1 .. L /\ i # k + 1 /\ i <= k  BY <1>2, <1>13, <1>19, <2>2
    <3> QED  BY <1>7, <1>11, <2>2, <3>1
  <2>3. CASE i # k + 1 /\ j # k + 1
    <3>1. i \in 1 .. L /\ j \in 1 .. L  BY <1>13, <2>3
    <3> QED  BY <1>7, <1>8, <1>19, <2>3, <3>1
  <2> QED  BY <2>1, <2>2, <2>3
<1>20. ASSUME NEW p \in A \cup {m} PROVE Line(t.tails[r2[p]]) <= Line(p)
  <2>1. CASE p = m
    <3>1. t.tails[r2[p]] = m  BY <1>7, <1>15, <2>1
    <3> QED  BY <1>10, <2>1, <3>1
  <2>2. CASE p \in A
    <3>1. r2[p] = r[p] /\ r[p] \in 1 .. L /\ Line(s.tails[r[p]]) <= Line(p)  BY <1>8, <1>15, <2>2
    <3>2. CASE r[p] # k + 1  BY <1>7, <3>1, <3>2
    <3>3. CASE r[p] = k + 1
      <4>1. ~(r[p] <= k)  BY <1>13, <3>3
      <4>2. ~(Line(s.tails[r[p]]) < Line(m))  BY <1>11, <3>1, <4>1
      <4>3. Line(s.tails[r[p]]) \in Int /\ Line(p) \in Int /\ Line(m) \in Int
        BY <1>9, <1>10, <2>2, <3>1
      <4>4. Line(m) <= Line(p)  BY <3>1, <4>2, <4>3
      <4> QED  BY <1>7, <3>1, <3>3, <4>4
    <3> QED  BY <3>2, <3>3
  <2> QED  BY <2>1, <2>2
<1>21. ASSUME NEW p \in A \cup {m}
       PROVE  \/ r2[p] = 1 /\ t.prev[p] = -1
              \/ /\ t.prev[p] \in A \cup {m} /\ t.prev[p] < p /\ Line(t.prev[p]) < Line(p)
                 /\ r2[t.prev[p]] = r2[p] - 1
  <2>1. CASE p = m
    <3>1. CASE k = 0  BY <1>7, <1>15, <2>1, <3>1
    <3>2. CASE k # 0
      <4>1. k \in 1 .. L /\ k <= k  BY <1>2, <1>7, <3>2
      <4>2. t.prev[m] = s.tails[k] /\ s.tails[k] \in A /\ r[s.tails[k]] = k
        BY <1>7, <1>8, <1>9, <3>2, <4>1
      <4>3. s.tails[k] < m /\ Line(s.tails[k]) < Line(m)  BY <1>11, <1>12, <4>1, <4>2
      <4>4. r2[s.tails[k]] = k /\ k = r2[m] - 1  BY <1>13, <1>15, <4>2
      <4> QED  BY <2>1, <4>2, <4>3, <4>4
    <3> QED  BY <3>1, <3>2
  <2>2. CASE p \in A
    <3>1. t.prev[p] = s.prev[p]  BY <1>1, <1>7, <1>10, <2>2
    <3> QED  BY <1>8, <1>15, <2>2, <3>1
  <2> QED  BY <2>1, <2>2
<1>22. ASSUME NEW p \in A \cup {m}, NEW q \in A \cup {m}, p < q, Line(p) < Line(q)
       PROVE  r2[p] < r2[q]
  <2>1. CASE q = m
    <3>1. p \in A  BY <1>10, <1>22, <2>1
    <3>2. r[p] \in 1 .. L /\ Line(s.tails[r[p]]) <= Line(p)  BY <1>8, <3>1
    <3>3. Line(s.tails[r[p]]) \in Int /\ Line(p) \in Int /\ Line(m) \in Int
      BY <1>9, <1>10, <3>1, <3>2
    <3>4. Line(s.tails[r[p]]) < Line(m)  BY <1>22, <2>1, <3>2, <3>3
    <3>5. r[p] <= k  BY <1>11, <3>2, <3>4
    <3> QED  BY <1>13, <1>15, <2>1, <3>1, <3>2, <3>5
  <2>2. CASE q \in A
    <3>1. p \in A  BY <1>1, <1>10, <1>12, <1>22, <2>2
    <3> QED  BY <1>8, <1>15, <1>22, <2>2, <3>1
  <2> QED  BY <2>1, <2>2
<1>24. \A p \in Align!Pages : p \notin A \cup {m} => t.prev[p] = -1
  BY <1>7, <1>8
<1>23. Ranked(t, m + 1, r2)
  BY <1>1, <1>6, <1>7, <1>15, <1>17, <1>18, <1>19, <1>20, <1>21, <1>22, <1>24 DEF Ranked
<1> QED  BY <1>3, <1>23

\* Nothing is laid before the first page.
LEMMA RankStarts ==
    ASSUME AnchorableAre
    PROVE  LET s == [tails |-> <<>>, prev |-> [p \in Align!Pages |-> Align!NoPage]]
           IN  s \in LaidState /\ \E r : Ranked(s, 0, r)
<1>1. PICK s : s = [tails |-> <<>>, prev |-> [p \in Align!Pages |-> Align!NoPage]]  OBVIOUS
<1>2. s \in LaidState /\ s.tails = <<>>
  <2>1. [p \in Align!Pages |-> Align!NoPage] \in [Align!Pages -> Int]  BY DEF Align!NoPage
  <2> QED  BY <1>1, <2>1 DEF LaidState
<1>3. Upto(0) = {}
  <2>1. \A p \in Align!Anchorable : ~(p < 0)
    <3>1. PageCount \in Nat /\ Align!Anchorable \subseteq 0 .. PageCount - 1  BY DEF AnchorableAre
    <3> QED  BY <3>1
  <2> QED  BY <2>1 DEF Upto
<1>4. PICK r : r = [p \in {} |-> 1]  OBVIOUS
<1>5. <<>> \in Seq(Upto(0)) /\ Len(<<>>) = 0 /\ 1 .. 0 = {}  OBVIOUS
<1>6. r \in [Upto(0) -> 1 .. 0]  BY <1>3, <1>4
<1>8. \A p \in Align!Pages : s.prev[p] = -1  BY <1>1 DEF Align!NoPage
<1>7. Ranked(s, 0, r)  BY <1>2, <1>3, <1>5, <1>6, <1>8 DEF Ranked
<1> QED  BY <1>1, <1>2, <1>7

\* All pages are laid in the end.
LEMMA PatienceRanks == ASSUME AnchorableAre PROVE \E r : Ranked(Align!Patience, PageCount, r)
<1> DEFINE none == [tails |-> <<>>, prev |-> [p \in Align!Pages |-> Align!NoPage]]
           n == PageCount
           T == LaidState
           Taken(s, i) == IF i - 1 \in Align!Anchorable THEN Align!Laid(s, i - 1) ELSE s
           Rebuilt(f) == f = [i \in 0 .. n |-> IF i = 0 THEN none ELSE Taken(f[i - 1], i)]
<1>1. n \in Nat  BY DEF AnchorableAre
<1>2. none \in T /\ \E r : Ranked(none, 0, r)  BY RankStarts
<1> HIDE DEF none, T, n
<1>3. ASSUME NEW s \in T, NEW i \in 1 .. n PROVE Taken(s, i) \in T
  BY LaidIs DEF T, LaidAt
<1> HIDE DEF Taken
<1>4. \E f : Rebuilt(f)
  <2>1. PICK step : step = [p \in 1 .. n |-> [x \in T |-> Taken(x, p)]]  OBVIOUS
  <2>2. step \in [1 .. n -> [T -> T]]  BY <1>3, <2>1
  <2>3. PICK f : Passes(T, n, none, step, f)
    <3> HIDE DEF Rebuilt
    <3> QED  BY <1>1, <1>2, <2>2, PassIs
  <2>4. Rebuilt(f)
    <3>1. ASSUME NEW i \in 1 .. n PROVE f[i - 1] \in T /\ f[i] = Taken(f[i - 1], i)
      <4>1. i - 1 \in 0 .. n  BY <1>1
      <4>2. f[i - 1] \in T /\ f[i] = step[i][f[i - 1]]  BY <2>3, <4>1 DEF Passes
      <4> QED  BY <2>1, <4>2
    <3> QED  BY <2>3, <3>1 DEF Passes
  <2> HIDE DEF Rebuilt
  <2> QED  BY <2>4
<1>5. PICK h : Rebuilt(h) /\ Align!Patience = h[n]
  <2>1. Align!Patience = (CHOOSE g : Rebuilt(g))[n]
    BY DEF Align!Patience, Taken, none, n
  <2> HIDE DEF Rebuilt
  <2> QED  BY <1>4, <2>1
<1>6. h[0] = none /\ \A i \in 1 .. n : h[i] = Taken(h[i - 1], i)
  BY <1>1, <1>5
<1> HIDE DEF Rebuilt
<1> DEFINE P == {i \in 0 .. n : \E r : Ranked(h[i], i, r)}
<1>7. 0 \in P  BY <1>1, <1>2, <1>6
<1>8. ASSUME NEW i \in 1 .. n, i - 1 \in P PROVE i \in P
  <2>1. PICK m \in Nat : m = i - 1 /\ i = m + 1 /\ i \in 0 .. n  BY <1>1
  <2>2. PICK r : Ranked(h[m], m, r)  BY <1>8, <2>1
  <2>3. h[i] = Taken(h[m], i)  BY <1>6, <2>1
  <2>4. CASE m \in Align!Anchorable
    <3>1. h[i] = Align!Laid(h[m], m)  BY <2>1, <2>3, <2>4 DEF Taken
    <3>2. \E r2 : Ranked(h[i], m + 1, r2)  BY <2>2, <2>4, <3>1, RankGrows
    <3> QED  BY <2>1, <3>2
  <2>5. CASE m \notin Align!Anchorable
    <3>1. h[i] = h[m]  BY <2>1, <2>3, <2>5 DEF Taken
    <3>2. Upto(m + 1) = Upto(m)
      <4>1. \A p \in Align!Anchorable : p \in Int
        <5>1. PageCount \in Nat /\ Align!Anchorable \subseteq 0 .. PageCount - 1  BY DEF AnchorableAre
        <5> QED  BY <5>1
      <4>2. \A p \in Align!Anchorable : p < m + 1 <=> p < m  BY <2>5, <4>1
      <4> QED  BY <4>2 DEF Upto
    <3>3. Ranked(h[i], m + 1, r)  BY <2>2, <3>1, <3>2 DEF Ranked
    <3> QED  BY <2>1, <3>3
  <2> QED  BY <2>4, <2>5
<1>9. n \in P
  <2>1. n \in 0 .. n  BY <1>1
  <2> HIDE DEF P
  <2>2. \A i \in 0 .. n : i \in P  BY <1>1, <1>7, <1>8, AllReached
  <2> QED  BY <2>1, <2>2
<1> QED  BY <1>5, <1>9 DEF n

\* The sequence that ends at a page: its pages and lines increase, and it is as long as the
\* page's rank.
Chained(r, c, p) ==
    /\ c \subseteq Align!Anchorable /\ p \in c
    /\ \A q \in c : q # p => q < p /\ Line(q) < Line(p)
    /\ \A a, b \in c : a < b => Line(a) < Line(b)
    /\ IsFiniteSet(c) /\ Cardinality(c) = r[p]

\* A page behind the end of a chain, and below it, makes the chain one longer.
LEMMA ChainGrows ==
    ASSUME AnchorableAre, NEW r, NEW c, NEW p \in Align!Anchorable, Chained(r, c, p),
           NEW q \in Align!Anchorable, p < q, Line(p) < Line(q), r[q] \in Nat, r[p] = r[q] - 1
    PROVE  Chained(r, {q} \cup c, q)
<1>1. \A a \in Align!Anchorable : a \in Int /\ Line(a) \in Int
  <2>1. /\ PageCount \in Nat /\ Align!Anchorable \subseteq 0 .. PageCount - 1
        /\ \A a \in Align!Anchorable : Line(a) \in Int
    BY DEF AnchorableAre
  <2> QED  BY <2>1
<1>2. /\ c \subseteq Align!Anchorable /\ p \in c
      /\ \A a \in c : a # p => a < p /\ Line(a) < Line(p)
      /\ \A a, b \in c : a < b => Line(a) < Line(b)
      /\ IsFiniteSet(c) /\ Cardinality(c) = r[p]
  BY DEF Chained
<1>3. \A a \in c : a < q /\ Line(a) < Line(q)  BY <1>1, <1>2
<1>4. q \notin c  BY <1>1, <1>3
<1>5. PICK d : d = {q} \cup c  OBVIOUS
<1>6. d = c \cup {q}  BY <1>5
<1>7. IsFiniteSet(d) /\ Cardinality(d) = r[q]
  <2>1. IsFiniteSet(c \cup {q}) /\ Cardinality(c \cup {q}) = Cardinality(c) + 1
    BY <1>2, <1>4, FS_AddElement
  <2> QED  BY <1>2, <1>6, <2>1
<1>8. ASSUME NEW a \in d, NEW b \in d, a < b PROVE Line(a) < Line(b)
  <2>1. a \in c
    <3>1. a \in Int /\ b \in Int /\ q \in Int /\ (b = q \/ b \in c)  BY <1>1, <1>2, <1>6
    <3>2. b <= q  BY <1>3, <3>1
    <3>3. a # q  BY <1>8, <3>1, <3>2
    <3> QED  BY <1>6, <3>3
  <2>2. CASE b = q  BY <1>3, <2>1, <2>2
  <2>3. CASE b \in c  BY <1>2, <1>8, <2>1, <2>3
  <2> QED  BY <1>6, <2>2, <2>3
<1>9. d \subseteq Align!Anchorable /\ q \in d  BY <1>2, <1>6
<1>10. \A a \in d : a # q => a < q /\ Line(a) < Line(q)  BY <1>3, <1>6
<1> QED  BY <1>5, <1>7, <1>8, <1>9, <1>10 DEF Chained

\* The anchors are the chain that ends at the last page laid.
LEMMA AnchorsChained ==
    ASSUME AnchorableAre, NEW r, Ranked(Align!Patience, PageCount, r), Align!Patience.tails # <<>>
    PROVE  Chained(r, Align!Anchors, Align!Patience.tails[Len(Align!Patience.tails)])
<1>1. PICK s : s = Align!Patience  OBVIOUS
<1> DEFINE A == Align!Anchorable
           L == Len(s.tails)
           Pg == Align!Pages
           Rebuilt(f) == f = [p \in Pg |-> IF s.prev[p] = Align!NoPage THEN {p}
                                           ELSE {p} \cup f[s.prev[p]]]
<1>2. PICK n \in Int : n = PageCount - 1 /\ Pg = 0 .. n /\ A \subseteq 0 .. n
  BY DEF AnchorableAre, Align!Pages
<1>3. Upto(PageCount) = A
  <2>1. PageCount \in Nat /\ \A p \in A : p < PageCount  BY <1>2 DEF AnchorableAre
  <2> QED  BY <2>1 DEF Upto
<1>4. /\ s \in LaidState /\ s.tails \in Seq(A) /\ r \in [A -> 1 .. L]
      /\ \A j \in 1 .. L : r[s.tails[j]] = j
      /\ \A p \in A :
            \/ r[p] = 1 /\ s.prev[p] = -1
            \/ /\ s.prev[p] \in A /\ s.prev[p] < p /\ Line(s.prev[p]) < Line(p)
               /\ r[s.prev[p]] = r[p] - 1
      /\ \A p \in Pg : p \notin A => s.prev[p] = -1
  <2> HIDE DEF A
  <2> QED  BY <1>1, <1>3 DEF Ranked
<1>5. L \in Nat /\ L >= 1 /\ L \in 1 .. L
  <2>1. s.tails # <<>> /\ s.tails \in Seq(A)  BY <1>1, <1>4
  <2> HIDE DEF A
  <2> QED  BY <2>1
<1>6. PICK last : last = s.tails[L] /\ last \in A
  <2> HIDE DEF A
  <2> QED  BY <1>4, <1>5
<1>7. n \in Nat /\ Align!NoPage = -1  BY <1>2, <1>6 DEF Align!NoPage
<1> HIDE DEF A, L, Pg
<1>8. \E f : Rebuilt(f)
  <2>1. PICK from : from = s.prev  OBVIOUS
  <2>2. PICK start : start = [p \in 0 .. n |-> {p}]  OBVIOUS
  <2> DEFINE T == SUBSET Int
  <2>3. PICK step : step = [p \in 0 .. n |-> [x \in T |-> {p} \cup x]]  OBVIOUS
  <2>4. start \in [0 .. n -> T] /\ step \in [0 .. n -> [T -> T]]
    <3>1. \A p \in 0 .. n : {p} \in T /\ \A x \in T : {p} \cup x \in T  BY <1>7
    <3> HIDE DEF T
    <3> QED  BY <2>2, <2>3, <3>1
  <2>5. Earlier(n, from)
    <3>1. from \in [0 .. n -> Int]  BY <1>2, <1>4, <2>1 DEF LaidState, Pg
    <3>2. ASSUME NEW p \in 0 .. n PROVE from[p] = -1 \/ from[p] \in 0 .. p - 1
      <4>1. CASE p \in A
        <5>1. s.prev[p] = -1 \/ (s.prev[p] \in 0 .. n /\ s.prev[p] < p)  BY <1>2, <1>4, <4>1
        <5> QED  BY <1>7, <2>1, <5>1
      <4>2. CASE p \notin A  BY <1>2, <1>4, <2>1, <4>2
      <4> QED  BY <4>1, <4>2
    <3> QED  BY <3>1, <3>2 DEF Earlier
  <2> HIDE DEF T
  <2>6. PICK f : Walks(T, n, from, start, step, f)  BY <1>7, <2>4, <2>5, WalkIs
  <2>7. f \in [0 .. n -> T]  BY <2>6 DEF Walks
  <2>8. ASSUME NEW p \in Pg
        PROVE  f[p] = IF s.prev[p] = Align!NoPage THEN {p} ELSE {p} \cup f[s.prev[p]]
    <3>1. CASE s.prev[p] = -1  BY <1>2, <1>7, <2>1, <2>2, <2>6, <3>1 DEF Walks
    <3>2. CASE s.prev[p] # -1
      <4>1. s.prev[p] \in 0 .. n  BY <1>2, <1>4, <3>2
      <4>2. f[s.prev[p]] \in T  BY <2>7, <4>1
      <4>3. f[p] = step[p][f[s.prev[p]]]  BY <1>2, <2>1, <2>6, <3>2 DEF Walks
      <4> QED  BY <1>2, <1>7, <2>3, <3>2, <4>2, <4>3
    <3> QED  BY <3>1, <3>2
  <2>9. Rebuilt(f)  BY <1>2, <2>7, <2>8
  <2> HIDE DEF Rebuilt
  <2> QED  BY <2>9
<1>9. PICK chain : chain = CHOOSE g : Rebuilt(g)  OBVIOUS
<1>10. Align!Anchors = chain[last]
  <2>1. Align!Anchors = IF s.tails = <<>> THEN {} ELSE chain[Align!Last(s.tails)]
    BY <1>1, <1>9 DEF Align!Anchors, Align!LisKeep, Pg
  <2>2. Align!Last(s.tails) = last  BY <1>6 DEF Align!Last, L
  <2> QED  BY <1>1, <2>1, <2>2
<1>11. Rebuilt(chain)
  <2> HIDE DEF Rebuilt
  <2> QED  BY <1>8, <1>9
<1>12. \A p \in Pg : chain[p] = IF s.prev[p] = Align!NoPage THEN {p} ELSE {p} \cup chain[s.prev[p]]
  BY <1>11
<1> HIDE DEF Rebuilt
<1> DEFINE Right(p) == p \in A => Chained(r, chain[p], p)
           P == {m \in 0 .. n : \A p \in 0 .. m : Right(p)}
<1>13. ASSUME NEW p \in A, \A q \in 0 .. p - 1 : Right(q) PROVE Chained(r, chain[p], p)
  <2>1. p \in Pg /\ p \in 0 .. n /\ p \in Align!Anchorable  BY <1>2 DEF A
  <2>2. CASE r[p] = 1 /\ s.prev[p] = -1
    <3>1. chain[p] = {p}  BY <1>7, <1>12, <2>1, <2>2
    <3>2. IsFiniteSet({p}) /\ Cardinality({p}) = 1  BY FS_Singleton
    <3>3. ~(p < p)  BY <1>7, <2>1
    <3> QED  BY <2>1, <2>2, <3>1, <3>2, <3>3 DEF Chained
  <2>3. CASE /\ s.prev[p] \in A /\ s.prev[p] < p /\ Line(s.prev[p]) < Line(p)
             /\ r[s.prev[p]] = r[p] - 1
    <3>1. PICK q : q = s.prev[p]  OBVIOUS
    <3>2. q \in 0 .. n /\ q \in Align!Anchorable  BY <1>2, <2>3, <3>1 DEF A
    <3>3. q \in 0 .. p - 1 /\ q # -1  BY <1>7, <2>1, <2>3, <3>1, <3>2
    <3>4. Chained(r, chain[q], q)  BY <1>13, <2>3, <3>1, <3>3
    <3>5. chain[p] = {p} \cup chain[q]  BY <1>7, <1>12, <2>1, <3>1, <3>3
    <3>6. r[p] \in Nat  BY <1>4, <1>5
    <3> QED  BY <2>1, <2>3, <3>1, <3>2, <3>4, <3>5, <3>6, ChainGrows
  <2> QED  BY <1>4, <2>2, <2>3
<1>14. 0 \in P
  <2>1. \A p \in 0 .. 0 : p = 0 /\ 0 .. p - 1 = {}  OBVIOUS
  <2>2. Right(0)  BY <1>13, <2>1
  <2> HIDE DEF Right
  <2> QED  BY <1>7, <2>1, <2>2
<1>15. ASSUME NEW i \in 1 .. n, i - 1 \in P PROVE i \in P
  <2>1. \A q \in 0 .. i - 1 : Right(q)  BY <1>15
  <2>2. Right(i)  BY <1>13, <2>1
  <2>3. i \in 0 .. n /\ \A p \in 0 .. i : p = i \/ p \in 0 .. i - 1  BY <1>7
  <2> HIDE DEF Right
  <2> QED  BY <2>1, <2>2, <2>3
<1>16. \A p \in 0 .. n : Right(p)
  <2>1. n \in 0 .. n  BY <1>7
  <2> HIDE DEF P
  <2>2. \A i \in 0 .. n : i \in P  BY <1>7, <1>14, <1>15, AllReached
  <2>3. n \in P  BY <2>1, <2>2
  <2> HIDE DEF Right
  <2> QED  BY <2>3 DEF P
<1>17. Chained(r, chain[last], last)  BY <1>2, <1>6, <1>16
<1> QED  BY <1>1, <1>6, <1>10, <1>17 DEF L

\* The anchors: in the order of the pages their lines increase, and no more pages could be
\* anchored so.
LEMMA AnchorsAre ==
    ASSUME AnchorableAre
    PROVE  /\ Align!Anchors \subseteq Align!Anchorable
           /\ \A p, q \in Align!Anchors : p < q => Line(p) < Line(q)
           /\ \A others \in SUBSET Align!Anchorable :
                 (\A p, q \in others : p < q => Line(p) < Line(q))
                    => Cardinality(others) <= Cardinality(Align!Anchors)
<1>1. PICK r : Ranked(Align!Patience, PageCount, r)  BY PatienceRanks
<1>2. PICK s : s = Align!Patience  OBVIOUS
<1>3. PICK L \in Nat : L = Len(s.tails)  BY <1>1, <1>2 DEF Ranked
<1>4. \A p \in Align!Anchorable : p \in Int /\ p < PageCount
  <2>1. PageCount \in Nat /\ Align!Anchorable \subseteq 0 .. PageCount - 1  BY DEF AnchorableAre
  <2> QED  BY <2>1
<1>5. Upto(PageCount) = Align!Anchorable  BY <1>4 DEF Upto
<1>6. /\ r \in [Align!Anchorable -> 1 .. L] /\ s.tails \in Seq(Align!Anchorable)
      /\ \A j \in 1 .. L : r[s.tails[j]] = j
      /\ \A p, q \in Align!Anchorable : p < q /\ Line(p) < Line(q) => r[p] < r[q]
  BY <1>1, <1>2, <1>3, <1>5 DEF Ranked
<1>7. /\ Align!Anchors \subseteq Align!Anchorable /\ Cardinality(Align!Anchors) = L
      /\ \A p, q \in Align!Anchors : p < q => Line(p) < Line(q)
  <2>1. CASE s.tails = <<>>
    <3>1. Align!Anchors = {}  BY <1>2, <2>1 DEF Align!Anchors, Align!LisKeep
    <3>2. L = 0  BY <1>3, <2>1
    <3> QED  BY <3>1, <3>2, FS_EmptySet
  <2>2. CASE s.tails # <<>>
    <3>1. Chained(r, Align!Anchors, s.tails[L])  BY <1>1, <1>2, <1>3, <2>2, AnchorsChained
    <3>2. L \in 1 .. L  BY <1>3, <1>6, <2>2
    <3>3. r[s.tails[L]] = L  BY <1>6, <3>2
    <3> QED  BY <3>1, <3>3 DEF Chained
  <2> QED  BY <2>1, <2>2
<1>8. ASSUME NEW others \in SUBSET Align!Anchorable,
             \A p, q \in others : p < q => Line(p) < Line(q)
      PROVE  Cardinality(others) <= L
  <2>1. PICK g : g = [p \in others |-> r[p]]  OBVIOUS
  <2>2. g \in [others -> 1 .. L]  BY <1>6, <2>1
  <2>3. ASSUME NEW p \in others, NEW q \in others, g[p] = g[q] PROVE p = q
    <3>1. r[p] = r[q] /\ r[p] \in Nat  BY <1>6, <2>1, <2>3
    <3>2. ~(p < q)  BY <1>6, <1>8, <3>1
    <3>3. ~(q < p)  BY <1>6, <1>8, <3>1
    <3> QED  BY <1>4, <3>2, <3>3
  <2>4. g \in Injection(others, 1 .. L)  BY <2>2, <2>3 DEF Injection, IsInjective
  <2>5. IsFiniteSet(1 .. L) /\ Cardinality(1 .. L) = L
    <3>1. 1 \in Int /\ L \in Int  OBVIOUS
    <3>2. IsFiniteSet(1 .. L) /\ Cardinality(1 .. L) = IF 1 > L THEN 0 ELSE L - 1 + 1
      BY <3>1, FS_Interval
    <3> QED  BY <3>2
  <2>6. Cardinality(others) <= Cardinality(1 .. L)  BY <2>4, <2>5, FS_Injection
  <2> QED  BY <2>5, <2>6
<1> QED  BY <1>7, <1>8

\* A share of a distance, rounded, is within the distance.
LEMMA RoundIs ==
    ASSUME NEW x \in Nat, NEW y \in Nat, NEW z \in Nat, x < z
    PROVE  Align!Round(x * y, z) \in 0 .. y
<1>1. PICK num \in Nat : num = x * y  OBVIOUS
<1>2. PICK q, m : q = num \div z /\ m = num % z  OBVIOUS
<1>3. q \in Int /\ m \in Int /\ num = z * q + m /\ 0 <= m /\ m < z  BY <1>2
<1>4. num <= z * y
  <2>1. x * y <= z * y  OBVIOUS
  <2> QED  BY <1>1, <2>1
<1>5. q <= y
  <2>1. SUFFICES ASSUME q >= y + 1 PROVE FALSE  BY <1>3
  <2>2. z * q >= z * (y + 1)  BY <1>3, <2>1
  <2>3. z * (y + 1) = z * y + z  OBVIOUS
  <2> QED  BY <1>3, <1>4, <2>2, <2>3
<1>6. 0 <= q
  <2>1. SUFFICES ASSUME q <= -1 PROVE FALSE  BY <1>3
  <2>2. z * q <= z * (-1)  BY <1>3, <2>1
  <2>3. z * (-1) = -z  OBVIOUS
  <2> QED  BY <1>1, <1>3, <2>2, <2>3
<1>7. q = y => m = 0
  <2>1. SUFFICES ASSUME q = y, m > 0 PROVE FALSE  BY <1>3
  <2> QED  BY <1>3, <1>4, <2>1
<1>8. PICK v : v = Align!Round(num, z)  OBVIOUS
<1>9. v = q \/ (v = q + 1 /\ ~(2 * m < z))
  BY <1>2, <1>8 DEF Align!Round
<1>10. v = q + 1 => q # y \/ v = q
  <2>1. SUFFICES ASSUME v = q + 1, q = y, v # q PROVE FALSE  OBVIOUS
  <2>2. m = 0 /\ ~(2 * m < z)  BY <1>7, <1>9, <2>1
  <2> QED  BY <1>3, <2>2
<1> QED  BY <1>1, <1>3, <1>5, <1>6, <1>8, <1>9, <1>10

\* A page that is not anchored starts between the anchored pages around it.
LEMMA PlacedIs ==
    ASSUME AlignInv, AnchorableAre, \A p \in Align!Anchorable : Line(p) \in 0 .. Align!NLines - 1,
           Align!NLines \in Nat, NEW p \in Align!Pages, p \notin Align!Anchors
    PROVE  /\ Align!Placed(p, Align!Anchors) \in 0 .. Align!NLines
           /\ \A a \in Align!Anchors :
                 /\ a < p => Line(a) <= Align!Placed(p, Align!Anchors)
                 /\ p < a => Align!Placed(p, Align!Anchors) <= Line(a)
<1> DEFINE n == Align!NLines
           below == {a \in Align!Anchors : a < p}
           above == {a \in Align!Anchors : a > p}
           lo == IF below = {} THEN 0 ELSE Line(Align!Max(below))
           hi == IF above = {} THEN n ELSE Line(Align!Min(above))
           Opens(i) == Align!LineAt(i) \in text[p] /\ (p > 0 => Align!LineAt(i) \notin text[p - 1])
           opening == {i \in lo .. hi - 1 : Opens(i)}
<1>1. /\ Align!Anchors \subseteq Align!Anchorable
      /\ \A a, b \in Align!Anchors : a < b => Line(a) < Line(b)
  BY AnchorsAre
<1>2. p \in Int /\ \A a \in Align!Anchors : a \in Nat /\ a < PageCount /\ Line(a) \in 0 .. n - 1
  <2>1. PageCount \in Nat /\ Align!Anchorable \subseteq 0 .. PageCount - 1  BY DEF AnchorableAre
  <2>2. \A a \in Align!Anchorable : a \in Nat /\ a < PageCount  BY <2>1
  <2>3. p \in Int  BY DEF Align!Pages
  <2> QED  BY <1>1, <2>2, <2>3
<1>3. PICK v : v = Align!Placed(p, Align!Anchors)  OBVIOUS
<1>4. v = IF opening # {} THEN Align!Min(opening)
          ELSE IF below = {} \/ above = {} THEN lo
          ELSE lo + Align!Round((p - Align!Max(below)) * (hi - lo), Align!Min(above) - Align!Max(below))
  BY <1>3 DEF Align!Placed, Line
<1> HIDE DEF Opens
<1>5. below # {} => /\ Align!Max(below) \in below /\ \A a \in below : a <= Align!Max(below)
  <2>1. SUFFICES ASSUME below # {}
                 PROVE Align!Max(below) \in below /\ \A a \in below : a <= Align!Max(below)
    OBVIOUS
  <2>2. PageCount \in Nat /\ below \in SUBSET (0 .. PageCount)
    BY <1>2 DEF AnchorableAre
  <2>3. \A a, b \in below : a <= b <=> b >= a  BY <1>2
  <2> HIDE DEF below
  <2>4. \E x \in below : \A y \in below : y <= x  BY <2>1, <2>2, GreatestOf
  <2>5. \E x \in below : \A y \in below : x >= y  BY <2>3, <2>4
  <2>6. Align!Max(below) \in below /\ \A y \in below : Align!Max(below) >= y
    BY <2>5 DEF Align!Max
  <2> QED  BY <2>3, <2>6
<1>6. above # {} => /\ Align!Min(above) \in above /\ \A a \in above : Align!Min(above) <= a
  <2>1. SUFFICES ASSUME above # {}
                 PROVE Align!Min(above) \in above /\ \A a \in above : Align!Min(above) <= a
    OBVIOUS
  <2>2. above \in SUBSET Nat  BY <1>2
  <2> HIDE DEF above
  <2>4. \E x \in above : \A y \in above : x <= y  BY <2>1, <2>2, LeastOf
  <2> QED  BY <2>4 DEF Align!Min
<1> DEFINE left == Align!Max(below)
           right == Align!Min(above)
<1>7. below # {} => left \in Align!Anchors /\ left < p /\ lo = Line(left)  BY <1>5
<1>8. above # {} => right \in Align!Anchors /\ p < right /\ hi = Line(right)  BY <1>6
<1>9. /\ below = {} => lo = 0
      /\ above = {} => hi = n
  OBVIOUS
<1>10. \A a \in Align!Anchors : (a < p => below # {} /\ a <= left) /\ (p < a => above # {} /\ right <= a)
  <2>1. ASSUME NEW a \in Align!Anchors, a < p PROVE below # {} /\ a <= left  BY <1>5, <2>1
  <2>2. ASSUME NEW a \in Align!Anchors, p < a PROVE above # {} /\ right <= a
    <3>1. a \in above  BY <1>2, <2>2
    <3> QED  BY <1>6, <3>1
  <2> QED  BY <2>1, <2>2
<1> HIDE DEF below, above, left, right, lo, hi
<1>11. lo \in 0 .. n /\ hi \in 0 .. n /\ lo <= hi
  <2>1. lo \in 0 .. n  BY <1>2, <1>7, <1>9
  <2>2. hi \in 0 .. n  BY <1>2, <1>8, <1>9
  <2>3. CASE below = {}  BY <1>9, <2>2, <2>1, <2>3
  <2>4. CASE above = {}  BY <1>9, <2>1, <2>2, <2>4
  <2>5. CASE below # {} /\ above # {}
    <3>1. left < right  BY <1>2, <1>7, <1>8, <2>5
    <3>2. Line(left) < Line(right)  BY <1>1, <1>7, <1>8, <2>5, <3>1
    <3> QED  BY <1>7, <1>8, <2>1, <2>2, <2>5, <3>2
  <2> QED  BY <2>1, <2>2, <2>3, <2>4, <2>5
<1>12. v \in lo .. hi
  <2>1. CASE opening # {}
    <3>1. opening \in SUBSET Nat  BY <1>11
    <3>2. opening \subseteq lo .. hi  BY <1>11
    <3> HIDE DEF opening
    <3>3. \E x \in opening : \A y \in opening : x <= y  BY <2>1, <3>1, LeastOf
    <3>4. Align!Min(opening) \in opening  BY <3>3 DEF Align!Min
    <3> QED  BY <1>4, <2>1, <3>2, <3>4
  <2>2. CASE opening = {} /\ (below = {} \/ above = {})
    <3>1. v = lo  BY <1>4, <2>2
    <3> QED  BY <1>11, <3>1
  <2>3. CASE opening = {} /\ ~(below = {} \/ above = {})
    <3>1. v = lo + Align!Round((p - left) * (hi - lo), right - left)
      BY <1>4, <2>3 DEF left, right
    <3>2. PICK x \in Nat, y \in Nat, z \in Nat : x = p - left /\ y = hi - lo /\ z = right - left /\ x < z
      <4>1. /\ left \in Nat /\ right \in Nat /\ p \in Int /\ left < p /\ p < right
        BY <1>2, <1>7, <1>8, <2>3
      <4>2. p - left \in Nat /\ right - left \in Nat /\ p - left < right - left  BY <4>1
      <4>3. hi - lo \in Nat  BY <1>11
      <4> QED  BY <4>2, <4>3
    <3>3. Align!Round(x * y, z) \in 0 .. y  BY <3>2, RoundIs
    <3>4. v = lo + Align!Round(x * y, z)  BY <3>1, <3>2
    <3>5. PICK w \in 0 .. y : v = lo + w  BY <3>3, <3>4
    <3> QED  BY <1>11, <3>2, <3>5
  <2> QED  BY <2>1, <2>2, <2>3
<1>13. v \in 0 .. n  BY <1>11, <1>12
<1>14. ASSUME NEW a \in Align!Anchors, a < p PROVE Line(a) <= v
  <2>1. below # {} /\ a <= left  BY <1>10, <1>14
  <2>2. left \in Align!Anchors /\ lo = Line(left)  BY <1>7, <2>1
  <2>3. Line(a) <= Line(left)
    <3>1. CASE a = left  BY <1>2, <2>2, <3>1
    <3>2. CASE a # left
      <4>1. a < left  BY <1>2, <2>1, <2>2, <3>2
      <4> QED  BY <1>1, <1>2, <2>2, <4>1
    <3> QED  BY <3>1, <3>2
  <2> QED  BY <1>2, <1>11, <1>12, <2>2, <2>3
<1>15. ASSUME NEW a \in Align!Anchors, p < a PROVE v <= Line(a)
  <2>1. above # {} /\ right <= a  BY <1>10, <1>15
  <2>2. right \in Align!Anchors /\ hi = Line(right)  BY <1>8, <2>1
  <2>3. Line(right) <= Line(a)
    <3>1. CASE a = right  BY <1>2, <2>2, <3>1
    <3>2. CASE a # right
      <4>1. right < a  BY <1>2, <2>1, <2>2, <3>2
      <4> QED  BY <1>1, <1>2, <2>2, <4>1
    <3> QED  BY <3>1, <3>2
  <2> QED  BY <1>2, <1>11, <1>12, <2>2, <2>3
<1> QED  BY <1>3, <1>13, <1>14, <1>15

\* The clamping moves no anchored page, and no other past one.
LEMMA AlignedHolds ==
    ASSUME AlignInv PROVE Align!AnchorsHold
<1>1. Align!NLines \in Nat  BY AlignLines
<1>2. \A p \in Align!Anchorable : Line(p) \in 0 .. Align!NLines - 1
  BY RawLineIs DEF Line
<1>3. AnchorableAre
  <2>1. PageCount \in Nat  BY BoundsAssumption
  <2>2. Align!Anchorable \subseteq 0 .. PageCount - 1  BY RawLineIs
  <2>3. \A p \in Align!Anchorable : Line(p) \in Int  BY <1>1, <1>2
  <2> QED  BY <2>1, <2>2, <2>3 DEF AnchorableAre
<1> DEFINE n == Align!NLines
           start(p) == IF p \in Align!Anchors THEN Align!RawLine(p) ELSE Align!Placed(p, Align!Anchors)
           upTo(p) == {start(q) : q \in 0 .. p}
<1>4. /\ Align!Anchors \subseteq Align!Anchorable
      /\ \A p, q \in Align!Anchors : p < q => Line(p) < Line(q)
      /\ \A others \in SUBSET Align!Anchorable :
            (\A p, q \in others : p < q => Line(p) < Line(q))
               => Cardinality(others) <= Cardinality(Align!Anchors)
  BY <1>3, AnchorsAre
<1>5. PageCount \in Nat /\ Align!Pages = 0 .. PageCount - 1 /\ Align!Anchors \subseteq Align!Pages
  BY <1>3, <1>4, BoundsAssumption DEF Align!Pages, AnchorableAre
<1>6. ASSUME NEW p \in Align!Pages
      PROVE  /\ start(p) \in 0 .. n
             /\ \A a \in Align!Anchors : /\ a <= p => Line(a) <= start(p)
                                         /\ p <= a => start(p) <= Line(a)
  <2>1. \A a \in Align!Anchors : a \in Int /\ Line(a) \in 0 .. n - 1  BY <1>2, <1>4, <1>5
  <2>2. p \in Int  BY <1>5
  <2>3. CASE p \in Align!Anchors
    <3>1. start(p) = Line(p)  BY <2>3 DEF Line
    <3>2. ASSUME NEW a \in Align!Anchors
          PROVE  (a <= p => Line(a) <= Line(p)) /\ (p <= a => Line(p) <= Line(a))
      <4>1. CASE a = p  BY <2>1, <4>1
      <4>2. CASE a # p
        <5>1. (a <= p => Line(a) < Line(p)) /\ (p <= a => Line(p) < Line(a))
          BY <1>4, <2>1, <2>2, <2>3, <4>2
        <5> QED  BY <2>1, <2>3, <5>1
      <4> QED  BY <4>1, <4>2
    <3>3. Line(p) \in 0 .. n  BY <1>1, <2>1, <2>3
    <3> HIDE DEF start
    <3> QED  BY <3>1, <3>2, <3>3
  <2>4. CASE p \notin Align!Anchors
    <3>1. start(p) = Align!Placed(p, Align!Anchors)  BY <2>4
    <3>2. /\ Align!Placed(p, Align!Anchors) \in 0 .. n
          /\ \A a \in Align!Anchors : /\ a < p => Line(a) <= Align!Placed(p, Align!Anchors)
                                      /\ p < a => Align!Placed(p, Align!Anchors) <= Line(a)
      BY <1>1, <1>2, <1>3, <2>4, PlacedIs
    <3>3. \A a \in Align!Anchors : a # p  BY <2>4
    <3> HIDE DEF start
    <3> QED  BY <2>1, <2>2, <3>1, <3>2, <3>3
  <2> QED  BY <2>3, <2>4
<1> HIDE DEF start
<1>7. ASSUME NEW p \in Align!Pages
      PROVE  /\ Align!Max(upTo(p)) \in upTo(p)
             /\ \A q \in 0 .. p : start(q) <= Align!Max(upTo(p))
  <2>1. p \in 0 .. PageCount - 1 /\ \A q \in 0 .. p : q \in Align!Pages  BY <1>5
  <2>2. upTo(p) \in SUBSET (0 .. n) /\ upTo(p) # {}
    <3>1. p \in 0 .. p  BY <1>5, <2>1
    <3> QED  BY <1>6, <2>1, <3>1
  <2>3. \A x, y \in upTo(p) : x >= y <=> y <= x  BY <1>1, <2>2
  <2>4. \A q \in 0 .. p : start(q) \in upTo(p)  OBVIOUS
  <2> HIDE DEF upTo
  <2>5. \E x \in upTo(p) : \A y \in upTo(p) : y <= x  BY <1>1, <2>2, GreatestOf
  <2>6. \E x \in upTo(p) : \A y \in upTo(p) : x >= y  BY <2>3, <2>5
  <2>7. Align!Max(upTo(p)) \in upTo(p) /\ \A y \in upTo(p) : Align!Max(upTo(p)) >= y
    BY <2>6 DEF Align!Max
  <2> QED  BY <2>3, <2>4, <2>7
<1>8. ASSUME NEW p \in Align!Pages
      PROVE  Align!Clamped([q \in Align!Pages |-> start(q)])[p] = Align!Max(upTo(p))
  <2>1. PICK f : f = [q \in Align!Pages |-> start(q)]  OBVIOUS
  <2>2. \A q \in 0 .. p : q \in Align!Pages  BY <1>5
  <2>3. {f[q] : q \in 0 .. p} = upTo(p)  BY <2>1, <2>2
  <2>4. Align!Clamped(f)[p] = Align!Max({f[q] : q \in 0 .. p})  BY DEF Align!Clamped
  <2> QED  BY <2>1, <2>3, <2>4
<1>9. ASSUME Align!Trusted, NEW p \in Align!Pages
      PROVE  Align!AlignPageLines[p] = Align!Max(upTo(p))
  <2>1. Align!AlignPageLines = Align!Clamped([q \in Align!Pages |-> start(q)])
    BY <1>9 DEF Align!AlignPageLines, start
  <2> QED  BY <1>8, <2>1
<1>10. ASSUME NEW p \in Align!Pages, NEW a \in Align!Anchors
       PROVE  /\ a <= p => Line(a) <= Align!Max(upTo(p))
              /\ p <= a => Align!Max(upTo(p)) <= Line(a)
  <2>1. p \in Int /\ a \in Int /\ a >= 0 /\ \A q \in 0 .. p : q \in Align!Pages /\ q <= p  BY <1>5
  <2>2. ASSUME a <= p PROVE Line(a) <= Align!Max(upTo(p))
    <3>1. a \in 0 .. p /\ a \in Align!Pages  BY <1>5, <2>1, <2>2
    <3>2. start(a) <= Align!Max(upTo(p))  BY <1>7, <3>1
    <3>3. start(a) = Line(a)  BY DEF start, Line
    <3> QED  BY <3>2, <3>3
  <2>3. ASSUME p <= a PROVE Align!Max(upTo(p)) <= Line(a)
    <3>1. PICK q \in 0 .. p : Align!Max(upTo(p)) = start(q)  BY <1>7
    <3>2. q \in Align!Pages /\ q <= a  BY <2>1, <2>3
    <3> QED  BY <1>6, <3>1, <3>2
  <2> QED  BY <2>2, <2>3
<1> HIDE DEF upTo
<1>11. ASSUME Align!Trusted, NEW p \in Align!Anchors PROVE Align!AlignPageLines[p] = Align!RawLine(p)
  <2>1. p \in Align!Pages /\ p \in Int /\ p <= p  BY <1>5
  <2>2. Line(p) <= Align!Max(upTo(p)) /\ Align!Max(upTo(p)) <= Line(p)  BY <1>10, <2>1
  <2>3. Line(p) \in Int  BY <1>2, <1>4
  <2>4. Align!Max(upTo(p)) \in Int
    <3>1. PICK q \in 0 .. p : Align!Max(upTo(p)) = start(q)  BY <1>7, <2>1 DEF upTo
    <3>2. q \in Align!Pages  BY <1>5, <2>1
    <3> QED  BY <1>1, <1>6, <3>1, <3>2
  <2>5. Align!Max(upTo(p)) = Line(p)  BY <2>2, <2>3, <2>4
  <2> QED  BY <1>9, <1>11, <2>1, <2>5 DEF Line
<1>12. ASSUME Align!Trusted, NEW p \in Align!Pages, NEW a \in Align!Anchors
       PROVE  /\ p < a => Align!AlignPageLines[p] <= Align!RawLine(a)
              /\ a < p => Align!AlignPageLines[p] >= Align!RawLine(a)
  <2>1. p \in Int /\ a \in Int /\ Line(a) \in Int  BY <1>2, <1>4, <1>5
  <2>2. Align!Max(upTo(p)) \in Int
    <3>1. PICK q \in 0 .. p : Align!Max(upTo(p)) = start(q)  BY <1>7 DEF upTo
    <3>2. q \in Align!Pages  BY <1>5
    <3> QED  BY <1>1, <1>6, <3>1, <3>2
  <2>3. Align!AlignPageLines[p] = Align!Max(upTo(p))  BY <1>9, <1>12
  <2>4. Line(a) = Align!RawLine(a)  BY DEF Line
  <2>5. p < a => Align!Max(upTo(p)) <= Line(a)  BY <1>10, <2>1
  <2>6. a < p => Align!Max(upTo(p)) >= Line(a)  BY <1>10, <2>1, <2>2
  <2> QED  BY <2>3, <2>4, <2>5, <2>6
<1>13. \A S : Align!Cardinality(S) = Cardinality(S)
  BY Zenon DEF Align!Cardinality, Cardinality
<1>14. \A p, q \in Align!Anchors : p < q => Align!RawLine(p) < Align!RawLine(q)
  BY <1>4 DEF Line
<1>15. \A others \in SUBSET Align!Anchorable :
         (\A p, q \in others : p < q => Align!RawLine(p) < Align!RawLine(q))
            => Align!Cardinality(others) <= Align!Cardinality(Align!Anchors)
  BY <1>4, <1>13 DEF Line
<1> QED  BY <1>11, <1>12, <1>14, <1>15 DEF Align!AnchorsHold

\* Whatever docling wrote and wherever the passages are: the anchors are a longest sequence
\* of pages whose lines increase (the patience sort of _lis_keep), each anchored page starts
\* at its own line, and no guess for the others leaves its bracket (_align_page_lines of
\* pdf_convert.py).
THEOREM AnchorsAlwaysHold == ContentsSpec => []AnchorsHold
<1> DEFINE I == part = "align" => AlignInv
<1>1. ContentsInit => I
  BY AlignStarts DEF ContentsInit
<1>2. I /\ [ContentsNext]_contentVars => I'
  <2> SUFFICES ASSUME I, [ContentsNext]_contentVars, part' = "align" PROVE AlignInv'
    OBVIOUS
  <2>1. CASE UNCHANGED contentVars
    BY <2>1 DEF contentVars, alignVars, AlignInv, Align!Pages, Align!Passages
  <2>2. CASE ContentsNext
    <3>1. Align!Next /\ AlignInv  BY <2>2 DEF ContentsNext
    <3> QED  BY <3>1, AlignKept
  <2> QED  BY <2>1, <2>2
<1>3. I => AnchorsHold
  BY AlignedHolds DEF AnchorsHold
<1> QED  BY <1>1, <1>2, <1>3, PTL DEF ContentsSpec
=============================================================================
