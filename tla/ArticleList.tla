---------------------------- MODULE ArticleList ----------------------------
(***************************************************************************)
(* A client that pages through the articles of a source (list_articles of   *)
(* routes/articles.py) by the cursor of each page, while a run adds articles*)
(* to the list and moves others.                                           *)
(*                                                                         *)
(* An article is its id, a number: ids order articles that share a place.   *)
(***************************************************************************)
EXTENDS Naturals, Sequences

CONSTANTS
    MaxId,       \* articles (bound)
    MaxPlace,    \* places in the TOC (bound)
    PageLimit,   \* articles of a page
    MaxChanges   \* what the run changes during a walk (bound)

VARIABLES
    place,     \* sort_order of each article, 0 when there is none
    changes,   \* changes so far
    walk,      \* "start", "on" or "over"
    cursor,    \* place and id of the last article sent
    sent,      \* the articles sent, page after page
    steady     \* history: articles that kept their place since the walk began

listVars == <<place, changes, walk, cursor, sent, steady>>

Articles == 1 .. MaxId
Absent == 0
Listed == {a \in Articles : place[a] # Absent}

Init ==
    /\ place \in [Articles -> 0 .. MaxPlace]
    /\ changes = 0
    /\ walk = "start" /\ cursor = <<0, 0>> /\ sent = <<>>
    /\ steady = Listed

\* A run stores an article at the place that its page has in the new TOC.
Store(a, at) ==
    /\ changes < MaxChanges /\ at # place[a]
    /\ place' = [place EXCEPT ![a] = at]
    /\ changes' = changes + 1
    /\ steady' = steady \ {a}
    /\ UNCHANGED <<walk, cursor, sent>>

Before(p, q) == p[1] < q[1] \/ (p[1] = q[1] /\ p[2] < q[2])

\* Mutant of After: the articles that share the place of the cursor are left out.
AfterPlace(a) == place[a] > cursor[1]

After(a) == Before(cursor, <<place[a], a>>)

\* What a query may answer: no more articles than a page and one to tell if more follow.
Answers == UNION {[1 .. n -> Articles] : n \in 0 .. PageLimit + 1}

\* The cursor names the place and the id of an article, and both come back.
Encode(a) == <<place[a], a>>

\* The first of the articles after the cursor, in order.
Rows(rows) ==
    /\ \A i \in DOMAIN rows : rows[i] \in Listed /\ After(rows[i])
    /\ \A i, j \in DOMAIN rows : i < j => Before(Encode(rows[i]), Encode(rows[j]))
    /\ \A a \in Listed : After(a) /\ (\A i \in DOMAIN rows : rows[i] # a) =>
          Len(rows) = PageLimit + 1 /\ \A i \in DOMAIN rows : Before(Encode(rows[i]), Encode(a))

HasMore(rows) == Len(rows) > PageLimit
Items(rows) == IF HasMore(rows) THEN SubSeq(rows, 1, PageLimit) ELSE rows

NextCursor(rows) == IF HasMore(rows) THEN Encode(rows[PageLimit]) ELSE cursor

\* A page tells whether more articles follow, and from where.
Response(rows) ==
    [articles |-> Items(rows), has_more |-> HasMore(rows), next_cursor |-> NextCursor(rows)]

NextPage ==
    /\ walk # "over"
    /\ \E rows \in Answers :
          /\ Rows(rows)
          /\ sent' = sent \o Response(rows).articles
          /\ walk' = IF Response(rows).has_more THEN "on" ELSE "over"
          /\ cursor' = Response(rows).next_cursor
    /\ UNCHANGED <<place, changes, steady>>

Next ==
    \/ \E a \in Articles, at \in 1 .. MaxPlace : Store(a, at)
    \/ NextPage

Spec == Init /\ [][Next]_listVars

-----------------------------------------------------------------------------
\* However the run changed the list between two pages, an article that kept its place
\* is sent once.
SteadyIsSentOnce ==
    \A a \in steady :
        /\ \A i, j \in DOMAIN sent : sent[i] = a /\ sent[j] = a => i = j
        /\ walk = "over" => \E i \in DOMAIN sent : sent[i] = a
=============================================================================
