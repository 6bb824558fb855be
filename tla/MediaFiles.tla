----------------------------- MODULE MediaFiles -----------------------------
(***************************************************************************)
(* The image files of the articles: a run writes and prunes them before it  *)
(* commits the article that refers to them (process_article_result), and    *)
(* the hourly sweep removes the directories of articles that are gone       *)
(* (services/media_gc.py).                                                 *)
(*                                                                         *)
(* An image is its bytes, which name its file.  An article has a directory  *)
(* under its id, which it has from the flush on, before it is committed.    *)
(***************************************************************************)
EXTENDS Naturals, FiniteSets

CONSTANTS
    Workers,
    Pages,
    Pdf,          \* those that are sections of a PDF
    Images,
    MaxEdits,     \* changes of the pages (bound)
    MaxIds        \* articles ever flushed (bound)

VARIABLES
    page,       \* the images of each page
    edits,      \* changes so far
    article,    \* the committed article of each page: its id, its images, what was scraped
    dir,        \* the files of each directory
    ids,        \* ids given out
    work,       \* what the extraction lane of each worker is at
    deleted,    \* pages whose source was deleted
    torn        \* history: pages whose files were touched and whose commit did not follow

mediaVars == <<page, edits, article, dir, ids, work, deleted, torn>>

NoId == 0
NoArticle == [id |-> NoId, images |-> {}, scraped |-> {}]
Idle == [at |-> "idle", page |-> CHOOSE p \in Pages : TRUE, id |-> NoId, seen |-> {}, got |-> {}]
Ids == 1 .. MaxIds

Init ==
    /\ page \in [Pages -> SUBSET Images]
    /\ edits = 0
    /\ article = [p \in Pages |-> NoArticle]
    /\ dir = [i \in Ids |-> {}]
    /\ ids = 0
    /\ work = [w \in Workers |-> Idle]
    /\ deleted = {} /\ torn = {}

Edit(p, images) ==
    /\ edits < MaxEdits /\ images # page[p]
    /\ page' = [page EXCEPT ![p] = images]
    /\ edits' = edits + 1
    /\ UNCHANGED <<article, dir, ids, work, deleted, torn>>

-----------------------------------------------------------------------------
(* A page is stored.  A source has one run, so a page has one worker.      *)

Busy(w) == work[w].at # "idle"

\* One that is as it was scraped is left alone; a new one is flushed for its id.
Begin(w, p) ==
    /\ ~Busy(w) /\ p \notin deleted
    /\ \A v \in Workers : Busy(v) => work[v].page # p
    /\ article[p].id = NoId \/ article[p].scraped # page[p]
    /\ article[p].id = NoId => ids < MaxIds
    /\ ids' = IF article[p].id = NoId THEN ids + 1 ELSE ids
    /\ work' = [work EXCEPT ![w] = [at |-> "fetch", page |-> p, seen |-> page[p], got |-> {},
                                    id |-> IF article[p].id = NoId THEN ids + 1 ELSE article[p].id]]
    /\ UNCHANGED <<page, edits, article, dir, deleted, torn>>

\* The images that can be had are written to the directory; that of a PDF section is
\* emptied, for what the conversion made of it.
Fetch(w, got) ==
    LET now == work[w]
    IN  /\ now.at = "fetch" /\ got \subseteq now.seen
        /\ now.page \in Pdf => got = now.seen
        /\ dir' = [dir EXCEPT ![now.id] = IF now.page \in Pdf THEN {} ELSE @ \cup got]
        /\ torn' = IF now.page \in Pdf THEN torn \cup {now.page} ELSE torn
        /\ work' = [work EXCEPT ![w].at = "tidy", ![w].got = got]
        /\ UNCHANGED <<page, edits, article, ids, deleted>>

\* Other files are pruned, unless every download failed.
Tidy(w) ==
    LET now == work[w]
        all == now.got = {} /\ now.seen # {}
    IN  /\ now.at = "tidy"
        /\ dir' = [dir EXCEPT ![now.id] = IF all THEN @ ELSE now.got]
        /\ torn' = IF all THEN torn ELSE torn \cup {now.page}
        /\ work' = [work EXCEPT ![w].at = "commit"]
        /\ UNCHANGED <<page, edits, article, ids, deleted>>

\* It fails when the source was deleted meanwhile.
Commit(w) ==
    LET now == work[w]
    IN  /\ now.at = "commit"
        /\ IF now.page \in deleted THEN UNCHANGED <<article, torn>>
           ELSE /\ article' = [article EXCEPT ![now.page] =
                                  [id |-> now.id, images |-> now.got, scraped |-> now.seen]]
                /\ torn' = torn \ {now.page}
        /\ work' = [work EXCEPT ![w] = Idle]
        /\ UNCHANGED <<page, edits, dir, ids, deleted>>

\* The worker is lost, or the page fails: the transaction is rolled back, the files stay.
Abort(w) ==
    /\ Busy(w)
    /\ work' = [work EXCEPT ![w] = Idle]
    /\ UNCHANGED <<page, edits, article, dir, ids, deleted, torn>>

\* With its source.
Delete(p) ==
    /\ p \notin deleted
    /\ deleted' = deleted \cup {p}
    /\ article' = [article EXCEPT ![p] = NoArticle]
    /\ UNCHANGED <<page, edits, dir, ids, work, torn>>

-----------------------------------------------------------------------------
(* The sweep.                                                              *)

Existing == {article[p].id : p \in Pages}

\* Mutant of Rides: maintenance has a lane of its own.
RidesAlone(w) == TRUE

\* It rides the extraction lane, between two runs.
Rides(w) == ~Busy(w)

Collect(w) ==
    /\ Rides(w)
    /\ \E i \in Ids : dir[i] # {} /\ i \notin Existing
    /\ dir' = [i \in Ids |-> IF i \in Existing THEN dir[i] ELSE {}]
    /\ UNCHANGED <<page, edits, article, ids, work, deleted, torn>>

Next ==
    \/ \E p \in Pages, images \in SUBSET Images : Edit(p, images)
    \/ \E w \in Workers, p \in Pages : Begin(w, p)
    \/ \E w \in Workers, got \in SUBSET Images : Fetch(w, got)
    \/ \E w \in Workers : Tidy(w) \/ Commit(w) \/ Abort(w) \/ Collect(w)
    \/ \E p \in Pages : Delete(p)

Spec == Init /\ [][Next]_mediaVars

-----------------------------------------------------------------------------
\* What an article refers to is there, over failed downloads, lost workers, pruning
\* and sweeps, unless its page was given up after its files had been touched.
ImagesAreThere == \A p \in Pages \ torn : article[p].id # NoId => article[p].images \subseteq dir[article[p].id]

=============================================================================
