-------------------------- MODULE ExtractRunProofs --------------------------
(***************************************************************************)
(* Proofs about ExtractRun, for any pages, releases, paths and bounds:     *)
(* TypeOK, KeysUnique, CheckpointIsHonest, StoredIsKept, RemovalsAreDue.   *)
(***************************************************************************)
EXTENDS ExtractRun, FiniteSetTheorems, TLAPS

\* A list whose parts are pages that it records.
Lists == {l \in List : l.dangling \cup l.open \subseteq l.blocked}

\* Only extractions discover and remove, a page waits for its checkpoint in the first
\* pass only, and a discovery finds no more than the site has.
RunOK(r) ==
    /\ r \in Run /\ r.list \in Lists /\ r.seen \in Lists /\ r.asked \in Lists
    /\ r.phase \notin {"none", "retry", "finish"} => r.kind = "extract"
    /\ r.phase # "scrape" => r.mark = {}
    /\ r.phase \notin {"scrape", "retry"} => r.todo = {}
    /\ r.total <= Cardinality(Page)

\* The articles are finitely many, and each has a key of its page.
ArticlesOK(rows) ==
    /\ rows \subseteq Article /\ IsFiniteSet(rows)
    /\ \A a \in rows : a.key[1] = a.url[1]

Types == TypeOK /\ RunOK(run) /\ ArticlesOK(articles)

\* The page about to be checkpointed is as honest as those that were.
MarkIsHonest == \A u \in run.mark : fate[u] # "untried" /\ (Raw => fate[u] = "stored")
Honest == CheckpointIsHonest /\ MarkIsHonest

\* The texts only grow, and only what the site has had is stored.
TimesFit ==
    /\ \A p \in Topic : since[p] <= site.text[p] /\ site.text[p] <= edits
    /\ \A u \in Url : fate[u] = "stored" => u[2] <= site.release

\* What the cycle stored last of each page is there, removed or not ...
StoredIsThere == \A u \in Url : StoredLast(u) => \E a \in articles : Fresh(a, u)

\* ... and is linked, or can be: no other article is linked at its URL.
Extracting == run.kind = "extract" /\ run.phase \in {"scrape", "retry", "reconcile"}
StoredIsLinked ==
    Extracting => \A u \in toc : StoredLast(u) =>
        \E a \in articles : Fresh(a, u) /\ (a.link \/ \A b \in articles : b.url = u => ~b.link)

StoreInv == TimesFit /\ StoredIsThere /\ StoredIsLinked /\ StoredIsKept

\* A guide that was found empty had at most one page, and gets no more of them.
Guide == {a \in Live : a.url[1] # Index}
GuideIsGuarded ==
    Extracting /\ ~run.allow /\ lastOk # 1 /\ (\A u \in toc : u[1] = Index) =>
        /\ Cardinality(Guide) <= 1
        /\ run.phase = "scrape" => run.total <= 1 /\ \A u \in run.todo : u[1] = Index
        /\ run.phase = "retry" => run.todo \subseteq run.asked.dangling

RunInv == Types /\ KeysUnique /\ Honest /\ StoreInv /\ GuideIsGuarded
-----------------------------------------------------------------------------
(* Types.                                                                  *)

LEMMA EmptyIsList == Empty \in Lists
BY DEF Empty, Lists, List

LEMMA DanglingIsList ==
    ASSUME NEW l \in Lists
    PROVE  /\ AllDangle(l) \in Lists /\ AllDangle(l).blocked = l.blocked
           /\ AllDangle(l).dangling = l.blocked
BY DEF Lists, List, AllDangle

LEMMA NoRunIsRun == NoRun \in Run
<1>1. Empty \in List  BY EmptyIsList DEF Lists
<1> HIDE DEF Empty
<1> QED  BY <1>1 DEF NoRun, Run

LEMMA SiteIsTyped ==
    ASSUME TypeOK
    PROVE  /\ SiteUrls \subseteq Url /\ <<Index, site.release>> \in Url
           /\ \A found \in SUBSET SiteUrls : Entries(found) \subseteq Url /\ Entries(found) # {}
<1>1. site.release \in 1 .. MaxRelease /\ site.pages \subseteq Page
  BY DEF TypeOK
<1>2. SiteUrls \subseteq Url /\ <<Index, site.release>> \in Url
  BY <1>1 DEF SiteUrls, Url, Topic
<1> QED  BY <1>2 DEF Entries

\* A discovery finds no more entries than there are pages.
LEMMA EntriesAreFew ==
    ASSUME TypeOK, NEW found \in SUBSET SiteUrls
    PROVE  /\ IsFiniteSet(Entries(found)) /\ Cardinality(Entries(found)) \in Nat
           /\ Cardinality(Entries(found)) <= Cardinality(Page)
<1>0. IsFiniteSet(Page) /\ Cardinality(Page) \in Nat
  BY PagesAssumption, FS_CardinalityType
<1>1. CASE found = {}
  <2>1. Entries(found) = {<<Index, site.release>>}  BY <1>1 DEF Entries
  <2>2. IsFiniteSet(Entries(found)) /\ Cardinality(Entries(found)) = 1
    BY <2>1, FS_Singleton
  <2>3. Cardinality(Page) # 0  BY <1>0, PagesAssumption, FS_EmptySet
  <2> QED  BY <1>0, <2>2, <2>3
<1>2. CASE found # {}
  <2> DEFINE f == [p \in Page |-> <<p, site.release>>]
  <2>1. f \in Surjection(Page, {f[p] : p \in Page})
    BY DEF Surjection
  <2>2. IsFiniteSet({f[p] : p \in Page}) /\ Cardinality({f[p] : p \in Page}) <= Cardinality(Page)
    BY <1>0, <2>1, FS_Surjection
  <2>3. Entries(found) \subseteq {f[p] : p \in Page}
    BY <1>2 DEF Entries, SiteUrls, TypeOK
  <2>4. IsFiniteSet(Entries(found)) /\ Cardinality(Entries(found)) <= Cardinality({f[p] : p \in Page})
    BY <2>2, <2>3, FS_Subset
  <2>5. Cardinality(Entries(found)) \in Nat /\ Cardinality({f[p] : p \in Page}) \in Nat
    BY <2>2, <2>4, FS_CardinalityType
  <2> QED  BY <1>0, <2>2, <2>4, <2>5
<1> QED  BY <1>1, <1>2

\* A page is done with: what is left to do, and what is to be checkpointed.
LEMMA AfterIs ==
    ASSUME NEW r \in Run, NEW u \in Url, NEW stored \in BOOLEAN
    PROVE  /\ After(r, u, stored) \in Run
           /\ After(r, u, stored).todo = r.todo \ {u}
           /\ After(r, u, stored).mark \in {{}, {u}}
           /\ r.phase # "scrape" => After(r, u, stored).mark = {}
           /\ Raw /\ ~stored => After(r, u, stored).mark = {}
           /\ After(r, u, stored).phase = r.phase /\ After(r, u, stored).kind = r.kind
           /\ After(r, u, stored).allow = r.allow /\ After(r, u, stored).total = r.total
           /\ After(r, u, stored).open = r.open /\ After(r, u, stored).list = r.list
           /\ After(r, u, stored).seen = r.seen /\ After(r, u, stored).asked = r.asked
<1> DEFINE m == IF r.phase = "scrape" /\ (path \in {"batch", "tracked"} \/ (Raw /\ stored))
                THEN {u} ELSE {}
           t == IF Raw THEN r.tried + 1 ELSE r.tried
           n == IF Raw /\ ~stored THEN r.failed + 1 ELSE r.failed
<1>1. After(r, u, stored) = [r EXCEPT !.todo = r.todo \ {u}, !.mark = m, !.tried = t, !.failed = n]
  BY DEF After
<1>2. m \in {{}, {u}} /\ t \in Nat /\ n \in Nat /\ (r.phase # "scrape" => m = {})
      /\ (Raw /\ ~stored => m = {})
  BY DEF Run, Raw
<1> HIDE DEF m, t, n
<1>3. After(r, u, stored) \in Run
  <2>1. r.todo \ {u} \in SUBSET Url /\ m \in SUBSET Url /\ t \in Nat /\ n \in Nat
    BY <1>2 DEF Run
  <2> DEFINE todo == r.todo \ {u}
  <2>2. After(r, u, stored) = [r EXCEPT !.todo = todo, !.mark = m, !.tried = t, !.failed = n]
    BY <1>1
  <2>3. todo \in SUBSET Url  BY <2>1
  <2> HIDE DEF todo
  <2> QED  BY <2>1, <2>2, <2>3 DEF Run
<1>4. After(r, u, stored).todo = r.todo \ {u} /\ After(r, u, stored).mark = m
  BY <1>1 DEF Run
<1>5. /\ After(r, u, stored).phase = r.phase /\ After(r, u, stored).kind = r.kind
      /\ After(r, u, stored).allow = r.allow /\ After(r, u, stored).total = r.total
      /\ After(r, u, stored).open = r.open /\ After(r, u, stored).list = r.list
      /\ After(r, u, stored).seen = r.seen /\ After(r, u, stored).asked = r.asked
  BY <1>1 DEF Run
<1> QED  BY <1>2, <1>3, <1>4, <1>5

\* What is matched is of the page's topic, and the article stored in its place is the
\* only one of its key.
LEMMA MatchesAre ==
    ASSUME Types, KeysUnique, NEW u \in Url
    PROVE  /\ Matches(u) \subseteq articles
           /\ \A a \in articles : a.key = KeyOf(u) => Matches(u) = {a}
           /\ \A a \in Matches(u) : a.url[1] = u[1]
           /\ KeyOf(u) \in Key /\ KeyOf(u)[1] = u[1]
<1> DEFINE byKey == {a \in articles : a.key = KeyOf(u)}
           byUrl == {a \in Live : a.url = u}
           byPage == {a \in Live : u \in run.open /\ a.url[1] = u[1]}
<1>1. Matches(u) = IF byKey # {} THEN byKey
                   ELSE IF Cardinality(byUrl) = 1 THEN byUrl
                   ELSE IF Cardinality(byPage) = 1 THEN byPage ELSE {}
  BY DEF Matches
<1>2. byKey \subseteq articles /\ byUrl \subseteq articles /\ byPage \subseteq articles
  BY DEF Live
<1>3. \A a \in byKey : byKey = {a}
  BY DEF KeysUnique
<1>4. MaxRelease \in Nat  BY BoundsAssumption
<1>5. u \in Topic \X (1 .. MaxRelease) /\ u = <<u[1], u[2]>>  BY DEF Url
<1>6. KeyOf(u) \in Key /\ KeyOf(u)[1] = u[1]
  BY <1>4, <1>5 DEF KeyOf, Key, AnyRelease
<1>7. \A a \in articles : a.key = KeyOf(u) => a \in byKey  OBVIOUS
<1>8. \A a \in byKey \cup byUrl \cup byPage : a.url[1] = u[1]
  BY <1>6 DEF Live, Types, ArticlesOK
<1> HIDE DEF byKey, byUrl, byPage
<1> QED  BY <1>1, <1>2, <1>3, <1>6, <1>7, <1>8

LEMMA StoredIs ==
    ASSUME Types, KeysUnique, NEW u \in Url, Served(u)
    PROVE  \E n \in Article :
              /\ Stored(u) = (articles \ Matches(u)) \cup {n}
              /\ n.key = KeyOf(u) /\ n.url = u /\ n.link
              /\ path # "tracked" => n.text = site.text[u[1]]
              /\ n.removed => \E a \in Matches(u) : a.removed
<1> DEFINE old == Matches(u)
           same == path = "tracked" /\ tracked[u] = site.text[u[1]]
                   /\ \E a \in old : a.key = KeyOf(u)
           t == IF same THEN (CHOOSE a \in old : TRUE).text ELSE site.text[u[1]]
           gone == \E a \in old : a.removed
           n == [key |-> KeyOf(u), url |-> u, link |-> TRUE, text |-> t, removed |-> gone]
<1>1. Stored(u) = (articles \ old) \cup {n}
  BY DEF Stored
<1>2. same => (CHOOSE a \in old : TRUE) \in articles
  BY MatchesAre
<1>3. site.text[u[1]] \in Text
  BY DEF Types, TypeOK, Url
<1>4. t \in Text
  <2>1. CASE same
    <3>1. (CHOOSE a \in old : TRUE) \in Article  BY <1>2, <2>1 DEF Types, TypeOK
    <3> HIDE DEF old
    <3> QED  BY <2>1, <3>1 DEF Article
  <2>2. CASE ~same  BY <1>3, <2>2
  <2> QED  BY <2>1, <2>2
<1>5. path # "tracked" => t = site.text[u[1]]  OBVIOUS
<1>6. gone \in BOOLEAN  OBVIOUS
<1> HIDE DEF t, gone, old
<1>7. n \in Article  BY <1>4, <1>6, MatchesAre DEF Article
<1> QED  BY <1>1, <1>5, <1>7 DEF gone, old

LEMMA NoRunIsOK == RunOK(NoRun)
<1>1. Cardinality(Page) \in Nat  BY PagesAssumption, FS_CardinalityType
<1> QED  BY <1>1, NoRunIsRun, EmptyIsList DEF RunOK, NoRun

\* What is left of a run that is queued again, or on hold.
LEMMA QueuedIs ==
    ASSUME NEW w
    PROVE  /\ [Requeued EXCEPT !.phase = "paused"].phase = "paused"
           /\ [Requeued EXCEPT !.phase = "paused"].kind = "extract"
           /\ [Requeued EXCEPT !.phase = "paused"].allow = run.allow
           /\ [Requeued EXCEPT !.warned = w].phase = "queued"
           /\ [Requeued EXCEPT !.warned = w].kind = "extract"
           /\ [Requeued EXCEPT !.warned = w].allow = run.allow
BY DEF Requeued, NoRun

LEMMA RequeuedIsOK ==
    ASSUME Types, NEW w \in BOOLEAN
    PROVE  /\ RunOK([Requeued EXCEPT !.phase = "paused"])
           /\ run.kind = "extract" => RunOK([Requeued EXCEPT !.warned = w])
<1>1. Cardinality(Page) \in Nat  BY PagesAssumption, FS_CardinalityType
<1>2. Empty \in List /\ Empty \in Lists  BY EmptyIsList DEF Lists
<1>3. run \in Run /\ run.list \in Lists  BY DEF Types, RunOK
<1>4. run.allow \in BOOLEAN /\ run.list \in List /\ run.persisted \in BOOLEAN
  BY <1>3 DEF Run
<1> DEFINE q == Requeued
           l == run.list
           al == run.allow
           p == run.persisted
<1>5. q = [NoRun EXCEPT !.phase = "queued", !.allow = al, !.list = l, !.persisted = p]
      /\ al \in BOOLEAN /\ l \in List /\ p \in BOOLEAN /\ l \in Lists
  BY <1>3, <1>4 DEF Requeued
<1>8. NoRun \in Run /\ NoRun.phase = "none" /\ NoRun.kind = "extract" /\ NoRun.seen = Empty
      /\ NoRun.asked = Empty /\ NoRun.mark = {} /\ NoRun.todo = {} /\ NoRun.total = 0
  BY NoRunIsRun DEF NoRun
<1> HIDE DEF q, l, al, p
<1>6. q \in Run  BY <1>5, <1>8 DEF Run
<1>7. [q EXCEPT !.phase = "paused"] \in Run /\ [q EXCEPT !.warned = w] \in Run
  BY <1>6 DEF Run
<1>9. /\ q.phase = "queued" /\ q.kind = "extract" /\ q.list = l /\ q.seen = Empty
      /\ q.asked = Empty /\ q.mark = {} /\ q.todo = {} /\ q.total = 0
  BY <1>5, <1>8 DEF Run
<1>10. RunOK([q EXCEPT !.phase = "paused"]) /\ RunOK([q EXCEPT !.warned = w])
  BY <1>1, <1>2, <1>5, <1>6, <1>7, <1>9 DEF RunOK, Run
<1> QED  BY <1>10 DEF q

\* A page that is done with, and what is noted on the run besides.
LEMMA NotedIs ==
    ASSUME NEW u \in Url, NEW stored \in BOOLEAN, run \in Run, NEW b \in BOOLEAN, NEW l \in List,
           \/ run' = After(run, u, stored)
           \/ run' = [After(run, u, stored) EXCEPT !.persisted = b]
           \/ run' = [After(run, u, stored) EXCEPT !.fresh = b]
           \/ run' = [After(run, u, stored) EXCEPT !.list = l, !.warned = b]
    PROVE  /\ run'.mark = After(run, u, stored).mark /\ run'.phase = run.phase
           /\ run'.todo = run.todo \ {u} /\ run'.kind = run.kind /\ run'.allow = run.allow
           /\ run'.total = run.total /\ run'.asked = run.asked
<1> DEFINE r == After(run, u, stored)
<1>1. /\ r \in Run /\ r.phase = run.phase /\ r.todo = run.todo \ {u} /\ r.kind = run.kind
      /\ r.allow = run.allow /\ r.total = run.total /\ r.asked = run.asked
  BY AfterIs
<1>2. \/ run' = r \/ run' = [r EXCEPT !.persisted = b] \/ run' = [r EXCEPT !.fresh = b]
      \/ run' = [r EXCEPT !.list = l, !.warned = b]
  OBVIOUS
<1> HIDE DEF r
<1>3. /\ run'.mark = r.mark /\ run'.phase = r.phase
      /\ run'.todo = r.todo /\ run'.kind = r.kind /\ run'.allow = r.allow
      /\ run'.total = r.total /\ run'.asked = r.asked
  <2>1. CASE run' = r  BY <2>1
  <2>2. CASE run' = [r EXCEPT !.persisted = b]  BY <1>1, <2>2 DEF Run
  <2>3. CASE run' = [r EXCEPT !.fresh = b]  BY <1>1, <2>3 DEF Run
  <2>4. CASE run' = [r EXCEPT !.list = l, !.warned = b]  BY <1>1, <2>4 DEF Run
  <2> QED  BY <1>2, <2>1, <2>2, <2>3, <2>4
<1> QED  BY <1>1, <1>3 DEF r

LEMMA AfterIsOK ==
    ASSUME NEW r, RunOK(r), r.phase \in {"scrape", "retry"}, NEW u \in Url, NEW stored \in BOOLEAN
    PROVE  RunOK(After(r, u, stored))
BY AfterIs DEF RunOK

\* Notes made on a run.
LEMMA NotedIsOK ==
    ASSUME NEW r, RunOK(r), NEW b \in BOOLEAN, NEW l \in Lists
    PROVE  /\ RunOK([r EXCEPT !.persisted = b]) /\ RunOK([r EXCEPT !.fresh = b])
           /\ RunOK([r EXCEPT !.mark = {}])
           /\ RunOK([r EXCEPT !.list = l, !.warned = b])
           /\ RunOK([r EXCEPT !.list = l, !.seen = AllDangle(r.seen)])
<1>1. r \in Run /\ l \in List  BY DEF RunOK, Lists
<1>2. AllDangle(r.seen) \in Lists /\ AllDangle(r.seen) \in List  BY DanglingIsList DEF RunOK, Lists
<1>3. /\ [r EXCEPT !.persisted = b] \in Run /\ [r EXCEPT !.fresh = b] \in Run
      /\ [r EXCEPT !.mark = {}] \in Run
  BY <1>1 DEF Run
<1>4. [r EXCEPT !.list = l, !.warned = b] \in Run
  BY <1>1 DEF Run
<1> DEFINE s == AllDangle(r.seen)
<1> HIDE DEF s
<1>5. [r EXCEPT !.list = l, !.seen = s] \in Run
  BY <1>1, <1>2 DEF Run, s
<1> QED  BY <1>1, <1>2, <1>3, <1>4, <1>5 DEF RunOK, s

\* The second pass is over the pages that the worker knows to be blocked, or none is made.
LEMMA SecondPassIs ==
    ASSUME NEW r, RunOK(r), r.phase = "scrape", r.todo = {}, r.mark = {}
    PROVE  /\ RunOK(SecondPass(r))
           /\ SecondPass(r).kind = r.kind /\ SecondPass(r).allow = r.allow
           /\ SecondPass(r).total = r.total
           /\ \/ SecondPass(r).phase = "reconcile"
              \/ /\ SecondPass(r).phase = "retry" /\ r.total >= 2
                 /\ SecondPass(r).asked \in {r.list, r.seen}
                 /\ SecondPass(r).todo = SecondPass(r).asked.blocked
<1> DEFINE seen == IF r.fresh THEN r.list ELSE r.seen
           open == (r.open \ seen.blocked) \cup seen.open
<1>1. seen \in {r.list, r.seen} /\ seen \in Lists /\ seen \in List  BY DEF RunOK, Lists
<1>2. r \in Run /\ Empty \in List /\ Empty \in Lists  BY EmptyIsList DEF RunOK, Lists
<1>3. seen.blocked \in SUBSET Url /\ open \in SUBSET Url
  BY <1>1, <1>2 DEF List, Run
<1>4. CASE seen.blocked # {} /\ 2 * Cardinality(seen.blocked) <= r.total
  <2>1. SecondPass(r) = [r EXCEPT !.phase = "retry", !.todo = seen.blocked, !.asked = seen,
                            !.open = open, !.list = Empty, !.seen = Empty,
                            !.tried = 0, !.failed = 0]
    BY <1>4 DEF SecondPass
  <2>2. r.total >= 2
    <3>1. IsFiniteSet(Url)
      <4>1. IsFiniteSet(Page \cup {Index})  BY PagesAssumption, FS_AddElement
      <4>2. IsFiniteSet(1 .. MaxRelease)  BY BoundsAssumption, FS_Interval
      <4> QED  BY <4>1, <4>2, FS_Product DEF Url, Topic
    <3>2. IsFiniteSet(seen.blocked) /\ Cardinality(seen.blocked) \in Nat
      BY <1>3, <3>1, FS_Subset, FS_CardinalityType
    <3>3. Cardinality(seen.blocked) # 0  BY <1>4, <3>2, FS_EmptySet
    <3>4. r.total \in Nat  BY <1>2 DEF Run
    <3> QED  BY <1>4, <3>2, <3>3, <3>4
  <2> DEFINE b == seen.blocked
  <2> HIDE DEF seen, open, Empty
  <2>3. SecondPass(r) = [r EXCEPT !.phase = "retry", !.todo = b, !.asked = seen,
                            !.open = open, !.list = Empty, !.seen = Empty,
                            !.tried = 0, !.failed = 0] /\ b \in SUBSET Url
    BY <1>3, <2>1
  <2> HIDE DEF b
  <2> DEFINE s == [r EXCEPT !.phase = "retry", !.todo = b, !.asked = seen, !.open = open]
             e == [s EXCEPT !.list = Empty, !.seen = Empty]
  <2>8. s \in Run  BY <1>1, <1>2, <1>3, <2>3 DEF Run
  <2>9. SecondPass(r) = [e EXCEPT !.tried = 0, !.failed = 0]
    BY <1>2, <2>3 DEF Run
  <2> HIDE DEF s
  <2>10. e \in Run  BY <1>2, <2>8 DEF Run
  <2> HIDE DEF e
  <2>11. [e EXCEPT !.tried = 0, !.failed = 0] \in Run  BY <2>10 DEF Run
  <2>4. SecondPass(r) \in Run  BY <2>9, <2>11
  <2>5. /\ SecondPass(r).phase = "retry" /\ SecondPass(r).todo = b /\ SecondPass(r).asked = seen
        /\ SecondPass(r).list = Empty /\ SecondPass(r).seen = Empty
        /\ SecondPass(r).kind = r.kind /\ SecondPass(r).allow = r.allow
        /\ SecondPass(r).total = r.total /\ SecondPass(r).mark = r.mark
    BY <1>2, <2>3 DEF Run
  <2>6. b = seen.blocked  BY DEF b
  <2>7. RunOK(SecondPass(r))  BY <1>1, <1>2, <2>4, <2>5 DEF RunOK
  <2> QED  BY <1>1, <2>2, <2>5, <2>6, <2>7
<1>5. CASE ~(seen.blocked # {} /\ 2 * Cardinality(seen.blocked) <= r.total)
  <2>1. SecondPass(r) = [r EXCEPT !.phase = "reconcile"]
    BY <1>5 DEF SecondPass
  <2> HIDE DEF seen, open
  <2>2. [r EXCEPT !.phase = "reconcile"] \in Run  BY <1>2 DEF Run
  <2>3. RunOK([r EXCEPT !.phase = "reconcile"])
    BY <1>2, <2>2 DEF RunOK, Run
  <2> QED  BY <1>2, <2>1, <2>3 DEF Run
<1> QED  BY <1>4, <1>5
-----------------------------------------------------------------------------
(* The rows of the articles table.                                         *)

\* Rows that get another link or removal mark keep their keys.
LEMMA RelabelledAreOK ==
    ASSUME Types, KeysUnique, NEW g \in [articles -> Article],
           \A a \in articles : g[a].key = a.key /\ g[a].url = a.url
    PROVE  /\ ArticlesOK({g[a] : a \in articles})
           /\ \A x, y \in {g[a] : a \in articles} : x.key = y.key => x = y
<1> DEFINE rows == {g[a] : a \in articles}
<1>1. IsFiniteSet(articles) /\ \A a \in articles : a.key[1] = a.url[1]
  BY DEF Types, ArticlesOK
<1>2. g \in Surjection(articles, rows)
  BY DEF Surjection
<1>3. IsFiniteSet(rows)
  BY <1>1, <1>2, FS_Surjection
<1>4. rows \subseteq Article /\ \A x \in rows : x.key[1] = x.url[1]
  BY <1>1
<1>5. ASSUME NEW x \in rows, NEW y \in rows, x.key = y.key
      PROVE  x = y
  BY <1>5 DEF KeysUnique
<1> QED  BY <1>3, <1>4, <1>5 DEF ArticlesOK

\* So do they when one is stored.
LEMMA StoredIsOK ==
    ASSUME Types, KeysUnique, NEW u \in Url, Served(u)
    PROVE  /\ ArticlesOK(Stored(u))
           /\ \A x, y \in Stored(u) : x.key = y.key => x = y
<1>1. PICK n \in Article : Stored(u) = (articles \ Matches(u)) \cup {n}
                           /\ n.key = KeyOf(u) /\ n.url = u
  BY StoredIs
<1>2. articles \subseteq Article /\ IsFiniteSet(articles)
      /\ \A a \in articles : a.key[1] = a.url[1]
  BY DEF Types, ArticlesOK
<1>3. IsFiniteSet(articles \ Matches(u))
  BY <1>2, FS_Subset
<1>4. IsFiniteSet(Stored(u))
  BY <1>1, <1>3, FS_AddElement
<1>5. n.key[1] = n.url[1] /\ \A a \in articles \ Matches(u) : a.key # n.key
  BY <1>1, MatchesAre
<1> QED  BY <1>1, <1>2, <1>4, <1>5 DEF ArticlesOK, KeysUnique

\* The steps that change the rows, and how.
Unlinked(a) == [a EXCEPT !.link = FALSE]
RelinkedTo(a, urls) == [a EXCEPT !.link = a.url \in urls]
Linkable(a) == \/ a.link
               \/ /\ a.url \in toc
                  /\ ~\E b \in articles : b.link /\ b.url = a.url
Settled(a) == [a EXCEPT !.link = Linkable(a), !.removed = ~Linkable(a)]

LEMMA SettledIs ==
    ASSUME Types
    PROVE  {[a EXCEPT !.removed = ~a.link] : a \in Relinked} = {Settled(a) : a \in articles}
<1> DEFINE R(a) == [a EXCEPT !.link = Linkable(a)]
           D(b) == [b EXCEPT !.removed = ~b.link]
<1>1. Relinked = {R(a) : a \in articles}
  BY DEF Relinked, Linkable
<1>2. ASSUME NEW a \in articles
      PROVE  D(R(a)) = Settled(a)
  <2>1. a \in Article /\ Linkable(a) \in BOOLEAN
    BY DEF Types, ArticlesOK, Linkable, Article
  <2> DEFINE l == Linkable(a)
  <2>2. l \in BOOLEAN  BY <2>1
  <2> HIDE DEF l
  <2>3. [[a EXCEPT !.link = l] EXCEPT !.removed = ~[a EXCEPT !.link = l].link]
           = [a EXCEPT !.link = l, !.removed = ~l]
    BY <2>1, <2>2 DEF Article
  <2> QED  BY <2>3 DEF l, Settled
<1>3. {[a EXCEPT !.removed = ~a.link] : a \in Relinked} = {D(b) : b \in Relinked}
  OBVIOUS
<1> HIDE DEF R, D
<1> QED  BY <1>1, <1>2, <1>3

\* What the three steps that go over all the rows make of one.
LEMMA RelabelsAre ==
    ASSUME Types, NEW a \in articles, NEW urls
    PROVE  /\ Unlinked(a) \in Article /\ RelinkedTo(a, urls) \in Article /\ Settled(a) \in Article
           /\ Unlinked(a) = [key |-> a.key, url |-> a.url, text |-> a.text, link |-> FALSE,
                             removed |-> a.removed]
           /\ RelinkedTo(a, urls) = [key |-> a.key, url |-> a.url, text |-> a.text,
                                     link |-> a.url \in urls, removed |-> a.removed]
           /\ Settled(a) = [key |-> a.key, url |-> a.url, text |-> a.text,
                            link |-> Linkable(a), removed |-> ~Linkable(a)]
<1>1. a \in Article /\ Linkable(a) \in BOOLEAN /\ (a.url \in urls) \in BOOLEAN
  BY DEF Types, ArticlesOK, Linkable, Article
<1> DEFINE l == Linkable(a)
           m == a.url \in urls
<1>2. l \in BOOLEAN /\ m \in BOOLEAN  BY <1>1
<1> HIDE DEF l, m
<1>3. ASSUME NEW c \in Article, NEW r \in BOOLEAN
      PROVE  /\ [c EXCEPT !.removed = r] \in Article
             /\ [c EXCEPT !.removed = r] = [key |-> c.key, url |-> c.url, text |-> c.text,
                                           link |-> c.link, removed |-> r]
  BY <1>3 DEF Article
<1>4. ASSUME NEW b \in BOOLEAN
      PROVE  /\ [a EXCEPT !.link = b] \in Article
             /\ [a EXCEPT !.link = b] = [key |-> a.key, url |-> a.url, text |-> a.text,
                                        link |-> b, removed |-> a.removed]
  BY <1>1, <1>4 DEF Article
<1>5. Unlinked(a) = [a EXCEPT !.link = FALSE]  BY DEF Unlinked
<1>6. RelinkedTo(a, urls) = [a EXCEPT !.link = m]  BY DEF RelinkedTo, m
<1>7. Settled(a) = [[a EXCEPT !.link = l] EXCEPT !.removed = ~l]  BY DEF Settled, l
<1>8. (~l) \in BOOLEAN  BY <1>2
<1>9. Settled(a) \in Article /\ Settled(a) = [key |-> a.key, url |-> a.url, text |-> a.text,
                                               link |-> l, removed |-> ~l]
  <2> DEFINE c == [a EXCEPT !.link = l]
             r == ~l
  <2>1. c \in Article /\ c = [key |-> a.key, url |-> a.url, text |-> a.text,
                                link |-> l, removed |-> a.removed]
    BY <1>2, <1>4
  <2>2. c.key = a.key /\ c.url = a.url /\ c.text = a.text /\ c.link = l
    BY <2>1
  <2>3. r \in BOOLEAN /\ Settled(a) = [c EXCEPT !.removed = r]  BY <1>7, <1>8
  <2> HIDE DEF c, r
  <2>4. Settled(a) \in Article /\ Settled(a) = [key |-> a.key, url |-> a.url, text |-> a.text,
                                                 link |-> l, removed |-> r]
    BY <1>3, <2>1, <2>2, <2>3
  <2> QED  BY <2>4 DEF r
<1>10. /\ Unlinked(a) \in Article
       /\ Unlinked(a) = [key |-> a.key, url |-> a.url, text |-> a.text, link |-> FALSE,
                         removed |-> a.removed]
  BY <1>4, <1>5
<1>11. /\ RelinkedTo(a, urls) \in Article
       /\ RelinkedTo(a, urls) = [key |-> a.key, url |-> a.url, text |-> a.text,
                                 link |-> m, removed |-> a.removed]
  BY <1>2, <1>4, <1>6
<1> QED  BY <1>9, <1>10, <1>11 DEF l, m

LEMMA StepsOnRows ==
    ASSUME Types, [Next]_vars
    PROVE  \/ UNCHANGED <<articles, toc>>
           \/ \E u \in Url : PageStored(u) /\ articles' = Stored(u) /\ toc' = toc
           \/ \E found \in SUBSET SiteUrls :
                 BuildToc(found) /\ articles' = {Unlinked(a) : a \in articles}
           \/ \E h \in SUBSET toc :
                 RebuildToc(h) /\ articles' = {RelinkedTo(a, toc') : a \in articles}
           \/ Reconcile /\ articles' = {Settled(a) : a \in articles} /\ toc' = toc
<1>1. CASE UNCHANGED vars  BY <1>1 DEF vars
<1>2. ASSUME NEW found \in SUBSET SiteUrls, BuildToc(found)
      PROVE  articles' = {Unlinked(a) : a \in articles}
  BY <1>2 DEF BuildToc, Unlinked
<1>3. ASSUME NEW h \in SUBSET toc, RebuildToc(h)
      PROVE  articles' = {RelinkedTo(a, toc') : a \in articles}
  BY <1>3 DEF RebuildToc, RelinkedTo
<1>4. ASSUME Reconcile
      PROVE  articles' = {Settled(a) : a \in articles} /\ toc' = toc
  BY <1>4, SettledIs DEF Reconcile
<1>5. CASE Step
  <2>1. ASSUME NEW found \in SUBSET SiteUrls, Collapse(found) PROVE UNCHANGED <<articles, toc>>
    BY <2>1 DEF Collapse
  <2>2. ASSUME NEW u \in Url, PageFails(u) \/ PageRaises(u) \/ PageBlocked(u)
        PROVE UNCHANGED <<articles, toc>>
    BY <2>2 DEF PageFails, PageRaises, PageBlocked
  <2>3. ASSUME Checkpoint \/ EndContent \/ EndRetry \/ ClearCheckpoint \/ Finish \/ Fails
        PROVE UNCHANGED <<articles, toc>>
    BY <2>3 DEF Checkpoint, EndContent, EndRetry, ClearCheckpoint, Finish, Fails
  <2>4. ASSUME NEW u \in Url, PageStored(u) PROVE articles' = Stored(u) /\ toc' = toc
    BY <2>4 DEF PageStored
  <2> QED  BY <1>2, <1>3, <1>4, <1>5, <2>1, <2>2, <2>3, <2>4 DEF Step
<1>6. CASE ~Step /\ Next
  BY <1>6 DEF Next, Trigger, RetryBlocked, Pause, Resume, Cancel, Crash, PageEdited, PageDropped,
       Released, TemplateSet, siteUnchanged
<1> QED  BY <1>1, <1>5, <1>6

LEMMA RowsKept ==
    ASSUME Types, KeysUnique, [Next]_vars
    PROVE  ArticlesOK(articles') /\ KeysUnique'
<1>0. ASSUME NEW g \in [articles -> Article], articles' = {g[a] : a \in articles},
             \A a \in articles : g[a].key = a.key /\ g[a].url = a.url
      PROVE  ArticlesOK(articles') /\ KeysUnique'
  BY <1>0, RelabelledAreOK DEF KeysUnique
<1>1. CASE articles' = articles
  BY <1>1 DEF Types, KeysUnique
<1>2. ASSUME NEW u \in Url, PageStored(u), articles' = Stored(u)
      PROVE  ArticlesOK(articles') /\ KeysUnique'
  BY <1>2, StoredIsOK DEF KeysUnique, PageStored
<1>3. CASE articles' = {Unlinked(a) : a \in articles}
  <2> DEFINE g == [a \in articles |-> Unlinked(a)]
  <2>1. g \in [articles -> Article] /\ \A a \in articles : g[a].key = a.key /\ g[a].url = a.url
    BY RelabelsAre
  <2>2. articles' = {g[a] : a \in articles}  BY <1>3
  <2> HIDE DEF g
  <2> QED  BY <1>0, <2>1, <2>2
<1>4. CASE articles' = {RelinkedTo(a, toc') : a \in articles}
  <2> DEFINE g == [a \in articles |-> RelinkedTo(a, toc')]
  <2>1. g \in [articles -> Article] /\ \A a \in articles : g[a].key = a.key /\ g[a].url = a.url
    BY RelabelsAre
  <2>2. articles' = {g[a] : a \in articles}  BY <1>4
  <2> HIDE DEF g
  <2> QED  BY <1>0, <2>1, <2>2
<1>5. CASE articles' = {Settled(a) : a \in articles}
  <2> DEFINE g == [a \in articles |-> Settled(a)]
  <2>1. g \in [articles -> Article] /\ \A a \in articles : g[a].key = a.key /\ g[a].url = a.url
    BY RelabelsAre
  <2>2. articles' = {g[a] : a \in articles}  BY <1>5
  <2> HIDE DEF g
  <2> QED  BY <1>0, <2>1, <2>2
<1> QED  BY <1>1, <1>2, <1>3, <1>4, <1>5, StepsOnRows
-----------------------------------------------------------------------------
(* The run in progress.                                                    *)

\* A run that begins.
LEMMA BegunIsOK ==
    ASSUME NEW allow \in BOOLEAN, NEW l \in Lists
    PROVE  /\ RunOK([NoRun EXCEPT !.phase = "queued", !.allow = allow])
           /\ RunOK(RetryRun(l))
<1>1. Cardinality(Page) \in Nat  BY PagesAssumption, FS_CardinalityType
<1>2. NoRun \in Run /\ NoRun.kind = "extract" /\ NoRun.seen = Empty /\ NoRun.list = Empty
      /\ NoRun.asked = Empty /\ NoRun.mark = {} /\ NoRun.todo = {} /\ NoRun.total = 0
  BY NoRunIsRun DEF NoRun
<1>3. Empty \in List /\ Empty \in Lists  BY EmptyIsList DEF Lists
<1>4. [NoRun EXCEPT !.phase = "queued", !.allow = allow] \in Run
  BY <1>2 DEF Run
<1>5. RunOK([NoRun EXCEPT !.phase = "queued", !.allow = allow])
  BY <1>1, <1>2, <1>3, <1>4 DEF RunOK, Run
<1> DEFINE todo == l.blocked
           open == l.open
<1>6. todo \in SUBSET Url /\ open \in SUBSET Url /\ l \in List
  BY DEF Lists, List
<1>7. RetryRun(l) = [NoRun EXCEPT !.phase = "retry", !.kind = "retry_blocked",
                                  !.todo = todo, !.open = open, !.asked = l]
  BY DEF RetryRun
<1> HIDE DEF todo, open
<1>8. RetryRun(l) \in Run
  BY <1>2, <1>6, <1>7 DEF Run
<1>9. /\ RetryRun(l).phase = "retry" /\ RetryRun(l).kind = "retry_blocked"
      /\ RetryRun(l).list = Empty /\ RetryRun(l).seen = Empty /\ RetryRun(l).asked = l
      /\ RetryRun(l).mark = {} /\ RetryRun(l).total = 0
  BY <1>2, <1>7 DEF Run
<1> QED  BY <1>1, <1>3, <1>5, <1>8, <1>9 DEF RunOK

\* A run whose TOC has been built.
LEMMA BuiltIsOK ==
    ASSUME Types, NEW found \in SUBSET SiteUrls, BuildToc(found)
    PROVE  /\ RunOK(run') /\ run'.phase = "scrape" /\ run'.total = Cardinality(Entries(found))
           /\ run'.todo \subseteq Entries(found) /\ run'.allow = run.allow /\ run'.mark = {}
           /\ run'.kind = "extract"
<1> DEFINE entries == Entries(found)
           skipped == IF path = "browserless" THEN {} ELSE ckpt \cap entries
           n == Cardinality(entries)
           todo == entries \ skipped
           p == run.persisted \/ skipped # {}
           open == IF templated /\ found # {} THEN entries ELSE {}
           l == AllDangle(run.list)
<1>1. run' = [run EXCEPT !.phase = "scrape", !.total = n, !.todo = todo, !.persisted = p,
                         !.open = open, !.list = l, !.seen = l]
  BY DEF BuildToc
<1>2. run \in Run /\ run.list \in Lists /\ run.asked \in Lists /\ run.mark = {} /\ run.kind = "extract"
  BY DEF Types, RunOK, BuildToc, Discovering
<1>3. n \in Nat /\ n <= Cardinality(Page) /\ entries \subseteq Url
  BY EntriesAreFew, SiteIsTyped DEF Types
<1>4. todo \in SUBSET Url /\ todo \subseteq entries /\ open \in SUBSET Url
  BY <1>3
<1>5. l \in Lists /\ l \in List /\ p \in BOOLEAN
  BY <1>2, DanglingIsList DEF Lists, Run
<1> HIDE DEF n, todo, p, open, l, skipped
<1> DEFINE s == [run EXCEPT !.phase = "scrape", !.total = n, !.todo = todo, !.persisted = p]
<1>6. run' = [s EXCEPT !.open = open, !.list = l, !.seen = l]
  BY <1>1
<1>7. s \in Run  BY <1>2, <1>3, <1>4, <1>5 DEF Run
<1>8. s.phase = "scrape" /\ s.kind = "extract" /\ s.total = n /\ s.todo = todo
      /\ s.asked = run.asked /\ s.mark = {} /\ s.allow = run.allow
  BY <1>2 DEF Run
<1> HIDE DEF s
<1>9. run' \in Run  BY <1>4, <1>5, <1>6, <1>7 DEF Run
<1>10. /\ run'.phase = "scrape" /\ run'.kind = "extract" /\ run'.total = n /\ run'.todo = todo
       /\ run'.asked = run.asked /\ run'.mark = {} /\ run'.allow = run.allow
       /\ run'.list = l /\ run'.seen = l
  BY <1>6, <1>7, <1>8 DEF Run
<1>11. RunOK(run')
  BY <1>2, <1>3, <1>5, <1>9, <1>10 DEF RunOK
<1> QED  BY <1>4, <1>10, <1>11 DEF n

\* A run that met a bot-protection page.
LEMMA BlockedIsOK ==
    ASSUME Types, NEW u \in Url, PageBlocked(u)
    PROVE  \E l \in Lists : run' = [After(run, u, FALSE) EXCEPT !.list = l, !.warned = TRUE]
<1>1. run.list \in Lists /\ run \in Run  BY DEF Types, RunOK
<1> DEFINE r == After(run, u, FALSE)
           old == run.list
           new == [blocked |-> old.blocked \cup {u}, open |-> old.open \cup ({u} \cap run.open),
                   dangling |-> old.dangling \cup (IF Dangles(u) THEN {u} ELSE {})]
           l == IF u \in old.blocked THEN old ELSE new
<1>2. r.list = old /\ r \in Run  BY <1>1, AfterIs
<1>3. new \in Lists  BY <1>1 DEF Lists, List
<1>4. l \in Lists  BY <1>1, <1>3
<1>5. run' = [r EXCEPT !.list = IF u \in @.blocked THEN @
                           ELSE [blocked |-> @.blocked \cup {u},
                                 open |-> @.open \cup ({u} \cap run.open),
                                 dangling |-> @.dangling \cup (IF Dangles(u) THEN {u} ELSE {})],
                  !.warned = TRUE]
  BY DEF PageBlocked
<1>6. run' = [r EXCEPT !.list = l, !.warned = TRUE]
  BY <1>2, <1>5
<1> QED  BY <1>4, <1>6

\* A run after its second pass: what it goes on to, and what it puts back.
LEMMA RetriedIsOK ==
    ASSUME Types, EndRetry
    PROVE  /\ RunOK(run') /\ run'.kind = run.kind /\ run'.allow = run.allow
           /\ run'.phase = IF run.kind = "extract" THEN "reconcile" ELSE "finish"
<1>1. run \in Run /\ RunOK(run) /\ run.phase = "retry"
  BY DEF Types, RunOK, EndRetry
<1> DEFINE f == IF run.kind = "extract" THEN "reconcile" ELSE "finish"
<1>2. PICK l \in {run.list, run.asked} :
         \/ run' = [run EXCEPT !.phase = f, !.list = l] /\ run.todo = {}
         \/ run' = [run EXCEPT !.phase = f, !.todo = {}, !.list = l]
  BY DEF EndRetry
<1>3. l \in Lists /\ l \in List  BY <1>1 DEF RunOK, Lists
<1>4. f \in {"reconcile", "finish"} /\ (f = "reconcile" => run.kind = "extract")
  OBVIOUS
<1>5. [run EXCEPT !.phase = f, !.list = l] \in Run /\ [run EXCEPT !.phase = f, !.todo = {}, !.list = l] \in Run
  <2> HIDE DEF f
  <2>1. [run EXCEPT !.phase = f, !.list = l] \in Run  BY <1>1, <1>3, <1>4 DEF Run
  <2>2. [run EXCEPT !.phase = f, !.todo = {}, !.list = l] \in Run  BY <1>1, <1>3, <1>4 DEF Run
  <2> QED  BY <2>1, <2>2
<1>6. /\ run'.phase = f /\ run'.list = l /\ run'.kind = run.kind /\ run'.allow = run.allow
      /\ run'.todo = {} /\ run'.mark = run.mark /\ run'.seen = run.seen /\ run'.asked = run.asked
      /\ run'.total = run.total
  <2> HIDE DEF f
  <2> QED  BY <1>1, <1>2 DEF Run
<1>7. RunOK(run')
  BY <1>1, <1>2, <1>3, <1>4, <1>5, <1>6 DEF RunOK
<1> QED  BY <1>6, <1>7

\* A run over blocked pages that is taken up again after a crash.
LEMMA RecoveredIsOK ==
    ASSUME Types, Crash, run.kind # "extract"
    PROVE  RunOK(run') /\ run'.phase = "retry" /\ run'.kind = "retry_blocked"
<1>1. run \in Run /\ RunOK(run) /\ run.list \in Lists /\ run.mark = {}
      /\ Empty \in List /\ Empty \in Lists
  BY EmptyIsList DEF Types, RunOK, Crash, Lists
<1>2. run.kind = "retry_blocked"  BY <1>1 DEF Run
<1> DEFINE l == run.list
           todo == l.blocked
           open == l.open
<1>3. run' = [run EXCEPT !.phase = "retry", !.todo = todo, !.open = open,
                         !.asked = l, !.list = Empty, !.seen = Empty]
  BY DEF Crash
<1>4. todo \in SUBSET Url /\ open \in SUBSET Url /\ l \in List /\ l \in Lists
  BY <1>1 DEF Lists, List
<1> HIDE DEF l, todo, open
<1> DEFINE s == [run EXCEPT !.phase = "retry", !.todo = todo, !.open = open]
<1>5. run' = [s EXCEPT !.asked = l, !.list = Empty, !.seen = Empty]
  BY <1>3
<1>6. s \in Run /\ s.phase = "retry" /\ s.kind = run.kind /\ s.mark = run.mark /\ s.total = run.total
  BY <1>1, <1>4 DEF Run
<1> HIDE DEF s
<1>7. run' \in Run  BY <1>1, <1>4, <1>5, <1>6 DEF Run
<1>8. /\ run'.phase = "retry" /\ run'.kind = run.kind /\ run'.mark = run.mark
      /\ run'.total = run.total /\ run'.asked = l /\ run'.list = Empty /\ run'.seen = Empty
  BY <1>5, <1>6 DEF Run
<1> QED  BY <1>1, <1>2, <1>4, <1>7, <1>8 DEF RunOK

\* The run that a rebuilt TOC leaves to the second pass.
LEMMA RebuiltIs ==
    ASSUME Types, NEW h \in SUBSET toc, RebuildToc(h)
    PROVE  \E r : /\ run' = SecondPass(r) /\ RunOK(r)
                  /\ r.phase = "scrape" /\ r.todo = {} /\ r.mark = {}
                  /\ r.kind = run.kind /\ r.allow = run.allow /\ r.total = run.total
                  /\ \A l \in {r.list, r.seen} : l.dangling = l.blocked
<1>0. run \in Run /\ RunOK(run) /\ run.list \in Lists /\ run.seen \in Lists
  BY DEF Types, RunOK
<1> DEFINE l == AllDangle(run.list)
           s == AllDangle(run.seen)
           r == [run EXCEPT !.list = l, !.seen = s]
<1>1. l \in Lists /\ l.dangling = l.blocked /\ s.dangling = s.blocked
  BY <1>0, DanglingIsList
<1>2. run' = SecondPass(r)  BY DEF RebuildToc
<1> HIDE DEF l
<1>3. RunOK(r)  BY <1>0, <1>1, NotedIsOK
<1> HIDE DEF s
<1>4. /\ r.phase = run.phase /\ r.todo = run.todo /\ r.mark = run.mark /\ r.kind = run.kind
      /\ r.allow = run.allow /\ r.total = run.total /\ r.list = l /\ r.seen = s
  BY <1>0 DEF Run
<1>5. run.phase = "scrape" /\ run.todo = {} /\ run.mark = {}
  BY DEF RebuildToc, Passed
<1> HIDE DEF r
<1> QED  BY <1>1, <1>2, <1>3, <1>4, <1>5

LEMMA RunKept ==
    ASSUME Types, [Next]_vars
    PROVE  RunOK(run')
<1>0. run \in Run /\ RunOK(run) /\ run.allow \in BOOLEAN
      /\ run.list \in Lists /\ run.warned \in BOOLEAN /\ left \in Lists
  BY DEF Types, TypeOK, RunOK, Run, Lists
<1>1. CASE UNCHANGED run  BY <1>0, <1>1
<1>2. ASSUME NEW found \in SUBSET SiteUrls, Collapse(found) PROVE RunOK(run')
  BY <1>2, NoRunIsOK DEF Collapse, Over
<1>3. ASSUME NEW found \in SUBSET SiteUrls, BuildToc(found) PROVE RunOK(run')
  BY <1>3, BuiltIsOK
<1>4. ASSUME NEW u \in Url, PageStored(u) PROVE RunOK(run')
  BY <1>0, <1>4, AfterIsOK, NotedIsOK, EmptyIsList DEF PageStored, Attempt
<1>5. ASSUME NEW u \in Url, PageFails(u) PROVE RunOK(run')
  BY <1>0, <1>5, AfterIsOK DEF PageFails, Attempt
<1>6. ASSUME NEW u \in Url, PageRaises(u) PROVE RunOK(run')
  BY <1>0, <1>6, AfterIsOK, NotedIsOK, EmptyIsList DEF PageRaises, Attempt
<1>7. ASSUME NEW u \in Url, PageBlocked(u) PROVE RunOK(run')
  <2>1. PICK l \in Lists : run' = [After(run, u, FALSE) EXCEPT !.list = l, !.warned = TRUE]
    BY <1>7, BlockedIsOK
  <2>2. RunOK(After(run, u, FALSE))
    BY <1>0, <1>7, AfterIsOK DEF PageBlocked, Attempt
  <2> QED  BY <2>1, <2>2, NotedIsOK
<1>8. CASE Checkpoint
  BY <1>0, <1>8, NotedIsOK, EmptyIsList DEF Checkpoint
<1>9. CASE EndContent
  BY <1>0, <1>9, SecondPassIs DEF EndContent, Passed
<1>10. ASSUME NEW h \in SUBSET toc, RebuildToc(h) PROVE RunOK(run')
  BY <1>10, RebuiltIs, SecondPassIs
<1>11. CASE EndRetry  BY <1>11, RetriedIsOK
<1>12. CASE Reconcile
  <2>1. [run EXCEPT !.phase = "close"] \in Run  BY <1>0 DEF Run
  <2> QED  BY <1>0, <1>12, <2>1 DEF Reconcile, RunOK, Run
<1>13. CASE ClearCheckpoint
  <2>1. [run EXCEPT !.phase = "finish"] \in Run  BY <1>0 DEF Run
  <2> QED  BY <1>0, <1>13, <2>1 DEF ClearCheckpoint, RunOK, Run
<1>14. CASE Finish  BY <1>14, NoRunIsOK DEF Finish
<1>15. CASE Fails  BY <1>15, NoRunIsOK DEF Fails, Over
<1>16. ASSUME NEW allow \in BOOLEAN, Trigger(allow) PROVE RunOK(run')
  BY <1>16, BegunIsOK, EmptyIsList DEF Trigger
<1>17. CASE RetryBlocked  BY <1>0, <1>17, BegunIsOK DEF RetryBlocked
<1>18. CASE Pause  BY <1>18, RequeuedIsOK DEF Pause
<1>19. CASE Resume
  <2>1. [run EXCEPT !.phase = "queued"] \in Run  BY <1>0 DEF Run
  <2> QED  BY <1>0, <1>19, <2>1 DEF Resume, RunOK, Run
<1>20. CASE Cancel  BY <1>20, NoRunIsOK DEF Cancel, Over
<1>21. CASE Crash
  <2>1. CASE run.kind = "extract"  BY <1>0, <1>21, <2>1, RequeuedIsOK DEF Crash
  <2>2. CASE run.kind # "extract"  BY <1>21, <2>2, RecoveredIsOK
  <2> QED  BY <2>1, <2>2
<1>22. ASSUME NEW p \in Page, PageEdited(p) \/ PageDropped(p) PROVE RunOK(run')
  BY <1>0, <1>22 DEF PageEdited, PageDropped, siteUnchanged
<1>23. CASE Released \/ TemplateSet
  BY <1>0, <1>23 DEF Released, TemplateSet, siteUnchanged
<1>24. CASE UNCHANGED vars  BY <1>1, <1>24 DEF vars
<1> QED
  BY <1>2, <1>3, <1>4, <1>5, <1>6, <1>7, <1>8, <1>9, <1>10, <1>11, <1>12, <1>13, <1>14, <1>15,
     <1>16, <1>17, <1>18, <1>19, <1>20, <1>21, <1>22, <1>23, <1>24 DEF Next, Step
-----------------------------------------------------------------------------
(* The other variables, and TypeOK.                                        *)

SiteOK == /\ site \in [release : 1 .. MaxRelease, pages : SUBSET Page, text : [Topic -> Text]]
          /\ path \in Paths /\ templated \in BOOLEAN
          /\ edits \in 0 .. MaxEdits

BooksOK == /\ toc \subseteq Url /\ ckpt \subseteq Url
           /\ left \in Lists
           /\ lastOk \in 0 .. Cardinality(Page)
           /\ tracked \in [Url -> Text \cup {Unseen}]
           /\ since \in [Topic -> Text]
           /\ fate \in [Url -> {"untried", "stored", "failed", "blocked"}]
           /\ faults \in 0 .. MaxFaults

LEMMA TypesAre == Types <=> SiteOK /\ BooksOK /\ RunOK(run) /\ ArticlesOK(articles)
<1>1. ASSUME Types PROVE SiteOK /\ BooksOK /\ RunOK(run) /\ ArticlesOK(articles)
  BY <1>1 DEF Types, TypeOK, SiteOK, BooksOK, Lists
<1>2. ASSUME SiteOK, BooksOK, RunOK(run), ArticlesOK(articles) PROVE Types
  BY <1>2 DEF Types, TypeOK, SiteOK, BooksOK, Lists, RunOK, ArticlesOK
<1> QED  BY <1>1, <1>2

LEMMA SiteKept ==
    ASSUME SiteOK, [Next]_vars
    PROVE  SiteOK'
<1>1. CASE UNCHANGED <<site, path, templated, edits>>  BY <1>1 DEF SiteOK
<1>2. MaxEdits \in Nat /\ MaxRelease \in Nat  BY BoundsAssumption
<1>3. ASSUME NEW p \in Page, PageEdited(p) PROVE SiteOK'
  <2>1. edits + 1 \in Text /\ edits' \in 0 .. MaxEdits
    BY <1>2, <1>3 DEF PageEdited, Edited, SiteOK, Text
  <2>2. path' = path /\ templated' = templated
    BY <1>3 DEF PageEdited, siteUnchanged
  <2> DEFINE t == [site.text EXCEPT ![p] = edits + 1]
  <2>3. t \in [Topic -> Text]  BY <2>1 DEF SiteOK
  <2>4. site' = [site EXCEPT !.text = t, !.pages = site.pages \cup {p}]
    BY <1>3 DEF PageEdited, SiteOK
  <2> HIDE DEF t
  <2> QED  BY <2>1, <2>2, <2>3, <2>4 DEF SiteOK
<1>4. ASSUME NEW p \in Page, PageDropped(p) PROVE SiteOK'
  BY <1>2, <1>4 DEF PageDropped, Edited, SiteOK, siteUnchanged
<1>5. CASE Released
  BY <1>2, <1>5 DEF Released, Edited, SiteOK, siteUnchanged
<1>6. CASE TemplateSet
  BY <1>2, <1>6 DEF TemplateSet, Edited, SiteOK, siteUnchanged
<1>7. CASE UNCHANGED vars  BY <1>1, <1>7 DEF vars
<1>8. CASE Step
  BY <1>1, <1>8 DEF Step, Collapse, BuildToc, PageStored, PageFails, PageRaises, PageBlocked,
     Checkpoint, EndContent, RebuildToc, EndRetry, Reconcile, ClearCheckpoint, Finish, Fails, world
<1>9. ASSUME NEW allow \in BOOLEAN, Trigger(allow) PROVE SiteOK'
  BY <1>1, <1>9 DEF Trigger, world
<1>10. CASE RetryBlocked \/ Pause \/ Resume \/ Cancel \/ Crash
  BY <1>1, <1>10 DEF RetryBlocked, Pause, Resume, Cancel, Crash, world
<1> QED  BY <1>3, <1>4, <1>5, <1>6, <1>7, <1>8, <1>9, <1>10 DEF Next

LEMMA FaultsFit ==
    ASSUME BooksOK, Fault \/ NoFault
    PROVE  faults' \in 0 .. MaxFaults
BY BoundsAssumption DEF BooksOK, Fault, NoFault

LEMMA BooksKept ==
    ASSUME Types, [Next]_vars
    PROVE  BooksOK'
<1>0. SiteOK /\ BooksOK /\ RunOK(run) /\ run \in Run /\ run.list \in Lists
      /\ run.mark \in SUBSET Url /\ Cardinality(Page) \in Nat
  BY TypesAre, PagesAssumption, FS_CardinalityType DEF RunOK, Run
<1>1. \A u \in Url : site.text[u[1]] \in Text
  BY <1>0 DEF SiteOK, Url
<1>2. ASSUME NEW found \in SUBSET SiteUrls, Collapse(found) PROVE BooksOK'
  BY <1>0, <1>2, FaultsFit DEF Collapse, Over, IfFault, BooksOK
<1>3. ASSUME NEW found \in SUBSET SiteUrls, BuildToc(found) PROVE BooksOK'
  <2>1. toc' \subseteq Url  BY <1>3, SiteIsTyped DEF BuildToc, Types
  <2>2. left' \in Lists  BY <1>0, <1>3, DanglingIsList DEF BuildToc, BooksOK
  <2>3. since' \in [Topic -> Text]  BY <1>0, <1>3 DEF BuildToc, BooksOK, SiteOK
  <2>4. fate' \in [Url -> {"untried", "stored", "failed", "blocked"}]
    BY <1>0, <1>3 DEF BuildToc, BooksOK
  <2>5. UNCHANGED <<ckpt, lastOk, tracked>>  BY <1>3 DEF BuildToc
  <2>6. faults' \in 0 .. MaxFaults  BY <1>0, <1>3, FaultsFit DEF BuildToc, IfFault
  <2> QED  BY <1>0, <2>1, <2>2, <2>3, <2>4, <2>5, <2>6 DEF BooksOK
<1>4. ASSUME NEW u \in Url, Saw(u) PROVE tracked' \in [Url -> Text \cup {Unseen}]
  BY <1>0, <1>1, <1>4 DEF Saw, BooksOK
<1>5. ASSUME NEW u \in Url, Missed(u)
      PROVE  fate' \in [Url -> {"untried", "stored", "failed", "blocked"}]
  BY <1>0, <1>5 DEF Missed, BooksOK
<1>6. ASSUME NEW u \in Url, PageStored(u) PROVE BooksOK'
  <2>1. fate' \in [Url -> {"untried", "stored", "failed", "blocked"}]
    BY <1>0, <1>6 DEF PageStored, BooksOK
  <2>2. tracked' \in [Url -> Text \cup {Unseen}]  BY <1>4, <1>6 DEF PageStored
  <2> QED  BY <1>0, <1>6, <2>1, <2>2 DEF PageStored, BooksOK, kept
<1>7. ASSUME NEW u \in Url, PageFails(u) PROVE BooksOK'
  <2>1. faults' \in 0 .. MaxFaults  BY <1>0, <1>7, FaultsFit DEF PageFails, IfFault
  <2> QED  BY <1>0, <1>5, <1>7, <2>1 DEF PageFails, BooksOK, kept
<1>8. ASSUME NEW u \in Url, PageRaises(u) PROVE BooksOK'
  <2>1. faults' \in 0 .. MaxFaults  BY <1>0, <1>8, FaultsFit DEF PageRaises, IfFault
  <2> QED  BY <1>0, <1>4, <1>5, <1>8, <2>1 DEF PageRaises, BooksOK, kept
<1>9. ASSUME NEW u \in Url, PageBlocked(u) PROVE BooksOK'
  <2>1. fate' \in [Url -> {"untried", "stored", "failed", "blocked"}]
    BY <1>0, <1>9 DEF PageBlocked, BooksOK
  <2>2. faults' \in 0 .. MaxFaults  BY <1>0, <1>9, FaultsFit DEF PageBlocked
  <2> QED  BY <1>0, <1>9, <2>1, <2>2 DEF PageBlocked, BooksOK, kept
<1>10. CASE Checkpoint  BY <1>0, <1>10 DEF Checkpoint, BooksOK, kept
<1>11. CASE EndContent \/ Reconcile \/ ClearCheckpoint
  BY <1>0, <1>11 DEF EndContent, Reconcile, ClearCheckpoint, BooksOK, kept
<1>12. ASSUME NEW h \in SUBSET toc, RebuildToc(h) PROVE BooksOK'
  <2>1. toc' \subseteq Url
    <3>1. \A a \in Live : a.url \in Url  BY DEF Types, TypeOK, Live, Article
    <3> QED  BY <1>0, <1>12, <3>1 DEF RebuildToc, BooksOK
  <2> QED  BY <1>0, <1>12, <2>1 DEF RebuildToc, BooksOK, kept
<1>13. CASE EndRetry
  <2>1. faults' \in 0 .. MaxFaults  BY <1>0, <1>13, FaultsFit DEF EndRetry
  <2> QED  BY <1>0, <1>13, <2>1 DEF EndRetry, BooksOK, kept
<1>14. CASE Finish
  <2>1. run.total \in 0 .. Cardinality(Page)  BY <1>0 DEF RunOK, Run
  <2> QED  BY <1>0, <1>14, <2>1, EmptyIsList DEF Finish, BooksOK
<1>15. CASE Fails
  <2>1. faults' \in 0 .. MaxFaults  BY <1>0, <1>15, FaultsFit DEF Fails, IfFault
  <2> QED  BY <1>0, <1>15, <2>1 DEF Fails, Over, BooksOK
<1>16. ASSUME NEW allow \in BOOLEAN, Trigger(allow) PROVE BooksOK'
  BY <1>0, <1>16 DEF Trigger, BooksOK, kept
<1>17. CASE RetryBlocked \/ Resume
  BY <1>0, <1>17 DEF RetryBlocked, Resume, BooksOK, kept
<1>18. CASE Pause \/ Crash
  <2>1. faults' \in 0 .. MaxFaults  BY <1>0, <1>18, FaultsFit DEF Pause, Crash
  <2> QED  BY <1>0, <1>18, <2>1 DEF Pause, Crash, BooksOK, kept
<1>19. CASE Cancel
  <2>1. faults' \in 0 .. MaxFaults  BY <1>0, <1>19, FaultsFit DEF Cancel
  <2> QED  BY <1>0, <1>19, <2>1 DEF Cancel, Over, BooksOK
<1>20. CASE siteUnchanged  BY <1>0, <1>20 DEF siteUnchanged, BooksOK, kept
<1>21. CASE UNCHANGED vars  BY <1>0, <1>21 DEF vars, BooksOK
<1> QED
  BY <1>2, <1>3, <1>6, <1>7, <1>8, <1>9, <1>10, <1>11, <1>12, <1>13, <1>14, <1>15, <1>16, <1>17,
     <1>18, <1>19, <1>20, <1>21
  DEF Next, Step, PageEdited, PageDropped, Released, TemplateSet

\* Types and the uniqueness of the keys are kept together.
LEMMA TypesInit == Init => Types /\ KeysUnique
<1> SUFFICES ASSUME Init PROVE Types /\ KeysUnique  OBVIOUS
<1>1. MaxRelease \in Nat /\ MaxEdits \in Nat /\ MaxFaults \in Nat /\ Cardinality(Page) \in Nat
  BY BoundsAssumption, PagesAssumption, FS_CardinalityType
<1>2. RunOK(run)  BY NoRunIsOK DEF Init
<1>3. ArticlesOK(articles) /\ KeysUnique  BY FS_EmptySet DEF Init, ArticlesOK, KeysUnique
<1>4. BooksOK  BY <1>1, EmptyIsList DEF Init, BooksOK, Unseen, Text
<1>5. SiteOK
  <2>1. [p \in Topic |-> 0] \in [Topic -> Text] /\ 1 \in 1 .. MaxRelease /\ 0 \in 0 .. MaxEdits
    BY <1>1, BoundsAssumption DEF Text
  <2> DEFINE t == [p \in Topic |-> 0]
  <2>2. site = [release |-> 1, pages |-> Page, text |-> t]  BY DEF Init
  <2> HIDE DEF t
  <2> QED  BY <2>1, <2>2 DEF Init, SiteOK, t
<1> QED  BY <1>2, <1>3, <1>4, <1>5, TypesAre

LEMMA TypesKept == Types /\ KeysUnique /\ [Next]_vars => Types' /\ KeysUnique'
<1> SUFFICES ASSUME Types, KeysUnique, [Next]_vars PROVE Types' /\ KeysUnique'  OBVIOUS
<1>1. RunOK(run)'  BY RunKept
<1>2. ArticlesOK(articles)' /\ KeysUnique'  BY RowsKept
<1>3. BooksOK'  BY BooksKept
<1>4. SiteOK'  BY SiteKept, TypesAre
<1>5. TypeOK'
  BY <1>1, <1>3, <1>4, <1>2 DEF TypeOK, SiteOK, BooksOK, Lists, RunOK, ArticlesOK
<1> QED  BY <1>1, <1>2, <1>5 DEF Types

\* Every state of the site and its extractions is one of the types that the module
\* declares, with a checkpoint pending only in a first pass.
THEOREM RunTypes == Spec => []TypeOK
<1>1. Init => Types /\ KeysUnique  BY TypesInit
<1>2. Types /\ KeysUnique /\ [Next]_vars => Types' /\ KeysUnique'  BY TypesKept
<1>3. Types => TypeOK  BY DEF Types
<1> QED  BY <1>1, <1>2, <1>3, PTL DEF Spec

\* A source never has two articles of one topic key: process_article_result finds the
\* old one (removed or not) by its key first, so the unique index is never hit.
THEOREM KeysStayUnique == Spec => []KeysUnique
<1>1. Init => Types /\ KeysUnique  BY TypesInit
<1>2. Types /\ KeysUnique /\ [Next]_vars => Types' /\ KeysUnique'  BY TypesKept
<1> QED  BY <1>1, <1>2, PTL DEF Spec
-----------------------------------------------------------------------------
(* The checkpoint.                                                         *)

\* A step that leaves no page waiting for its checkpoint, and adds none to it.
LEMMA HonestFrom ==
    ASSUME Honest, run'.mark = {}, ckpt' \in {{}, ckpt}, path' = path, fate' = fate
    PROVE  Honest'
BY DEF Honest, CheckpointIsHonest, MarkIsHonest, Raw

\* A page that has been tried has a fate, and on the raw path only a stored one waits.
LEMMA HonestTried ==
    ASSUME Types, Honest, NEW u \in Url, NEW stored \in BOOLEAN, run.mark = {},
           run'.mark = After(run, u, stored).mark, ckpt' = ckpt, path' = path,
           \A v \in Url \ {u} : fate'[v] = fate[v],
           fate'[u] # "untried", fate[u] = "stored" \/ stored => fate'[u] = "stored"
    PROVE  Honest'
<1>1. run'.mark \in {{}, {u}} /\ (Raw /\ ~stored => run'.mark = {})
  BY AfterIs DEF Types, RunOK
<1>2. ckpt \subseteq Url
  BY DEF Types, TypeOK
<1>3. Raw' <=> Raw  BY DEF Raw
<1>4. CheckpointIsHonest'
  BY <1>2, <1>3 DEF Honest, CheckpointIsHonest
<1>5. MarkIsHonest'
  BY <1>1, <1>3 DEF MarkIsHonest
<1> QED  BY <1>4, <1>5 DEF Honest

LEMMA HonestKept == Types /\ Honest /\ [Next]_vars => Honest'
<1> SUFFICES ASSUME Types, Honest, [Next]_vars PROVE Honest'  OBVIOUS
<1>0. RunOK(run) /\ RunOK(run') /\ run \in Run /\ fate \in [Url -> {"untried", "stored", "failed", "blocked"}]
  BY RunKept DEF Types, TypeOK
<1>1. CASE UNCHANGED <<path, ckpt, run, fate>>
  BY <1>1 DEF Honest, CheckpointIsHonest, MarkIsHonest, Raw
<1>2. ASSUME NEW found \in SUBSET SiteUrls, Collapse(found) PROVE Honest'
  BY <1>2, HonestFrom DEF Collapse, Over, NoRun, world
<1>3. ASSUME NEW found \in SUBSET SiteUrls, BuildToc(found) PROVE Honest'
  <2>1. run'.mark = {}  BY <1>3, BuiltIsOK
  <2>2. CASE ckpt = {}
    BY <1>3, <2>1, <2>2 DEF BuildToc, Honest, CheckpointIsHonest, MarkIsHonest
  <2>3. CASE ckpt # {}
    BY <1>3, <2>1, <2>3, HonestFrom DEF BuildToc, world
  <2> QED  BY <2>2, <2>3
<1>4. ASSUME NEW u \in Url, PageStored(u) PROVE Honest'
  <2>1. run'.mark = After(run, u, TRUE).mark /\ run.mark = {}
    BY <1>0, <1>4, NotedIs, EmptyIsList DEF PageStored, Attempt, Lists
  <2> QED  BY <1>0, <1>4, <2>1, HonestTried DEF PageStored, world
<1>5. ASSUME NEW u \in Url, Missed(u)
      PROVE  /\ \A v \in Url \ {u} : fate'[v] = fate[v]
             /\ fate'[u] # "untried" /\ (fate[u] = "stored" => fate'[u] = "stored")
  BY <1>0, <1>5 DEF Missed
<1>6. ASSUME NEW u \in Url, PageFails(u) PROVE Honest'
  BY <1>0, <1>5, <1>6, HonestTried DEF PageFails, Attempt, world
<1>7. ASSUME NEW u \in Url, PageRaises(u) PROVE Honest'
  <2>1. run'.mark = After(run, u, FALSE).mark /\ run.mark = {}
    BY <1>0, <1>7, NotedIs, EmptyIsList DEF PageRaises, Attempt, Lists
  <2> QED  BY <1>0, <1>5, <1>7, <2>1, HonestTried DEF PageRaises, world
<1>8. ASSUME NEW u \in Url, PageBlocked(u) PROVE Honest'
  <2>1. run'.mark = After(run, u, FALSE).mark /\ run.mark = {}
    BY <1>0, <1>8, NotedIs, BlockedIsOK DEF PageBlocked, Attempt, Lists
  <2> QED  BY <1>0, <1>8, <2>1, HonestTried DEF PageBlocked, world
<1>9. CASE Checkpoint
  BY <1>9 DEF Checkpoint, world, Honest, CheckpointIsHonest, MarkIsHonest, Raw
<1>10. ASSUME run'.phase # "scrape", UNCHANGED <<path, fate>>, ckpt' \in {{}, ckpt} PROVE Honest'
  BY <1>0, <1>10, HonestFrom DEF RunOK
<1>11. ASSUME EndContent \/ \E h \in SUBSET toc : RebuildToc(h) PROVE Honest'
  <2>1. PICK r : RunOK(r) /\ run' = SecondPass(r) /\ r.phase = "scrape" /\ r.todo = {} /\ r.mark = {}
    BY <1>0, <1>11, RebuiltIs DEF EndContent, Passed
  <2>2. run'.phase # "scrape"  BY <2>1, SecondPassIs
  <2> QED  BY <1>10, <1>11, <2>2 DEF EndContent, RebuildToc, world
<1>12. CASE EndRetry
  <2>1. run'.phase # "scrape"  BY <1>12, RetriedIsOK
  <2> QED  BY <1>10, <1>12, <2>1 DEF EndRetry, world
<1>13. CASE Reconcile \/ ClearCheckpoint \/ Resume
  <2>1. run'.phase # "scrape"  BY <1>0, <1>13 DEF Reconcile, ClearCheckpoint, Resume, Run
  <2> QED  BY <1>10, <1>13, <2>1 DEF Reconcile, ClearCheckpoint, Resume, world
<1>14. CASE Finish \/ Fails \/ Cancel
  <2>1. run'.phase # "scrape"  BY <1>14 DEF Finish, Fails, Cancel, Over, NoRun
  <2> QED  BY <1>10, <1>14, <2>1 DEF Finish, Fails, Cancel, world
<1>15. ASSUME (\E allow \in BOOLEAN : Trigger(allow)) \/ RetryBlocked \/ Pause \/ Crash PROVE Honest'
  <2>1. run'.phase # "scrape"
    <3>1. CASE \E allow \in BOOLEAN : Trigger(allow)  BY <3>1, NoRunIsRun DEF Trigger, Run
    <3>2. CASE RetryBlocked  BY <3>2, NoRunIsRun DEF RetryBlocked, RetryRun, Run
    <3>3. CASE Pause  BY <3>3, QueuedIs DEF Pause
    <3>4. CASE Crash  BY <3>4, QueuedIs, RecoveredIsOK DEF Crash
    <3> QED  BY <1>15, <3>1, <3>2, <3>3, <3>4
  <2> QED  BY <1>10, <1>15, <2>1 DEF Trigger, RetryBlocked, Pause, Crash, world
<1>16. CASE siteUnchanged \/ UNCHANGED vars
  BY <1>1, <1>16 DEF siteUnchanged, vars
<1> QED
  BY <1>2, <1>3, <1>4, <1>6, <1>7, <1>8, <1>9, <1>11, <1>12, <1>13, <1>14, <1>15, <1>16
  DEF Next, Step, PageEdited, PageDropped, Released, TemplateSet

\* A page that a resumed run may skip has been tried in this cycle, and on the raw path
\* stored: toc_checkpoint is emptied with every cycle, and _mark_done follows the commit.
THEOREM CheckpointsAreHonest == Spec => []CheckpointIsHonest
<1>1. Init => Types /\ KeysUnique /\ Honest
  BY TypesInit, NoRunIsRun DEF Init, Honest, CheckpointIsHonest, MarkIsHonest, NoRun
<1>2. Types /\ KeysUnique /\ Honest /\ [Next]_vars => Types' /\ KeysUnique' /\ Honest'
  BY TypesKept, HonestKept
<1>3. Honest => CheckpointIsHonest  BY DEF Honest
<1> QED  BY <1>1, <1>2, <1>3, PTL DEF Spec
-----------------------------------------------------------------------------
(* What a cycle has stored.                                                *)

\* What becomes of the fates: a new cycle forgets them, and only a stored page of the
\* present release gets one that was not.
FatesKept == \A v \in Url : fate'[v] = "stored" <=> fate[v] = "stored"

LEMMA MissedKeeps ==
    ASSUME Types, NEW u \in Url, Missed(u) \/ PageBlocked(u)
    PROVE  FatesKept
BY DEF Types, TypeOK, Missed, PageBlocked, FatesKept

LEMMA StepsOnFates ==
    ASSUME Types, [Next]_vars
    PROVE  \/ UNCHANGED since /\ FatesKept
           \/ \E found \in SUBSET SiteUrls :
                 /\ BuildToc(found) /\ ckpt = {} /\ since' = site.text
                 /\ \A v \in Url : fate'[v] = "untried"
           \/ \E u \in Url : PageStored(u) /\ UNCHANGED since /\ fate' = [fate EXCEPT ![u] = "stored"]
<1>1. CASE UNCHANGED <<since, fate>>  BY <1>1 DEF FatesKept
<1>2. ASSUME NEW found \in SUBSET SiteUrls, BuildToc(found)
      PROVE  \/ UNCHANGED <<since, fate>>
             \/ /\ ckpt = {} /\ since' = site.text
                /\ \A v \in Url : fate'[v] = "untried"
  BY <1>2 DEF BuildToc
<1>3. ASSUME NEW u \in Url, PageStored(u)
      PROVE  UNCHANGED since /\ fate' = [fate EXCEPT ![u] = "stored"]
  BY <1>3 DEF PageStored, kept
<1>4. ASSUME NEW u \in Url, PageFails(u) \/ PageRaises(u) \/ PageBlocked(u)
      PROVE  UNCHANGED since /\ FatesKept
  BY <1>4, MissedKeeps DEF PageFails, PageRaises, PageBlocked, kept
<1>5. ASSUME NEW found \in SUBSET SiteUrls, Collapse(found) PROVE UNCHANGED <<since, fate>>
  BY <1>5 DEF Collapse
<1>6. ASSUME NEW h \in SUBSET toc, RebuildToc(h) PROVE UNCHANGED <<since, fate>>
  BY <1>6 DEF RebuildToc, kept
<1>7. CASE Checkpoint \/ EndContent \/ EndRetry \/ Reconcile \/ ClearCheckpoint \/ Finish \/ Fails
  BY <1>1, <1>7 DEF Checkpoint, EndContent, EndRetry, Reconcile, ClearCheckpoint, Finish, Fails, kept
<1>8. CASE Step
  BY <1>1, <1>2, <1>3, <1>4, <1>5, <1>6, <1>7, <1>8 DEF Step
<1>9. CASE ~Step /\ Next
  BY <1>1, <1>9 DEF Next, Trigger, RetryBlocked, Pause, Resume, Cancel, Crash, PageEdited,
     PageDropped, Released, TemplateSet, siteUnchanged, kept
<1>10. CASE UNCHANGED vars  BY <1>1, <1>10 DEF vars
<1> QED  BY <1>8, <1>9, <1>10

LEMMA SiteGrows ==
    ASSUME Types, TimesFit, [Next]_vars
    PROVE  /\ \A p \in Topic : site'.text[p] >= site.text[p] /\ site'.text[p] <= edits'
           /\ site'.release >= site.release
           /\ path' = path
<1>0. /\ SiteOK /\ edits \in Nat /\ site.release \in Nat
      /\ \A p \in Topic : site.text[p] \in Nat /\ site.text[p] <= edits
  BY TypesAre, BoundsAssumption DEF SiteOK, TimesFit, Text
<1>1. CASE UNCHANGED world  BY <1>0, <1>1 DEF world
<1>2. ASSUME NEW p \in Page, PageEdited(p)
      PROVE  /\ \A q \in Topic : site'.text[q] = IF q = p THEN edits + 1 ELSE site.text[q]
             /\ site'.release = site.release /\ edits' = edits + 1 /\ path' = path
  BY <1>0, <1>2 DEF PageEdited, Edited, siteUnchanged, SiteOK, Topic
<1>3. ASSUME NEW p \in Page, PageDropped(p)
      PROVE  site'.text = site.text /\ site'.release = site.release /\ edits' = edits + 1 /\ path' = path
  BY <1>0, <1>3 DEF PageDropped, Edited, siteUnchanged, SiteOK
<1>4. ASSUME Released
      PROVE  site'.text = site.text /\ site'.release = site.release + 1 /\ edits' = edits + 1 /\ path' = path
  BY <1>0, <1>4 DEF Released, Edited, siteUnchanged, SiteOK
<1>5. ASSUME TemplateSet
      PROVE  site' = site /\ edits' = edits + 1 /\ path' = path
  BY <1>5 DEF TemplateSet, Edited, siteUnchanged
<1>6. CASE Step
  BY <1>1, <1>6 DEF Step, Collapse, BuildToc, PageStored, PageFails, PageRaises, PageBlocked,
     Checkpoint, EndContent, RebuildToc, EndRetry, Reconcile, ClearCheckpoint, Finish, Fails
<1>7. ASSUME NEW allow \in BOOLEAN, Trigger(allow) PROVE UNCHANGED world
  BY <1>7 DEF Trigger
<1>8. CASE RetryBlocked \/ Pause \/ Resume \/ Cancel \/ Crash
  BY <1>1, <1>8 DEF RetryBlocked, Pause, Resume, Cancel, Crash
<1>9. CASE UNCHANGED vars  BY <1>1, <1>9 DEF vars, world
<1>10. CASE \E p \in Page : PageEdited(p) \/ PageDropped(p)
  BY <1>0, <1>2, <1>3, <1>10
<1>11. CASE Released \/ TemplateSet
  BY <1>0, <1>4, <1>5, <1>11
<1> QED  BY <1>1, <1>6, <1>7, <1>8, <1>9, <1>10, <1>11 DEF Next

LEMMA TimesKept ==
    ASSUME Types, TimesFit, [Next]_vars
    PROVE  TimesFit'
<1>0. /\ \A p \in Topic : /\ since[p] \in Nat /\ site.text[p] \in Nat /\ site'.text[p] \in Int
                          /\ since[p] <= site.text[p]
      /\ site.release \in Nat /\ site'.release \in Nat
      /\ \A u \in Url : u[2] \in Nat
  BY SiteKept, TypesAre, BoundsAssumption DEF SiteOK, BooksOK, Text, Url, TimesFit
<1>1. /\ \A p \in Topic : site'.text[p] >= site.text[p] /\ site'.text[p] <= edits'
      /\ site'.release >= site.release
  BY SiteGrows
<1>2. CASE UNCHANGED since /\ FatesKept
  BY <1>0, <1>1, <1>2 DEF TimesFit, FatesKept
<1>3. CASE since' = site.text /\ \A v \in Url : fate'[v] = "untried"
  BY <1>0, <1>1, <1>3 DEF TimesFit
<1>4. ASSUME NEW u \in Url, PageStored(u), UNCHANGED since, fate' = [fate EXCEPT ![u] = "stored"]
      PROVE  TimesFit'
  <2>1. u[2] = site.release  BY <1>4 DEF PageStored, Served, SiteUrls
  <2>2. \A v \in Url : fate'[v] = "stored" => v = u \/ fate[v] = "stored"
    BY <1>4 DEF Types, TypeOK
  <2> QED  BY <1>0, <1>1, <1>4, <2>1, <2>2 DEF TimesFit
<1> QED  BY <1>2, <1>3, <1>4, StepsOnFates

\* Where nothing gets stored anew, what was stored last still is.
LEMMA LastKept ==
    ASSUME FatesKept, NEW u \in Url, StoredLast(u)'
    PROVE  StoredLast(u)
BY DEF FatesKept, StoredLast

\* When a page is stored, only pages of other topics are among those stored last.
LEMMA LastStored ==
    ASSUME Types, TimesFit, NEW u \in Url, PageStored(u), NEW v \in Url, StoredLast(v)'
    PROVE  v = u \/ (v[1] # u[1] /\ StoredLast(v))
<1>1. fate' = [fate EXCEPT ![u] = "stored"] /\ u[2] = site.release
      /\ fate \in [Url -> {"untried", "stored", "failed", "blocked"}]
  BY DEF PageStored, Served, SiteUrls, Types, TypeOK
<1>2. \A w \in Url : w = <<w[1], w[2]>> /\ w[2] \in Nat
  BY BoundsAssumption DEF Url
<1>3. CASE v[1] = u[1] /\ v # u
  <2>1. fate[v] = "stored" /\ fate'[u] = "stored"  BY <1>1, <1>3 DEF StoredLast
  <2>2. v[2] <= u[2]  BY <1>1, <2>1 DEF TimesFit
  <2>3. u[2] <= v[2]  BY <1>3, <2>1 DEF StoredLast
  <2>4. v[2] = u[2]  BY <1>2, <2>2, <2>3
  <2>5. v = u  BY <1>2, <1>3, <2>4
  <2> QED  BY <1>3, <2>5
<1>4. CASE v[1] # u[1]
  <2>1. fate[v] = "stored"  BY <1>1, <1>4 DEF StoredLast
  <2>2. ASSUME NEW w \in Url, w[1] = v[1], fate[w] = "stored"  PROVE w[2] <= v[2]
    <3>1. w # u  BY <1>4, <2>2
    <3>2. fate'[w] = "stored"  BY <1>1, <2>2, <3>1
    <3> QED  BY <2>2, <3>2 DEF StoredLast
  <2> QED  BY <1>4, <2>1, <2>2 DEF StoredLast
<1> QED  BY <1>3, <1>4

\* The article of a page that has been stored.
LEMMA NewIsFresh ==
    ASSUME Types, KeysUnique, TimesFit, NEW u \in Url, PageStored(u)
    PROVE  /\ \E n \in articles' : Fresh(n, u)' /\ n.link
           /\ \A v \in Url, a \in articles : v[1] # u[1] /\ a.url = v => a \in articles'
           /\ \A b \in articles' : b.url # u => b \in articles
<1>1. PICK n \in Article :
          /\ Stored(u) = (articles \ Matches(u)) \cup {n}
          /\ n.url = u /\ n.link
          /\ path # "tracked" => n.text = site.text[u[1]]
  BY StoredIs DEF PageStored
<1>2. articles' = Stored(u) /\ UNCHANGED <<path, since>>
  BY DEF PageStored, kept, world
<1>3. u[1] \in Topic /\ since[u[1]] \in Nat /\ site.text[u[1]] \in Nat
  BY BoundsAssumption DEF Types, TypeOK, Text, Url
<1>4. path # "tracked" => n.text >= since[u[1]]
  BY <1>1, <1>3 DEF TimesFit
<1>5. Fresh(n, u)'
  BY <1>1, <1>2, <1>4 DEF Fresh
<1>6. \A a \in articles : a.url[1] # u[1] => a \notin Matches(u)
  BY MatchesAre
<1> QED  BY <1>1, <1>2, <1>5, <1>6

\* Rows that get another link or removal mark stay as fresh as they were.
LEMMA RelabelledStayFresh ==
    ASSUME UNCHANGED <<since, path>>, NEW u \in Url, NEW a, NEW b, b.url = a.url, b.text = a.text,
           Fresh(a, u)
    PROVE  Fresh(b, u)'
BY DEF Fresh

LEMMA ThereKept ==
    ASSUME Types, KeysUnique, TimesFit, StoredIsThere, [Next]_vars
    PROVE  StoredIsThere'
<1>0. path' = path  BY SiteGrows
<1> SUFFICES ASSUME NEW v \in Url, StoredLast(v)'
             PROVE  \E a \in articles' : Fresh(a, v)'
  BY DEF StoredIsThere
<1>1. ASSUME NEW u \in Url, PageStored(u) PROVE \E a \in articles' : Fresh(a, v)'
  <2>1. CASE v = u  BY <1>1, <2>1, NewIsFresh
  <2>2. CASE v[1] # u[1] /\ StoredLast(v)
    <3>1. PICK a \in articles : Fresh(a, v)  BY <2>2 DEF StoredIsThere
    <3>2. a.url = v  BY <3>1 DEF Fresh
    <3>3. a \in articles'  BY <1>1, <2>2, <3>2, NewIsFresh
    <3>4. UNCHANGED since  BY <1>1 DEF PageStored, kept
    <3>5. Fresh(a, v)'  BY <1>0, <3>1, <3>4, RelabelledStayFresh
    <3> QED  BY <3>3, <3>5
  <2> QED  BY <1>1, <2>1, <2>2, LastStored
<1>2. CASE UNCHANGED since /\ FatesKept
  <2>1. PICK a \in articles : Fresh(a, v)  BY <1>2, LastKept DEF StoredIsThere
  <2>2. CASE articles' = articles
    BY <1>0, <1>2, <2>1, <2>2, RelabelledStayFresh
  <2>3. CASE articles' = {Unlinked(b) : b \in articles}
    <3>1. Unlinked(a).url = a.url /\ Unlinked(a).text = a.text  BY RelabelsAre
    <3> QED  BY <1>0, <1>2, <2>1, <2>3, <3>1, RelabelledStayFresh
  <2>4. CASE articles' = {RelinkedTo(b, toc') : b \in articles}
    <3>1. RelinkedTo(a, toc').url = a.url /\ RelinkedTo(a, toc').text = a.text  BY RelabelsAre
    <3> QED  BY <1>0, <1>2, <2>1, <2>4, <3>1, RelabelledStayFresh
  <2>5. CASE articles' = {Settled(b) : b \in articles}
    <3>1. Settled(a).url = a.url /\ Settled(a).text = a.text  BY RelabelsAre
    <3> QED  BY <1>0, <1>2, <2>1, <2>5, <3>1, RelabelledStayFresh
  <2> QED  BY <1>1, <2>2, <2>3, <2>4, <2>5, StepsOnRows
<1>3. CASE \A w \in Url : fate'[w] = "untried"
  BY <1>3 DEF StoredLast
<1> QED  BY <1>1, <1>2, <1>3, StepsOnFates

\* Where a run goes: an extraction begins to write with a new TOC only, and its removals
\* are done by one step.
LEMMA StepsOnPhase ==
    ASSUME Types, [Next]_vars
    PROVE  /\ Extracting' => Extracting \/ \E found \in SUBSET SiteUrls : BuildToc(found)
           /\ Reconciled' => Reconciled \/ Reconcile
<1> DEFINE G == /\ Extracting' => Extracting
                /\ Reconciled' => Reconciled
<1>0. run \in Run  BY DEF Types, RunOK
<1>1. ASSUME run'.kind = run.kind, run'.phase = run.phase PROVE G
  BY <1>1 DEF Extracting, Reconciled
<1>2. ASSUME run'.phase \in {"none", "queued", "paused"} \/ run'.kind = "retry_blocked" PROVE G
  BY <1>2 DEF Extracting, Reconciled
<1>3. ASSUME run'.phase \in {"retry", "reconcile"}, run.phase \in {"scrape", "retry"}, run'.kind = run.kind
      PROVE  G
  BY <1>3 DEF Extracting, Reconciled
<1>4. ASSUME NEW u \in Url, PageStored(u) PROVE G
  <2>1. run'.phase = run.phase /\ run'.kind = run.kind
    BY <1>0, <1>4, NotedIs, EmptyIsList DEF PageStored, Lists
  <2> QED  BY <1>1, <2>1
<1>5. ASSUME NEW u \in Url, PageFails(u) \/ PageRaises(u) \/ PageBlocked(u) PROVE G
  <2>1. CASE PageFails(u) \/ PageRaises(u)
    <3>1. run'.phase = run.phase /\ run'.kind = run.kind
      BY <1>0, <2>1, NotedIs, EmptyIsList DEF PageFails, PageRaises, Lists
    <3> QED  BY <1>1, <3>1
  <2>2. CASE PageBlocked(u)
    <3>1. run'.phase = run.phase /\ run'.kind = run.kind
      BY <1>0, <2>2, NotedIs, BlockedIsOK DEF Lists
    <3> QED  BY <1>1, <3>1
  <2> QED  BY <1>5, <2>1, <2>2
<1>6. CASE Checkpoint
  BY <1>0, <1>1, <1>6 DEF Checkpoint, Run
<1>7. ASSUME EndContent \/ \E h \in SUBSET toc : RebuildToc(h) PROVE G
  <2>1. PICK r : /\ RunOK(r) /\ run' = SecondPass(r) /\ r.phase = "scrape" /\ r.todo = {} /\ r.mark = {}
                 /\ r.kind = run.kind
    BY <1>7, RebuiltIs DEF EndContent, Passed, Types
  <2>2. run'.phase \in {"reconcile", "retry"} /\ run'.kind = run.kind  BY <2>1, SecondPassIs
  <2>3. run.phase = "scrape"  BY <1>7 DEF EndContent, RebuildToc, Passed
  <2> QED  BY <1>3, <2>2, <2>3
<1>8. CASE EndRetry
  <2>1. run.kind \in {"extract", "retry_blocked"}  BY <1>0 DEF Run
  <2>2. /\ run'.kind = run.kind /\ run.phase = "retry"
        /\ run'.phase = IF run.kind = "extract" THEN "reconcile" ELSE "finish"
    BY <1>8, RetriedIsOK DEF EndRetry
  <2>3. CASE run.kind = "extract"  BY <1>3, <2>2, <2>3
  <2>4. CASE run.kind = "retry_blocked"  BY <1>2, <2>2, <2>4
  <2> QED  BY <2>1, <2>3, <2>4
<1>9. CASE ClearCheckpoint
  <2>1. run' = [run EXCEPT !.phase = "finish"] /\ run.phase = "close"  BY <1>9 DEF ClearCheckpoint
  <2>2. run'.phase = "finish" /\ run'.kind = run.kind  BY <1>0, <2>1 DEF Run
  <2> QED  BY <2>1, <2>2 DEF Extracting, Reconciled
<1>10. ASSUME Finish \/ Fails \/ Cancel \/ \E found \in SUBSET SiteUrls : Collapse(found) PROVE G
  <2>1. run' = NoRun  BY <1>10 DEF Finish, Fails, Cancel, Collapse, Over
  <2> QED  BY <1>2, <2>1 DEF NoRun
<1>11. ASSUME NEW allow \in BOOLEAN, Trigger(allow) PROVE G
  <2>1. run'.phase = "queued"  BY <1>11, NoRunIsRun DEF Trigger, Run
  <2> QED  BY <1>2, <2>1
<1>12. CASE RetryBlocked
  <2>1. run'.kind = "retry_blocked"  BY <1>12, NoRunIsRun DEF RetryBlocked, RetryRun, Run
  <2> QED  BY <1>2, <2>1
<1>13. CASE Pause  BY <1>2, <1>13, QueuedIs DEF Pause
<1>14. CASE Resume
  <2>1. run'.phase = "queued"  BY <1>0, <1>14 DEF Resume, Run
  <2> QED  BY <1>2, <2>1
<1>15. CASE Crash
  BY <1>2, <1>15, QueuedIs, RecoveredIsOK DEF Crash
<1>16. CASE run' = run
  BY <1>1, <1>16
<1>17. CASE Reconcile
  <2>1. run' = [run EXCEPT !.phase = "close"]  BY <1>17 DEF Reconcile
  <2>2. run'.phase = "close"  BY <1>0, <2>1 DEF Run
  <2>3. ~Extracting'  BY <2>2 DEF Extracting
  <2> QED  BY <1>17, <2>3
<1>18. ASSUME NEW found \in SUBSET SiteUrls, BuildToc(found) PROVE ~Reconciled'
  BY <1>18, BuiltIsOK DEF Reconciled
<1> HIDE DEF Extracting, Reconciled
<1>19. CASE Step
  BY <1>4, <1>5, <1>6, <1>7, <1>8, <1>9, <1>10, <1>17, <1>18, <1>19 DEF Step
<1> QED  BY <1>10, <1>11, <1>12, <1>13, <1>14, <1>15, <1>16, <1>19
  DEF Next, PageEdited, PageDropped, Released, TemplateSet, siteUnchanged, vars

LEMMA LinkedKept ==
    ASSUME Types, KeysUnique, StoreInv, [Next]_vars
    PROVE  StoredIsLinked'
<1>0. path' = path  BY SiteGrows DEF StoreInv
<1> SUFFICES ASSUME Extracting', NEW v \in toc', StoredLast(v)'
             PROVE  \E a \in articles' :
                        Fresh(a, v)' /\ (a.link \/ \A b \in articles' : b.url = v => ~b.link)
  BY DEF StoredIsLinked
<1>1. v \in Url /\ \A a \in articles : a.link \in BOOLEAN
  BY BooksKept DEF BooksOK, Types, TypeOK, Article
<1>2. ASSUME NEW found \in SUBSET SiteUrls, BuildToc(found), articles' = {Unlinked(b) : b \in articles}
      PROVE  \E a \in articles' : Fresh(a, v)' /\ \A b \in articles' : ~b.link
  <2>1. PICK a \in articles' : Fresh(a, v)'
    BY <1>1, ThereKept DEF StoreInv, StoredIsThere
  <2>2. \A b \in articles' : ~b.link
    BY <1>2, RelabelsAre
  <2> QED  BY <2>1, <2>2
<1>3. ASSUME NEW h \in SUBSET toc, articles' = {RelinkedTo(b, toc') : b \in articles}
      PROVE  \E a \in articles' : Fresh(a, v)' /\ a.link
  <2>1. PICK a \in articles' : Fresh(a, v)'
    BY <1>1, ThereKept DEF StoreInv, StoredIsThere
  <2>2. PICK b \in articles : a = RelinkedTo(b, toc')
    BY <1>3
  <2>3. a.url = v /\ a.link = (b.url \in toc') /\ a.url = b.url
    BY <2>1, <2>2, RelabelsAre DEF Fresh
  <2> QED  BY <2>1, <2>3
<1>4. CASE Reconcile
  <2>1. run'.phase = "close"  BY <1>4 DEF Reconcile, Types, RunOK, Run
  <2> QED  BY <2>1 DEF Extracting
<1>5. ASSUME UNCHANGED <<articles, toc>>, UNCHANGED since, FatesKept,
             ~\E found \in SUBSET SiteUrls : BuildToc(found)
      PROVE  \E a \in articles' : Fresh(a, v)' /\ (a.link \/ \A b \in articles' : b.url = v => ~b.link)
  <2>1. Extracting  BY <1>5, StepsOnPhase
  <2>2. StoredLast(v)  BY <1>1, <1>5, LastKept
  <2>3. PICK a \in articles : Fresh(a, v) /\ (a.link \/ \A b \in articles : b.url = v => ~b.link)
    BY <1>5, <2>1, <2>2 DEF StoreInv, StoredIsLinked
  <2>4. Fresh(a, v)'  BY <1>0, <1>1, <1>5, <2>3, RelabelledStayFresh
  <2> QED  BY <1>5, <2>3, <2>4
<1>6. ASSUME NEW u \in Url, PageStored(u), toc' = toc
      PROVE  \E a \in articles' : Fresh(a, v)' /\ (a.link \/ \A b \in articles' : b.url = v => ~b.link)
  <2>1. CASE v = u  BY <1>6, <2>1, NewIsFresh DEF StoreInv
  <2>2. CASE v[1] # u[1] /\ StoredLast(v)
    <3>1. Extracting
      <4>1. run'.phase = run.phase /\ run'.kind = run.kind
        BY <1>6, NotedIs, EmptyIsList DEF PageStored, Lists, Types, RunOK
      <4> QED  BY <4>1 DEF Extracting
    <3>2. PICK a \in articles : Fresh(a, v) /\ (a.link \/ \A b \in articles : b.url = v => ~b.link)
      BY <1>6, <2>2, <3>1 DEF StoreInv, StoredIsLinked
    <3>3. a.url = v  BY <3>2 DEF Fresh
    <3>4. a \in articles' /\ \A b \in articles' : b.url = v => b \in articles
      BY <1>1, <1>6, <2>2, <3>3, NewIsFresh DEF StoreInv
    <3>5. UNCHANGED since  BY <1>6 DEF PageStored, kept
    <3>6. Fresh(a, v)'  BY <1>0, <1>1, <3>2, <3>5, RelabelledStayFresh
    <3> QED  BY <3>2, <3>4, <3>6
  <2> QED  BY <1>1, <1>6, <2>1, <2>2, LastStored DEF StoreInv
<1>7. CASE \A w \in Url : fate'[w] = "untried"
  BY <1>1, <1>7 DEF StoredLast
<1>8. ASSUME NEW found \in SUBSET SiteUrls, BuildToc(found)
      PROVE  articles' = {Unlinked(b) : b \in articles}
  BY <1>8 DEF BuildToc, Unlinked
<1> QED  BY <1>2, <1>3, <1>4, <1>5, <1>6, <1>7, <1>8, StepsOnRows, StepsOnFates

LEMMA LiveKept ==
    ASSUME Types, KeysUnique, StoreInv, [Next]_vars
    PROVE  StoredIsKept'
<1>0. path' = path  BY SiteGrows DEF StoreInv
<1> SUFFICES ASSUME Reconciled', NEW v \in toc', StoredLast(v)'
             PROVE  \E a \in articles' : ~a.removed /\ Fresh(a, v)'
  BY DEF StoredIsKept, Live
<1>1. v \in Url
  BY BooksKept DEF BooksOK
<1>2. run \in Run  BY DEF Types, RunOK
<1>3. ASSUME Reconcile, articles' = {Settled(a) : a \in articles}, toc' = toc
      PROVE  \E a \in articles' : ~a.removed /\ Fresh(a, v)'
  <2>1. UNCHANGED <<since, fate>>  BY <1>3 DEF Reconcile, kept
  <2>2. run' = [run EXCEPT !.phase = "close"] /\ run.phase = "reconcile"  BY <1>3 DEF Reconcile
  <2>3. run.kind = "extract"  BY <1>2, <2>2 DEF Types, RunOK
  <2>4. StoredLast(v) /\ Extracting
    BY <2>1, <2>2, <2>3 DEF StoredLast, Extracting
  <2>5. PICK a \in articles : Fresh(a, v) /\ (a.link \/ \A b \in articles : b.url = v => ~b.link)
    BY <1>3, <2>4 DEF StoreInv, StoredIsLinked
  <2>6. Linkable(a)  BY <1>3, <2>5 DEF Linkable, Fresh
  <2>7. PICK c : c = Settled(a)  OBVIOUS
  <2>8. c \in articles' /\ c.url = a.url /\ c.text = a.text /\ c.removed = ~Linkable(a)
    BY <1>3, <2>7, RelabelsAre
  <2>9. Fresh(c, v)'  BY <1>0, <1>1, <2>1, <2>5, <2>8, RelabelledStayFresh
  <2> QED  BY <2>6, <2>8, <2>9
<1>4. ASSUME Reconciled, UNCHANGED <<articles, toc>>, UNCHANGED since, FatesKept
      PROVE  \E a \in articles' : ~a.removed /\ Fresh(a, v)'
  <2>1. StoredLast(v)  BY <1>1, <1>4, LastKept
  <2>2. PICK a \in articles : ~a.removed /\ Fresh(a, v)
    BY <1>4, <2>1 DEF StoreInv, StoredIsKept, Live
  <2>3. Fresh(a, v)'  BY <1>0, <1>1, <1>4, <2>2, RelabelledStayFresh
  <2> QED  BY <1>4, <2>2, <2>3
<1>5. CASE Reconciled
  <2>1. run.phase \in {"close", "finish"}  BY <1>5 DEF Reconciled
  <2>2. /\ ~\E u \in Url : PageStored(u)
        /\ ~\E found \in SUBSET SiteUrls : BuildToc(found)
        /\ ~\E h \in SUBSET toc : RebuildToc(h)
        /\ ~Reconcile
    BY <2>1 DEF PageStored, Attempt, BuildToc, Discovering, RebuildToc, Passed, Reconcile
  <2> QED  BY <1>4, <1>5, <2>2, StepsOnRows, StepsOnFates
<1>6. CASE Reconcile
  <2>1. ~(\E u \in Url : PageStored(u)) /\ ~(\E found \in SUBSET SiteUrls : BuildToc(found))
        /\ ~\E h \in SUBSET toc : RebuildToc(h)
    BY <1>6 DEF Reconcile, PageStored, Attempt, BuildToc, Discovering, RebuildToc, Passed
  <2>2. articles' = {Settled(a) : a \in articles} /\ toc' = toc
    BY <1>6, SettledIs DEF Reconcile
  <2> QED  BY <1>3, <1>6, <2>2
<1> QED  BY <1>5, <1>6, StepsOnPhase

\* What a cycle has stored, over all its pauses and crashes, is live when the removals
\* are done, and no older than the cycle: the pages that a resumed run skips keep their
\* articles, as _reconcile_removals links them again before it looks for the unlinked.
THEOREM StoredPagesSurvive == Spec => []StoredIsKept
<1>1. Init => Types /\ KeysUnique /\ StoreInv
  <2> SUFFICES ASSUME Init PROVE StoreInv  BY TypesInit
  <2>1. \A u \in Url : fate[u] # "stored"  BY DEF Init
  <2>2. TimesFit
    <3>1. \A p \in Topic : site.text[p] = 0 /\ since[p] = 0 /\ edits = 0  BY DEF Init
    <3> QED  BY <2>1, <3>1 DEF TimesFit
  <2> QED  BY <2>1, <2>2 DEF StoreInv, StoredIsThere, StoredIsLinked, StoredIsKept, StoredLast, Init
<1>2. Types /\ KeysUnique /\ StoreInv /\ [Next]_vars => Types' /\ KeysUnique' /\ StoreInv'
  <2> SUFFICES ASSUME Types, KeysUnique, StoreInv, [Next]_vars
               PROVE  Types' /\ KeysUnique' /\ StoreInv'
    OBVIOUS
  <2>1. TimesFit'  BY TimesKept DEF StoreInv
  <2>2. StoredIsThere'  BY ThereKept DEF StoreInv
  <2>3. StoredIsLinked'  BY LinkedKept
  <2>4. StoredIsKept'  BY LiveKept
  <2> QED  BY <2>1, <2>2, <2>3, <2>4, TypesKept DEF StoreInv
<1>3. StoreInv => StoredIsKept  BY DEF StoreInv
<1> QED  BY <1>1, <1>2, <1>3, PTL DEF Spec
-----------------------------------------------------------------------------
(* Removals.                                                               *)

\* Part of a finite set of rows, and what becomes of it row by row.
LEMMA PartIsFinite ==
    ASSUME Types, NEW rows \in SUBSET articles
    PROVE  IsFiniteSet(rows) /\ Cardinality(rows) \in Nat
BY FS_Subset, FS_CardinalityType DEF Types, ArticlesOK

LEMMA FewStayFew ==
    ASSUME Types, NEW rows \in SUBSET articles, Cardinality(rows) <= 1,
           NEW g \in [articles -> Article], NEW others \in SUBSET {g[a] : a \in rows}
    PROVE  IsFiniteSet(others) /\ Cardinality(others) <= 1
<1> DEFINE f == [a \in rows |-> g[a]]
           image == {f[a] : a \in rows}
<1>1. f \in Surjection(rows, image)  BY DEF Surjection
<1>2. IsFiniteSet(rows) /\ Cardinality(rows) \in Nat  BY PartIsFinite
<1>3. IsFiniteSet(image) /\ Cardinality(image) <= Cardinality(rows)
  BY <1>1, <1>2, FS_Surjection
<1>4. others \subseteq image  OBVIOUS
<1>5. /\ IsFiniteSet(others) /\ Cardinality(others) <= Cardinality(image)
      /\ Cardinality(others) \in Nat /\ Cardinality(image) \in Nat
  BY <1>3, <1>4, FS_Subset, FS_CardinalityType
<1> QED  BY <1>2, <1>3, <1>5

\* An empty discovery that is let through finds at most one article.
LEMMA EmptyIsAccepted ==
    ASSUME Types, NEW found \in SUBSET SiteUrls, BuildToc(found), ~run.allow, lastOk # 1,
           \A u \in Entries(found) : u[1] = Index
    PROVE  Cardinality(Live) <= 1 /\ Cardinality(Entries(found)) = 1
<1>1. found = {}
  BY PagesAssumption DEF Entries, SiteUrls, Types, TypeOK
<1>2. Entries(found) = {<<Index, site.release>>}  BY <1>1 DEF Entries
<1>3. Cardinality(Entries(found)) = 1  BY <1>2, FS_Singleton
<1>4. ~Collapsed(1)  BY <1>3 DEF BuildToc
<1>5. Cardinality(Live) \in Nat /\ lastOk \in Nat /\ Cardinality(Page) \in Nat
  BY PartIsFinite, PagesAssumption, FS_CardinalityType, TypesAre DEF Live, BooksOK
<1>6. Baseline <= 1
  BY <1>4, <1>5 DEF Collapsed, Baseline
<1>7. Cardinality(Live) <= 1
  BY <1>5, <1>6 DEF Baseline
<1> QED  BY <1>3, <1>7

\* The steps that leave the guide and its TOC as they are.
LEMMA GuideFrom ==
    ASSUME Types, GuideIsGuarded, Extracting, UNCHANGED <<articles, toc, lastOk>>,
           run'.allow = run.allow,
           \/ run'.phase = "reconcile"
           \/ /\ run'.phase = run.phase /\ run'.total = run.total
              /\ run'.todo \subseteq run.todo /\ run'.asked = run.asked
    PROVE  GuideIsGuarded'
BY DEF GuideIsGuarded, Extracting, Guide, Live

\* The steps that no run is extracting after.
LEMMA NoLongerExtracting ==
    ASSUME Types
    PROVE  /\ \A found \in SUBSET SiteUrls : Collapse(found) => ~Extracting'
           /\ \A allow \in BOOLEAN : Trigger(allow) => ~Extracting'
           /\ Reconcile \/ ClearCheckpoint \/ Finish \/ Fails => ~Extracting'
           /\ RetryBlocked \/ Pause \/ Resume \/ Cancel \/ Crash => ~Extracting'
<1>0. run \in Run  BY DEF Types, RunOK
<1>1. run' = NoRun => ~Extracting'  BY DEF NoRun, Extracting
<1>2. ASSUME NEW found \in SUBSET SiteUrls, Collapse(found) PROVE ~Extracting'
  BY <1>1, <1>2 DEF Collapse, Over
<1>3. ASSUME NEW allow \in BOOLEAN, Trigger(allow) PROVE ~Extracting'
  <2>1. run'.phase = "queued"  BY <1>3, NoRunIsRun DEF Trigger, Run
  <2> QED  BY <2>1 DEF Extracting
<1>4. ASSUME Reconcile \/ ClearCheckpoint \/ Resume PROVE ~Extracting'
  <2>1. run'.phase \in {"close", "finish", "queued"}
    BY <1>0, <1>4 DEF Reconcile, ClearCheckpoint, Resume, Run
  <2> QED  BY <2>1 DEF Extracting
<1>5. ASSUME Finish \/ Fails \/ Cancel PROVE ~Extracting'
  BY <1>1, <1>5 DEF Finish, Fails, Cancel, Over
<1>6. ASSUME RetryBlocked PROVE ~Extracting'
  <2>1. run'.kind = "retry_blocked"  BY <1>6, NoRunIsRun DEF RetryBlocked, RetryRun, Run
  <2> QED  BY <2>1 DEF Extracting
<1>7. ASSUME Pause PROVE ~Extracting'  BY <1>7, QueuedIs DEF Pause, Extracting
<1>8. ASSUME Crash PROVE ~Extracting'  BY <1>8, QueuedIs, RecoveredIsOK DEF Crash, Extracting
<1> QED  BY <1>2, <1>3, <1>4, <1>5, <1>6, <1>7, <1>8

LEMMA GuideKept ==
    ASSUME Types, KeysUnique, GuideIsGuarded, [Next]_vars
    PROVE  GuideIsGuarded'
<1>0. run \in Run /\ RunOK(run)  BY DEF Types, RunOK
<1>1. CASE ~Extracting'  BY <1>1 DEF GuideIsGuarded
<1>2. ASSUME NEW found \in SUBSET SiteUrls, BuildToc(found), ~run'.allow, lastOk' # 1,
             \A u \in toc' : u[1] = Index
      PROVE  /\ Cardinality(Guide') <= 1
             /\ run'.phase = "scrape" /\ run'.total <= 1 /\ \A u \in run'.todo : u[1] = Index
  <2>1. run'.allow = run.allow /\ lastOk' = lastOk /\ toc' = Entries(found)
    BY <1>2, BuiltIsOK DEF BuildToc
  <2>2. Cardinality(Live) <= 1 /\ Cardinality(Entries(found)) = 1
    BY <1>2, <2>1, EmptyIsAccepted
  <2> DEFINE g == [a \in articles |-> Unlinked(a)]
  <2>3. g \in [articles -> Article] /\ \A a \in articles : g[a].removed = a.removed
    BY RelabelsAre
  <2>4. articles' = {g[a] : a \in articles}  BY <1>2 DEF BuildToc, Unlinked
  <2> HIDE DEF g
  <2>5. Guide' \subseteq {g[a] : a \in Live}
    BY <2>3, <2>4 DEF Guide, Live
  <2>6. Cardinality(Guide') <= 1
    <3> DEFINE others == Guide'
    <3>1. others \in SUBSET {g[a] : a \in Live} /\ Live \in SUBSET articles  BY <2>5 DEF Live
    <3> HIDE DEF others
    <3>2. Cardinality(others) <= 1  BY <2>2, <2>3, <3>1, FewStayFew
    <3> QED  BY <3>2 DEF others
  <2> QED  BY <1>2, <2>1, <2>2, <2>6, BuiltIsOK
<1>3. ASSUME NEW u \in Url, PageStored(u) PROVE GuideIsGuarded'
  <2>1. /\ run'.phase = run.phase /\ run'.todo = run.todo \ {u} /\ run'.kind = run.kind
        /\ run'.allow = run.allow /\ run'.total = run.total /\ run'.asked = run.asked
    BY <1>0, <1>3, NotedIs, EmptyIsList DEF PageStored, Lists
  <2>2. UNCHANGED <<toc, lastOk>>  BY <1>3 DEF PageStored, kept
  <2> SUFFICES ASSUME Extracting', ~run'.allow, lastOk' # 1, \A v \in toc' : v[1] = Index
               PROVE  /\ Cardinality(Guide') <= 1
                      /\ run'.phase = "scrape" => run'.total <= 1 /\ \A v \in run'.todo : v[1] = Index
                      /\ run'.phase = "retry" => run'.todo \subseteq run'.asked.dangling
    BY DEF GuideIsGuarded
  <2>3. /\ Cardinality(Guide) <= 1
        /\ run.phase = "scrape" => run.total <= 1 /\ \A v \in run.todo : v[1] = Index
        /\ run.phase = "retry" => run.todo \subseteq run.asked.dangling
    BY <2>1, <2>2 DEF GuideIsGuarded, Extracting
  <2>4. u \in run.todo /\ run.phase \in {"scrape", "retry"} /\ ~Dangles(u)
    BY <1>3 DEF PageStored, Attempt
  <2>5. run.phase = "scrape" /\ u[1] = Index
    BY <2>3, <2>4 DEF Dangles
  <2>6. PICK n \in Article : Stored(u) = (articles \ Matches(u)) \cup {n} /\ n.url = u
    BY <1>3, StoredIs DEF PageStored
  <2>7. Guide' \subseteq Guide
    BY <1>3, <2>5, <2>6 DEF Guide, Live, PageStored
  <2>8. Cardinality(Guide') <= 1
    <3> DEFINE others == Guide'
               all == Guide
    <3>1. others \subseteq all /\ IsFiniteSet(all) /\ Cardinality(all) \in Nat /\ Cardinality(all) <= 1
      BY <2>3, <2>7, PartIsFinite DEF Guide, Live
    <3> HIDE DEF others, all
    <3>2. Cardinality(others) <= Cardinality(all) /\ Cardinality(others) \in Nat
      BY <3>1, FS_Subset, FS_CardinalityType
    <3> QED  BY <3>1, <3>2 DEF others
  <2> QED  BY <2>1, <2>3, <2>5, <2>8
<1>4. ASSUME NEW u \in Url, PageFails(u) \/ PageRaises(u) \/ PageBlocked(u), Extracting'
      PROVE  GuideIsGuarded'
  <2>1. /\ run'.phase = run.phase /\ run'.todo = run.todo \ {u} /\ run'.kind = run.kind
        /\ run'.allow = run.allow /\ run'.total = run.total /\ run'.asked = run.asked
    <3>1. CASE PageFails(u) \/ PageRaises(u)
      BY <1>0, <3>1, NotedIs, EmptyIsList DEF PageFails, PageRaises, Lists
    <3>2. CASE PageBlocked(u)
      BY <1>0, <3>2, NotedIs, BlockedIsOK DEF Lists
    <3> QED  BY <1>4, <3>1, <3>2
  <2>2. UNCHANGED <<articles, toc, lastOk>>
    BY <1>4 DEF PageFails, PageRaises, PageBlocked, kept
  <2> QED  BY <1>4, <2>1, <2>2, GuideFrom DEF Extracting
<1>5. CASE Checkpoint /\ Extracting'
  <2>1. /\ run'.phase = run.phase /\ run'.todo = run.todo /\ run'.kind = run.kind
        /\ run'.allow = run.allow /\ run'.total = run.total /\ run'.asked = run.asked
    BY <1>0, <1>5 DEF Checkpoint, Run
  <2> QED  BY <1>5, <2>1, GuideFrom DEF Checkpoint, kept, Extracting
<1>6. CASE EndContent
  <2>1. run.phase = "scrape" /\ run.kind = "extract" /\ run.todo = {} /\ run.mark = {}
        /\ run' = SecondPass(run) /\ UNCHANGED <<articles, toc, lastOk>>
    BY <1>0, <1>6 DEF EndContent, Passed, RunOK, kept
  <2>2. /\ run'.allow = run.allow
        /\ run'.phase = "reconcile" \/ (run'.phase = "retry" /\ run.total >= 2)
    BY <1>0, <2>1, SecondPassIs
  <2>3. CASE run'.phase = "reconcile"  BY <2>1, <2>2, <2>3, GuideFrom DEF Extracting
  <2>4. CASE run'.phase = "retry" /\ run.total >= 2
    <3>1. ~(run.total <= 1)  BY <1>0, <2>4 DEF Run
    <3> QED  BY <2>1, <2>2, <3>1 DEF GuideIsGuarded, Extracting
  <2> QED  BY <2>2, <2>3, <2>4
<1>7. ASSUME NEW h \in SUBSET toc, RebuildToc(h) PROVE GuideIsGuarded'
  <2>1. PICK r : /\ run' = SecondPass(r) /\ RunOK(r)
                 /\ r.phase = "scrape" /\ r.todo = {} /\ r.mark = {}
                 /\ \A l \in {r.list, r.seen} : l.dangling = l.blocked
    BY <1>7, RebuiltIs
  <2>2. run'.phase = "reconcile" \/ (run'.phase = "retry" /\ run'.todo \subseteq run'.asked.dangling)
    BY <2>1, SecondPassIs
  <2>3. articles' = {RelinkedTo(a, toc') : a \in articles} /\ \A a \in Live : a.url \in toc'
    BY <1>7 DEF RebuildToc, RelinkedTo
  <2>4. ASSUME \A u \in toc' : u[1] = Index PROVE Guide' = {}
    <3>1. ASSUME NEW b \in articles', ~b.removed PROVE b.url[1] = Index
      <4>1. PICK a \in articles : b = RelinkedTo(a, toc')  BY <2>3
      <4>2. b.url = a.url /\ b.removed = a.removed  BY <4>1, RelabelsAre
      <4>3. a.url \in toc'  BY <2>3, <3>1, <4>2 DEF Live
      <4> QED  BY <2>4, <4>2, <4>3
    <3> QED  BY <3>1 DEF Guide, Live
  <2>5. Cardinality({}) = 0  BY FS_EmptySet
  <2> QED  BY <2>2, <2>4, <2>5 DEF GuideIsGuarded
<1>8. CASE EndRetry /\ Extracting'
  <2>1. run'.kind = run.kind /\ run'.allow = run.allow /\ run.phase = "retry"
    BY <1>8, RetriedIsOK DEF EndRetry
  <2>2. run'.kind = "extract" /\ run'.phase = "reconcile"
    BY <1>8, <2>1, RetriedIsOK DEF Extracting
  <2> QED  BY <1>8, <2>1, <2>2, GuideFrom DEF EndRetry, kept, Extracting
<1>9. CASE Extracting' /\ (siteUnchanged \/ UNCHANGED vars)
  BY <1>9, GuideFrom DEF siteUnchanged, vars, kept, Extracting
<1>10. CASE \E found \in SUBSET SiteUrls : BuildToc(found)
  BY <1>2, <1>10 DEF GuideIsGuarded
<1> QED
  BY <1>1, <1>3, <1>4, <1>5, <1>6, <1>7, <1>8, <1>9, <1>10, NoLongerExtracting
  DEF Next, Step, PageEdited, PageDropped, Released, TemplateSet

\* A live article whose URL is in the TOC is removed for another one there only.
LEMMA RemovalIsDue ==
    ASSUME Types, KeysUnique, [Next]_vars, NEW a \in articles, NEW b \in articles',
           a.key = b.key, ~a.removed, b.removed, a.url \in toc
    PROVE  \E c \in articles' : c # b /\ c.url = a.url /\ ~c.removed
<1>1. CASE articles' = articles
  BY <1>1 DEF KeysUnique
<1>2. ASSUME NEW u \in Url, PageStored(u), articles' = Stored(u) PROVE FALSE
  <2>1. PICK n \in Article :
           /\ Stored(u) = (articles \ Matches(u)) \cup {n}
           /\ n.key = KeyOf(u)
           /\ n.removed => \E x \in Matches(u) : x.removed
    BY <1>2, StoredIs DEF PageStored
  <2>2. CASE b = n
    BY <2>1, <2>2, MatchesAre
  <2>3. CASE b \in articles
    BY <2>3 DEF KeysUnique
  <2> QED  BY <1>2, <2>1, <2>2, <2>3
<1>3. CASE articles' = {Unlinked(x) : x \in articles}
  <2>1. PICK x \in articles : b = Unlinked(x)  BY <1>3
  <2>2. Unlinked(x).key = x.key /\ Unlinked(x).removed = x.removed  BY RelabelsAre
  <2> QED  BY <2>1, <2>2 DEF KeysUnique
<1>4. CASE articles' = {RelinkedTo(x, toc') : x \in articles}
  <2>1. PICK x \in articles : b = RelinkedTo(x, toc')  BY <1>4
  <2>2. RelinkedTo(x, toc').key = x.key /\ RelinkedTo(x, toc').removed = x.removed
    BY RelabelsAre
  <2> QED  BY <2>1, <2>2 DEF KeysUnique
<1>5. CASE articles' = {Settled(x) : x \in articles}
  <2>1. PICK x \in articles : b = Settled(x)  BY <1>5
  <2>2. Settled(x).key = x.key /\ Settled(x).removed = ~Linkable(x)  BY RelabelsAre
  <2>3. x = a /\ ~Linkable(a)  BY <2>1, <2>2 DEF KeysUnique
  <2>4. PICK y \in articles : y.link /\ y.url = a.url  BY <2>3 DEF Linkable
  <2>5. Linkable(y)  BY <2>4 DEF Linkable
  <2>6. Settled(y) \in articles' /\ Settled(y).url = a.url /\ Settled(y).removed = ~Linkable(y)
    BY <1>5, <2>4, RelabelsAre
  <2> QED  BY <2>5, <2>6
<1> QED  BY <1>1, <1>2, <1>3, <1>4, <1>5, StepsOnRows

LEMMA EmptyGuideIsSpared ==
    ASSUME Types, GuideIsGuarded, Reconcile, ~run.allow, lastOk # 1,
           Cardinality({a \in Live : a.url[1] # Index}) > 1
    PROVE  \E u \in toc : u[1] # Index
<1>1. Extracting  BY DEF Reconcile, Extracting, Types, RunOK
<1>2. ~(Cardinality(Guide) <= 1)
  <2>1. Cardinality(Guide) \in Nat  BY PartIsFinite DEF Guide, Live
  <2> QED  BY <2>1 DEF Guide
<1> QED  BY <1>1, <1>2 DEF GuideIsGuarded

\* An article is removed only when its URL has left the TOC or another live one is at its
\* place, whatever was paused or lost before; and a discovery that finds nothing removes
\* no guide of several articles (_toc_collapsed), neither at once nor by a second pass.
THEOREM RemovalsStayDue == Spec => RemovalsAreDue
<1> DEFINE I == Types /\ KeysUnique /\ GuideIsGuarded
<1>1. Init => I
  <2> SUFFICES ASSUME Init PROVE I  OBVIOUS
  <2>1. ~Extracting  BY DEF Init, Extracting, NoRun
  <2> QED  BY <2>1, TypesInit DEF GuideIsGuarded
<1>2. I /\ [Next]_vars => I'
  BY TypesKept, GuideKept
<1>3. I /\ [Next]_vars =>
         [/\ \A a \in articles, b \in articles' :
               a.key = b.key /\ ~a.removed /\ b.removed =>
                   \/ a.url \notin toc
                   \/ \E c \in articles' : c # b /\ c.url = a.url /\ ~c.removed
          /\ /\ Reconcile /\ ~run.allow /\ lastOk # 1
             /\ Cardinality({a \in Live : a.url[1] # Index}) > 1
             => \E u \in toc : u[1] # Index]_vars
  BY RemovalIsDue, EmptyGuideIsSpared
<1> QED  BY <1>1, <1>2, <1>3, PTL DEF Spec, RemovalsAreDue
=============================================================================
