------------------------------ MODULE Catalogue ------------------------------
(***************************************************************************)
(* Products, their versions and a documentation source whose URL embeds    *)
(* the version: routes/sources.py, routes/products.py, the templates of    *)
(* services/versioning.py, and the part of a run that reads them           *)
(* (services/firecrawl.py).                                                *)
(*                                                                         *)
(* A URL is its site, the version it carries and the token the vendor      *)
(* mints for each release (none on a site that mints none); a template is  *)
(* a URL with a hole for the version and perhaps one for the token.  The   *)
(* token of a release is written as the release's number.  One page of the *)
(* source is followed: its articles, by topic key.                         *)
(***************************************************************************)
EXTENDS Naturals, FiniteSets

CONSTANTS
    Products,
    Sites,      \* where documentation is published
    Minting,    \* the sites that mint a token per release
    MaxVersion, \* releases (bound)
    MaxEdits    \* operator requests (bound)

VARIABLES
    product,    \* version and previous_version of each product, 0: NULL
    row,        \* the source's row, {} before it is created
    deleted,    \* the source was deleted
    article,    \* the articles stored for the page
    bump,       \* a bump_version request between its reads and its commit
    run,        \* the source's active run, {} when there is none
    edits,      \* operator requests so far
    settled,    \* history: the URL was last written by a bump nobody raced
    adrift      \* history: an operator typed a template, edited the row or set a
                \* version that its URL does not carry, or the URL was bumped
                \* before the platform was known or during a run

catVars == <<product, row, article, bump, run, edits, settled, adrift, deleted>>

Versions == 1..MaxVersion
Hole == 0                   \* the {version} placeholder in a key
Rev == MaxVersion + 1       \* the {rev} placeholder in a key
Token(site, v) == IF site \in Minting THEN v ELSE 0
Url == {[site |-> s, ver |-> v, tok |-> Token(s, w)] : s \in Sites, v, w \in Versions}
Template == {[site |-> s, rev |-> r, tok |-> IF r THEN 0 ELSE Token(s, w)] :
                s \in Sites, r \in BOOLEAN, w \in Versions}

The(set) == CHOOSE x \in set : TRUE
Active == run # {}

-----------------------------------------------------------------------------
(* services/versioning.py                                                  *)

ResolveTemplate(t, v, revision) ==
    [site |-> t.site, ver |-> v, tok |-> IF t.rev THEN revision ELSE t.tok]

\* The token, read at its place in the URL; 0 when the shape does not hold.
ExtractRevision(u, t, v) ==
    IF t.rev /\ u.site = t.site /\ u.ver = v THEN u.tok ELSE 0

\* The template of a URL that carries the version, with a hole for the token
\* when the platform's profile knows of one.
Templatize(u, v, profile) ==
    IF u.ver # v THEN {}
    ELSE LET rev == profile /\ u.tok # 0
         IN  {[site |-> u.site, rev |-> rev, tok |-> IF rev THEN 0 ELSE u.tok]}

\* A version-only template is replaced when the profile's candidate resolves
\* back to the URL the source is at.
UpgradeTemplate(t, u, v, profile) ==
    IF t.rev \/ ~profile THEN {}
    ELSE {c \in Templatize(u, v, profile) :
             /\ c.rev /\ ExtractRevision(u, c, v) # 0
             /\ ResolveTemplate(c, v, ExtractRevision(u, c, v)) = u}

\* The key of a page: its URL with the version, and the token read off it,
\* swapped back to their placeholders.
DeriveTopicKey(u, t, v) ==
    [site |-> u.site,
     ver |-> IF u.ver = v THEN Hole ELSE u.ver,
     tok |-> IF \E x \in t : v # 0 /\ ExtractRevision(u, x, v) # 0 THEN Rev ELSE u.tok]

\* LIKE, with every placeholder a wildcard.
Fits(u, key) ==
    /\ key.ver = Hole \/ key.tok = Rev
    /\ u.site = key.site
    /\ key.ver \in {Hole, u.ver} /\ key.tok \in {Rev, u.tok}

\* The release token a hand-edited template cannot carry is taken from the URL.
ResolveWithCarriedRevision(t, v, current) ==
    LET revision == ExtractRevision(current, t, current.ver)
    IN  IF t.rev /\ revision = 0 THEN current ELSE ResolveTemplate(t, v, revision)

-----------------------------------------------------------------------------
(* The rows of products and of documentation_sources.                      *)

NewProduct == [version |-> 0, previous |-> 0]

\* The platform of a source is not known before it is detected.
NewSource(p, u, t, pdf) ==
    [product |-> p, url |-> u, template |-> t, profile |-> FALSE, pdf |-> pdf]

Init ==
    /\ product = [p \in Products |-> NewProduct]
    /\ row = {} /\ article = {} /\ bump = {} /\ run = {}
    /\ edits = 0 /\ settled = FALSE /\ adrift = FALSE /\ deleted = FALSE

Edit ==
    /\ edits < MaxEdits
    /\ edits' = edits + 1

-----------------------------------------------------------------------------
(* routes/sources.py                                                       *)

NewRow(p, u, t, pdf) ==
    /\ row = {} /\ ~deleted /\ Edit
    /\ row' = {NewSource(p, u, t, pdf)}
    /\ settled' = FALSE /\ adrift' = (t # {})
    /\ UNCHANGED <<product, article, bump, run, deleted>>

\* A template is resolved at once.
CreateSource(p, u, t) ==
    LET v == product[p].version
    IN  NewRow(p, IF t # {} /\ v # 0 THEN ResolveWithCarriedRevision(The(t), v, u) ELSE u,
               t, FALSE)

\* The CSV import stores the URL and the template it was given.
ImportSource(p, u, t) == NewRow(p, u, t, FALSE)

CreatePdfSource(p, u) == NewRow(p, u, {}, TRUE)

\* A patch of the URL, the product, the template (an explicit null clears it)
\* and the platform, each as sent or not ({}).  A relocated PDF loses its
\* template; a template that is set is resolved in the product the source ends
\* up in.
UpdateSource(url, p, template, profile) ==
    /\ Edit /\ <<url, p, template, profile>> # <<{}, {}, {}, {}>>
    /\ \E s \in row :
          LET at == IF p = {} THEN s.product ELSE The(p)
              typed == IF url = {} THEN s.url ELSE The(url)
              kept == IF url # {} /\ s.pdf THEN {} ELSE s.template
              tmpl == IF template = {} THEN kept ELSE The(template)
              v == product[at].version
          IN  row' = {[s EXCEPT !.product = at, !.template = tmpl,
                  !.url = IF template # {} /\ tmpl # {} /\ v # 0
                          THEN ResolveWithCarriedRevision(The(tmpl), v, typed) ELSE typed,
                  !.profile = IF profile = {} THEN @ ELSE The(profile)]}
    /\ settled' = FALSE
    /\ adrift' = TRUE
    /\ UNCHANGED <<product, article, bump, run, deleted>>

\* The source goes, and everything of it, with its product or its vendor too.
DeleteSource ==
    /\ row # {}
    /\ row' = {} /\ article' = {} /\ deleted' = TRUE
    /\ UNCHANGED <<product, bump, run, edits, settled, adrift>>

-----------------------------------------------------------------------------
(* routes/products.py                                                      *)

\* Sources whose URL carries the version are templatized, and the articles of
\* the web ones get the keys the template gives them.
EnableVersioning(p, v) ==
    /\ Edit
    /\ product' = [product EXCEPT ![p].version = v]
    /\ row' = {[s EXCEPT !.template =
                   IF s.product = p /\ s.url.ver = v THEN Templatize(s.url, v, s.profile)
                   ELSE @] : s \in row}
    /\ article' = {IF \E s \in row : s.product = p /\ s.url.ver = v /\ ~s.pdf
                   THEN [a EXCEPT !.key = DeriveTopicKey(a.url,
                             Templatize(The(row).url, v, The(row).profile), v)]
                   ELSE a : a \in article}
    /\ settled' = FALSE
    /\ adrift' = (adrift \/ \E s \in row : s.product = p /\ s.template # {} /\ s.url.ver # v)
    /\ UNCHANGED <<bump, run, deleted>>

\* Mutant of Planned: planned at the version the product has now.
PlannedAtCurrent(s, v, current, found) ==
    [template |-> s.template,
     url |-> ResolveWithCarriedRevision(The(s.template), current, s.url), open |-> FALSE]

\* What a templated source becomes: the template a run would use, resolved at
\* the new version with the token the vendor has for it, else the carried one.
Planned(s, v, current, found) ==
    LET stored == The(s.template)
        upgraded == UpgradeTemplate(stored, s.url, IF current = 0 THEN s.url.ver ELSE current,
                                    s.profile)
        t == IF upgraded = {} THEN stored ELSE The(upgraded)
        looked == IF s.profile /\ found THEN Token(t.site, v) ELSE 0
        token == IF looked # 0 THEN looked
                 ELSE ExtractRevision(s.url, t, IF current = 0 THEN s.url.ver ELSE current)
    IN  [template |-> {t},
         url |-> IF t.rev /\ token = 0 THEN s.url ELSE ResolveTemplate(t, v, token),
         open |-> t.rev /\ looked = 0]

\* The rows are read, then each source is planned, with lookups on the vendor's
\* site: other requests and runs go on meanwhile.
BumpPlan(p, v, found) ==
    /\ bump = {} /\ Edit /\ product[p].version # v
    /\ \E s \in row :
          /\ s.product = p /\ s.template # {}
          /\ bump' = {[product |-> p, version |-> v, was |-> product[p].version, read |-> s,
                       plan |-> Planned(s, v, product[p].version, found)]}
    /\ UNCHANGED <<product, row, article, run, settled, adrift, deleted>>

\* An unresolved token refuses the bump unless it is forced.  The commit writes
\* the columns that differ from what was read.
BumpCommit(force) ==
    \E b \in bump :
        /\ b.plan.open => force
        /\ row # {}
        /\ product' = [product EXCEPT ![b.product] = [version |-> b.version,
                                                      previous |-> b.was]]
        /\ row' = {[s EXCEPT
                !.template = IF b.plan.template = b.read.template THEN @ ELSE b.plan.template,
                !.url = IF b.plan.url = b.read.url THEN @ ELSE b.plan.url] : s \in row}
        /\ settled' = (row = {b.read} /\ ~Active /\ product[b.product].version = b.was
                       /\ ~b.plan.open)
        /\ adrift' = (adrift \/ ~b.read.profile \/ Active)
        /\ bump' = {}
        /\ UNCHANGED <<article, run, edits, deleted>>

BumpRefused ==
    /\ \E b \in bump : b.plan.open \/ deleted
    /\ bump' = {}
    /\ UNCHANGED <<product, row, article, run, edits, settled, adrift, deleted>>

-----------------------------------------------------------------------------
(* The run, on a session that keeps the row as it was loaded.              *)

\* A bump enqueues one, a source without an active run; so does a request.
RunLoads ==
    /\ ~Active
    /\ \E s \in row : run' = {[step |-> "loaded", s |-> s, version |-> 0, quiet |-> settled]}
    /\ UNCHANGED <<product, row, article, bump, edits, settled, adrift, deleted>>

\* The columns of the loaded row that changed are written.
Writes(old, new) ==
    row' = {[s EXCEPT !.template = IF new.template = old.template THEN @ ELSE new.template,
                      !.url = IF new.url = old.url THEN @ ELSE new.url,
                      !.profile = IF new.profile = old.profile THEN @ ELSE new.profile] :
                s \in row}

Advance(r, step, s, version) ==
    /\ run' = {[r EXCEPT !.step = step, !.s = s, !.version = version]}
    /\ Writes(r.s, s)

\* The profile is detected (or not), the product's version is read fresh, and a
\* template is detected or upgraded.  A PDF keeps the template it has.
RunReadsVersion(detected) ==
    \E r \in run :
        /\ r.step = "loaded"
        /\ LET v == product[r.s.product].version
               profile == r.s.profile \/ (detected /\ ~r.s.pdf)
               better == IF v = 0 \/ r.s.pdf THEN {}
                         ELSE IF r.s.template = {} THEN Templatize(r.s.url, v, profile)
                         ELSE UpgradeTemplate(The(r.s.template), r.s.url, v, profile)
           IN  Advance(r, "versioned", [r.s EXCEPT !.profile = profile,
                       !.template = IF better = {} THEN @ ELSE better], v)
        /\ UNCHANGED <<product, article, bump, edits, settled, adrift, deleted>>

\* The token is looked up before anything fetches the URL; a lookup that fails
\* leaves the URL alone.
RunRefreshesRevision(found) ==
    \E r \in run :
        /\ r.step = "versioned"
        /\ LET t == r.s.template
               token == IF found /\ r.s.profile /\ r.version # 0 /\ t # {} /\ The(t).rev
                        THEN Token(The(t).site, r.version) ELSE 0
           IN  Advance(r, "scraping", [r.s EXCEPT !.url =
                       IF token = 0 THEN @ ELSE ResolveTemplate(The(t), r.version, token)],
                       r.version)
        /\ UNCHANGED <<product, article, bump, edits, settled, adrift, deleted>>

\* Mutant of Matching: only the key counts.
MatchingByKey(u, key) == {a \in article : a.key = key}

\* The stored copy of a page: by key, by the URL, by the shape of the key.
Matching(u, key) ==
    LET byKey == {a \in article : a.key = key}
        byUrl == {a \in article : a.live /\ a.url = u}
        byShape == {a \in article : a.live /\ Fits(a.url, key)}
    IN  IF byKey # {} THEN byKey
        ELSE IF Cardinality(byUrl) = 1 THEN byUrl
        ELSE IF Cardinality(byShape) = 1 THEN byShape
        ELSE {}

\* The release's page is there only under its own token; the other live
\* articles of the page are gone from the guide.
RunScrapes ==
    \E r \in run :
        /\ r.step = "scraping" /\ ~r.s.pdf /\ row # {}
        /\ r.s.url.tok = Token(r.s.url.site, r.s.url.ver)
        /\ LET u == r.s.url
               key == DeriveTopicKey(u, r.s.template, r.version)
               same == Matching(u, key)
           IN  article' = {[a EXCEPT !.live = FALSE] : a \in article \ same}
                             \cup {[key |-> key, url |-> u, live |-> TRUE]}
        /\ run' = {}
        /\ UNCHANGED <<product, row, bump, edits, settled, adrift, deleted>>

\* A stale token is a guide that vanished: the collapse guard ends the run.  A
\* run can fail, be cancelled or crash at any point; a PDF's run ends too.
RunEnds ==
    /\ Active
    /\ run' = {}
    /\ UNCHANGED <<product, row, article, bump, edits, settled, adrift, deleted>>

Next ==
    \/ \E p \in Products, u \in Url :
          \/ \E t \in {{}} \cup {{x} : x \in Template} :
                CreateSource(p, u, t) \/ ImportSource(p, u, t)
          \/ CreatePdfSource(p, u)
    \/ \E url \in {{}} \cup {{u} : u \in Url}, p \in {{}} \cup {{q} : q \in Products},
          template \in {{}, {{}}} \cup {{{t}} : t \in Template},
          profile \in {{}, {TRUE}, {FALSE}} : UpdateSource(url, p, template, profile)
    \/ DeleteSource
    \/ \E p \in Products, v \in Versions :
          \/ EnableVersioning(p, v)
          \/ \E found \in BOOLEAN : BumpPlan(p, v, found)
    \/ \E force \in BOOLEAN : BumpCommit(force)
    \/ BumpRefused
    \/ RunLoads
    \/ \E b \in BOOLEAN : RunReadsVersion(b) \/ RunRefreshesRevision(b)
    \/ RunScrapes \/ RunEnds

Spec == Init /\ [][Next]_catVars

-----------------------------------------------------------------------------
(* A run that starts after a bump nobody raced scrapes the URL of the      *)
(* release it is tagged with, whether the bump upgraded the template,      *)
(* resolved the token or carried it (bump_version, extract_source).        *)
RunScrapesItsVersion ==
    \A r \in run : r.step = "scraping" /\ r.quiet /\ settled => r.s.url.ver = r.version

(* A page keeps its article across releases: as long as the vendor's       *)
(* platform is known at a bump, no run is under way at its commit, and the *)
(* product has the version the URL carries, a page of a site is never      *)
(* stored a second time, whatever keys the templates of the moment gave it *)
(* (process_article_result, derive_topic_key).                             *)
OneIdentity ==
    ~adrift => \A a, b \in article : a.url.site = b.url.site => a = b
=============================================================================
