---------------------------- MODULE ImageEnrich ----------------------------
(***************************************************************************)
(* The enrichment phase of a run: the images of a source's articles are    *)
(* described once and captioned in the text (services/image_describe.py).  *)
(* The phases of different sources run at the same time and share the      *)
(* cache of descriptions; resanitize (routes/extraction.py) rewrites the   *)
(* articles of a source that has no active run when it looks.              *)
(*                                                                         *)
(* The text of an article is the set of images captioned in it.  What the  *)
(* bytes of an image are worth is chosen at the start: "fine", "decorative" *)
(* (too small or no raster), "heavy" (no payload the VLM takes) or         *)
(* "missing" (no file).  The reference to an image in the text is "plain",  *)
(* "titled" (with a Markdown title) or "unmatched": one that inject_caption *)
(* does not find, so that the text stays as it was.  Titles were not found  *)
(* either by an earlier release, which left images described only.         *)
(***************************************************************************)
EXTENDS Naturals, FiniteSets

CONSTANTS
    Sources, Articles, Images,
    SourceOf,      \* of each article
    ArticleOf,     \* of each image
    Sha,           \* of the bytes of each image
    Forms,         \* the forms that the reference to each image may have (bound)
    MaxNew,        \* image_vlm_max_per_run
    Breaker,       \* image_vlm_max_consecutive_failures
    MaxPhases,     \* phases of a source (bound)
    MaxRewrites    \* scrapes and resanitize requests (bound)

VARIABLES
    worth,       \* what the bytes of each image are
    form,        \* the reference to each image in the text of its article
    removed,     \* articles with removed_at
    meaningful,  \* article_images.is_meaningful: "null", "yes", "no"
    described,   \* the images whose row has a description
    content,     \* the captions in the stored text of each article
    known,       \* the hashes in image_descriptions
    phase,       \* the enrichment phase of each source's run
    phases,      \* how many each source has had
    rewrite,     \* a resanitize request between its read and its commit
    rewrites,    \* how many, with the scrapes
    earlier,     \* history: described by an earlier release, not captioned since
    raced        \* history: articles written from a text no longer stored

enrichVars == <<worth, form, removed, meaningful, described, content, known, phase, phases,
                rewrite, rewrites, earlier, raced>>

ImagesOf(a) == {i \in Images : ArticleOf[i] = a}
ArticlesOf(s) == {a \in Articles : SourceOf[a] = s}

References == {f \in [Images -> {"plain", "titled", "unmatched"}] :
                  \A i \in Images : f[i] \in Forms[i]}
Matched(i) == form[i] # "unmatched"

\* need: not evaluated, or worth describing and not described.
Needs(i) == meaningful[i] = "null" \/ (meaningful[i] = "yes" /\ i \notin described)

Off == [at |-> "off", todo |-> {}, article |-> {}, text |-> {}, sent |-> {},
        hits |-> {}, verdict |-> <<>>, budget |-> 0, failures |-> 0]

Init ==
    /\ worth \in [Images -> {"fine", "decorative", "heavy", "missing"}]
    /\ \A i, k \in Images : Sha[i] = Sha[k] => worth[i] = worth[k]
    /\ form \in References /\ removed = {}
    /\ earlier \in SUBSET {i \in Images : worth[i] = "fine" /\ form[i] = "titled"}
    /\ meaningful = [i \in Images |-> IF i \in earlier THEN "yes" ELSE "null"]
    /\ described = earlier /\ known = {Sha[i] : i \in earlier}
    /\ content = [a \in Articles |-> {}]
    /\ phase = [s \in Sources |-> Off]
    /\ phases = [s \in Sources |-> 0]
    /\ rewrite = {} /\ rewrites = 0 /\ raced = {}

-----------------------------------------------------------------------------
(* The phase.                                                              *)

Begin(s, budget) ==
    /\ phase[s].at = "off" /\ phases[s] < MaxPhases
    /\ phase' = [phase EXCEPT ![s] = [Off EXCEPT !.at = "repair", !.budget = budget,
                    !.todo = {a \in ArticlesOf(s) \ removed :
                                \E i \in ImagesOf(a) \cap described : form[i] = "titled"}]]
    /\ phases' = [phases EXCEPT ![s] = @ + 1]
    /\ UNCHANGED <<worth, form, removed, meaningful, described, content, known, rewrite,
                   rewrites, earlier, raced>>

\* The phase at the end of a run may describe so many images; a run of kind enrich
\* is nothing but the phase, and describes all that are missing.
EndsRun(s) == Begin(s, MaxNew)
EnrichSourceRun(s) == Begin(s, Cardinality(Images))

\* inject_caption for each of these images: a text without the reference is returned
\* as it was, while the row of the image has the description.
Injected(caption, images) == caption \cup {i \in images : Matched(i)}

\* Where a reference has a title, all of the captions are put in again, for free.
Repair(s, a) ==
    /\ phase[s].at = "repair" /\ a \in phase[s].todo
    /\ content' = [content EXCEPT ![a] = Injected(@, ImagesOf(a) \cap described)]
    /\ phase' = [phase EXCEPT ![s].todo = @ \ {a}]
    /\ earlier' = earlier \ ImagesOf(a)
    /\ UNCHANGED <<worth, form, removed, meaningful, described, known, phases, rewrite,
                   rewrites, raced>>

ListArticles(s) ==
    /\ phase[s].at = "repair" /\ phase[s].todo = {}
    /\ phase' = [phase EXCEPT ![s].at = "scan",
                    ![s].todo = {a \in ArticlesOf(s) : \E i \in ImagesOf(a) : Needs(i)}]
    /\ UNCHANGED <<worth, form, removed, meaningful, described, content, known, phases,
                   rewrite, rewrites, earlier, raced>>

\* evaluate_image: an image without a file that was never evaluated counts as
\* decorative, one that was keeps waiting.
Evaluated(i) ==
    IF meaningful[i] # "null" THEN meaningful[i]
    ELSE IF worth[i] \in {"decorative", "missing"} THEN "no" ELSE "yes"

Present(i) == Evaluated(i) = "yes" /\ worth[i] # "missing"

\* The images whose hash is described already cost nothing.
Hits(a) == {i \in ImagesOf(a) : Needs(i) /\ Present(i) /\ Sha[i] \in known}

\* The others, while the budget lasts and the VLM answers.  A heavy one leaves
\* the backlog when its turn comes.
Unknown(a) == {i \in ImagesOf(a) : Needs(i) /\ Present(i) /\ Sha[i] \notin known}

\* prepare_for_vlm: the bytes make no payload the VLM takes.
Heavy(i) == worth[i] = "heavy"

\* The article is read, its images are evaluated, and those without a known
\* description are sent to the VLM, which is awaited.
Scan(s, a) ==
    LET p == phase[s]
    IN  /\ p.at = "scan" /\ a \in p.todo /\ p.failures < Breaker
        /\ \E tried \in SUBSET Unknown(a) :
              LET fine == {i \in tried : ~Heavy(i)}
              IN  /\ Cardinality(fine) <= p.budget
                  /\ Cardinality(fine) < p.budget => tried = Unknown(a)
                  /\ p.budget = 0 => tried = {}
                  /\ phase' = [phase EXCEPT ![s] =
                        [p EXCEPT !.at = "wait", !.todo = @ \ {a}, !.article = {a},
                                  !.text = content[a], !.sent = fine,
                                  !.budget = @ - Cardinality(fine),
                                  !.hits = Hits(a),
                                  !.verdict = [i \in ImagesOf(a) |->
                                      IF i \in tried \ fine THEN "no" ELSE Evaluated(i)]]]
        /\ UNCHANGED <<worth, form, removed, meaningful, described, content, known, phases,
                       rewrite, rewrites, earlier, raced>>

\* describe_image: each of the images sent is described, or fails.
Answers(p) == SUBSET p.sent

\* Mutant of Captioned: only a fresh description reaches the text.
CaptionedIfFresh(text, hits, ok) == Injected(text, ok)

\* For the descriptions found, and then for the answers.
Captioned(text, hits, ok) == Injected(text, hits \cup ok)

\* The answers are applied and committed with the text and its outbox row.  Two
\* phases that describe the same bytes both add the row of the cache: the later
\* commit fails, and ends its phase.
Apply(s, ok) ==
    LET p    == phase[s]
        a    == CHOOSE x \in p.article : TRUE
        text == Captioned(p.text, p.hits, ok)
        fail == Cardinality(p.sent \ ok)
    IN  /\ p.at = "wait" /\ ok \in Answers(p)
        /\ IF \E i \in ok : Sha[i] \in known
           THEN /\ phase' = [phase EXCEPT ![s] = Off]
                /\ UNCHANGED <<meaningful, described, content, known, raced>>
           ELSE /\ meaningful' = [i \in Images |-> IF i \in ImagesOf(a) THEN p.verdict[i]
                                                   ELSE meaningful[i]]
                /\ described' = described \cup ok \cup p.hits
                /\ known' = known \cup {Sha[i] : i \in ok}
                /\ content' = [content EXCEPT ![a] = IF text = p.text THEN @ ELSE text]
                /\ raced' = IF content[a] # p.text THEN raced \cup {a} ELSE raced
                /\ \E failures \in IF ok = {} THEN {p.failures + fail} ELSE 0 .. fail :
                      phase' = [phase EXCEPT ![s] =
                         [p EXCEPT !.at = "scan", !.article = {}, !.text = {}, !.sent = {},
                                   !.hits = {}, !.verdict = <<>>, !.budget = @ + fail,
                                   !.failures = IF failures < Breaker THEN failures ELSE Breaker]]
        /\ UNCHANGED <<worth, form, removed, phases, rewrite, rewrites, earlier>>

Finish(s) ==
    /\ phase[s].at = "scan"
    /\ phase[s].todo = {} \/ phase[s].failures >= Breaker
    /\ phase' = [phase EXCEPT ![s] = Off]
    /\ UNCHANGED <<worth, form, removed, meaningful, described, content, known, phases,
                   rewrite, rewrites, earlier, raced>>

\* The worker is lost, or anything raises: what is not committed is gone.
Interrupt(s) ==
    /\ phase[s].at # "off"
    /\ phase' = [phase EXCEPT ![s] = Off]
    /\ UNCHANGED <<worth, form, removed, meaningful, described, content, known, phases,
                   rewrite, rewrites, earlier, raced>>

-----------------------------------------------------------------------------
(* What else writes the articles.                                          *)

\* The run's own scrape of a page that changed: new text, new image rows.
Scrape(a) ==
    /\ rewrites < MaxRewrites /\ phase[SourceOf[a]].at = "off"
    /\ content' = [content EXCEPT ![a] = {}]
    /\ \E f \in References :
          form' = [i \in Images |-> IF i \in ImagesOf(a) THEN f[i] ELSE form[i]]
    /\ removed' = removed \ {a}
    /\ earlier' = earlier \ ImagesOf(a)
    /\ meaningful' = [i \in Images |-> IF i \in ImagesOf(a) THEN "null" ELSE meaningful[i]]
    /\ described' = described \ ImagesOf(a)
    /\ rewrites' = rewrites + 1
    /\ UNCHANGED <<worth, known, phase, phases, rewrite, raced>>

\* The end of the scrape removes an article, or it is back, with the text it had.
Relist(a) ==
    /\ rewrites < MaxRewrites /\ phase[SourceOf[a]].at = "off"
    /\ removed' = IF a \in removed THEN removed \ {a} ELSE removed \cup {a}
    /\ rewrites' = rewrites + 1
    /\ UNCHANGED <<worth, form, meaningful, described, content, known, phase, phases,
                   rewrite, earlier, raced>>

\* resanitize looks for an active run, reads every article, and commits later.
ReadAll(s) ==
    /\ rewrites < MaxRewrites /\ rewrite = {}
    /\ phase[s].at = "off"
    /\ rewrite' = {[source |-> s, texts |-> [a \in ArticlesOf(s) |-> content[a]]]}
    /\ rewrites' = rewrites + 1
    /\ UNCHANGED <<worth, form, removed, meaningful, described, content, known, phase,
                   phases, earlier, raced>>

\* The sanitizer changes some of the articles it read.
WriteAll ==
    \E w \in rewrite : \E changed \in SUBSET ArticlesOf(w.source) :
        /\ content' = [a \in Articles |-> IF a \in changed THEN w.texts[a] ELSE content[a]]
        /\ raced' = raced \cup {a \in changed : w.texts[a] # content[a]}
        /\ rewrite' = {}
        /\ UNCHANGED <<worth, form, removed, meaningful, described, known, phase, phases,
                       rewrites, earlier>>

Next ==
    \/ \E s \in Sources : EndsRun(s) \/ EnrichSourceRun(s) \/ ListArticles(s)
                         \/ Finish(s) \/ Interrupt(s) \/ ReadAll(s)
    \/ \E s \in Sources, a \in Articles : Repair(s, a) \/ Scan(s, a)
    \/ \E s \in Sources, ok \in SUBSET Images : Apply(s, ok)
    \/ \E a \in Articles : Scrape(a) \/ Relist(a)
    \/ WriteAll

Spec == Init /\ [][Next]_enrichVars

-----------------------------------------------------------------------------
\* A described image whose reference is matched has its caption in the stored text:
\* its row is never looked at again, so a caption missed here stays missing.  This is
\* over cached descriptions, answers that fail, phases of two sources that race for
\* the same bytes, and pages scraped again.  What an earlier release left without a
\* caption has it once a phase of the source is past its repair, unless the article
\* is removed; articles written from a text that was no longer stored are out.
DescribedIsCaptioned ==
    \A i \in described :
        LET a == ArticleOf[i]
        IN  Matched(i) /\ a \notin raced =>
               \/ i \in content[a]
               \/ i \in earlier /\ (a \in removed \/ phase[SourceOf[a]].at \in {"off", "repair"})
=============================================================================
