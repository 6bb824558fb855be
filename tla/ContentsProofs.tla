--------------------------- MODULE ContentsProofs ---------------------------
(***************************************************************************)
(* Proofs about what articles hold (MCContents), for any values of its     *)
(* constants: ImagesAreThere, DescribedIsCaptioned, HistoryIsWhole,        *)
(* ChangelogAddsUp, LostIsListed, PagesAreTheirOwn and SteadyIsSentOnce.   *)
(***************************************************************************)
EXTENDS MCContents, FiniteSetTheorems, WellFoundedInduction, TLAPS
-----------------------------------------------------------------------------
\* A set of numbers has a least one.
LEMMA LeastIs == ASSUME NEW S \in SUBSET Nat, S # {} PROVE \E x \in S : \A y \in S : x <= y
<1> DEFINE R == OpToRel(<, Nat)
<1>1. ASSUME NEW x \in Nat, NEW y \in Nat, y < x PROVE <<y, x>> \in R
  BY <1>1 DEF OpToRel
<1>2. IsWellFoundedOn(R, Nat)  BY NatLessThanWellFounded
<1> HIDE DEF R
<1>3. PICK x \in S : \A y \in S : ~(<<y, x>> \in R)
  BY <1>2, WFMin
<1>4. ASSUME NEW y \in S PROVE x <= y
  <2>1. x \in Nat /\ y \in Nat  OBVIOUS
  <2>2. ~(y < x)  BY <1>1, <1>3, <2>1
  <2> QED  BY <2>1, <2>2
<1> QED  BY <1>4
-----------------------------------------------------------------------------
(* The image files.                                                        *)

Shown == [id : Nat, images : SUBSET ImageFiles, scraped : SUBSET ImageFiles]
Lane == [at : {"idle", "fetch", "tidy", "commit"}, page : SitePages \cup {Media!Idle.page}, id : Nat,
         seen : SUBSET ImageFiles, got : SUBSET ImageFiles]

MediaTypes ==
    /\ page \in [SitePages -> SUBSET ImageFiles]
    /\ shown \in [SitePages -> Shown]
    /\ dir \in [Media!Ids -> SUBSET ImageFiles]
    /\ ids \in Nat
    /\ work \in [Workers -> Lane]

\* Every article has an id, and a directory, of its own; so has the one at work.
IdsFit ==
    /\ ids <= MaxIds
    /\ \A p \in SitePages : shown[p].id <= ids
    /\ \A p, q \in SitePages : shown[p].id = shown[q].id => p = q \/ shown[p].id = 0
    /\ \A w \in Workers : Media!Busy(w) =>
          /\ work[w].page \in SitePages /\ work[w].id \in 1 .. ids
          /\ shown[work[w].page].id \in {0, work[w].id}
          /\ \A p \in SitePages : shown[p].id = work[w].id => p = work[w].page

\* What is about to be committed is on disk.
FilesFit == \A w \in Workers : work[w].at = "commit" => work[w].got \subseteq dir[work[w].id]

MediaInv == MediaTypes /\ IdsFit /\ FilesFit /\ Media!ImagesAreThere

LEMMA MediaStarts == Media!Init => MediaInv
<1> SUFFICES ASSUME Media!Init PROVE MediaInv  OBVIOUS
<1>1. /\ page \in [SitePages -> SUBSET ImageFiles] /\ ids = 0
      /\ shown = [p \in SitePages |-> [id |-> 0, images |-> {}, scraped |-> {}]]
      /\ dir = [i \in Media!Ids |-> {}] /\ work = [w \in Workers |-> Media!Idle]
  BY DEF Media!Init, Media!NoArticle, Media!NoId
<1>2. Media!Idle \in Lane /\ Media!Idle.at = "idle"  BY DEF Media!Idle, Lane, Media!NoId
<1>3. MediaTypes  BY <1>1, <1>2 DEF MediaTypes, Shown
<1>4. IdsFit  BY <1>1, <1>2, BoundsAssumption DEF IdsFit, Media!Busy
<1>5. FilesFit  BY <1>1, <1>2 DEF FilesFit
<1>6. Media!ImagesAreThere  BY <1>1 DEF Media!ImagesAreThere, Media!NoId
<1> QED  BY <1>3, <1>4, <1>5, <1>6 DEF MediaInv

\* Only the worker's directory changes, and no article but that of its page has its id.
LEMMA WriteKeeps ==
    ASSUME MediaInv, NEW w \in Workers, Media!Busy(w),
           NEW now, now = work[w], NEW files \in SUBSET ImageFiles,
           dir' = [dir EXCEPT ![now.id] = files], UNCHANGED shown,
           torn \subseteq torn', now.page \in torn' \/ dir[now.id] \subseteq files
    PROVE  Media!ImagesAreThere'
<1>1. now.id \in Media!Ids /\ \A p \in SitePages : shown[p].id = now.id => p = now.page
  BY BoundsAssumption DEF MediaInv, IdsFit, MediaTypes, Media!Ids
<1>2. \A i \in Media!Ids : dir'[i] = IF i = now.id THEN files ELSE dir[i]
  BY <1>1 DEF MediaInv, MediaTypes
<1>3. \A p \in SitePages : shown[p].id # 0 => shown[p].id \in Media!Ids
  BY BoundsAssumption DEF MediaInv, IdsFit, MediaTypes, Media!Ids, Shown
<1>4. SUFFICES ASSUME NEW p \in SitePages \ torn', shown[p].id # 0
               PROVE  shown[p].images \subseteq dir'[shown[p].id]
  BY DEF Media!ImagesAreThere, Media!NoId
<1>5. shown[p].images \subseteq dir[shown[p].id]
  BY <1>4 DEF MediaInv, Media!ImagesAreThere, Media!NoId
<1> QED  BY <1>1, <1>2, <1>3, <1>4, <1>5

LEMMA MediaKept ==
    ASSUME NEW CONSTANT lane, Workers = {lane}, MediaInv, Media!Next
    PROVE  MediaInv'
<1> USE DEF MediaInv
<1>0. Media!Ids = 1 .. MaxIds /\ MaxIds \in Nat /\ Media!NoId = 0
  BY BoundsAssumption DEF Media!Ids, Media!NoId
<1>i. Media!Idle \in Lane /\ Media!Idle.at = "idle"  BY DEF Media!Idle, Lane, Media!NoId
<1>1. ASSUME NEW p \in SitePages, NEW images \in SUBSET ImageFiles, Media!Edit(p, images)
      PROVE  MediaInv'
  <2>1. MediaTypes'  BY <1>1 DEF MediaTypes, Media!Edit
  <2> QED  BY <1>1, <2>1 DEF Media!Edit, IdsFit, FilesFit, Media!ImagesAreThere, Media!Busy
<1>2. ASSUME NEW w \in Workers, NEW p \in SitePages, Media!Begin(w, p)
      PROVE  MediaInv'
  <2> DEFINE new == shown[p].id = 0
             id == IF new THEN ids + 1 ELSE shown[p].id
             now == [at |-> "fetch", page |-> p, seen |-> page[p], got |-> {}, id |-> id]
  <2>1. /\ ids' = (IF new THEN ids + 1 ELSE ids) /\ (new => ids < MaxIds)
        /\ work' = [work EXCEPT ![w] = now] /\ UNCHANGED <<page, shown, dir, torn>>
    BY <1>2, <1>0 DEF Media!Begin
  <2>2. shown[p] \in Shown /\ id \in Nat /\ page[p] \in SUBSET ImageFiles
    BY DEF MediaTypes, Shown
  <2>3. now \in Lane  BY <2>2 DEF Lane
  <2>4. MediaTypes'  BY <2>1, <2>3 DEF MediaTypes
  <2>5. IdsFit'
    <3>1. \A q \in SitePages : shown[q].id \in Nat  BY DEF MediaTypes, Shown
    <3>2. ids \in Nat /\ ids' \in Nat /\ ids <= ids' /\ ids' <= MaxIds /\ id \in 1 .. ids'
      BY <2>1, <2>2, <1>0 DEF IdsFit, MediaTypes
    <3>3. \A q \in SitePages : shown[q].id = id => q = p
      BY <3>1, <3>2, <2>1, <1>0 DEF IdsFit
    <3>4. \A v \in Workers : work'[v] = IF v = w THEN now ELSE work[v]
      BY <2>1 DEF MediaTypes
    <3>5. \A v \in Workers : v = w  BY <1>2
    <3> QED  BY <3>1, <3>2, <3>3, <3>4, <3>5, <2>1, <1>0 DEF IdsFit, Media!Busy
  <2>6. FilesFit'  BY <2>1 DEF FilesFit, MediaTypes
  <2> QED  BY <2>1, <2>4, <2>5, <2>6 DEF Media!ImagesAreThere
<1>3. ASSUME NEW w \in Workers, NEW got \in SUBSET ImageFiles, Media!Fetch(w, got)
      PROVE  MediaInv'
  <2> DEFINE now == work[w]
             files == IF now.page \in Pdf THEN {} ELSE dir[now.id] \cup got
  <2>1. /\ now.at = "fetch" /\ dir' = [dir EXCEPT ![now.id] = files]
        /\ torn' = (IF now.page \in Pdf THEN torn \cup {now.page} ELSE torn)
        /\ work' = [work EXCEPT ![w] = [now EXCEPT !.at = "tidy", !.got = got]]
        /\ UNCHANGED <<page, shown, ids>>
    BY <1>3 DEF Media!Fetch, MediaTypes
  <2>2. Media!Busy(w) /\ now.id \in Media!Ids /\ now \in Lane
    BY <2>1, <1>0 DEF Media!Busy, IdsFit, MediaTypes
  <2>3. files \in SUBSET ImageFiles  BY <2>2 DEF MediaTypes
  <2>4. [now EXCEPT !.at = "tidy", !.got = got] \in Lane  BY <2>2 DEF Lane
  <2>5. MediaTypes'  BY <2>1, <2>3, <2>4 DEF MediaTypes
  <2>6. \A v \in Workers : v = w /\ work'[v].at = "tidy" /\ work'[v].page = now.page
                           /\ work'[v].id = now.id
    BY <2>1, <2>2, <1>3 DEF MediaTypes, Lane
  <2>7. IdsFit'  BY <2>1, <2>2, <2>6 DEF IdsFit, Media!Busy
  <2>8. FilesFit'  BY <2>6 DEF FilesFit
  <2>9. Media!ImagesAreThere'
    <3> HIDE DEF files
    <3>1. torn \subseteq torn' /\ (now.page \in torn' \/ dir[now.id] \subseteq files)
      BY <2>1 DEF files
    <3> QED  BY <2>1, <2>2, <2>3, <3>1, WriteKeeps
  <2> QED  BY <2>5, <2>7, <2>8, <2>9
<1>4. ASSUME NEW w \in Workers, Media!Tidy(w) PROVE MediaInv'
  <2> DEFINE now == work[w]
             all == now.got = {} /\ now.seen # {}
             files == IF all THEN dir[now.id] ELSE now.got
  <2>1. /\ now.at = "tidy" /\ dir' = [dir EXCEPT ![now.id] = files]
        /\ torn' = (IF all THEN torn ELSE torn \cup {now.page})
        /\ work' = [work EXCEPT ![w] = [now EXCEPT !.at = "commit"]]
        /\ UNCHANGED <<page, shown, ids>>
    BY <1>4 DEF Media!Tidy, MediaTypes
  <2>2. Media!Busy(w) /\ now.id \in Media!Ids /\ now \in Lane
    BY <2>1, <1>0 DEF Media!Busy, IdsFit, MediaTypes
  <2>3. files \in SUBSET ImageFiles /\ now.got \subseteq files  BY <2>2 DEF MediaTypes, Lane
  <2>4. [now EXCEPT !.at = "commit"] \in Lane  BY <2>2 DEF Lane
  <2>5. MediaTypes'  BY <2>1, <2>3, <2>4 DEF MediaTypes
  <2>6. \A v \in Workers : v = w /\ work'[v].at = "commit" /\ work'[v].page = now.page
                           /\ work'[v].id = now.id /\ work'[v].got = now.got
    BY <2>1, <2>2, <1>4 DEF MediaTypes, Lane
  <2>7. IdsFit'  BY <2>1, <2>2, <2>6 DEF IdsFit, Media!Busy
  <2>8. FilesFit'  BY <2>1, <2>2, <2>3, <2>6 DEF FilesFit, MediaTypes
  <2>9. Media!ImagesAreThere'
    <3> HIDE DEF files
    <3>1. torn \subseteq torn' /\ (now.page \in torn' \/ dir[now.id] \subseteq files)
      BY <2>1 DEF files
    <3> QED  BY <2>1, <2>2, <2>3, <3>1, WriteKeeps
  <2> QED  BY <2>5, <2>7, <2>8, <2>9
<1>5. ASSUME NEW w \in Workers, Media!Commit(w) PROVE MediaInv'
  <2> DEFINE now == work[w]
             next == [id |-> now.id, images |-> now.got, scraped |-> now.seen]
  <2>1. /\ now.at = "commit" /\ work' = [work EXCEPT ![w] = Media!Idle]
        /\ UNCHANGED <<page, dir, ids>>
        /\ \/ UNCHANGED <<shown, torn>>
           \/ shown' = [shown EXCEPT ![now.page] = next] /\ torn' = torn \ {now.page}
    BY <1>5 DEF Media!Commit
  <2>2. /\ Media!Busy(w) /\ now \in Lane /\ now.id \in 1 .. ids /\ now.page \in SitePages
        /\ now.got \subseteq dir[now.id] /\ \A p \in SitePages : shown[p].id = now.id => p = now.page
    BY <2>1 DEF Media!Busy, IdsFit, MediaTypes, FilesFit
  <2>3. next \in Shown  BY <2>2 DEF Lane, Shown
  <2>4. MediaTypes'  BY <2>1, <2>2, <2>3, <1>i DEF MediaTypes
  <2>5. \A v \in Workers : v = w /\ work'[v].at = "idle"
    BY <2>1, <1>i, <1>5 DEF MediaTypes
  <2>6. CASE UNCHANGED <<shown, torn>>
    BY <2>1, <2>4, <2>5, <2>6 DEF IdsFit, FilesFit, Media!ImagesAreThere, Media!Busy
  <2>7. CASE shown' = [shown EXCEPT ![now.page] = next] /\ torn' = torn \ {now.page}
    <3>1. \A p \in SitePages : shown'[p] = IF p = now.page THEN next ELSE shown[p]
      BY <2>7 DEF MediaTypes
    <3>2. next.id = now.id /\ next.images = now.got  OBVIOUS
    <3> HIDE DEF next
    <3>3. IdsFit'  BY <3>1, <3>2, <2>1, <2>2, <2>5, <1>0 DEF IdsFit, Media!Busy, MediaTypes
    <3>4. Media!ImagesAreThere'
      BY <3>1, <3>2, <2>1, <2>2, <2>7 DEF Media!ImagesAreThere
    <3> QED  BY <2>4, <2>5, <3>3, <3>4 DEF FilesFit
  <2> QED  BY <2>1, <2>6, <2>7
<1>6. ASSUME NEW w \in Workers, Media!Abort(w) PROVE MediaInv'
  <2>1. MediaTypes'  BY <1>6, <1>i DEF MediaTypes, Media!Abort
  <2>2. \A v \in Workers : v = w /\ work'[v].at = "idle"
    BY <1>i, <1>6 DEF MediaTypes, Media!Abort
  <2> QED
    BY <1>6, <2>1, <2>2 DEF Media!Abort, IdsFit, FilesFit, Media!ImagesAreThere, Media!Busy
<1>7. ASSUME NEW w \in Workers, Media!Collect(w) PROVE MediaInv'
  <2>1. /\ \A i \in Media!Ids : dir'[i] = IF i \in Media!Existing THEN dir[i] ELSE {}
        /\ dir' = [i \in Media!Ids |-> dir'[i]] /\ UNCHANGED <<page, shown, ids, work, torn>>
    BY <1>7 DEF Media!Collect
  <2>2. MediaTypes'  BY <2>1 DEF MediaTypes
  <2>3. \A v \in Workers : work[v].at = "idle"
    BY <1>7 DEF Media!Collect, Media!Rides, Media!Busy
  <2>4. \A p \in SitePages : shown[p].id # 0 => shown[p].id \in Media!Ids \cap Media!Existing
    BY <1>0 DEF MediaTypes, Shown, IdsFit, Media!Existing
  <2>5. Media!ImagesAreThere'
    BY <2>1, <2>4, <1>0 DEF Media!ImagesAreThere
  <2> QED  BY <2>1, <2>2, <2>3, <2>5 DEF IdsFit, FilesFit, Media!Busy
<1>8. ASSUME NEW p \in SitePages, Media!Delete(p) PROVE MediaInv'
  <2>1. /\ shown' = [shown EXCEPT ![p] = Media!NoArticle]
        /\ UNCHANGED <<page, dir, ids, work, torn>>
    BY <1>8 DEF Media!Delete
  <2>2. Media!NoArticle \in Shown /\ Media!NoArticle.id = 0
    BY <1>0 DEF Media!NoArticle, Shown
  <2>3. MediaTypes'  BY <2>1, <2>2 DEF MediaTypes
  <2>4. \A q \in SitePages : shown'[q] = IF q = p THEN Media!NoArticle ELSE shown[q]
    BY <2>1 DEF MediaTypes
  <2>5. IdsFit'  BY <2>1, <2>2, <2>4 DEF IdsFit, Media!Busy, MediaTypes
  <2>6. Media!ImagesAreThere'  BY <2>1, <2>2, <2>4, <1>0 DEF Media!ImagesAreThere
  <2> QED  BY <2>1, <2>3, <2>5, <2>6 DEF FilesFit
<1> QED  BY <1>1, <1>2, <1>3, <1>4, <1>5, <1>6, <1>7, <1>8 DEF Media!Next

\* The files of the images that an article refers to are there, over failed
\* downloads, lost workers, pruning and sweeps (process_article_result,
\* services/media_gc.py), as long as the sweep rides the one extraction lane.
THEOREM ImagesStayThere ==
    ASSUME NEW CONSTANT lane, Workers = {lane}
    PROVE  ContentsSpec => []ImagesAreThere
<1> DEFINE I == part = "media" => MediaInv
<1>1. ContentsInit => I
  BY MediaStarts DEF ContentsInit
<1>2. I /\ [ContentsNext]_contentVars => I'
  <2> SUFFICES ASSUME I, [ContentsNext]_contentVars, part' = "media" PROVE MediaInv'
    OBVIOUS
  <2>1. CASE UNCHANGED contentVars
    <3>1. UNCHANGED mediaVars /\ MediaInv  BY <2>1 DEF contentVars
    <3> QED  BY <3>1 DEF mediaVars, MediaInv, MediaTypes, IdsFit, FilesFit, Media!Busy,
                         Media!ImagesAreThere
  <2>2. CASE ContentsNext
    <3>1. Media!Next /\ MediaInv  BY <2>2 DEF ContentsNext
    <3> QED  BY <3>1, MediaKept
  <2> QED  BY <2>1, <2>2
<1>3. I => ImagesAreThere
  BY DEF ImagesAreThere, MediaInv
<1> QED  BY <1>1, <1>2, <1>3, PTL DEF ContentsSpec
-----------------------------------------------------------------------------
(* The captions of the images.                                             *)

\* Only the fields that matter are typed; the others are there.
PhaseFields == {"at", "todo", "article", "text", "sent", "hits", "verdict", "budget", "failures"}

CaptionTypes ==
    /\ content = [a \in ArticleIds |-> content[a]]
    /\ described \subseteq Images
    /\ phase = [s \in Sources |-> phase[s]]
    /\ \A s \in Sources : /\ DOMAIN phase[s] = PhaseFields
                          /\ phase[s].at \in {"off", "repair", "scan", "wait"}

\* A phase that waits for answers waits for those of one article.
WaitsForOne ==
    \A s \in Sources : phase[s].at = "wait" =>
        \E a \in ArticleIds : /\ phase[s].article = {a}
                              /\ phase[s].sent \cup phase[s].hits \subseteq Caption!ImagesOf(a)

\* What an earlier release left is in an article that the phase of its source has yet
\* to repair, or that is removed.
Awaits(a, p) == /\ p.at = "repair" => a \in p.todo \cup removed
                /\ p.at \in {"scan", "wait"} => a \in removed
EarlierAwaits ==
    \A i \in earlier : /\ i \in described /\ form[i] = "titled"
                       /\ Awaits(ArticleOf[i], phase[SourceOf[ArticleOf[i]]])

\* What this release described is captioned.
OthersAreCaptioned ==
    \A i \in described \ earlier :
        Caption!Matched(i) /\ ArticleOf[i] \notin raced => i \in content[ArticleOf[i]]

CaptionInv == CaptionTypes /\ WaitsForOne /\ EarlierAwaits /\ OthersAreCaptioned

LEMMA HomesAre == \A i \in Images : ArticleOf[i] \in ArticleIds /\ SourceOf[ArticleOf[i]] \in Sources
BY ImagesAssumption

LEMMA CaptionInvTells == CaptionInv => Caption!DescribedIsCaptioned
<1> SUFFICES ASSUME CaptionInv, NEW i \in described, Caption!Matched(i), ArticleOf[i] \notin raced
             PROVE  \/ i \in content[ArticleOf[i]]
                    \/ /\ i \in earlier
                       /\ \/ ArticleOf[i] \in removed
                          \/ phase[SourceOf[ArticleOf[i]]].at \in {"off", "repair"}
  BY DEF Caption!DescribedIsCaptioned
<1>1. CASE i \in earlier
  <2>1. SourceOf[ArticleOf[i]] \in Sources  BY HomesAre DEF CaptionInv, CaptionTypes
  <2> QED  BY <1>1, <2>1 DEF CaptionInv, CaptionTypes, EarlierAwaits, Awaits
<1>2. CASE i \notin earlier  BY <1>2 DEF CaptionInv, OthersAreCaptioned
<1> QED  BY <1>1, <1>2

LEMMA OffIs == DOMAIN Caption!Off = PhaseFields /\ Caption!Off.at = "off"
BY DEF Caption!Off, PhaseFields

LEMMA CaptionStarts == Caption!Init => CaptionInv
<1> SUFFICES ASSUME Caption!Init PROVE CaptionInv  OBVIOUS
<1>1. /\ content = [a \in ArticleIds |-> {}] /\ described = earlier
      /\ earlier \subseteq {i \in Images : form[i] = "titled"}
      /\ phase = [s \in Sources |-> Caption!Off]
  BY DEF Caption!Init
<1>2. CaptionTypes /\ WaitsForOne  BY <1>1, OffIs DEF CaptionTypes, WaitsForOne
<1>3. EarlierAwaits  BY <1>1, OffIs, HomesAre DEF EarlierAwaits, Awaits
<1> QED  BY <1>1, <1>2, <1>3 DEF CaptionInv, OthersAreCaptioned

\* A step of a phase that neither writes nor goes to wait.
LEMMA PhaseMoves ==
    ASSUME CaptionInv, NEW s \in Sources, NEW p, DOMAIN p = PhaseFields,
           p.at \in {"off", "repair", "scan"},
           \A i \in earlier : SourceOf[ArticleOf[i]] = s => Awaits(ArticleOf[i], p),
           phase' = [phase EXCEPT ![s] = p],
           UNCHANGED <<content, described, raced, form, removed, earlier>>
    PROVE  CaptionInv'
<1>1. \A t \in Sources : phase'[t] = IF t = s THEN p ELSE phase[t]
  BY DEF CaptionInv, CaptionTypes
<1>2. CaptionTypes'  BY <1>1 DEF CaptionInv, CaptionTypes
<1>3. WaitsForOne'  BY <1>1 DEF CaptionInv, WaitsForOne
<1>4. EarlierAwaits'
  <2> SUFFICES ASSUME NEW i \in earlier
               PROVE  /\ i \in described /\ form[i] = "titled"
                      /\ Awaits(ArticleOf[i], phase[SourceOf[ArticleOf[i]]])'
    BY DEF EarlierAwaits
  <2>1. i \in described /\ form[i] = "titled" /\ Awaits(ArticleOf[i], phase[SourceOf[ArticleOf[i]]])
    BY DEF CaptionInv, EarlierAwaits
  <2>2. SourceOf[ArticleOf[i]] \in Sources  BY <2>1, HomesAre DEF CaptionInv, CaptionTypes
  <2>3. CASE SourceOf[ArticleOf[i]] = s  BY <1>1, <2>1, <2>2, <2>3 DEF Awaits
  <2>4. CASE SourceOf[ArticleOf[i]] # s  BY <1>1, <2>1, <2>2, <2>4 DEF Awaits
  <2> QED  BY <2>1, <2>3, <2>4
<1>5. OthersAreCaptioned'  BY DEF CaptionInv, OthersAreCaptioned, Caption!Matched
<1> QED  BY <1>2, <1>3, <1>4, <1>5 DEF CaptionInv

\* A step that leaves the phases, and writes articles whose source has none.
LEMMA ArticleMoves ==
    ASSUME CaptionInv, NEW a \in ArticleIds, phase[SourceOf[a]].at = "off", UNCHANGED phase,
           earlier' \in SUBSET (earlier \cap described'), described' \in SUBSET described,
           \A b \in ArticleIds \ {a} : b \in removed' <=> b \in removed,
           \A i \in earlier' : form'[i] = form[i], OthersAreCaptioned',
           content' = [b \in ArticleIds |-> content'[b]]
    PROVE  CaptionInv'
<1>1. CaptionTypes' /\ WaitsForOne'  BY DEF CaptionInv, CaptionTypes, WaitsForOne
<1>2. EarlierAwaits'
  <2> SUFFICES ASSUME NEW i \in earlier'
               PROVE  /\ i \in described' /\ form'[i] = "titled"
                      /\ Awaits(ArticleOf[i], phase[SourceOf[ArticleOf[i]]])'
    BY DEF EarlierAwaits
  <2>1. i \in described /\ form[i] = "titled" /\ Awaits(ArticleOf[i], phase[SourceOf[ArticleOf[i]]])
    BY DEF CaptionInv, EarlierAwaits
  <2>2. ArticleOf[i] \in ArticleIds  BY <2>1, HomesAre DEF CaptionInv, CaptionTypes
  <2>3. Awaits(ArticleOf[i], phase[SourceOf[ArticleOf[i]]])'
    <3>1. CASE ArticleOf[i] = a  BY <3>1 DEF Awaits
    <3>2. CASE ArticleOf[i] # a  BY <2>1, <2>2, <3>2 DEF Awaits
    <3> QED  BY <3>1, <3>2
  <2> QED  BY <2>1, <2>3
<1> QED  BY <1>1, <1>2 DEF CaptionInv

LEMMA CaptionKept == ASSUME CaptionInv, Caption!Next PROVE CaptionInv'
<1>0. /\ \A s \in Sources : DOMAIN phase[s] = PhaseFields
      /\ described \subseteq Images /\ earlier \subseteq described
  BY DEF CaptionInv, CaptionTypes, EarlierAwaits
<1>h. \A i \in earlier : /\ i \in Images /\ ArticleOf[i] \in ArticleIds /\ form[i] = "titled"
                         /\ Awaits(ArticleOf[i], phase[SourceOf[ArticleOf[i]]])
  BY <1>0, HomesAre DEF CaptionInv, EarlierAwaits
<1>1. ASSUME NEW s \in Sources, Caption!EndsRun(s) \/ Caption!EnrichSourceRun(s)
      PROVE  CaptionInv'
  <2>1. PICK budget : Caption!Begin(s, budget)
    BY <1>1 DEF Caption!EndsRun, Caption!EnrichSourceRun
  <2> DEFINE todo == {a \in Caption!ArticlesOf(s) \ removed :
                         \E i \in Caption!ImagesOf(a) \cap described : form[i] = "titled"}
             p == [Caption!Off EXCEPT !.at = "repair", !.budget = budget, !.todo = todo]
  <2>2. phase' = [phase EXCEPT ![s] = p]
        /\ UNCHANGED <<content, described, raced, form, removed, earlier>>
    BY <2>1 DEF Caption!Begin
  <2>3. \A i \in earlier : SourceOf[ArticleOf[i]] = s => ArticleOf[i] \in todo \cup removed
    BY <1>0, <1>h DEF Caption!ArticlesOf, Caption!ImagesOf
  <2> HIDE DEF todo
  <2>4. DOMAIN p = PhaseFields /\ p.at = "repair" /\ p.todo = todo
    BY DEF Caption!Off, PhaseFields
  <2> HIDE DEF p
  <2>5. \A i \in earlier : SourceOf[ArticleOf[i]] = s => Awaits(ArticleOf[i], p)
    BY <2>3, <2>4 DEF Awaits
  <2> QED  BY <2>2, <2>4, <2>5, PhaseMoves
<1>2. ASSUME NEW s \in Sources, Caption!ListArticles(s) PROVE CaptionInv'
  <2>1. /\ phase[s].at = "repair" /\ phase[s].todo = {}
        /\ \E todo : phase' = [phase EXCEPT ![s] = [@ EXCEPT !.at = "scan", !.todo = todo]]
        /\ UNCHANGED <<content, described, raced, form, removed, earlier>>
    BY <1>2 DEF Caption!ListArticles, CaptionInv, CaptionTypes
  <2>2. PICK todo : phase' = [phase EXCEPT ![s] = [phase[s] EXCEPT !.at = "scan", !.todo = todo]]
    BY <2>1
  <2> DEFINE p == [phase[s] EXCEPT !.at = "scan", !.todo = todo]
  <2>3. DOMAIN p = PhaseFields /\ p.at = "scan"  BY <1>0 DEF PhaseFields
  <2>4. phase' = [phase EXCEPT ![s] = p]  BY <2>2
  <2> HIDE DEF p
  <2>5. \A i \in earlier : SourceOf[ArticleOf[i]] = s => Awaits(ArticleOf[i], p)
    BY <1>h, <2>1, <2>3 DEF Awaits
  <2> QED  BY <2>1, <2>3, <2>4, <2>5, PhaseMoves
<1>3. ASSUME NEW s \in Sources, Caption!Finish(s) \/ Caption!Interrupt(s) PROVE CaptionInv'
  <2>1. phase' = [phase EXCEPT ![s] = Caption!Off]
        /\ UNCHANGED <<content, described, raced, form, removed, earlier>>
    BY <1>3 DEF Caption!Finish, Caption!Interrupt
  <2> QED  BY <2>1, OffIs, PhaseMoves DEF Awaits
<1>4. ASSUME NEW s \in Sources, Caption!ReadAll(s) PROVE CaptionInv'
  BY <1>4 DEF Caption!ReadAll, CaptionInv, CaptionTypes, WaitsForOne, EarlierAwaits, Awaits,
              OthersAreCaptioned, Caption!Matched
<1>5. ASSUME NEW s \in Sources, NEW a \in ArticleIds, Caption!Repair(s, a) PROVE CaptionInv'
  <2> DEFINE p == [phase[s] EXCEPT !.todo = @ \ {a}]
             images == Caption!ImagesOf(a) \cap described
  <2>1. /\ phase[s].at = "repair" /\ phase' = [phase EXCEPT ![s] = p]
        /\ content' = [content EXCEPT ![a] = @ \cup {i \in images : Caption!Matched(i)}]
        /\ earlier' = earlier \ Caption!ImagesOf(a)
        /\ UNCHANGED <<described, raced, form, removed>>
    BY <1>5 DEF Caption!Repair, Caption!Injected, CaptionInv, CaptionTypes
  <2>2. DOMAIN p = PhaseFields /\ p.at = "repair" /\ p.todo = phase[s].todo \ {a}
    BY <1>0, <2>1 DEF PhaseFields
  <2> HIDE DEF p
  <2>3. \A t \in Sources : phase'[t] = IF t = s THEN p ELSE phase[t]
    BY <2>1 DEF CaptionInv, CaptionTypes
  <2>4. CaptionTypes'  BY <2>1, <2>2, <2>3 DEF CaptionInv, CaptionTypes
  <2>5. WaitsForOne'  BY <2>1, <2>2, <2>3 DEF CaptionInv, WaitsForOne
  <2>6. EarlierAwaits'
    <3> SUFFICES ASSUME NEW i \in earlier'
                 PROVE  /\ i \in described' /\ form'[i] = "titled"
                        /\ Awaits(ArticleOf[i], phase[SourceOf[ArticleOf[i]]])'
      BY DEF EarlierAwaits
    <3>1. i \in earlier /\ ArticleOf[i] # a
      BY <1>h, <2>1 DEF Caption!ImagesOf
    <3>2. i \in described /\ SourceOf[ArticleOf[i]] \in Sources
      BY <1>0, <3>1, HomesAre
    <3> QED  BY <1>h, <2>1, <2>2, <2>3, <3>1, <3>2 DEF Awaits
  <2>7. OthersAreCaptioned'
    <3> SUFFICES ASSUME NEW i \in described, i \notin earlier', Caption!Matched(i),
                        ArticleOf[i] \notin raced
                 PROVE  i \in content'[ArticleOf[i]]
      BY <2>1 DEF OthersAreCaptioned, Caption!Matched
    <3>1. i \in Images /\ ArticleOf[i] \in ArticleIds  BY <1>0, HomesAre
    <3>2. CASE i \in Caption!ImagesOf(a)
      BY <2>1, <3>1, <3>2 DEF Caption!ImagesOf, CaptionInv, CaptionTypes
    <3>3. CASE i \notin Caption!ImagesOf(a)
      BY <2>1, <3>1, <3>3 DEF CaptionInv, CaptionTypes, OthersAreCaptioned
    <3> QED  BY <3>2, <3>3
  <2> QED  BY <2>4, <2>5, <2>6, <2>7 DEF CaptionInv
<1>6. ASSUME NEW s \in Sources, NEW a \in ArticleIds, Caption!Scan(s, a) PROVE CaptionInv'
  <2>1. PICK tried \in SUBSET Caption!Unknown(a) :
          \E budget, verdict :
            LET fine == {i \in tried : ~Caption!Heavy(i)} IN
            phase' = [phase EXCEPT ![s] =
               [phase[s] EXCEPT !.at = "wait", !.todo = @ \ {a}, !.article = {a},
                                !.text = content[a], !.sent = fine, !.budget = budget,
                                !.hits = Caption!Hits(a), !.verdict = verdict]]
    BY <1>6 DEF Caption!Scan
  <2>2. PICK budget, verdict :
            phase' = [phase EXCEPT ![s] =
               [phase[s] EXCEPT !.at = "wait", !.todo = @ \ {a}, !.article = {a},
                                !.text = content[a], !.sent = {i \in tried : ~Caption!Heavy(i)},
                                !.budget = budget,
                                !.hits = Caption!Hits(a), !.verdict = verdict]]
    BY <2>1
  <2> DEFINE fine == {i \in tried : ~Caption!Heavy(i)}
             p == [phase[s] EXCEPT !.at = "wait", !.todo = @ \ {a}, !.article = {a},
                      !.text = content[a], !.sent = fine, !.budget = budget,
                      !.hits = Caption!Hits(a), !.verdict = verdict]
  <2>3. /\ DOMAIN p = PhaseFields /\ p.article = {a} /\ p.sent = fine
        /\ p.hits = Caption!Hits(a) /\ p.at = "wait"
    BY <1>0 DEF PhaseFields
  <2>4. fine \cup Caption!Hits(a) \subseteq Caption!ImagesOf(a)
    BY <2>1 DEF Caption!Unknown, Caption!Hits
  <2>5. /\ phase' = [phase EXCEPT ![s] = p] /\ phase[s].at = "scan"
        /\ UNCHANGED <<content, described, raced, form, removed, earlier>>
    BY <1>6, <2>2 DEF Caption!Scan
  <2> HIDE DEF p
  <2>6. \A t \in Sources : phase'[t] = IF t = s THEN p ELSE phase[t]
    BY <2>5 DEF CaptionInv, CaptionTypes
  <2>7. CaptionTypes'  BY <2>3, <2>5, <2>6 DEF CaptionInv, CaptionTypes
  <2>8. WaitsForOne'  BY <2>3, <2>4, <2>6 DEF CaptionInv, WaitsForOne, Caption!ImagesOf
  <2>9. EarlierAwaits'
    <3>1. \A i \in earlier : Awaits(ArticleOf[i], phase[SourceOf[ArticleOf[i]]])'
      BY <1>h, <2>3, <2>5, <2>6, HomesAre DEF Awaits
    <3> QED  BY <1>0, <1>h, <2>5, <3>1 DEF EarlierAwaits
  <2> QED
    BY <2>5, <2>7, <2>8, <2>9 DEF CaptionInv, OthersAreCaptioned, Caption!Matched
<1>7. ASSUME NEW s \in Sources, NEW ok \in SUBSET Images, Caption!Apply(s, ok)
      PROVE  CaptionInv'
  <2>1. PICK a \in ArticleIds : /\ phase[s].article = {a}
            /\ phase[s].sent \cup phase[s].hits \subseteq Caption!ImagesOf(a)
    BY <1>7 DEF Caption!Apply, CaptionInv, WaitsForOne
  <2>2. (CHOOSE x \in phase[s].article : TRUE) = a /\ phase[s].at = "wait"
    BY <1>7, <2>1 DEF Caption!Apply
  <2>3. CASE \E i \in ok : Sha[i] \in known
    <3>1. phase' = [phase EXCEPT ![s] = Caption!Off]
          /\ UNCHANGED <<content, described, raced, form, removed, earlier>>
      BY <1>7, <2>3 DEF Caption!Apply
    <3> QED  BY <3>1, OffIs, PhaseMoves DEF Awaits
  <2>4. CASE ~ \E i \in ok : Sha[i] \in known
    <3> DEFINE old == phase[s]
               caption == Caption!Captioned(old.text, old.hits, ok)
    <3>1. /\ described' = described \cup ok \cup old.hits
          /\ content' = [content EXCEPT ![a] = IF caption = old.text THEN @ ELSE caption]
          /\ raced' = IF content[a] # old.text THEN raced \cup {a} ELSE raced
          /\ ok \subseteq old.sent /\ UNCHANGED <<form, removed, earlier>>
      BY <1>7, <2>2, <2>4 DEF Caption!Apply, Caption!Answers
    <3>2. PICK b, n : phase' = [phase EXCEPT ![s] =
             [old EXCEPT !.at = "scan", !.article = {}, !.text = {}, !.sent = {},
                         !.hits = {}, !.verdict = <<>>, !.budget = b, !.failures = n]]
      BY <1>7, <2>2, <2>4 DEF Caption!Apply
    <3> DEFINE p == [old EXCEPT !.at = "scan", !.article = {}, !.text = {}, !.sent = {},
                         !.hits = {}, !.verdict = <<>>, !.budget = b, !.failures = n]
    <3>3. DOMAIN p = PhaseFields /\ p.at = "scan"  BY <1>0 DEF PhaseFields
    <3>4. phase' = [phase EXCEPT ![s] = p]  BY <3>2
    <3> HIDE DEF p
    <3>5. \A t \in Sources : phase'[t] = IF t = s THEN p ELSE phase[t]
      BY <3>4 DEF CaptionInv, CaptionTypes
    <3>6. /\ \A i \in ok \cup old.hits : Caption!Matched(i) => i \in caption
          /\ old.text \subseteq caption
      BY DEF Caption!Captioned, Caption!Injected
    <3>7. old.hits \subseteq Images /\ ok \cup old.hits \subseteq Caption!ImagesOf(a)
      BY <2>1, <3>1 DEF Caption!ImagesOf
    <3> HIDE DEF caption
    <3>8. WaitsForOne'  BY <3>3, <3>5 DEF CaptionInv, WaitsForOne
    <3>9. OthersAreCaptioned'
      <4> SUFFICES ASSUME NEW i \in described', i \notin earlier, ArticleOf[i] \notin raced',
                          Caption!Matched(i)
                   PROVE  i \in content'[ArticleOf[i]]
        BY <3>1 DEF OthersAreCaptioned, Caption!Matched
      <4>1. i \in Images /\ ArticleOf[i] \in ArticleIds  BY <1>0, <3>1, <3>7, HomesAre
      <4>2. ArticleOf[i] = a => content[a] = old.text  BY <3>1
      <4>3. i \in described => i \in content[ArticleOf[i]]
        BY <3>1 DEF CaptionInv, OthersAreCaptioned
      <4>4. i \notin described => ArticleOf[i] = a /\ i \in caption
        BY <3>1, <3>6, <3>7 DEF Caption!ImagesOf
      <4> QED
        BY <3>1, <3>6, <4>1, <4>2, <4>3, <4>4 DEF CaptionInv, CaptionTypes
    <3>10. CaptionTypes'
      BY <3>1, <3>3, <3>4, <3>5, <3>7 DEF CaptionInv, CaptionTypes
    <3>11. EarlierAwaits'
      <4>1. \A i \in earlier : Awaits(ArticleOf[i], phase[SourceOf[ArticleOf[i]]])'
        BY <1>h, <2>2, <3>1, <3>3, <3>5, HomesAre DEF Awaits
      <4> QED  BY <1>0, <1>h, <3>1, <4>1 DEF EarlierAwaits
    <3> QED  BY <3>8, <3>9, <3>10, <3>11 DEF CaptionInv
  <2> QED  BY <2>3, <2>4
<1>8. ASSUME NEW a \in ArticleIds, Caption!Scrape(a) PROVE CaptionInv'
  <2>1. /\ content' = [content EXCEPT ![a] = {}] /\ UNCHANGED <<phase, raced>>
        /\ described' = described \ Caption!ImagesOf(a)
        /\ earlier' = earlier \ Caption!ImagesOf(a)
        /\ removed' = removed \ {a} /\ phase[SourceOf[a]].at = "off"
        /\ \E f : form' = [i \in Images |-> IF i \in Caption!ImagesOf(a) THEN f[i] ELSE form[i]]
    BY <1>8 DEF Caption!Scrape
  <2>2. \A i \in described' : /\ i \in described /\ ArticleOf[i] # a /\ ArticleOf[i] \in ArticleIds
                              /\ form'[i] = form[i]
    BY <1>0, <2>1, HomesAre DEF Caption!ImagesOf
  <2>3. content' = [b \in ArticleIds |-> content'[b]]
        /\ \A b \in ArticleIds : b # a => content'[b] = content[b]
    BY <2>1 DEF CaptionInv, CaptionTypes
  <2>4. OthersAreCaptioned'
    BY <2>1, <2>2, <2>3 DEF CaptionInv, OthersAreCaptioned, Caption!Matched
  <2>5. earlier' \in SUBSET (earlier \cap described') /\ described' \in SUBSET described
    BY <1>0, <2>1
  <2> QED  BY <2>1, <2>2, <2>3, <2>4, <2>5, ArticleMoves
<1>9. ASSUME NEW a \in ArticleIds, Caption!Relist(a) PROVE CaptionInv'
  <2>1. /\ UNCHANGED <<phase, raced, content, described, earlier, form>>
        /\ \A b \in ArticleIds \ {a} : b \in removed' <=> b \in removed
        /\ phase[SourceOf[a]].at = "off"
    BY <1>9 DEF Caption!Relist
  <2>2. OthersAreCaptioned' /\ content' = [b \in ArticleIds |-> content'[b]]
    BY <2>1 DEF CaptionInv, CaptionTypes, OthersAreCaptioned, Caption!Matched
  <2> QED  BY <1>0, <2>1, <2>2, ArticleMoves
<1>10. ASSUME Caption!WriteAll PROVE CaptionInv'
  <2>1. PICK w \in rewrite : \E changed \in SUBSET Caption!ArticlesOf(w.source) :
          /\ content' = [a \in ArticleIds |-> IF a \in changed THEN w.texts[a] ELSE content[a]]
          /\ raced' = raced \cup {a \in changed : w.texts[a] # content[a]}
          /\ UNCHANGED <<described, phase, form, removed, earlier>>
    BY <1>10 DEF Caption!WriteAll
  <2>2. OthersAreCaptioned'
    <3>1. \A a \in ArticleIds : a \notin raced' => a \notin raced /\ content'[a] = content[a]
      BY <2>1
    <3> QED
      BY <1>0, <2>1, <3>1, HomesAre DEF CaptionInv, OthersAreCaptioned, Caption!Matched
  <2> QED
    BY <2>1, <2>2 DEF CaptionInv, CaptionTypes, WaitsForOne, EarlierAwaits, Awaits
<1> QED
  BY <1>1, <1>2, <1>3, <1>4, <1>5, <1>6, <1>7, <1>8, <1>9, <1>10 DEF Caption!Next

\* A described image whose reference is matched has its caption in the stored text,
\* over answers that fail, phases that race for the same bytes and pages scraped again;
\* what an earlier release left has it once a phase is past its repair, unless the
\* article is removed.  Articles written from a text no longer stored are out
\* (image_describe.py).
THEOREM CaptionsStay == ContentsSpec => []DescribedIsCaptioned
<1> DEFINE I == part = "images" => CaptionInv
<1>1. ContentsInit => I
  BY CaptionStarts DEF ContentsInit
<1>2. I /\ [ContentsNext]_contentVars => I'
  <2> SUFFICES ASSUME I, [ContentsNext]_contentVars, part' = "images" PROVE CaptionInv'
    OBVIOUS
  <2>1. CASE UNCHANGED contentVars
    <3>1. UNCHANGED imagesVars /\ CaptionInv  BY <2>1 DEF contentVars
    <3> QED  BY <3>1 DEF imagesVars, CaptionInv, CaptionTypes, WaitsForOne, EarlierAwaits,
                         Awaits, OthersAreCaptioned, Caption!Matched
  <2>2. CASE ContentsNext
    <3>1. Caption!Next /\ CaptionInv  BY <2>2 DEF ContentsNext
    <3> QED  BY <3>1, CaptionKept
  <2> QED  BY <2>1, <2>2
<1>3. I => DescribedIsCaptioned
  BY CaptionInvTells DEF DescribedIsCaptioned
<1> QED  BY <1>1, <1>2, <1>3, PTL DEF ContentsSpec
-----------------------------------------------------------------------------
(* The versions of an article.                                             *)

Row == [raw : Nat, fresh : BOOLEAN, unclean : BOOLEAN, captioned : BOOLEAN,
        createdBy : Nat, created : Nat, linked : BOOLEAN, removedBy : Nat]
VersionRow == [raw : Nat, run : Nat, at : Nat, by : Nat]

HistoryTypes ==
    /\ site \in [SitePages -> Nat] /\ claims \in Nat
    /\ article \in [SitePages -> Row]
    /\ versions \in [SitePages -> Seq(VersionRow)]
    /\ kept = [p \in SitePages |-> kept[p]]

\* A page that was never stored has no history; one that is not as a scrape would
\* store it, though no release made it so, was resanitized and has images.
RowsTell ==
    \A p \in SitePages :
        /\ article[p].raw = 0 => versions[p] = <<>> /\ kept[p] = {} /\ p \notin misdated
        /\ article[p].raw # 0 /\ ~article[p].fresh /\ ~article[p].unclean
              => p \in Illustrated /\ \E i \in DOMAIN versions[p] : versions[p][i].run = 0

HistoryInv == HistoryTypes /\ RowsTell /\ Ledger!HistoryIsWhole

\* HistoryIsWhole of one page.
Whole(p) ==
    /\ kept[p] \subseteq {article[p].raw} \cup {versions[p][i].raw : i \in DOMAIN versions[p]}
    /\ \A i \in DOMAIN versions[p] : Ledger!Replacing(p, i) = versions[p][i].by
    /\ p \in misdated => p \in Illustrated /\ \E i \in DOMAIN versions[p] : versions[p][i].run = 0

LEMMA WholeIs == Ledger!HistoryIsWhole <=> \A p \in SitePages : Whole(p)
BY DEF Ledger!HistoryIsWhole, Whole, Ledger!NoRun

LEMMA NoArticleIs == Ledger!NoArticle \in Row /\ Ledger!NoArticle.raw = 0
BY DEF Ledger!NoArticle, Row, Ledger!NoRun

LEMMA HistoryStarts == Ledger!Init => HistoryInv
<1> SUFFICES ASSUME Ledger!Init PROVE HistoryInv  OBVIOUS
<1>1. /\ site \in [SitePages -> 0 .. 1] /\ claims = 0 /\ misdated = {}
      /\ article = [p \in SitePages |-> Ledger!NoArticle]
      /\ versions = [p \in SitePages |-> <<>>] /\ kept = [p \in SitePages |-> {}]
  BY DEF Ledger!Init
<1>2. <<>> \in Seq(VersionRow)  OBVIOUS
<1>3. site \in [SitePages -> Nat]  BY <1>1
<1>4. HistoryTypes  BY <1>1, <1>2, <1>3, NoArticleIs DEF HistoryTypes
<1>5. RowsTell  BY <1>1, NoArticleIs DEF RowsTell
<1>6. \A p \in SitePages : Whole(p)  BY <1>1 DEF Whole
<1> QED  BY <1>4, <1>5, <1>6, WholeIs DEF HistoryInv

\* What is said of a page stays true when its row keeps its content and its flags.
LEMMA PageStays ==
    ASSUME HistoryInv, NEW p \in SitePages, versions'[p] = versions[p], kept'[p] = kept[p],
           p \in misdated' <=> p \in misdated, article'[p].raw = article[p].raw
    PROVE  Whole(p)'
BY WholeIs DEF HistoryInv, Whole, Ledger!Replacing

\* A text is archived, and another, or the same, takes its place.
LEMMA PageArchived ==
    ASSUME HistoryInv, NEW p \in SitePages, NEW r \in Nat, NEW by \in Nat,
           versions'[p] = Append(versions[p], Ledger!Version(article[p].raw, r, by)),
           article'[p].raw = by, kept'[p] \subseteq kept[p] \cup {by},
           p \in misdated' => p \in Illustrated /\ \E i \in DOMAIN versions'[p] : versions'[p][i].run = 0
    PROVE  Whole(p)'
<1> DEFINE old == versions[p]
           new == Ledger!Version(article[p].raw, r, by)
<1>1. old \in Seq(VersionRow) /\ article[p].raw \in Nat /\ claims \in Nat
  BY DEF HistoryInv, HistoryTypes, Row
<1>2. new \in VersionRow /\ new.raw = article[p].raw /\ new.by = by
  BY <1>1 DEF VersionRow, Ledger!Version
<1>3. Whole(p)  BY WholeIs DEF HistoryInv
<1> HIDE DEF new
<1>4. /\ Len(versions'[p]) = Len(old) + 1 /\ Len(old) \in Nat
      /\ DOMAIN versions'[p] = 1 .. Len(old) + 1 /\ DOMAIN old = 1 .. Len(old)
      /\ \A i \in 1 .. Len(old) : versions'[p][i] = old[i]
      /\ versions'[p][Len(old) + 1] = new
  BY <1>1, <1>2 DEF new
<1>5. kept'[p] \subseteq {article'[p].raw} \cup {versions'[p][i].raw : i \in DOMAIN versions'[p]}
  <2> SUFFICES ASSUME NEW k \in kept'[p], k # by
               PROVE  \E i \in DOMAIN versions'[p] : versions'[p][i].raw = k
    OBVIOUS
  <2>1. CASE k = article[p].raw  BY <2>1, <1>2, <1>4
  <2>2. CASE k # article[p].raw
    <3>1. PICK i \in DOMAIN old : old[i].raw = k  BY <2>2, <1>3 DEF Whole
    <3> QED  BY <3>1, <1>4
  <2> QED  BY <2>1, <2>2
<1>6. ASSUME NEW i \in DOMAIN versions'[p] PROVE Ledger!Replacing(p, i)' = versions'[p][i].by
  <2>1. CASE i = Len(old) + 1
    BY <2>1, <1>2, <1>4 DEF Ledger!Replacing
  <2>2. CASE i = Len(old)
    <3>1. i \in DOMAIN old /\ Ledger!Replacing(p, i) = old[i].by
      BY <2>2, <1>3, <1>4, <1>6 DEF Whole
    <3>2. Ledger!Replacing(p, i) = article[p].raw
      BY <2>2, <1>4 DEF Ledger!Replacing
    <3>3. Ledger!Replacing(p, i)' = article[p].raw
      BY <2>2, <1>2, <1>4 DEF Ledger!Replacing
    <3> QED  BY <3>1, <3>2, <3>3, <1>4
  <2>3. CASE i < Len(old)
    <3>1. i \in DOMAIN old /\ Ledger!Replacing(p, i) = old[i].by
      BY <2>3, <1>3, <1>4 DEF Whole
    <3>2. i + 1 \in 1 .. Len(old)  BY <2>3, <1>4
    <3> QED  BY <2>3, <3>1, <3>2, <1>4 DEF Ledger!Replacing
  <2> QED  BY <2>1, <2>2, <2>3, <1>4
<1> QED  BY <1>5, <1>6 DEF Whole

\* Rows that keep their content, their flags and all that is told of them.
LEMMA RowsMove ==
    ASSUME HistoryInv, UNCHANGED <<versions, kept, misdated>>,
           site' \in [SitePages -> Nat], claims' \in Nat, article' \in [SitePages -> Row],
           \A p \in SitePages : /\ article'[p].raw = article[p].raw
                                /\ ~article'[p].fresh /\ ~article'[p].unclean
                                      => ~article[p].fresh /\ ~article[p].unclean
    PROVE  HistoryInv'
<1>1. HistoryTypes'  BY DEF HistoryInv, HistoryTypes
<1>2. RowsTell'  BY DEF HistoryInv, RowsTell
<1>3. ASSUME NEW p \in SitePages PROVE Whole(p)'
  <2>1. /\ versions'[p] = versions[p] /\ kept'[p] = kept[p]
        /\ (p \in misdated' <=> p \in misdated) /\ article'[p].raw = article[p].raw
    OBVIOUS
  <2> QED  BY <2>1, PageStays
<1> QED  BY <1>1, <1>2, <1>3, WholeIs DEF HistoryInv, Ledger!HistoryIsWhole, Whole, Ledger!NoRun

LEMMA StoreKeeps ==
    ASSUME HistoryInv, NEW r \in Ledger!Runs, NEW p \in SitePages, Ledger!Store(r, p)
    PROVE  HistoryInv'
<1> DEFINE now == site[p]
           a == article[p]
<1>1. /\ now \in Nat \ {0} /\ a \in Row /\ r \in Nat \ {0} /\ claims \in Nat
      /\ kept' = [kept EXCEPT ![p] = @ \cup {now}] /\ UNCHANGED <<site, claims>>
  BY BoundsAssumption DEF Ledger!Store, HistoryInv, HistoryTypes, Ledger!Runs
<1>2. \A q \in SitePages : kept'[q] = IF q = p THEN kept[p] \cup {now} ELSE kept[q]
  BY <1>1 DEF HistoryInv, HistoryTypes
<1>3. Whole(p)  BY WholeIs DEF HistoryInv
<1>t. article \in [SitePages -> Row] /\ versions \in [SitePages -> Seq(VersionRow)]
  BY DEF HistoryInv, HistoryTypes
<1>4. SUFFICES /\ article' \in [SitePages -> Row] /\ versions' \in [SitePages -> Seq(VersionRow)]
               /\ article'[p].raw = now
               /\ \A q \in SitePages \ {p} : /\ article'[q] = article[q] /\ versions'[q] = versions[q]
                                             /\ q \in misdated' <=> q \in misdated
               /\ article'[p].fresh
               /\ Whole(p)'
  <2>1. HistoryTypes'  BY <1>1, <1>4 DEF HistoryInv, HistoryTypes
  <2>2. RowsTell'
    <3>1. \A q \in SitePages \ {p} : /\ article'[q] = article[q] /\ versions'[q] = versions[q]
                                     /\ kept'[q] = kept[q] /\ (q \in misdated' <=> q \in misdated)
      BY <1>2, <1>4
    <3>2. article'[p].raw # 0 /\ article'[p].fresh  BY <1>1, <1>4
    <3>3. RowsTell  BY DEF HistoryInv
    <3> QED  BY <3>1, <3>2, <3>3 DEF RowsTell
  <2>3. ASSUME NEW q \in SitePages, q # p PROVE Whole(q)'
    BY <1>2, <1>4, <2>3, PageStays
  <2> QED  BY <1>4, <2>1, <2>2, <2>3, WholeIs DEF HistoryInv, Ledger!HistoryIsWhole, Whole, Ledger!NoRun
<1>5. CASE /\ a.raw = 0
           /\ article' = [article EXCEPT ![p] = Ledger!Created(r, now)]
           /\ UNCHANGED <<versions, misdated>>
  <2> DEFINE new == Ledger!Created(r, now)
  <2>1. new \in Row /\ new.raw = now /\ new.fresh
    BY <1>1 DEF Ledger!Created, Ledger!NoArticle, Row, Ledger!NoRun
  <2> HIDE DEF new
  <2>0. article' = [article EXCEPT ![p] = new]  BY <1>5 DEF new
  <2>2. \A q \in SitePages : article'[q] = IF q = p THEN new ELSE article[q]
    BY <1>t, <2>0
  <2>3. versions[p] = <<>> /\ kept[p] = {} /\ p \notin misdated
    BY <1>5 DEF HistoryInv, RowsTell
  <2>4. Whole(p)'  BY <1>2, <1>5, <2>1, <2>2, <2>3 DEF Whole
  <2>5. article' \in [SitePages -> Row]  BY <1>t, <2>0, <2>1
  <2> QED  BY <1>5, <2>1, <2>2, <2>4, <2>5 DEF HistoryInv, HistoryTypes
<1>6. CASE /\ a.raw = now /\ a.fresh
           /\ article' = [article EXCEPT ![p].linked = TRUE]
           /\ UNCHANGED <<versions, misdated>>
  <2> DEFINE new == [a EXCEPT !.linked = TRUE]
  <2>1. new \in Row /\ new.raw = now /\ new.fresh  BY <1>1, <1>6 DEF Row
  <2>2. article' = [article EXCEPT ![p] = new]  BY <1>6 DEF HistoryInv, HistoryTypes
  <2> HIDE DEF new
  <2>3. \A q \in SitePages : article'[q] = IF q = p THEN new ELSE article[q]
    BY <2>2 DEF HistoryInv, HistoryTypes
  <2>4. Whole(p)'
    <3>1. \A i \in DOMAIN versions[p] : Ledger!Replacing(p, i)' = Ledger!Replacing(p, i)
      BY <1>6, <2>1, <2>3 DEF Ledger!Replacing
    <3> QED  BY <1>2, <1>3, <1>6, <2>1, <2>3, <3>1 DEF Whole
  <2>5. article' \in [SitePages -> Row]  BY <2>1, <2>2 DEF HistoryInv, HistoryTypes
  <2> QED  BY <1>6, <2>1, <2>3, <2>4, <2>5 DEF HistoryInv, HistoryTypes
<1>7. CASE /\ a.raw # 0
           /\ article' = [article EXCEPT ![p] = Ledger!Rescraped(a, r, now)]
           /\ versions' = [versions EXCEPT ![p] = Ledger!Archived(p, r, now)]
           /\ misdated' = IF a.raw = now /\ ~a.unclean
                          THEN misdated \cup {p} ELSE misdated
           /\ a.raw # now \/ ~a.fresh
  <2> DEFINE new == Ledger!Rescraped(a, r, now)
             row == Ledger!Version(a.raw, r, now)
  <2>1. new \in Row /\ new.raw = now /\ new.fresh
    BY <1>1 DEF Ledger!Rescraped, Row
  <2>2. row \in VersionRow /\ row.run = r  BY <1>1 DEF Ledger!Version, VersionRow, Row
  <2> HIDE DEF new
  <2>0. /\ article' = [article EXCEPT ![p] = new]
        /\ versions' = [versions EXCEPT ![p] = Append(versions[p], row)]
    BY <1>7 DEF new, Ledger!Archived
  <2> HIDE DEF row
  <2>3. \A q \in SitePages : /\ article'[q] = IF q = p THEN new ELSE article[q]
                             /\ versions'[q] = IF q = p THEN Append(versions[p], row) ELSE versions[q]
    BY <1>t, <2>0
  <2>4. article' \in [SitePages -> Row]  BY <1>t, <2>0, <2>1
  <2>5. versions' \in [SitePages -> Seq(VersionRow)]
    <3>1. versions[p] \in Seq(VersionRow)  BY DEF HistoryInv, HistoryTypes
    <3>2. Append(versions[p], row) \in Seq(VersionRow)  BY <3>1, <2>2
    <3> QED  BY <1>t, <2>0, <3>2
  <2>6. ASSUME p \in misdated'
        PROVE  p \in Illustrated /\ \E i \in DOMAIN versions'[p] : versions'[p][i].run = 0
    <3>1. p \in Illustrated /\ \E i \in DOMAIN versions[p] : versions[p][i].run = 0
      <4>1. CASE p \in misdated  BY <1>3, <4>1 DEF Whole
      <4>2. CASE a.raw = now /\ ~a.unclean
        BY <1>7, <4>2 DEF HistoryInv, RowsTell
      <4> QED  BY <1>7, <2>6, <4>1, <4>2
    <3>2. PICK i \in DOMAIN versions[p] : versions[p][i].run = 0  BY <3>1
    <3>3. versions[p] \in Seq(VersionRow)  BY DEF HistoryInv, HistoryTypes
    <3>4. i \in DOMAIN versions'[p] /\ versions'[p][i] = versions[p][i]
      <4>1. versions'[p] = Append(versions[p], row)  BY <2>3
      <4>2. i \in 1 .. Len(versions[p]) /\ Len(versions[p]) \in Nat  BY <3>2, <3>3
      <4>3. DOMAIN versions'[p] = 1 .. Len(versions[p]) + 1  BY <4>1, <3>3, <2>2
      <4>4. versions'[p][i] = versions[p][i]  BY <4>1, <4>2, <3>3, <2>2
      <4> QED  BY <4>2, <4>3, <4>4
    <3> QED  BY <3>1, <3>2, <3>4
  <2>7. Whole(p)'
    <3>1. versions'[p] = Append(versions[p], row) /\ article'[p].raw = now
          /\ kept'[p] \subseteq kept[p] \cup {now}
      BY <1>2, <2>1, <2>3 DEF row
    <3> QED  BY <1>1, <2>6, <3>1, PageArchived DEF row
  <2> QED  BY <1>7, <2>1, <2>3, <2>4, <2>5, <2>7
<1> QED  BY <1>5, <1>6, <1>7 DEF Ledger!Store

LEMMA ResanitizeKeeps == ASSUME HistoryInv, Ledger!Resanitize PROVE HistoryInv'
<1>t. /\ article \in [SitePages -> Row] /\ versions \in [SitePages -> Seq(VersionRow)]
      /\ claims \in Nat /\ Ledger!NoRun = 0
  BY DEF HistoryInv, HistoryTypes, Ledger!NoRun
<1> DEFINE new(p) == [article[p] EXCEPT !.unclean = FALSE, !.fresh = p \notin Illustrated]
           row(p) == Ledger!Version(article[p].raw, 0, article[p].raw)
<1>1. /\ versions' = [p \in SitePages |-> IF p \in Ledger!Unclean THEN Append(versions[p], row(p))
                                      ELSE versions[p]]
      /\ article' = [p \in SitePages |-> IF p \in Ledger!Unclean THEN new(p) ELSE article[p]]
      /\ UNCHANGED <<site, claims, kept, misdated>>
  BY <1>t DEF Ledger!Resanitize, Ledger!Archived
<1>2. \A p \in SitePages : /\ new(p) \in Row /\ new(p).raw = article[p].raw
                           /\ new(p).fresh = (p \notin Illustrated)
                           /\ row(p) \in VersionRow /\ row(p).run = 0
  BY <1>t DEF Row, VersionRow, Ledger!Version
<1> HIDE DEF new, row
<1>3. \A p \in SitePages : /\ article'[p] = IF p \in Ledger!Unclean THEN new(p) ELSE article[p]
                           /\ versions'[p] = IF p \in Ledger!Unclean THEN Append(versions[p], row(p))
                                             ELSE versions[p]
                           /\ article'[p].raw = article[p].raw
  BY <1>1, <1>2
<1>4. \A p \in Ledger!Unclean : p \in SitePages /\ article[p].raw # 0
  BY DEF Ledger!Unclean, Ledger!Stored
<1>5. ASSUME NEW p \in Ledger!Unclean
      PROVE  /\ Append(versions[p], row(p)) \in Seq(VersionRow)
             /\ \E i \in DOMAIN versions'[p] : versions'[p][i].run = 0
             /\ \A i \in DOMAIN versions[p] : i \in DOMAIN versions'[p]
                                              /\ versions'[p][i] = versions[p][i]
  <2>1. versions[p] \in Seq(VersionRow) /\ row(p) \in VersionRow
        /\ versions'[p] = Append(versions[p], row(p))
    BY <1>t, <1>2, <1>3, <1>4, <1>5
  <2>2. /\ Len(versions[p]) \in Nat /\ DOMAIN versions[p] = 1 .. Len(versions[p])
        /\ DOMAIN versions'[p] = 1 .. Len(versions[p]) + 1
        /\ versions'[p][Len(versions[p]) + 1] = row(p)
    BY <2>1
  <2> QED  BY <2>1, <2>2, <1>2, <1>4, <1>5
<1>6. HistoryTypes'
  <2>1. versions' \in [SitePages -> Seq(VersionRow)]  BY <1>t, <1>1, <1>5
  <2>2. article' \in [SitePages -> Row]  BY <1>t, <1>1, <1>2
  <2> QED  BY <1>1, <2>1, <2>2 DEF HistoryInv, HistoryTypes
<1>7. RowsTell'
  <2> SUFFICES ASSUME NEW p \in SitePages
               PROVE  /\ article'[p].raw = 0 => versions'[p] = <<>> /\ kept'[p] = {} /\ p \notin misdated'
                      /\ article'[p].raw # 0 /\ ~article'[p].fresh /\ ~article'[p].unclean
                         => p \in Illustrated /\ \E i \in DOMAIN versions'[p] : versions'[p][i].run = 0
    BY DEF RowsTell
  <2>1. CASE p \in Ledger!Unclean  BY <2>1, <1>2, <1>3, <1>4, <1>5
  <2>2. CASE p \notin Ledger!Unclean
    <3>1. article'[p] = article[p] /\ versions'[p] = versions[p]  BY <2>2, <1>3
    <3> QED  BY <3>1, <1>1 DEF HistoryInv, RowsTell
  <2> QED  BY <2>1, <2>2
<1>8. ASSUME NEW p \in SitePages PROVE Whole(p)'
  <2>1. CASE p \in Ledger!Unclean
    <3>1. p \in misdated' => p \in Illustrated /\ \E i \in DOMAIN versions'[p] : versions'[p][i].run = 0
      BY <1>1, <1>5, <2>1, WholeIs DEF HistoryInv, Whole
    <3>2. versions'[p] = Append(versions[p], Ledger!Version(article[p].raw, 0, article[p].raw))
      BY <1>3, <2>1 DEF row
    <3>3. article[p].raw \in Nat /\ kept'[p] \subseteq kept[p] \cup {article[p].raw}
      BY <1>t, <1>1 DEF Row
    <3> QED  BY <1>3, <3>1, <3>2, <3>3, PageArchived
  <2>2. CASE p \notin Ledger!Unclean
    BY <1>1, <1>3, <2>2, PageStays
  <2> QED  BY <2>1, <2>2
<1> QED
  BY <1>6, <1>7, <1>8, WholeIs DEF HistoryInv, Ledger!HistoryIsWhole, Whole, Ledger!NoRun

LEMMA HistoryKept == ASSUME HistoryInv, Ledger!Next PROVE HistoryInv'
<1>t. /\ site \in [SitePages -> Nat] /\ claims \in Nat /\ article \in [SitePages -> Row]
  BY DEF HistoryInv, HistoryTypes
<1>1. ASSUME NEW p \in SitePages, NEW new \in 0 .. MaxRaw, Ledger!Edit(p, new)
      PROVE  HistoryInv'
  <2>1. new \in Nat  OBVIOUS
  <2>2. site' \in [SitePages -> Nat]  BY <1>1, <2>1, <1>t DEF Ledger!Edit
  <2> QED  BY <1>1, <1>t, <2>2, RowsMove DEF Ledger!Edit
<1>u. ASSUME UNCHANGED <<site, versions, kept, misdated>>, claims' \in Nat,
             article' = Ledger!Unlinked
      PROVE  HistoryInv'
  <2> DEFINE new(p) == [article[p] EXCEPT !.linked = FALSE]
  <2>1. article' = [p \in SitePages |-> new(p)]  BY <1>u DEF Ledger!Unlinked
  <2>2. \A p \in SitePages : /\ new(p) \in Row /\ new(p).raw = article[p].raw
                             /\ new(p).fresh = article[p].fresh /\ new(p).unclean = article[p].unclean
    BY <1>t DEF Row
  <2> HIDE DEF new
  <2>3. article' \in [SitePages -> Row]  BY <2>1, <2>2
  <2> QED  BY <1>t, <1>u, <2>1, <2>2, <2>3, RowsMove
<1>2. ASSUME NEW r \in Ledger!Runs, NEW kind \in kinds, Ledger!Claim(r, kind) PROVE HistoryInv'
  <2>1. /\ claims' = claims + 1 /\ UNCHANGED <<site, versions, kept, misdated>>
        /\ article' = IF kind = "web" THEN Ledger!Unlinked ELSE article
    BY <1>2 DEF Ledger!Claim
  <2>2. CASE kind = "web"  BY <1>t, <1>u, <2>1, <2>2
  <2>3. CASE kind # "web"  BY <1>t, <2>1, <2>3, RowsMove
  <2> QED  BY <2>2, <2>3
<1>9. ASSUME NEW r \in Ledger!Runs, Ledger!SameFile(r) \/ Ledger!Progress(r) PROVE HistoryInv'
  BY <1>9, <1>t, RowsMove DEF Ledger!SameFile, Ledger!Progress
<1>10. ASSUME NEW r \in Ledger!Runs, Ledger!Persist(r) PROVE HistoryInv'
  BY <1>10, <1>t, <1>u DEF Ledger!Persist
<1>3. ASSUME NEW r \in Ledger!Runs, Ledger!Complete(r) PROVE HistoryInv'
  <2> DEFINE new(p) == IF p \in Ledger!Stored THEN Ledger!Reconciled(r, p) ELSE article[p]
  <2>0. /\ UNCHANGED <<site, claims, versions, kept, misdated>>
        /\ article' = [p \in SitePages |-> new(p)] \/ article' = article
    BY <1>3 DEF Ledger!Complete
  <2> SUFFICES ASSUME article' = [p \in SitePages |-> new(p)] PROVE HistoryInv'
    BY <1>t, <2>0, RowsMove
  <2>1. article' = [p \in SitePages |-> new(p)] /\ UNCHANGED <<site, claims, versions, kept, misdated>>
    BY <2>0
  <2>2. ASSUME NEW p \in SitePages
        PROVE  /\ new(p) \in Row /\ new(p).raw = article[p].raw
               /\ new(p).fresh = article[p].fresh /\ new(p).unclean = article[p].unclean
    <3>1. r \in Nat  BY BoundsAssumption DEF Ledger!Runs
    <3>2. article[p] \in Row  BY <1>t
    <3>3. PICK linked \in BOOLEAN, by \in Nat :
             Ledger!Reconciled(r, p) = [article[p] EXCEPT !.linked = linked, !.removedBy = by]
      <4> DEFINE linked == article[p].linked \/ p \in run[r].toc
                 by == IF linked THEN 0 ELSE IF article[p].removedBy = 0 THEN r
                       ELSE article[p].removedBy
      <4>1. by \in Nat  BY <3>1, <3>2 DEF Row
      <4>2. linked \in BOOLEAN  OBVIOUS
      <4>3. Ledger!Reconciled(r, p) = [article[p] EXCEPT !.linked = linked, !.removedBy = by]
        BY DEF Ledger!Reconciled, Ledger!NoRun
      <4> QED  BY <4>1, <4>2, <4>3
    <3>4. /\ linked \in BOOLEAN /\ by \in Nat
          /\ Ledger!Reconciled(r, p) = [article[p] EXCEPT !.linked = linked, !.removedBy = by]
      BY <3>3
    <3> QED  BY <3>2, <3>4 DEF Row
  <2> HIDE DEF new
  <2>3. article' \in [SitePages -> Row]  BY <2>1, <2>2
  <2> QED  BY <1>t, <2>1, <2>2, <2>3, RowsMove
<1>4. ASSUME NEW r \in Ledger!Runs, Ledger!Stop(r) PROVE HistoryInv'
  BY <1>4, <1>t, RowsMove DEF Ledger!Stop
<1>5. ASSUME NEW r \in Ledger!Runs, NEW p \in SitePages, Ledger!Store(r, p) PROVE HistoryInv'
  BY <1>5, StoreKeeps
<1>6. ASSUME NEW r \in Ledger!Runs, NEW p \in SitePages, Ledger!Skip(r, p) PROVE HistoryInv'
  BY <1>6, <1>t, RowsMove DEF Ledger!Skip
<1>7. ASSUME NEW r \in Ledger!Runs, NEW p \in SitePages, Ledger!Enrich(r, p) PROVE HistoryInv'
  <2> DEFINE new == [article[p] EXCEPT !.captioned = TRUE]
  <2>1. article' = [article EXCEPT ![p] = new] /\ UNCHANGED <<site, claims, versions, kept, misdated>>
    BY <1>7, <1>t DEF Ledger!Enrich
  <2>2. /\ new \in Row /\ new.raw = article[p].raw
        /\ new.fresh = article[p].fresh /\ new.unclean = article[p].unclean
    BY <1>t DEF Row
  <2> HIDE DEF new
  <2>3. article' \in [SitePages -> Row]  BY <1>t, <2>1, <2>2
  <2>4. \A q \in SitePages : article'[q] = IF q = p THEN new ELSE article[q]  BY <1>t, <2>1
  <2> QED  BY <1>t, <2>1, <2>2, <2>3, <2>4, RowsMove
<1>8. ASSUME NEW stale \in SUBSET SitePages, Ledger!Improve(stale) PROVE HistoryInv'
  <2> DEFINE new(p) == [article[p] EXCEPT !.unclean = TRUE, !.fresh = FALSE]
  <2>1. /\ article' = [p \in SitePages |-> IF p \in stale THEN new(p) ELSE article[p]]
        /\ UNCHANGED <<site, claims, versions, kept, misdated>>
    BY <1>8 DEF Ledger!Improve
  <2>2. \A p \in SitePages : new(p) \in Row /\ new(p).raw = article[p].raw /\ new(p).unclean
    BY <1>t DEF Row
  <2> HIDE DEF new
  <2>3. article' \in [SitePages -> Row]  BY <1>t, <2>1, <2>2
  <2> QED  BY <1>t, <2>1, <2>2, <2>3, RowsMove
<1> QED
  BY <1>1, <1>2, <1>3, <1>4, <1>5, <1>6, <1>7, <1>8, <1>9, <1>10, ResanitizeKeeps DEF Ledger!Next

\* No content that was stored is lost and each version leads to what replaced it,
\* over runs that are stopped and resumed and rows that the sanitizer rewrites; a page
\* is dated anew without a change of the vendor only after resanitize, and only with
\* images (process_article_result, resanitize_source, get_version_diff).
THEOREM HistoryStaysWhole == ContentsSpec => []HistoryIsWhole
<1> DEFINE I == part = "history" => HistoryInv
<1>1. ContentsInit => I
  BY HistoryStarts DEF ContentsInit
<1>2. I /\ [ContentsNext]_contentVars => I'
  <2> SUFFICES ASSUME I, [ContentsNext]_contentVars, part' = "history" PROVE HistoryInv'
    OBVIOUS
  <2>1. CASE UNCHANGED contentVars
    <3>1. UNCHANGED historyVars /\ HistoryInv  BY <2>1 DEF contentVars
    <3> QED
      BY <3>1 DEF historyVars, HistoryInv, HistoryTypes, RowsTell, Ledger!HistoryIsWhole,
                  Ledger!Replacing
  <2>2. CASE ContentsNext
    <3>1. Ledger!Next /\ HistoryInv  BY <2>2 DEF ContentsNext
    <3> QED  BY <3>1, HistoryKept
  <2> QED  BY <2>1, <2>2
<1>3. I => HistoryIsWhole
  BY DEF HistoryIsWhole, HistoryInv
<1> QED  BY <1>1, <1>2, <1>3, PTL DEF ContentsSpec
-----------------------------------------------------------------------------
(* The changelog.                                                          *)

RunStates == {"none", "converting", "running", "paused", "completed", "ended"}
Going == {"converting", "running", "paused"}
RunKinds == {"web", "retry_blocked", "pdf", "escalate", "enrich"}
LedgerRun == [state : RunStates, kind : RunKinds \cup {"none"}, started : Nat, persisted : Nat,
              toc : SUBSET SitePages, left : SUBSET SitePages, enriched : SUBSET SitePages,
              extracted : Nat, updated : Nat]
Begun == {r \in Ledger!Runs : run[r].state # "none"}

\* A run is known by the time of its claim; one that goes on was claimed last.
ClaimsFit ==
    /\ \A r \in Begun : run[r].started \in 1 .. claims
    /\ \A q, r \in Begun : run[q].started = run[r].started => q = r
    /\ \A r \in Begun : run[r].state \in Going => run[r].started = claims

\* An article was created by a run that has begun, and since that run was claimed
\* unless one was claimed again.
CreatorsFit ==
    /\ Cardinality(Begun) <= claims
    /\ \A p \in Ledger!Stored :
          /\ article[p].createdBy \in Begun
          /\ article[p].created <= run[article[p].createdBy].started
          /\ Cardinality(Begun) = claims
                => article[p].created = run[article[p].createdBy].started

VersionsFit == \A p \in SitePages : \A i \in DOMAIN versions[p] : versions[p][i].at <= claims

TimesInv == ClaimsFit /\ CreatorsFit /\ VersionsFit

\* What a run created and changed since a time.
CreatedAt(r, t) == {p \in Ledger!Stored : article[p].createdBy = r /\ article[p].created >= t}
ChangesAt(r, t) ==
    {c \in Ledger!Changed : versions[c[1]][c[2]].run = r /\ versions[c[1]][c[2]].at >= t}

\* A PDF run that goes on has persisted since its claim or is converting, and a run of
\* kind enrich has nothing to scrape.
PhaseFits(r) ==
    /\ run[r].kind = "none" <=> run[r].state = "none"
    /\ run[r].persisted <= claims
    /\ run[r].state = "converting"
          => run[r].kind \in Ledger!PdfKinds /\ run[r].persisted # run[r].started
    /\ run[r].state = "running" /\ run[r].kind \in Ledger!PdfKinds => run[r].persisted = run[r].started
    /\ run[r].kind \in {"none", "enrich"}
          => run[r].left = {} /\ CreatedAt(r, 0) = {} /\ ChangesAt(r, 0) = {}

CountersFit(r) ==
    /\ IsFiniteSet(ChangesAt(r, 0))
    /\ run[r].kind \in Ledger!WebKinds \cup {"none"} => run[r].extracted = Cardinality(CreatedAt(r, 0))
    /\ run[r].kind \in Ledger!PdfKinds /\ run[r].persisted = run[r].started
          => run[r].extracted = Cardinality(CreatedAt(r, run[r].started))
    /\ run[r].kind \in Ledger!PdfKinds /\ run[r].persisted # run[r].started
          => CreatedAt(r, run[r].started) = {}
    /\ run[r].kind \in Ledger!WebKinds \cup {"none", "pdf"}
          => run[r].updated = Cardinality(ChangesAt(r, 0))
    /\ run[r].kind = "escalate" => run[r].updated = Cardinality(ChangesAt(r, run[r].started))

Fits(r) == PhaseFits(r) /\ CountersFit(r)

CountInv ==
    /\ run \in [Ledger!Runs -> LedgerRun] /\ kinds \in SUBSET RunKinds
    /\ TimesInv
    /\ \A r \in Ledger!Runs : Fits(r)

LEMMA SameCardinality == \A S : Ledger!Cardinality(S) = Cardinality(S)
BY Zenon DEF Ledger!Cardinality, Cardinality

LEMMA KindsAre == Ledger!WebKinds = {"web", "retry_blocked"} /\ Ledger!PdfKinds = {"pdf", "escalate"}
BY DEF Ledger!WebKinds, Ledger!PdfKinds

LEMMA BegunFinite == \A S \in SUBSET Ledger!Runs : IsFiniteSet(S) /\ Cardinality(S) \in Nat
<1>0. MaxRuns \in Int /\ 1 \in Int  BY BoundsAssumption
<1>1. IsFiniteSet(Ledger!Runs)  BY <1>0, FS_Interval DEF Ledger!Runs
<1> QED  BY <1>1, FS_Subset, FS_CardinalityType

\* Since the start, everything; since later than now, nothing.
LEMMA AllAreSinceStart ==
    ASSUME HistoryInv, NEW r
    PROVE  /\ CreatedAt(r, 0) = Ledger!CreatedBy(r)
           /\ ChangesAt(r, 0) = {c \in Ledger!Changed : versions[c[1]][c[2]].run = r}
<1>1. \A p \in Ledger!Stored : article[p].created >= 0
  BY DEF HistoryInv, HistoryTypes, Ledger!Stored, Row
<1>2. ASSUME NEW c \in Ledger!Changed PROVE versions[c[1]][c[2]].at >= 0
  <2>1. PICK p \in SitePages : \E i \in DOMAIN versions[p] : c = <<p, i>>
    BY DEF Ledger!Changed
  <2>2. PICK i \in DOMAIN versions[p] : c = <<p, i>>  BY <2>1
  <2>3. versions[p] \in Seq(VersionRow)  BY DEF HistoryInv, HistoryTypes
  <2>4. versions[p][i] \in VersionRow  BY <2>2, <2>3
  <2> QED  BY <2>2, <2>4 DEF VersionRow
<1> QED  BY <1>1, <1>2 DEF CreatedAt, ChangesAt, Ledger!CreatedBy

LEMMA ChangesAre ==
    \A r, t, c : c \in ChangesAt(r, t) <=>
        \E p \in SitePages : \E i \in DOMAIN versions[p] :
            c = <<p, i>> /\ versions[p][i].run = r /\ versions[p][i].at >= t
<1>1. \A c : c \in Ledger!Changed <=> \E p \in SitePages : \E i \in DOMAIN versions[p] : c = <<p, i>>
  BY DEF Ledger!Changed
<1> QED  BY <1>1 DEF ChangesAt

LEMMA CountStarts == Ledger!Init => CountInv
<1> SUFFICES ASSUME Ledger!Init PROVE CountInv  OBVIOUS
<1>1. /\ claims = 0 /\ article = [p \in SitePages |-> Ledger!NoArticle]
      /\ versions = [p \in SitePages |-> <<>>] /\ run = [r \in Ledger!Runs |-> Ledger!Queued]
      /\ kinds \in SUBSET RunKinds
  BY KindsAre DEF Ledger!Init, RunKinds
<1>2. /\ Ledger!Queued \in LedgerRun /\ Ledger!Queued.state = "none" /\ Ledger!Queued.kind = "none"
      /\ Ledger!Queued.extracted = 0 /\ Ledger!Queued.updated = 0
      /\ Ledger!Queued.persisted = 0 /\ Ledger!Queued.left = {}
  BY DEF Ledger!Queued, LedgerRun, RunStates
<1>3. Begun = {} /\ Ledger!Stored = {} /\ \A r, t : CreatedAt(r, t) = {}
  BY <1>1, <1>2, NoArticleIs DEF Begun, Ledger!Stored, CreatedAt
<1>4. \A p \in SitePages : DOMAIN versions[p] = {}  BY <1>1
<1>5. \A r, t : ChangesAt(r, t) = {}
  <2>1. Ledger!Changed = {}  BY <1>4 DEF Ledger!Changed
  <2> QED  BY <2>1 DEF ChangesAt
<1>6. TimesInv
  <2>1. ClaimsFit /\ VersionsFit  BY <1>3, <1>4 DEF ClaimsFit, VersionsFit
  <2>2. CreatorsFit  BY <1>1, <1>3, FS_EmptySet DEF CreatorsFit
  <2> QED  BY <2>1, <2>2 DEF TimesInv
<1>7. ASSUME NEW r \in Ledger!Runs PROVE Fits(r)
  <2>1. run[r] = Ledger!Queued  BY <1>1
  <2>2. PhaseFits(r)  BY <1>1, <1>2, <1>3, <1>5, <2>1, KindsAre DEF PhaseFits
  <2>3. CountersFit(r)  BY <1>2, <1>3, <1>5, <2>1, FS_EmptySet, KindsAre DEF CountersFit
  <2> QED  BY <2>2, <2>3 DEF Fits
<1> QED  BY <1>1, <1>2, <1>6, <1>7 DEF CountInv

\* A step that creates nothing and claims nothing keeps the times.
LEMMA TimesStay ==
    ASSUME HistoryInv, TimesInv, claims' = claims, VersionsFit',
           \A p \in SitePages : /\ article'[p].raw = 0 <=> article[p].raw = 0
                                /\ article'[p].createdBy = article[p].createdBy
                                /\ article'[p].created = article[p].created,
           \A r \in Ledger!Runs : /\ run'[r].started = run[r].started
                                  /\ run'[r].state = "none" <=> run[r].state = "none"
                                  /\ run'[r].state \in Going => run[r].state \in Going
    PROVE  TimesInv' /\ \A r, t : CreatedAt(r, t)' = CreatedAt(r, t)
<1>1. Begun' = Begun /\ Ledger!Stored' = Ledger!Stored
  BY DEF Begun, Ledger!Stored
<1>2. Begun \subseteq Ledger!Runs /\ Ledger!Stored \subseteq SitePages
  BY DEF Begun, Ledger!Stored
<1>3. ClaimsFit'  BY <1>1, <1>2 DEF TimesInv, ClaimsFit
<1>4. CreatorsFit'  BY <1>1, <1>2 DEF TimesInv, CreatorsFit
<1>5. \A r, t : CreatedAt(r, t)' = CreatedAt(r, t)
  BY <1>1, <1>2 DEF CreatedAt
<1> QED  BY <1>3, <1>4, <1>5 DEF TimesInv

\* A run keeps its times and what it did; its counter is overwritten only by a
\* conversion or by a run of kind enrich.
LEMMA FitStays ==
    ASSUME NEW r \in Ledger!Runs, Fits(r), run[r] \in LedgerRun, claims \in Nat, claims' \in Nat,
           claims <= claims',
           \A t : CreatedAt(r, t)' = CreatedAt(r, t),
           \A t : ChangesAt(r, t)' = ChangesAt(r, t),
           run'[r].started = run[r].started, run'[r].persisted = run[r].persisted,
           run'[r].kind = run[r].kind, run'[r].left \subseteq run[r].left,
           run'[r].state = "none" <=> run[r].state = "none",
           run'[r].state \in {"converting", "running"} => run'[r].state = run[r].state,
           \/ run'[r].extracted = run[r].extracted /\ run'[r].updated = run[r].updated
           \/ run[r].kind = "enrich"
           \/ run'[r].updated = run[r].updated /\ run[r].state = "converting"
    PROVE  Fits(r)'
<1>1. PhaseFits(r) /\ CountersFit(r)  BY DEF Fits
<1>2. /\ CreatedAt(r, run[r].started)' = CreatedAt(r, run[r].started)
      /\ ChangesAt(r, run[r].started)' = ChangesAt(r, run[r].started)
      /\ CreatedAt(r, 0)' = CreatedAt(r, 0) /\ ChangesAt(r, 0)' = ChangesAt(r, 0)
  OBVIOUS
<1>3. PhaseFits(r)'
  BY <1>1, <1>2 DEF PhaseFits, LedgerRun
<1>4. CountersFit(r)'
  BY <1>1, <1>2, KindsAre DEF PhaseFits, CountersFit
<1> QED  BY <1>3, <1>4 DEF Fits

\* A step that creates nothing and claims nothing, and archives for no run.
LEMMA CountsStay ==
    ASSUME HistoryInv, CountInv, claims' = claims, kinds' = kinds,
           run' \in [Ledger!Runs -> LedgerRun], VersionsFit',
           \A p \in SitePages : /\ article'[p].raw = 0 <=> article[p].raw = 0
                                /\ article'[p].createdBy = article[p].createdBy
                                /\ article'[p].created = article[p].created,
           \A r \in Ledger!Runs :
               /\ run'[r].started = run[r].started /\ run'[r].persisted = run[r].persisted
               /\ run'[r].kind = run[r].kind /\ run'[r].left \subseteq run[r].left
               /\ run'[r].state = "none" <=> run[r].state = "none"
               /\ run'[r].state \in {"converting", "running"} => run'[r].state = run[r].state
               /\ run'[r].state = "paused" => run[r].state \in Going
               /\ \/ run'[r].extracted = run[r].extracted /\ run'[r].updated = run[r].updated
                  \/ run[r].kind = "enrich"
                  \/ run'[r].updated = run[r].updated /\ run[r].state = "converting"
               /\ \A t : ChangesAt(r, t)' = ChangesAt(r, t)
    PROVE  CountInv'
<1>1. \A r \in Ledger!Runs : run'[r].state \in Going => run[r].state \in Going
  BY DEF Going
<1>2. TimesInv' /\ \A r, t : CreatedAt(r, t)' = CreatedAt(r, t)
  BY <1>1, TimesStay DEF CountInv
<1>3. ASSUME NEW r \in Ledger!Runs PROVE Fits(r)'
  <2>1. Fits(r) /\ run[r] \in LedgerRun /\ claims \in Nat
    BY DEF CountInv, HistoryInv, HistoryTypes
  <2>2. claims' \in Nat /\ claims <= claims'  BY <2>1
  <2>3. /\ \A t : CreatedAt(r, t)' = CreatedAt(r, t)
        /\ \A t : ChangesAt(r, t)' = ChangesAt(r, t)
    BY <1>2
  <2> QED  BY <2>1, <2>2, <2>3, FitStays
<1> QED  BY <1>2, <1>3 DEF CountInv

\* The record of a run that is claimed.
LEMMA StartsAre ==
    ASSUME HistoryInv, CountInv, NEW r \in Ledger!Runs, NEW kind \in RunKinds,
           NEW start \in Ledger!Starts(r, kind)
    PROVE  /\ start \in LedgerRun /\ start.kind = kind /\ start.started = claims + 1
           /\ start.persisted = run[r].persisted
           /\ start.state = IF kind \in Ledger!PdfKinds THEN "converting" ELSE "running"
           /\ kind = "escalate" => start.extracted = 0 /\ start.updated = 0
           /\ kind # "escalate" => start.extracted = run[r].extracted /\ start.updated = run[r].updated
           /\ kind = "enrich" => start.left = run[r].left
<1> DEFINE claimed == [run[r] EXCEPT !.kind = kind, !.started = claims + 1, !.state = "running"]
           lefts == {Ledger!OnSite, Ledger!OnSite \ (run[r].toc \ run[r].left)}
<1>1. /\ claimed \in LedgerRun /\ claimed.kind = kind /\ claimed.started = claims + 1
      /\ claimed.state = "running" /\ claimed.persisted = run[r].persisted
      /\ claimed.extracted = run[r].extracted /\ claimed.updated = run[r].updated
      /\ claimed.left = run[r].left
  <2>1. run[r] \in LedgerRun /\ claims + 1 \in Nat
    BY DEF CountInv, HistoryInv, HistoryTypes
  <2> QED  BY <2>1 DEF LedgerRun, RunStates
<1>2. Ledger!OnSite \in SUBSET SitePages /\ lefts \subseteq SUBSET SitePages
  BY DEF Ledger!OnSite
<1>3. CASE kind = "web"
  <2>1. Ledger!Starts(r, kind) = {[claimed EXCEPT !.toc = Ledger!OnSite, !.left = left] : left \in lefts}
    BY <1>3 DEF Ledger!Starts
  <2> HIDE DEF claimed
  <2>2. PICK left \in lefts : start = [claimed EXCEPT !.toc = Ledger!OnSite, !.left = left]
    BY <2>1
  <2>3. left \in SUBSET SitePages  BY <1>2
  <2> QED  BY <1>1, <1>2, <1>3, <2>2, <2>3, KindsAre DEF LedgerRun
<1>4. CASE kind = "retry_blocked"
  <2>1. Ledger!Starts(r, kind) = {[claimed EXCEPT !.left = left] : left \in SUBSET Ledger!OnSite}
    BY <1>4 DEF Ledger!Starts
  <2> HIDE DEF claimed
  <2>2. PICK left \in SUBSET Ledger!OnSite : start = [claimed EXCEPT !.left = left]
    BY <2>1
  <2>3. left \in SUBSET SitePages  BY <1>2
  <2> QED  BY <1>1, <1>4, <2>2, <2>3, KindsAre DEF LedgerRun
<1>5. CASE kind = "pdf"
  <2>1. start = [claimed EXCEPT !.state = "converting"]
    BY <1>5 DEF Ledger!Starts
  <2> HIDE DEF claimed
  <2> QED  BY <1>1, <1>5, <2>1, KindsAre DEF LedgerRun, RunStates
<1>6. CASE kind = "escalate"
  <2>1. start = [claimed EXCEPT !.state = "converting", !.extracted = 0, !.updated = 0]
    BY <1>6 DEF Ledger!Starts
  <2> HIDE DEF claimed
  <2> QED  BY <1>1, <1>6, <2>1, KindsAre DEF LedgerRun, RunStates
<1>7. CASE kind = "enrich"
  <2>1. start = claimed  BY <1>7 DEF Ledger!Starts
  <2> QED  BY <1>1, <1>7, <2>1, KindsAre
<1> QED  BY <1>3, <1>4, <1>5, <1>6, <1>7 DEF RunKinds

LEMMA ClaimCounts ==
    ASSUME HistoryInv, CountInv, NEW r \in Ledger!Runs, NEW kind \in kinds, Ledger!Claim(r, kind)
    PROVE  CountInv'
<1>t. /\ run \in [Ledger!Runs -> LedgerRun] /\ claims \in Nat /\ article \in [SitePages -> Row]
      /\ kind \in RunKinds /\ TimesInv
  BY DEF CountInv, HistoryInv, HistoryTypes
<1>1. PICK new \in Ledger!Starts(r, kind) : run' = [run EXCEPT ![r] = new]
  BY DEF Ledger!Claim
<1>2. /\ new \in LedgerRun /\ new.kind = kind /\ new.started = claims + 1
      /\ new.persisted = run[r].persisted
      /\ new.state = IF kind \in Ledger!PdfKinds THEN "converting" ELSE "running"
      /\ kind = "escalate" => new.extracted = 0 /\ new.updated = 0
      /\ kind # "escalate" => new.extracted = run[r].extracted /\ new.updated = run[r].updated
      /\ kind = "enrich" => new.left = run[r].left
  BY <1>t, StartsAre
<1>3. new.state # "none" /\ new.state \in Going  BY <1>2 DEF Going
<1>4. run' \in [Ledger!Runs -> LedgerRun] /\ \A q \in Ledger!Runs : run'[q] = IF q = r THEN new ELSE run[q]
  BY <1>t, <1>1, <1>2
<1>5. claims' = claims + 1 /\ versions' = versions /\ kinds' = kinds
  BY DEF Ledger!Claim
<1>6. \A p \in SitePages : /\ article'[p].raw = article[p].raw
                           /\ article'[p].createdBy = article[p].createdBy
                           /\ article'[p].created = article[p].created
  <2>1. CASE kind = "web"
    <3>1. article' = [p \in SitePages |-> [article[p] EXCEPT !.linked = FALSE]]
      BY <2>1 DEF Ledger!Claim, Ledger!Unlinked
    <3> QED  BY <1>t, <3>1 DEF Row
  <2>2. CASE kind # "web"  BY <2>2 DEF Ledger!Claim
  <2> QED  BY <2>1, <2>2
<1>7. Ledger!Stored' = Ledger!Stored /\ \A q, t : CreatedAt(q, t)' = CreatedAt(q, t)
  BY <1>6 DEF Ledger!Stored, CreatedAt
<1>8. \A q, t : ChangesAt(q, t)' = ChangesAt(q, t)  BY <1>5 DEF ChangesAt, Ledger!Changed
<1>9. Begun' = Begun \cup {r} /\ Begun \subseteq Ledger!Runs
  BY <1>3, <1>4 DEF Begun
<1>11. \A q \in Begun : run[q].started \in 1 .. claims  BY <1>t DEF TimesInv, ClaimsFit
<1>0. \/ run[r].state = "none" /\ run[r].kind = "none" /\ Ledger!Active = {}
      \/ run[r].state = "paused" /\ run[r].kind = kind
  <2>1. Fits(r)  BY DEF CountInv
  <2> QED  BY <2>1 DEF Ledger!Claim, Ledger!CanBegin, Fits, PhaseFits
<1>12. \A q \in Begun : q # r => run[q].state \notin Going
  <2>1. CASE run[r].state = "none" /\ Ledger!Active = {}
    BY <2>1, <1>9 DEF Ledger!Active, Going
  <2>2. CASE run[r].state = "paused"
    <3>1. r \in Begun /\ run[r].state \in Going  BY <2>2 DEF Begun, Going
    <3> QED  BY <1>t, <3>1 DEF TimesInv, ClaimsFit
  <2> QED  BY <1>0, <2>1, <2>2
<1>13. ClaimsFit'
  <2>1. \A q \in Begun' : run'[q].started \in 1 .. claims'
    BY <1>t, <1>2, <1>4, <1>5, <1>9, <1>11
  <2>2. ASSUME NEW p \in Begun', NEW q \in Begun', run'[p].started = run'[q].started
        PROVE  p = q
    <3>1. \A s \in Begun : run[s].started # claims + 1  BY <1>t, <1>11
    <3>2. \A s \in Begun' : s # r => s \in Begun /\ run'[s] = run[s]  BY <1>4, <1>9
    <3>3. CASE p # r /\ q # r
      BY <1>t, <2>2, <3>2, <3>3 DEF TimesInv, ClaimsFit
    <3>4. CASE p = r \/ q = r
      BY <2>2, <3>1, <3>2, <3>4, <1>2, <1>4
    <3> QED  BY <3>3, <3>4
  <2>3. \A q \in Begun' : run'[q].state \in Going => run'[q].started = claims'
    BY <1>2, <1>4, <1>5, <1>9, <1>12
  <2> QED  BY <2>1, <2>2, <2>3 DEF ClaimsFit
<1>14. CreatorsFit'
  <2>0. CreatorsFit /\ Cardinality(Begun) \in Nat  BY <1>9, <1>t, BegunFinite DEF TimesInv
  <2>1. CASE r \notin Begun
    <3>1. Cardinality(Begun') = Cardinality(Begun) + 1
      BY <1>9, <2>1, BegunFinite, FS_AddElement
    <3>2. \A p \in Ledger!Stored : article[p].createdBy # r /\ article[p].createdBy \in Begun
      BY <2>0, <2>1 DEF CreatorsFit
    <3>3. Cardinality(Begun') <= claims' /\ (Cardinality(Begun') = claims' => Cardinality(Begun) = claims)
      BY <1>t, <1>5, <2>0, <3>1 DEF CreatorsFit
    <3>4. \A p \in Ledger!Stored : p \in SitePages  BY DEF Ledger!Stored
    <3>5. \A q \in Begun : q # r => run'[q] = run[q]  BY <1>4, <1>9
    <3>6. ASSUME NEW p \in Ledger!Stored
          PROVE  /\ article'[p].createdBy \in Begun'
                 /\ article'[p].created <= run'[article'[p].createdBy].started
                 /\ Cardinality(Begun') = claims'
                       => article'[p].created = run'[article'[p].createdBy].started
      <4>1. article'[p].createdBy = article[p].createdBy /\ article'[p].created = article[p].created
        BY <1>6, <3>4
      <4>2. run'[article[p].createdBy] = run[article[p].createdBy]  BY <3>2, <3>5
      <4> QED  BY <1>9, <2>0, <3>2, <3>3, <4>1, <4>2 DEF CreatorsFit
    <3> QED  BY <1>7, <3>3, <3>6 DEF CreatorsFit
  <2>2. CASE r \in Begun
    <3>1. Begun' = Begun  BY <1>9, <2>2
    <3>2. Cardinality(Begun') <= claims' /\ Cardinality(Begun') # claims'
      BY <1>t, <1>5, <2>0, <3>1 DEF CreatorsFit
    <3>3. ASSUME NEW p \in Ledger!Stored
          PROVE  /\ article'[p].createdBy \in Begun'
                 /\ article'[p].created <= run'[article'[p].createdBy].started
      <4> DEFINE q == article[p].createdBy
      <4>1. p \in SitePages /\ q \in Begun /\ article[p].created <= run[q].started
        BY <2>0 DEF CreatorsFit, Ledger!Stored
      <4>2. run[q].started \in 1 .. claims /\ article[p].created \in Nat
        BY <1>t, <1>11, <4>1 DEF Row
      <4>3. run'[q].started = IF q = r THEN claims + 1 ELSE run[q].started
        BY <1>2, <1>4, <1>9, <4>1
      <4> QED  BY <1>t, <1>6, <3>1, <4>1, <4>2, <4>3
    <3> QED  BY <1>7, <3>1, <3>2, <3>3 DEF CreatorsFit
  <2> QED  BY <2>1, <2>2
<1>15. VersionsFit'
  <2>1. \A p \in SitePages : \A i \in DOMAIN versions[p] : versions[p][i].at <= claims
                                                           /\ versions[p][i].at \in Nat
    <3>1. ASSUME NEW p \in SitePages, NEW i \in DOMAIN versions[p] PROVE versions[p][i].at \in Nat
      <4>1. versions[p] \in Seq(VersionRow)  BY DEF HistoryInv, HistoryTypes
      <4>2. versions[p][i] \in VersionRow  BY <4>1
      <4> QED  BY <4>2 DEF VersionRow
    <3> QED  BY <1>t, <3>1 DEF TimesInv, VersionsFit
  <2> QED  BY <1>t, <1>5, <2>1 DEF VersionsFit
<1>n. PICK at \in Nat : at = claims + 1  BY <1>t
<1>16. CreatedAt(r, at) = {} /\ ChangesAt(r, at) = {}
  <2>1. ASSUME NEW p \in Ledger!Stored PROVE ~(article[p].created >= at)
    <3>1. p \in SitePages /\ article[p].createdBy \in Begun
          /\ article[p].created <= run[article[p].createdBy].started
      BY <1>t DEF TimesInv, CreatorsFit, Ledger!Stored
    <3>2. run[article[p].createdBy].started \in 1 .. claims /\ article[p].created \in Nat
      BY <1>t, <1>11, <3>1 DEF Row
    <3> QED  BY <1>t, <1>n, <3>1, <3>2
  <2>2. ASSUME NEW c \in ChangesAt(r, at) PROVE FALSE
    <3>1. PICK p \in SitePages : \E i \in DOMAIN versions[p] :
             c = <<p, i>> /\ versions[p][i].run = r /\ versions[p][i].at >= at
      BY ChangesAre
    <3>2. PICK i \in DOMAIN versions[p] : versions[p][i].at >= at  BY <3>1
    <3>3. versions[p] \in Seq(VersionRow)  BY DEF HistoryInv, HistoryTypes
    <3>4. versions[p][i] \in VersionRow  BY <3>3
    <3>5. versions[p][i].at \in Nat  BY <3>4 DEF VersionRow
    <3> QED  BY <1>t, <1>n, <3>2, <3>5 DEF TimesInv, VersionsFit
  <2> QED  BY <2>1, <2>2 DEF CreatedAt
<1>17. ASSUME NEW q \in Ledger!Runs PROVE Fits(q)'
  <2>1. Fits(q) /\ run[q] \in LedgerRun  BY <1>t DEF CountInv
  <2>2. CASE q # r
    <3>1. run'[q] = run[q] /\ claims' \in Nat /\ claims <= claims'  BY <1>t, <1>4, <1>5, <2>2
    <3>2. /\ \A t : CreatedAt(q, t)' = CreatedAt(q, t)
          /\ \A t : ChangesAt(q, t)' = ChangesAt(q, t)
      BY <1>7, <1>8
    <3> QED  BY <1>t, <2>1, <3>1, <3>2, FitStays
  <2>3. CASE q = r
    <3>1. run'[r] = new /\ PhaseFits(r) /\ CountersFit(r) /\ run[r].persisted \in Nat
      BY <1>4, <2>1, <2>3 DEF Fits, LedgerRun
    <3>2. /\ CreatedAt(r, 0)' = CreatedAt(r, 0) /\ ChangesAt(r, 0)' = ChangesAt(r, 0)
          /\ CreatedAt(r, run[r].started)' = {} /\ ChangesAt(r, run[r].started)' = {}
      BY <1>2, <1>7, <1>8, <1>n, <1>16, <3>1
    <3>3. new.persisted # new.started /\ new.persisted <= claims'
      BY <1>t, <1>2, <1>5, <3>1 DEF PhaseFits
    <3>4. PhaseFits(r)'
      BY <1>0, <1>2, <1>t, <3>1, <3>2, <3>3, KindsAre DEF PhaseFits, RunKinds
    <3>5. CountersFit(r)'
      BY <1>0, <1>2, <1>t, <3>1, <3>2, <3>3, FS_EmptySet, KindsAre DEF CountersFit, RunKinds
    <3> QED  BY <2>3, <3>4, <3>5 DEF Fits
  <2> QED  BY <2>2, <2>3
<1> QED  BY <1>4, <1>5, <1>13, <1>14, <1>15, <1>17 DEF CountInv, TimesInv

LEMMA PersistCounts ==
    ASSUME HistoryInv, CountInv, NEW r \in Ledger!Runs, Ledger!Persist(r)
    PROVE  CountInv'
<1>t. /\ run \in [Ledger!Runs -> LedgerRun] /\ claims \in Nat /\ article \in [SitePages -> Row]
      /\ TimesInv
  BY DEF CountInv, HistoryInv, HistoryTypes
<1> DEFINE new == [run[r] EXCEPT !.state = "running", !.persisted = run[r].started,
                                 !.toc = Ledger!OnSite, !.left = Ledger!OnSite, !.extracted = 0]
<1>1. /\ run' = [run EXCEPT ![r] = new] /\ run[r].state = "converting"
      /\ article' = [p \in SitePages |-> [article[p] EXCEPT !.linked = FALSE]]
      /\ UNCHANGED <<kinds, versions, claims>>
  BY DEF Ledger!Persist, Ledger!Unlinked
<1>2. /\ new \in LedgerRun /\ new.state = "running" /\ new.persisted = run[r].started
      /\ new.kind = run[r].kind /\ new.started = run[r].started
      /\ new.extracted = 0 /\ new.updated = run[r].updated
  <2>1. run[r] \in LedgerRun /\ Ledger!OnSite \in SUBSET SitePages
    BY <1>t DEF Ledger!OnSite
  <2> QED  BY <2>1 DEF LedgerRun, RunStates
<1> HIDE DEF new
<1>3. run' \in [Ledger!Runs -> LedgerRun] /\ \A q \in Ledger!Runs : run'[q] = IF q = r THEN new ELSE run[q]
  BY <1>t, <1>1, <1>2
<1>4. \A p \in SitePages : /\ article'[p].raw = article[p].raw
                           /\ article'[p].createdBy = article[p].createdBy
                           /\ article'[p].created = article[p].created
  BY <1>t, <1>1 DEF Row
<1>5. VersionsFit'  BY <1>t, <1>1 DEF TimesInv, VersionsFit
<1>6. \A q, t : ChangesAt(q, t)' = ChangesAt(q, t)  BY <1>1 DEF ChangesAt, Ledger!Changed
<1>7. TimesInv' /\ \A q, t : CreatedAt(q, t)' = CreatedAt(q, t)
  BY <1>t, <1>1, <1>2, <1>3, <1>4, <1>5, TimesStay DEF Going
<1>8. ASSUME NEW q \in Ledger!Runs PROVE Fits(q)'
  <2>1. Fits(q) /\ run[q] \in LedgerRun  BY <1>t DEF CountInv
  <2>2. CASE q # r
    <3>1. run'[q] = run[q] /\ claims' \in Nat /\ claims <= claims'  BY <1>t, <1>1, <1>3, <2>2
    <3>2. /\ \A t : CreatedAt(q, t)' = CreatedAt(q, t)
          /\ \A t : ChangesAt(q, t)' = ChangesAt(q, t)
      BY <1>6, <1>7
    <3> QED  BY <1>t, <2>1, <3>1, <3>2, FitStays
  <2>3. CASE q = r
    <3>1. run'[r] = new /\ PhaseFits(r) /\ CountersFit(r)  BY <1>3, <2>1, <2>3 DEF Fits
    <3>2. run[r].kind \in Ledger!PdfKinds /\ run[r].persisted # run[r].started
      BY <1>1, <3>1 DEF PhaseFits
    <3>3. r \in Begun /\ run[r].started \in 1 .. claims
      BY <1>t, <1>1 DEF Begun, TimesInv, ClaimsFit
    <3>4. /\ CreatedAt(r, 0)' = CreatedAt(r, 0) /\ ChangesAt(r, 0)' = ChangesAt(r, 0)
          /\ CreatedAt(r, run[r].started)' = {}
          /\ ChangesAt(r, run[r].started)' = ChangesAt(r, run[r].started)
      BY <1>2, <1>6, <1>7, <3>1, <3>2 DEF CountersFit
    <3>5. PhaseFits(r)'
      BY <1>t, <1>1, <1>2, <3>1, <3>2, <3>3, KindsAre DEF PhaseFits
    <3>6. CountersFit(r)'
      BY <1>2, <3>1, <3>2, <3>4, FS_EmptySet, KindsAre DEF CountersFit
    <3> QED  BY <2>3, <3>5, <3>6 DEF Fits
  <2> QED  BY <2>2, <2>3
<1> QED  BY <1>1, <1>3, <1>7, <1>8 DEF CountInv

\* What a page archives for others is no change of this run.
LEMMA ChangesStay ==
    ASSUME HistoryInv, NEW r, NEW t,
           \A p \in SitePages :
               \/ versions'[p] = versions[p]
               \/ \E row \in VersionRow : row.run # r /\ versions'[p] = Append(versions[p], row)
    PROVE  ChangesAt(r, t)' = ChangesAt(r, t)
<1> DEFINE own(v) == v.run = r /\ v.at >= t
<1>1. \A p \in SitePages : versions[p] \in Seq(VersionRow)
  BY DEF HistoryInv, HistoryTypes
<1>2. ASSUME NEW p \in SitePages, NEW i
      PROVE  i \in DOMAIN versions'[p] /\ own(versions'[p][i]) <=> i \in DOMAIN versions[p] /\ own(versions[p][i])
  <2>1. CASE versions'[p] = versions[p]  BY <2>1
  <2>2. ASSUME NEW row \in VersionRow, row.run # r, versions'[p] = Append(versions[p], row)
        PROVE  i \in DOMAIN versions'[p] /\ own(versions'[p][i])
                  <=> i \in DOMAIN versions[p] /\ own(versions[p][i])
    <3>1. versions[p] \in Seq(VersionRow)  BY <1>1
    <3>2. /\ Len(versions[p]) \in Nat /\ DOMAIN versions[p] = 1 .. Len(versions[p])
          /\ DOMAIN versions'[p] = 1 .. Len(versions[p]) + 1
          /\ versions'[p][Len(versions[p]) + 1] = row
          /\ \A k \in 1 .. Len(versions[p]) : versions'[p][k] = versions[p][k]
      BY <2>2, <3>1
    <3>3. ~own(row)  BY <2>2
    <3> QED  BY <3>2, <3>3
  <2> QED  BY <2>1, <2>2
<1>3. \A c : c \in ChangesAt(r, t)' <=>
          \E p \in SitePages : \E i \in DOMAIN versions'[p] : c = <<p, i>> /\ own(versions'[p][i])
  <2>1. \A c : c \in Ledger!Changed' <=> \E p \in SitePages : \E i \in DOMAIN versions'[p] : c = <<p, i>>
    BY DEF Ledger!Changed
  <2> QED  BY <2>1 DEF ChangesAt
<1>4. \A c : c \in ChangesAt(r, t) <=>
          \E p \in SitePages : \E i \in DOMAIN versions[p] : c = <<p, i>> /\ own(versions[p][i])
  BY ChangesAre
<1> HIDE DEF own
<1> QED  BY <1>2, <1>3, <1>4

\* What a page archives for this run is one change more.
LEMMA ChangesGrow ==
    ASSUME HistoryInv, NEW p \in SitePages, NEW r, NEW t, NEW row \in VersionRow,
           row.run = r, row.at >= t,
           versions' = [versions EXCEPT ![p] = Append(versions[p], row)],
           IsFiniteSet(ChangesAt(r, t))
    PROVE  /\ IsFiniteSet(ChangesAt(r, t)')
           /\ Cardinality(ChangesAt(r, t)') = Cardinality(ChangesAt(r, t)) + 1
<1> DEFINE new == <<p, Len(versions[p]) + 1>>
           own(v) == v.run = r /\ v.at >= t
<1>1. versions \in [SitePages -> Seq(VersionRow)] /\ versions[p] \in Seq(VersionRow)
  BY DEF HistoryInv, HistoryTypes
<1>2. /\ Len(versions[p]) \in Nat /\ DOMAIN versions[p] = 1 .. Len(versions[p])
      /\ DOMAIN versions'[p] = 1 .. Len(versions[p]) + 1
      /\ versions'[p][Len(versions[p]) + 1] = row
      /\ \A k \in 1 .. Len(versions[p]) : versions'[p][k] = versions[p][k]
      /\ \A q \in SitePages : q # p => versions'[q] = versions[q]
  BY <1>1
<1>3. \A c : c \in ChangesAt(r, t)' <=>
          \E q \in SitePages : \E i \in DOMAIN versions'[q] : c = <<q, i>> /\ own(versions'[q][i])
  <2>1. \A c : c \in Ledger!Changed' <=> \E q \in SitePages : \E i \in DOMAIN versions'[q] : c = <<q, i>>
    BY DEF Ledger!Changed
  <2> QED  BY <2>1 DEF ChangesAt
<1>6. \A c : c \in ChangesAt(r, t) <=>
          \E q \in SitePages : \E i \in DOMAIN versions[q] : c = <<q, i>> /\ own(versions[q][i])
  BY ChangesAre
<1>7. own(row)  OBVIOUS
<1> HIDE DEF own
<1>4. new \notin ChangesAt(r, t)
  <2>1. \A q \in SitePages : \A i \in DOMAIN versions[q] : new # <<q, i>>
    BY <1>2
  <2> QED  BY <2>1, <1>6
<1>5. ChangesAt(r, t)' = ChangesAt(r, t) \cup {new}
  <2>1. ASSUME NEW c \in ChangesAt(r, t)', c # new PROVE c \in ChangesAt(r, t)
    <3>0. PICK q \in SitePages : \E i \in DOMAIN versions'[q] : c = <<q, i>> /\ own(versions'[q][i])
      BY <1>3
    <3>1. PICK i \in DOMAIN versions'[q] : c = <<q, i>> /\ own(versions'[q][i])
      BY <3>0
    <3>2. i \in DOMAIN versions[q] /\ versions[q][i] = versions'[q][i]
      BY <1>2, <2>1, <3>1
    <3> QED  BY <3>1, <3>2, <1>6
  <2>2. ASSUME NEW c \in ChangesAt(r, t) PROVE c \in ChangesAt(r, t)'
    <3>0. PICK q \in SitePages : \E i \in DOMAIN versions[q] : c = <<q, i>> /\ own(versions[q][i])
      BY <1>6
    <3>1. PICK i \in DOMAIN versions[q] : c = <<q, i>> /\ own(versions[q][i])
      BY <3>0
    <3>2. i \in DOMAIN versions'[q] /\ versions'[q][i] = versions[q][i]
      BY <1>2, <3>1
    <3> QED  BY <1>3, <3>1, <3>2
  <2>3. new \in ChangesAt(r, t)'
    <3>1. Len(versions[p]) + 1 \in DOMAIN versions'[p] /\ own(versions'[p][Len(versions[p]) + 1])
      BY <1>2, <1>7
    <3> QED  BY <1>3, <3>1
  <2> QED  BY <2>1, <2>2, <2>3
<1> HIDE DEF new
<1>8. /\ IsFiniteSet(ChangesAt(r, t) \cup {new})
      /\ Cardinality(ChangesAt(r, t) \cup {new}) = Cardinality(ChangesAt(r, t)) + 1
  BY <1>4, FS_AddElement
<1> QED  BY <1>5, <1>8

\* The runs after one of them changed, and nothing but its counters and its pages left.
LEMMA StoreCounts ==
    ASSUME HistoryInv, CountInv, NEW r \in Ledger!Runs, NEW p \in SitePages, Ledger!Store(r, p)
    PROVE  CountInv'
<1> DEFINE now == site[p]
           a == article[p]
<1>t. /\ run \in [Ledger!Runs -> LedgerRun] /\ claims \in Nat /\ article \in [SitePages -> Row]
      /\ versions \in [SitePages -> Seq(VersionRow)] /\ now \in Nat /\ TimesInv
  BY DEF CountInv, HistoryInv, HistoryTypes
<1>1. /\ run[r].state = "running" /\ r \in Begun /\ now # 0 /\ claims' = claims /\ kinds' = kinds
      /\ run[r] \in LedgerRun /\ a \in Row /\ r \in Nat \ {0} /\ p \in run[r].left
  BY <1>t, BoundsAssumption DEF Ledger!Store, Begun, Ledger!Runs
<1>n. PICK at \in Nat : at = claims  BY <1>t
<1>0. /\ Fits(r) /\ PhaseFits(r) /\ CountersFit(r) /\ run[r].started = at
      /\ run[r].kind \notin {"none", "enrich"}
      /\ run[r].kind \in Ledger!PdfKinds => run[r].persisted = run[r].started
  <2>1. Fits(r)  BY DEF CountInv
  <2>2. PhaseFits(r) /\ CountersFit(r)  BY <2>1 DEF Fits
  <2>3. run[r].started = at  BY <1>1, <1>t, <1>n DEF TimesInv, ClaimsFit, Going
  <2> QED  BY <1>1, <2>1, <2>2, <2>3 DEF PhaseFits
<1>2. CASE /\ a.raw = 0
           /\ article' = [article EXCEPT ![p] = Ledger!Created(r, now)]
           /\ run' = [run EXCEPT ![r].left = @ \ {p}, ![r].extracted = @ + 1]
           /\ UNCHANGED <<versions, misdated>>
  <2> DEFINE new == Ledger!Created(r, now)
             row == [run[r] EXCEPT !.left = @ \ {p}, !.extracted = @ + 1]
  <2>1. new.raw = now /\ new.createdBy = r /\ new.created = claims
    BY DEF Ledger!Created, Ledger!NoArticle
  <2>2. /\ row \in LedgerRun /\ row.state = run[r].state /\ row.started = run[r].started
        /\ row.kind = run[r].kind /\ row.persisted = run[r].persisted
        /\ row.extracted = run[r].extracted + 1 /\ row.updated = run[r].updated
    <3>1. PICK n \in Nat : n = run[r].extracted + 1  BY <1>1 DEF LedgerRun
    <3>2. PICK rest \in SUBSET SitePages : rest = run[r].left \ {p}  BY <1>1 DEF LedgerRun
    <3>3. row = [run[r] EXCEPT !.left = rest, !.extracted = n]  BY <3>1, <3>2
    <3> QED  BY <1>1, <3>1, <3>3 DEF LedgerRun
  <2> HIDE DEF new, row
  <2>3. article' = [article EXCEPT ![p] = new] /\ run' = [run EXCEPT ![r] = row]
    <3>1. article' = [article EXCEPT ![p] = new]  BY <1>2 DEF new
    <3>2. run' = [run EXCEPT ![r] = row]  BY <1>2, <1>t, <1>1 DEF row, LedgerRun
    <3> QED  BY <3>1, <3>2
  <2>4. /\ \A q \in SitePages : article'[q] = IF q = p THEN new ELSE article[q]
        /\ \A q \in Ledger!Runs : run'[q] = IF q = r THEN row ELSE run[q]
        /\ run' \in [Ledger!Runs -> LedgerRun]
    BY <1>t, <2>2, <2>3
  <2>5. Begun' = Begun /\ \A q \in Begun : run'[q].started = run[q].started /\ run'[q].state = run[q].state
    BY <2>2, <2>4 DEF Begun
  <2>6. ClaimsFit'
    <3>1. ClaimsFit  BY <1>t DEF TimesInv
    <3>2. \A q \in Begun' : run'[q].started \in 1 .. claims'
      BY <1>1, <2>5, <3>1 DEF ClaimsFit
    <3>3. \A q, s \in Begun' : run'[q].started = run'[s].started => q = s
      BY <2>5, <3>1 DEF ClaimsFit
    <3>4. \A q \in Begun' : run'[q].state \in Going => run'[q].started = claims'
      BY <1>1, <2>5, <3>1 DEF ClaimsFit
    <3> QED  BY <3>2, <3>3, <3>4 DEF ClaimsFit, Going
  <2>8. Ledger!Stored' = Ledger!Stored \cup {p} /\ p \notin Ledger!Stored
    BY <1>1, <1>2, <2>1, <2>4 DEF Ledger!Stored
  <2>9. CreatorsFit'
    <3>1. ASSUME NEW q \in Ledger!Stored'
          PROVE  /\ article'[q].createdBy \in Begun'
                 /\ article'[q].created <= run'[article'[q].createdBy].started
                 /\ Cardinality(Begun') = claims'
                       => article'[q].created = run'[article'[q].createdBy].started
      <4>1. CASE q = p
        BY <1>0, <1>1, <1>n, <1>t, <2>1, <2>4, <2>5, <4>1
      <4>2. CASE q # p
        <5>1. q \in Ledger!Stored /\ article'[q] = article[q]  BY <2>4, <2>8, <4>2 DEF Ledger!Stored
        <5> QED  BY <1>1, <1>t, <2>5, <5>1 DEF TimesInv, CreatorsFit
      <4> QED  BY <4>1, <4>2
    <3>2. Cardinality(Begun') <= claims'  BY <1>1, <1>t, <2>5 DEF TimesInv, CreatorsFit
    <3> QED  BY <3>1, <3>2 DEF CreatorsFit
  <2>7. VersionsFit'  BY <1>1, <1>2, <1>t DEF TimesInv, VersionsFit
  <2>10. \A q, t : ChangesAt(q, t)' = ChangesAt(q, t)  BY <1>2 DEF ChangesAt, Ledger!Changed
  <2>11. /\ \A t : t \in {0, at} => /\ CreatedAt(r, t)' = CreatedAt(r, t) \cup {p}
                                        /\ p \notin CreatedAt(r, t)
         /\ \A q \in Ledger!Runs : \A t : q # r => CreatedAt(q, t)' = CreatedAt(q, t)
    <3>1. \A q \in Ledger!Stored : q # p /\ article'[q] = article[q]
      BY <2>4, <2>8 DEF Ledger!Stored
    <3>2. article'[p] = new /\ claims >= 0 /\ claims >= at  BY <1>t, <1>n, <2>4
    <3> QED  BY <2>1, <2>8, <3>1, <3>2 DEF CreatedAt
  <2>12. \A t : IsFiniteSet(CreatedAt(r, t))
    <3>1. \A t : CreatedAt(r, t) \subseteq SitePages  BY DEF CreatedAt, Ledger!Stored
    <3> QED  BY <3>1, PagesAssumption, FS_Subset
  <2>13. /\ Cardinality(CreatedAt(r, 0)') = Cardinality(CreatedAt(r, 0)) + 1
         /\ Cardinality(CreatedAt(r, at)') = Cardinality(CreatedAt(r, at)) + 1
    BY <2>11, <2>12, FS_AddElement
  <2>14. ASSUME NEW q \in Ledger!Runs PROVE Fits(q)'
    <3>1. CASE q # r
      <4>1. run'[q] = run[q] /\ Fits(q) /\ run[q] \in LedgerRun /\ claims' \in Nat /\ claims <= claims'
        BY <1>1, <1>t, <2>4, <3>1 DEF CountInv
      <4>2. /\ \A t : CreatedAt(q, t)' = CreatedAt(q, t)
            /\ \A t : ChangesAt(q, t)' = ChangesAt(q, t)
        BY <2>10, <2>11, <3>1
      <4> QED  BY <1>t, <4>1, <4>2, FitStays
    <3>2. CASE q = r
      <4>1. run'[r] = row  BY <2>4
      <4>2. /\ CreatedAt(r, run[r].started)' = CreatedAt(r, at)'
            /\ ChangesAt(r, run[r].started)' = ChangesAt(r, at)
            /\ ChangesAt(r, 0)' = ChangesAt(r, 0)
        BY <1>0, <2>2, <2>10, <4>1
      <4>3. PhaseFits(r)'  BY <1>0, <1>1, <2>2, <4>1 DEF PhaseFits
      <4>4. CountersFit(r)'
        BY <1>0, <2>2, <2>13, <4>1, <4>2, KindsAre DEF CountersFit
      <4> QED  BY <3>2, <4>3, <4>4 DEF Fits
    <3> QED  BY <3>1, <3>2
  <2> QED  BY <1>1, <2>4, <2>6, <2>7, <2>9, <2>14 DEF CountInv, TimesInv
<1>3. CASE /\ a.raw = now /\ a.fresh
           /\ article' = [article EXCEPT ![p].linked = TRUE]
           /\ run' = [run EXCEPT ![r].left = @ \ {p}]
           /\ UNCHANGED <<versions, misdated>>
  <2> DEFINE new == [a EXCEPT !.linked = TRUE]
             row == [run[r] EXCEPT !.left = @ \ {p}]
  <2>1. new.raw = a.raw /\ new.createdBy = a.createdBy /\ new.created = a.created
    BY <1>1 DEF Row
  <2>2. /\ row \in LedgerRun /\ row.state = run[r].state /\ row.started = run[r].started
        /\ row.kind = run[r].kind /\ row.persisted = run[r].persisted
        /\ row.left \subseteq run[r].left
        /\ row.extracted = run[r].extracted /\ row.updated = run[r].updated
    BY <1>1 DEF LedgerRun
  <2>3. article' = [article EXCEPT ![p] = new] /\ run' = [run EXCEPT ![r] = row]
    BY <1>3, <1>t
  <2> HIDE DEF new, row
  <2>4. /\ \A q \in SitePages : article'[q] = IF q = p THEN new ELSE article[q]
        /\ \A q \in Ledger!Runs : run'[q] = IF q = r THEN row ELSE run[q]
        /\ run' \in [Ledger!Runs -> LedgerRun]
    BY <1>t, <2>2, <2>3
  <2>5. \A q, t : ChangesAt(q, t)' = ChangesAt(q, t)  BY <1>3 DEF ChangesAt, Ledger!Changed
  <2>6. VersionsFit'  BY <1>1, <1>3, <1>t DEF TimesInv, VersionsFit
  <2>7. \A q \in SitePages : /\ article'[q].raw = article[q].raw
                             /\ article'[q].createdBy = article[q].createdBy
                             /\ article'[q].created = article[q].created
    BY <2>1, <2>4
  <2>8. ASSUME NEW q \in Ledger!Runs
        PROVE  /\ run'[q].started = run[q].started /\ run'[q].persisted = run[q].persisted
               /\ run'[q].kind = run[q].kind /\ run'[q].left \subseteq run[q].left
               /\ run'[q].state = run[q].state
               /\ run'[q].extracted = run[q].extracted /\ run'[q].updated = run[q].updated
    BY <2>2, <2>4
  <2> QED  BY <1>1, <2>4, <2>5, <2>6, <2>7, <2>8, CountsStay DEF Going
<1>4. CASE /\ a.raw # 0
           /\ article' = [article EXCEPT ![p] = Ledger!Rescraped(a, r, now)]
           /\ versions' = [versions EXCEPT ![p] = Ledger!Archived(p, r, now)]
           /\ run' = [run EXCEPT ![r].left = @ \ {p}, ![r].updated = @ + 1]
  <2> DEFINE new == Ledger!Rescraped(a, r, now)
             row == [run[r] EXCEPT !.left = @ \ {p}, !.updated = @ + 1]
  <2>1. new.raw = now /\ new.createdBy = a.createdBy /\ new.created = a.created
    BY <1>1 DEF Row, Ledger!Rescraped
  <2>2. /\ row \in LedgerRun /\ row.state = run[r].state /\ row.started = run[r].started
        /\ row.kind = run[r].kind /\ row.persisted = run[r].persisted
        /\ row.extracted = run[r].extracted /\ row.updated = run[r].updated + 1
    <3>1. PICK n \in Nat : n = run[r].updated + 1  BY <1>1 DEF LedgerRun
    <3>2. PICK rest \in SUBSET SitePages : rest = run[r].left \ {p}  BY <1>1 DEF LedgerRun
    <3>3. row = [run[r] EXCEPT !.left = rest, !.updated = n]  BY <3>1, <3>2
    <3> QED  BY <1>1, <3>1, <3>3 DEF LedgerRun
  <2>3. PICK old \in VersionRow :
           old = Ledger!Version(a.raw, r, now) /\ old.run = r /\ old.at = claims
    <3>1. /\ Ledger!Version(a.raw, r, now) \in VersionRow /\ Ledger!Version(a.raw, r, now).run = r
          /\ Ledger!Version(a.raw, r, now).at = claims
      BY <1>1, <1>t DEF Ledger!Version, VersionRow, Row
    <3> QED  BY <3>1
  <2> HIDE DEF new, row
  <2>4. /\ article' = [article EXCEPT ![p] = new] /\ run' = [run EXCEPT ![r] = row]
        /\ versions' = [versions EXCEPT ![p] = Append(versions[p], old)]
    <3>1. article' = [article EXCEPT ![p] = new]  BY <1>4 DEF new
    <3>2. run' = [run EXCEPT ![r] = row]  BY <1>4, <1>t, <1>1 DEF row, LedgerRun
    <3>3. versions' = [versions EXCEPT ![p] = Append(versions[p], old)]
      BY <1>4, <2>3 DEF Ledger!Archived
    <3> QED  BY <3>1, <3>2, <3>3
  <2>5. /\ \A q \in SitePages : article'[q] = IF q = p THEN new ELSE article[q]
        /\ \A q \in Ledger!Runs : run'[q] = IF q = r THEN row ELSE run[q]
        /\ run' \in [Ledger!Runs -> LedgerRun]
        /\ \A q \in SitePages : versions'[q] = IF q = p THEN Append(versions[p], old) ELSE versions[q]
    BY <1>t, <2>2, <2>4
  <2>9. \A q \in SitePages : /\ article'[q].raw = 0 <=> article[q].raw = 0
                             /\ article'[q].createdBy = article[q].createdBy
                             /\ article'[q].created = article[q].created
    BY <1>1, <1>4, <2>1, <2>5
  <2>7. VersionsFit'
    <3> SUFFICES ASSUME NEW q \in SitePages, NEW i \in DOMAIN versions'[q]
                 PROVE  versions'[q][i].at <= claims
      BY <1>1 DEF VersionsFit
    <3>1. versions[q] \in Seq(VersionRow)  BY <1>t
    <3>2. CASE q # p  BY <1>t, <2>5, <3>2 DEF TimesInv, VersionsFit
    <3>3. CASE q = p
      <4>1. versions'[q] = Append(versions[q], old)  BY <2>5, <3>3
      <4>2. CASE i = Len(versions[q]) + 1  BY <1>t, <2>3, <3>1, <4>1, <4>2
      <4>3. CASE i # Len(versions[q]) + 1
        <5>1. i \in DOMAIN versions[q] /\ versions'[q][i] = versions[q][i]
          BY <3>1, <4>1, <4>3
        <5> QED  BY <1>t, <5>1 DEF TimesInv, VersionsFit
      <4> QED  BY <4>2, <4>3
    <3> QED  BY <3>2, <3>3
  <2>8. TimesInv' /\ \A q, t : CreatedAt(q, t)' = CreatedAt(q, t)
    <3>1. ASSUME NEW q \in Ledger!Runs
          PROVE  run'[q].started = run[q].started /\ run'[q].state = run[q].state
      BY <2>2, <2>5
    <3> QED  BY <1>1, <1>t, <2>7, <2>9, <3>1, TimesStay
  <2>12. ASSUME NEW q \in Ledger!Runs, q # r, NEW t PROVE ChangesAt(q, t)' = ChangesAt(q, t)
    BY <2>3, <2>5, <2>12, ChangesStay
  <2>13. ASSUME NEW t \in {0, at}
         PROVE  /\ IsFiniteSet(ChangesAt(r, t)')
                /\ Cardinality(ChangesAt(r, t)') = Cardinality(ChangesAt(r, t)) + 1
    <3>1. ChangesAt(r, t) \subseteq ChangesAt(r, 0)
      <4>1. CASE t = 0  BY <4>1
      <4>2. CASE t = at  BY <4>2, AllAreSinceStart DEF ChangesAt
      <4> QED  BY <4>1, <4>2
    <3>2. IsFiniteSet(ChangesAt(r, t))  BY <1>0, <3>1, FS_Subset DEF CountersFit
    <3>3. old.at >= t  BY <1>t, <1>n, <2>3
    <3> QED  BY <2>3, <2>4, <3>2, <3>3, ChangesGrow
  <2>14. ASSUME NEW q \in Ledger!Runs PROVE Fits(q)'
    <3>1. CASE q # r
      <4>1. run'[q] = run[q] /\ Fits(q) /\ run[q] \in LedgerRun /\ claims' \in Nat /\ claims <= claims'
        BY <1>1, <1>t, <2>5, <3>1 DEF CountInv
      <4>2. /\ \A t : CreatedAt(q, t)' = CreatedAt(q, t)
            /\ \A t : ChangesAt(q, t)' = ChangesAt(q, t)
        BY <2>8, <2>12, <3>1
      <4> QED  BY <1>t, <4>1, <4>2, FitStays
    <3>2. CASE q = r
      <4>1. run'[r] = row  BY <2>5
      <4>2. /\ CreatedAt(r, run[r].started)' = CreatedAt(r, run[r].started)
            /\ CreatedAt(r, 0)' = CreatedAt(r, 0)
            /\ ChangesAt(r, run[r].started)' = ChangesAt(r, at)'
        BY <1>0, <2>2, <2>8, <4>1
      <4>5. /\ IsFiniteSet(ChangesAt(r, 0)')
            /\ Cardinality(ChangesAt(r, 0)') = Cardinality(ChangesAt(r, 0)) + 1
            /\ Cardinality(ChangesAt(r, at)') = Cardinality(ChangesAt(r, at)) + 1
        BY <2>13
      <4>3. PhaseFits(r)'  BY <1>0, <1>1, <2>2, <4>1 DEF PhaseFits
      <4>4. CountersFit(r)'
        BY <1>0, <2>2, <4>1, <4>2, <4>5, KindsAre DEF CountersFit
      <4> QED  BY <3>2, <4>3, <4>4 DEF Fits
    <3> QED  BY <3>1, <3>2
  <2> QED  BY <1>1, <2>5, <2>8, <2>14 DEF CountInv
<1>5. \/ /\ a.raw = 0
         /\ article' = [article EXCEPT ![p] = Ledger!Created(r, now)]
         /\ run' = [run EXCEPT ![r].left = @ \ {p}, ![r].extracted = @ + 1]
         /\ UNCHANGED <<versions, misdated>>
      \/ /\ a.raw = now /\ a.fresh
         /\ article' = [article EXCEPT ![p].linked = TRUE]
         /\ run' = [run EXCEPT ![r].left = @ \ {p}]
         /\ UNCHANGED <<versions, misdated>>
      \/ /\ a.raw # 0
         /\ article' = [article EXCEPT ![p] = Ledger!Rescraped(a, r, now)]
         /\ versions' = [versions EXCEPT ![p] = Ledger!Archived(p, r, now)]
         /\ run' = [run EXCEPT ![r].left = @ \ {p}, ![r].updated = @ + 1]
  BY Zenon DEF Ledger!Store
<1> QED  BY <1>2, <1>3, <1>4, <1>5, Zenon

\* Articles keep their creator, and the runs their times and what they counted.
LEMMA RunMoves ==
    ASSUME HistoryInv, CountInv, UNCHANGED <<claims, kinds, versions>>,
           NEW r \in Ledger!Runs, NEW row \in LedgerRun, run' = [run EXCEPT ![r] = row],
           row.started = run[r].started, row.persisted = run[r].persisted,
           row.kind = run[r].kind, row.left \subseteq run[r].left,
           row.state # "none", run[r].state # "none",
           row.state \in {"converting", "running"} => row.state = run[r].state,
           row.state = "paused" => run[r].state \in Going,
           \/ row.extracted = run[r].extracted /\ row.updated = run[r].updated
           \/ run[r].kind = "enrich"
           \/ row.updated = run[r].updated /\ run[r].state = "converting",
           \A p \in SitePages : /\ article'[p].raw = 0 <=> article[p].raw = 0
                                /\ article'[p].createdBy = article[p].createdBy
                                /\ article'[p].created = article[p].created
    PROVE  CountInv'
<1>1. run' \in [Ledger!Runs -> LedgerRun] /\ \A q \in Ledger!Runs : run'[q] = IF q = r THEN row ELSE run[q]
  BY DEF CountInv
<1>2. \A q, t : ChangesAt(q, t)' = ChangesAt(q, t)  BY DEF ChangesAt, Ledger!Changed
<1>3. VersionsFit'  BY DEF CountInv, TimesInv, VersionsFit
<1>4. ASSUME NEW q \in Ledger!Runs
      PROVE  /\ run'[q].started = run[q].started /\ run'[q].persisted = run[q].persisted
             /\ run'[q].kind = run[q].kind /\ run'[q].left \subseteq run[q].left
             /\ run'[q].state = "none" <=> run[q].state = "none"
             /\ run'[q].state \in {"converting", "running"} => run'[q].state = run[q].state
             /\ run'[q].state = "paused" => run[q].state \in Going
             /\ \/ run'[q].extracted = run[q].extracted /\ run'[q].updated = run[q].updated
                \/ run[q].kind = "enrich"
                \/ run'[q].updated = run[q].updated /\ run[q].state = "converting"
  <2>1. CASE q = r  BY <1>1, <2>1
  <2>2. CASE q # r  BY <1>1, <2>2 DEF Going
  <2> QED  BY <2>1, <2>2
<1> QED  BY <1>1, <1>2, <1>3, <1>4, CountsStay

LEMMA CountKept == ASSUME HistoryInv, CountInv, Ledger!Next PROVE CountInv'
<1>t. /\ run \in [Ledger!Runs -> LedgerRun] /\ claims \in Nat /\ article \in [SitePages -> Row]
      /\ versions \in [SitePages -> Seq(VersionRow)]
  BY DEF CountInv, HistoryInv, HistoryTypes
<1>s. ASSUME UNCHANGED <<run, claims, kinds>>, VersionsFit',
             \A r \in Ledger!Runs : \A t : ChangesAt(r, t)' = ChangesAt(r, t),
             \A p \in SitePages : /\ article'[p].raw = article[p].raw
                                  /\ article'[p].createdBy = article[p].createdBy
                                  /\ article'[p].created = article[p].created
      PROVE  CountInv'
  BY <1>s, <1>t, CountsStay DEF Going
<1>v. ASSUME UNCHANGED <<versions, claims>>
      PROVE  VersionsFit' /\ \A r, t : ChangesAt(r, t)' = ChangesAt(r, t)
  BY <1>v DEF ChangesAt, Ledger!Changed, CountInv, TimesInv, VersionsFit
<1>1. ASSUME NEW p \in SitePages, NEW raws \in 0 .. MaxRaw, Ledger!Edit(p, raws) PROVE CountInv'
  <2>1. UNCHANGED <<article, versions, run, claims, kinds>>  BY <1>1 DEF Ledger!Edit
  <2> QED  BY <1>s, <1>v, <2>1
<1>2. ASSUME NEW r \in Ledger!Runs, NEW kind \in kinds, Ledger!Claim(r, kind) PROVE CountInv'
  BY <1>2, ClaimCounts
<1>3. ASSUME NEW r \in Ledger!Runs, Ledger!Complete(r) PROVE CountInv'
  <2> DEFINE over == [run[r] EXCEPT !.state = "completed", !.toc = {}]
             count == Ledger!Cardinality(run[r].enriched)
             row == IF run[r].kind # "enrich" THEN over
                    ELSE [over EXCEPT !.extracted = count, !.updated = count]
  <2>1. run' = [run EXCEPT ![r] = row] /\ UNCHANGED <<versions, claims, kinds>>
        /\ run[r].state = "running"
    BY <1>3 DEF Ledger!Complete
  <2>2. count \in Nat
    <3>1. run[r].enriched \subseteq SitePages  BY <1>t DEF LedgerRun
    <3> QED  BY <3>1, PagesAssumption, SameCardinality, FS_Subset, FS_CardinalityType
  <2> HIDE DEF count
  <2>3. /\ over \in LedgerRun /\ over.started = run[r].started /\ over.persisted = run[r].persisted
        /\ over.kind = run[r].kind /\ over.left = run[r].left /\ over.state = "completed"
        /\ over.extracted = run[r].extracted /\ over.updated = run[r].updated
    BY <1>t DEF LedgerRun, RunStates
  <2> HIDE DEF over
  <2>4. /\ row \in LedgerRun /\ row.started = run[r].started /\ row.persisted = run[r].persisted
        /\ row.kind = run[r].kind /\ row.left = run[r].left /\ row.state = "completed"
        /\ \/ row.extracted = run[r].extracted /\ row.updated = run[r].updated
           \/ run[r].kind = "enrich"
    <3>1. CASE run[r].kind # "enrich"  BY <2>3, <3>1
    <3>2. CASE run[r].kind = "enrich"
      BY <2>2, <2>3, <3>2 DEF LedgerRun
    <3> QED  BY <3>1, <3>2
  <2> HIDE DEF row
  <2>5. \A p \in SitePages : /\ article'[p].raw = article[p].raw
                             /\ article'[p].createdBy = article[p].createdBy
                             /\ article'[p].created = article[p].created
    BY <1>3, <1>t DEF Ledger!Complete, Ledger!Reconciled, Row
  <2> QED  BY <2>1, <2>4, <2>5, RunMoves
<1>4. ASSUME NEW r \in Ledger!Runs, Ledger!Stop(r) PROVE CountInv'
  <2>1. PICK st \in {"paused", "ended"} : run' = [run EXCEPT ![r].state = st]
    BY <1>4 DEF Ledger!Stop
  <2> DEFINE row == [run[r] EXCEPT !.state = st]
  <2>2. /\ run' = [run EXCEPT ![r] = row] /\ UNCHANGED <<article, versions, claims, kinds>>
        /\ run[r].state \in Going /\ run[r].state # "none"
    BY <1>4, <1>t, <2>1 DEF Ledger!Stop, Going
  <2>3. /\ row \in LedgerRun /\ row.started = run[r].started /\ row.persisted = run[r].persisted
        /\ row.kind = run[r].kind /\ row.left = run[r].left /\ row.state = st
        /\ row.extracted = run[r].extracted /\ row.updated = run[r].updated
    BY <1>t, <2>1 DEF LedgerRun, RunStates
  <2> HIDE DEF row
  <2> QED  BY <2>1, <2>2, <2>3, RunMoves
<1>5. ASSUME NEW r \in Ledger!Runs, NEW p \in SitePages, Ledger!Store(r, p) PROVE CountInv'
  BY <1>5, StoreCounts
<1>6. ASSUME NEW r \in Ledger!Runs, NEW p \in SitePages, Ledger!Skip(r, p) PROVE CountInv'
  <2> DEFINE row == [run[r] EXCEPT !.left = @ \ {p}]
  <2>1. /\ run' = [run EXCEPT ![r] = row] /\ UNCHANGED <<article, versions, claims, kinds>>
        /\ run[r].state = "running"
    BY <1>6, <1>t DEF Ledger!Skip
  <2>2. /\ row \in LedgerRun /\ row.started = run[r].started /\ row.persisted = run[r].persisted
        /\ row.kind = run[r].kind /\ row.left \subseteq run[r].left /\ row.state = run[r].state
        /\ row.extracted = run[r].extracted /\ row.updated = run[r].updated
    BY <1>t DEF LedgerRun
  <2> HIDE DEF row
  <2> QED  BY <2>1, <2>2, RunMoves
<1>7. ASSUME NEW r \in Ledger!Runs, NEW p \in SitePages, Ledger!Enrich(r, p) PROVE CountInv'
  <2>1. UNCHANGED <<versions, claims, kinds>> /\ article' = [article EXCEPT ![p].captioned = TRUE]
        /\ run[r].state = "running"
    BY <1>7 DEF Ledger!Enrich
  <2>2. \A q \in SitePages : /\ article'[q].raw = article[q].raw
                             /\ article'[q].createdBy = article[q].createdBy
                             /\ article'[q].created = article[q].created
    BY <1>t, <2>1 DEF Row
  <2>3. CASE run' = run  BY <1>s, <1>v, <2>1, <2>2, <2>3
  <2>4. CASE run' # run
    <3> DEFINE row == [run[r] EXCEPT !.enriched = @ \cup {p}]
    <3>1. run' = [run EXCEPT ![r] = row]  BY <1>7, <1>t, <2>4 DEF Ledger!Enrich
    <3>2. /\ row \in LedgerRun /\ row.started = run[r].started /\ row.persisted = run[r].persisted
          /\ row.kind = run[r].kind /\ row.left = run[r].left /\ row.state = run[r].state
          /\ row.extracted = run[r].extracted /\ row.updated = run[r].updated
      BY <1>t DEF LedgerRun
    <3> HIDE DEF row
    <3> QED  BY <2>1, <2>2, <3>1, <3>2, RunMoves
  <2> QED  BY <2>3, <2>4
<1>8. ASSUME NEW stale \in SUBSET SitePages, Ledger!Improve(stale) PROVE CountInv'
  <2>1. UNCHANGED <<run, versions, claims, kinds>>  BY <1>8 DEF Ledger!Improve
  <2>2. \A q \in SitePages : /\ article'[q].raw = article[q].raw
                             /\ article'[q].createdBy = article[q].createdBy
                             /\ article'[q].created = article[q].created
    BY <1>8, <1>t DEF Row, Ledger!Improve
  <2> QED  BY <1>s, <1>v, <2>1, <2>2
<1>9. CASE Ledger!Resanitize
  <2>1. UNCHANGED <<run, claims, kinds>>  BY <1>9 DEF Ledger!Resanitize
  <2>2. \A q \in SitePages : /\ article'[q].raw = article[q].raw
                             /\ article'[q].createdBy = article[q].createdBy
                             /\ article'[q].created = article[q].created
    BY <1>9, <1>t DEF Row, Ledger!Resanitize
  <2>3. ASSUME NEW q \in SitePages
        PROVE  \/ versions'[q] = versions[q]
               \/ \E row \in VersionRow : /\ row.run = 0 /\ row.at = claims
                                          /\ versions'[q] = Append(versions[q], row)
    <3>1. /\ Ledger!Version(article[q].raw, 0, article[q].raw) \in VersionRow
          /\ Ledger!Version(article[q].raw, 0, article[q].raw).run = 0
          /\ Ledger!Version(article[q].raw, 0, article[q].raw).at = claims
      BY <1>t DEF Ledger!Version, VersionRow, Row
    <3>2. \/ versions'[q] = versions[q]
          \/ versions'[q] = Append(versions[q], Ledger!Version(article[q].raw, 0, article[q].raw))
      BY <1>9, <2>3 DEF Ledger!Resanitize, Ledger!Archived, Ledger!NoRun
    <3> QED  BY <3>1, <3>2
  <2>4. ASSUME NEW r \in Ledger!Runs, NEW t PROVE ChangesAt(r, t)' = ChangesAt(r, t)
    <3>1. r # 0  BY BoundsAssumption DEF Ledger!Runs
    <3> QED  BY <2>3, <3>1, ChangesStay
  <2>5. VersionsFit'
    <3> SUFFICES ASSUME NEW q \in SitePages, NEW i \in DOMAIN versions'[q]
                 PROVE  versions'[q][i].at <= claims
      BY <2>1 DEF VersionsFit
    <3>1. versions[q] \in Seq(VersionRow)  BY <1>t
    <3>2. CASE versions'[q] = versions[q]  BY <3>2 DEF CountInv, TimesInv, VersionsFit
    <3>3. ASSUME NEW row \in VersionRow, row.at = claims, versions'[q] = Append(versions[q], row)
          PROVE  versions'[q][i].at <= claims
      <4>2. CASE i = Len(versions[q]) + 1  BY <1>t, <3>1, <3>3, <4>2
      <4>3. CASE i # Len(versions[q]) + 1
        <5>1. i \in DOMAIN versions[q] /\ versions'[q][i] = versions[q][i]
          BY <3>1, <3>3, <4>3
        <5> QED  BY <5>1 DEF CountInv, TimesInv, VersionsFit
      <4> QED  BY <4>2, <4>3
    <3> QED  BY <2>3, <3>2, <3>3
  <2> QED  BY <1>s, <2>1, <2>2, <2>4, <2>5
<1>10. ASSUME NEW r \in Ledger!Runs, Ledger!SameFile(r) PROVE CountInv'
  <2> DEFINE row == [run[r] EXCEPT !.state = "completed"]
  <2>1. /\ run' = [run EXCEPT ![r] = row] /\ UNCHANGED <<article, versions, claims, kinds>>
        /\ run[r].state # "none"
    BY <1>10, <1>t DEF Ledger!SameFile
  <2>2. /\ row \in LedgerRun /\ row.started = run[r].started /\ row.persisted = run[r].persisted
        /\ row.kind = run[r].kind /\ row.left = run[r].left /\ row.state = "completed"
        /\ row.extracted = run[r].extracted /\ row.updated = run[r].updated
    BY <1>t DEF LedgerRun, RunStates
  <2> HIDE DEF row
  <2> QED  BY <2>1, <2>2, RunMoves
<1>11. ASSUME NEW r \in Ledger!Runs, Ledger!Progress(r) PROVE CountInv'
  <2>1. PICK done \in 0 .. MaxConverted : run' = [run EXCEPT ![r].extracted = done]
    BY <1>11 DEF Ledger!Progress
  <2> DEFINE row == [run[r] EXCEPT !.extracted = done]
  <2>2. /\ run' = [run EXCEPT ![r] = row] /\ UNCHANGED <<article, versions, claims, kinds>>
        /\ run[r].state = "converting"
    BY <1>11, <1>t, <2>1 DEF Ledger!Progress
  <2>3. /\ row \in LedgerRun /\ row.started = run[r].started /\ row.persisted = run[r].persisted
        /\ row.kind = run[r].kind /\ row.left = run[r].left /\ row.state = run[r].state
        /\ row.updated = run[r].updated
    <3>1. done \in Nat  OBVIOUS
    <3> QED  BY <1>t, <3>1 DEF LedgerRun
  <2> HIDE DEF row
  <2> QED  BY <2>2, <2>3, RunMoves
<1>12. ASSUME NEW r \in Ledger!Runs, Ledger!Persist(r) PROVE CountInv'
  BY <1>12, PersistCounts
<1> QED
  BY <1>1, <1>2, <1>3, <1>4, <1>5, <1>6, <1>7, <1>8, <1>9, <1>10, <1>11, <1>12 DEF Ledger!Next

LEMMA LatestIs ==
    ASSUME HistoryInv, CountInv, Ledger!Latest # 0
    PROVE  Ledger!Latest \in Begun
<1>1. Ledger!Completed # {} /\ Ledger!Completed \subseteq Begun
  BY DEF Ledger!Latest, Ledger!NoRun, Ledger!Completed, Begun
<1>2. \A q \in Ledger!Completed : run[q].started \in 1 .. claims /\ claims \in Nat
  BY <1>1 DEF CountInv, TimesInv, ClaimsFit, HistoryInv, HistoryTypes
<1> DEFINE ages == {claims - run[q].started : q \in Ledger!Completed}
<1>3. ages \in SUBSET Nat /\ ages # {}  BY <1>1, <1>2
<1>4. PICK age \in ages : \A y \in ages : age <= y
  <2> HIDE DEF ages
  <2> QED  BY <1>3, LeastIs
<1>5. PICK r \in Ledger!Completed : age = claims - run[r].started  OBVIOUS
<1>6. ASSUME NEW q \in Ledger!Completed PROVE run[q].started <= run[r].started
  <2>1. age <= claims - run[q].started  BY <1>4
  <2> QED  BY <1>2, <1>5, <2>1
<1>7. Ledger!Latest \in Ledger!Completed
  BY <1>1, <1>6, Zenon DEF Ledger!Latest
<1> QED  BY <1>1, <1>7

\* What the changelog tells of a run: all that it created and changed.
LEMMA ToldIs ==
    ASSUME HistoryInv, CountInv, NEW r \in Ledger!Runs
    PROVE  /\ Ledger!ToldAdded(r) = Cardinality(Ledger!CreatedBy(r))
           /\ Ledger!CreatedBy(r) = CreatedAt(r, 0)
           /\ Ledger!ToldChanged(r) = Cardinality(ChangesAt(r, 0))
<1>1. r # 0 /\ \A p \in Ledger!Stored : article[p].createdBy \in Begun
  BY BoundsAssumption DEF CountInv, TimesInv, CreatorsFit, Ledger!Runs
<1>2. Ledger!ToldChanged(r) = Cardinality(ChangesAt(r, 0))
  BY AllAreSinceStart, SameCardinality DEF Ledger!ToldChanged
<1>3. CASE r = Ledger!Baseline
  <2>1. Ledger!ToldAdded(r) = Cardinality(Ledger!CreatedBy(r))
    BY <1>3, SameCardinality, Zenon DEF Ledger!ToldAdded
  <2> QED  BY <1>2, <2>1, AllAreSinceStart
<1>4. CASE r # Ledger!Baseline
  <2>1. {p \in Ledger!Added : article[p].createdBy = r} = Ledger!CreatedBy(r)
    BY <1>1, <1>4 DEF Ledger!Added, Ledger!CreatedBy, Ledger!NoRun
  <2>2. Ledger!ToldAdded(r) = Cardinality(Ledger!CreatedBy(r))
    BY <1>4, <2>1, SameCardinality, Zenon DEF Ledger!ToldAdded
  <2> QED  BY <1>2, <2>2, AllAreSinceStart
<1> QED  BY <1>3, <1>4

LEMMA FacetIsBounded ==
    ASSUME HistoryInv, CountInv, NEW r \in Ledger!Runs, NEW S \in SUBSET SitePages,
           \A p \in S : Ledger!UpdatedBy(p, r)
    PROVE  Cardinality(S) <= Cardinality(ChangesAt(r, 0))
<1> DEFINE own == {c \in ChangesAt(r, 0) : c[1] \in S}
           f == [c \in own |-> c[1]]
<1>1. IsFiniteSet(ChangesAt(r, 0))
  BY DEF CountInv, Fits, CountersFit
<1>2. IsFiniteSet(own) /\ Cardinality(own) <= Cardinality(ChangesAt(r, 0))
  BY <1>1, FS_Subset
<1>3. \A p \in S : \E c \in own : f[c] = p
  <2> TAKE p \in S
  <2>1. PICK i \in DOMAIN versions[p] : versions[p][i].run = r
    BY DEF Ledger!UpdatedBy
  <2>0. versions[p][i].at >= 0
    <3>1. versions[p] \in Seq(VersionRow)  BY DEF HistoryInv, HistoryTypes
    <3>2. versions[p][i] \in VersionRow  BY <3>1
    <3> QED  BY <3>2 DEF VersionRow
  <2>2. <<p, i>> \in ChangesAt(r, 0)  BY <2>0, <2>1, ChangesAre
  <2>3. <<p, i>> \in own /\ <<p, i>>[1] = p  BY <2>2
  <2>4. f[<<p, i>>] = <<p, i>>[1]
    <3> HIDE DEF own
    <3> QED  BY <2>3
  <2> QED  BY <2>3, <2>4
<1>4. f \in Surjection(own, S)  BY <1>3 DEF Surjection
<1>5. IsFiniteSet(S) /\ Cardinality(S) <= Cardinality(own)
  <2> HIDE DEF f, own
  <2> QED  BY <1>2, <1>4, FS_Surjection
<1>6. Cardinality(S) \in Nat /\ Cardinality(own) \in Nat /\ Cardinality(ChangesAt(r, 0)) \in Nat
  BY <1>1, <1>2, <1>5, FS_CardinalityType
<1> QED  BY <1>2, <1>5, <1>6

LEMMA CountersAgree == ASSUME HistoryInv, CountInv PROVE Ledger!CountersAddUp
<1> SUFFICES ASSUME NEW r \in Ledger!Runs
    PROVE  /\ run[r].kind \in Ledger!WebKinds => run[r].extracted = Ledger!ToldAdded(r)
           /\ run[r].kind \in Ledger!PdfKinds /\ run[r].persisted = run[r].started
                 => run[r].extracted = Ledger!Cardinality(Ledger!CreatedSince(r))
           /\ run[r].kind \in Ledger!WebKinds \cup {"pdf"} => run[r].updated = Ledger!ToldChanged(r)
           /\ run[r].kind = "escalate"
                 => run[r].updated = Ledger!Cardinality(Ledger!ChangedSince(r))
           /\ run[r].kind = "enrich" => Ledger!ToldAdded(r) = 0 /\ Ledger!ToldChanged(r) = 0
  BY DEF Ledger!CountersAddUp
<1>1. PhaseFits(r) /\ CountersFit(r)  BY DEF CountInv, Fits
<1>2. /\ Ledger!ToldAdded(r) = Cardinality(CreatedAt(r, 0))
      /\ Ledger!ToldChanged(r) = Cardinality(ChangesAt(r, 0))
  BY ToldIs
<1>3. /\ Ledger!Cardinality(Ledger!CreatedSince(r)) = Cardinality(CreatedAt(r, run[r].started))
      /\ Ledger!Cardinality(Ledger!ChangedSince(r)) = Cardinality(ChangesAt(r, run[r].started))
  <2>1. Ledger!CreatedSince(r) = CreatedAt(r, run[r].started)
    BY DEF Ledger!CreatedSince, Ledger!CreatedBy, CreatedAt
  <2>2. Ledger!ChangedSince(r) = ChangesAt(r, run[r].started)
    BY DEF Ledger!ChangedSince, ChangesAt
  <2> QED  BY <2>1, <2>2, SameCardinality
<1>4. run[r].kind = "enrich" => Ledger!ToldAdded(r) = 0 /\ Ledger!ToldChanged(r) = 0
  BY <1>1, <1>2, FS_EmptySet DEF PhaseFits
<1> HIDE DEF PhaseFits
<1> QED  BY <1>1, <1>2, <1>3, <1>4 DEF CountersFit

LEMMA LogAddsUp == ASSUME HistoryInv, CountInv PROVE Ledger!ChangelogAddsUp
<1>1. \A status \in {"new", "updated", "unchanged"} :
          Ledger!Filtered(status) = {p \in Ledger!Stored : Ledger!Listed(p) = status}
  BY Zenon DEF Ledger!Filtered, Ledger!Listed
<1>2. ASSUME Ledger!Latest # 0
      PROVE  /\ Ledger!Facet("new") = Ledger!ToldAdded(Ledger!Latest)
             /\ Ledger!Facet("updated") <= Ledger!ToldChanged(Ledger!Latest)
  <2>1. PICK r \in Begun : r = Ledger!Latest  BY <1>2, LatestIs
  <2>2. r \in Ledger!Runs  BY DEF Begun
  <2>3. Ledger!Filtered("new") = Ledger!CreatedBy(r)
    BY <1>2, <2>1 DEF Ledger!Filtered, Ledger!CreatedBy, Ledger!NoRun
  <2>4. Ledger!Facet("new") = Ledger!ToldAdded(r)
    BY <2>2, <2>3, SameCardinality, ToldIs DEF Ledger!Facet
  <2>5. /\ Ledger!Filtered("updated") \in SUBSET SitePages
        /\ \A p \in Ledger!Filtered("updated") : Ledger!UpdatedBy(p, r)
    BY <1>2, <2>1 DEF Ledger!Filtered, Ledger!Stored, Ledger!NoRun
  <2>6. Cardinality(Ledger!Filtered("updated")) <= Ledger!ToldChanged(r)
    BY <2>2, <2>5, FacetIsBounded, ToldIs
  <2> QED  BY <2>1, <2>4, <2>6, SameCardinality DEF Ledger!Facet
<1>3. ASSUME Ledger!Claimed = claims, Ledger!Latest # 0,
             run[Ledger!Latest].started = claims, NEW p \in Ledger!Stored
      PROVE  Ledger!Browsed(p) = Ledger!Listed(p)
  <2>1. PICK r \in Begun : r = Ledger!Latest  BY <1>3, LatestIs
  <2>2. Cardinality(Begun) = claims  BY <1>3, SameCardinality DEF Ledger!Claimed, Begun
  <2>3. /\ article[p].createdBy \in Begun
        /\ article[p].created = run[article[p].createdBy].started
    BY <2>2 DEF CountInv, TimesInv, CreatorsFit
  <2>4. article[p].createdBy = r <=> article[p].created >= run[r].started
    <3>1. run[article[p].createdBy].started \in 1 .. claims /\ claims \in Nat
      BY <2>3 DEF CountInv, TimesInv, ClaimsFit, HistoryInv, HistoryTypes
    <3>2. run[r].started = claims  BY <1>3, <2>1
    <3>3. article[p].created >= run[r].started <=> run[article[p].createdBy].started = run[r].started
      BY <2>3, <3>1, <3>2
    <3> QED  BY <2>1, <2>3, <3>3 DEF CountInv, TimesInv, ClaimsFit
  <2> QED  BY <1>3, <2>1, <2>4 DEF Ledger!Browsed, Ledger!Listed
<1> QED
  BY <1>1, <1>2, <1>3, CountersAgree, Zenon DEF Ledger!ChangelogAddsUp, Ledger!NoRun

\* The changelog, the list, its filter and its counts tell the same of each run, over
\* runs that are stopped, resumed and scrape a page again and rows archived for no run,
\* and what the counters of a run say of it holds for its kind: all it did, for one of
\* the web, or what it did since its last claim, for a PDF (get_source_changelog,
\* list_articles, browse_source, _persist_segments, retry_escalation).
THEOREM ChangelogsAddUp == ContentsSpec => []ChangelogAddsUp
<1> DEFINE I == part = "history" => HistoryInv /\ CountInv
<1>1. ContentsInit => I
  BY HistoryStarts, CountStarts DEF ContentsInit
<1>2. I /\ [ContentsNext]_contentVars => I'
  <2> SUFFICES ASSUME I, [ContentsNext]_contentVars, part' = "history" PROVE HistoryInv' /\ CountInv'
    OBVIOUS
  <2>1. CASE UNCHANGED contentVars
    <3>1. UNCHANGED historyVars /\ HistoryInv /\ CountInv  BY <2>1 DEF contentVars
    <3>2. HistoryInv'
      BY <3>1 DEF historyVars, HistoryInv, HistoryTypes, RowsTell, Ledger!HistoryIsWhole,
                  Ledger!Replacing
    <3>3. UNCHANGED <<article, versions, run, claims, kinds>>  BY <3>1 DEF historyVars
    <3>4. CountInv'
      <4>1. \A r, t : ChangesAt(r, t)' = ChangesAt(r, t)  BY <3>3 DEF ChangesAt, Ledger!Changed
      <4>2. run \in [Ledger!Runs -> LedgerRun]  BY <3>1 DEF CountInv
      <4>3. VersionsFit'  BY <3>1, <3>3 DEF CountInv, TimesInv, VersionsFit
      <4> QED  BY <3>1, <3>3, <4>1, <4>2, <4>3, CountsStay DEF Going
    <3> QED  BY <3>2, <3>4
  <2>2. CASE ContentsNext
    <3>1. Ledger!Next /\ HistoryInv /\ CountInv  BY <2>2 DEF ContentsNext
    <3> QED  BY <3>1, HistoryKept, CountKept
  <2> QED  BY <2>1, <2>2
<1>3. I => ChangelogAddsUp
  BY LogAddsUp DEF ChangelogAddsUp
<1> QED  BY <1>1, <1>2, <1>3, PTL DEF ContentsSpec
-----------------------------------------------------------------------------
(* The pages of a PDF whose content was lost.                              *)

PdfPages == 1 .. MaxPages
DocOrNone == Docs \cup {NoDoc}
RunRow == [kind : {"extract", "escalate"}, force : BOOLEAN, of : Nat,
           status : {"pending", "running", "paused", "completed", "failed", "cancelled"},
           control : {"", "pause", "cancel"}, hash : DocOrNone, pending : SUBSET PdfPages]
Early == {"acquire", "convert", "retry", "reconvert"}
Writing == {"persist", "commit"}
JobRow == [run : Nat, at : Early \cup {"escalate"} \cup Writing, doc : DocOrNone,
           pending : SUBSET PdfPages, hash : DocOrNone, lost : SUBSET PdfPages,
           todo : SUBSET PdfPages, budget : Int, streak : Nat, failed : SUBSET PdfPages, page : Nat]
Entry == [listed : SUBSET PdfPages, foreign : BOOLEAN, lost : SUBSET PdfPages]

ImportTypes ==
    /\ pdf \in Docs /\ raw \subseteq Docs
    /\ runs \in Seq(RunRow)
    /\ stored \in [PdfPages -> [doc : DocOrNone, lost : BOOLEAN]]
    /\ cache \in [Docs -> SUBSET Entry]
    /\ owner \in 0 .. Len(runs)

\* A retry that waits for its pages has none and wrote nothing.
HandingFits ==
    \A r \in handing : /\ r \in DOMAIN runs /\ r # owner
                       /\ runs[r].kind = "escalate" /\ runs[r].pending = {}
                       /\ runs[r].of \in DOMAIN runs

\* A retry that wrote keeps its list until it completes.
OwnerFits ==
    owner # 0 /\ runs[owner].kind = "escalate" /\ runs[owner].status # "completed"
        => runs[owner].pending # {}

\* The lost pages of a cached document are listed with it.
CacheFits == \A d \in Docs : \A e \in cache[d] : e.foreign \/ e.lost \subseteq e.listed

RowsFit == ImportTypes /\ HandingFits /\ OwnerFits /\ CacheFits /\ Import!LostIsListed

\* What the worker holds: what it lost is listed or still to be tried, and once it
\* writes, the pages written so far are its own.
JobFits(j) ==
    /\ j.run \in DOMAIN runs /\ runs[j.run].status = "running"
    /\ runs[j.run].kind = "extract" => j.at \notin {"retry", "reconvert"}
    /\ runs[j.run].kind = "escalate" => j.at \notin {"acquire", "convert"}
    /\ j.at \notin {"acquire", "retry"} => j.doc \in Docs
    /\ j.at \in Early => j.failed = {}
    /\ j.at \notin Writing => j.page = 1
    /\ j.at \notin Early => j.run \in foreign \/ j.lost \subseteq j.todo \cup j.failed
    /\ j.at \in Writing =>
          /\ j.todo = {}
          /\ \A p \in PdfPages : p < j.page /\ stored[p].lost => p \in j.lost
          /\ j.page > 1 => owner = j.run
    /\ j.at = "commit" => j.page > MaxPages
    /\ runs[j.run].kind = "escalate" /\ j.at # "retry" => j.pending # {}
    /\ j.pending # {} => runs[j.run].pending # {}
    /\ j.at = "retry" /\ j.pending = {} => owner # j.run

JobsFit ==
    /\ job \subseteq JobRow
    /\ \A i, j \in job : i = j
    /\ \A j \in job : JobFits(j)

ImportInv == RowsFit /\ JobsFit

LEMMA ImportStarts == Import!Init => ImportInv
<1> SUFFICES ASSUME Import!Init PROVE ImportInv  OBVIOUS
<1>1. /\ pdf \in Docs /\ raw = {} /\ runs = <<>> /\ job = {} /\ handing = {} /\ owner = 0
      /\ stored = [p \in PdfPages |-> [doc |-> NoDoc, lost |-> FALSE]]
      /\ cache = [d \in Docs |-> {}]
  BY DocsAssumption DEF Import!Init, PdfPages, Import!Pages
<1>2. runs \in Seq(RunRow) /\ Len(runs) = 0  BY <1>1
<1>3. ImportTypes  BY <1>1, <1>2 DEF ImportTypes, DocOrNone
<1>4. HandingFits /\ OwnerFits /\ CacheFits /\ Import!LostIsListed
  BY <1>1 DEF HandingFits, OwnerFits, CacheFits, Import!LostIsListed
<1> QED  BY <1>1, <1>3, <1>4 DEF ImportInv, RowsFit, JobsFit

\* One row of a run changes.
LEMMA RowMoves ==
    ASSUME RowsFit, NEW r \in DOMAIN runs, NEW row \in RunRow,
           row.kind = runs[r].kind, row.of = runs[r].of,
           r \in handing' => row.pending = {},
           r = owner /\ row.status = "completed" =>
               r \in foreign' \/ Import!Lost \subseteq row.pending,
           r = owner /\ row.status # "completed" /\ row.kind = "escalate" => row.pending # {},
           runs' = [runs EXCEPT ![r] = row], handing' \subseteq handing,
           foreign \subseteq foreign', UNCHANGED <<pdf, stored, cache, raw, owner>>
    PROVE  /\ RowsFit' /\ Len(runs') = Len(runs)
           /\ \A q \in DOMAIN runs : runs'[q] = IF q = r THEN row ELSE runs[q]
<1>1. runs \in Seq(RunRow) /\ owner \in 0 .. Len(runs)  BY DEF RowsFit, ImportTypes
<1>2. /\ runs' \in Seq(RunRow) /\ DOMAIN runs' = DOMAIN runs /\ Len(runs') = Len(runs)
      /\ DOMAIN runs = 1 .. Len(runs) /\ Len(runs) \in Nat
      /\ \A q \in DOMAIN runs : runs'[q] = IF q = r THEN row ELSE runs[q]
  BY <1>1
<1>3. ImportTypes'  BY <1>2 DEF RowsFit, ImportTypes
<1>4. HandingFits'  BY <1>2 DEF RowsFit, HandingFits
<1>5. owner # 0 => owner \in DOMAIN runs  BY <1>1, <1>2
<1>6. OwnerFits'  BY <1>2, <1>5 DEF RowsFit, OwnerFits
<1>7. CacheFits'  BY DEF RowsFit, CacheFits
<1>8. Import!Lost' = Import!Lost  BY DEF Import!Lost
<1>9. Import!LostIsListed'  BY <1>2, <1>5, <1>8 DEF RowsFit, Import!LostIsListed
<1> QED  BY <1>2, <1>3, <1>4, <1>6, <1>7, <1>9 DEF RowsFit

\* The job goes on while other rows change, or its own in what it does not read.
LEMMA JobStays ==
    ASSUME RowsFit, JobsFit, NEW r \in DOMAIN runs, NEW row,
           row.kind = runs[r].kind,
           \A q \in DOMAIN runs : q \in DOMAIN runs' /\ runs'[q] = IF q = r THEN row ELSE runs[q],
           \A j \in job : j.run = r =>
               row.status = "running" /\ (j.pending # {} => row.pending # {}),
           UNCHANGED <<job, stored, owner, foreign>>
    PROVE  JobsFit'
<1>1. ASSUME NEW j \in job PROVE JobFits(j)'
  <2>1. JobFits(j)  BY DEF JobsFit
  <2> QED  BY <2>1 DEF JobFits
<1> QED  BY <1>1 DEF JobsFit

\* The job moves on; what it has written is told in the other parts.
LEMMA JobMoves ==
    ASSUME RowsFit, NEW new \in JobRow, JobFits(new)', job' = {new},
           foreign \subseteq foreign', UNCHANGED <<pdf, runs, stored, cache, raw, handing, owner>>
    PROVE  ImportInv'
<1>1. JobsFit'  BY DEF JobsFit
<1>2. Import!LostIsListed'  BY DEF RowsFit, Import!LostIsListed, Import!Lost
<1>3. RowsFit'  BY <1>2 DEF RowsFit, ImportTypes, HandingFits, OwnerFits, CacheFits
<1> QED  BY <1>1, <1>3 DEF ImportInv

\* The job ends, and with it the run changes.
LEMMA JobEnds ==
    ASSUME ImportInv, NEW j \in job, NEW row \in RunRow,
           row.kind = runs[j.run].kind, row.of = runs[j.run].of,
           j.run \in handing => row.pending = {},
           j.run = owner /\ row.status = "completed" =>
               j.run \in foreign' \/ Import!Lost \subseteq row.pending,
           j.run = owner /\ row.status # "completed" /\ row.kind = "escalate" => row.pending # {},
           runs' = [runs EXCEPT ![j.run] = row], job' = {}, foreign \subseteq foreign',
           UNCHANGED <<pdf, stored, cache, raw, handing, owner>>
    PROVE  ImportInv'
<1>1. j.run \in DOMAIN runs  BY DEF ImportInv, JobsFit, JobFits
<1>2. RowsFit'  BY <1>1, RowMoves DEF ImportInv
<1> QED  BY <1>2 DEF ImportInv, JobsFit

LEMMA MinIs == ASSUME NEW S \in SUBSET Nat, S # {} PROVE Import!Min(S) \in S
BY LeastIs DEF Import!Min

\* What an action of the job starts from.
LEMMA TheJob ==
    ASSUME ImportInv, NEW j \in job
    PROVE  /\ j \in JobRow /\ JobFits(j) /\ j.run \in DOMAIN runs /\ runs[j.run] \in RunRow
           /\ runs[j.run].status = "running" /\ \A i \in job : i = j
<1>1. JobFits(j) /\ j \in JobRow /\ \A i \in job : i = j  BY DEF ImportInv, JobsFit
<1>2. runs \in Seq(RunRow)  BY DEF ImportInv, RowsFit, ImportTypes
<1>3. j.run \in DOMAIN runs /\ runs[j.run].status = "running"  BY <1>1 DEF JobFits
<1> QED  BY <1>1, <1>2, <1>3

LEMMA PagesFinite == \A S \in SUBSET PdfPages : Cardinality(S) \in Nat
<1>0. MaxPages \in Int /\ 1 \in Int  BY BoundsAssumption
<1>1. IsFiniteSet(PdfPages)  BY <1>0, FS_Interval DEF PdfPages
<1> QED  BY <1>1, FS_Subset, FS_CardinalityType

-----------------------------------------------------------------------------
(* The API: a row is appended or changed while the job goes on.            *)

LEMMA EnqueueKeeps ==
    ASSUME ImportInv, NEW row \in RunRow, row.pending = {}, row.status = "pending",
           Import!Enqueue(row), UNCHANGED <<pdf, stored, cache, raw, job, owner, foreign>>,
           \/ UNCHANGED handing
           \/ /\ handing' = {Len(runs) + 1} /\ row.kind = "escalate" /\ row.of \in DOMAIN runs
    PROVE  ImportInv'
<1>1. runs \in Seq(RunRow) /\ owner \in 0 .. Len(runs) /\ runs' = Append(runs, row)
  BY DEF ImportInv, RowsFit, ImportTypes, Import!Enqueue
<1>2. /\ runs' \in Seq(RunRow) /\ Len(runs) \in Nat /\ Len(runs') = Len(runs) + 1
      /\ DOMAIN runs = 1 .. Len(runs) /\ DOMAIN runs' = 1 .. Len(runs) + 1
      /\ \A q \in DOMAIN runs : runs'[q] = runs[q]
      /\ runs'[Len(runs) + 1] = row
  BY <1>1
<1>3. ImportTypes'  BY <1>1, <1>2 DEF ImportInv, RowsFit, ImportTypes
<1>4. HandingFits'  BY <1>1, <1>2 DEF ImportInv, RowsFit, HandingFits
<1>5. owner # 0 => owner \in DOMAIN runs /\ runs'[owner] = runs[owner]
  BY <1>1, <1>2
<1>6. OwnerFits' /\ CacheFits'  BY <1>5 DEF ImportInv, RowsFit, OwnerFits, CacheFits
<1>7. Import!LostIsListed'
  BY <1>5 DEF ImportInv, RowsFit, Import!LostIsListed, Import!Lost
<1>8. JobsFit'
  <2>1. ASSUME NEW j \in job PROVE JobFits(j)'
    <3>1. JobFits(j)  BY DEF ImportInv, JobsFit
    <3> QED  BY <1>2, <3>1 DEF JobFits
  <2> QED  BY <2>1 DEF ImportInv, JobsFit
<1> QED  BY <1>3, <1>4, <1>6, <1>7, <1>8 DEF ImportInv, RowsFit

LEMMA ApiKeeps ==
    ASSUME ImportInv
    PROVE  /\ \A d \in Docs : Import!ReplacePdf(d) => ImportInv'
           /\ \A force \in BOOLEAN : Import!TriggerRun(force) => ImportInv'
           /\ \A r \in DOMAIN runs : /\ Import!RetryEscalation(r) => ImportInv'
                                     /\ Import!Resume(r) => ImportInv'
           /\ \A r \in DOMAIN runs, what \in {"pause", "cancel"} :
                 Import!Control(r, what) => ImportInv'
           /\ Import!HandOver => ImportInv'
<1> USE DEF ImportInv
<1>t. runs \in Seq(RunRow) /\ DOMAIN runs \subseteq Nat /\ \A r \in DOMAIN runs : runs[r] \in RunRow
  BY DEF RowsFit, ImportTypes
<1>1. ASSUME NEW d \in Docs, Import!ReplacePdf(d) PROVE ImportInv'
  BY <1>1 DEF Import!ReplacePdf, RowsFit, ImportTypes, HandingFits, OwnerFits, CacheFits,
              Import!LostIsListed, Import!Lost, JobsFit, JobFits
<1>2. ASSUME NEW force \in BOOLEAN, Import!TriggerRun(force) PROVE ImportInv'
  <2> DEFINE row == Import!NewRun("extract", force, 0)
  <2>1. row \in RunRow /\ row.pending = {} /\ row.status = "pending"
    BY DEF Import!NewRun, RunRow, DocOrNone
  <2> HIDE DEF row
  <2>2. Import!Enqueue(row) /\ UNCHANGED <<pdf, stored, cache, raw, job, owner, foreign, handing>>
    BY <1>2 DEF Import!TriggerRun, row
  <2> QED  BY <2>1, <2>2, EnqueueKeeps
<1>3. ASSUME NEW r \in DOMAIN runs, Import!RetryEscalation(r) PROVE ImportInv'
  <2> DEFINE row == Import!NewRun("escalate", FALSE, r)
  <2>1. /\ row \in RunRow /\ row.pending = {} /\ row.status = "pending"
        /\ row.kind = "escalate" /\ row.of = r
    BY <1>t DEF Import!NewRun, RunRow, DocOrNone
  <2> HIDE DEF row
  <2>2. /\ Import!Enqueue(row) /\ UNCHANGED <<pdf, stored, cache, raw, job, owner, foreign>>
        /\ handing' = {Len(runs) + 1}
    BY <1>3 DEF Import!RetryEscalation, row
  <2> QED  BY <2>1, <2>2, EnqueueKeeps
<1>4. ASSUME NEW r \in DOMAIN runs, Import!Resume(r) PROVE ImportInv'
  <2> DEFINE row == [runs[r] EXCEPT !.status = "pending"]
  <2>1. /\ runs' = [runs EXCEPT ![r] = row] /\ runs[r].status = "paused"
        /\ UNCHANGED <<pdf, stored, cache, raw, job, handing, owner, foreign>>
    BY <1>4 DEF Import!Resume
  <2>2. /\ row \in RunRow /\ row.kind = runs[r].kind /\ row.of = runs[r].of
        /\ row.status = "pending" /\ row.pending = runs[r].pending
    BY <1>t DEF RunRow
  <2> HIDE DEF row
  <2>3. r \in handing => row.pending = {}  BY <2>2 DEF RowsFit, HandingFits
  <2>4. r = owner /\ row.kind = "escalate" => row.pending # {}
    <3>1. \A q \in DOMAIN runs : q # 0  BY <1>t
    <3> QED  BY <2>1, <2>2, <3>1 DEF RowsFit, OwnerFits
  <2>5. /\ RowsFit' /\ Len(runs') = Len(runs)
        /\ \A q \in DOMAIN runs : runs'[q] = IF q = r THEN row ELSE runs[q]
    BY <2>1, <2>2, <2>3, <2>4, RowMoves
  <2>6. \A j \in job : j.run # r  BY <2>1, TheJob
  <2>7. DOMAIN runs' = DOMAIN runs  BY <2>1
  <2>8. JobsFit'  BY <2>1, <2>2, <2>5, <2>6, <2>7, JobStays
  <2> QED  BY <2>5, <2>8
<1>5. ASSUME NEW r \in DOMAIN runs, NEW what \in {"pause", "cancel"}, Import!Control(r, what)
      PROVE  ImportInv'
  <2> DEFINE row == [runs[r] EXCEPT !.control = what]
  <2>1. /\ runs' = [runs EXCEPT ![r] = row] /\ runs[r].status = "running"
        /\ UNCHANGED <<pdf, stored, cache, raw, job, handing, owner, foreign>>
    BY <1>5 DEF Import!Control
  <2>2. /\ row \in RunRow /\ row.kind = runs[r].kind /\ row.of = runs[r].of
        /\ row.status = "running" /\ row.pending = runs[r].pending
    BY <1>t, <2>1 DEF RunRow
  <2> HIDE DEF row
  <2>3. r \in handing => row.pending = {}  BY <2>2 DEF RowsFit, HandingFits
  <2>4. r = owner /\ row.kind = "escalate" => row.pending # {}
    <3>1. \A q \in DOMAIN runs : q # 0  BY <1>t
    <3> QED  BY <2>1, <2>2, <3>1 DEF RowsFit, OwnerFits
  <2>5. /\ RowsFit' /\ Len(runs') = Len(runs)
        /\ \A q \in DOMAIN runs : runs'[q] = IF q = r THEN row ELSE runs[q]
    BY <2>1, <2>2, <2>3, <2>4, RowMoves
  <2>6. \A j \in job : j.run = r => (j.pending # {} => row.pending # {})
    BY <2>2, TheJob DEF JobFits
  <2>7. DOMAIN runs' = DOMAIN runs  BY <2>1
  <2>8. JobsFit'  BY <2>1, <2>2, <2>5, <2>6, <2>7, JobStays
  <2> QED  BY <2>5, <2>8
<1>6. ASSUME Import!HandOver PROVE ImportInv'
  <2>1. PICK r \in handing :
          /\ runs' = [runs EXCEPT ![r].pending = runs[runs[r].of].pending,
                                  ![r].hash = runs[runs[r].of].hash]
          /\ handing' = {}
          /\ UNCHANGED <<pdf, stored, cache, raw, job, owner, foreign>>
    BY <1>6 DEF Import!HandOver
  <2>2. /\ r \in DOMAIN runs /\ r # owner /\ runs[r].kind = "escalate"
        /\ runs[r].pending = {} /\ runs[r].of \in DOMAIN runs
    BY DEF RowsFit, HandingFits
  <2> DEFINE of == runs[runs[r].of]
             row == [runs[r] EXCEPT !.pending = of.pending, !.hash = of.hash]
  <2>3. /\ row \in RunRow /\ row.kind = runs[r].kind /\ row.of = runs[r].of
        /\ row.status = runs[r].status
    BY <1>t, <2>2 DEF RunRow
  <2>4. runs' = [runs EXCEPT ![r] = row]  BY <1>t, <2>1, <2>2
  <2> HIDE DEF row
  <2>5. /\ RowsFit' /\ Len(runs') = Len(runs)
        /\ \A q \in DOMAIN runs : runs'[q] = IF q = r THEN row ELSE runs[q]
    BY <2>1, <2>2, <2>3, <2>4, RowMoves
  <2>6. \A j \in job : j.run = r => j.pending = {} /\ row.status = "running"
    BY <2>2, <2>3, TheJob DEF JobFits
  <2>7. DOMAIN runs' = DOMAIN runs  BY <2>4
  <2>8. JobsFit'  BY <2>1, <2>2, <2>3, <2>5, <2>6, <2>7, JobStays
  <2> QED  BY <2>5, <2>8
<1> QED  BY <1>1, <1>2, <1>3, <1>4, <1>5, <1>6

-----------------------------------------------------------------------------
(* The job.                                                                *)

LEMMA ClaimKeeps ==
    ASSUME ImportInv, NEW r \in DOMAIN runs,
           Import!ExtractSource(r) \/ Import!RetryEscalationRun(r)
    PROVE  ImportInv'
<1> USE DEF ImportInv
<1>a. PICK kind, at : /\ \/ kind = "extract" /\ at = "acquire"
                         \/ kind = "escalate" /\ at = "retry"
                      /\ Import!Claim(r, kind, at)
  BY DEF Import!ExtractSource, Import!RetryEscalationRun
<1>t. runs \in Seq(RunRow) /\ DOMAIN runs \subseteq Nat /\ 0 \notin DOMAIN runs /\ runs[r] \in RunRow
  BY DEF RowsFit, ImportTypes
<1> DEFINE row == [runs[r] EXCEPT !.status = "running"]
<1>0. PICK new : new = Import!NewJob(r, at)  OBVIOUS
<1>1. /\ runs' = [runs EXCEPT ![r] = row] /\ runs[r].status = "pending" /\ runs[r].kind = kind
      /\ job' = {new} /\ UNCHANGED <<pdf, stored, cache, raw, handing, owner, foreign>>
  BY <1>0, <1>a DEF Import!Claim
<1>2. /\ row \in RunRow /\ row.kind = runs[r].kind /\ row.of = runs[r].of
      /\ row.status = "running" /\ row.pending = runs[r].pending
  BY <1>t, <1>1 DEF RunRow
<1> HIDE DEF row
<1>3. r \in handing => row.pending = {}  BY <1>2 DEF RowsFit, HandingFits
<1>4. r = owner /\ row.kind = "escalate" => row.pending # {}
  BY <1>t, <1>1, <1>2 DEF RowsFit, OwnerFits
<1>5. /\ RowsFit' /\ Len(runs') = Len(runs)
      /\ \A q \in DOMAIN runs : runs'[q] = IF q = r THEN row ELSE runs[q]
  BY <1>1, <1>2, <1>3, <1>4, RowMoves
<1>6. DOMAIN runs' = DOMAIN runs  BY <1>1
<1>7. /\ new \in JobRow /\ new.run = r /\ new.at = at /\ new.pending = runs[r].pending
      /\ new.failed = {} /\ new.page = 1
  <2>1. runs[r].pending \in SUBSET PdfPages /\ runs[r].hash \in DocOrNone /\ r \in Nat
    BY <1>t DEF RunRow
  <2>2. at \in Early  BY <1>a DEF Early
  <2> QED  BY <1>0, <2>1, <2>2 DEF Import!NewJob, JobRow, DocOrNone
<1>8. JobFits(new)'
  <2>1. new.run \in DOMAIN runs' /\ runs'[new.run] = row  BY <1>5, <1>6, <1>7
  <2>2. new.at \in Early /\ new.at \notin Writing /\ new.at \in {"acquire", "retry"}
    BY <1>7, <1>a DEF Early, Writing
  <2>3. new.at = "retry" /\ new.pending = {} => owner' # new.run
    BY <1>1, <1>2, <1>4, <1>7, <1>a
  <2> QED  BY <1>1, <1>2, <1>7, <1>a, <2>1, <2>2, <2>3 DEF JobFits, Early, Writing
<1> QED  BY <1>1, <1>5, <1>7, <1>8 DEF JobsFit

LEMMA AbandonKeeps ==
    ASSUME ImportInv, NEW status \in {"pending", "failed"}, Import!Abandon(status)
    PROVE  ImportInv'
<1>1. PICK j \in job : /\ runs' = Import!Ended(j, status) /\ job' = {}
                       /\ UNCHANGED <<pdf, stored, cache, raw, handing, owner, foreign>>
  BY DEF Import!Abandon
<1> DEFINE row == [runs[j.run] EXCEPT !.status = status]
<1>2. runs' = [runs EXCEPT ![j.run] = row]  BY <1>1 DEF Import!Ended
<1>3. j.run \in DOMAIN runs /\ runs[j.run] \in RunRow /\ JobFits(j) /\ runs[j.run].status = "running"
  BY <1>1, TheJob
<1>4. /\ row \in RunRow /\ row.kind = runs[j.run].kind /\ row.of = runs[j.run].of
      /\ row.status = status /\ row.pending = runs[j.run].pending
  BY <1>3 DEF RunRow
<1> HIDE DEF row
<1>5. j.run \in handing => row.pending = {}
  BY <1>4 DEF ImportInv, RowsFit, HandingFits
<1>6. j.run = owner /\ row.kind = "escalate" => row.pending # {}
  <2>1. \A q \in DOMAIN runs : q # 0  BY DEF ImportInv, RowsFit, ImportTypes
  <2> QED  BY <1>3, <1>4, <2>1 DEF ImportInv, RowsFit, OwnerFits
<1> QED  BY <1>1, <1>2, <1>4, <1>5, <1>6, JobEnds

LEMMA StoppedKeeps ==
    ASSUME ImportInv, NEW kind, NEW status,
           status.pause \in {"paused", "cancelled"}, status.cancel = "cancelled",
           Import!Stopped(kind, status)
    PROVE  ImportInv'
<1>1. PICK j \in job :
        /\ ~Import!Free(j) /\ job' = {}
        /\ runs' = [Import!Ended(j, status[runs[j.run].control]) EXCEPT ![j.run].control = ""]
        /\ UNCHANGED <<pdf, stored, cache, raw, handing, owner, foreign>>
  BY DEF Import!Stopped
<1>3. /\ j.run \in DOMAIN runs /\ runs[j.run] \in RunRow /\ JobFits(j)
      /\ runs[j.run].status = "running" /\ runs \in Seq(RunRow)
  BY <1>1, TheJob DEF ImportInv, RowsFit, ImportTypes
<1> DEFINE s == status[runs[j.run].control]
           row == [runs[j.run] EXCEPT !.status = s, !.control = ""]
<1>2. runs' = [runs EXCEPT ![j.run] = row]
  BY <1>1, <1>3 DEF Import!Ended
<1>s. s \in {"paused", "cancelled"}
  <2>1. runs[j.run].control \in {"pause", "cancel"}
    BY <1>1, <1>3 DEF Import!Free, RunRow
  <2> QED  BY <2>1
<1>4. /\ row \in RunRow /\ row.kind = runs[j.run].kind /\ row.of = runs[j.run].of
      /\ row.status = s /\ row.pending = runs[j.run].pending
  BY <1>3, <1>s DEF RunRow
<1> HIDE DEF row, s
<1>5. j.run \in handing => row.pending = {}
  BY <1>4 DEF ImportInv, RowsFit, HandingFits
<1>6. j.run = owner /\ row.kind = "escalate" => row.pending # {}
  <2>1. \A q \in DOMAIN runs : q # 0  BY DEF ImportInv, RowsFit, ImportTypes
  <2> QED  BY <1>3, <1>4, <2>1 DEF ImportInv, RowsFit, OwnerFits
<1>7. row.status # "completed"  BY <1>s, <1>4
<1> QED  BY <1>1, <1>2, <1>4, <1>5, <1>6, <1>7, JobEnds

LEMMA CompletesKeeps ==
    ASSUME ImportInv, Import!FastPath \/ Import!Commit \/ Import!NothingPending
    PROVE  ImportInv'
<1>1. CASE Import!FastPath
  <2>1. PICK j \in job :
          /\ j.at = "acquire" /\ job' = {}
          /\ runs' = [Import!Ended(j, "completed") EXCEPT ![j.run].hash = pdf]
          /\ foreign' = IF j.run = owner THEN foreign \cup {j.run} ELSE foreign
          /\ UNCHANGED <<pdf, stored, cache, raw, handing, owner>>
    BY <1>1 DEF Import!FastPath, Import!AcquirePdf
  <2>2. /\ j.run \in DOMAIN runs /\ runs[j.run] \in RunRow /\ JobFits(j)
        /\ runs \in Seq(RunRow) /\ pdf \in Docs
    BY <2>1, TheJob DEF ImportInv, RowsFit, ImportTypes
  <2> DEFINE row == [runs[j.run] EXCEPT !.status = "completed", !.hash = pdf]
  <2>3. runs' = [runs EXCEPT ![j.run] = row]  BY <2>1, <2>2 DEF Import!Ended
  <2>4. /\ row \in RunRow /\ row.kind = runs[j.run].kind /\ row.of = runs[j.run].of
        /\ row.status = "completed" /\ row.pending = runs[j.run].pending
    BY <2>2 DEF RunRow, DocOrNone
  <2> HIDE DEF row
  <2>5. j.run \in handing => row.pending = {}
    BY <2>4 DEF ImportInv, RowsFit, HandingFits
  <2>6. foreign \subseteq foreign' /\ (j.run = owner => j.run \in foreign')  BY <2>1
  <2> QED  BY <2>1, <2>3, <2>4, <2>5, <2>6, JobEnds
<1>2. CASE Import!Commit
  <2>1. PICK j \in job :
          /\ j.at = "commit" /\ job' = {}
          /\ runs' = [Import!Ended(j, "completed") EXCEPT ![j.run].hash = j.doc,
                                                          ![j.run].pending = j.failed]
          /\ UNCHANGED <<pdf, stored, cache, raw, handing, owner, foreign>>
    BY <1>2 DEF Import!Commit
  <2>2. /\ j.run \in DOMAIN runs /\ runs[j.run] \in RunRow /\ JobFits(j) /\ j \in JobRow
        /\ runs \in Seq(RunRow)
    BY <2>1, TheJob DEF ImportInv, RowsFit, ImportTypes
  <2> DEFINE row == [runs[j.run] EXCEPT !.status = "completed", !.hash = j.doc,
                                        !.pending = j.failed]
  <2>3. runs' = [runs EXCEPT ![j.run] = row]  BY <2>1, <2>2 DEF Import!Ended
  <2>4. /\ row \in RunRow /\ row.kind = runs[j.run].kind /\ row.of = runs[j.run].of
        /\ row.status = "completed" /\ row.pending = j.failed
    BY <2>2 DEF RunRow, JobRow
  <2> HIDE DEF row
  <2>5. j.run \notin handing
    BY <2>1, <2>2 DEF ImportInv, RowsFit, HandingFits, JobFits, Early
  <2>6. j.run \in foreign \/ Import!Lost \subseteq row.pending
    <3>1. SUFFICES ASSUME j.run \notin foreign, NEW p \in PdfPages, stored[p].lost
                   PROVE  p \in j.failed
      BY <2>4 DEF Import!Lost, Import!Pages, PdfPages
    <3>2. p < j.page
      BY <2>1, <2>2, BoundsAssumption DEF JobFits, PdfPages, JobRow
    <3> QED  BY <2>1, <2>2, <3>1, <3>2 DEF JobFits, Early, Writing
  <2> QED  BY <2>1, <2>3, <2>4, <2>5, <2>6, JobEnds
<1>3. CASE Import!NothingPending
  <2>1. PICK j \in job :
          /\ j.at = "retry" /\ j.pending = {} /\ job' = {}
          /\ runs' = [Import!Ended(j, "completed") EXCEPT ![j.run].pending = {}]
          /\ UNCHANGED <<pdf, stored, cache, raw, handing, owner, foreign>>
    BY <1>3 DEF Import!NothingPending
  <2>2. /\ j.run \in DOMAIN runs /\ runs[j.run] \in RunRow /\ JobFits(j)
        /\ runs \in Seq(RunRow)
    BY <2>1, TheJob DEF ImportInv, RowsFit, ImportTypes
  <2> DEFINE row == [runs[j.run] EXCEPT !.status = "completed", !.pending = {}]
  <2>3. runs' = [runs EXCEPT ![j.run] = row]  BY <2>1, <2>2 DEF Import!Ended
  <2>4. /\ row \in RunRow /\ row.kind = runs[j.run].kind /\ row.of = runs[j.run].of
        /\ row.status = "completed" /\ row.pending = {}
    BY <2>2 DEF RunRow
  <2> HIDE DEF row
  <2>5. j.run # owner  BY <2>1, <2>2 DEF JobFits
  <2> QED  BY <2>1, <2>3, <2>4, <2>5, JobEnds
<1> QED  BY <1>1, <1>2, <1>3

LEMMA ConvertKeeps ==
    ASSUME ImportInv,
           \/ Import!Acquire
           \/ \E lost \in SUBSET PdfPages : \E ragged \in SUBSET (PdfPages \ lost) :
                 Import!Convert(lost, ragged)
    PROVE  ImportInv'
<1>1. CASE Import!Acquire
  <2>1. PICK j \in job : /\ j.at = "acquire" /\ job' = {[j EXCEPT !.at = "convert", !.doc = pdf]}
           /\ UNCHANGED <<pdf, runs, stored, cache, raw, handing, owner, foreign>>
    BY <1>1 DEF Import!Acquire, Import!AcquirePdf
  <2>2. PICK new : new = [j EXCEPT !.at = "convert", !.doc = pdf]  OBVIOUS
  <2>3. j \in JobRow /\ JobFits(j) /\ pdf \in Docs
    BY <2>1, TheJob DEF ImportInv, RowsFit, ImportTypes
  <2>4. /\ new \in JobRow /\ new.at = "convert" /\ new.doc \in Docs /\ new.run = j.run
        /\ new.failed = j.failed /\ new.page = j.page /\ new.pending = j.pending
    BY <2>2, <2>3 DEF JobRow, DocOrNone, Early
  <2>5. runs[j.run].kind # "escalate"  BY <2>1, <2>3 DEF JobFits
  <2>6. JobFits(new)'
    BY <2>1, <2>3, <2>4, <2>5 DEF JobFits, Early, Writing
  <2> QED  BY <2>1, <2>2, <2>4, <2>6, JobMoves DEF ImportInv
<1>2. ASSUME NEW lost \in SUBSET PdfPages, NEW ragged \in SUBSET (PdfPages \ lost),
             Import!Convert(lost, ragged)
      PROVE  ImportInv'
  <2>1. PICK j \in job :
           /\ j.at \in {"convert", "reconvert"}
           /\ job' = {[j EXCEPT !.at = "escalate", !.lost = lost, !.todo = lost \cup ragged,
                                !.budget = Budget]}
           /\ UNCHANGED <<pdf, runs, stored, cache, raw, handing, owner, foreign>>
    BY <1>2 DEF Import!Convert, Import!Flagged
  <2>2. PICK new : new = [j EXCEPT !.at = "escalate", !.lost = lost, !.todo = lost \cup ragged,
                                   !.budget = Budget]  OBVIOUS
  <2>3. j \in JobRow /\ JobFits(j)
    BY <2>1, TheJob
  <2>4. /\ new \in JobRow /\ new.at = "escalate" /\ new.doc = j.doc /\ new.run = j.run
        /\ new.lost \subseteq new.todo
        /\ new.failed = j.failed /\ new.page = j.page /\ new.pending = j.pending
    <3>1. Budget \in Int /\ lost \cup ragged \in SUBSET PdfPages  BY BoundsAssumption
    <3> QED  BY <2>2, <2>3, <3>1 DEF JobRow
  <2>5. runs[j.run].kind = "escalate" => j.pending # {}  BY <2>1, <2>3 DEF JobFits
  <2>6. JobFits(new)'
    BY <2>1, <2>3, <2>4, <2>5 DEF JobFits, Early, Writing
  <2> QED  BY <2>1, <2>2, <2>4, <2>6, JobMoves DEF ImportInv
<1> QED  BY <1>1, <1>2

LEMMA EscalateKeeps ==
    ASSUME ImportInv, Import!SkipPage \/ Import!EscalatePage \/ Import!Rebuild
    PROVE  ImportInv'
<1>1. CASE Import!SkipPage \/ Import!EscalatePage
  <2>1. PICK j \in job :
           /\ j.at = "escalate" /\ j.todo # {}
           /\ \/ job' = {[j EXCEPT !.todo = @ \ {Import!Min(j.todo)},
                                   !.failed = Import!Deferred(j, Import!Min(j.todo))]}
              \/ job' = {Import!Recovered(j, Import!Min(j.todo))}
              \/ job' = {Import!Refused(j, Import!Min(j.todo))}
           /\ UNCHANGED <<pdf, runs, stored, cache, raw, handing, owner, foreign>>
    BY <1>1 DEF Import!SkipPage, Import!EscalatePage
  <2>2. j \in JobRow /\ JobFits(j)
    BY <2>1, TheJob
  <2>3. PICK p : p = Import!Min(j.todo)  OBVIOUS
  <2>4. p \in PdfPages
    <3>1. j.todo \in SUBSET Nat /\ j.todo \subseteq PdfPages
      BY <2>2, BoundsAssumption DEF JobRow, PdfPages
    <3> QED  BY <2>1, <2>3, <3>1, MinIs
  <2>5. PICK new :
           /\ job' = {new}
           /\ \/ new = [j EXCEPT !.todo = @ \ {p}, !.failed = Import!Deferred(j, p)]
              \/ new = Import!Recovered(j, p)
              \/ new = Import!Refused(j, p)
    BY <2>1, <2>3
  <2>6. /\ new \in JobRow /\ new.at = "escalate" /\ new.doc = j.doc /\ new.run = j.run
        /\ new.page = j.page /\ new.pending = j.pending
        /\ j.lost \subseteq j.todo \cup j.failed => new.lost \subseteq new.todo \cup new.failed
    <3>1. CASE new = [j EXCEPT !.todo = @ \ {p}, !.failed = Import!Deferred(j, p)]
      BY <2>1, <2>2, <2>4, <3>1 DEF JobRow, Import!Deferred
    <3>2. CASE new = Import!Recovered(j, p)
      <4>1. /\ new.todo = j.todo \ {p} /\ new.lost = j.lost \ {p} /\ new.failed = j.failed
            /\ new.at = j.at /\ new.doc = j.doc /\ new.run = j.run
            /\ new.page = j.page /\ new.pending = j.pending
        BY <2>2, <3>2 DEF JobRow, Import!Recovered
      <4>2. j.budget - 1 \in Int /\ {j.todo \ {p}, j.lost \ {p}} \subseteq SUBSET PdfPages
        BY <2>2 DEF JobRow
      <4>3. PICK budget \in Int, todo \in SUBSET PdfPages, lost \in SUBSET PdfPages :
               new = [j EXCEPT !.todo = todo, !.lost = lost, !.streak = 0, !.budget = budget]
        BY <3>2, <4>2 DEF Import!Recovered
      <4>4. new \in JobRow  BY <2>2, <4>3 DEF JobRow
      <4> QED  BY <2>1, <4>1, <4>4
    <3>3. CASE new = Import!Refused(j, p)
      <4>1. /\ new.todo = j.todo \ {p} /\ new.lost = j.lost /\ new.failed = j.failed \cup {p}
            /\ new.at = j.at /\ new.doc = j.doc /\ new.run = j.run
            /\ new.page = j.page /\ new.pending = j.pending
        BY <2>2, <3>3 DEF JobRow, Import!Refused
      <4>2. j.streak + 1 \in Nat /\ {j.todo \ {p}, j.failed \cup {p}} \subseteq SUBSET PdfPages
        BY <2>2, <2>4 DEF JobRow
      <4>3. PICK streak \in Nat, todo \in SUBSET PdfPages, failed \in SUBSET PdfPages :
               new = [j EXCEPT !.todo = todo, !.failed = failed, !.streak = streak]
        BY <3>3, <4>2 DEF Import!Refused
      <4>4. new \in JobRow  BY <2>2, <4>3 DEF JobRow
      <4> QED  BY <2>1, <4>1, <4>4
    <3> QED  BY <2>5, <3>1, <3>2, <3>3
  <2>7. JobFits(new)'
    BY <2>1, <2>2, <2>6 DEF JobFits, Early, Writing
  <2> QED  BY <2>1, <2>5, <2>6, <2>7, JobMoves DEF ImportInv
<1>2. CASE Import!Rebuild
  <2>1. PICK j \in job :
           /\ j.at = "escalate" /\ j.todo = {} /\ job' = {[j EXCEPT !.at = "persist"]}
           /\ UNCHANGED <<pdf, runs, stored, cache, raw, handing, owner, foreign>>
    BY <1>2 DEF Import!Rebuild
  <2>2. PICK new : new = [j EXCEPT !.at = "persist"]  OBVIOUS
  <2>3. j \in JobRow /\ JobFits(j)
    BY <2>1, TheJob
  <2>4. /\ new \in JobRow /\ new.at = "persist" /\ new.doc = j.doc /\ new.run = j.run
        /\ new.lost = j.lost /\ new.todo = {}
        /\ new.failed = j.failed /\ new.page = 1 /\ new.pending = j.pending
    BY <2>1, <2>2, <2>3 DEF JobRow, JobFits, Writing
  <2>5. JobFits(new)'
    BY <2>1, <2>3, <2>4 DEF JobFits, Early, Writing, PdfPages
  <2> QED  BY <2>1, <2>2, <2>4, <2>5, JobMoves DEF ImportInv
<1> QED  BY <1>1, <1>2

LEMMA ReadCacheKeeps == ASSUME ImportInv, Import!ReadCache PROVE ImportInv'
<1>1. PICK j \in job :
        LET d == Import!BytesOf(j)
        IN  /\ j.at = "retry" /\ j.pending # {}
            /\ IF cache[d] = {}
               THEN /\ job' = {[j EXCEPT !.at = "reconvert", !.doc = d]}
                    /\ UNCHANGED foreign
               ELSE LET entry == CHOOSE x \in cache[d] : TRUE
                    IN  /\ job' = {[j EXCEPT !.at = "escalate", !.doc = d,
                                      !.lost = entry.lost, !.todo = j.pending,
                                      !.budget = Import!Cardinality(j.pending)]}
                        /\ foreign' = IF entry.listed \subseteq j.pending /\ ~entry.foreign
                                      THEN foreign ELSE foreign \cup {j.run}
            /\ UNCHANGED <<pdf, runs, stored, cache, raw, handing, owner>>
  BY DEF Import!ReadCache, Import!Load, Import!The
<1>2. PICK d : d = Import!BytesOf(j)  OBVIOUS
<1>3. /\ j \in JobRow /\ JobFits(j) /\ cache \in [Docs -> SUBSET Entry] /\ CacheFits
  BY <1>1, TheJob DEF ImportInv, RowsFit, ImportTypes
<1>4. d \in Docs
  BY <1>2 DEF Import!BytesOf, Import!LoadPdf, Import!AcquirePdf, ImportInv, RowsFit, ImportTypes
<1>5. j.pending # {} /\ j.failed = {} /\ j.page = 1
  BY <1>1, <1>3 DEF JobFits, Early, Writing
<1>6. CASE cache[d] = {}
  <2>1. PICK new : new = [j EXCEPT !.at = "reconvert", !.doc = d]  OBVIOUS
  <2>2. /\ new \in JobRow /\ new.at = "reconvert" /\ new.doc \in Docs /\ new.run = j.run
        /\ new.failed = {} /\ new.page = 1 /\ new.pending = j.pending
    BY <1>3, <1>4, <1>5, <2>1 DEF JobRow, DocOrNone, Early
  <2>3. job' = {new} /\ UNCHANGED <<pdf, runs, stored, cache, raw, handing, owner, foreign>>
    BY <1>1, <1>2, <1>6, <2>1
  <2>4. runs[j.run].kind # "extract"  BY <1>1, <1>3 DEF JobFits
  <2>5. JobFits(new)'
    BY <1>3, <1>5, <2>2, <2>3, <2>4 DEF JobFits, Early, Writing
  <2> QED  BY <2>2, <2>3, <2>5, JobMoves DEF ImportInv
<1>7. CASE cache[d] # {}
  <2>1. PICK e \in cache[d] : e = CHOOSE x \in cache[d] : TRUE  BY <1>7
  <2>2. PICK new : new = [j EXCEPT !.at = "escalate", !.doc = d, !.lost = e.lost,
                             !.todo = j.pending, !.budget = Import!Cardinality(j.pending)]
    OBVIOUS
  <2>3. /\ job' = {new} /\ UNCHANGED <<pdf, runs, stored, cache, raw, handing, owner>>
        /\ foreign' = IF e.listed \subseteq j.pending /\ ~e.foreign
                      THEN foreign ELSE foreign \cup {j.run}
    BY <1>1, <1>2, <1>7, <2>1, <2>2
  <2>4. e \in Entry /\ (e.foreign \/ e.lost \subseteq e.listed)
    BY <1>3, <1>4, <2>1 DEF CacheFits
  <2>5. Import!Cardinality(j.pending) \in Int
    <3>1. \A S : Import!Cardinality(S) = Cardinality(S)
      BY Zenon DEF Import!Cardinality, Cardinality
    <3>2. j.pending \in SUBSET PdfPages  BY <1>3 DEF JobRow
    <3> QED  BY <3>1, <3>2, PagesFinite
  <2>6. /\ new \in JobRow /\ new.at = "escalate" /\ new.doc \in Docs /\ new.run = j.run
        /\ new.lost = e.lost /\ new.todo = j.pending
        /\ new.failed = {} /\ new.page = 1 /\ new.pending = j.pending
    BY <1>3, <1>4, <1>5, <2>2, <2>4, <2>5 DEF JobRow, DocOrNone, Entry
  <2>7. j.run \in foreign' \/ e.lost \subseteq j.pending  BY <2>3, <2>4
  <2>8. JobFits(new)'
    BY <1>3, <1>5, <2>3, <2>6, <2>7 DEF JobFits, Early, Writing
  <2> QED  BY <2>3, <2>6, <2>8, JobMoves DEF ImportInv
<1> QED  BY <1>6, <1>7

LEMMA PersistKeeps == ASSUME ImportInv, Import!PersistPage PROVE ImportInv'
<1>1. PICK j \in job :
        /\ j.at = "persist" /\ j.page <= MaxPages
        /\ stored' = [stored EXCEPT ![j.page] = [doc |-> j.doc, lost |-> j.page \in j.lost]]
        /\ job' = {[j EXCEPT !.page = @ + 1]}
        /\ owner' = j.run
        /\ UNCHANGED <<pdf, runs, cache, raw, handing, foreign>>
  BY DEF Import!PersistPage
<1>2. /\ j \in JobRow /\ JobFits(j) /\ j.run \in DOMAIN runs
      /\ runs[j.run].status = "running" /\ runs \in Seq(RunRow)
      /\ stored \in [PdfPages -> [doc : DocOrNone, lost : BOOLEAN]]
  BY <1>1, TheJob DEF ImportInv, RowsFit, ImportTypes
<1>3. PICK new : new = [j EXCEPT !.page = @ + 1]  OBVIOUS
<1>4. /\ new \in JobRow /\ new.at = "persist" /\ new.doc = j.doc /\ new.run = j.run
      /\ new.lost = j.lost /\ new.todo = j.todo /\ new.failed = j.failed
      /\ new.page = j.page + 1 /\ new.pending = j.pending /\ j.page \in Nat
  <2>1. j.page + 1 \in Nat  BY <1>2 DEF JobRow
  <2> QED  BY <1>1, <1>2, <1>3, <2>1 DEF JobRow
<1>5. PICK row : row = [doc |-> j.doc, lost |-> j.page \in j.lost]  OBVIOUS
<1>6. row \in [doc : DocOrNone, lost : BOOLEAN] /\ (row.lost <=> j.page \in j.lost)
  <2>1. PICK b \in BOOLEAN : b <=> j.page \in j.lost  OBVIOUS
  <2>2. b = (j.page \in j.lost)  BY <2>1
  <2>3. row = [doc |-> j.doc, lost |-> b]  BY <1>5, <2>2
  <2> QED  BY <1>2, <2>1, <2>3 DEF JobRow
<1>7. stored' = [stored EXCEPT ![j.page] = row]  BY <1>1, <1>5
<1>8. /\ stored' \in [PdfPages -> [doc : DocOrNone, lost : BOOLEAN]]
      /\ \A p \in PdfPages : stored'[p] = IF p = j.page THEN row ELSE stored[p]
  BY <1>2, <1>6, <1>7
<1>9. \A p \in PdfPages : p < j.page + 1 => p < j.page \/ p = j.page
  BY <1>4 DEF PdfPages
<1>10. runs[j.run].kind = "escalate" => j.pending # {} /\ runs[j.run].pending # {}
  BY <1>1, <1>2 DEF JobFits
<1>11. JobFits(new)'
  <2>1. \A p \in PdfPages : p < new.page /\ stored'[p].lost => p \in new.lost
    BY <1>1, <1>2, <1>4, <1>6, <1>8, <1>9 DEF JobFits, Writing
  <2> QED  BY <1>1, <1>2, <1>4, <2>1 DEF JobFits, Early, Writing
<1>12. JobsFit'  BY <1>1, <1>3, <1>4, <1>11 DEF JobsFit
<1>13. ImportTypes'  BY <1>1, <1>2, <1>8 DEF ImportInv, RowsFit, ImportTypes
<1>14. HandingFits'
  <2>1. j.run \notin handing  BY <1>10 DEF ImportInv, RowsFit, HandingFits
  <2> QED  BY <1>1, <2>1 DEF ImportInv, RowsFit, HandingFits
<1>15. OwnerFits' /\ CacheFits' /\ Import!LostIsListed'
  BY <1>1, <1>2, <1>10 DEF ImportInv, RowsFit, OwnerFits, CacheFits, Import!LostIsListed
<1> QED  BY <1>12, <1>13, <1>14, <1>15 DEF ImportInv, RowsFit

LEMMA CacheKeeps ==
    ASSUME ImportInv, NEW doc \in BOOLEAN, NEW bytes \in BOOLEAN, Import!CacheDoc(doc, bytes)
    PROVE  ImportInv'
<1>1. PICK j \in job :
        /\ j.at = "persist" /\ j.page > MaxPages
        /\ IF j.failed = {}
           THEN cache' = Import!Delete(j.doc) /\ raw' = Import!DeletePdf(j.doc)
           ELSE cache' = Import!Save(j.doc, Import!Kept(j), doc) /\ raw' = Import!SavePdf(j.doc, bytes)
        /\ job' = {[j EXCEPT !.at = "commit"]}
        /\ UNCHANGED <<pdf, runs, stored, handing, owner, foreign>>
  BY DEF Import!CacheDoc
<1>2. /\ j \in JobRow /\ JobFits(j) /\ cache \in [Docs -> SUBSET Entry] /\ raw \subseteq Docs
      /\ CacheFits
  BY <1>1, TheJob DEF ImportInv, RowsFit, ImportTypes
<1>3. PICK new : new = [j EXCEPT !.at = "commit"]  OBVIOUS
<1>4. /\ new \in JobRow /\ new.at = "commit" /\ new.doc = j.doc /\ new.run = j.run
      /\ new.lost = j.lost /\ new.todo = j.todo /\ new.failed = j.failed
      /\ new.page = j.page /\ new.pending = j.pending
  BY <1>1, <1>2, <1>3 DEF JobRow, Writing
<1>5. JobFits(new)'
  BY <1>1, <1>2, <1>4 DEF JobFits, Early, Writing
<1>6. j.doc \in Docs /\ (j.run \in foreign \/ j.lost \subseteq j.failed)
  BY <1>1, <1>2 DEF JobFits, Early, Writing
<1>7. PICK e : e = Import!Kept(j)  OBVIOUS
<1>8. e \in Entry /\ (e.foreign \/ e.lost \subseteq e.listed)
  <2>1. PICK b \in BOOLEAN : b <=> j.run \in foreign  OBVIOUS
  <2>2. b = (j.run \in foreign)  BY <2>1
  <2>3. e = [listed |-> j.failed, foreign |-> b, lost |-> j.lost]
    BY <1>7, <2>2 DEF Import!Kept
  <2> QED  BY <1>2, <1>6, <2>1, <2>3 DEF Entry, JobRow
<1>9. \/ UNCHANGED cache
      \/ cache' = [cache EXCEPT ![j.doc] = {}]
      \/ cache' = [cache EXCEPT ![j.doc] = {e}]
  BY <1>1, <1>7 DEF Import!Delete, Import!Save
<1>10. cache' \in [Docs -> SUBSET Entry] /\ CacheFits'
  <2>1. CASE UNCHANGED cache  BY <1>2, <2>1 DEF CacheFits
  <2>2. CASE cache' = [cache EXCEPT ![j.doc] = {}]  BY <1>2, <2>2 DEF CacheFits
  <2>3. CASE cache' = [cache EXCEPT ![j.doc] = {e}]  BY <1>2, <1>8, <2>3 DEF CacheFits
  <2> QED  BY <1>9, <2>1, <2>2, <2>3
<1>11. raw' \subseteq Docs  BY <1>1, <1>2, <1>6 DEF Import!DeletePdf, Import!SavePdf
<1>12. RowsFit'
  BY <1>1, <1>10, <1>11 DEF ImportInv, RowsFit, ImportTypes, HandingFits, OwnerFits,
                            Import!LostIsListed, Import!Lost
<1>13. JobsFit'  BY <1>1, <1>3, <1>4, <1>5 DEF JobsFit
<1> QED  BY <1>12, <1>13 DEF ImportInv

LEMMA ImportKept == ASSUME ImportInv, Import!Next PROVE ImportInv'
<1>1. Import!Pages = PdfPages  BY DEF Import!Pages, PdfPages
<1>2. ASSUME NEW r \in DOMAIN runs, Import!ExtractSource(r) \/ Import!RetryEscalationRun(r)
      PROVE  ImportInv'
  BY <1>2, ClaimKeeps
<1>3. ASSUME NEW status \in {"pending", "failed"}, Import!Abandon(status) PROVE ImportInv'
  BY <1>3, AbandonKeeps
<1>4. CASE Import!StopExtract
  <2> DEFINE status == [pause |-> "paused", cancel |-> "cancelled"]
  <2>1. status.pause = "paused" /\ status.cancel = "cancelled"  OBVIOUS
  <2>2. Import!Stopped("extract", status)  BY <1>4 DEF Import!StopExtract
  <2> HIDE DEF status
  <2> QED  BY <2>1, <2>2, StoppedKeeps
<1>5. CASE Import!StopRetry
  <2> DEFINE status == [pause |-> "cancelled", cancel |-> "cancelled"]
  <2>1. status.pause = "cancelled" /\ status.cancel = "cancelled"  OBVIOUS
  <2>2. Import!Stopped("escalate", status)  BY <1>5 DEF Import!StopRetry
  <2> HIDE DEF status
  <2> QED  BY <2>1, <2>2, StoppedKeeps
<1>6. CASE \/ \E lost \in SUBSET Import!Pages : \E ragged \in SUBSET (Import!Pages \ lost) :
                 Import!Convert(lost, ragged)
           \/ Import!Acquire
  BY <1>1, <1>6, ConvertKeeps
<1>7. CASE \E doc, bytes \in BOOLEAN : Import!CacheDoc(doc, bytes)
  BY <1>7, CacheKeeps
<1>8. CASE \/ \E d \in Docs : Import!ReplacePdf(d)
           \/ \E force \in BOOLEAN : Import!TriggerRun(force)
           \/ \E r \in DOMAIN runs : Import!RetryEscalation(r) \/ Import!Resume(r)
           \/ \E r \in DOMAIN runs, what \in {"pause", "cancel"} : Import!Control(r, what)
           \/ Import!HandOver
  BY <1>8, ApiKeeps
<1>9. CASE \/ Import!FastPath \/ Import!SkipPage \/ Import!EscalatePage \/ Import!Rebuild
           \/ Import!PersistPage \/ Import!Commit \/ Import!NothingPending \/ Import!ReadCache
  BY <1>9, CompletesKeeps, EscalateKeeps, PersistKeeps, ReadCacheKeeps
<1> QED
  BY <1>2, <1>3, <1>4, <1>5, <1>6, <1>7, <1>8, <1>9 DEF Import!Next

\* Every article whose content was lost is on the list of the run that wrote it, over
\* the budget and the breaker of the escalation, cached documents, lost workers and
\* retries of retries; a retry on a document cached with another list, and a run
\* that wrote and then found the PDF as it had been before, are out (pdf_import.py,
\* pdf_escalate.py, pdf_cache.py).
THEOREM LostPagesAreListed == ContentsSpec => []LostIsListed
<1> DEFINE I == part = "import" => ImportInv
<1>1. ContentsInit => I
  BY ImportStarts DEF ContentsInit
<1>2. I /\ [ContentsNext]_contentVars => I'
  <2> SUFFICES ASSUME I, [ContentsNext]_contentVars, part' = "import" PROVE ImportInv'
    OBVIOUS
  <2>1. CASE UNCHANGED contentVars
    <3>1. UNCHANGED importVars /\ ImportInv  BY <2>1 DEF contentVars
    <3> QED
      BY <3>1 DEF importVars, ImportInv, RowsFit, ImportTypes, HandingFits, OwnerFits, CacheFits,
                  Import!LostIsListed, Import!Lost, JobsFit, JobFits
  <2>2. CASE ContentsNext
    <3>1. Import!Next /\ ImportInv  BY <2>2 DEF ContentsNext
    <3> QED  BY <3>1, ImportKept
  <2> QED  BY <2>1, <2>2
<1>3. I => LostIsListed
  BY DEF LostIsListed, ImportInv, RowsFit
<1> QED  BY <1>1, <1>2, <1>3, PTL DEF ContentsSpec
-----------------------------------------------------------------------------
(* The conversion of a PDF.                                                *)

TaskRow == [first : Int, last : Int, status : {"unknown", "pending", "success", "failure"}]
PageRow == [page : Int, number : Int]

ConvertTypes ==
    /\ task \in [Convert!Tasks -> TaskRow] /\ given \in Nat
    /\ docs \in Seq(Seq(PageRow))
    /\ leg \in {"submit", "poll", "result"}

\* The task that the client asks for is that of its batch, unless it was lost.
AskingFits ==
    engine = "none" /\ leg # "submit" =>
        /\ asking \in Convert!Tasks
        /\ task[asking].status # "unknown" =>
              task[asking].first = Convert!First /\ task[asking].last = Convert!LastPage

PageAt(m) == docs[m[1]][m[2]]
InOrder(m, n) == m[1] < n[1] \/ (m[1] = n[1] /\ m[2] < n[2])

\* The batches so far have the pages before the next batch, each under its number.
DocsFit ==
    /\ \A m \in Convert!Merged : PageAt(m).number = PageAt(m).page /\ PageAt(m).page < Convert!First
    /\ \A m, n \in Convert!Merged : InOrder(m, n) => PageAt(m).page < PageAt(n).page
    /\ ~partly => \A p \in 1 .. PageCount :
                     p < Convert!First => \E m \in Convert!Merged : PageAt(m).page = p

EngineFits == engine = "docling" => Convert!First > PageCount

ConvertInv == ConvertTypes /\ AskingFits /\ DocsFit /\ EngineFits

LEMMA FirstIs ==
    ASSUME ConvertTypes
    PROVE  /\ Convert!First \in Nat \ {0} /\ Convert!First = Len(docs) * BatchPages + 1
           /\ Convert!LastPage \in Int /\ Convert!LastPage <= PageCount
           /\ Convert!LastPage <= Convert!First + BatchPages - 1
           /\ Convert!LastPage = PageCount \/ Convert!LastPage = Convert!First + BatchPages - 1
<1>1. Len(docs) \in Nat /\ BatchPages \in Nat /\ PageCount \in Nat
  BY BoundsAssumption, SizesAssumption DEF ConvertTypes
<1>2. Len(docs) * BatchPages \in Nat  BY <1>1
<1>3. Convert!First = Len(docs) * BatchPages + 1  BY <1>1 DEF Convert!First, Convert!Batch
<1> QED  BY <1>1, <1>2, <1>3 DEF Convert!LastPage, Convert!AtMost

LEMMA MergedIs ==
    \A m : m \in Convert!Merged <=> \E b \in DOMAIN docs : \E i \in DOMAIN docs[b] : m = <<b, i>>
BY DEF Convert!Merged

LEMMA ConvertStarts == Convert!Init => ConvertInv
<1> SUFFICES ASSUME Convert!Init PROVE ConvertInv  OBVIOUS
<1>1. /\ task = [t \in Convert!Tasks |-> Convert!Unknown] /\ given = 0 /\ docs = <<>>
      /\ leg = "submit" /\ engine = "none" /\ partly = FALSE
  BY DEF Convert!Init
<1>2. Convert!Unknown \in TaskRow  BY DEF Convert!Unknown, TaskRow
<1>3. <<>> \in Seq(Seq(PageRow)) /\ Len(<<>>) = 0 /\ DOMAIN <<>> = {}  OBVIOUS
<1>4. ConvertTypes  BY <1>1, <1>2, <1>3 DEF ConvertTypes
<1>5. Convert!Merged = {}  BY <1>1, <1>3, MergedIs
<1>6. Convert!First = 1
  <2>1. 0 * BatchPages = 0  BY SizesAssumption
  <2> QED  BY <1>1, <1>3, <1>4, <2>1, FirstIs
<1>7. DocsFit  BY <1>5, <1>6 DEF DocsFit
<1> QED  BY <1>1, <1>4, <1>7 DEF ConvertInv, AskingFits, EngineFits

\* The client goes on at the same batch, or gives up on docling-serve.
LEMMA SameBatch ==
    ASSUME ConvertInv, task' \in [Convert!Tasks -> TaskRow], given' \in Nat,
           leg' \in {"submit", "poll", "result"},
           UNCHANGED partly, UNCHANGED docs \/ docs' = <<>>,
           engine' = "docling" => docs' = docs /\ Convert!First > PageCount,
           engine' = "none" /\ leg' # "submit" =>
               /\ docs' = docs /\ asking' \in Convert!Tasks
               /\ task'[asking'].status # "unknown" =>
                     task'[asking'].first = Convert!First /\ task'[asking'].last = Convert!LastPage
    PROVE  ConvertInv'
<1>1. <<>> \in Seq(Seq(PageRow)) /\ Len(<<>>) = 0 /\ DOMAIN <<>> = {}  OBVIOUS
<1>2. ConvertTypes'  BY <1>1 DEF ConvertInv, ConvertTypes
<1>3. \A m : m \in Convert!Merged' <=> \E b \in DOMAIN docs' : \E i \in DOMAIN docs'[b] : m = <<b, i>>
  BY DEF Convert!Merged
<1>4. CASE docs' = docs
  <2>1. /\ Convert!First' = Convert!First /\ Convert!LastPage' = Convert!LastPage
        /\ Convert!Merged' = Convert!Merged
    BY <1>4 DEF Convert!First, Convert!Batch, Convert!LastPage, Convert!AtMost, Convert!Merged
  <2>2. DocsFit'  BY <1>4, <2>1 DEF ConvertInv, DocsFit, PageAt
  <2>3. AskingFits'  BY <2>1 DEF AskingFits
  <2> QED  BY <1>2, <2>1, <2>2, <2>3 DEF ConvertInv, EngineFits
<1>5. CASE docs' = <<>> /\ docs' # docs
  <2>1. Convert!Merged' = {}  BY <1>1, <1>3, <1>5
  <2>2. Convert!First' = 1
    <3>1. 0 * BatchPages = 0  BY SizesAssumption
    <3>2. Convert!First' = (Len(docs') + 1 - 1) * BatchPages + 1
      BY DEF Convert!First, Convert!Batch
    <3> QED  BY <1>1, <1>5, <3>1, <3>2
  <2>3. DocsFit'  BY <2>1, <2>2 DEF DocsFit
  <2>4. AskingFits' /\ EngineFits'  BY <1>5 DEF AskingFits, EngineFits
  <2> QED  BY <1>2, <2>3, <2>4 DEF ConvertInv
<1> QED  BY <1>4, <1>5

\* What a step of the client that fetches nothing may do.
Same == UNCHANGED <<leg, asking, docs, engine, partly>>
GivesUp == docs' = <<>> /\ engine' = "pymupdf" /\ UNCHANGED <<leg, partly>>
Resubmits == leg' = "submit" /\ UNCHANGED <<asking, docs, engine, partly>>

LEMMA BlipIs == Convert!Blip => Same \/ GivesUp
BY DEF Convert!Blip, Convert!FallBack, Same, GivesUp

LEMMA LostIs == Convert!TaskLost => Resubmits \/ GivesUp
BY DEF Convert!TaskLost, Convert!FallBack, Resubmits, GivesUp

LEMMA FetchKeeps ==
    ASSUME ConvertInv, NEW order \in Convert!Orders, leg = "result", engine = "none",
           task[asking].status = "success", UNCHANGED <<Convert!server, engine>>, leg' = "submit",
           \A i \in DOMAIN order : order[i] \in task[asking].first .. task[asking].last,
           docs' = Append(docs, Convert!Document(asking, order)),
           partly' = (partly \/ {order[i] : i \in DOMAIN order} # task[asking].first .. task[asking].last)
    PROVE  ConvertInv'
<1>t. ConvertTypes /\ docs \in Seq(Seq(PageRow)) /\ PageCount \in Nat /\ BatchPages \in Nat \ {0}
  BY BoundsAssumption, SizesAssumption DEF ConvertInv, ConvertTypes
<1>b. PICK B \in Nat : B = Len(docs) + 1 /\ Len(docs) \in Nat  BY <1>t
<1>1. task[asking].first = Convert!First /\ task[asking].last = Convert!LastPage
  BY DEF ConvertInv, AskingFits
<1>2. PICK first \in Nat \ {0}, last \in Int : first = Convert!First /\ last = Convert!LastPage
  BY <1>t, FirstIs
<1>3. PICK n \in Nat : order \in [1 .. n -> 1 .. PageCount] /\ \A i, j \in 1 .. n : i < j => order[i] < order[j]
  <2>1. /\ order \in UNION {[1 .. n -> 1 .. PageCount] : n \in 0 .. PageCount}
        /\ \A i, j \in DOMAIN order : i < j => order[i] < order[j]
    BY DEF Convert!Orders
  <2>2. PICK n \in 0 .. PageCount : order \in [1 .. n -> 1 .. PageCount]  BY <2>1
  <2>3. n \in Nat /\ DOMAIN order = 1 .. n  BY <1>t, <2>2
  <2> QED  BY <2>1, <2>2, <2>3
<1>4. PICK d \in Seq(PageRow) :
          /\ d = Convert!Document(asking, order) /\ DOMAIN d = 1 .. n
          /\ \A i \in 1 .. n : d[i].page = order[i] /\ d[i].number = order[i]
  <2> DEFINE e == Convert!Document(asking, order)
  <2>1. Convert!Offset = first - 1  BY <1>2 DEF Convert!Offset
  <2>2. /\ e = [i \in 1 .. n |-> [page |-> order[i], number |-> order[i] - first + 1 + (first - 1)]]
    BY <1>1, <1>2, <1>3, <2>1 DEF Convert!Document
  <2> HIDE DEF e
  <2>3. \A i \in 1 .. n : order[i] \in Int /\ order[i] - first + 1 + (first - 1) = order[i]
    BY <1>2, <1>3
  <2>4. e = [i \in 1 .. n |-> [page |-> order[i], number |-> order[i]]]
    BY <2>2, <2>3
  <2>5. e \in [1 .. n -> PageRow]  BY <2>3, <2>4 DEF PageRow
  <2>6. e \in Seq(PageRow)  BY <2>5
  <2> WITNESS e \in Seq(PageRow)
  <2> QED  BY <2>4 DEF e
<1>5. /\ docs' = Append(docs, d) /\ docs' \in Seq(Seq(PageRow)) /\ Len(docs') = Len(docs) + 1
      /\ Len(docs) \in Nat /\ DOMAIN docs = 1 .. Len(docs) /\ DOMAIN docs' = 1 .. Len(docs) + 1
      /\ docs'[Len(docs) + 1] = d /\ \A b \in 1 .. Len(docs) : docs'[b] = docs[b]
  BY <1>t, <1>4
<1>6. ConvertTypes'  BY <1>t, <1>5 DEF ConvertTypes, Convert!server
<1>7. Convert!First' = first + BatchPages
  <2>1. Convert!First' = (Len(docs') + 1 - 1) * BatchPages + 1
    BY DEF Convert!First, Convert!Batch
  <2>2. first = Len(docs) * BatchPages + 1  BY <1>2, <1>t, FirstIs
  <2>3. (Len(docs) + 1) * BatchPages = Len(docs) * BatchPages + BatchPages  BY <1>t, <1>5
  <2> QED  BY <1>t, <1>5, <2>1, <2>2, <2>3
<1>8. /\ last <= PageCount /\ last <= first + BatchPages - 1
      /\ last = PageCount \/ last = first + BatchPages - 1
  BY <1>2, <1>t, FirstIs
<1>9. \A m : m \in Convert!Merged' <=> m \in Convert!Merged \/ \E i \in 1 .. n : m = <<B, i>>
  <2>1. \A m : m \in Convert!Merged' <=> \E b \in DOMAIN docs' : \E i \in DOMAIN docs'[b] : m = <<b, i>>
    BY DEF Convert!Merged
  <2>2. /\ DOMAIN docs' = DOMAIN docs \cup {B} /\ DOMAIN docs'[B] = 1 .. n
        /\ \A b \in DOMAIN docs : docs'[b] = docs[b]
    BY <1>4, <1>5, <1>b
  <2>3. \A m : m \in Convert!Merged' <=> \/ \E b \in DOMAIN docs : \E i \in DOMAIN docs'[b] : m = <<b, i>>
                                        \/ \E i \in DOMAIN docs'[B] : m = <<B, i>>
    BY <2>1, <2>2, Zenon
  <2>4. \A m : (\E b \in DOMAIN docs : \E i \in DOMAIN docs'[b] : m = <<b, i>>) <=> m \in Convert!Merged
    BY <2>2, MergedIs
  <2> QED  BY <2>2, <2>3, <2>4
<1>10. \A m \in Convert!Merged : m[1] \in 1 .. Len(docs) /\ PageAt(m)' = PageAt(m)
  BY <1>5, MergedIs DEF PageAt
<1>11. \A i \in 1 .. n : /\ PageAt(<<B, i>>)' = d[i] /\ d[i].page = order[i] /\ d[i].number = order[i]
                         /\ order[i] \in first .. last
  BY <1>1, <1>2, <1>3, <1>4, <1>5, <1>b DEF PageAt
<1>12. /\ \A m \in Convert!Merged : PageAt(m).number = PageAt(m).page /\ PageAt(m).page < first
       /\ \A m, k \in Convert!Merged : InOrder(m, k) => PageAt(m).page < PageAt(k).page
       /\ ~partly => \A p \in 1 .. PageCount :
                        p < first => \E m \in Convert!Merged : PageAt(m).page = p
  BY <1>2 DEF ConvertInv, DocsFit
<1>i. \A m \in Convert!Merged : PageAt(m).page \in Int
  <2> TAKE m \in Convert!Merged
  <2>1. PICK b \in DOMAIN docs : \E i \in DOMAIN docs[b] : m = <<b, i>>  BY MergedIs
  <2>2. PICK i \in DOMAIN docs[b] : m = <<b, i>>  BY <2>1
  <2>3. docs[b] \in Seq(PageRow)  BY <1>t
  <2>4. docs[b][i] \in PageRow  BY <2>3
  <2> QED  BY <2>2, <2>4 DEF PageAt, PageRow
<1>13. \A m \in Convert!Merged' : PageAt(m)'.number = PageAt(m)'.page /\ PageAt(m)'.page < first + BatchPages
  <2> TAKE m \in Convert!Merged'
  <2>1. CASE m \in Convert!Merged  BY <1>t, <1>2, <1>10, <1>12, <1>i, <2>1
  <2>2. ASSUME NEW i \in 1 .. n, m = <<B, i>>
        PROVE  PageAt(m)'.number = PageAt(m)'.page /\ PageAt(m)'.page < first + BatchPages
    BY <1>t, <1>2, <1>8, <1>11, <2>2
  <2> QED  BY <1>9, <2>1, <2>2
<1>14. \A m, k \in Convert!Merged' : InOrder(m, k) => PageAt(m)'.page < PageAt(k)'.page
  <2> SUFFICES ASSUME NEW m \in Convert!Merged', NEW k \in Convert!Merged', InOrder(m, k)
               PROVE  PageAt(m)'.page < PageAt(k)'.page
    OBVIOUS
  <2>1. CASE m \in Convert!Merged /\ k \in Convert!Merged  BY <1>10, <1>12, <2>1
  <2>2. CASE m \in Convert!Merged /\ k \notin Convert!Merged
    <3>1. PICK i \in 1 .. n : k = <<B, i>>  BY <1>9, <2>2
    <3> QED  BY <1>10, <1>11, <1>12, <1>i, <1>2, <2>2, <3>1
  <2>3. CASE m \notin Convert!Merged /\ k \in Convert!Merged
    <3>1. PICK i \in 1 .. n : m = <<B, i>>  BY <1>9, <2>3
    <3> QED  BY <1>5, <1>b, <1>10, <2>3, <3>1 DEF InOrder
  <2>4. CASE m \notin Convert!Merged /\ k \notin Convert!Merged
    <3>1. PICK i \in 1 .. n : m = <<B, i>>  BY <1>9, <2>4
    <3>2. PICK j \in 1 .. n : k = <<B, j>>  BY <1>9, <2>4
    <3>3. i < j  BY <1>5, <3>1, <3>2 DEF InOrder
    <3> QED  BY <1>3, <1>11, <3>1, <3>2, <3>3
  <2> QED  BY <2>1, <2>2, <2>3, <2>4
<1>15. ASSUME ~partly', NEW p \in 1 .. PageCount, p < first + BatchPages
       PROVE  \E m \in Convert!Merged' : PageAt(m)'.page = p
  <2>1. CASE p < first
    <3>1. PICK m \in Convert!Merged : PageAt(m).page = p  BY <1>12, <1>15, <2>1
    <3> QED  BY <1>9, <1>10, <3>1
  <2>2. CASE p >= first
    <3>1. p \in first .. last  BY <1>t, <1>2, <1>8, <1>15, <2>2
    <3>2. PICK i \in DOMAIN order : order[i] = p  BY <1>1, <1>2, <1>15, <3>1
    <3>3. i \in 1 .. n  BY <1>3
    <3>4. <<B, i>> \in Convert!Merged'  BY <1>9, <3>3
    <3> QED  BY <1>11, <3>2, <3>3, <3>4
  <2> QED  BY <1>2, <2>1, <2>2
<1>16. DocsFit'  BY <1>7, <1>13, <1>14, <1>15 DEF DocsFit
<1> QED  BY <1>6, <1>16 DEF ConvertInv, AskingFits, EngineFits

LEMMA ConvertKept == ASSUME ConvertInv, Convert!Next PROVE ConvertInv'
<1>t. /\ task \in [Convert!Tasks -> TaskRow] /\ given \in Nat /\ leg \in {"submit", "poll", "result"}
      /\ MaxTasks \in Nat
  BY BoundsAssumption DEF ConvertInv, ConvertTypes
<1>a. engine = "none" /\ leg # "submit" =>
          /\ asking \in Convert!Tasks
          /\ task[asking].status # "unknown" =>
                task[asking].first = Convert!First /\ task[asking].last = Convert!LastPage
  BY DEF ConvertInv, AskingFits
<1>e. engine = "docling" => Convert!First > PageCount  BY DEF ConvertInv, EngineFits
<1>s. ASSUME UNCHANGED Convert!server, Same PROVE ConvertInv'
  BY <1>t, <1>a, <1>e, <1>s, SameBatch DEF Same, Convert!server
<1>g. ASSUME UNCHANGED Convert!server, GivesUp PROVE ConvertInv'
  BY <1>t, <1>g, SameBatch DEF GivesUp, Convert!server
<1>r. ASSUME engine = "none", UNCHANGED Convert!server, Resubmits PROVE ConvertInv'
  BY <1>t, <1>r, SameBatch DEF Resubmits, Convert!server
<1>1. CASE Convert!First <= PageCount /\ Convert!Submit
  <2>1. /\ engine = "none" /\ leg = "submit" /\ given < MaxTasks /\ given' = given + 1
        /\ task' = [task EXCEPT ![given + 1] = Convert!Given]
    BY <1>1 DEF Convert!Submit, Convert!Converting
  <2>2. /\ Convert!Given \in TaskRow
        /\ Convert!Given.first = Convert!First /\ Convert!Given.last = Convert!LastPage
    BY FirstIs DEF ConvertInv, Convert!Given, TaskRow
  <2>3. given + 1 \in Convert!Tasks  BY <1>t, <2>1 DEF Convert!Tasks
  <2>4. /\ task' \in [Convert!Tasks -> TaskRow] /\ given' \in Nat
        /\ task'[given + 1] = Convert!Given
    BY <1>t, <2>1, <2>2, <2>3
  <2>5. CASE leg' = "poll" /\ asking' = given + 1 /\ UNCHANGED <<docs, engine, partly>>
    BY <2>1, <2>2, <2>3, <2>4, <2>5, SameBatch
  <2>6. CASE Same  BY <2>1, <2>4, <2>6, SameBatch DEF Same
  <2>7. CASE GivesUp  BY <2>1, <2>4, <2>7, SameBatch DEF GivesUp
  <2>8. Convert!FallBack => GivesUp  BY DEF Convert!FallBack, GivesUp
  <2> QED  BY <1>1, <2>5, <2>6, <2>7, <2>8, BlipIs DEF Convert!Submit
<1>2. CASE Convert!Fail
  <2>1. engine = "none" /\ UNCHANGED Convert!server /\ (Convert!Blip \/ Convert!TaskLost)
    BY <1>2 DEF Convert!Fail, Convert!Converting
  <2> QED  BY <1>s, <1>g, <1>r, <2>1, BlipIs, LostIs
<1>3. CASE Convert!Poll
  <2>1. engine = "none" /\ UNCHANGED Convert!server
    BY <1>3 DEF Convert!Poll, Convert!Converting
  <2>2. \/ Convert!TaskLost \/ GivesUp \/ Same
        \/ leg = "poll" /\ leg' = "result" /\ UNCHANGED <<asking, docs, engine, partly>>
    BY <1>3 DEF Convert!Poll, Convert!FallBack, GivesUp, Same
  <2>3. CASE leg = "poll" /\ leg' = "result" /\ UNCHANGED <<asking, docs, engine, partly>>
    BY <1>t, <1>a, <2>1, <2>3, SameBatch DEF Convert!server
  <2> QED  BY <1>s, <1>g, <1>r, <2>1, <2>2, <2>3, LostIs
<1>4. ASSUME NEW order \in Convert!Orders, Convert!Fetch(order) PROVE ConvertInv'
  <2>1. engine = "none" /\ leg = "result" /\ UNCHANGED Convert!server
    BY <1>4 DEF Convert!Fetch, Convert!Converting
  <2>2. CASE Convert!TaskLost  BY <1>g, <1>r, <2>1, <2>2, LostIs
  <2>3. CASE Convert!FallBack
    BY <1>g, <2>1, <2>3 DEF Convert!FallBack, GivesUp
  <2>4. CASE /\ task[asking].status = "success"
             /\ {order[i] : i \in DOMAIN order} \subseteq task[asking].first .. task[asking].last
             /\ docs' = Append(docs, Convert!Document(asking, order))
             /\ partly' = (partly \/ {order[i] : i \in DOMAIN order} # task[asking].first .. task[asking].last)
             /\ leg' = "submit" /\ UNCHANGED engine
    BY <2>1, <2>4, FetchKeeps
  <2> QED  BY <1>4, <2>2, <2>3, <2>4, Zenon DEF Convert!Fetch
<1>5. CASE Convert!Expire
  BY <1>s, <1>5 DEF Convert!Expire, Same, Convert!server
<1>6. CASE Convert!Finish
  <2>1. /\ Convert!First > PageCount /\ engine' \in {"pymupdf", "docling"}
        /\ UNCHANGED <<task, given, leg, docs, partly>>
    BY <1>6 DEF Convert!Finish, Convert!server
  <2> QED  BY <1>t, <2>1, SameBatch
<1>7. CASE Convert!Restart
  <2>1. task' = [t \in Convert!Tasks |-> Convert!Unknown] /\ UNCHANGED <<given, leg, asking, docs, engine, partly>>
    BY <1>7 DEF Convert!Restart
  <2>2. Convert!Unknown \in TaskRow /\ Convert!Unknown.status = "unknown"
    BY DEF Convert!Unknown, TaskRow
  <2>3. task' \in [Convert!Tasks -> TaskRow] /\ \A t \in Convert!Tasks : task'[t].status = "unknown"
    BY <2>1, <2>2
  <2> QED  BY <1>t, <1>a, <1>e, <2>1, <2>3, SameBatch
<1>8. ASSUME NEW t \in Convert!Tasks, Convert!Work(t) PROVE ConvertInv'
  <2>1. PICK now \in {"success", "failure"} : task' = [task EXCEPT ![t].status = now]
    BY <1>8 DEF Convert!Work
  <2>2. /\ task[t].status = "pending" /\ UNCHANGED <<given, leg, asking, docs, engine, partly>>
    BY <1>8 DEF Convert!Work
  <2> DEFINE row == [task[t] EXCEPT !.status = now]
  <2>3. row \in TaskRow /\ row.first = task[t].first /\ row.last = task[t].last
    BY <1>t, <2>1 DEF TaskRow
  <2>4. task' = [task EXCEPT ![t] = row]  BY <1>t, <2>1
  <2> HIDE DEF row
  <2>5. task' \in [Convert!Tasks -> TaskRow] /\ \A u \in Convert!Tasks : task'[u] = IF u = t THEN row ELSE task[u]
    BY <1>t, <2>3, <2>4
  <2>6. \A u \in Convert!Tasks : /\ task'[u].first = task[u].first /\ task'[u].last = task[u].last
                                 /\ task'[u].status # "unknown" => task[u].status # "unknown"
    BY <2>2, <2>3, <2>5
  <2> QED  BY <1>t, <1>a, <1>e, <2>2, <2>5, <2>6, SameBatch
<1> QED
  BY <1>1, <1>2, <1>3, <1>4, <1>5, <1>6, <1>7, <1>8 DEF Convert!Next

\* Whatever was lost, retried or submitted twice, the text of a PDF that docling-serve
\* converted has its pages in their order, each once, under its own number, and lacks one
\* only if docling-serve left it out (docling_client.py, _convert_docling_batched).
THEOREM PagesStayTheirOwn == ContentsSpec => []PagesAreTheirOwn
<1> DEFINE I == part = "convert" => ConvertInv
<1>1. ContentsInit => I
  BY ConvertStarts DEF ContentsInit
<1>2. I /\ [ContentsNext]_contentVars => I'
  <2> SUFFICES ASSUME I, [ContentsNext]_contentVars, part' = "convert" PROVE ConvertInv'
    OBVIOUS
  <2>1. CASE UNCHANGED contentVars
    <3>1. UNCHANGED convertVars /\ ConvertInv  BY <2>1 DEF contentVars
    <3> QED
      BY <3>1, SameBatch DEF convertVars, ConvertInv, ConvertTypes, AskingFits, EngineFits
  <2>2. CASE ContentsNext
    <3>1. Convert!Next /\ ConvertInv  BY <2>2 DEF ContentsNext
    <3> QED  BY <3>1, ConvertKept
  <2> QED  BY <2>1, <2>2
<1>3. I => PagesAreTheirOwn
  <2> SUFFICES ASSUME ConvertInv PROVE Convert!PagesAreTheirOwn
    BY DEF PagesAreTheirOwn
  <2>1. PageCount \in Nat /\ Convert!First \in Nat
    BY BoundsAssumption, FirstIs DEF ConvertInv
  <2>2. engine = "docling" => \A p \in 1 .. PageCount : p < Convert!First
    BY <2>1 DEF ConvertInv, EngineFits
  <2> QED  BY <2>2 DEF ConvertInv, DocsFit, PageAt, InOrder, Convert!PagesAreTheirOwn
<1> QED  BY <1>1, <1>2, <1>3, PTL DEF ContentsSpec
-----------------------------------------------------------------------------
(* The list of articles, page by page.                                     *)

ListTypes ==
    /\ place \in [Pager!Articles -> Nat] /\ steady \in SUBSET Pager!Articles
    /\ cursor \in Nat \X Nat /\ sent \in Seq(Pager!Articles)

IsSent(a) == \E i \in DOMAIN sent : sent[i] = a

\* What kept its place is sent when the cursor is past it, and once.
SteadyFits ==
    \A a \in steady :
        /\ place[a] # 0
        /\ \A i, j \in DOMAIN sent : sent[i] = a /\ sent[j] = a => i = j
        /\ IF walk = "over" THEN IsSent(a) ELSE IsSent(a) <=> ~Pager!After(a)

ListInv == ListTypes /\ SteadyFits

LEMMA ListStarts == Pager!Init => ListInv
<1> SUFFICES ASSUME Pager!Init PROVE ListInv  OBVIOUS
<1>1. /\ place \in [Pager!Articles -> 0 .. MaxPlace] /\ walk = "start" /\ cursor = <<0, 0>>
      /\ sent = <<>> /\ steady = Pager!Listed
  BY DEF Pager!Init
<1>2. MaxPlace \in Nat /\ MaxId \in Nat  BY BoundsAssumption
<1>3. place \in [Pager!Articles -> Nat]  BY <1>1, <1>2
<1>4. steady \in SUBSET Pager!Articles /\ \A a \in steady : place[a] # 0
  BY <1>1 DEF Pager!Listed, Pager!Absent
<1>5. ListTypes  BY <1>1, <1>3, <1>4 DEF ListTypes
<1>6. ASSUME NEW a \in steady PROVE Pager!After(a)
  <2>1. a \in Nat /\ place[a] \in Nat \ {0}  BY <1>2, <1>3, <1>4 DEF Pager!Articles
  <2> QED  BY <1>1, <2>1 DEF Pager!After, Pager!Before
<1>7. DOMAIN sent = {}  BY <1>1
<1> QED  BY <1>1, <1>4, <1>5, <1>6, <1>7 DEF ListInv, SteadyFits, IsSent

LEMMA PageKeeps ==
    ASSUME ListInv, walk # "over", NEW rows \in Pager!Answers, Pager!Rows(rows),
           sent' = sent \o Pager!Items(rows),
           walk' = (IF Pager!HasMore(rows) THEN "on" ELSE "over"),
           cursor' = Pager!NextCursor(rows), UNCHANGED <<place, steady>>
    PROVE  ListInv'
<1>t. /\ place \in [Pager!Articles -> Nat] /\ steady \in SUBSET Pager!Articles
      /\ cursor \in Nat \X Nat /\ sent \in Seq(Pager!Articles)
      /\ PageLimit \in Nat \ {0} /\ Pager!Articles \subseteq Nat
  <2>1. MaxId \in Nat  BY BoundsAssumption
  <2>2. Pager!Articles \subseteq Nat  BY <2>1 DEF Pager!Articles
  <2>3. PageLimit \in Nat \ {0}  BY SizesAssumption
  <2>4. ListTypes  BY DEF ListInv
  <2> QED  BY <2>2, <2>3, <2>4 DEF ListTypes
<1> DEFINE key(a) == <<place[a], a>>
<1>1. PICK n \in 0 .. PageLimit + 1 : rows \in [1 .. n -> Pager!Articles]
  BY DEF Pager!Answers
<1>2. n \in Nat /\ Len(rows) = n /\ rows \in Seq(Pager!Articles) /\ DOMAIN rows = 1 .. n
  BY <1>t, <1>1
<1>3. PICK k \in 0 .. PageLimit : k = IF n > PageLimit THEN PageLimit ELSE n
  BY <1>t, <1>1, <1>2
<1>4. PICK some \in Seq(Pager!Articles) :
          some = Pager!Items(rows) /\ Len(some) = k /\ \A i \in 1 .. k : some[i] = rows[i]
  <2>1. CASE n > PageLimit
    <3>1. Pager!Items(rows) = SubSeq(rows, 1, PageLimit)
      BY <1>2, <2>1 DEF Pager!Items, Pager!HasMore
    <3>2. PageLimit \in 1 .. Len(rows) /\ 1 \in 1 .. Len(rows)  BY <1>t, <1>2, <2>1
    <3>3. /\ SubSeq(rows, 1, PageLimit) \in Seq(Pager!Articles)
          /\ Len(SubSeq(rows, 1, PageLimit)) = PageLimit
          /\ \A i \in 1 .. PageLimit : SubSeq(rows, 1, PageLimit)[i] = rows[i]
      BY <1>t, <1>2, <3>2
    <3> QED  BY <1>3, <2>1, <3>1, <3>3
  <2>2. CASE ~(n > PageLimit)
    <3>1. Pager!Items(rows) = rows  BY <1>2, <2>2 DEF Pager!Items, Pager!HasMore
    <3> QED  BY <1>2, <1>3, <2>2, <3>1
  <2> QED  BY <2>1, <2>2
<1>5. PICK m \in Nat : m = Len(sent)  BY <1>t
<1>6. /\ sent' \in Seq(Pager!Articles) /\ DOMAIN sent' = 1 .. m + k /\ DOMAIN sent = 1 .. m
      /\ \A i \in 1 .. m : sent'[i] = sent[i]
      /\ \A i \in m + 1 .. m + k : sent'[i] = rows[i - m]
  <2>1. sent' = sent \o some  BY <1>4
  <2>2. /\ sent' \in Seq(Pager!Articles) /\ DOMAIN sent' = 1 .. m + k /\ DOMAIN sent = 1 .. m
        /\ \A i \in 1 .. m : sent'[i] = sent[i]
        /\ \A i \in m + 1 .. m + k : sent'[i] = some[i - m]
    BY <1>t, <1>3, <1>4, <1>5, <2>1
  <2>3. \A i \in m + 1 .. m + k : i - m \in 1 .. k  BY <1>3, <1>5
  <2> QED  BY <1>4, <2>2, <2>3
<1>7. \A a : IsSent(a)' <=> IsSent(a) \/ \E i \in 1 .. k : rows[i] = a
  <2>1. \A i \in 1 .. k : m + i \in m + 1 .. m + k /\ (m + i) - m = i /\ m + i \in 1 .. m + k
    BY <1>3, <1>5
  <2>2. \A i \in 1 .. m + k : i \in 1 .. m \/ (i \in m + 1 .. m + k /\ i - m \in 1 .. k)
    BY <1>3, <1>5
  <2>3. 1 .. m \subseteq 1 .. m + k  BY <1>3, <1>5
  <2>4. ASSUME NEW a, NEW i \in 1 .. k, rows[i] = a PROVE IsSent(a)'
    BY <1>6, <2>1, <2>4 DEF IsSent
  <2>5. ASSUME NEW a, IsSent(a) PROVE IsSent(a)'
    BY <1>6, <2>3, <2>5 DEF IsSent
  <2>6. ASSUME NEW a, IsSent(a)' PROVE IsSent(a) \/ \E i \in 1 .. k : rows[i] = a
    BY <1>6, <2>2, <2>6 DEF IsSent
  <2> QED  BY <2>4, <2>5, <2>6
<1>8. /\ \A i \in 1 .. n : rows[i] \in Pager!Listed /\ Pager!After(rows[i])
      /\ \A i, j \in 1 .. n : i < j => Pager!Before(key(rows[i]), key(rows[j]))
      /\ \A a \in Pager!Listed : Pager!After(a) /\ (\A i \in 1 .. n : rows[i] # a) =>
            n = PageLimit + 1 /\ \A i \in 1 .. n : Pager!Before(key(rows[i]), key(a))
  BY <1>2 DEF Pager!Rows, Pager!Encode
<1>9. 1 .. k \subseteq 1 .. n  BY <1>1, <1>2, <1>3, <1>t
<1>10. \A a \in steady : /\ a \in Nat /\ place[a] \in Nat /\ a \in Pager!Listed
                         /\ IsSent(a) <=> ~Pager!After(a)
  BY <1>t DEF ListInv, SteadyFits, Pager!Listed, Pager!Absent
<1>11. ASSUME NEW a \in steady, NEW i \in DOMAIN sent', NEW j \in DOMAIN sent',
              sent'[i] = a, sent'[j] = a
       PROVE  i = j
  <2>1. CASE i \in 1 .. m /\ j \in 1 .. m
    BY <1>6, <1>11, <2>1 DEF ListInv, SteadyFits
  <2>2. \A x \in 1 .. m : sent'[x] = a => ~Pager!After(a)
    BY <1>6, <1>10 DEF IsSent
  <2>3. \A x \in m + 1 .. m + k : x - m \in 1 .. n /\ (sent'[x] = a => rows[x - m] = a)
    BY <1>3, <1>5, <1>6, <1>9
  <2>4. CASE i \in m + 1 .. m + k /\ j \in m + 1 .. m + k
    <3>1. ~Pager!Before(key(a), key(a))  BY <1>10 DEF Pager!Before
    <3>2. i - m \in 1 .. n /\ j - m \in 1 .. n /\ rows[i - m] = a /\ rows[j - m] = a
      BY <1>11, <2>3, <2>4
    <3>3. ~(i - m < j - m) /\ ~(j - m < i - m)  BY <1>8, <3>1, <3>2
    <3> QED  BY <1>3, <1>5, <2>4, <3>3
  <2>5. \A x \in m + 1 .. m + k : sent'[x] = a => Pager!After(a)
    BY <1>8, <2>3
  <2>6. \A x \in DOMAIN sent' : x \in 1 .. m \/ x \in m + 1 .. m + k
    BY <1>3, <1>5, <1>6
  <2> QED  BY <1>11, <2>1, <2>2, <2>4, <2>5, <2>6
<1>12. CASE Pager!HasMore(rows)
  <2>1. n = PageLimit + 1 /\ k = PageLimit /\ walk' = "on"
    BY <1>t, <1>1, <1>2, <1>3, <1>12 DEF Pager!HasMore
  <2>2. PageLimit \in 1 .. n /\ PageLimit \in 1 .. k  BY <1>t, <2>1
  <2>3. PICK b \in Pager!Articles : b = rows[PageLimit] /\ b \in Nat /\ place[b] \in Nat
    BY <1>t, <1>1, <2>2
  <2>4. cursor' = key(b)  BY <1>12, <2>3 DEF Pager!NextCursor, Pager!Encode
  <2>5. ListTypes'  BY <1>t, <1>6, <2>3, <2>4 DEF ListTypes
  <2>6. \A a : Pager!After(a)' <=> Pager!Before(key(b), key(a))
    BY <2>4 DEF Pager!After
  <2>7. ASSUME NEW a \in steady PROVE IsSent(a)' <=> ~Pager!After(a)'
    <3>1. CASE IsSent(a)
      <4>1. ~Pager!After(a) /\ Pager!After(b)  BY <1>8, <1>10, <2>2, <2>3, <3>1
      <4>2. ~Pager!Before(key(b), key(a))
        BY <1>t, <1>10, <2>3, <4>1 DEF Pager!After, Pager!Before
      <4> QED  BY <1>7, <2>6, <3>1, <4>2
    <3>2. ASSUME NEW i \in 1 .. k, rows[i] = a PROVE ~Pager!After(a)'
      <4>1. CASE i = PageLimit
        BY <1>10, <2>3, <2>6, <3>2, <4>1 DEF Pager!Before
      <4>2. CASE i < PageLimit
        <5>1. Pager!Before(key(a), key(b))  BY <1>8, <1>9, <2>2, <2>3, <3>2, <4>2
        <5> QED  BY <1>10, <2>3, <2>6, <5>1 DEF Pager!Before
      <4> QED  BY <2>1, <4>1, <4>2, <1>t
    <3>3. CASE ~IsSent(a) /\ \A i \in 1 .. k : rows[i] # a
      <4>1. Pager!After(a)  BY <1>10, <3>3
      <4>2. CASE rows[n] = a
        <5>1. n \in 1 .. n /\ PageLimit < n  BY <1>t, <2>1
        <5> QED  BY <1>7, <1>8, <2>2, <2>3, <2>6, <3>3, <4>2, <5>1
      <4>3. CASE rows[n] # a
        <5>1. \A i \in 1 .. n : rows[i] # a  BY <1>t, <2>1, <3>3, <4>3
        <5> QED  BY <1>7, <1>8, <1>10, <2>2, <2>3, <2>6, <3>3, <4>1, <5>1
      <4> QED  BY <4>2, <4>3
    <3> QED  BY <1>7, <3>1, <3>2, <3>3
  <2>8. SteadyFits'
    BY <1>11, <2>1, <2>7 DEF SteadyFits, ListInv
  <2> QED  BY <2>5, <2>8 DEF ListInv
<1>13. CASE ~Pager!HasMore(rows)
  <2>1. n <= PageLimit /\ k = n /\ walk' = "over" /\ cursor' = cursor
    BY <1>t, <1>1, <1>2, <1>3, <1>13 DEF Pager!HasMore, Pager!NextCursor
  <2>2. ListTypes'  BY <1>t, <1>6, <2>1 DEF ListTypes
  <2>3. ASSUME NEW a \in steady PROVE IsSent(a)'
    <3>1. CASE IsSent(a)  BY <1>7, <3>1
    <3>2. CASE ~IsSent(a)
      <4>1. Pager!After(a) /\ a \in Pager!Listed  BY <1>10, <3>2
      <4>2. n # PageLimit + 1  BY <1>t, <1>2, <2>1
      <4>3. PICK i \in 1 .. n : rows[i] = a  BY <1>8, <4>1, <4>2
      <4> QED  BY <1>7, <2>1, <4>3
    <3> QED  BY <3>1, <3>2
  <2>4. SteadyFits'
    BY <1>11, <2>1, <2>3 DEF SteadyFits, ListInv
  <2> QED  BY <2>2, <2>4 DEF ListInv
<1> QED  BY <1>12, <1>13

LEMMA ListKept == ASSUME ListInv, Pager!Next PROVE ListInv'
<1>1. ASSUME NEW a \in Pager!Articles, NEW at \in 1 .. MaxPlace, Pager!Store(a, at)
      PROVE  ListInv'
  <2>1. /\ place' = [place EXCEPT ![a] = at] /\ steady' = steady \ {a}
        /\ UNCHANGED <<walk, cursor, sent>> /\ at \in Nat
    BY <1>1, BoundsAssumption DEF Pager!Store
  <2>2. /\ place' \in [Pager!Articles -> Nat]
        /\ \A b \in Pager!Articles : b # a => place'[b] = place[b]
    BY <2>1 DEF ListInv, ListTypes
  <2>3. ListTypes'  BY <2>1, <2>2 DEF ListInv, ListTypes
  <2>4. ASSUME NEW b \in steady'
        PROVE  /\ b \in steady /\ place'[b] = place[b]
               /\ IsSent(b)' <=> IsSent(b)
               /\ Pager!After(b)' <=> Pager!After(b)
    <3>1. b \in steady /\ b # a /\ b \in Pager!Articles  BY <2>1 DEF ListInv, ListTypes
    <3>2. place'[b] = place[b]  BY <2>2, <3>1
    <3> QED  BY <2>1, <3>1, <3>2 DEF IsSent, Pager!After
  <2>5. SteadyFits'  BY <2>1, <2>4 DEF ListInv, SteadyFits
  <2> QED  BY <2>3, <2>5 DEF ListInv
<1>2. CASE Pager!NextPage
  <2>1. PICK rows \in Pager!Answers :
          /\ Pager!Rows(rows)
          /\ sent' = sent \o Pager!Response(rows).articles
          /\ walk' = IF Pager!Response(rows).has_more THEN "on" ELSE "over"
          /\ cursor' = Pager!Response(rows).next_cursor
    BY <1>2 DEF Pager!NextPage
  <2>2. /\ Pager!Response(rows).articles = Pager!Items(rows)
        /\ Pager!Response(rows).has_more = Pager!HasMore(rows)
        /\ Pager!Response(rows).next_cursor = Pager!NextCursor(rows)
    BY DEF Pager!Response
  <2>3. walk # "over" /\ UNCHANGED <<place, steady>>  BY <1>2 DEF Pager!NextPage
  <2>4. /\ sent' = sent \o Pager!Items(rows)
        /\ walk' = (IF Pager!HasMore(rows) THEN "on" ELSE "over")
        /\ cursor' = Pager!NextCursor(rows)
    BY <2>1, <2>2
  <2> QED  BY <2>1, <2>3, <2>4, PageKeeps
<1> QED  BY <1>1, <1>2 DEF Pager!Next

\* However runs move and add articles between two pages, an article that keeps its
\* place is sent once to a client that follows the cursors to the end, for pages of any
\* size (list_articles of routes/articles.py, cursor.py).
THEOREM SteadyStaysSentOnce == ContentsSpec => []SteadyIsSentOnce
<1> DEFINE I == part = "list" => ListInv
<1>1. ContentsInit => I
  BY ListStarts DEF ContentsInit
<1>2. I /\ [ContentsNext]_contentVars => I'
  <2> SUFFICES ASSUME I, [ContentsNext]_contentVars, part' = "list" PROVE ListInv'
    OBVIOUS
  <2>1. CASE UNCHANGED contentVars
    <3>1. UNCHANGED listVars /\ ListInv  BY <2>1 DEF contentVars
    <3> QED
      BY <3>1 DEF listVars, ListInv, ListTypes, SteadyFits, IsSent, Pager!After
  <2>2. CASE ContentsNext
    <3>1. Pager!Next /\ ListInv  BY <2>2 DEF ContentsNext
    <3> QED  BY <3>1, ListKept
  <2> QED  BY <2>1, <2>2
<1>3. I => SteadyIsSentOnce
  BY DEF SteadyIsSentOnce, ListInv, SteadyFits, Pager!SteadyIsSentOnce, IsSent
<1> QED  BY <1>1, <1>2, <1>3, PTL DEF ContentsSpec
=============================================================================
