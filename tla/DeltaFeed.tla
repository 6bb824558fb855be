----------------------------- MODULE DeltaFeed -----------------------------
(***************************************************************************)
(* The delta feed: content_changes, an outbox that runs and deletions      *)
(* append to, and the stream a consumer pulls from it                      *)
(* (services/change_log.py, services/delta_feed.py, the callers in         *)
(* services/firecrawl.py, services/image_describe.py, routes/).            *)
(*                                                                         *)
(* A row's id is allocated when it is flushed; the row is seen when its    *)
(* transaction commits, so ids may become visible out of order.  Gaps      *)
(* names what the feed is not proof against:                               *)
(*   "stale_ceiling"     work goes on under a stream that found no ceiling;*)
(*   "slow_deletion"     ids are seen while a deletion is uncommitted;     *)
(*   "page_returns"      a removed page is found again;                    *)
(*   "describe_removed"  images of a removed page are described;           *)
(*   "resanitize"        stored articles are cleaned again.                *)
(* A deletion reads the articles that it tells of before it has the locks  *)
(* of its source: a page stored in between goes without a row.  That is    *)
(* always let in.                                                          *)
(***************************************************************************)
EXTENDS Naturals, FiniteSets

CONSTANTS
    Source, Run, Article,
    SourceOf,       \* the source each run extracts
    HomeOf,         \* the source each article belongs to
    NoRun, NoArticle, NoSource,
    Deletable,      \* bound: the sources that may be deleted
    Batch,          \* rows per query of a stream (_BATCH)
    MaxRow,         \* bound: the rows ever inserted
    MaxDrops,       \* bound: streams whose connection drops
    Gaps            \* which of the gaps above are let in

Gap == {"stale_ceiling", "slow_deletion", "page_returns", "describe_removed", "resanitize"}

ASSUME TablesAssumption ==
    /\ SourceOf \in [Run -> Source]
    /\ HomeOf \in [Article -> Source]
    /\ IsFiniteSet(Article)
    /\ Deletable \subseteq Source
    /\ NoRun \notin Run /\ NoArticle \notin Article /\ NoSource \notin Source
ASSUME BoundsAssumption ==
    /\ Batch \in Nat \ {0}
    /\ MaxRow \in Nat \ {0}
    /\ MaxDrops \in Nat
ASSUME GapsAssumption == Gaps \subseteq Gap

VARIABLES
    rows,       \* content_changes, by id, with those whose transaction is open
    next,       \* the next id of the BIGSERIAL
    phase,      \* what the run's status and its worker make of each run
    stored,     \* what is stored of each article
    content,    \* the version of its served markdown
    deleting,   \* the source being deleted (under the lock of deletions)
    doomed,     \* the articles that its deletion read, to tell of each
    op,         \* what the consumer is doing
    cursor,     \* the position it has saved: its watermark, then next_since
    last, limit,    \* the stream it pulls: last row examined, and the ceiling
    scanned,    \* the articles its snapshot has passed
    copy,       \* the version it holds of each article, 0 for none
    delivered,  \* history: the rows it was sent, or its snapshot stands for
    drops,      \* history: the streams that broke off
    drifted     \* history: articles whose rows do not tell what was stored

outbox == <<rows, next>>
articles == <<stored, content, drifted>>
deletion == <<deleting, doomed>>
stream == <<op, cursor, last, limit, scanned, copy, delivered, drops>>
vars == <<outbox, phase, articles, deletion, stream>>
-----------------------------------------------------------------------------
Id == 1..MaxRow
Change == {"added", "updated", "removed"}

Free == [state |-> "free", kind |-> "run_start", run |-> NoRun, article |-> NoArticle]
Row == [state : {"free", "open", "committed"},
        kind : Change \cup {"run_start"},
        run : Run \cup {NoRun}, article : Article \cup {NoArticle}]

Phase == {"queued", "claimed", "floored", "paused", "ended"}

\* _ACTIVE: pending, running or paused.
Active == {"queued", "claimed", "floored", "paused"}

TypeOK ==
    /\ rows \in [Id -> Row]
    /\ next \in 1..(MaxRow + 1)
    /\ phase \in [Run -> Phase]
    /\ stored \in [Article -> {"absent", "live", "removed", "deleted"}]
    /\ content \in [Article -> Nat]
    /\ deleting \in Source \cup {NoSource}
    /\ op \in {"new", "measuring", "snapshot", "idle", "pull"}
    /\ cursor \in 0..MaxRow /\ last \in 0..MaxRow
    /\ limit \in 1..(MaxRow + 1)
    /\ doomed \subseteq Article /\ scanned \subseteq Article /\ drifted \subseteq Article
    /\ copy \in [Article -> Nat]
    /\ delivered \subseteq Id
    /\ drops \in 0..MaxDrops

\* Some articles are there already; the ids they were told by come before these.  A
\* run that is yet to be enqueued has no row either: it is as good as queued.
Init ==
    /\ rows = [i \in Id |-> Free]
    /\ next = 1
    /\ phase = [r \in Run |-> "queued"]
    /\ stored \in [Article -> {"absent", "live"}]
    /\ content = [a \in Article |-> IF stored[a] = "live" THEN 1 ELSE 0]
    /\ deleting = NoSource /\ doomed = {}
    /\ op = "new"
    /\ cursor = 0 /\ last = 0 /\ limit = 1
    /\ scanned = {} /\ drifted = {} /\ delivered = {}
    /\ copy = [a \in Article |-> 0]
    /\ drops = 0
-----------------------------------------------------------------------------
(* State functions.                                                        *)

Seen(i) == rows[i].state = "committed"
Tells(i) == Seen(i) /\ rows[i].kind \in Change

\* The rows of the transaction that run r, or a deletion (NoRun), has open.
OpenOf(r) == {i \in Id : rows[i].state = "open" /\ rows[i].run = r}

Least(ids) == CHOOSE i \in ids : \A j \in ids : i <= j
Greatest(ids) == IF ids = {} THEN 0 ELSE CHOOSE i \in ids : \A j \in ids : j <= i

\* Mutants of FloorRows: sentinels do not count; only running runs count.
FloorRowsOfPages == {i \in Id : Tells(i) /\ rows[i].run # NoRun /\ phase[rows[i].run] \in Active}
FloorRowsOfRunning ==
    {i \in Id : Seen(i) /\ rows[i].run # NoRun /\ phase[rows[i].run] \in {"claimed", "floored"}}

\* The rows of active runs; the least of them is the safe ceiling.
FloorRows == {i \in Id : Seen(i) /\ rows[i].run # NoRun /\ phase[rows[i].run] \in Active}

\* Mutant of Limit: no active run counts as a ceiling of zero.
LimitOrZero == IF FloorRows # {} THEN Least(FloorRows) ELSE 0

\* Where a stream stops.  With no active run nothing stops it; unless others go on
\* under such a stream, it ends with the rows there were.
Limit == IF FloorRows # {} THEN Least(FloorRows)
         ELSE IF "stale_ceiling" \in Gaps THEN MaxRow + 1 ELSE next

\* Mutant of Watermark: the ceiling is forgotten.
WatermarkOfMax(greatest) == greatest

\* The position a snapshot hands out.
Watermark(greatest) ==
    IF FloorRows # {} /\ Least(FloorRows) <= greatest THEN Least(FloorRows) - 1 ELSE greatest

\* What a consumer should hold of a.
View(a) == IF stored[a] = "live" THEN content[a] ELSE 0

\* The row (by the open transaction of r) that is inserted next.
Insert(kind, r, a) ==
    /\ next <= MaxRow
    /\ rows' = [rows EXCEPT ![next] =
                   [state |-> "open", kind |-> kind, run |-> r, article |-> a]]
    /\ next' = next + 1

Commit(ids) ==
    rows' = [i \in Id |-> IF i \in ids THEN [rows[i] EXCEPT !.state = "committed"] ELSE rows[i]]
-----------------------------------------------------------------------------
(* Runs (their queue is RunQueue).                                          *)

\* One run of a source is worked on at a time.
Claim(r) ==
    /\ phase[r] = "queued"
    /\ \A q \in Run : SourceOf[q] = SourceOf[r] => phase[q] \notin {"claimed", "floored"}
    /\ phase' = [phase EXCEPT ![r] = "claimed"]
    /\ UNCHANGED <<outbox, articles, deletion, stream>>

\* A worker's next transaction of run r.
Works(r, where) == phase[r] = where /\ OpenOf(r) = {}

\* The run_start sentinel, in a transaction of its own.
RecordRunStart(r) ==
    /\ Works(r, "claimed")
    /\ Insert("run_start", r, NoArticle)
    /\ UNCHANGED <<phase, articles, deletion, stream>>

\* A page is stored: new, changed, or (enrichment) given a caption.  Removed pages
\* are not in the TOC, unless they return, but their images are still described.
RecordChange(r, a) ==
    /\ Works(r, "floored") /\ SourceOf[r] = HomeOf[a]
    /\ \/ stored[a] = "absent" /\ Insert("added", r, a) /\ UNCHANGED drifted
       \/ stored[a] = "live" /\ Insert("updated", r, a) /\ UNCHANGED drifted
       \/ /\ stored[a] = "removed"
          /\ Gaps \cap {"page_returns", "describe_removed"} # {}
          /\ Insert("updated", r, a)
          /\ drifted' = drifted \cup {a}
    /\ UNCHANGED <<phase, stored, content, deletion, stream>>

\* _reconcile_removals: a removed row for each live page the run did not find.
RecordRemoval(r, a) ==
    /\ phase[r] = "floored" /\ SourceOf[r] = HomeOf[a] /\ stored[a] = "live"
    /\ \A i \in OpenOf(r) : rows[i].kind = "removed"
    /\ ~\E i \in Id : rows[i].run = r /\ rows[i].article = a
    /\ Insert("removed", r, a)
    /\ UNCHANGED <<phase, articles, deletion, stream>>

\* The articles that have such a row among ids.
Having(ids, kinds) == {rows[i].article : i \in {j \in ids : rows[j].kind \in kinds}}

CommitRun(r) ==
    LET ids == OpenOf(r) IN
    /\ ids # {}
    /\ Commit(ids)
    /\ phase' = [phase EXCEPT ![r] = "floored"]
    /\ stored' = [a \in Article |-> CASE a \in Having(ids, {"added"}) -> "live"
                                      [] a \in Having(ids, {"removed"}) -> "removed"
                                      [] OTHER -> stored[a]]
    /\ content' = [a \in Article |->
                      content[a] + IF a \in Having(ids, {"added", "updated"}) THEN 1 ELSE 0]
    /\ UNCHANGED <<next, drifted, deletion, stream>>

\* A page fails, or its worker dies: the ids are not used again.
RollBack(r) ==
    /\ OpenOf(r) # {}
    /\ rows' = [i \in Id |-> IF i \in OpenOf(r) THEN Free ELSE rows[i]]
    /\ UNCHANGED <<next, phase, articles, deletion, stream>>

\* _reconcile_removals, the other way: a removed page is linked again.  No row.
Reappear(r, a) ==
    /\ "page_returns" \in Gaps
    /\ Works(r, "floored") /\ SourceOf[r] = HomeOf[a]
    /\ stored[a] = "removed"
    /\ stored' = [stored EXCEPT ![a] = "live"]
    /\ drifted' = drifted \cup {a}
    /\ UNCHANGED <<outbox, phase, content, deletion, stream>>

\* Completed, failed or cancelled; a queued or paused run is cancelled by the API.
EndRun(r) ==
    /\ phase[r] \in Active /\ OpenOf(r) = {}
    /\ phase' = [phase EXCEPT ![r] = "ended"]
    /\ UNCHANGED <<outbox, articles, deletion, stream>>

\* Paused, resumed, or put back in the queue.
Requeue(r) ==
    /\ phase[r] \in Active /\ OpenOf(r) = {}
    /\ \/ phase[r] # "paused" /\ phase' = [phase EXCEPT ![r] = "paused"]
       \/ phase[r] # "queued" /\ phase' = [phase EXCEPT ![r] = "queued"]
    /\ UNCHANGED <<outbox, articles, deletion, stream>>
-----------------------------------------------------------------------------
(* What changes articles outside of any run.                               *)

Resanitize(a) ==
    /\ "resanitize" \in Gaps
    /\ stored[a] \in {"live", "removed"} /\ content[a] < MaxRow
    /\ \A r \in Run : SourceOf[r] = HomeOf[a] => phase[r] \notin Active
    /\ content' = [content EXCEPT ![a] = @ + 1]
    /\ drifted' = drifted \cup {a}
    /\ UNCHANGED <<outbox, phase, stored, deletion, stream>>

LiveIn(s) == {a \in Article : HomeOf[a] = s /\ stored[a] = "live"}

\* record_source_deletions: one deletion at a time (an advisory lock) reads the live
\* articles it will tell of.  Nothing keeps the runs of the source from going on: it
\* is locked only by the cascade, when the caller's transaction is flushed.
ReadDeletion(s) ==
    /\ deleting = NoSource
    /\ \E a \in Article : HomeOf[a] = s /\ stored[a] # "deleted"
    /\ deleting' = s
    /\ doomed' = LiveIn(s)
    /\ UNCHANGED <<outbox, phase, articles, stream>>

\* The cascade: the runs and articles of the source go with it.  A worker that has
\* rows of it open holds it up.
Cascade ==
    /\ \A r \in Run : SourceOf[r] = deleting => OpenOf(r) = {}
    /\ stored' = [a \in Article |-> IF HomeOf[a] = deleting THEN "deleted" ELSE stored[a]]
    /\ phase' = [r \in Run |-> IF SourceOf[r] = deleting THEN "ended" ELSE phase[r]]
    /\ deleting' = NoSource /\ doomed' = {}
    /\ UNCHANGED <<content, stream>>

\* The flush and the commit at once: a tombstone for each article that was read.  One
\* that was stored since is deleted without.
DeleteSource ==
    /\ deleting # NoSource /\ OpenOf(NoRun) = {}
    /\ next + Cardinality(doomed) <= MaxRow + 1
    /\ next' = next + Cardinality(doomed)
    /\ \E new \in [next..(next' - 1) -> doomed] :
          /\ \A a \in doomed : \E i \in DOMAIN new : new[i] = a
          /\ rows' = [i \in Id |->
                         IF i \in DOMAIN new
                         THEN [state |-> "committed", kind |-> "removed", run |-> NoRun,
                               article |-> new[i]]
                         ELSE rows[i]]
    /\ drifted' = drifted \cup (LiveIn(deleting) \ doomed)
    /\ Cascade

\* The same with the steps apart: the tombstones' ids, the commit.
RecordDeletion(a) ==
    /\ "slow_deletion" \in Gaps
    /\ a \in doomed \ Having(OpenOf(NoRun), Change)
    /\ Insert("removed", NoRun, a)
    /\ UNCHANGED <<phase, articles, deletion, stream>>

CommitDeletion ==
    /\ OpenOf(NoRun) # {}
    /\ Having(OpenOf(NoRun), Change) = doomed
    /\ Commit(OpenOf(NoRun))
    /\ drifted' = drifted \cup LiveIn(deleting) \cup doomed
    /\ Cascade
    /\ UNCHANGED next
-----------------------------------------------------------------------------
(* The consumer (external) and the streams it pulls.                        *)

\* stream_bootstrap: the greatest id there is, then (a second query) the ceiling.
StartSnapshot ==
    /\ op = "new"
    /\ op' = "measuring"
    /\ cursor' = Greatest({i \in Id : Seen(i)})
    /\ UNCHANGED <<outbox, phase, articles, deletion, last, limit, scanned, copy, delivered, drops>>

AnchorSnapshot ==
    /\ op = "measuring"
    /\ op' = "snapshot"
    /\ cursor' = Watermark(cursor)
    /\ delivered' = {i \in Id : Tells(i) /\ i <= cursor'}
    /\ UNCHANGED <<outbox, phase, articles, deletion, last, limit, scanned, copy, drops>>

\* The scan passes a, in the order of the (random) ids.  A consumer whose stream
\* breaks off goes on from there and keeps the watermark it has.
ScanArticle(a) ==
    /\ op = "snapshot" /\ a \notin scanned
    /\ scanned' = scanned \cup {a}
    /\ copy' = [copy EXCEPT ![a] = View(a)]
    /\ op' = IF scanned' = Article THEN "idle" ELSE op
    /\ UNCHANGED <<outbox, phase, articles, deletion, cursor, last, limit, delivered, drops>>

\* stream_delta: the ceiling, once; then batches, each a query of its own.
StartPull ==
    /\ op = "idle"
    /\ op' = "pull"
    /\ limit' = Limit
    /\ last' = cursor
    /\ UNCHANGED <<outbox, phase, articles, deletion, cursor, scanned, copy, delivered, drops>>

\* The visible rows after the last one examined and below the ceiling.
Ahead == {i \in Id : Seen(i) /\ last < i /\ i < limit}
Page == {i \in Ahead : Cardinality({j \in Ahead : j < i}) < Batch}

\* What the consumer holds of a after it has applied the records of this page.
Applied(a) ==
    LET mine == {i \in Page : Tells(i) /\ rows[i].article = a} IN
    IF mine = {} THEN copy[a]
    ELSE IF rows[Greatest(mine)].kind = "removed" THEN 0
    ELSE IF stored[a] # "deleted" THEN content[a]
    ELSE IF \E i \in mine : rows[i].kind = "removed" THEN 0 ELSE copy[a]

Examined == IF Page = {} THEN last ELSE Greatest(Page)

\* The generator returns, or is closed.
Close == op' = "idle" /\ last' = 0 /\ limit' = 1

ReadBatch ==
    /\ op = "pull"
    /\ copy' = [a \in Article |-> Applied(a)]
    /\ delivered' = delivered \cup {i \in Page : Tells(i)}
    /\ IF Cardinality(Page) < Batch
       THEN Close /\ cursor' = Examined
       ELSE last' = Examined /\ UNCHANGED <<op, cursor, limit>>
    /\ UNCHANGED <<outbox, phase, articles, deletion, scanned, drops>>

\* The connection drops: the saved cursor is not advanced.
DropPull ==
    /\ op = "pull" /\ drops < MaxDrops
    /\ Close
    /\ drops' = drops + 1
    /\ UNCHANGED <<outbox, phase, articles, deletion, cursor, scanned, copy, delivered>>
-----------------------------------------------------------------------------
(* The specification.                                                       *)

RunStep(r) ==
    \/ Claim(r) \/ RecordRunStart(r) \/ CommitRun(r) \/ RollBack(r)
    \/ EndRun(r) \/ Requeue(r)
    \/ \E a \in Article : RecordChange(r, a) \/ RecordRemoval(r, a) \/ Reappear(r, a)

Elsewhere ==
    \/ \E a \in Article : Resanitize(a) \/ RecordDeletion(a)
    \/ \E s \in Deletable : ReadDeletion(s)
    \/ DeleteSource \/ CommitDeletion

Consume == StartSnapshot \/ AnchorSnapshot \/ StartPull \/ ReadBatch \/ DropPull
             \/ \E a \in Article : ScanArticle(a)

Next == (\E r \in Run : RunStep(r)) \/ Elsewhere \/ Consume

Spec == Init /\ [][Next]_vars

\* A transaction ends, a run ends unless the user leaves it paused (RunQueue's
\* RunSettles: it may be put back again and again before), a consumer keeps pulling.
Fairness ==
    /\ \A r \in Run : /\ WF_vars(CommitRun(r) \/ RollBack(r))
                      /\ SF_vars(phase[r] # "paused" /\ EndRun(r))
    /\ WF_vars((\E a \in Article : RecordDeletion(a)) \/ DeleteSource \/ CommitDeletion)
    /\ WF_vars(StartSnapshot \/ AnchorSnapshot \/ \E a \in Article : ScanArticle(a))
    /\ WF_vars(StartPull \/ ReadBatch)

FairSpec == Spec /\ Fairness
-----------------------------------------------------------------------------
(* Properties.                                                              *)

\* delta_feed.py: the feed "never skips a slow or just-started run's
\* not-yet-committed higher ids": whatever becomes visible below the consumer's
\* cursor was sent to it, or is part of its snapshot.  (The tombstones of slow
\* deletions are excepted.)
NoLostChange ==
    \A i \in Id : /\ Tells(i) /\ i <= cursor
                  /\ rows[i].run # NoRun \/ "slow_deletion" \notin Gaps
                  /\ op \in {"snapshot", "idle", "pull"}
                  => i \in delivered

\* delta_feed.py: "every row served with id < ceiling provably belongs to a terminal
\* run", so a consumer never sees a page of a run that may still change it.
DeliveredIsTerminal ==
    \A i \in delivered : rows[i].run # NoRun => phase[rows[i].run] = "ended"

\* Where the consumer stands.
Position == IF op = "pull" THEN last ELSE cursor

\* What the consumer holds of an article is what is stored of it, or a row that it
\* still has to be sent tells the difference: in the snapshot, between two batches
\* and after a stream that dropped, as well as when it is idle.  Excepted are the
\* articles that drifted: by one of the gaps, or stored after record_source_deletions
\* had read what it tells of, and deleted with their source.
StaleIsOwed ==
    \A a \in Article \ drifted :
        (a \in scanned /\ copy[a] # View(a))
            => \E i \in Id : Tells(i) /\ rows[i].article = a /\ i > Position

\* Only a paused run can hold the changes of other runs back for ever.
ChangesArrive ==
    \/ []<>(\E r \in Run : phase[r] = "paused")
    \/ \A i \in Id : (Tells(i) /\ rows[i].run # NoRun) ~> i \in delivered
=============================================================================
