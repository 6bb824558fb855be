----------------------------- MODULE PdfImport -----------------------------
(***************************************************************************)
(* A PDF source: conversion, escalation of the pages whose content was     *)
(* lost, the articles that come of it, and the retry of the escalation     *)
(* (services/pdf_import.py, pdf_escalate.py, pdf_cache.py, the PDF branch   *)
(* of services/firecrawl.py and retry-escalation of routes/extraction.py).  *)
(*                                                                         *)
(* A version of the PDF stands for its bytes and their hash.  A page of    *)
(* the model is one article, and a control check precedes each.  A run     *)
(* names its pending pages, the code the ranges of them.                   *)
(***************************************************************************)
EXTENDS Naturals, Sequences, FiniteSets, FiniteSetsExt

CONSTANTS
    MaxPages,
    Docs,         \* the versions of the PDF
    FirstDoc,     \* the one that is served at first
    NoDoc,        \* a NULL hash
    Budget,       \* pages the VLM may convert in one run
    Breaker,      \* consecutive failures after which it is not asked again
    MaxRuns,      \* runs (bound)
    MaxStops,     \* stop requests, failures and lost workers (bound)
    MaxChanges    \* new versions of the PDF (bound)

VARIABLES
    pdf,      \* the version the source serves now
    changes,  \* how often it was replaced
    stops,    \* how often a run was interrupted
    runs,     \* the rows of extraction_runs, in the order they started
    stored,   \* the live article of each page
    cache,    \* pdf_cache: per hash at most one converted document
    raw,      \* the hashes whose bytes are cached
    job,      \* the run the worker is executing, {} when none
    handing,  \* a retry request between its two commits
    owner,    \* history: the last run that wrote an article
    foreign   \* history: retries whose document was cached with other pages listed,
              \* and runs that wrote and then found the PDF as it was before

pdfVars == <<pdf, changes, stops, runs, stored, cache, raw, job, handing, owner, foreign>>

Pages == 1 .. MaxPages
The(set) == CHOOSE x \in set : TRUE

\* pdf_cache: a file for the document of a hash, another for its bytes; a write may
\* fail, which nobody notices.
Save(d, entry, ok) == IF ok THEN [cache EXCEPT ![d] = {entry}] ELSE cache
Load(d) == cache[d]
Delete(d) == [cache EXCEPT ![d] = {}]
SavePdf(d, ok) == IF ok THEN raw \cup {d} ELSE raw
LoadPdf(d) == {d} \cap raw
DeletePdf(d) == raw \ {d}

NewRun(kind, force, of) ==
    [kind |-> kind, force |-> force, of |-> of, status |-> "pending",
     control |-> "", hash |-> NoDoc, pending |-> {}]

Active == \E r \in DOMAIN runs : runs[r].status \in {"pending", "running"}

\* The hash of the run that started last among the completed ones with a hash.
LatestCompletedHash ==
    LET done == {r \in DOMAIN runs : runs[r].status = "completed" /\ runs[r].hash # NoDoc}
    IN  IF done = {} THEN NoDoc ELSE runs[Max(done)].hash

Init ==
    /\ pdf = FirstDoc /\ changes = 0 /\ stops = 0
    /\ runs = <<>>
    /\ stored = [p \in Pages |-> [doc |-> NoDoc, lost |-> FALSE]]
    /\ cache = [d \in Docs |-> {}] /\ raw = {}
    /\ job = {} /\ handing = {}
    /\ owner = 0 /\ foreign = {}

-----------------------------------------------------------------------------
(* The API.                                                                *)

ReplacePdf(d) ==
    /\ changes < MaxChanges /\ d # pdf
    /\ pdf' = d /\ changes' = changes + 1
    /\ UNCHANGED <<stops, runs, stored, cache, raw, job, handing, owner, foreign>>

Enqueue(run) ==
    /\ ~Active /\ Len(runs) < MaxRuns
    /\ runs' = Append(runs, run)

TriggerRun(force) ==
    /\ Enqueue(NewRun("extract", force, 0))
    /\ UNCHANGED <<pdf, changes, stops, stored, cache, raw, job, handing, owner, foreign>>

\* Any run with pending pages can be retried, the latest or not.  The run is
\* queued in one commit and given the pages and the hash in the next.
RetryEscalation(r) ==
    /\ handing = {}
    /\ runs[r].pending # {}
    /\ Enqueue(NewRun("escalate", FALSE, r))
    /\ handing' = {Len(runs) + 1}
    /\ UNCHANGED <<pdf, changes, stops, stored, cache, raw, job, owner, foreign>>

HandOver ==
    \E r \in handing :
        /\ runs' = [runs EXCEPT ![r].pending = runs[runs[r].of].pending,
                                ![r].hash = runs[runs[r].of].hash]
        /\ handing' = {}
        /\ UNCHANGED <<pdf, changes, stops, stored, cache, raw, job, owner, foreign>>

Interrupts == stops < MaxStops /\ stops' = stops + 1

Control(r, what) ==
    /\ runs[r].status = "running" /\ runs[r].control = ""
    /\ Interrupts
    /\ runs' = [runs EXCEPT ![r].control = what]
    /\ UNCHANGED <<pdf, changes, stored, cache, raw, job, handing, owner, foreign>>

Resume(r) ==
    /\ runs[r].status = "paused" /\ ~Active
    /\ runs' = [runs EXCEPT ![r].status = "pending"]
    /\ UNCHANGED <<pdf, changes, stops, stored, cache, raw, job, handing, owner, foreign>>

-----------------------------------------------------------------------------
(* The worker claims a run.                                                *)

NewJob(r, at) ==
    [run |-> r, at |-> at,
     doc |-> NoDoc, pending |-> runs[r].pending, hash |-> runs[r].hash,
     lost |-> {}, todo |-> {}, budget |-> 0, streak |-> 0, failed |-> {}, page |-> 1]

Claim(r, kind, at) ==
    /\ job = {}
    /\ runs[r].status = "pending" /\ runs[r].kind = kind
    /\ runs' = [runs EXCEPT ![r].status = "running"]
    /\ job' = {NewJob(r, at)}
    /\ UNCHANGED <<pdf, changes, stops, stored, cache, raw, handing, owner, foreign>>

ExtractSource(r) == Claim(r, "extract", "acquire")
RetryEscalationRun(r) == Claim(r, "escalate", "retry")

Ended(j, status) == [runs EXCEPT ![j.run].status = status]

\* A download that fails, a lost worker, any error the retry path lets out: the
\* run is queued again, or failed when its attempts are spent.  Any other error
\* fails an extraction.
Abandon(status) ==
    \E j \in job :
        /\ Interrupts
        /\ runs' = Ended(j, status)
        /\ job' = {}
        /\ UNCHANGED <<pdf, changes, stored, cache, raw, handing, owner, foreign>>

\* The points at which a stop is looked for.  An escalation swallows it, and
\* a retry has none before it writes.
Checks(j) == j.at \in IF runs[j.run].kind = "extract"
                      THEN {"convert", "persist"} ELSE {"persist"}
Free(j) == ~(Checks(j) /\ runs[j.run].control # "")

Stopped(kind, status) ==
    \E j \in job :
        /\ runs[j.run].kind = kind /\ ~Free(j)
        /\ runs' = [Ended(j, status[runs[j.run].control]) EXCEPT ![j.run].control = ""]
        /\ job' = {}
        /\ UNCHANGED <<pdf, changes, stops, stored, cache, raw, handing, owner, foreign>>

StopExtract == Stopped("extract", [pause |-> "paused", cancel |-> "cancelled"])

\* A retry is cancelled even when it was asked to pause.
StopRetry == Stopped("escalate", [pause |-> "cancelled", cancel |-> "cancelled"])

-----------------------------------------------------------------------------
(* Extraction.                                                             *)

\* The upload, or what its URL serves, to a browser if need be; Abandon is when
\* neither answers with a PDF.
AcquirePdf == pdf

\* The bytes are those of the last completed run: nothing is converted.
Unchanged(j) ==
    /\ ~runs[j.run].force
    /\ LatestCompletedHash = AcquirePdf
    /\ \E p \in Pages : stored[p].doc # NoDoc

FastPath ==
    \E j \in job :
        /\ j.at = "acquire"
        /\ Unchanged(j)
        /\ runs' = [Ended(j, "completed") EXCEPT ![j.run].hash = AcquirePdf]
        /\ job' = {}
        /\ foreign' = IF j.run = owner THEN foreign \cup {j.run} ELSE foreign
        /\ UNCHANGED <<pdf, changes, stops, stored, cache, raw, handing, owner>>

Acquire ==
    \E j \in job :
        /\ j.at = "acquire"
        /\ ~Unchanged(j)
        /\ job' = {[j EXCEPT !.at = "convert", !.doc = AcquirePdf]}
        /\ UNCHANGED <<pdf, changes, stops, runs, stored, cache, raw, handing, owner, foreign>>

\* score_page flags the pages whose content was lost (an empty page, sparse text,
\* a missing table) and those that are only ragged.
Flagged(lost, ragged) == lost \cup ragged

\* Any pages may come out flagged.  The fallback to pymupdf knows no pages:
\* nothing is flagged.
Convert(lost, ragged) ==
    \E j \in job :
        /\ j.at \in {"convert", "reconvert"} /\ Free(j)
        /\ job' = {[j EXCEPT !.at = "escalate", !.lost = lost,
                             !.todo = Flagged(lost, ragged), !.budget = Budget]}
        /\ UNCHANGED <<pdf, changes, stops, runs, stored, cache, raw, handing, owner, foreign>>

Spent(j) == j.budget = 0 \/ j.streak >= Breaker

\* Mutant of Deferred: pages that were not tried are not reported.
DeferredNever(j, p) == j.failed

\* A page that is not tried stays pending when its content is lost, and is
\* forgotten when it is only ragged.
Deferred(j, p) == IF p \in j.lost THEN j.failed \cup {p} ELSE j.failed

SkipPage ==
    \E j \in job :
        LET p == Min(j.todo)
        IN  /\ j.at = "escalate" /\ j.todo # {} /\ Spent(j)
            /\ job' = {[j EXCEPT !.todo = @ \ {p}, !.failed = Deferred(j, p)]}
            /\ UNCHANGED <<pdf, changes, stops, runs, stored, cache, raw, handing, owner, foreign>>

\* Only a page the VLM recovers is charged to the budget.
Recovered(j, p) == [j EXCEPT !.todo = @ \ {p}, !.lost = @ \ {p},
                             !.streak = 0, !.budget = @ - 1]

\* docling failed on the page, lost it, or answered nothing for a page with text.
Refused(j, p) == [j EXCEPT !.todo = @ \ {p}, !.failed = @ \cup {p}, !.streak = @ + 1]

EscalatePage ==
    \E j \in job :
        LET p == Min(j.todo)
        IN  /\ j.at = "escalate" /\ j.todo # {} /\ ~Spent(j)
            /\ \E next \in {Recovered(j, p), Refused(j, p)} : job' = {next}
            /\ UNCHANGED <<pdf, changes, stops, runs, stored, cache, raw, handing, owner, foreign>>

\* The articles are split, the TOC is rebuilt and the writing begins.
Rebuild ==
    \E j \in job :
        /\ j.at = "escalate" /\ j.todo = {}
        /\ job' = {[j EXCEPT !.at = "persist"]}
        /\ UNCHANGED <<pdf, changes, stops, runs, stored, cache, raw, handing, owner, foreign>>

\* Each article is committed on its own.
PersistPage ==
    \E j \in job :
        /\ j.at = "persist" /\ Free(j) /\ j.page <= MaxPages
        /\ stored' = [stored EXCEPT ![j.page] = [doc |-> j.doc, lost |-> j.page \in j.lost]]
        /\ job' = {[j EXCEPT !.page = @ + 1]}
        /\ owner' = j.run
        /\ UNCHANGED <<pdf, changes, stops, runs, cache, raw, handing, foreign>>

\* What is cached when pages are left: the document with the pages recovered.
Kept(j) == [listed |-> j.failed, foreign |-> j.run \in foreign, lost |-> j.lost]

\* The cache is changed before the worker's commit; a write may fail.
CacheDoc(doc, bytes) ==
    \E j \in job :
        /\ j.at = "persist" /\ j.page > MaxPages
        /\ IF j.failed = {}
           THEN /\ cache' = Delete(j.doc)
                /\ raw' = DeletePdf(j.doc)
           ELSE /\ cache' = Save(j.doc, Kept(j), doc)
                /\ raw' = SavePdf(j.doc, bytes)
        /\ job' = {[j EXCEPT !.at = "commit"]}
        /\ UNCHANGED <<pdf, changes, stops, runs, stored, handing, owner, foreign>>

Commit ==
    \E j \in job :
        /\ j.at = "commit"
        /\ runs' = [Ended(j, "completed") EXCEPT ![j.run].hash = j.doc,
                                                 ![j.run].pending = j.failed]
        /\ job' = {}
        /\ UNCHANGED <<pdf, changes, stops, stored, cache, raw, handing, owner, foreign>>

-----------------------------------------------------------------------------
(* The retry of an escalation.                                             *)

NothingPending ==
    \E j \in job :
        /\ j.at = "retry" /\ j.pending = {}
        /\ runs' = [Ended(j, "completed") EXCEPT ![j.run].pending = {}]
        /\ job' = {}
        /\ UNCHANGED <<pdf, changes, stops, stored, cache, raw, handing, owner, foreign>>

\* The bytes of the run's hash if they are cached, else those served now.
BytesOf(j) == IF LoadPdf(j.hash) # {} THEN j.hash ELSE AcquirePdf

\* The pages listed are tried again on the cached document, whatever their score
\* is now; without it the PDF is converted anew and every page is scored.
ReadCache ==
    \E j \in job :
        LET d == BytesOf(j)
        IN  /\ j.at = "retry" /\ j.pending # {}
            /\ IF Load(d) = {}
               THEN /\ job' = {[j EXCEPT !.at = "reconvert", !.doc = d]}
                    /\ UNCHANGED foreign
               ELSE LET entry == The(Load(d))
                    IN  /\ job' = {[j EXCEPT !.at = "escalate", !.doc = d,
                                      !.lost = entry.lost, !.todo = j.pending,
                                      !.budget = Cardinality(j.pending)]}
                        /\ foreign' = IF entry.listed \subseteq j.pending /\ ~entry.foreign
                                      THEN foreign ELSE foreign \cup {j.run}
            /\ UNCHANGED <<pdf, changes, stops, runs, stored, cache, raw, handing, owner>>

-----------------------------------------------------------------------------
Next ==
    \/ \E d \in Docs : ReplacePdf(d)
    \/ \E force \in BOOLEAN : TriggerRun(force)
    \/ \E r \in DOMAIN runs : \/ RetryEscalation(r) \/ Resume(r)
                             \/ ExtractSource(r) \/ RetryEscalationRun(r)
    \/ \E r \in DOMAIN runs, what \in {"pause", "cancel"} : Control(r, what)
    \/ \E status \in {"pending", "failed"} : Abandon(status)
    \/ HandOver \/ StopExtract \/ StopRetry \/ FastPath \/ Acquire
    \/ \E lost \in SUBSET Pages : \E ragged \in SUBSET (Pages \ lost) : Convert(lost, ragged)
    \/ SkipPage
    \/ EscalatePage \/ Rebuild \/ PersistPage
    \/ \E doc, bytes \in BOOLEAN : CacheDoc(doc, bytes)
    \/ Commit \/ NothingPending \/ ReadCache

Spec == Init /\ [][Next]_pdfVars

-----------------------------------------------------------------------------
Lost == {p \in Pages : stored[p].lost}

\* Every article whose content was lost is on the list of the run that wrote it,
\* once that run completed: through the budget and the breaker of the
\* escalation, the cached document, a crash before the commit and retries of
\* retries.  Two kinds of run are out: a retry that worked on a document cached
\* with another list, and a run that was requeued after it had written pages of a
\* changed PDF and then found the PDF of the last completed run again, upon which
\* it ends at once and lists none.
LostIsListed ==
    owner # 0 /\ owner \notin foreign /\ runs[owner].status = "completed"
        => Lost \subseteq runs[owner].pending
=============================================================================
