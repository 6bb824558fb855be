------------------------------ MODULE Docling ------------------------------
(***************************************************************************)
(* The conversion of one PDF by docling-serve (services/docling_client.py   *)
(* and convert_pdf of services/pdf_convert.py): batches of pages, a task    *)
(* per batch that is submitted, polled and fetched, transient errors that   *)
(* are retried for a while, tasks that docling-serve loses when it restarts,*)
(* and the fallback to PyMuPDF.                                            *)
(***************************************************************************)
EXTENDS Integers, Sequences

CONSTANTS
    PageCount,      \* pages of the PDF
    BatchPages,     \* pages of a batch
    MaxResubmits,   \* tasks of a batch that may be lost
    MaxTasks,       \* tasks that docling-serve gets (bound)
    MaxRestarts     \* restarts of docling-serve (bound)

VARIABLES
    task,       \* docling-serve's registry, in its memory: pages and status of each task
    given,      \* tasks it was given so far
    restarts,   \* how often it restarted
    leg,        \* what the client is at: "submit", "poll", "result"
    asking,     \* the task it polls
    attempt,    \* tasks of this batch that were lost
    window,     \* the time left for transient errors of this request
    late,       \* the deadline of this batch has passed
    docs,       \* the documents of the batches so far
    engine,     \* what converted the PDF, or "none" yet
    partly      \* history: docling-serve gave a document up in part

doclingVars ==
    <<task, given, restarts, leg, asking, attempt, window, late, docs, engine, partly>>

server == <<task, given, restarts>>

Unknown == [first |-> 0, last |-> 0, status |-> "unknown"]
Tasks == 1 .. MaxTasks

AtMost(a, b) == IF a <= b THEN a ELSE b

Init ==
    /\ task = [t \in Tasks |-> Unknown]
    /\ given = 0 /\ restarts = 0
    /\ leg = "submit" /\ asking = 0 /\ attempt = 0
    /\ window = "unused" /\ late = FALSE
    /\ docs = <<>>
    /\ engine = "none"
    /\ partly = FALSE

-----------------------------------------------------------------------------
(* docling-serve and time.                                                 *)

Work(t) ==
    /\ task[t].status = "pending"
    /\ \E status \in {"success", "failure"} : task' = [task EXCEPT ![t].status = status]
    /\ UNCHANGED <<given, restarts, leg, asking, attempt, window, late, docs, engine, partly>>

\* It forgets every task.
Restart ==
    /\ restarts < MaxRestarts
    /\ restarts' = restarts + 1
    /\ task' = [t \in Tasks |-> Unknown]
    /\ UNCHANGED <<given, leg, asking, attempt, window, late, docs, engine, partly>>

Expire ==
    /\ engine = "none"
    /\ \/ window = "open" /\ window' = "over" /\ UNCHANGED late
       \/ ~late /\ late' = TRUE /\ UNCHANGED window
    /\ UNCHANGED <<server, leg, asking, attempt, docs, engine, partly>>

-----------------------------------------------------------------------------
(* The client.                                                             *)

Converting == engine = "none"

\* The pages of the batch that the client is at.
Batch == Len(docs) + 1
First == (Batch - 1) * BatchPages + 1
LastPage == AtMost(First + BatchPages - 1, PageCount)

Given == [first |-> First, last |-> LastPage, status |-> "pending"]

\* docling-serve failed: the whole PDF is converted anew.
FallBack ==
    /\ engine' = "pymupdf"
    /\ docs' = <<>>
    /\ UNCHANGED <<leg, asking, attempt, window, late, partly>>

\* A request went wrong, or its answer did not come: it is made again until the
\* window or the deadline is over.
Blip ==
    \/ (window = "over" \/ late) /\ FallBack
    \/ /\ window # "over" /\ ~late
       /\ window' = "open"
       /\ UNCHANGED <<leg, asking, attempt, late, docs, engine, partly>>

\* The task is not known any more: a new one, with what is left of the deadline.
TaskLost ==
    \/ (attempt >= MaxResubmits \/ late) /\ FallBack
    \/ /\ attempt < MaxResubmits /\ ~late
       /\ attempt' = attempt + 1
       /\ leg' = "submit" /\ window' = "unused"
       /\ UNCHANGED <<asking, late, docs, engine, partly>>

\* docling-serve gets the task, and maybe more than once; or its answer names none.
Submit ==
    /\ Converting /\ leg = "submit"
    /\ given < MaxTasks
    /\ given' = given + 1
    /\ task' = [task EXCEPT ![given + 1] = Given]
    /\ \/ /\ leg' = "poll" /\ asking' = given + 1 /\ window' = "unused"
          /\ UNCHANGED <<attempt, late, docs, engine, partly>>
       \/ Blip \/ FallBack
    /\ UNCHANGED restarts

\* It is out of reach, or what stands before it answers 404.
Fail ==
    /\ Converting /\ (Blip \/ TaskLost)
    /\ UNCHANGED server

Poll ==
    /\ Converting /\ leg = "poll"
    /\ \/ task[asking].status = "unknown" /\ TaskLost
       \/ task[asking].status = "pending" /\ late /\ FallBack
       \/ /\ task[asking].status = "pending" /\ ~late /\ window = "open"
          /\ window' = "unused"
          /\ UNCHANGED <<leg, asking, attempt, late, docs, engine, partly>>
       \/ task[asking].status = "failure" /\ FallBack
       \/ /\ task[asking].status = "success"
          /\ leg' = "result" /\ window' = "unused"
          /\ UNCHANGED <<asking, attempt, late, docs, engine, partly>>
    /\ UNCHANGED server

\* Mutant of Offset: the first page of the batch is not taken off.
OffsetByFirst == First

Offset == First - 1

\* Pages of the PDF in their order.
Orders == {order \in UNION {[1 .. n -> 1 .. PageCount] : n \in 0 .. PageCount} :
               \A i, j \in DOMAIN order : i < j => order[i] < order[j]}

\* The document of a task: the PDF's pages in the order of its text, and the numbers
\* that docling-serve gives to them, which start at 1 in every batch.
Document(t, order) ==
    [i \in DOMAIN order |-> [page |-> order[i], number |-> order[i] - task[t].first + 1 + Offset]]

\* Every page, or, of a document that was a success in part, some.
Fetch(order) ==
    /\ Converting /\ leg = "result"
    /\ UNCHANGED server
    /\ \/ task[asking].status = "unknown" /\ TaskLost
       \/ /\ task[asking].status = "success"
          /\ LET all   == task[asking].first .. task[asking].last
                 pages == {order[i] : i \in DOMAIN order}
             IN  /\ pages \subseteq all
                 /\ docs' = Append(docs, Document(asking, order))
                 /\ partly' = (partly \/ pages # all)
          /\ leg' = "submit" /\ asking' = 0 /\ attempt' = 0
          /\ window' = "unused" /\ late' = FALSE
          /\ UNCHANGED engine
       \/ task[asking].status = "success" /\ FallBack

\* The text of the PDF is that of the batches, one after another: its pages are told
\* by the batch and their place in it.
Merged == UNION {{b} \X DOMAIN docs[b] : b \in DOMAIN docs}

\* The batches are stitched together; nothing at all is a failure.
Finish ==
    /\ Converting /\ leg = "submit" /\ First > PageCount
    /\ engine' = IF Merged = {} THEN "pymupdf" ELSE "docling"
    /\ UNCHANGED <<server, leg, asking, attempt, window, late, docs, partly>>

Next ==
    \/ First <= PageCount /\ (Submit \/ Fail)
    \/ Poll \/ \E order \in Orders : Fetch(order)
    \/ Expire \/ Finish \/ Restart \/ \E t \in Tasks : Work(t)

Spec == Init /\ [][Next]_doclingVars

-----------------------------------------------------------------------------
\* Whatever was lost, retried or submitted twice, docling's text has the pages of the
\* PDF in their order, each once and under its own number, and lacks one only if
\* docling-serve left it out.
PagesAreTheirOwn ==
    engine = "docling" =>
        /\ \A m \in Merged : docs[m[1]][m[2]].number = docs[m[1]][m[2]].page
        /\ \A m, n \in Merged :
              m[1] < n[1] \/ (m[1] = n[1] /\ m[2] < n[2]) => docs[m[1]][m[2]].page < docs[n[1]][n[2]].page
        /\ ~partly => \A p \in 1 .. PageCount : \E m \in Merged : docs[m[1]][m[2]].page = p
=============================================================================
