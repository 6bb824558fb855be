----------------------------- MODULE ExportFiles -----------------------------
(***************************************************************************)
(* The exports volume and the export_jobs rows that describe it.  Four     *)
(* parties change them without a common lock:                              *)
(*   - the API: creates single and batch exports, cancels, deletes, and    *)
(*     builds the combined zip of a batch on download (routes/export.py);  *)
(*   - the export lane of the worker: generates a claimed export into a    *)
(*     new directory, then commits the row (export_runner.py, exporter.py);*)
(*   - the hourly retention sweep, on the extraction lane of the worker    *)
(*     (export_retention.py);                                              *)
(*   - the catalogue: deleting a source cascades to its rows and leaves    *)
(*     the directories.                                                    *)
(* One job is one source's export.  A directory is <<job, attempt>>: every *)
(* attempt generates under a fresh export id.  Sizes are counted in        *)
(* exports: a directory weighs 1, a zip as many as it holds.               *)
(***************************************************************************)
EXTENDS Naturals, FiniteSets, FiniteSetsExt

CONSTANTS
    MaxJob,          \* the jobs are 1 .. MaxJob, in the order of created_at
    MaxAttempts,     \* attempts of a job before the reaper fails it
    Cap,             \* export_max_total_bytes, 0: no cap
    MaxClaims,       \* claims of all jobs together (bound)
    MaxCrashes       \* crashes of the worker or the API (bound)

ASSUME ExportConstants ==
    /\ MaxJob \in Nat \ {0} /\ MaxAttempts \in Nat \ {0}
    /\ {Cap, MaxClaims, MaxCrashes} \subseteq Nat

Jobs == 1 .. MaxJob
NoZip == {0}         \* no file at zip_path; a zip is the set of jobs it holds

VARIABLES
    status,     \* the row of each job: its status, "none" before, "gone" after
    attempts,   \* export_jobs.attempts
    exportId,   \* the attempt whose directory the row names, 0: none
    batch,      \* the jobs that carry the batch id
    dirs,       \* the directories on the volume
    old,        \* what lies past the cutoff: jobs, directories, the zip
    lane,       \* the export lane: the directory it generates, <<>>: idle
    deleting,   \* jobs whose files delete_export removed, the row not yet
    zip,        \* the cached zip of the batch
    dl,         \* the download in progress, {}: none
    sweep,      \* the retention sweep
    torn,       \* jobs whose removal a crash cut short (history)
    crashes

rows == <<status, attempts, exportId, batch>>
vars == <<status, attempts, exportId, batch, dirs, old, lane, deleting,
          zip, dl, sweep, torn, crashes>>

Terminal == {"completed", "failed", "cancelled"}
HasRow(j) == status[j] \notin {"none", "gone"}
DirOf(j) == <<j, exportId[j]>>
IdleSweep == [at |-> "idle", rows |-> {}, known |-> {}, zip |-> FALSE, total |-> 0]

Nothing == [jobs |-> {}, dirs |-> {}, zip |-> FALSE]

TypeOK ==
    /\ status \in [Jobs -> {"none", "pending", "running", "gone"} \cup Terminal]
    /\ attempts \in [Jobs -> 0 .. MaxAttempts]
    /\ exportId \in [Jobs -> 0 .. MaxAttempts]
    /\ dirs \subseteq Jobs \X (1 .. MaxAttempts)
    /\ lane \in {<<>>} \cup (Jobs \X (1 .. MaxAttempts))
    /\ zip \in {NoZip} \cup SUBSET Jobs
    /\ {batch, deleting, torn} \subseteq SUBSET Jobs

Init ==
    /\ status = [j \in Jobs |-> "none"]
    /\ attempts = [j \in Jobs |-> 0]
    /\ exportId = [j \in Jobs |-> 0]
    /\ batch = {} /\ dirs = {} /\ old = Nothing /\ lane = <<>> /\ deleting = {}
    /\ zip = NoZip /\ dl = {} /\ sweep = IdleSweep /\ torn = {}
    /\ crashes = 0

-----------------------------------------------------------------------------
(* Enqueueing.                                                             *)

Enqueued(js) == [j \in Jobs |-> IF j \in js THEN "pending" ELSE status[j]]

CreateExport(j) ==
    /\ status[j] = "none"
    /\ status' = Enqueued({j})
    /\ UNCHANGED <<attempts, exportId, batch, dirs, old, lane, deleting,
                   zip, dl, sweep, torn, crashes>>

\* A product or vendor export: one job per chosen source that holds a live
\* article at that moment (keep), a 400 when none does.
CreateBatch(keep) ==
    /\ batch = {}
    /\ keep # {}
    /\ \A j \in keep : status[j] = "none"
    /\ status' = Enqueued(keep)
    /\ batch' = keep
    /\ UNCHANGED <<attempts, exportId, dirs, old, lane, deleting, zip, dl,
                   sweep, torn, crashes>>

Cancel(j) ==
    /\ status[j] = "pending"
    /\ status' = [status EXCEPT ![j] = "cancelled"]
    /\ UNCHANGED <<attempts, exportId, batch, dirs, old, lane, deleting,
                   zip, dl, sweep, torn, crashes>>

\* The cascade of a source's deletion: rows only, the volume is not touched.
DeleteSource(j) ==
    /\ HasRow(j)
    /\ status' = [status EXCEPT ![j] = "gone"]
    /\ batch' = batch \ {j}
    /\ UNCHANGED <<attempts, exportId, dirs, old, lane, deleting,
                   zip, dl, sweep, torn, crashes>>

-----------------------------------------------------------------------------
(* The export lane.                                                        *)

Claim(j) ==
    /\ lane = <<>>
    /\ status[j] = "pending"
    /\ attempts[j] < MaxAttempts
    /\ MapThenSumSet(LAMBDA k : attempts[k], Jobs) < MaxClaims
    /\ status' = [status EXCEPT ![j] = "running"]
    /\ attempts' = [attempts EXCEPT ![j] = @ + 1]
    /\ lane' = <<j, attempts[j] + 1>>
    /\ UNCHANGED <<exportId, batch, dirs, old, deleting, zip, dl, sweep,
                   torn, crashes>>

\* export_sync makes a directory under a fresh id and writes the files.  A
\* source with nothing to export raises before that, any later failure (a full
\* disk, a bad PDF chunk) leaves what was written: FailExport, with or without
\* the directory.
Generate ==
    /\ lane # <<>>
    /\ lane \notin dirs
    /\ dirs' = dirs \cup {lane}
    /\ UNCHANGED <<rows, old, lane, deleting, zip, dl, sweep, torn,
                   crashes>>

\* The row names the directory and is completed in one commit, whatever its
\* status has become since the claim; a row deleted meanwhile raises.
FinishExport ==
    LET j == lane[1]
    IN  /\ lane # <<>> /\ lane \in dirs
        /\ IF HasRow(j)
           THEN /\ status' = [status EXCEPT ![j] = "completed"]
                /\ exportId' = [exportId EXCEPT ![j] = lane[2]]
           ELSE UNCHANGED <<status, exportId>>
        /\ lane' = <<>>
        /\ UNCHANGED <<attempts, batch, dirs, old, deleting, zip, dl,
                       sweep, torn, crashes>>

FailExport ==
    LET j == lane[1]
    IN  /\ lane # <<>>
        /\ status' = IF HasRow(j) THEN [status EXCEPT ![j] = "failed"] ELSE status
        /\ lane' = <<>>
        /\ UNCHANGED <<attempts, exportId, batch, dirs, old, deleting,
                       zip, dl, sweep, torn, crashes>>

\* The reaper of the scheduler: a running job whose heartbeat stopped, because
\* its worker died or was only slow.
Reap(j) ==
    /\ status[j] = "running"
    /\ status' = [status EXCEPT ![j] = IF attempts[j] < MaxAttempts
                                       THEN "pending" ELSE "failed"]
    /\ UNCHANGED <<attempts, exportId, batch, dirs, old, lane, deleting,
                   zip, dl, sweep, torn, crashes>>

-----------------------------------------------------------------------------
(* delete_export: the files, then the row.                                 *)

DeleteFiles(j) ==
    /\ HasRow(j) /\ exportId[j] # 0 /\ j \notin deleting
    /\ dirs' = dirs \ {DirOf(j)}
    /\ deleting' = deleting \cup {j}
    /\ UNCHANGED <<rows, old, lane, zip, dl, sweep, torn, crashes>>

Without(js) ==
    /\ status' = [j \in Jobs |-> IF j \in js THEN "gone" ELSE status[j]]
    /\ batch' = batch \ js
    /\ UNCHANGED <<attempts, exportId>>

DeleteRow(j) ==
    /\ j \in deleting
    /\ Without({j})
    /\ deleting' = deleting \ {j}
    /\ UNCHANGED <<dirs, old, lane, zip, dl, sweep, torn, crashes>>

-----------------------------------------------------------------------------
(* The download of a batch: the rows are read first, the zip is served or  *)
(* built from that reading.                                                *)

LoadBatch ==
    LET done == {j \in batch : status[j] = "completed"}
    IN  /\ dl = {}
        /\ done # {}
        /\ dl' = {[done     |-> {DirOf(j) : j \in done},
                   inFlight |-> \E j \in batch : status[j] \in {"pending", "running"}]}
        /\ UNCHANGED <<rows, dirs, old, lane, deleting, zip, sweep, torn,
                       crashes>>

ServeCached ==
    /\ \E d \in dl : ~d.inFlight
    /\ zip # NoZip
    /\ dl' = {}
    /\ UNCHANGED <<rows, dirs, old, lane, deleting, zip, sweep, torn,
                   crashes>>

\* A cached zip is dropped while sources are running; the new one holds the
\* listed directories that are still there.  Nothing written is a 410.
BuildZip ==
    \E d \in dl :
        /\ zip = NoZip \/ d.inFlight
        /\ zip' = LET there == d.done \cap dirs
                  IN  IF there = {} THEN NoZip ELSE {e[1] : e \in there}
        /\ old' = [old EXCEPT !.zip = FALSE]
        /\ dl' = {}
        /\ UNCHANGED <<rows, dirs, lane, deleting, sweep, torn, crashes>>

\* A directory that vanishes while it is being copied: the zip is removed.
BuildFails ==
    /\ \E d \in dl : (zip = NoZip \/ d.inFlight) /\ ~ d.done \subseteq dirs
    /\ zip' = NoZip
    /\ dl' = {}
    /\ UNCHANGED <<rows, dirs, old, lane, deleting, sweep, torn, crashes>>

-----------------------------------------------------------------------------
(* purge_expired_exports.                                                  *)

\* retention_days pass.  An export takes less than that, and so does a sweep.
Age ==
    /\ lane = <<>> /\ sweep.at = "idle"
    /\ old' = [jobs |-> {j \in Jobs : HasRow(j)}, dirs |-> dirs, zip |-> zip # NoZip]
    /\ old' # old
    /\ UNCHANGED <<rows, dirs, lane, deleting, zip, dl, sweep, torn,
                   crashes>>

Sweeping(at) == sweep.at = at /\ UNCHANGED <<old, lane, deleting, dl, torn,
                                             crashes>>

\* The terminal jobs past the cutoff lose their directories ...
AgeFiles ==
    LET js == {j \in Jobs : j \in old.jobs /\ status[j] \in Terminal}
    IN  /\ Sweeping("idle")
        /\ dirs' = dirs \ {DirOf(j) : j \in js}
        /\ sweep' = [sweep EXCEPT !.at = "age", !.rows = js]
        /\ UNCHANGED <<rows, zip>>

\* ... then their rows, in one commit; the sweep reads the ids still known.
AgeRows ==
    /\ Sweeping("age")
    /\ Without(sweep.rows)
    /\ sweep' = [sweep EXCEPT !.at = "orphans", !.rows = {},
                     !.known = {DirOf(k) : k \in {i \in Jobs :
                                    HasRow(i) /\ i \notin sweep.rows}}]
    /\ UNCHANGED <<dirs, zip>>

\* Mutant of Orphans: the age of a directory is not looked at.
OrphansOfAnyAge == dirs \ sweep.known

\* Mutant of Orphans: the test of the name is inverted.
OrphansKnown == {d \in dirs \cap sweep.known : d \in old.dirs}

\* The directories no row names that lie past the cutoff.
Orphans == {d \in dirs \ sweep.known : d \in old.dirs}

OrphanSweep ==
    /\ Sweeping("orphans")
    /\ dirs' = dirs \ Orphans
    /\ sweep' = [sweep EXCEPT !.at = "zips", !.known = {}]
    /\ UNCHANGED <<rows, zip>>

\* A zip is dropped when it is stale or when no job of its batch is left.
ZipSweep ==
    /\ Sweeping("zips")
    /\ zip' = IF old.zip \/ batch = {} THEN NoZip ELSE zip
    /\ sweep' = IF Cap > 0 THEN [sweep EXCEPT !.at = "measure"] ELSE IdleSweep
    /\ UNCHANGED <<rows, dirs>>

Weight(z) == IF z = NoZip THEN 0 ELSE Cardinality(z)

\* The footprint is measured once; the evictions only subtract from it.
Measure ==
    LET done == {j \in Jobs : status[j] = "completed"}
    IN  /\ Sweeping("measure")
        /\ sweep' = [sweep EXCEPT !.at = "cap", !.known = done, !.zip = zip # NoZip,
                         !.total = Weight(zip) + Cardinality({j \in done : DirOf(j) \in dirs})]
        /\ UNCHANGED <<rows, dirs, zip>>

\* Batch zips are spent first: they can be rebuilt.
EvictZip ==
    /\ Sweeping("cap")
    /\ sweep.total > Cap /\ sweep.zip
    /\ zip' = NoZip
    /\ sweep' = [sweep EXCEPT !.zip = FALSE,
                     !.total = IF @ > Weight(zip) THEN @ - Weight(zip) ELSE 0]
    /\ UNCHANGED <<rows, dirs>>

\* Then the completed jobs, oldest first.
EvictJob ==
    LET j == Min(sweep.known)
    IN  /\ Sweeping("cap")
        /\ sweep.total > Cap /\ ~sweep.zip /\ sweep.known # {}
        /\ dirs' = dirs \ {DirOf(j)}
        /\ sweep' = [sweep EXCEPT !.known = @ \ {j}, !.rows = @ \cup {j},
                         !.total = @ - 1]
        /\ UNCHANGED <<rows, zip>>

EvictRows ==
    /\ Sweeping("cap")
    /\ sweep.total <= Cap \/ (~sweep.zip /\ sweep.known = {})
    /\ Without(sweep.rows)
    /\ sweep' = IdleSweep
    /\ UNCHANGED <<dirs, zip>>

-----------------------------------------------------------------------------
(* Crashes: the worker takes the lane and the sweep with it, the API its   *)
(* requests.                                                               *)

WorkerCrash ==
    /\ crashes < MaxCrashes /\ (lane # <<>> \/ sweep # IdleSweep)
    /\ crashes' = crashes + 1
    /\ lane' = <<>>
    /\ sweep' = IdleSweep
    /\ torn' = torn \cup sweep.rows
    /\ UNCHANGED <<rows, dirs, old, deleting, zip, dl>>

ApiCrash ==
    /\ crashes < MaxCrashes /\ deleting # {}
    /\ crashes' = crashes + 1
    /\ deleting' = {}
    /\ dl' = {}
    /\ torn' = torn \cup deleting
    /\ UNCHANGED <<rows, dirs, old, lane, zip, sweep>>

Sweep == AgeFiles \/ AgeRows \/ OrphanSweep \/ ZipSweep \/ Measure
            \/ EvictZip \/ EvictJob \/ EvictRows
Lane == (\E j \in Jobs : Claim(j)) \/ Generate \/ FinishExport \/ FailExport
Download == LoadBatch \/ ServeCached \/ BuildZip \/ BuildFails

Next ==
    \/ \E j \in Jobs : \/ CreateExport(j) \/ Cancel(j) \/ DeleteSource(j)
                       \/ Reap(j) \/ DeleteFiles(j) \/ DeleteRow(j)
    \/ \E keep \in SUBSET Jobs : CreateBatch(keep)
    \/ Lane \/ Download \/ Sweep \/ Age \/ WorkerCrash \/ ApiCrash

Spec == Init /\ [][Next]_vars

\* The worker's lanes and the hourly sweep go on; requests in progress end;
\* time passes whenever nothing is being generated.
Fairness ==
    /\ WF_vars(Generate) /\ WF_vars(FinishExport \/ FailExport)
    /\ WF_vars(Sweep) /\ SF_vars(Age)
    /\ WF_vars(ServeCached \/ BuildZip \/ BuildFails)
    /\ \A j \in Jobs : WF_vars(DeleteRow(j))

FairSpec == Spec /\ Fairness

-----------------------------------------------------------------------------
\* list_exports shows a completed export whose directory is there.
Listed == {j \in Jobs : status[j] = "completed" /\ DirOf(j) \in dirs}

(* A completed row keeps its files: only a removal that is under way, or   *)
(* one that a crash cut between the files and the row, separates them.     *)
(* Neither the orphan sweep nor another job's eviction ever takes them     *)
(* (routes/export.py:305, "keeps the listing and the filesystem            *)
(* consistent").                                                           *)
RowKeepsFiles ==
    \A j \in Jobs : status[j] = "completed" =>
        \/ j \in Listed
        \/ j \in deleting \cup sweep.rows \cup torn

(* The volume does not fill with what nobody can reach: a directory that   *)
(* no row names, left by a crash, by a failed or repeated generation or by *)
(* the deletion of a source, is removed in the end                         *)
(* (export_retention.py: "Orphan directories ... are swept too").          *)
Unreachable(d) == d \in dirs /\ d # lane /\ ~(HasRow(d[1]) /\ DirOf(d[1]) = d)
OrphanGoes ==
    \A d \in Jobs \X (1 .. MaxAttempts) : Unreachable(d) ~> d \notin dirs

(* A zip served from the cache holds every source of the batch that has    *)
(* completed and still has its files (routes/export.py:817-818: "A cached  *)
(* zip built while sources were still running would be missing them, and   *)
(* every later download would serve that stale copy").                     *)
ServedIsWhole ==
    \A d \in dl : ~d.inFlight /\ zip # NoZip =>
        \A j \in batch : DirOf(j) \in d.done \cap dirs => j \in zip
=============================================================================
