------------------------------ MODULE RunQueue ------------------------------
(***************************************************************************)
(* The durable queue of extraction runs and export jobs: the rows in       *)
(* PostgreSQL, the workers' two lanes, the API's cancel / pause / resume,  *)
(* and the scheduler's reapers (services/queue.py, worker.py,              *)
(* routes/extraction.py, the control paths of services/firecrawl.py).      *)
(*                                                                         *)
(* One action is one committed transaction, except where the gap between   *)
(* two statements matters.  Three such gaps are let in by name, in Races:  *)
(*   "claim_skew"  the claims of the two lanes read overlapping snapshots; *)
(*   "stale_api"   a request loads a row, others commit, then it writes;   *)
(*   "stall"       a live worker's heartbeat is late, so it is reaped.     *)
(***************************************************************************)
EXTENDS Naturals, FiniteSets

CONSTANTS
    Source, Run, Export, Worker,
    SourceOf,       \* the source each run extracts
    KindOf,         \* its kind; "web" and "pdf" are the source types of an extract run
    XSourceOf,      \* the source each export job reads
    NoRun, NoExport,
    ReapAttempts,   \* max_attempts of the reapers
    PdfAttempts,    \* settings.pdf_download_max_attempts
    MaxCrashes,     \* bound: worker crashes
    MaxResumes,     \* bound: no resume once some run was resumed this often
    Races           \* which of the gaps above are let in

Kind == {"web", "pdf", "escalate", "enrich", "retry_blocked"}
Race == {"claim_skew", "stale_api", "stall"}

ASSUME TablesAssumption ==
    /\ SourceOf \in [Run -> Source]
    /\ XSourceOf \in [Export -> Source]
    /\ KindOf \in [Run -> Kind]
    /\ NoRun \notin Run
    /\ NoExport \notin Export
ASSUME BoundsAssumption ==
    /\ ReapAttempts \in Nat \ {0}
    /\ PdfAttempts \in Nat \ {0}
    /\ MaxCrashes \in Nat
    /\ MaxResumes \in Nat
ASSUME RacesAssumption == Races \subseteq Race

VARIABLES
    \* rows of extraction_runs
    status,     \* RunStatus, or "absent" before the row is inserted
    control,    \* the stop request: "cancel", "pause" or "none" (NULL)
    attempts,   \* how often the run was claimed
    relogged,   \* auto_relogin_used
    delayed,    \* next_attempt_at is in the future
    resumes,    \* history: how often the run was resumed
    \* rows of documentation_sources, toc_checkpoints and export_jobs
    srcStatus, ckpt, xstatus, xattempts,
    \* extraction lane of each worker: where it is, its run, the signal it read
    pc, job, sig,
    \* export lane of each worker
    xpc, xjob,
    \* a request between loading its row and writing it, and the crash count
    api, crashes

rowVars == <<status, control, attempts, relogged, delayed, resumes>>
xrowVars == <<xstatus, xattempts>>
laneVars == <<pc, job, sig>>
xlaneVars == <<xpc, xjob>>
vars == <<rowVars, srcStatus, ckpt, xrowVars, laneVars, xlaneVars, api, crashes>>
-----------------------------------------------------------------------------
Active == {"pending", "running"}
Final == {"completed", "failed", "cancelled"}
RunStatus == Active \cup Final \cup {"absent", "paused"}
SourceStatus == {"pending", "extracting", "completed", "failed"}
Control == {"none", "pause", "cancel"}
Signal == Control \cup {"requeue"}
Busy == {"claimed", "working", "closing", "signalled", "failing"}
NoRequest == [op |-> "none"]

RunRequest == [op : {"cancel", "pause", "resume"}, run : Run,
               seen : RunStatus, ctl : Control]
ExportRequest == [op : {"cancel_export"}, export : Export]

RowsTypeOK ==
    /\ status \in [Run -> RunStatus]
    /\ control \in [Run -> Control]
    /\ attempts \in [Run -> Nat]
    /\ relogged \in [Run -> BOOLEAN]
    /\ delayed \in [Run -> BOOLEAN]
    /\ resumes \in [Run -> Nat]
    /\ srcStatus \in [Source -> SourceStatus]
    /\ ckpt \subseteq Source

LanesTypeOK ==
    /\ pc \in [Worker -> {"idle", "picked"} \cup Busy]
    /\ job \in [Worker -> Run \cup {NoRun}]
    /\ sig \in [Worker -> Signal]
    /\ \A w \in Worker : pc[w] # "idle" => job[w] \in Run

ExportsTypeOK ==
    /\ xstatus \in [Export -> (RunStatus \ {"paused"})]
    /\ xattempts \in [Export -> Nat]
    /\ xpc \in [Worker -> {"idle", "picked", "exporting"}]
    /\ xjob \in [Worker -> Export \cup {NoExport}]
    /\ \A w \in Worker : xpc[w] # "idle" => xjob[w] \in Export

TypeOK ==
    /\ RowsTypeOK
    /\ LanesTypeOK
    /\ ExportsTypeOK
    /\ api \in {NoRequest} \cup RunRequest \cup ExportRequest
    /\ crashes \in 0..MaxCrashes

Init ==
    /\ status = [r \in Run |-> "absent"]
    /\ control = [r \in Run |-> "none"]
    /\ attempts = [r \in Run |-> 0]
    /\ relogged = [r \in Run |-> FALSE]
    /\ delayed = [r \in Run |-> FALSE]
    /\ resumes = [r \in Run |-> 0]
    /\ srcStatus = [s \in Source |-> "pending"]
    /\ ckpt = {}
    /\ xstatus = [x \in Export |-> "absent"]
    /\ xattempts = [x \in Export |-> 0]
    /\ pc = [w \in Worker |-> "idle"]
    /\ job = [w \in Worker |-> NoRun]
    /\ sig = [w \in Worker |-> "none"]
    /\ xpc = [w \in Worker |-> "idle"]
    /\ xjob = [w \in Worker |-> NoExport]
    /\ api = NoRequest
    /\ crashes = 0
-----------------------------------------------------------------------------
(* State functions.                                                        *)

\* uq_active_run_per_source: r may become pending or running.
Vacant(r) == \A q \in Run \ {r} : SourceOf[q] = SourceOf[r] => status[q] \notin Active

\* Row locks that a claim's FOR UPDATE holds until its commit.
Locked(r) == \E w \in Worker : pc[w] = "picked" /\ job[w] = r
XLocked(x) == \E w \in Worker : xpc[w] = "picked" /\ xjob[w] = x

Beating(r) == \E w \in Worker : pc[w] \in Busy /\ job[w] = r
XBeating(x) == \E w \in Worker : xpc[w] = "exporting" /\ xjob[w] = x

RunningOn(s) == {r \in Run : SourceOf[r] = s /\ status[r] = "running"}
ExportingOn(s) == {x \in Export : XSourceOf[x] = s /\ xstatus[x] = "running"}

\* The ORM writes an attribute only when it differs from the loaded value.
Assign(loaded, value, current) == IF loaded = value THEN current ELSE value

\* The source row is rewritten only while it still says "extracting".
LeaveExtracting(s, to) ==
    srcStatus' = [srcStatus EXCEPT ![s] = IF @ = "extracting" THEN to ELSE @]

\* Worker w is at one of these places and no claim has locked its run's row, so
\* what it writes does not have to wait.
At(w, places) == pc[w] \in places /\ ~Locked(job[w])

\* Mutant of Release: the lane forgets its run and goes on.
ReleaseOnlyJob(w) == /\ job' = [job EXCEPT ![w] = NoRun]
                     /\ sig' = [sig EXCEPT ![w] = "none"]
                     /\ UNCHANGED pc

Release(w) == /\ pc' = [pc EXCEPT ![w] = "idle"]
              /\ job' = [job EXCEPT ![w] = NoRun]
              /\ sig' = [sig EXCEPT ![w] = "none"]

Goto(w, where) == pc' = [pc EXCEPT ![w] = where] /\ UNCHANGED <<job, sig>>
-----------------------------------------------------------------------------
(* The API and whatever else inserts rows (triggers, job fan-out, retries). *)

EnqueueRun(r) ==
    /\ status[r] = "absent"
    /\ Vacant(r)
    /\ status' = [status EXCEPT ![r] = "pending"]
    /\ UNCHANGED <<control, attempts, relogged, delayed, resumes, srcStatus, ckpt,
                   xrowVars, laneVars, xlaneVars, api, crashes>>

\* One job, or one per source of a batch in a single commit.
EnqueueExports(batch) ==
    /\ \A x \in batch : xstatus[x] = "absent"
    /\ xstatus' = [x \in Export |-> IF x \in batch THEN "pending" ELSE xstatus[x]]
    /\ UNCHANGED <<rowVars, srcStatus, ckpt, xattempts, laneVars, xlaneVars, api, crashes>>

\* Mutant of CancelAs: a running run is cancelled on the spot.
CancelAtOnce(r, seen, ctl) ==
    /\ seen \in {"pending", "running", "paused"}
    /\ status' = [status EXCEPT ![r] = "cancelled"]
    /\ control' = [control EXCEPT ![r] = Assign(ctl, "none", @)]
    /\ ckpt' = ckpt \ {SourceOf[r]}
    /\ UNCHANGED resumes

\* What each request writes when the row it loaded said (seen, ctl).
CancelAs(r, seen, ctl) ==
    \/ /\ seen \in {"pending", "paused"}
       /\ status' = [status EXCEPT ![r] = "cancelled"]
       /\ control' = [control EXCEPT ![r] = Assign(ctl, "none", @)]
       /\ ckpt' = ckpt \ {SourceOf[r]}
       /\ UNCHANGED resumes
    \/ /\ seen = "running"
       /\ control' = [control EXCEPT ![r] = Assign(ctl, "cancel", @)]
       /\ UNCHANGED <<status, ckpt, resumes>>

PauseAs(r, seen, ctl) ==
    \/ /\ seen = "running"
       /\ control' = [control EXCEPT ![r] = Assign(ctl, "pause", @)]
       /\ UNCHANGED <<status, ckpt, resumes>>
    \/ /\ seen = "pending"
       /\ status' = [status EXCEPT ![r] = "paused"]
       /\ control' = [control EXCEPT ![r] = Assign(ctl, "none", @)]
       /\ UNCHANGED <<ckpt, resumes>>

\* Resuming breaks the unique index, and is refused, when the source has an
\* active run; next_attempt_at is not touched, so a delayed run stays delayed.
ResumeAs(r, seen, ctl) ==
    /\ seen = "paused"
    /\ Vacant(r)
    /\ \A q \in Run : resumes[q] < MaxResumes
    /\ status' = [status EXCEPT ![r] = "pending"]
    /\ control' = [control EXCEPT ![r] = Assign(ctl, "none", @)]
    /\ resumes' = [resumes EXCEPT ![r] = @ + 1]
    /\ UNCHANGED ckpt

Apply(op, r, seen, ctl) ==
    /\ ~Locked(r)
    /\ \/ op = "cancel" /\ CancelAs(r, seen, ctl)
       \/ op = "pause" /\ PauseAs(r, seen, ctl)
       \/ op = "resume" /\ ResumeAs(r, seen, ctl)
    /\ UNCHANGED <<attempts, relogged, delayed, srcStatus, xrowVars, laneVars,
                   xlaneVars, crashes>>

CancelExportAs(x, seen) ==
    /\ seen = "pending"
    /\ ~XLocked(x)
    /\ xstatus' = [xstatus EXCEPT ![x] = "cancelled"]
    /\ UNCHANGED <<rowVars, srcStatus, ckpt, xattempts, laneVars, xlaneVars, crashes>>

\* A request whose load and write have no other commit between them.
CancelRun(r) == Apply("cancel", r, status[r], control[r]) /\ UNCHANGED api
PauseRun(r) == Apply("pause", r, status[r], control[r]) /\ UNCHANGED api
ResumeRun(r) == Apply("resume", r, status[r], control[r]) /\ UNCHANGED api
CancelExport(x) == CancelExportAs(x, xstatus[x]) /\ UNCHANGED api

\* The statuses a request accepts; it answers 409 to any other.
Accepts(op) == CASE op = "cancel" -> {"pending", "paused", "running"}
                 [] op = "pause" -> {"pending", "running"}
                 [] op = "resume" -> {"paused"}

\* One that others get in between: it writes what it decided on the loaded row.
LoadForRequest(r, op) ==
    /\ "stale_api" \in Races
    /\ api = NoRequest
    /\ status[r] \in Accepts(op)
    /\ api' = [op |-> op, run |-> r, seen |-> status[r], ctl |-> control[r]]
    /\ UNCHANGED <<rowVars, srcStatus, ckpt, xrowVars, laneVars, xlaneVars, crashes>>

LoadForCancelExport(x) ==
    /\ "stale_api" \in Races
    /\ api = NoRequest
    /\ xstatus[x] = "pending"
    /\ api' = [op |-> "cancel_export", export |-> x]
    /\ UNCHANGED <<rowVars, srcStatus, ckpt, xrowVars, laneVars, xlaneVars, crashes>>

CommitRequest ==
    /\ api # NoRequest
    /\ api' = NoRequest
    /\ IF api.op = "cancel_export" THEN CancelExportAs(api.export, "pending")
                                   ELSE Apply(api.op, api.run, api.seen, api.ctl)

\* The request fails: the unique index refused it (409), or its connection broke.
DropRequest ==
    /\ api # NoRequest
    /\ api' = NoRequest
    /\ UNCHANGED <<rowVars, srcStatus, ckpt, xrowVars, laneVars, xlaneVars, crashes>>
-----------------------------------------------------------------------------
(* Claims.  ORDER BY is left out: any ready row may be the oldest one.      *)

\* Mutant of Claimable: the select takes no row lock.
ClaimableUnlocked(r) == /\ status[r] = "pending" /\ ~delayed[r]
                        /\ ExportingOn(SourceOf[r]) = {}

Claimable(r) == /\ status[r] = "pending" /\ ~delayed[r] /\ ~Locked(r)
                /\ ExportingOn(SourceOf[r]) = {}

\* Mutants of XClaimable: exports ignore the runs, or wait for paused ones too.
XClaimableAnyway(x) == xstatus[x] = "pending" /\ ~XLocked(x)
XClaimableUnpaused(x) ==
    /\ xstatus[x] = "pending" /\ ~XLocked(x)
    /\ \A r \in Run : SourceOf[r] = XSourceOf[x] => status[r] \notin {"running", "paused"}

XClaimable(x) == /\ xstatus[x] = "pending" /\ ~XLocked(x)
                 /\ RunningOn(XSourceOf[x]) = {}

\* SELECT ... FOR UPDATE SKIP LOCKED: the snapshot is read and the row locked.
PickRun(w, r) ==
    /\ pc[w] = "idle"
    /\ Claimable(r)
    /\ "claim_skew" \in Races
         \/ \A v \in Worker : xpc[v] = "picked" => XSourceOf[xjob[v]] # SourceOf[r]
    /\ pc' = [pc EXCEPT ![w] = "picked"]
    /\ job' = [job EXCEPT ![w] = r]
    /\ UNCHANGED <<sig, rowVars, srcStatus, ckpt, xrowVars, xlaneVars, api, crashes>>

ClaimRun(w) ==
    /\ pc[w] = "picked"
    /\ status' = [status EXCEPT ![job[w]] = "running"]
    /\ attempts' = [attempts EXCEPT ![job[w]] = @ + 1]
    /\ Goto(w, "claimed")
    /\ UNCHANGED <<control, relogged, delayed, resumes, srcStatus, ckpt, xrowVars,
                   xlaneVars, api, crashes>>

PickExport(w, x) ==
    /\ xpc[w] = "idle"
    /\ XClaimable(x)
    /\ "claim_skew" \in Races
         \/ \A v \in Worker : pc[v] = "picked" => SourceOf[job[v]] # XSourceOf[x]
    /\ xpc' = [xpc EXCEPT ![w] = "picked"]
    /\ xjob' = [xjob EXCEPT ![w] = x]
    /\ UNCHANGED <<rowVars, srcStatus, ckpt, xrowVars, laneVars, api, crashes>>

ClaimExport(w) ==
    /\ xpc[w] = "picked"
    /\ xstatus' = [xstatus EXCEPT ![xjob[w]] = "running"]
    /\ xattempts' = [xattempts EXCEPT ![xjob[w]] = @ + 1]
    /\ xpc' = [xpc EXCEPT ![w] = "exporting"]
    /\ UNCHANGED <<xjob, rowVars, srcStatus, ckpt, laneVars, api, crashes>>

FinishExport(w) ==
    /\ xpc[w] = "exporting" /\ ~XLocked(xjob[w])
    /\ \E outcome \in {"completed", "failed"} :
          xstatus' = [xstatus EXCEPT ![xjob[w]] = outcome]
    /\ xpc' = [xpc EXCEPT ![w] = "idle"]
    /\ xjob' = [xjob EXCEPT ![w] = NoExport]
    /\ UNCHANGED <<xattempts, rowVars, srcStatus, ckpt, laneVars, api, crashes>>
-----------------------------------------------------------------------------
(* The extraction lane, once it holds a run.                                *)

elsewhere == <<attempts, delayed, resumes, xrowVars, xlaneVars, api, crashes>>

\* The handler loads the row and says RUNNING (enrich does not), which brings
\* back a run that a stale request ended; the index may refuse.
StartRun(w) ==
    LET r == job[w] IN
    /\ At(w, {"claimed"})
    /\ IF KindOf[r] = "enrich" \/ status[r] = "running" \/ Vacant(r)
       THEN /\ status' = IF KindOf[r] = "enrich" THEN status
                         ELSE [status EXCEPT ![r] = "running"]
            /\ srcStatus' = [srcStatus EXCEPT ![SourceOf[r]] = "extracting"]
            /\ Goto(w, "working")
       ELSE Goto(w, "failing") /\ UNCHANGED <<status, srcStatus>>
    /\ UNCHANGED <<control, relogged, ckpt, elsewhere>>

\* The TOC is saved once, then every finished chunk is added to it.
SaveCheckpoint(w) ==
    /\ pc[w] = "working" /\ KindOf[job[w]] = "web"
    /\ ckpt' = ckpt \cup {SourceOf[job[w]]}
    /\ UNCHANGED <<status, control, relogged, srcStatus, laneVars, elsewhere>>

\* A control check at a batch boundary: it raises RunControlSignal.
ObserveControl(w) ==
    /\ pc[w] = "working" /\ KindOf[job[w]] \in {"web", "pdf", "escalate"}
    /\ control[job[w]] # "none"
    /\ pc' = [pc EXCEPT ![w] = "signalled"]
    /\ sig' = [sig EXCEPT ![w] = control[job[w]]]
    /\ UNCHANGED <<job, status, control, relogged, srcStatus, ckpt, elsewhere>>

\* What a run becomes after a re-login was tried (_relogin_outcome).
Outcome(r, again) == IF control[r] = "cancel" THEN "cancel"
                     ELSE IF again /\ control[r] = "none" THEN "requeue" ELSE "pause"

\* A re-login is tried at most once per run, and may fail.
TryRelogin(r, again) ==
    \E tried \in BOOLEAN :
        /\ again => tried
        /\ tried => ~relogged[r]
        /\ relogged' = [relogged EXCEPT ![r] = @ \/ tried]

\* raw_http: the re-login commits first, and the signal is handled later.
SessionExpires(w) ==
    /\ At(w, {"working"}) /\ KindOf[job[w]] = "web"
    /\ \E again \in BOOLEAN :
          /\ TryRelogin(job[w], again)
          /\ sig' = [sig EXCEPT ![w] = Outcome(job[w], again)]
    /\ pc' = [pc EXCEPT ![w] = "signalled"]
    /\ UNCHANGED <<job, status, control, srcStatus, ckpt, elsewhere>>

\* The status a stop or a requeue leaves, the source no longer extracting.
ParkAs(r, outcome) ==
    /\ status' = [status EXCEPT ![r] = CASE outcome = "cancel" -> "cancelled"
                                         [] outcome = "pause" -> "paused"
                                         [] OTHER -> "pending"]
    /\ srcStatus' = [srcStatus EXCEPT ![SourceOf[r]] = "pending"]

DropIfCancelled(r, outcome) ==
    ckpt' = IF outcome = "cancel" THEN ckpt \ {SourceOf[r]} ELSE ckpt

\* The other engines: re-login and outcome under one row lock, in one commit.
AuthWall(w) ==
    LET r == job[w] IN
    /\ At(w, {"working"}) /\ KindOf[r] = "web"
    /\ \E again \in BOOLEAN :
          LET outcome == Outcome(r, again) IN
          /\ outcome = "requeue" => Vacant(r)
          /\ TryRelogin(r, again)
          /\ ParkAs(r, outcome)
          /\ DropIfCancelled(r, outcome)
    /\ control' = [control EXCEPT ![r] = "none"]
    /\ Release(w)
    /\ UNCHANGED elsewhere

\* The handler of RunControlSignal.  Web: a requeue is decided again under a
\* row lock, and setting control to NULL reaches the row only if the ORM loaded
\* something else.  Escalate: whatever the signal was, the run is cancelled.
SettleSignal(w) ==
    LET r == job[w] IN
    /\ At(w, {"signalled"})
    /\ \/ /\ KindOf[r] = "web"
          /\ LET outcome == IF sig[w] = "requeue" THEN Outcome(r, TRUE) ELSE sig[w] IN
             /\ outcome = "requeue" => Vacant(r)
             /\ ParkAs(r, outcome)
             /\ DropIfCancelled(r, outcome)
             /\ \E left \in IF sig[w] = "requeue" THEN {"none"} ELSE {control[r], "none"} :
                   control' = [control EXCEPT ![r] = left]
       \/ /\ KindOf[r] = "pdf"
          /\ ParkAs(r, sig[w])
          /\ control' = [control EXCEPT ![r] = "none"]
          /\ UNCHANGED ckpt
       \/ /\ KindOf[r] = "escalate"
          /\ status' = [status EXCEPT ![r] = "cancelled"]
          /\ srcStatus' = [srcStatus EXCEPT ![SourceOf[r]] = "completed"]
          /\ UNCHANGED <<control, ckpt>>
    /\ Release(w)
    /\ UNCHANGED <<relogged, elsewhere>>

\* A web run drops its checkpoint in a commit of its own before the last one.
ClearCheckpoint(w) ==
    /\ pc[w] = "working" /\ KindOf[job[w]] = "web"
    /\ ckpt' = ckpt \ {SourceOf[job[w]]}
    /\ Goto(w, "closing")
    /\ UNCHANGED <<status, control, relogged, srcStatus, elsewhere>>

\* The run ends by its own hand: completed, or failed for want of a login, with
\* every page blocked, or on a PDF error that is not worth a retry.
FinishRun(w) ==
    LET r == job[w] IN
    /\ At(w, {"working", "closing"})
    /\ \E outcome \in {"completed", "failed"} :
          /\ outcome = "completed" /\ KindOf[r] = "web" => pc[w] = "closing"
          /\ outcome = "failed" => KindOf[r] # "enrich"
          /\ status' = [status EXCEPT ![r] = outcome]
          /\ srcStatus' = [srcStatus EXCEPT ![SourceOf[r]] = outcome]
    /\ Release(w)
    /\ UNCHANGED <<control, relogged, ckpt, elsewhere>>

\* An exception reaches run_one_extraction; what was only flushed is gone.
WorkFails(w) ==
    /\ pc[w] \in {"claimed", "working", "closing", "signalled"}
    /\ Goto(w, "failing")
    /\ UNCHANGED <<status, control, relogged, srcStatus, ckpt, elsewhere>>

\* Acquiring the PDF failed in a way that may pass.
MayRetry(r) == KindOf[r] \in {"pdf", "escalate"} /\ attempts[r] < PdfAttempts

\* Its handler, on a clean session: retry a PDF download later, or fail.
HandleFailure(w) ==
    LET r == job[w] IN
    /\ At(w, {"failing"})
    /\ \/ /\ status[r] \in {"completed", "failed"}
          /\ UNCHANGED <<status, delayed, srcStatus>>
       \/ /\ status[r] \notin {"completed", "failed"}
          /\ MayRetry(r)
          /\ IF Vacant(r)
             THEN /\ status' = [status EXCEPT ![r] = "pending"]
                  /\ delayed' = [delayed EXCEPT ![r] = TRUE]
                  /\ LeaveExtracting(SourceOf[r], "pending")
             ELSE UNCHANGED <<status, delayed, srcStatus>>
       \/ /\ status[r] \notin {"completed", "failed"}
          /\ status' = [status EXCEPT ![r] = "failed"]
          /\ LeaveExtracting(SourceOf[r], "failed")
          /\ UNCHANGED delayed
    /\ Release(w)
    /\ UNCHANGED <<control, attempts, relogged, resumes, ckpt, xrowVars, xlaneVars,
                   api, crashes>>
-----------------------------------------------------------------------------
(* Crashes, the reapers, time.                                              *)

\* A worker process dies and restarts: both lanes forget what they held.
Crash(w) ==
    /\ pc[w] # "idle" \/ xpc[w] # "idle"
    /\ crashes < MaxCrashes
    /\ crashes' = crashes + 1
    /\ Release(w)
    /\ xpc' = [xpc EXCEPT ![w] = "idle"]
    /\ xjob' = [xjob EXCEPT ![w] = NoExport]
    /\ UNCHANGED <<rowVars, srcStatus, ckpt, xrowVars, api>>

\* Mutants of Lost and XLost: the heartbeat is not looked at.
LostIfRunning(r) == status[r] = "running"
XLostIfRunning(x) == xstatus[x] = "running"

Lost(r) == status[r] = "running" /\ ~Beating(r)
XLost(x) == xstatus[x] = "running" /\ ~XBeating(x)

\* Mutants of Reap: one attempt too many; the request is cleared with the claim; a
\* run at the cap is passed over.
ReapOnceMore(r) ==
    /\ Lost(r) \/ (status[r] = "running" /\ "stall" \in Races)
    /\ IF attempts[r] > ReapAttempts
       THEN status' = [status EXCEPT ![r] = "failed"] /\ LeaveExtracting(SourceOf[r], "failed")
       ELSE status' = [status EXCEPT ![r] = "pending"] /\ UNCHANGED srcStatus
    /\ UNCHANGED <<control, attempts, relogged, delayed, resumes, ckpt, xrowVars,
                   laneVars, xlaneVars, api, crashes>>
ReapClearsControl(r) ==
    /\ Lost(r)
    /\ attempts[r] < ReapAttempts
    /\ status' = [status EXCEPT ![r] = "pending"]
    /\ control' = [control EXCEPT ![r] = "none"]
    /\ UNCHANGED <<attempts, relogged, delayed, resumes, srcStatus, ckpt, xrowVars,
                   laneVars, xlaneVars, api, crashes>>
ReapBelowCap(r) ==
    /\ Lost(r)
    /\ attempts[r] < ReapAttempts
    /\ status' = [status EXCEPT ![r] = "pending"]
    /\ UNCHANGED <<control, attempts, relogged, delayed, resumes, srcStatus, ckpt,
                   xrowVars, laneVars, xlaneVars, api, crashes>>

\* One stale run; a tick of the scheduler reaps every one it finds.  The
\* source is looked at only when the run is given up.
Reap(r) ==
    /\ Lost(r) \/ (status[r] = "running" /\ "stall" \in Races)
    /\ IF attempts[r] >= ReapAttempts
       THEN /\ status' = [status EXCEPT ![r] = "failed"]
            /\ LeaveExtracting(SourceOf[r], "failed")
       ELSE /\ status' = [status EXCEPT ![r] = "pending"]
            /\ UNCHANGED srcStatus
    /\ UNCHANGED <<control, attempts, relogged, delayed, resumes, ckpt, xrowVars,
                   laneVars, xlaneVars, api, crashes>>

ReapExport(x) ==
    /\ XLost(x) \/ (xstatus[x] = "running" /\ "stall" \in Races)
    /\ xstatus' = [xstatus EXCEPT ![x] =
                      IF xattempts[x] >= ReapAttempts THEN "failed" ELSE "pending"]
    /\ UNCHANGED <<rowVars, srcStatus, ckpt, xattempts, laneVars, xlaneVars, api, crashes>>

\* retry_delay_seconds have passed.
BackoffElapses(r) ==
    /\ delayed[r]
    /\ delayed' = [delayed EXCEPT ![r] = FALSE]
    /\ UNCHANGED <<status, control, attempts, relogged, resumes, srcStatus, ckpt,
                   xrowVars, laneVars, xlaneVars, api, crashes>>
-----------------------------------------------------------------------------
(* The specification.                                                       *)

Request ==
    \/ \E r \in Run : EnqueueRun(r) \/ CancelRun(r) \/ PauseRun(r) \/ ResumeRun(r)
    \/ \E batch \in SUBSET Export : batch # {} /\ EnqueueExports(batch)
    \/ \E x \in Export : CancelExport(x) \/ LoadForCancelExport(x)
    \/ \E r \in Run, op \in {"cancel", "pause", "resume"} : LoadForRequest(r, op)
    \/ CommitRequest
    \/ DropRequest

\* Every step that takes a lane on from where it is.
Advance(w) == \/ ClaimRun(w) \/ StartRun(w) \/ ObserveControl(w) \/ SessionExpires(w)
              \/ AuthWall(w) \/ SettleSignal(w) \/ ClearCheckpoint(w) \/ FinishRun(w)
              \/ WorkFails(w) \/ HandleFailure(w)

AdvanceExport(w) == ClaimExport(w) \/ FinishExport(w)

Lane(w) == \/ \E r \in Run : PickRun(w, r)
           \/ \E x \in Export : PickExport(w, x)
           \/ Advance(w) \/ SaveCheckpoint(w) \/ AdvanceExport(w) \/ Crash(w)

Environment == \/ \E r \in Run : Reap(r) \/ BackoffElapses(r)
               \/ \E x \in Export : ReapExport(x)

Next == Request \/ (\E w \in Worker : Lane(w)) \/ Environment

\* The lanes poll for ever and every outside call they make has a timeout; the
\* scheduler reaps at every tick; a delay ends.  Nobody has to click anything.
Fairness ==
    /\ \A w \in Worker : /\ WF_vars(\E r \in Run : PickRun(w, r))
                         /\ WF_vars(\E x \in Export : PickExport(w, x))
                         /\ WF_vars(Advance(w))
                         /\ WF_vars(AdvanceExport(w))
    /\ \A r \in Run : WF_vars(Lost(r) /\ Reap(r)) /\ WF_vars(BackoffElapses(r))
    /\ \A x \in Export : WF_vars(XLost(x) /\ ReapExport(x))

Spec == Init /\ [][Next]_vars
FairSpec == Spec /\ Fairness
-----------------------------------------------------------------------------
(* Properties.                                                              *)

\* The partial unique index uq_active_run_per_source lets at most one run of a
\* source be pending or running, whoever writes the status.
OneActiveRun ==
    \A r, q \in Run : /\ SourceOf[r] = SourceOf[q]
                      /\ status[r] \in Active /\ status[q] \in Active
                      => r = q

\* FOR UPDATE SKIP LOCKED: between its select and its commit a claim has its row
\* for itself, and the row is still pending.
ClaimsAreExclusive ==
    /\ \A w, v \in Worker : pc[w] = "picked" /\ pc[v] = "picked" /\ job[w] = job[v] => w = v
    /\ \A w \in Worker : pc[w] = "picked" => status[job[w]] = "pending"
    /\ \A w, v \in Worker : xpc[w] = "picked" /\ xpc[v] = "picked" /\ xjob[w] = xjob[v] => w = v
    /\ \A w \in Worker : xpc[w] = "picked" => xstatus[xjob[w]] = "pending"

\* queue.py: an export "never mixes pre- and post-run articles", and a run never
\* starts "rewriting a source's articles while it is being exported".
SourceExclusion == \A s \in Source : RunningOn(s) = {} \/ ExportingOn(s) = {}

\* A run and an export of one source are selected and not committed, both.
ClaimsOverlap == \E w, v \in Worker : /\ pc[w] = "picked" /\ xpc[v] = "picked"
                                       /\ SourceOf[job[w]] = XSourceOf[xjob[v]]

\* A run that a lane works on is RUNNING, and is in no other lane: nothing the
\* lane writes can land on a run somebody else has ended or taken over.
LaneOwnsRun ==
    \A w \in Worker : pc[w] \in Busy =>
        /\ status[job[w]] = "running"
        /\ \A v \in Worker \ {w} : pc[v] # "idle" => job[v] # job[w]

\* The same of the export lane.
LaneOwnsExport ==
    \A w \in Worker : xpc[w] = "exporting" =>
        /\ xstatus[xjob[w]] = "running"
        /\ \A v \in Worker \ {w} : xpc[v] # "idle" => xjob[v] # xjob[w]

\* The reaper's cap and the PDF retry's cap count the same column, which resuming
\* and re-login do not reset: together they bound how often a run is claimed.
Cap(r) == (IF ReapAttempts > PdfAttempts THEN ReapAttempts ELSE PdfAttempts)
          + resumes[r] + (IF relogged[r] THEN 1 ELSE 0)

AttemptsBounded ==
    \A r \in Run : /\ attempts[r] <= Cap(r)
                   /\ status[r] = "pending" => attempts[r] < Cap(r)

\* A run put back in the queue (worker lost, PDF retry, re-login) keeps the
\* user's stop request, so that the next worker honours it.
StopSurvivesRequeue ==
    [][\A r \in Run : status[r] = "running" /\ status'[r] = "pending"
                          => control'[r] = control[r]]_vars

\* A run that has completed, failed or been cancelled stays as it ended.
FinalIsFinal ==
    [][\A r \in Run : status[r] \in Final => status'[r] = status[r]]_vars

\* Runs and exports of one source exclude each other as a readers-writer lock:
\* the run that is RUNNING writes the source, the exports that are RUNNING read it.
OneOf(runs) == IF runs = {} THEN NoRun ELSE CHOOSE r \in runs : TRUE
Writer == [s \in Source |-> OneOf(RunningOn(s))]
Readers == [s \in Source |-> ExportingOn(s)]

Lock == INSTANCE SourceLock WITH writer <- Writer, readers <- Readers

ImplementsSourceLock == Lock!Spec

\* Whatever fails, a queued or running run ends, or waits for the user, paused.
RunSettles ==
    \A r \in Run : status[r] \in Active ~> status[r] \in Final \cup {"paused"}

\* An export is not held back for ever by the runs of its source.
ExportSettles ==
    \A x \in Export : xstatus[x] \in Active ~> xstatus[x] \in Final
=============================================================================
