--------------------------- MODULE JobScheduling ---------------------------
(***************************************************************************)
(* Jobs: named coverages with an optional schedule. The one scheduler (it  *)
(* holds an advisory lock) ticks: it reconciles the open firings with      *)
(* their child runs, loads the due jobs once, and fans each out into one   *)
(* pending run per covered source, committing job by job. Meanwhile the    *)
(* API edits, deletes and fires jobs by hand, sources are deleted, and     *)
(* workers move the runs along.                                            *)
(*                                                                         *)
(* A cron rule is its period: it fires at the multiples of it, and 0 is no *)
(* rule. A firing is a JobRun; a run is an ExtractionRun reduced to its    *)
(* status, because RunQueue has the rest.                                  *)
(***************************************************************************)
EXTENDS Integers, Sequences, FiniteSets

CONSTANTS
    Job, Source,
    Periods,        \* the schedule rules a user may choose
    Gates,          \* the states of a source's realm that may be met
    StartTime,      \* when the scheduler comes up: it has slept through the slots before
    MaxTime,        \* bound on the clock
    MaxFirings,     \* bound on the job runs ever created
    MaxEdits        \* bound on what disturbs the scheduler and the workers: requests,
                    \* crashes, requeues, the passing of time

ASSUME PeriodsAssumption == Periods \subseteq Nat \ {0}
ASSUME GatesAssumption == Gates \subseteq {"open", "login_failed", "no_session", "expired", "renewable"}
ASSUME BoundsAssumption == MaxTime \in Nat /\ StartTime \in 0 .. MaxTime /\ MaxFirings \in Nat /\ MaxEdits \in Nat

Never == -1         \* a null next_run_at

RunStatus == {"pending", "running", "paused", "completed", "failed", "cancelled"}
FinalRun == {"completed", "failed", "cancelled"}
FiringStatus == {"pending", "running", "completed", "partial", "failed", "cancelled"}
OpenFiring == {"pending", "running"}
Reasons == {"paused_run", "login_failed", "login_needed", "active_run"}

VARIABLES
    clock,
    sources,        \* the sources that exist
    gate,           \* each source's realm: usable (or none), credentials rejected, no
                    \* session, an expired one, or one that saved credentials can renew
    jobs,           \* the rows of the jobs table, live while they exist
    firings,        \* the job_runs ever created, live while they exist
    run,            \* run[i][s]: the run of source s in firing i; i = 0 is outside jobs
    sched,          \* the scheduler's tick
    hand,           \* a "Run now" request
    bulk,           \* the sources a bulk trigger found eligible and has yet to enqueue
    edits

vars == <<clock, sources, gate, jobs, firings, run, sched, hand, bulk, edits>>

\* A tick or a request in flight: its now, the due jobs it loaded with the rule
\* they had, the job it is firing, and the coverage and pauses it read for it.
Actor == [pc : {"idle", "load", "each", "fan"}, now : 0 .. MaxTime,
          due : SUBSET (Job \X Periods), firing : (Job \X (Periods \cup {0})) \cup {<< >>},
          cover : SUBSET Source, paused : SUBSET Source]
Idle == [pc |-> "idle", now |-> 0, due |-> {}, firing |-> << >>, cover |-> {}, paused |-> {}]

Firing == [job : Job, live : BOOLEAN, trigger : {"scheduled", "manual"}, at : 0 .. MaxTime,
           status : FiringStatus, skipped : SUBSET (Source \X Reasons)]

TypeOK ==
    /\ clock \in 0 .. MaxTime
    /\ sources \subseteq Source
    /\ gate \in [Source -> Gates \cup {"open"}]
    /\ jobs \in [Job -> [live : BOOLEAN, enabled : BOOLEAN, cron : Periods \cup {0},
                         next : Int, cover : SUBSET Source]]
    /\ firings \in Seq(Firing) /\ Len(firings) <= MaxFirings
    /\ run \in [0 .. MaxFirings -> [Source -> RunStatus \cup {"none"}]]
    /\ sched \in Actor /\ hand \in Actor
    /\ bulk \subseteq Source
    /\ edits \in 0 .. MaxEdits
-----------------------------------------------------------------------------
(* What is read *)

NextSlot(period, after) == IF period = 0 THEN Never ELSE (after \div period + 1) * period

HasRun(s, statuses) == \E i \in 0 .. MaxFirings : run[i][s] \in statuses

Children(i) == {s \in Source : run[i][s] # "none"}

\* resolve_sources joins the job with its targets and the sources that exist.
Covered(j) == IF jobs[j].live THEN jobs[j].cover \cap sources ELSE {}

\* uq_active_run_per_source, and the foreign key to the source: the insert of a
\* pending run fails with the same IntegrityError on either.
Insertable(s) == s \in sources /\ ~HasRun(s, {"pending", "running"})

\* _needs_human_login: no saved credentials, and no session that works.
NeedsHumanLogin(s) == gate[s] \in {"no_session", "expired"}

\* realm_blocks_extraction, which the bulk trigger goes by.
BlocksExtraction(s) == gate[s] \in {"expired", "renewable"}

SkipReasons(s, paused) ==
    IF s \in paused THEN {"paused_run"}
    ELSE IF gate[s] = "login_failed" THEN {"login_failed"}
    ELSE IF NeedsHumanLogin(s) THEN {"login_needed"}
    ELSE IF ~Insertable(s) THEN {"active_run"} ELSE {}
-----------------------------------------------------------------------------
(* Firing a job: fan_out_job.  It reads the coverage and the paused runs ... *)

ReadCoverage(a, j, cron) ==
    [a EXCEPT !.pc = "fan", !.firing = <<j, cron>>, !.cover = Covered(j),
              !.paused = {s \in Covered(j) : HasRun(s, {"paused"})}]

\* ... and inserts the JobRun and a pending run per source it may enqueue, all
\* visible with the caller's commit.  With nothing to do the firing is complete.
FanOut(a, j, trigger) ==
    LET queued == {s \in a.cover : SkipReasons(s, a.paused) = {}}
        i == Len(firings) + 1
    IN  /\ i <= MaxFirings
        /\ firings' = Append(firings,
              [job |-> j, live |-> TRUE, trigger |-> trigger, at |-> a.now,
               status |-> IF queued = {} THEN "completed" ELSE "pending",
               skipped |-> UNION {{s} \X SkipReasons(s, a.paused) : s \in a.cover}])
        /\ run' = [run EXCEPT ![i] = [s \in Source |-> IF s \in queued THEN "pending" ELSE "none"]]
-----------------------------------------------------------------------------
(* The scheduler *)

\* Mutants of Reconciled: a firing is closed over paused runs, or stays open over
\* stopped runs.
ReconciledOverPaused(f, kids) ==
    CASE kids = {} -> f.status
      [] kids # {} /\ ~(kids \subseteq FinalRun \cup {"paused"}) ->
            IF kids # {"pending"} THEN "running" ELSE f.status
      [] kids \in {{"completed"}, {"failed"}, {"cancelled"}} -> CHOOSE k \in kids : TRUE
      [] OTHER -> "partial"
ReconciledIfDone(f, kids) ==
    IF kids \in {{"completed"}, {"failed"}} THEN CHOOSE k \in kids : TRUE
    ELSE IF "running" \in kids THEN "running" ELSE f.status

\* What the children of a firing make of it.
Reconciled(f, kids) ==
    CASE kids = {} -> f.status
      [] kids # {} /\ ~(kids \subseteq FinalRun) ->
            IF kids # {"pending"} THEN "running" ELSE f.status
      [] kids \in {{"completed"}, {"failed"}, {"cancelled"}} -> CHOOSE k \in kids : TRUE
      [] OTHER -> "partial"

\* reconcile_job_runs, with its one commit.  A tick's "now" is taken before it.
TickReconcile ==
    /\ sched.pc = "idle"
    /\ firings' = [i \in DOMAIN firings |->
          IF firings[i].live /\ firings[i].status \in OpenFiring
          THEN [firings[i] EXCEPT !.status =
                    Reconciled(firings[i], {run[i][s] : s \in Children(i)})]
          ELSE firings[i]]
    /\ sched' = [sched EXCEPT !.pc = "load", !.now = clock]
    /\ UNCHANGED <<clock, sources, gate, jobs, run, hand, bulk, edits>>

Due(now) == {j \in Job : jobs[j].live /\ jobs[j].enabled /\ jobs[j].next \in 0 .. now}

\* The due jobs are loaded once, with the rule they have now.
TickLoad ==
    /\ sched.pc = "load"
    /\ sched' = [sched EXCEPT !.pc = "each", !.due = {<<j, jobs[j].cron>> : j \in Due(sched.now)}]
    /\ UNCHANGED <<clock, sources, gate, jobs, firings, run, hand, bulk, edits>>

TickRead ==
    /\ sched.pc = "each"
    /\ \E d \in sched.due :
          sched' = [ReadCoverage(sched, d[1], d[2]) EXCEPT !.due = @ \ {d}]
    /\ UNCHANGED <<clock, sources, gate, jobs, firings, run, hand, bulk, edits>>

\* Mutants of TickFire: the slots slept through are fired one by one; a job that
\* covers nothing keeps its slot.
TickFireEverySlot ==
    /\ sched.pc = "fan"
    /\ LET j == sched.firing[1] IN
       /\ jobs[j].live
       /\ IF sched.cover = {} THEN UNCHANGED <<firings, run>> ELSE FanOut(sched, j, "scheduled")
       /\ jobs' = [jobs EXCEPT ![j].next = NextSlot(sched.firing[2], jobs[j].next)]
    /\ sched' = [Idle EXCEPT !.pc = "each", !.now = sched.now, !.due = sched.due]
    /\ UNCHANGED <<clock, sources, gate, hand, bulk, edits>>
TickFireIfCovered ==
    /\ sched.pc = "fan"
    /\ LET j == sched.firing[1] IN
       /\ jobs[j].live
       /\ IF sched.cover = {} THEN UNCHANGED <<firings, run>> ELSE FanOut(sched, j, "scheduled")
       /\ jobs' = [jobs EXCEPT ![j].next = IF sched.cover = {} THEN @ ELSE NextSlot(sched.firing[2], sched.now)]
    /\ sched' = [Idle EXCEPT !.pc = "each", !.now = sched.now, !.due = sched.due]
    /\ UNCHANGED <<clock, sources, gate, hand, bulk, edits>>

\* The fan-out and the advance of next_run_at, from now and from the rule that was
\* loaded, in one commit.  A job that covers nothing is advanced too.
TickFire ==
    /\ sched.pc = "fan"
    /\ LET j == sched.firing[1] IN
       /\ jobs[j].live
       /\ IF sched.cover = {} THEN UNCHANGED <<firings, run>> ELSE FanOut(sched, j, "scheduled")
       /\ jobs' = [jobs EXCEPT ![j].next = NextSlot(sched.firing[2], sched.now)]
    /\ sched' = [Idle EXCEPT !.pc = "each", !.now = sched.now, !.due = sched.due]
    /\ UNCHANGED <<clock, sources, gate, hand, bulk, edits>>

\* The job was deleted under the tick: its insert or its update fails and the
\* exception ends the whole tick, the due jobs after this one included.
TickRaises ==
    /\ sched.pc = "fan"
    /\ ~jobs[sched.firing[1]].live
    /\ sched' = Idle
    /\ UNCHANGED <<clock, sources, gate, jobs, firings, run, hand, bulk, edits>>

TickEnds ==
    /\ sched.pc = "each"
    /\ sched.due = {}
    /\ sched' = Idle
    /\ UNCHANGED <<clock, sources, gate, jobs, firings, run, hand, bulk, edits>>

\* The scheduler's process is lost: what it has not committed never happened.
SchedulerDies ==
    /\ sched.pc # "idle"
    /\ edits < MaxEdits
    /\ edits' = edits + 1
    /\ sched' = Idle
    /\ UNCHANGED <<clock, sources, gate, jobs, firings, run, hand, bulk>>
-----------------------------------------------------------------------------
(* The API *)

Edit == edits < MaxEdits /\ edits' = edits + 1

NextFor(enabled, cron) == IF enabled THEN NextSlot(cron, clock) ELSE Never

\* An enabled job needs a rule (422 otherwise), and its next slot is computed from
\* the rule, only while it is enabled.
Schedule(j, enabled, cron) ==
    /\ enabled => cron # 0
    /\ jobs' = [jobs EXCEPT ![j].live = TRUE, ![j].enabled = enabled, ![j].cron = cron,
                            ![j].next = NextFor(enabled, cron)]

CreateJob(j, enabled, cron) ==
    /\ Edit
    /\ ~jobs[j].live
    /\ Schedule(j, enabled, cron)
    /\ UNCHANGED <<clock, sources, gate, firings, run, sched, hand, bulk>>

UpdateJob(j, enabled, cron) ==
    /\ Edit
    /\ jobs[j].live
    /\ Schedule(j, enabled, cron)
    /\ UNCHANGED <<clock, sources, gate, firings, run, sched, hand, bulk>>

\* set_coverage refuses sources that do not exist.
SetCoverage(j, S) ==
    /\ Edit
    /\ jobs[j].live
    /\ S \subseteq sources
    /\ jobs' = [jobs EXCEPT ![j].cover = S]
    /\ UNCHANGED <<clock, sources, gate, firings, run, sched, hand, bulk>>

\* delete_job takes its firings with it; their runs go on without a parent.
DeleteJob(j) ==
    /\ Edit
    /\ jobs[j].live
    /\ jobs' = [jobs EXCEPT ![j] = [@ EXCEPT !.live = FALSE, !.enabled = FALSE, !.cover = {}]]
    /\ firings' = [i \in DOMAIN firings |->
                      [firings[i] EXCEPT !.live = @ /\ firings[i].job # j]]
    /\ UNCHANGED <<clock, sources, gate, run, sched, hand, bulk>>

\* run_job: fire now, whatever the schedule; it leaves next_run_at alone.
RunNow(j) ==
    /\ Edit
    /\ hand.pc = "idle"
    /\ jobs[j].live
    /\ Covered(j) # {}
    /\ hand' = [ReadCoverage(hand, j, 0) EXCEPT !.now = clock]
    /\ UNCHANGED <<clock, sources, gate, jobs, firings, run, sched, bulk>>

RunNowFires ==
    /\ hand.pc = "fan"
    /\ hand' = Idle
    /\ IF jobs[hand.firing[1]].live
       THEN FanOut(hand, hand.firing[1], "manual")
       ELSE UNCHANGED <<firings, run>>
    /\ UNCHANGED <<clock, sources, gate, jobs, sched, bulk, edits>>

\* bulk_extract.trigger judges every source from one read, then enqueues them one
\* commit at a time, where the unique index has the last word.
BulkTrigger(S) ==
    /\ Edit
    /\ bulk = {}
    /\ bulk' = {s \in S \cap sources : ~BlocksExtraction(s)
                                        /\ ~HasRun(s, {"pending", "running", "paused"})}
    /\ bulk' # {}
    /\ UNCHANGED <<clock, sources, gate, jobs, firings, run, sched, hand>>

BulkEnqueue(s) ==
    /\ s \in bulk
    /\ bulk' = bulk \ {s}
    /\ run' = IF Insertable(s) THEN [run EXCEPT ![0][s] = "pending"] ELSE run
    /\ UNCHANGED <<clock, sources, gate, jobs, firings, sched, hand, edits>>

\* A source goes with every run it ever had, and out of every coverage.
DeleteSource(s) ==
    /\ Edit
    /\ s \in sources
    /\ sources' = sources \ {s}
    /\ run' = [i \in 0 .. MaxFirings |-> [run[i] EXCEPT ![s] = "none"]]
    /\ jobs' = [j \in Job |-> [jobs[j] EXCEPT !.cover = @ \ {s}]]
    /\ UNCHANGED <<clock, gate, firings, sched, hand, bulk>>

\* The realm of a source is logged in, rejected or runs out.
RealmTurns(s, g) ==
    /\ Edit
    /\ gate[s] # g
    /\ gate' = [gate EXCEPT ![s] = g]
    /\ UNCHANGED <<clock, sources, jobs, firings, run, sched, hand, bulk>>
-----------------------------------------------------------------------------
(* The runs, as RunQueue moves them, and time *)

\* A worker claims a run and ends it.
Progress == {<<"pending", "running">>, <<"running", "completed">>, <<"running", "failed">>}
\* It is requeued by the reaper or a login, or the user stops or resumes it.
Disturbance == {<<"running", "pending">>, <<"running", "paused">>, <<"running", "cancelled">>,
                <<"pending", "cancelled">>, <<"paused", "pending">>, <<"paused", "cancelled">>}

Move(i, s, from, to) ==
    /\ run[i][s] = from
    /\ from = "paused" /\ to = "pending" => ~HasRun(s, {"pending", "running"})
    /\ run' = [run EXCEPT ![i][s] = to]
    /\ UNCHANGED <<clock, sources, gate, jobs, firings, sched, hand, bulk>>

WorkerStep == \E i \in 0 .. MaxFirings, s \in Source, m \in Progress :
    Move(i, s, m[1], m[2]) /\ edits' = edits

RunDisturbed == \E i \in 0 .. MaxFirings, s \in Source, m \in Disturbance :
    Move(i, s, m[1], m[2]) /\ Edit

TimePasses ==
    /\ clock < MaxTime
    /\ clock' = clock + 1
    /\ Edit
    /\ UNCHANGED <<sources, gate, jobs, firings, run, sched, hand, bulk>>
-----------------------------------------------------------------------------
(* Every job is enabled on some rule, awaits its first slot and covers every source. *)
Init ==
    /\ clock = StartTime
    /\ sources = Source
    /\ gate = [s \in Source |-> "open"]
    /\ \E cron \in [Job -> Periods] :
          jobs = [j \in Job |-> [live |-> TRUE, enabled |-> TRUE, cron |-> cron[j],
                                 next |-> cron[j], cover |-> Source]]
    /\ firings = << >>
    /\ run = [i \in 0 .. MaxFirings |-> [s \in Source |-> "none"]]
    /\ sched = Idle /\ hand = Idle
    /\ bulk = {}
    /\ edits = 0

Tick == TickReconcile \/ TickLoad \/ TickRead \/ TickFire \/ TickRaises \/ TickEnds

Api ==
    \/ \E j \in Job : \/ \E e \in BOOLEAN, c \in Periods \cup {0} : CreateJob(j, e, c) \/ UpdateJob(j, e, c)
                      \/ \E S \in SUBSET Source : SetCoverage(j, S)
                      \/ DeleteJob(j)
                      \/ RunNow(j)
    \/ RunNowFires
    \/ \E S \in SUBSET Source : BulkTrigger(S)
    \/ \E s \in Source : \/ BulkEnqueue(s)
                         \/ DeleteSource(s)
                         \/ \E g \in Gates : RealmTurns(s, g)

Next == Tick \/ SchedulerDies \/ Api \/ WorkerStep \/ RunDisturbed \/ TimePasses

Spec == Init /\ [][Next]_vars

\* The scheduler's loop ticks again whatever happened, and the workers go on
\* claiming and ending runs (RunQueue!RunSettles).  Nobody is bound to edit,
\* fire by hand or resume anything.
FairSpec == Spec /\ WF_vars(Tick) /\ WF_vars(WorkerStep)
-----------------------------------------------------------------------------
(* Properties *)

\* Catch-up once: however many slots the scheduler slept through, a job fires at
\* most once for a given time, whatever is edited, deleted or lost meanwhile.
OneFiringPerSlot ==
    \A i, k \in DOMAIN firings :
        /\ i < k
        /\ firings[i].job = firings[k].job
        /\ firings[i].trigger = "scheduled" /\ firings[k].trigger = "scheduled"
        => \E t \in firings[i].at + 1 .. firings[k].at : \E p \in Periods : t % p = 0

\* A firing is closed only over runs that have ended, and says how they ended.
ClosedTellsTheTruth ==
    \A i \in DOMAIN firings :
        /\ firings[i].status \in FinalRun => \A s \in Children(i) : run[i][s] = firings[i].status
        /\ firings[i].status = "partial" => \A s \in Children(i) : run[i][s] \in FinalRun

\* Once nobody edits anything and the clock has come to its bound, no job stays
\* due: an exception over one job, a lost scheduler or a firing by hand cannot
\* starve the others for ever.
IsDue(j) == jobs[j].live /\ jobs[j].enabled /\ jobs[j].next \in 0 .. clock
DueJobFires == <>[](\A j \in Job : ~IsDue(j))

\* Under the same condition every open firing closes, unless it waits for a user
\* who paused one of its runs or all its sources were deleted.
IsOpen(i) == i \in DOMAIN firings /\ firings[i].live /\ firings[i].status \in OpenFiring
Waits(i) == Children(i) = {} \/ \E s \in Children(i) : run[i][s] = "paused"
FiringCloses == <>[](\A i \in 1 .. MaxFirings : IsOpen(i) => Waits(i))
=============================================================================
