------------------------ MODULE JobSchedulingProofs ------------------------
(***************************************************************************)
(* Proofs about JobScheduling, for any jobs, sources and rules: TypeOK,    *)
(* ClosedTellsTheTruth and OneFiringPerSlot.                               *)
(***************************************************************************)
EXTENDS JobScheduling, SequenceTheorems, TLAPS

\* A time some rule fires at, after one time and no later than another.
SlotBetween(after, upto) == \E t \in after + 1 .. upto : \E p \in Periods : t % p = 0

\* What is being fired was read: a job, and its rule when the scheduler fires it.
FiringIsRead ==
    /\ sched.pc = "fan" => sched.firing \in Job \X Periods
    /\ hand.pc = "fan" => hand.firing \in Job \X (Periods \cup {0})

\* An enabled job has a rule, and a next slot is a time some rule fires at.
JobsFit ==
    \A j \in Job :
        /\ jobs[j].enabled => jobs[j].cron \in Periods
        /\ jobs[j].next = Never \/ (jobs[j].next \in Nat /\ \E p \in Periods : jobs[j].next % p = 0)

Types == TypeOK /\ FiringIsRead /\ JobsFit

\* No job was fired for a time that is still to come, nor is its next slot one that
\* it was fired for.
NextIsAhead ==
    \A i \in DOMAIN firings : firings[i].trigger = "scheduled" =>
        /\ firings[i].at <= clock
        /\ jobs[firings[i].job].next = Never \/ firings[i].at < jobs[firings[i].job].next

\* The jobs the tick is yet to fire.
InTick(j) ==
    \/ \E d \in sched.due : d[1] = j
    \/ sched.pc = "fan" /\ sched.firing[1] = j

\* Each was due for a slot after its last firing, and will be fired once.
TickIsDue ==
    /\ sched.pc # "idle" => sched.now <= clock
    /\ sched.pc \in {"idle", "load"} => sched.due = {}
    /\ \A c, d \in sched.due : c[1] = d[1] => c = d
    /\ sched.pc = "fan" => \A d \in sched.due : d[1] # sched.firing[1]
    /\ \A i \in DOMAIN firings : firings[i].trigger = "scheduled" /\ InTick(firings[i].job) =>
          SlotBetween(firings[i].at, sched.now)

SlotInv == Types /\ NextIsAhead /\ TickIsDue /\ OneFiringPerSlot
-----------------------------------------------------------------------------
(* Lemmas about the operators.                                             *)

\* The next slot of a rule is a time it fires at, and lies ahead.
LEMMA SlotIsAhead ==
    ASSUME NEW p \in Periods, NEW t \in Nat
    PROVE  /\ NextSlot(p, t) \in Nat
           /\ NextSlot(p, t) > t
           /\ NextSlot(p, t) % p = 0
<1>1. p \in Nat /\ p > 0  BY PeriodsAssumption
<1>2. PICK q \in Nat, r \in Nat : t = q * p + r /\ r < p /\ q = t \div p
  BY <1>1, SMTT(30)
<1>3. (q + 1) * p = q * p + p  BY <1>1, SMTT(30)
<1>4. q * p \in Nat  BY <1>1, SMTT(30)
<1>5. ((q + 1) * p) % p = 0  BY <1>1, SMTT(30)
<1>6. NextSlot(p, t) = (q + 1) * p  BY <1>1, <1>2 DEF NextSlot
<1> QED  BY <1>1, <1>2, <1>3, <1>4, <1>5, <1>6

\* Reading the coverage of a job for a tick or a request.
LEMMA ReadIsTyped ==
    ASSUME TypeOK, NEW a \in Actor, NEW j \in Job, NEW cron \in Periods \cup {0}
    PROVE  /\ ReadCoverage(a, j, cron) \in Actor
           /\ ReadCoverage(a, j, cron).pc = "fan"
           /\ ReadCoverage(a, j, cron).firing = <<j, cron>>
           /\ ReadCoverage(a, j, cron).now = a.now
           /\ ReadCoverage(a, j, cron).due = a.due
<1> DEFINE P == {s \in Covered(j) : HasRun(s, {"paused"})}
<1>1. Covered(j) \subseteq Source /\ P \subseteq Source
  BY DEF TypeOK, Covered
<1>2. ReadCoverage(a, j, cron) =
          [a EXCEPT !.pc = "fan", !.firing = <<j, cron>>, !.cover = Covered(j), !.paused = P]
  BY DEF ReadCoverage
<1>3. <<j, cron>> \in (Job \X (Periods \cup {0})) \cup {<< >>}
  OBVIOUS
<1> HIDE DEF P
<1> QED  BY <1>1, <1>2, <1>3 DEF Actor

\* The firings stay a sequence when each is rewritten in its place.
LEMMA RewrittenFirings ==
    ASSUME TypeOK, NEW f, DOMAIN f = DOMAIN firings, f = [i \in DOMAIN f |-> f[i]],
           \A i \in DOMAIN f : f[i] \in Firing
    PROVE  f \in Seq(Firing) /\ Len(f) = Len(firings)
<1>1. firings \in Seq(Firing) /\ DOMAIN firings = 1 .. Len(firings) /\ Len(firings) \in Nat
  BY DEF TypeOK
<1>2. f \in [1 .. Len(firings) -> Firing]  BY <1>1
<1>3. f \in Seq(Firing)  BY <1>1, <1>2, SeqDef
<1>4. DOMAIN f = 1 .. Len(f) /\ Len(f) \in Nat  BY <1>3
<1> QED  BY <1>1, <1>3, <1>4

LEMMA FanOutIsTyped ==
    ASSUME TypeOK, NEW a \in Actor, NEW j \in Job, NEW trigger \in {"scheduled", "manual"},
           FanOut(a, j, trigger)
    PROVE  /\ firings' \in Seq(Firing) /\ Len(firings') = Len(firings) + 1
           /\ Len(firings') <= MaxFirings
           /\ run' \in [0 .. MaxFirings -> [Source -> RunStatus \cup {"none"}]]
           /\ \A i \in DOMAIN firings : firings'[i] = firings[i]
           /\ LET k == Len(firings) + 1
              IN  /\ firings'[k].job = j /\ firings'[k].trigger = trigger
                  /\ firings'[k].at = a.now
                  /\ firings'[k].status \in {"completed", "pending"}
                  /\ firings'[k].status = "completed" => \A s \in Source : run'[k][s] = "none"
                  /\ \A i \in DOMAIN run : i # k => run'[i] = run[i]
<1> DEFINE queued == {s \in a.cover : SkipReasons(s, a.paused) = {}}
           k == Len(firings) + 1
           skipped == UNION {{s} \X SkipReasons(s, a.paused) : s \in a.cover}
           f == [job |-> j, live |-> TRUE, trigger |-> trigger, at |-> a.now,
                 status |-> IF queued = {} THEN "completed" ELSE "pending",
                 skipped |-> skipped]
           fresh == [s \in Source |-> IF s \in queued THEN "pending" ELSE "none"]
<1>1. /\ k <= MaxFirings /\ firings' = Append(firings, f)
      /\ run' = [run EXCEPT ![k] = fresh]
  BY DEF FanOut
<1>2. firings \in Seq(Firing) /\ Len(firings) \in Nat /\ MaxFirings \in Nat
      /\ run \in [0 .. MaxFirings -> [Source -> RunStatus \cup {"none"}]]
      /\ a.cover \subseteq Source /\ a.now \in 0 .. MaxTime
  BY BoundsAssumption DEF TypeOK, Actor
<1>3. \A s : SkipReasons(s, a.paused) \subseteq Reasons
  BY DEF SkipReasons, Reasons
<1>4. skipped \subseteq Source \X Reasons
  BY <1>2, <1>3
<1>5. f.status \in {"completed", "pending"} /\ (f.status = "completed" => queued = {})
  OBVIOUS
<1>6. f \in Firing
  <2> HIDE DEF skipped, queued
  <2> QED  BY <1>2, <1>4, <1>5 DEF Firing, FiringStatus
<1>7. fresh \in [Source -> RunStatus \cup {"none"}]
  BY DEF RunStatus
<1>8. queued = {} => \A s \in Source : fresh[s] = "none"
  OBVIOUS
<1>9. k \in DOMAIN run /\ k \in 0 .. MaxFirings
  BY <1>1, <1>2
<1>10. f.job = j /\ f.trigger = trigger /\ f.at = a.now
  OBVIOUS
<1> HIDE DEF f, fresh, queued, k
<1>11. run' \in [0 .. MaxFirings -> [Source -> RunStatus \cup {"none"}]] /\ run'[k] = fresh
       /\ \A i \in DOMAIN run : i # k => run'[i] = run[i]
  BY <1>1, <1>2, <1>7, <1>9
<1>12. firings' \in Seq(Firing) /\ Len(firings') = Len(firings) + 1
       /\ firings'[Len(firings) + 1] = f
       /\ \A i \in 1 .. Len(firings) : firings'[i] = firings[i]
  BY <1>1, <1>2, <1>6
<1>13. DOMAIN firings = 1 .. Len(firings)  BY <1>2
<1> QED  BY <1>1, <1>2, <1>5, <1>8, <1>10, <1>11, <1>12, <1>13 DEF k

\* What the children of an open firing make of it, case by case.
LEMMA ReconciledIs ==
    ASSUME NEW f, f.status \in OpenFiring, NEW kids \in SUBSET RunStatus
    PROVE  /\ Reconciled(f, kids) \in FiringStatus
           /\ Reconciled(f, kids) \in FinalRun => kids \subseteq {Reconciled(f, kids)}
           /\ Reconciled(f, kids) = "partial" => kids \subseteq FinalRun
<1>1. CASE kids = {}
  <2>1. Reconciled(f, kids) = f.status  BY <1>1 DEF Reconciled
  <2> QED  BY <1>1, <2>1 DEF OpenFiring, FiringStatus, FinalRun
<1>2. CASE kids # {} /\ ~(kids \subseteq FinalRun)
  <2>1. Reconciled(f, kids) = IF kids # {"pending"} THEN "running" ELSE f.status
    BY <1>2 DEF Reconciled, FinalRun
  <2> QED  BY <2>1 DEF OpenFiring, FiringStatus, FinalRun
<1>3. CASE kids \in {{"completed"}, {"failed"}, {"cancelled"}}
  <2>1. kids # {} /\ kids \subseteq FinalRun  BY <1>3 DEF FinalRun
  <2>2. Reconciled(f, kids) = CHOOSE k \in kids : TRUE
    BY <1>3, <2>1 DEF Reconciled
  <2>3. (CHOOSE k \in kids : TRUE) \in kids  BY <2>1
  <2> QED  BY <1>3, <2>1, <2>2, <2>3 DEF FiringStatus, FinalRun
<1>4. CASE kids # {} /\ kids \subseteq FinalRun /\ kids \notin {{"completed"}, {"failed"}, {"cancelled"}}
  <2>1. Reconciled(f, kids) = "partial"  BY <1>4 DEF Reconciled
  <2> QED  BY <1>4, <2>1 DEF FiringStatus, FinalRun
<1> QED  BY <1>1, <1>2, <1>3, <1>4

\* Setting the schedule of a job from a rule the user may choose.
LEMMA ScheduleFits ==
    ASSUME Types, NEW j \in Job, NEW enabled \in BOOLEAN, NEW cron \in Periods \cup {0},
           Schedule(j, enabled, cron)
    PROVE  /\ jobs' \in [Job -> [live : BOOLEAN, enabled : BOOLEAN, cron : Periods \cup {0},
                                 next : Int, cover : SUBSET Source]]
           /\ JobsFit'
           /\ \A k \in Job : k # j => jobs'[k] = jobs[k]
           /\ jobs'[j].next = Never \/ jobs'[j].next > clock
<1> DEFINE n == NextFor(enabled, cron)
<1>1. clock \in Nat  BY BoundsAssumption DEF Types, TypeOK
<1>2. n \in Int /\ (n = Never \/ (n \in Nat /\ n > clock /\ \E p \in Periods : n % p = 0))
  <2>1. CASE enabled
    <3>1. cron \in Periods  BY <2>1 DEF Schedule
    <3>2. n = NextSlot(cron, clock)  BY <2>1 DEF NextFor
    <3> QED  BY <1>1, <3>1, <3>2, SlotIsAhead
  <2>2. CASE ~enabled  BY <2>2 DEF NextFor, Never
  <2> QED  BY <2>1, <2>2
<1>3. enabled => cron \in Periods  BY DEF Schedule
<1>4. /\ jobs' \in [Job -> [live : BOOLEAN, enabled : BOOLEAN, cron : Periods \cup {0},
                            next : Int, cover : SUBSET Source]]
      /\ \A k \in Job : k # j => jobs'[k] = jobs[k]
      /\ jobs'[j].next = n /\ jobs'[j].cron = cron /\ jobs'[j].enabled = enabled
  <2>1. jobs' = [jobs EXCEPT ![j].live = TRUE, ![j].enabled = enabled, ![j].cron = cron,
                             ![j].next = n]
    BY DEF Schedule
  <2>2. jobs \in [Job -> [live : BOOLEAN, enabled : BOOLEAN, cron : Periods \cup {0},
                          next : Int, cover : SUBSET Source]]
    BY DEF Types, TypeOK
  <2> HIDE DEF n
  <2> QED  BY <1>2, <2>1, <2>2
<1> HIDE DEF n
<1> QED  BY <1>1, <1>2, <1>3, <1>4 DEF Types, JobsFit, Never
-----------------------------------------------------------------------------
(* Types.                                                                  *)

LEMMA IdleIsTyped == Idle \in Actor
BY BoundsAssumption DEF Idle, Actor

LEMMA InitTypes == Init => Types
<1> SUFFICES ASSUME Init PROVE Types  OBVIOUS
<1> USE BoundsAssumption, PeriodsAssumption
<1>1. PICK cron \in [Job -> Periods] :
          jobs = [j \in Job |-> [live |-> TRUE, enabled |-> TRUE, cron |-> cron[j],
                                 next |-> cron[j], cover |-> Source]]
  BY DEF Init
<1>2. \A p \in Periods : p \in Nat /\ p \in Int /\ p % p = 0  BY SMTT(30)
<1>3. JobsFit  BY <1>1, <1>2 DEF JobsFit
<1>4. jobs \in [Job -> [live : BOOLEAN, enabled : BOOLEAN, cron : Periods \cup {0},
                        next : Int, cover : SUBSET Source]]
  <2> SUFFICES ASSUME NEW j \in Job
               PROVE  [live |-> TRUE, enabled |-> TRUE, cron |-> cron[j], next |-> cron[j],
                       cover |-> Source] \in
                         [live : BOOLEAN, enabled : BOOLEAN, cron : Periods \cup {0},
                          next : Int, cover : SUBSET Source]
    BY <1>1
  <2>1. cron[j] \in Periods  OBVIOUS
  <2>2. cron[j] \in Int  BY <2>1, <1>2, Zenon
  <2> QED  BY <2>1, <2>2
<1>5. firings \in Seq(Firing) /\ Len(firings) <= MaxFirings  BY DEF Init
<1>6. FiringIsRead  BY DEF Init, FiringIsRead, Idle
<1>7. TypeOK
  BY <1>4, <1>5, IdleIsTyped DEF Init, TypeOK, RunStatus
<1> QED  BY <1>3, <1>6, <1>7 DEF Types

LEMMA TickReconcileTypes == Types /\ TickReconcile => Types'
<1> SUFFICES ASSUME Types, TickReconcile PROVE Types'  OBVIOUS
<1>1. DOMAIN firings' = DOMAIN firings /\ firings' = [i \in DOMAIN firings' |-> firings'[i]]
  BY DEF TickReconcile
<1>2. ASSUME NEW i \in DOMAIN firings PROVE firings'[i] \in Firing
  <2> DEFINE kids == {run[i][s] : s \in Children(i)}
  <2>1. firings[i] \in Firing /\ i \in 0 .. MaxFirings
    BY ElementOfSeq, BoundsAssumption DEF Types, TypeOK
  <2>2. kids \in SUBSET RunStatus
    BY <2>1 DEF Types, TypeOK, Children
  <2>3. firings'[i] = IF firings[i].live /\ firings[i].status \in OpenFiring
                      THEN [firings[i] EXCEPT !.status = Reconciled(firings[i], kids)]
                      ELSE firings[i]
    BY DEF TickReconcile
  <2> HIDE DEF kids
  <2>4. firings[i].status \in OpenFiring => Reconciled(firings[i], kids) \in FiringStatus
    BY <2>2, ReconciledIs
  <2> QED  BY <2>1, <2>3, <2>4 DEF Firing
<1>3. firings' \in Seq(Firing) /\ Len(firings') = Len(firings)
  BY <1>1, <1>2, RewrittenFirings DEF Types
<1>4. sched' \in Actor /\ sched'.pc = "load"
  BY DEF TickReconcile, Types, TypeOK, Actor
<1> QED  BY <1>3, <1>4 DEF TickReconcile, Types, TypeOK, FiringIsRead, JobsFit

LEMMA TickLoadTypes == Types /\ TickLoad => Types'
<1> SUFFICES ASSUME Types, TickLoad PROVE Types'  OBVIOUS
<1>1. {<<j, jobs[j].cron>> : j \in Due(sched.now)} \subseteq Job \X Periods
  BY DEF Due, Types, JobsFit
<1>2. sched' \in Actor /\ sched'.pc = "each"
  BY <1>1 DEF TickLoad, Types, TypeOK, Actor
<1> QED  BY <1>2 DEF TickLoad, Types, TypeOK, FiringIsRead, JobsFit

LEMMA TickReadTypes == Types /\ TickRead => Types'
<1> SUFFICES ASSUME Types, TickRead PROVE Types'  OBVIOUS
<1>1. PICK d \in sched.due :
          sched' = [ReadCoverage(sched, d[1], d[2]) EXCEPT !.due = @ \ {d}]
  BY DEF TickRead
<1>2. sched \in Actor /\ d[1] \in Job /\ d[2] \in Periods
  BY DEF Types, TypeOK, Actor
<1>3. /\ ReadCoverage(sched, d[1], d[2]) \in Actor
      /\ ReadCoverage(sched, d[1], d[2]).firing = <<d[1], d[2]>>
  BY <1>2, ReadIsTyped DEF Types
<1>4. sched' \in Actor /\ sched'.firing \in Job \X Periods
  BY <1>1, <1>2, <1>3 DEF Actor
<1> QED  BY <1>4 DEF TickRead, Types, TypeOK, FiringIsRead, JobsFit

\* A fire by the scheduler: the next slot is one of the rule that was loaded.
LEMMA TickFireTypes == Types /\ TickFire => Types'
<1> SUFFICES ASSUME Types, TickFire PROVE Types'  OBVIOUS
<1> DEFINE j == sched.firing[1]
           n == NextSlot(sched.firing[2], sched.now)
<1>1. sched \in Actor /\ j \in Job /\ sched.firing[2] \in Periods /\ sched.now \in Nat
  BY BoundsAssumption DEF TickFire, Types, TypeOK, FiringIsRead, Actor
<1>2. n \in Nat /\ \E p \in Periods : n % p = 0
  BY <1>1, SlotIsAhead
<1>3. firings' \in Seq(Firing) /\ Len(firings') <= MaxFirings
      /\ run' \in [0 .. MaxFirings -> [Source -> RunStatus \cup {"none"}]]
  BY <1>1, FanOutIsTyped DEF TickFire, Types, TypeOK
<1>4. jobs' = [jobs EXCEPT ![j].next = n]  BY DEF TickFire
<1>5. sched' \in Actor /\ sched'.pc = "each"
  BY <1>1, IdleIsTyped DEF TickFire, Actor
<1> HIDE DEF n, j
<1>6. /\ jobs' \in [Job -> [live : BOOLEAN, enabled : BOOLEAN, cron : Periods \cup {0},
                            next : Int, cover : SUBSET Source]]
      /\ jobs'[j].next = n
      /\ \A k \in Job : /\ jobs'[k].enabled = jobs[k].enabled
                        /\ jobs'[k].cron = jobs[k].cron
                        /\ k # j => jobs'[k] = jobs[k]
  <2>1. jobs \in [Job -> [live : BOOLEAN, enabled : BOOLEAN, cron : Periods \cup {0},
                          next : Int, cover : SUBSET Source]]
    BY DEF Types, TypeOK
  <2>2. n \in Int  BY <1>2
  <2> QED  BY <1>1, <1>4, <2>1, <2>2
<1>7. JobsFit'
  BY <1>2, <1>6 DEF Types, JobsFit
<1> QED
  BY <1>3, <1>5, <1>6, <1>7 DEF TickFire, Types, TypeOK, FiringIsRead

LEMMA TickStopsTypes == Types /\ (TickRaises \/ TickEnds \/ SchedulerDies) => Types'
<1> SUFFICES ASSUME Types, TickRaises \/ TickEnds \/ SchedulerDies PROVE Types'  OBVIOUS
<1>1. sched' = Idle /\ Idle.pc = "idle"
  BY DEF TickRaises, TickEnds, SchedulerDies, Idle
<1>2. edits' \in 0 .. MaxEdits
  BY BoundsAssumption DEF TickRaises, TickEnds, SchedulerDies, Types, TypeOK
<1> QED  BY <1>1, <1>2, IdleIsTyped
         DEF TickRaises, TickEnds, SchedulerDies, Types, TypeOK, FiringIsRead, JobsFit

LEMMA EditIsTyped == TypeOK /\ Edit => edits' \in 0 .. MaxEdits
BY BoundsAssumption DEF TypeOK, Edit

\* The requests that edit a job.
LEMMA JobEditTypes ==
    ASSUME Types, NEW j \in Job,
           \/ \E e \in BOOLEAN, c \in Periods \cup {0} : CreateJob(j, e, c) \/ UpdateJob(j, e, c)
           \/ \E S \in SUBSET Source : SetCoverage(j, S)
           \/ DeleteJob(j)
    PROVE  Types'
<1> DEFINE Rows == [Job -> [live : BOOLEAN, enabled : BOOLEAN, cron : Periods \cup {0},
                            next : Int, cover : SUBSET Source]]
<1>1. edits' \in 0 .. MaxEdits
  BY EditIsTyped DEF CreateJob, UpdateJob, SetCoverage, DeleteJob, Types
<1>2. ASSUME NEW e \in BOOLEAN, NEW c \in Periods \cup {0},
             CreateJob(j, e, c) \/ UpdateJob(j, e, c)
      PROVE  Types'
  <2>1. Schedule(j, e, c)  BY <1>2 DEF CreateJob, UpdateJob
  <2>2. jobs' \in Rows /\ JobsFit'  BY <2>1, ScheduleFits
  <2> QED  BY <1>1, <1>2, <2>2 DEF CreateJob, UpdateJob, Types, TypeOK, FiringIsRead
<1>3. ASSUME NEW S \in SUBSET Source, SetCoverage(j, S)
      PROVE  Types'
  <2>1. jobs \in Rows /\ jobs' = [jobs EXCEPT ![j].cover = S]
    BY <1>3 DEF SetCoverage, Types, TypeOK
  <2>2. jobs' \in Rows /\ \A k \in Job : /\ jobs'[k].enabled = jobs[k].enabled
                                        /\ jobs'[k].cron = jobs[k].cron
                                        /\ jobs'[k].next = jobs[k].next
    BY <2>1
  <2>3. JobsFit'  BY <2>2 DEF Types, JobsFit
  <2> QED  BY <1>1, <1>3, <2>2, <2>3 DEF SetCoverage, Types, TypeOK, FiringIsRead
<1>4. ASSUME DeleteJob(j)
      PROVE  Types'
  <2>1. jobs \in Rows
        /\ jobs' = [jobs EXCEPT ![j] = [@ EXCEPT !.live = FALSE, !.enabled = FALSE, !.cover = {}]]
    BY <1>4 DEF DeleteJob, Types, TypeOK
  <2>2. jobs' \in Rows /\ \A k \in Job : /\ jobs'[k].enabled => jobs[k].enabled
                                        /\ jobs'[k].cron = jobs[k].cron
                                        /\ jobs'[k].next = jobs[k].next
    BY <2>1
  <2>3. JobsFit'  BY <2>2 DEF Types, JobsFit
  <2>4. ASSUME NEW i \in DOMAIN firings PROVE firings'[i] \in Firing
    <3>1. firings[i] \in Firing  BY ElementOfSeq DEF Types, TypeOK
    <3>2. firings'[i] = [firings[i] EXCEPT !.live = @ /\ firings[i].job # j]
      BY <1>4 DEF DeleteJob
    <3> QED  BY <3>1, <3>2 DEF Firing
  <2>5. DOMAIN firings' = DOMAIN firings /\ firings' = [i \in DOMAIN firings' |-> firings'[i]]
    BY <1>4 DEF DeleteJob
  <2>6. firings' \in Seq(Firing) /\ Len(firings') = Len(firings)
    BY <2>4, <2>5, RewrittenFirings DEF Types
  <2> QED  BY <1>1, <1>4, <2>2, <2>3, <2>6 DEF DeleteJob, Types, TypeOK, FiringIsRead
<1> QED  BY <1>2, <1>3, <1>4

LEMMA RunNowTypes == Types /\ (\E j \in Job : RunNow(j)) => Types'
<1> SUFFICES ASSUME Types, NEW j \in Job, RunNow(j) PROVE Types'  OBVIOUS
<1>1. hand \in Actor /\ clock \in 0 .. MaxTime  BY DEF Types, TypeOK
<1>2. ReadCoverage(hand, j, 0) \in Actor /\ ReadCoverage(hand, j, 0).firing = <<j, 0>>
  BY <1>1, ReadIsTyped DEF Types
<1>3. hand' \in Actor /\ hand'.firing \in Job \X (Periods \cup {0})
  BY <1>1, <1>2 DEF RunNow, Actor
<1>4. edits' \in 0 .. MaxEdits  BY EditIsTyped DEF RunNow, Types
<1> QED  BY <1>3, <1>4 DEF RunNow, Types, TypeOK, FiringIsRead, JobsFit

LEMMA RunNowFiresTypes == Types /\ RunNowFires => Types'
<1> SUFFICES ASSUME Types, RunNowFires PROVE Types'  OBVIOUS
<1>1. hand \in Actor /\ hand.firing[1] \in Job
  BY DEF RunNowFires, Types, TypeOK, FiringIsRead
<1>2. firings' \in Seq(Firing) /\ Len(firings') <= MaxFirings
      /\ run' \in [0 .. MaxFirings -> [Source -> RunStatus \cup {"none"}]]
  BY <1>1, FanOutIsTyped DEF RunNowFires, Types, TypeOK
<1>3. hand' = Idle /\ Idle.pc = "idle"  BY DEF RunNowFires, Idle
<1> QED  BY <1>2, <1>3, IdleIsTyped DEF RunNowFires, Types, TypeOK, FiringIsRead, JobsFit

\* What happens to the sources and their runs.
LEMMA SourceTypes ==
    ASSUME Types,
           \/ \E S \in SUBSET Source : BulkTrigger(S)
           \/ \E s \in Source : \/ BulkEnqueue(s) \/ DeleteSource(s)
                                \/ \E g \in Gates : RealmTurns(s, g)
    PROVE  Types'
<1>1. ASSUME NEW S \in SUBSET Source, BulkTrigger(S) PROVE Types'
  <2>1. edits' \in 0 .. MaxEdits  BY <1>1, EditIsTyped DEF BulkTrigger, Types
  <2> QED  BY <1>1, <2>1 DEF BulkTrigger, Types, TypeOK, FiringIsRead, JobsFit
<1>2. ASSUME NEW s \in Source, BulkEnqueue(s) PROVE Types'
  <2>1. run \in [0 .. MaxFirings -> [Source -> RunStatus \cup {"none"}]]
        /\ run' = IF Insertable(s) THEN [run EXCEPT ![0][s] = "pending"] ELSE run
    BY <1>2 DEF BulkEnqueue, Types, TypeOK
  <2>2. run' \in [0 .. MaxFirings -> [Source -> RunStatus \cup {"none"}]]
    BY <2>1 DEF RunStatus
  <2> QED  BY <1>2, <2>2 DEF BulkEnqueue, Types, TypeOK, FiringIsRead, JobsFit
<1>3. ASSUME NEW s \in Source, DeleteSource(s) PROVE Types'
  <2>1. edits' \in 0 .. MaxEdits  BY <1>3, EditIsTyped DEF DeleteSource, Types
  <2>2. run' \in [0 .. MaxFirings -> [Source -> RunStatus \cup {"none"}]]
    BY <1>3 DEF DeleteSource, Types, TypeOK
  <2>3. /\ jobs' \in [Job -> [live : BOOLEAN, enabled : BOOLEAN, cron : Periods \cup {0},
                              next : Int, cover : SUBSET Source]]
        /\ \A k \in Job : /\ jobs'[k].enabled = jobs[k].enabled
                          /\ jobs'[k].cron = jobs[k].cron
                          /\ jobs'[k].next = jobs[k].next
    BY <1>3 DEF DeleteSource, Types, TypeOK
  <2>4. JobsFit'  BY <2>3 DEF Types, JobsFit
  <2> QED  BY <1>3, <2>1, <2>2, <2>3, <2>4 DEF DeleteSource, Types, TypeOK, FiringIsRead
<1>4. ASSUME NEW s \in Source, NEW g \in Gates, RealmTurns(s, g) PROVE Types'
  <2>1. edits' \in 0 .. MaxEdits  BY <1>4, EditIsTyped DEF RealmTurns, Types
  <2> QED  BY <1>4, <2>1 DEF RealmTurns, Types, TypeOK, FiringIsRead, JobsFit
<1> QED  BY <1>1, <1>2, <1>3, <1>4

\* A run moves between two of its states, none of which was final.
LEMMA MovesAreTyped ==
    ASSUME Types, WorkerStep \/ RunDisturbed
    PROVE  /\ Types'
           /\ UNCHANGED <<clock, sources, gate, jobs, firings, sched, hand, bulk>>
           /\ \E i \in 0 .. MaxFirings, s \in Source :
                /\ run[i][s] \in {"pending", "running", "paused"}
                /\ \A k \in 0 .. MaxFirings, r \in Source :
                      k # i \/ r # s => run'[k][r] = run[k][r]
<1>1. PICK i \in 0 .. MaxFirings, s \in Source, m \in Progress \cup Disturbance :
          Move(i, s, m[1], m[2])
  BY DEF WorkerStep, RunDisturbed
<1>2. edits' \in 0 .. MaxEdits
  BY EditIsTyped DEF WorkerStep, RunDisturbed, Types, TypeOK
<1>3. m[1] \in {"pending", "running", "paused"} /\ m[2] \in RunStatus
  BY DEF Progress, Disturbance, RunStatus
<1>4. run \in [0 .. MaxFirings -> [Source -> RunStatus \cup {"none"}]]
      /\ run' = [run EXCEPT ![i][s] = m[2]] /\ run[i][s] = m[1]
  BY <1>1 DEF Move, Types, TypeOK
<1>5. run' \in [0 .. MaxFirings -> [Source -> RunStatus \cup {"none"}]]
      /\ \A k \in 0 .. MaxFirings, r \in Source : k # i \/ r # s => run'[k][r] = run[k][r]
  BY <1>3, <1>4
<1>6. UNCHANGED <<clock, sources, gate, jobs, firings, sched, hand, bulk>>
  BY <1>1 DEF Move
<1>7. Types'
  BY <1>2, <1>5, <1>6 DEF Types, TypeOK, FiringIsRead, JobsFit
<1> QED  BY <1>3, <1>4, <1>5, <1>6, <1>7

LEMMA TypesKept == Types /\ [Next]_vars => Types'
<1> SUFFICES ASSUME Types, [Next]_vars PROVE Types'  OBVIOUS
<1>1. CASE Tick
  BY <1>1, TickReconcileTypes, TickLoadTypes, TickReadTypes, TickFireTypes, TickStopsTypes
     DEF Tick
<1>2. CASE SchedulerDies  BY <1>2, TickStopsTypes
<1>3. CASE Api
  BY <1>3, JobEditTypes, RunNowTypes, RunNowFiresTypes, SourceTypes DEF Api
<1>4. CASE WorkerStep \/ RunDisturbed  BY <1>4, MovesAreTyped
<1>5. CASE TimePasses
  <2>1. clock' \in 0 .. MaxTime /\ edits' \in 0 .. MaxEdits
    BY <1>5, BoundsAssumption, EditIsTyped DEF TimePasses, Types, TypeOK
  <2> QED  BY <1>5, <2>1 DEF TimePasses, Types, TypeOK, FiringIsRead, JobsFit
<1>6. CASE UNCHANGED vars  BY <1>6 DEF vars, Types, TypeOK, FiringIsRead, JobsFit
<1> QED  BY <1>1, <1>2, <1>3, <1>4, <1>5, <1>6 DEF Next

\* Every reachable state is well typed: what an actor fires is a job it read, and an
\* enabled job has a rule and a next slot of some rule.
THEOREM JobTypes == Spec => []Types
<1> QED  BY InitTypes, TypesKept, PTL DEF Spec
-----------------------------------------------------------------------------
(* A closed firing tells the truth.                                        *)

\* The firing stays as it was and its runs do, or they are gone.
LEMMA UntouchedTell ==
    ASSUME Types, Types', ClosedTellsTheTruth,
           DOMAIN firings' = DOMAIN firings,
           \A i \in DOMAIN firings : firings'[i].status = firings[i].status,
           \A i \in DOMAIN firings, s \in Source :
              firings[i].status \notin OpenFiring => run'[i][s] \in {run[i][s], "none"}
    PROVE  ClosedTellsTheTruth'
BY DEF ClosedTellsTheTruth, Children, OpenFiring, FinalRun

\* A new firing is closed only when it has no runs.
LEMMA FannedOutTell ==
    ASSUME Types, ClosedTellsTheTruth, NEW a \in Actor, NEW j \in Job,
           NEW trigger \in {"scheduled", "manual"}, FanOut(a, j, trigger)
    PROVE  ClosedTellsTheTruth'
<1> DEFINE k == Len(firings) + 1
<1>1. DOMAIN firings = 1 .. Len(firings) /\ Len(firings) \in Nat /\ Len(firings) <= MaxFirings
      /\ DOMAIN run = 0 .. MaxFirings /\ MaxFirings \in Nat
  BY BoundsAssumption DEF Types, TypeOK
<1>2. /\ firings' \in Seq(Firing) /\ Len(firings') = k
      /\ \A i \in DOMAIN firings : firings'[i] = firings[i]
      /\ firings'[k].status \in {"completed", "pending"}
      /\ firings'[k].status = "completed" => \A s \in Source : run'[k][s] = "none"
      /\ \A i \in DOMAIN run : i # k => run'[i] = run[i]
  BY FanOutIsTyped DEF Types
<1>3. DOMAIN firings' = 1 .. k  BY <1>2
<1>4. ASSUME NEW i \in DOMAIN firings', i # k
      PROVE  i \in DOMAIN firings /\ firings'[i] = firings[i] /\ run'[i] = run[i]
  BY <1>1, <1>2, <1>3, <1>4
<1> HIDE DEF k
<1> QED  BY <1>2, <1>4 DEF ClosedTellsTheTruth, Children, FinalRun

LEMMA ReconciledTell == Types /\ Types' /\ ClosedTellsTheTruth /\ TickReconcile => ClosedTellsTheTruth'
<1> SUFFICES ASSUME Types, Types', ClosedTellsTheTruth, TickReconcile PROVE ClosedTellsTheTruth'
  OBVIOUS
<1> SUFFICES ASSUME NEW i \in DOMAIN firings
             PROVE  /\ firings'[i].status \in FinalRun =>
                          \A s \in Children(i) : run[i][s] = firings'[i].status
                    /\ firings'[i].status = "partial" =>
                          \A s \in Children(i) : run[i][s] \in FinalRun
  BY DEF TickReconcile, ClosedTellsTheTruth, Children
<1> DEFINE kids == {run[i][s] : s \in Children(i)}
<1>1. firings[i] \in Firing /\ i \in 0 .. MaxFirings
  BY ElementOfSeq, BoundsAssumption DEF Types, TypeOK
<1>2. kids \in SUBSET RunStatus /\ \A s \in Children(i) : run[i][s] \in kids
  BY <1>1 DEF Types, TypeOK, Children
<1>3. firings'[i] = IF firings[i].live /\ firings[i].status \in OpenFiring
                    THEN [firings[i] EXCEPT !.status = Reconciled(firings[i], kids)]
                    ELSE firings[i]
  BY DEF TickReconcile
<1> HIDE DEF kids
<1>4. CASE firings[i].live /\ firings[i].status \in OpenFiring
  <2>1. firings'[i].status = Reconciled(firings[i], kids)
    BY <1>1, <1>3, <1>4 DEF Firing
  <2> QED  BY <1>2, <1>4, <2>1, ReconciledIs
<1>5. CASE ~(firings[i].live /\ firings[i].status \in OpenFiring)
  BY <1>3, <1>5 DEF ClosedTellsTheTruth
<1> QED  BY <1>4, <1>5

LEMMA TruthKept ==
    Types /\ Types' /\ ClosedTellsTheTruth /\ [Next]_vars => ClosedTellsTheTruth'
<1> SUFFICES ASSUME Types, Types', ClosedTellsTheTruth, [Next]_vars PROVE ClosedTellsTheTruth'
  OBVIOUS
<1>1. CASE TickReconcile  BY <1>1, ReconciledTell
<1>2. CASE TickFire
  <2>1. sched \in Actor /\ sched.firing[1] \in Job
    BY <1>2 DEF TickFire, Types, TypeOK, FiringIsRead
  <2>2. CASE sched.cover = {}  BY <1>2, <2>2, UntouchedTell DEF TickFire
  <2>3. CASE sched.cover # {}  BY <1>2, <2>1, <2>3, FannedOutTell DEF TickFire
  <2> QED  BY <2>2, <2>3
<1>3. CASE RunNowFires
  <2>1. hand \in Actor /\ hand.firing[1] \in Job
    BY <1>3 DEF RunNowFires, Types, TypeOK, FiringIsRead
  <2>2. CASE jobs[hand.firing[1]].live  BY <1>3, <2>1, <2>2, FannedOutTell DEF RunNowFires
  <2>3. CASE ~jobs[hand.firing[1]].live  BY <1>3, <2>3, UntouchedTell DEF RunNowFires
  <2> QED  BY <2>2, <2>3
<1>4. ASSUME NEW j \in Job, DeleteJob(j) PROVE ClosedTellsTheTruth'
  <2>1. ASSUME NEW i \in DOMAIN firings PROVE firings'[i].status = firings[i].status
    <3>1. firings[i] \in Firing  BY ElementOfSeq DEF Types, TypeOK
    <3> QED  BY <1>4, <3>1 DEF DeleteJob, Firing
  <2> QED  BY <1>4, <2>1, UntouchedTell DEF DeleteJob
<1>5. ASSUME NEW s \in Source, BulkEnqueue(s) \/ DeleteSource(s) PROVE ClosedTellsTheTruth'
  <2>1. DOMAIN firings = 1 .. Len(firings) /\ Len(firings) \in Nat /\ Len(firings) <= MaxFirings
        /\ run \in [0 .. MaxFirings -> [Source -> RunStatus \cup {"none"}]] /\ MaxFirings \in Nat
    BY BoundsAssumption DEF Types, TypeOK
  <2>2. ASSUME NEW i \in DOMAIN firings, NEW r \in Source
        PROVE  run'[i][r] \in {run[i][r], "none"}
    BY <1>5, <2>1 DEF BulkEnqueue, DeleteSource
  <2> QED  BY <1>5, <2>2, UntouchedTell DEF BulkEnqueue, DeleteSource
<1>6. CASE WorkerStep \/ RunDisturbed
  <2>1. PICK i \in 0 .. MaxFirings, s \in Source :
           /\ run[i][s] \in {"pending", "running", "paused"}
           /\ \A k \in 0 .. MaxFirings, r \in Source : k # i \/ r # s => run'[k][r] = run[k][r]
    BY <1>6, MovesAreTyped
  <2>2. firings' = firings  BY <1>6, MovesAreTyped
  <2>3. DOMAIN firings \subseteq 0 .. MaxFirings
    BY BoundsAssumption DEF Types, TypeOK
  <2>4. ASSUME NEW k \in DOMAIN firings, NEW r \in Source, firings[k].status \notin OpenFiring
        PROVE  run'[k][r] = run[k][r]
    <3> firings[k] \in Firing  BY ElementOfSeq DEF Types, TypeOK
    <3>1. firings[k].status \in FiringStatus  BY DEF Firing
    <3>2. run[k][r] \in FinalRun \cup {"none"}
      BY <2>4, <3>1 DEF ClosedTellsTheTruth, Children, FiringStatus, OpenFiring, FinalRun
    <3> QED  BY <2>1, <2>3, <3>2 DEF FinalRun
  <2> QED  BY <2>2, <2>4, UntouchedTell
<1>7. CASE UNCHANGED <<firings, run>>  BY <1>7, UntouchedTell
<1> QED
  BY <1>1, <1>2, <1>3, <1>4, <1>5, <1>6, <1>7
     DEF Next, Tick, TickLoad, TickRead, TickRaises, TickEnds, SchedulerDies, Api, CreateJob,
         UpdateJob, SetCoverage, RunNow, BulkTrigger, RealmTurns, TimePasses, vars

\* A firing is closed only over runs that have ended, and says how: whatever users stop,
\* resume or delete, and however the scheduler is lost between its steps.
THEOREM ClosingIsTruthful == Spec => []ClosedTellsTheTruth
<1>1. Init => ClosedTellsTheTruth  BY DEF Init, ClosedTellsTheTruth
<1> QED  BY <1>1, TruthKept, JobTypes, PTL DEF Spec
-----------------------------------------------------------------------------
(* One firing per slot.                                                    *)

\* What the argument reads of the firings.
LEMMA FiringFacts ==
    ASSUME Types
    PROVE  /\ DOMAIN firings = 1 .. Len(firings) /\ Len(firings) \in Nat
           /\ \A i \in DOMAIN firings : /\ firings[i].job \in Job /\ firings[i].at \in Nat
                                       /\ firings[i].trigger \in {"scheduled", "manual"}
           /\ clock \in Nat /\ sched.now \in Nat
           /\ \A j \in Job : jobs[j].next \in Int
<1>1. firings \in Seq(Firing)  BY DEF Types, TypeOK
<1>2. \A i \in 1 .. Len(firings) : firings[i] \in Firing  BY <1>1, ElementOfSeq
<1>3. \A f \in Firing : f.job \in Job /\ f.at \in Nat /\ f.trigger \in {"scheduled", "manual"}
  BY BoundsAssumption DEF Firing
<1>4. clock \in Nat /\ sched.now \in Nat /\ \A j \in Job : jobs[j].next \in Int
  BY BoundsAssumption DEF Types, TypeOK, Actor
<1> QED  BY <1>1, <1>2, <1>3, <1>4

\* Nothing the argument reads changed, but that time may have passed.
LEMMA QuietSteps ==
    ASSUME Types, Types', NextIsAhead, TickIsDue, OneFiringPerSlot,
           sched' = sched, clock' >= clock,
           DOMAIN firings' = DOMAIN firings,
           \A i \in DOMAIN firings : /\ firings'[i].job = firings[i].job
                                    /\ firings'[i].at = firings[i].at
                                    /\ firings'[i].trigger = firings[i].trigger,
           \A j \in Job : jobs'[j].next \in {jobs[j].next, Never} \/ jobs'[j].next > clock
    PROVE  NextIsAhead' /\ TickIsDue' /\ OneFiringPerSlot'
<1>1. /\ \A i \in DOMAIN firings : firings[i].job \in Job /\ firings[i].at \in Nat
      /\ clock \in Nat /\ clock' \in Nat /\ sched.now \in Nat
      /\ \A j \in Job : jobs[j].next \in Int /\ jobs'[j].next \in Int
  BY FiringFacts, BoundsAssumption DEF Types, TypeOK
<1>2. NextIsAhead'
  BY <1>1 DEF NextIsAhead, Never
<1>3. \A j : InTick(j)' <=> InTick(j)  BY DEF InTick
<1>4. TickIsDue'
  <2>1. sched'.pc # "idle" => sched'.now <= clock'
    <3>1. sched.pc # "idle" => sched.now <= clock  BY DEF TickIsDue
    <3> QED  BY <1>1, <3>1
  <2>4. /\ sched'.pc \in {"idle", "load"} => sched'.due = {}
        /\ \A c, d \in sched'.due : c[1] = d[1] => c = d
        /\ sched'.pc = "fan" => \A d \in sched'.due : d[1] # sched'.firing[1]
    BY DEF TickIsDue
  <2>2. \A i \in DOMAIN firings : firings[i].trigger = "scheduled" /\ InTick(firings[i].job) =>
           \E t \in firings[i].at + 1 .. sched.now : \E p \in Periods : t % p = 0
    BY DEF TickIsDue, SlotBetween
  <2>3. \A i \in DOMAIN firings' :
           firings'[i].trigger = "scheduled" /\ InTick(firings[i].job)' =>
              SlotBetween(firings'[i].at, sched'.now)
    BY <1>3, <2>2 DEF SlotBetween
  <2> QED  BY <2>1, <2>3, <2>4 DEF TickIsDue, SlotBetween
<1>5. OneFiringPerSlot'
  BY DEF OneFiringPerSlot
<1> QED  BY <1>2, <1>4, <1>5

\* A firing by hand is no firing of a slot.
LEMMA HandFires ==
    ASSUME Types, Types', NextIsAhead, TickIsDue, OneFiringPerSlot, RunNowFires
    PROVE  NextIsAhead' /\ TickIsDue' /\ OneFiringPerSlot'
<1> DEFINE j == hand.firing[1]
           k == Len(firings) + 1
<1>1. UNCHANGED <<clock, jobs, sched>>  BY DEF RunNowFires
<1>2. CASE jobs[j].live
  <2>1. hand \in Actor /\ j \in Job /\ FanOut(hand, j, "manual")
    BY <1>2 DEF RunNowFires, Types, TypeOK, FiringIsRead
  <2>2. /\ firings' \in Seq(Firing) /\ Len(firings') = k
        /\ \A i \in DOMAIN firings : firings'[i] = firings[i]
        /\ firings'[k].trigger = "manual"
    BY <2>1, FanOutIsTyped DEF Types
  <2>3. DOMAIN firings' = 1 .. k /\ DOMAIN firings = 1 .. Len(firings) /\ Len(firings) \in Nat
    BY <2>2, FiringFacts
  <2>4. \A i \in DOMAIN firings' : firings'[i].trigger = "scheduled" =>
           i \in DOMAIN firings /\ firings'[i] = firings[i]
    BY <2>2, <2>3
  <2>5. \A c : InTick(c)' <=> InTick(c)  BY <1>1 DEF InTick
  <2> HIDE DEF k, j
  <2>6. NextIsAhead'  BY <1>1, <2>4 DEF NextIsAhead
  <2>7. TickIsDue'  BY <1>1, <2>4, <2>5 DEF TickIsDue, SlotBetween
  <2>8. OneFiringPerSlot'  BY <2>4 DEF OneFiringPerSlot
  <2> QED  BY <2>6, <2>7, <2>8
<1>3. CASE ~jobs[j].live
  <2>1. UNCHANGED firings  BY <1>3 DEF RunNowFires
  <2> QED  BY <1>1, <2>1, QuietSteps, FiringFacts
<1> QED  BY <1>2, <1>3

\* A tick starts, loads what is due, and reads a job; it ends, raises or is lost.
LEMMA TickMoves ==
    ASSUME Types, Types', NextIsAhead, TickIsDue, OneFiringPerSlot,
           \/ TickReconcile \/ TickLoad \/ TickRead \/ TickRaises \/ TickEnds
           \/ SchedulerDies
    PROVE  NextIsAhead' /\ TickIsDue' /\ OneFiringPerSlot'
<1>1. /\ UNCHANGED <<clock, jobs>>
      /\ DOMAIN firings' = DOMAIN firings
      /\ \A i \in DOMAIN firings : /\ firings'[i].job = firings[i].job
                                  /\ firings'[i].at = firings[i].at
                                  /\ firings'[i].trigger = firings[i].trigger
  <2>1. ASSUME TickReconcile, NEW i \in DOMAIN firings
        PROVE  /\ firings'[i].job = firings[i].job /\ firings'[i].at = firings[i].at
               /\ firings'[i].trigger = firings[i].trigger
    <3>1. firings[i] \in Firing  BY ElementOfSeq DEF Types, TypeOK
    <3> QED  BY <2>1, <3>1 DEF TickReconcile, Firing
  <2> QED  BY <2>1 DEF TickReconcile, TickLoad, TickRead, TickRaises, TickEnds, SchedulerDies
<1>2. NextIsAhead' /\ OneFiringPerSlot'
  BY <1>1 DEF NextIsAhead, OneFiringPerSlot
<1>3. /\ clock \in Nat /\ sched.now \in Nat /\ sched \in Actor
      /\ \A i \in DOMAIN firings : firings[i].job \in Job /\ firings[i].at \in Nat
  BY FiringFacts DEF Types, TypeOK
<1>4. CASE TickReconcile
  <2>1. sched'.pc = "load" /\ sched'.now = clock /\ sched'.due = {} /\ sched.pc = "idle"
    BY <1>3, <1>4 DEF TickReconcile, TickIsDue, Actor
  <2> QED  BY <1>1, <1>2, <1>3, <2>1 DEF TickIsDue, InTick
<1>5. CASE TickLoad
  <2> DEFINE due == {<<j, jobs[j].cron>> : j \in Due(sched.now)}
  <2>1. sched'.pc = "each" /\ sched'.now = sched.now /\ sched'.due = due /\ sched.pc = "load"
    BY <1>3, <1>5 DEF TickLoad, Actor
  <2>2. \A c, d \in due : c[1] = d[1] => c = d  OBVIOUS
  <2>3. ASSUME NEW i \in DOMAIN firings, firings[i].trigger = "scheduled",
               InTick(firings[i].job)'
        PROVE  SlotBetween(firings[i].at, sched.now)
    <3>1. firings[i].job \in Due(sched.now)  BY <2>1, <2>3, <1>1 DEF InTick
    <3> DEFINE n == jobs[firings[i].job].next
    <3>2. n \in 0 .. sched.now  BY <3>1 DEF Due
    <3>3. firings[i].at < n  BY <1>3, <2>3, <3>2 DEF NextIsAhead, Never
    <3>4. PICK p \in Periods : n % p = 0
      BY <1>3, <3>2 DEF Types, JobsFit, Never
    <3> HIDE DEF n
    <3> QED  BY <1>3, <3>2, <3>3, <3>4 DEF SlotBetween
  <2> HIDE DEF due
  <2> QED  BY <1>1, <1>2, <1>3, <2>1, <2>2, <2>3 DEF TickIsDue, InTick, SlotBetween
<1>6. CASE TickRead
  <2>1. PICK d \in sched.due :
            sched' = [ReadCoverage(sched, d[1], d[2]) EXCEPT !.due = @ \ {d}]
    BY <1>6 DEF TickRead
  <2>2. d[1] \in Job /\ d[2] \in Periods /\ d = <<d[1], d[2]>>  BY <1>3 DEF Actor
  <2>3. sched' \in Actor /\ sched'.pc = "fan" /\ sched'.firing = d /\ sched'.now = sched.now
        /\ sched'.due = sched.due \ {d}
    BY <1>3, <2>1, <2>2, ReadIsTyped DEF Types, Actor
  <2>4. sched.pc = "each"  BY <1>6 DEF TickRead
  <2>5. \A j : InTick(j)' => InTick(j)  BY <2>3, <2>4 DEF InTick
  <2> QED  BY <1>1, <1>2, <1>3, <2>3, <2>4, <2>5 DEF TickIsDue, SlotBetween
<1>7. CASE TickRaises \/ TickEnds \/ SchedulerDies
  <2>1. sched'.pc = "idle" /\ sched'.due = {}
    BY <1>7 DEF TickRaises, TickEnds, SchedulerDies, Idle
  <2> QED  BY <1>1, <1>2, <2>1 DEF TickIsDue, InTick
<1> QED  BY <1>4, <1>5, <1>6, <1>7

\* The scheduler fires a job for a slot after its last firing, and moves its next slot
\* past the time of this one.
LEMMA TickFires ==
    ASSUME Types, Types', NextIsAhead, TickIsDue, OneFiringPerSlot, TickFire
    PROVE  NextIsAhead' /\ TickIsDue' /\ OneFiringPerSlot'
<1> DEFINE j == sched.firing[1]
           k == Len(firings) + 1
           now == sched.now
           n == NextSlot(sched.firing[2], now)
<1>1. /\ sched \in Actor /\ j \in Job /\ sched.firing[2] \in Periods
      /\ now \in Nat /\ now <= clock /\ clock \in Nat /\ Len(firings) \in Nat
      /\ DOMAIN firings = 1 .. Len(firings)
      /\ \A i \in DOMAIN firings : firings[i].job \in Job /\ firings[i].at \in Nat
  BY FiringFacts DEF TickFire, TickIsDue, Types, TypeOK, FiringIsRead
<1>2. n \in Nat /\ n > now  BY <1>1, SlotIsAhead
<1>3. /\ clock' = clock /\ sched.pc = "fan" /\ sched'.pc = "each" /\ sched'.now = now
      /\ sched'.due = sched.due
  BY DEF TickFire, Idle
<1>4. jobs'[j].next = n /\ \A h \in Job : h # j => jobs'[h] = jobs[h]
  <2>1. jobs' = [jobs EXCEPT ![j].next = n]  BY DEF TickFire
  <2> HIDE DEF n, j
  <2> QED  BY <1>1, <2>1 DEF Types, TypeOK
\* The firings there were are those there are, and the new one is of j, at now.
<1>5. \A i \in DOMAIN firings' :
         \/ i \in DOMAIN firings /\ firings'[i] = firings[i]
         \/ /\ i = k /\ i \notin DOMAIN firings
            /\ firings'[i].job = j /\ firings'[i].at = now
  <2>1. CASE sched.cover = {}  BY <2>1 DEF TickFire
  <2>2. CASE sched.cover # {}
    <3>1. FanOut(sched, j, "scheduled")  BY <2>2 DEF TickFire
    <3>2. /\ firings' \in Seq(Firing) /\ Len(firings') = k
          /\ \A i \in DOMAIN firings : firings'[i] = firings[i]
          /\ firings'[k].job = j /\ firings'[k].at = now
      BY <1>1, <3>1, FanOutIsTyped DEF Types
    <3>3. DOMAIN firings' = 1 .. k  BY <3>2
    <3> HIDE DEF j, now
    <3> QED  BY <1>1, <3>2, <3>3
  <2> QED  BY <2>1, <2>2
<1>6. \A i \in DOMAIN firings : firings[i].trigger = "scheduled" /\ firings[i].job = j =>
         /\ SlotBetween(firings[i].at, now)
         /\ firings[i].at < now
  <2>1. ASSUME NEW i \in DOMAIN firings, firings[i].trigger = "scheduled", firings[i].job = j
        PROVE  SlotBetween(firings[i].at, now)
    BY <1>3, <2>1 DEF TickIsDue, InTick
  <2> HIDE DEF j, now
  <2> QED  BY <1>1, <2>1 DEF SlotBetween
<1> HIDE DEF n, j, now
<1>7. NextIsAhead'
  <2> SUFFICES ASSUME NEW i \in DOMAIN firings', firings'[i].trigger = "scheduled"
               PROVE  /\ firings'[i].at <= clock'
                      /\ \/ jobs'[firings'[i].job].next = Never
                         \/ firings'[i].at < jobs'[firings'[i].job].next
    BY DEF NextIsAhead
  <2>1. CASE firings'[i].job = j
    BY <1>1, <1>2, <1>3, <1>4, <1>5, <1>6, <2>1 DEF NextIsAhead
  <2>2. CASE firings'[i].job # j
    BY <1>1, <1>3, <1>4, <1>5, <2>2 DEF NextIsAhead
  <2> QED  BY <2>1, <2>2
<1>8. TickIsDue'
  <2>1. \A d \in sched.due : d[1] # j  BY <1>3 DEF TickIsDue, j
  <2>2. \A h : InTick(h)' => InTick(h) /\ h # j
    BY <1>3, <2>1 DEF InTick
  <2>3. \A i \in DOMAIN firings' :
           firings'[i].trigger = "scheduled" /\ InTick(firings[i].job)' =>
              SlotBetween(firings'[i].at, sched'.now)
    BY <1>3, <1>5, <2>2 DEF TickIsDue, SlotBetween, now
  <2>4. now <= clock'  BY <1>1, <1>3
  <2>5. \A c, d \in sched'.due : c[1] = d[1] => c = d  BY <1>3 DEF TickIsDue
  <2> QED  BY <1>3, <2>3, <2>4, <2>5 DEF TickIsDue, SlotBetween
<1>9. OneFiringPerSlot'
  <2> SUFFICES ASSUME NEW i \in DOMAIN firings', NEW m \in DOMAIN firings', i < m,
                      firings'[i].job = firings'[m].job,
                      firings'[i].trigger = "scheduled", firings'[m].trigger = "scheduled"
               PROVE  SlotBetween(firings'[i].at, firings'[m].at)
    BY DEF OneFiringPerSlot, SlotBetween
  <2>1. i \in DOMAIN firings /\ firings'[i] = firings[i]  BY <1>1, <1>5
  <2>2. CASE m \in DOMAIN firings /\ firings'[m] = firings[m]
    BY <2>1, <2>2 DEF OneFiringPerSlot, SlotBetween
  <2>3. CASE firings'[m].job = j /\ firings'[m].at = now
    BY <1>6, <2>1, <2>3
  <2> QED  BY <1>5, <2>2, <2>3
<1> QED  BY <1>7, <1>8, <1>9

LEMMA SlotsKept == Types /\ Types' /\ SlotInv /\ [Next]_vars => SlotInv'
<1> SUFFICES ASSUME Types, Types', NextIsAhead, TickIsDue, OneFiringPerSlot, [Next]_vars
             PROVE  NextIsAhead' /\ TickIsDue' /\ OneFiringPerSlot'
  BY DEF SlotInv
<1> DEFINE Same == /\ DOMAIN firings' = DOMAIN firings
                   /\ \A i \in DOMAIN firings : /\ firings'[i].job = firings[i].job
                                               /\ firings'[i].at = firings[i].at
                                               /\ firings'[i].trigger = firings[i].trigger
<1>0. clock \in Nat  BY FiringFacts
<1>1. CASE TickReconcile \/ TickLoad \/ TickRead \/ TickRaises \/ TickEnds \/ SchedulerDies
  BY <1>1, TickMoves
<1>2. CASE TickFire  BY <1>2, TickFires
<1>3. CASE RunNowFires  BY <1>3, HandFires
<1>4. ASSUME NEW j \in Job, NEW e \in BOOLEAN, NEW c \in Periods \cup {0},
             CreateJob(j, e, c) \/ UpdateJob(j, e, c)
      PROVE  NextIsAhead' /\ TickIsDue' /\ OneFiringPerSlot'
  <2>1. Schedule(j, e, c) /\ UNCHANGED <<clock, firings, sched>>
    BY <1>4 DEF CreateJob, UpdateJob
  <2>2. \A k \in Job : jobs'[k].next \in {jobs[k].next, Never} \/ jobs'[k].next > clock
    BY <2>1, ScheduleFits
  <2> QED  BY <1>0, <2>1, <2>2, QuietSteps
<1>5. ASSUME NEW j \in Job, DeleteJob(j)
      PROVE  NextIsAhead' /\ TickIsDue' /\ OneFiringPerSlot'
  <2>1. \A k \in Job : jobs'[k].next = jobs[k].next
    BY <1>5 DEF DeleteJob, Types, TypeOK
  <2>2. ASSUME NEW i \in DOMAIN firings
        PROVE  /\ firings'[i].job = firings[i].job /\ firings'[i].at = firings[i].at
               /\ firings'[i].trigger = firings[i].trigger
    <3>1. firings[i] \in Firing  BY ElementOfSeq DEF Types, TypeOK
    <3> QED  BY <1>5, <3>1 DEF DeleteJob, Firing
  <2> QED  BY <1>0, <1>5, <2>1, <2>2, QuietSteps DEF DeleteJob
<1>6. ASSUME NEW j \in Job, NEW S \in SUBSET Source, SetCoverage(j, S)
      PROVE  NextIsAhead' /\ TickIsDue' /\ OneFiringPerSlot'
  <2>1. \A k \in Job : jobs'[k].next = jobs[k].next
    BY <1>6 DEF SetCoverage, Types, TypeOK
  <2> QED  BY <1>0, <1>6, <2>1, QuietSteps DEF SetCoverage
<1>7. ASSUME NEW s \in Source, DeleteSource(s)
      PROVE  NextIsAhead' /\ TickIsDue' /\ OneFiringPerSlot'
  <2>1. \A k \in Job : jobs'[k].next = jobs[k].next
    BY <1>7 DEF DeleteSource, Types, TypeOK
  <2> QED  BY <1>0, <1>7, <2>1, QuietSteps DEF DeleteSource
<1>8. CASE clock' >= clock /\ UNCHANGED <<jobs, firings, sched>>
  BY <1>8, QuietSteps
<1>9. CASE WorkerStep \/ RunDisturbed
  <2>1. UNCHANGED <<clock, jobs, firings, sched>>  BY <1>9, MovesAreTyped
  <2> QED  BY <1>0, <1>8, <2>1
<1> QED
  BY <1>0, <1>1, <1>2, <1>3, <1>4, <1>5, <1>6, <1>7, <1>8, <1>9
     DEF Next, Tick, Api, RunNow, BulkTrigger, BulkEnqueue, RealmTurns, TimePasses, vars

\* However many slots the scheduler slept through, a job fires at most once for a slot,
\* whatever is edited, deleted, fired by hand or lost between the steps of a tick.
THEOREM SlotsFireOnce == Spec => []OneFiringPerSlot
<1>1. Init => SlotInv
  <2> SUFFICES ASSUME Init PROVE SlotInv  OBVIOUS
  <2>1. Types  BY InitTypes
  <2>2. firings = << >> /\ sched.pc = "idle" /\ sched.due = {}  BY DEF Init, Idle
  <2> QED  BY <2>1, <2>2 DEF SlotInv, NextIsAhead, TickIsDue, OneFiringPerSlot
<1>2. SlotInv => OneFiringPerSlot  BY DEF SlotInv
<1> QED  BY <1>1, <1>2, SlotsKept, JobTypes, PTL DEF Spec
=============================================================================
