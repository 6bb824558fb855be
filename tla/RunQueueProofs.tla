--------------------------- MODULE RunQueueProofs ---------------------------
(***************************************************************************)
(* Proofs about RunQueue, for any sources, runs, exports and workers.      *)
(*   - whatever gaps are let in (any Races): TypeOK, OneActiveRun and      *)
(*     ClaimsAreExclusive;                                                 *)
(*   - with overlapping claims let in, but no request that straddles other *)
(*     commits and no late heartbeat: LaneOwnsRun, LaneOwnsExport,         *)
(*     AttemptsBounded, FinalIsFinal, StopSurvivesRequeue; and that only   *)
(*     two claims of one source that are open together (ClaimsOverlap) can *)
(*     break SourceExclusion or keep RunQueue from implementing SourceLock.*)
(***************************************************************************)
EXTENDS RunQueue, TLAPS

\* A signal that waits to be handled is a stop request; only a web run requeues.
SignalIsStop ==
    \A w \in Worker : pc[w] = "signalled" =>
        \/ sig[w] \in {"pause", "cancel"}
        \/ sig[w] = "requeue" /\ KindOf[job[w]] = "web"

\* The inductive invariant that needs no assumption on Races.
RowInv == TypeOK /\ SignalIsStop /\ OneActiveRun /\ ClaimsAreExclusive

\* The inductive invariant of the queue with overlapping claims let in.
LockInv == api = NoRequest /\ LaneOwnsRun /\ LaneOwnsExport

\* A claim that has read its snapshot finds it still true when it commits.
PicksApart ==
    /\ \A w \in Worker : pc[w] = "picked" => ExportingOn(SourceOf[job[w]]) = {}
    /\ \A w \in Worker : xpc[w] = "picked" => RunningOn(XSourceOf[xjob[w]]) = {}

\* What holds of a source until two claims of it overlap.
ApartInv == PicksApart /\ SourceExclusion
-----------------------------------------------------------------------------

\* No run is active and no lane is busy at first, so RowInv holds.
LEMMA RowInit == Init => RowInv
<1> SUFFICES ASSUME Init PROVE RowInv
  OBVIOUS
<1> USE TablesAssumption, BoundsAssumption DEF Init
<1>1. TypeOK
  BY DEF TypeOK, RowsTypeOK, LanesTypeOK, ExportsTypeOK,
         RunStatus, Active, Final, Control, Signal, SourceStatus, Busy
<1>2. SignalIsStop /\ OneActiveRun /\ ClaimsAreExclusive
  BY DEF SignalIsStop, OneActiveRun, ClaimsAreExclusive, Active
<1> QED BY <1>1, <1>2 DEF RowInv

\* What a lane that is not idle holds.
LEMMA LaneHolds ==
  ASSUME TypeOK, NEW w \in Worker, pc[w] # "idle"
  PROVE  job[w] \in Run /\ SourceOf[job[w]] \in Source
  BY TablesAssumption DEF TypeOK, LanesTypeOK

\* A lane that lets its run go still has well-typed variables.
LEMMA ReleaseTypes ==
  ASSUME TypeOK, NEW w \in Worker, Release(w)
  PROVE  LanesTypeOK'
  BY DEF TypeOK, LanesTypeOK, Release, Busy, Signal, Control

\* Inserting a run keeps RowInv.
LEMMA EnqueueRunRow ==
  ASSUME RowInv, NEW r \in Run, EnqueueRun(r) PROVE RowInv'
<1> USE TablesAssumption, BoundsAssumption DEF RowInv, TypeOK, EnqueueRun, xrowVars, laneVars, xlaneVars
<1>1. RowsTypeOK'
  BY DEF RowsTypeOK, RunStatus, Active, Final
<1>2. LanesTypeOK'
  BY DEF LanesTypeOK
<1>3. ExportsTypeOK'
  BY DEF ExportsTypeOK
<1>4. SignalIsStop'
  BY DEF SignalIsStop
<1>5. OneActiveRun'
  BY DEF RowsTypeOK, OneActiveRun, Vacant, Active
<1>6. ClaimsAreExclusive'
  BY DEF RowsTypeOK, ClaimsAreExclusive
<1> QED BY <1>1, <1>2, <1>3, <1>4, <1>5, <1>6

\* Inserting export jobs keeps RowInv.
LEMMA EnqueueExportsRow ==
  ASSUME RowInv, NEW batch \in SUBSET Export, EnqueueExports(batch) PROVE RowInv'
<1> USE TablesAssumption, BoundsAssumption DEF RowInv, TypeOK, EnqueueExports, rowVars, laneVars, xlaneVars
<1>1. RowsTypeOK'
  BY DEF RowsTypeOK
<1>2. LanesTypeOK'
  BY DEF LanesTypeOK
<1>3. ExportsTypeOK'
  BY DEF ExportsTypeOK, RunStatus, Active, Final
<1>4. SignalIsStop'
  BY DEF SignalIsStop
<1>5. OneActiveRun'
  BY DEF RowsTypeOK, OneActiveRun, Active
<1>6. ClaimsAreExclusive'
  BY DEF ExportsTypeOK, ClaimsAreExclusive
<1> QED BY <1>1, <1>2, <1>3, <1>4, <1>5, <1>6

\* Selecting and locking a run keeps RowInv.
LEMMA PickRunRow ==
  ASSUME RowInv, NEW w \in Worker, NEW r \in Run, PickRun(w, r) PROVE RowInv'
<1> USE TablesAssumption, BoundsAssumption DEF RowInv, TypeOK, PickRun, rowVars, xrowVars, xlaneVars
<1>1. RowsTypeOK'
  BY DEF RowsTypeOK
<1>2. LanesTypeOK'
  BY DEF LanesTypeOK
<1>3. ExportsTypeOK'
  BY DEF ExportsTypeOK
<1>4. SignalIsStop'
  BY DEF SignalIsStop, LanesTypeOK
<1>5. OneActiveRun'
  BY DEF RowsTypeOK, OneActiveRun, Active
<1>6. ClaimsAreExclusive'
  BY DEF LanesTypeOK, ClaimsAreExclusive, Claimable, Locked
<1> QED BY <1>1, <1>2, <1>3, <1>4, <1>5, <1>6

\* Committing the claim of a run keeps RowInv.
LEMMA ClaimRunRow ==
  ASSUME RowInv, NEW w \in Worker, ClaimRun(w) PROVE RowInv'
<1> USE TablesAssumption, BoundsAssumption DEF RowInv, TypeOK, ClaimRun, Goto, xrowVars, xlaneVars
<1>1. RowsTypeOK'
  BY LaneHolds DEF RowsTypeOK, LanesTypeOK, RunStatus, Active, Final
<1>2. LanesTypeOK'
  BY DEF LanesTypeOK, Busy
<1>3. ExportsTypeOK'
  BY DEF ExportsTypeOK
<1>4. SignalIsStop'
  BY DEF SignalIsStop, LanesTypeOK
<1>5. OneActiveRun'
  BY LaneHolds DEF RowsTypeOK, LanesTypeOK, OneActiveRun, ClaimsAreExclusive, Active
<1>6. ClaimsAreExclusive'
  BY LaneHolds DEF RowsTypeOK, LanesTypeOK, ClaimsAreExclusive
<1> QED BY <1>1, <1>2, <1>3, <1>4, <1>5, <1>6

\* Selecting and locking an export keeps RowInv.
LEMMA PickExportRow ==
  ASSUME RowInv, NEW w \in Worker, NEW x \in Export, PickExport(w, x) PROVE RowInv'
<1> USE TablesAssumption, BoundsAssumption DEF RowInv, TypeOK, PickExport, rowVars, xrowVars, laneVars
<1>1. RowsTypeOK'
  BY DEF RowsTypeOK
<1>2. LanesTypeOK'
  BY DEF LanesTypeOK
<1>3. ExportsTypeOK'
  BY DEF ExportsTypeOK
<1>4. SignalIsStop'
  BY DEF SignalIsStop
<1>5. OneActiveRun'
  BY DEF RowsTypeOK, OneActiveRun, Active
<1>6. ClaimsAreExclusive'
  BY DEF ExportsTypeOK, ClaimsAreExclusive, XClaimable, XLocked
<1> QED BY <1>1, <1>2, <1>3, <1>4, <1>5, <1>6

\* Committing the claim of an export keeps RowInv.
LEMMA ClaimExportRow ==
  ASSUME RowInv, NEW w \in Worker, ClaimExport(w) PROVE RowInv'
<1> USE TablesAssumption, BoundsAssumption DEF RowInv, TypeOK, ClaimExport, rowVars, laneVars
<1>1. RowsTypeOK'
  BY DEF RowsTypeOK
<1>2. LanesTypeOK'
  BY DEF LanesTypeOK
<1>3. ExportsTypeOK'
  BY DEF ExportsTypeOK, RunStatus, Active, Final
<1>4. SignalIsStop'
  BY DEF SignalIsStop
<1>5. OneActiveRun'
  BY DEF RowsTypeOK, OneActiveRun, Active
<1>6. ClaimsAreExclusive'
  BY DEF ExportsTypeOK, ClaimsAreExclusive
<1> QED BY <1>1, <1>2, <1>3, <1>4, <1>5, <1>6

\* The end of an export keeps RowInv.
LEMMA FinishExportRow ==
  ASSUME RowInv, NEW w \in Worker, FinishExport(w) PROVE RowInv'
<1> USE TablesAssumption, BoundsAssumption DEF RowInv, TypeOK, FinishExport, rowVars, laneVars
<1>1. RowsTypeOK'
  BY DEF RowsTypeOK
<1>2. LanesTypeOK'
  BY DEF LanesTypeOK
<1>3. ExportsTypeOK'
  BY DEF ExportsTypeOK, RunStatus, Active, Final
<1>4. SignalIsStop'
  BY DEF SignalIsStop
<1>5. OneActiveRun'
  BY DEF RowsTypeOK, OneActiveRun, Active
<1>6. ClaimsAreExclusive'
  BY DEF ExportsTypeOK, ClaimsAreExclusive, XLocked
<1> QED BY <1>1, <1>2, <1>3, <1>4, <1>5, <1>6

\* The start of the work on a run keeps RowInv.
LEMMA StartRunRow ==
  ASSUME RowInv, NEW w \in Worker, StartRun(w) PROVE RowInv'
<1> USE TablesAssumption, BoundsAssumption DEF RowInv, TypeOK, StartRun, Goto, At, elsewhere, xrowVars, xlaneVars
<1>a. job[w] \in Run /\ SourceOf[job[w]] \in Source
  BY LaneHolds DEF At, Busy
<1>1. RowsTypeOK'
  BY <1>a DEF RowsTypeOK, SourceStatus, RunStatus, Active, Final
<1>2. LanesTypeOK'
  BY DEF LanesTypeOK, Busy
<1>3. ExportsTypeOK'
  BY DEF ExportsTypeOK
<1>4. SignalIsStop'
  BY DEF SignalIsStop, LanesTypeOK
<1>5. OneActiveRun'
  BY <1>a DEF RowsTypeOK, OneActiveRun, Vacant, Active
<1>6. ClaimsAreExclusive'
  BY <1>a DEF RowsTypeOK, LanesTypeOK, ClaimsAreExclusive, Locked, At
<1> QED BY <1>1, <1>2, <1>3, <1>4, <1>5, <1>6

\* Saving the checkpoint keeps RowInv.
LEMMA SaveCheckpointRow ==
  ASSUME RowInv, NEW w \in Worker, SaveCheckpoint(w) PROVE RowInv'
<1> USE TablesAssumption, BoundsAssumption DEF RowInv, TypeOK, SaveCheckpoint, laneVars, elsewhere, xrowVars, xlaneVars
<1>a. job[w] \in Run /\ SourceOf[job[w]] \in Source
  BY LaneHolds DEF At, Busy
<1>1. RowsTypeOK'
  BY <1>a DEF RowsTypeOK
<1>2. LanesTypeOK'
  BY DEF LanesTypeOK
<1>3. ExportsTypeOK'
  BY DEF ExportsTypeOK
<1>4. SignalIsStop'
  BY DEF SignalIsStop
<1>5. OneActiveRun'
  BY DEF RowsTypeOK, OneActiveRun, Active
<1>6. ClaimsAreExclusive'
  BY DEF ClaimsAreExclusive
<1> QED BY <1>1, <1>2, <1>3, <1>4, <1>5, <1>6

\* Seeing a stop request keeps RowInv.
LEMMA ObserveControlRow ==
  ASSUME RowInv, NEW w \in Worker, ObserveControl(w) PROVE RowInv'
<1> USE TablesAssumption, BoundsAssumption DEF RowInv, TypeOK, ObserveControl, elsewhere, xrowVars, xlaneVars
<1>a. job[w] \in Run /\ SourceOf[job[w]] \in Source
  BY LaneHolds DEF At, Busy
<1>1. RowsTypeOK'
  BY DEF RowsTypeOK
<1>2. LanesTypeOK'
  BY <1>a DEF RowsTypeOK, LanesTypeOK, Busy, Signal, Control
<1>3. ExportsTypeOK'
  BY DEF ExportsTypeOK
<1>4. SignalIsStop'
  BY <1>a DEF RowsTypeOK, SignalIsStop, LanesTypeOK, Control
<1>5. OneActiveRun'
  BY DEF RowsTypeOK, OneActiveRun, Active
<1>6. ClaimsAreExclusive'
  BY DEF LanesTypeOK, ClaimsAreExclusive
<1> QED BY <1>1, <1>2, <1>3, <1>4, <1>5, <1>6

\* A session that expires (raw_http) keeps RowInv.
LEMMA SessionExpiresRow ==
  ASSUME RowInv, NEW w \in Worker, SessionExpires(w) PROVE RowInv'
<1> USE TablesAssumption, BoundsAssumption DEF RowInv, TypeOK, SessionExpires, At, Outcome, TryRelogin, elsewhere, xrowVars, xlaneVars
<1>a. job[w] \in Run /\ SourceOf[job[w]] \in Source
  BY LaneHolds DEF At, Busy
<1>1. RowsTypeOK'
  BY <1>a DEF RowsTypeOK
<1>2. LanesTypeOK'
  BY <1>a DEF LanesTypeOK, Busy, Signal, Control
<1>3. ExportsTypeOK'
  BY DEF ExportsTypeOK
<1>4. SignalIsStop'
  BY <1>a DEF RowsTypeOK, SignalIsStop, LanesTypeOK, Control
<1>5. OneActiveRun'
  BY DEF RowsTypeOK, OneActiveRun, Active
<1>6. ClaimsAreExclusive'
  BY DEF LanesTypeOK, ClaimsAreExclusive
<1> QED BY <1>1, <1>2, <1>3, <1>4, <1>5, <1>6

\* A login wall (other engines) keeps RowInv.
LEMMA AuthWallRow ==
  ASSUME RowInv, NEW w \in Worker, AuthWall(w) PROVE RowInv'
<1> USE TablesAssumption, BoundsAssumption DEF RowInv, TypeOK, AuthWall, At, TryRelogin, elsewhere, xrowVars, xlaneVars
<1>a. job[w] \in Run /\ SourceOf[job[w]] \in Source
  BY LaneHolds DEF At, Busy
<1>1. RowsTypeOK'
  BY <1>a DEF RowsTypeOK, ParkAs, DropIfCancelled, SourceStatus, Control, RunStatus, Active, Final
<1>2. LanesTypeOK'
  BY ReleaseTypes
<1>3. ExportsTypeOK'
  BY DEF ExportsTypeOK
<1>4. SignalIsStop'
  BY DEF SignalIsStop, LanesTypeOK, Release
<1>5. OneActiveRun'
  BY <1>a DEF RowsTypeOK, OneActiveRun, Outcome, ParkAs, Vacant, Active
<1>6. ClaimsAreExclusive'
  BY <1>a DEF RowsTypeOK, LanesTypeOK, ClaimsAreExclusive, Release, Locked, ParkAs
<1> QED BY <1>1, <1>2, <1>3, <1>4, <1>5, <1>6

\* Settling a signal keeps RowInv.
LEMMA SettleSignalRow ==
  ASSUME RowInv, NEW w \in Worker, SettleSignal(w) PROVE RowInv'
<1> USE TablesAssumption, BoundsAssumption DEF RowInv, TypeOK, SettleSignal, At, elsewhere, xrowVars, xlaneVars
<1>a. job[w] \in Run /\ SourceOf[job[w]] \in Source
  BY LaneHolds DEF At, Busy
<1>b. /\ status' \in [Run -> RunStatus]
      /\ srcStatus' \in [Source -> SourceStatus]
      /\ \A q \in Run \ {job[w]} : status'[q] = status[q]
  <2>1. ASSUME NEW outcome, ParkAs(job[w], outcome)
        PROVE  /\ status' \in [Run -> RunStatus]
               /\ srcStatus' \in [Source -> SourceStatus]
               /\ \A q \in Run \ {job[w]} : status'[q] = status[q]
    BY <1>a, <2>1 DEF RowsTypeOK, ParkAs, SourceStatus, RunStatus, Active, Final
  <2>2. CASE KindOf[job[w]] \in {"web", "pdf"}
    BY <2>1, <2>2
  <2>3. CASE KindOf[job[w]] = "escalate"
    BY <1>a, <2>3 DEF RowsTypeOK, SourceStatus, RunStatus, Active, Final
  <2> QED BY <2>2, <2>3
<1>c. control' \in [Run -> Control]
  BY <1>a DEF RowsTypeOK, Control
<1>d. ckpt' \subseteq Source
  BY <1>a DEF RowsTypeOK, DropIfCancelled
<1>1. RowsTypeOK'
  BY <1>b, <1>c, <1>d DEF RowsTypeOK
<1>2. LanesTypeOK'
  BY ReleaseTypes
<1>3. ExportsTypeOK'
  BY DEF ExportsTypeOK
<1>4. SignalIsStop'
  BY DEF SignalIsStop, LanesTypeOK, Release
<1>5. OneActiveRun'
  BY <1>a DEF RowsTypeOK, SignalIsStop, OneActiveRun, Outcome, ParkAs, Vacant, Active
<1>6. ClaimsAreExclusive'
  BY <1>a, <1>b DEF LanesTypeOK, ClaimsAreExclusive, Release, Locked
<1> QED BY <1>1, <1>2, <1>3, <1>4, <1>5, <1>6

\* Dropping the checkpoint keeps RowInv.
LEMMA ClearCheckpointRow ==
  ASSUME RowInv, NEW w \in Worker, ClearCheckpoint(w) PROVE RowInv'
<1> USE TablesAssumption, BoundsAssumption DEF RowInv, TypeOK, ClearCheckpoint, Goto, elsewhere, xrowVars, xlaneVars
<1>a. job[w] \in Run /\ SourceOf[job[w]] \in Source
  BY LaneHolds DEF At, Busy
<1>1. RowsTypeOK'
  BY DEF RowsTypeOK
<1>2. LanesTypeOK'
  BY DEF LanesTypeOK, Busy
<1>3. ExportsTypeOK'
  BY DEF ExportsTypeOK
<1>4. SignalIsStop'
  BY DEF SignalIsStop, LanesTypeOK
<1>5. OneActiveRun'
  BY DEF RowsTypeOK, OneActiveRun, Active
<1>6. ClaimsAreExclusive'
  BY DEF LanesTypeOK, ClaimsAreExclusive
<1> QED BY <1>1, <1>2, <1>3, <1>4, <1>5, <1>6

\* The end of a run by its own hand keeps RowInv.
LEMMA FinishRunRow ==
  ASSUME RowInv, NEW w \in Worker, FinishRun(w) PROVE RowInv'
<1> USE TablesAssumption, BoundsAssumption DEF RowInv, TypeOK, FinishRun, At, elsewhere, xrowVars, xlaneVars
<1>a. job[w] \in Run /\ SourceOf[job[w]] \in Source
  BY LaneHolds DEF At, Busy
<1>1. RowsTypeOK'
  BY <1>a DEF RowsTypeOK, SourceStatus, RunStatus, Active, Final
<1>2. LanesTypeOK'
  BY ReleaseTypes
<1>3. ExportsTypeOK'
  BY DEF ExportsTypeOK
<1>4. SignalIsStop'
  BY DEF SignalIsStop, LanesTypeOK, Release
<1>5. OneActiveRun'
  BY <1>a DEF RowsTypeOK, OneActiveRun, Active
<1>6. ClaimsAreExclusive'
  BY <1>a DEF RowsTypeOK, LanesTypeOK, ClaimsAreExclusive, Release, Locked, ParkAs
<1> QED BY <1>1, <1>2, <1>3, <1>4, <1>5, <1>6

\* An exception in the work keeps RowInv.
LEMMA WorkFailsRow ==
  ASSUME RowInv, NEW w \in Worker, WorkFails(w) PROVE RowInv'
<1> USE TablesAssumption, BoundsAssumption DEF RowInv, TypeOK, WorkFails, Goto, elsewhere, xrowVars, xlaneVars
<1>a. job[w] \in Run /\ SourceOf[job[w]] \in Source
  BY LaneHolds DEF At, Busy
<1>1. RowsTypeOK'
  BY DEF RowsTypeOK
<1>2. LanesTypeOK'
  BY DEF LanesTypeOK, Busy
<1>3. ExportsTypeOK'
  BY DEF ExportsTypeOK
<1>4. SignalIsStop'
  BY DEF SignalIsStop, LanesTypeOK
<1>5. OneActiveRun'
  BY DEF RowsTypeOK, OneActiveRun, Active
<1>6. ClaimsAreExclusive'
  BY DEF LanesTypeOK, ClaimsAreExclusive
<1> QED BY <1>1, <1>2, <1>3, <1>4, <1>5, <1>6

\* The worker's failure handler keeps RowInv.
LEMMA HandleFailureRow ==
  ASSUME RowInv, NEW w \in Worker, HandleFailure(w) PROVE RowInv'
<1> USE TablesAssumption, BoundsAssumption DEF RowInv, TypeOK, HandleFailure, At, xrowVars, xlaneVars
<1>a. job[w] \in Run /\ SourceOf[job[w]] \in Source
  BY LaneHolds DEF At, Busy
<1>1. RowsTypeOK'
  BY <1>a DEF RowsTypeOK, LeaveExtracting, SourceStatus, RunStatus, Active, Final
<1>2. LanesTypeOK'
  BY ReleaseTypes
<1>3. ExportsTypeOK'
  BY DEF ExportsTypeOK
<1>4. SignalIsStop'
  BY DEF SignalIsStop, LanesTypeOK, Release
<1>5. OneActiveRun'
  BY <1>a DEF RowsTypeOK, OneActiveRun, Vacant, Active
<1>6. ClaimsAreExclusive'
  BY <1>a DEF RowsTypeOK, LanesTypeOK, ClaimsAreExclusive, Release, Locked, ParkAs
<1> QED BY <1>1, <1>2, <1>3, <1>4, <1>5, <1>6

\* A crash keeps RowInv.
LEMMA CrashRow ==
  ASSUME RowInv, NEW w \in Worker, Crash(w) PROVE RowInv'
<1> USE TablesAssumption, BoundsAssumption DEF RowInv, TypeOK, Crash, rowVars, xrowVars
<1>1. RowsTypeOK'
  BY DEF RowsTypeOK
<1>2. LanesTypeOK'
  BY ReleaseTypes
<1>3. ExportsTypeOK'
  BY DEF ExportsTypeOK
<1>4. SignalIsStop'
  BY DEF SignalIsStop, LanesTypeOK, Release
<1>5. OneActiveRun'
  BY DEF RowsTypeOK, OneActiveRun, Active
<1>6. ClaimsAreExclusive'
  BY DEF LanesTypeOK, ExportsTypeOK, ClaimsAreExclusive, Release
<1> QED BY <1>1, <1>2, <1>3, <1>4, <1>5, <1>6

\* Reaping a run keeps RowInv.
LEMMA ReapRow ==
  ASSUME RowInv, NEW r \in Run, Reap(r) PROVE RowInv'
<1> USE TablesAssumption, BoundsAssumption DEF RowInv, TypeOK, Reap, xrowVars, laneVars, xlaneVars
<1>1. RowsTypeOK'
  BY DEF RowsTypeOK, LeaveExtracting, SourceStatus, RunStatus, Active, Final
<1>2. LanesTypeOK'
  BY DEF LanesTypeOK
<1>3. ExportsTypeOK'
  BY DEF ExportsTypeOK
<1>4. SignalIsStop'
  BY DEF SignalIsStop
<1>5. OneActiveRun'
  BY DEF RowsTypeOK, OneActiveRun, Lost, Active
<1>6. ClaimsAreExclusive'
  BY DEF RowsTypeOK, LanesTypeOK, ClaimsAreExclusive, Lost
<1> QED BY <1>1, <1>2, <1>3, <1>4, <1>5, <1>6

\* Reaping an export keeps RowInv.
LEMMA ReapExportRow ==
  ASSUME RowInv, NEW x \in Export, ReapExport(x) PROVE RowInv'
<1> USE TablesAssumption, BoundsAssumption DEF RowInv, TypeOK, ReapExport, rowVars, laneVars, xlaneVars
<1>1. RowsTypeOK'
  BY DEF RowsTypeOK
<1>2. LanesTypeOK'
  BY DEF LanesTypeOK
<1>3. ExportsTypeOK'
  BY DEF ExportsTypeOK, RunStatus, Active, Final
<1>4. SignalIsStop'
  BY DEF SignalIsStop
<1>5. OneActiveRun'
  BY DEF RowsTypeOK, OneActiveRun, Active
<1>6. ClaimsAreExclusive'
  BY DEF ExportsTypeOK, ClaimsAreExclusive, XLost
<1> QED BY <1>1, <1>2, <1>3, <1>4, <1>5, <1>6

\* The end of a retry delay keeps RowInv.
LEMMA BackoffElapsesRow ==
  ASSUME RowInv, NEW r \in Run, BackoffElapses(r) PROVE RowInv'
<1> USE TablesAssumption, BoundsAssumption DEF RowInv, TypeOK, BackoffElapses, xrowVars, laneVars, xlaneVars
<1>1. RowsTypeOK'
  BY DEF RowsTypeOK
<1>2. LanesTypeOK'
  BY DEF LanesTypeOK
<1>3. ExportsTypeOK'
  BY DEF ExportsTypeOK
<1>4. SignalIsStop'
  BY DEF SignalIsStop
<1>5. OneActiveRun'
  BY DEF RowsTypeOK, OneActiveRun, Active
<1>6. ClaimsAreExclusive'
  BY DEF RowsTypeOK, ClaimsAreExclusive
<1> QED BY <1>1, <1>2, <1>3, <1>4, <1>5, <1>6

\* What a request writes, whatever it loaded, keeps RowInv.
LEMMA ApplyRow ==
  ASSUME RowInv, NEW r \in Run, NEW op, NEW seen, NEW ctl, Apply(op, r, seen, ctl),
         api' \in {NoRequest} \cup RunRequest \cup ExportRequest
  PROVE  RowInv'
<1> USE TablesAssumption, BoundsAssumption
    DEF RowInv, TypeOK, Apply, CancelAs, PauseAs, ResumeAs, xrowVars, laneVars, xlaneVars
<1>1. RowsTypeOK'
  BY DEF RowsTypeOK, Assign, RunStatus, Active, Final, Control
<1>2. LanesTypeOK'
  BY DEF LanesTypeOK
<1>3. ExportsTypeOK'
  BY DEF ExportsTypeOK
<1>4. SignalIsStop'
  BY DEF SignalIsStop
<1>5. OneActiveRun'
  BY DEF RowsTypeOK, OneActiveRun, Vacant, Active
<1>6. ClaimsAreExclusive'
  BY DEF RowsTypeOK, LanesTypeOK, ClaimsAreExclusive, Locked
<1> QED BY <1>1, <1>2, <1>3, <1>4, <1>5, <1>6

\* Cancelling an export, whatever was loaded, keeps RowInv.
LEMMA CancelExportAsRow ==
  ASSUME RowInv, NEW x \in Export, NEW seen, CancelExportAs(x, seen),
         api' \in {NoRequest} \cup RunRequest \cup ExportRequest
  PROVE  RowInv'
<1> USE TablesAssumption, BoundsAssumption
    DEF RowInv, TypeOK, CancelExportAs, rowVars, laneVars, xlaneVars
<1>1. RowsTypeOK' /\ LanesTypeOK' /\ SignalIsStop' /\ OneActiveRun'
  BY DEF RowsTypeOK, LanesTypeOK, SignalIsStop, OneActiveRun
<1>2. ExportsTypeOK'
  BY DEF ExportsTypeOK, RunStatus, Active, Final
<1>3. ClaimsAreExclusive'
  BY DEF ExportsTypeOK, ClaimsAreExclusive, XLocked
<1> QED BY <1>1, <1>2, <1>3

\* A step that changes nothing but the request in flight.
LEMMA OnlyApiRow ==
  ASSUME RowInv, UNCHANGED <<rowVars, srcStatus, ckpt, xrowVars, laneVars, xlaneVars, crashes>>,
         api' \in {NoRequest} \cup RunRequest \cup ExportRequest
  PROVE  RowInv'
  BY DEF RowInv, TypeOK, RowsTypeOK, LanesTypeOK, ExportsTypeOK, SignalIsStop, OneActiveRun,
         ClaimsAreExclusive, rowVars, xrowVars, laneVars, xlaneVars

\* Every step of the API keeps RowInv.
LEMMA RequestRow == RowInv /\ Request => RowInv'
<1> SUFFICES ASSUME RowInv, Request PROVE RowInv'
  OBVIOUS
<1>0. /\ api \in {NoRequest} \cup RunRequest \cup ExportRequest
      /\ NoRequest \in {NoRequest} \cup RunRequest \cup ExportRequest
  BY DEF RowInv, TypeOK
<1>1. ASSUME NEW r \in Run, EnqueueRun(r) PROVE RowInv'
  BY <1>1, EnqueueRunRow
<1>2. ASSUME NEW r \in Run, CancelRun(r) \/ PauseRun(r) \/ ResumeRun(r) PROVE RowInv'
  <2>1. api' \in {NoRequest} \cup RunRequest \cup ExportRequest
    BY <1>0, <1>2 DEF CancelRun, PauseRun, ResumeRun
  <2> QED BY <1>2, <2>1, ApplyRow DEF CancelRun, PauseRun, ResumeRun
<1>3. ASSUME NEW batch \in SUBSET Export, EnqueueExports(batch) PROVE RowInv'
  BY <1>3, EnqueueExportsRow
<1>4. ASSUME NEW x \in Export, CancelExport(x) PROVE RowInv'
  BY <1>0, <1>4, CancelExportAsRow DEF CancelExport
<1>5. ASSUME NEW x \in Export, LoadForCancelExport(x) PROVE RowInv'
  <2>1. api' \in ExportRequest
    BY <1>5 DEF LoadForCancelExport, ExportRequest
  <2> QED BY <1>5, <2>1, OnlyApiRow DEF LoadForCancelExport
<1>6. ASSUME NEW r \in Run, NEW op \in {"cancel", "pause", "resume"}, LoadForRequest(r, op)
      PROVE  RowInv'
  <2>1. api' \in RunRequest
    BY <1>6 DEF LoadForRequest, RunRequest, RowInv, TypeOK, RowsTypeOK
  <2> QED BY <1>6, <2>1, OnlyApiRow DEF LoadForRequest
<1>7. CASE CommitRequest
  <2>1. CASE api.op = "cancel_export"
    <3>1. api.export \in Export
      BY <1>0, <1>7, <2>1 DEF CommitRequest, NoRequest, RunRequest, ExportRequest
    <3> QED BY <1>0, <1>7, <2>1, <3>1, CancelExportAsRow DEF CommitRequest
  <2>2. CASE api.op # "cancel_export"
    <3>1. api.run \in Run
      BY <1>0, <1>7, <2>2 DEF CommitRequest, NoRequest, RunRequest, ExportRequest
    <3> QED BY <1>0, <1>7, <2>2, <3>1, ApplyRow DEF CommitRequest
  <2> QED BY <2>1, <2>2
<1>8. CASE DropRequest
  BY <1>0, <1>8, OnlyApiRow DEF DropRequest
<1> QED BY <1>1, <1>2, <1>3, <1>4, <1>5, <1>6, <1>7, <1>8 DEF Request

\* Every step, with any Races, keeps RowInv.
LEMMA RowStep == RowInv /\ [Next]_vars => RowInv'
<1> SUFFICES ASSUME RowInv, [Next]_vars PROVE RowInv'
  OBVIOUS
<1>1. CASE Request
  BY <1>1, RequestRow
<1>2. ASSUME NEW w \in Worker, Lane(w) PROVE RowInv'
  <2>1. CASE Advance(w)
    BY <2>1, ClaimRunRow, StartRunRow, ObserveControlRow, SessionExpiresRow, AuthWallRow,
       SettleSignalRow, ClearCheckpointRow, FinishRunRow, WorkFailsRow, HandleFailureRow
       DEF Advance
  <2>2. CASE ~Advance(w)
    BY <1>2, <2>2, PickRunRow, PickExportRow, SaveCheckpointRow, ClaimExportRow,
       FinishExportRow, CrashRow DEF Lane, AdvanceExport
  <2> QED BY <2>1, <2>2
<1>3. CASE Environment
  BY <1>3, ReapRow, BackoffElapsesRow, ReapExportRow DEF Environment
<1>4. CASE UNCHANGED vars
  <2>1. UNCHANGED <<rowVars, srcStatus, ckpt, xrowVars, laneVars, xlaneVars, crashes>>
    BY <1>4 DEF vars
  <2>2. api' \in {NoRequest} \cup RunRequest \cup ExportRequest
    BY <1>4 DEF vars, RowInv, TypeOK
  <2> QED BY <2>1, <2>2, OnlyApiRow
<1> QED BY <1>1, <1>2, <1>3, <1>4 DEF Next

\* Rows and lanes are well typed, a source has one active run and claims are
\* exclusive, always and with any Races (queue.py, the unique index).
THEOREM RowInvariance == Spec => []RowInv
  BY RowInit, RowStep, PTL DEF Spec

\* Whatever gaps are let in, every row and lane keeps its type.
THEOREM TypeCorrectness == Spec => []TypeOK
<1>1. RowInv => TypeOK
  BY DEF RowInv
<1> QED BY <1>1, RowInvariance, PTL

\* Whatever gaps are let in, a source has at most one queued or running run.
THEOREM OneActiveRunTheorem == Spec => []OneActiveRun
<1>1. RowInv => OneActiveRun
  BY DEF RowInv
<1> QED BY <1>1, RowInvariance, PTL

\* Whatever gaps are let in, no two claims hold the same row, and a claimed row
\* is pending until the claim commits.
THEOREM ClaimsAreExclusiveTheorem == Spec => []ClaimsAreExclusive
<1>1. RowInv => ClaimsAreExclusive
  BY DEF RowInv
<1> QED BY <1>1, RowInvariance, PTL
-----------------------------------------------------------------------------
(* With overlapping claims let in.  Apart from the claims, a step only lets  *)
(* go: it makes nothing running and takes no lane to a row it did not hold.  *)

LetsGo ==
    /\ \A r \in Run : status'[r] = "running" => status[r] = "running"
    /\ \A x \in Export : xstatus'[x] = "running" => xstatus[x] = "running"
    /\ \A w \in Worker : pc'[w] \in Busy =>
            pc[w] \in Busy /\ job'[w] = job[w] /\ status'[job[w]] = "running"
    /\ \A w \in Worker : pc'[w] = "picked" => pc[w] = "picked" /\ job'[w] = job[w]
    /\ \A w \in Worker : xpc'[w] = "exporting" =>
            xpc[w] = "exporting" /\ xjob'[w] = xjob[w] /\ xstatus'[xjob[w]] = "running"
    /\ \A w \in Worker : xpc'[w] = "picked" => xpc[w] = "picked" /\ xjob'[w] = xjob[w]
    /\ api' = NoRequest

\* A step that only lets lanes go, and stops runs and exports, keeps LockInv.
LEMMA LetsGoLock ==
  ASSUME RowInv, RowInv', LockInv, LetsGo PROVE LockInv'
<1> USE TablesAssumption DEF RowInv, TypeOK, LetsGo, LockInv
<1>1. LaneOwnsRun'
  BY DEF LanesTypeOK, LaneOwnsRun, Busy
<1>2. LaneOwnsExport'
  BY DEF ExportsTypeOK, LaneOwnsExport
<1> QED BY <1>1, <1>2

\* Nor does it bring a run and an export of one source together.
LEMMA LetsGoApart ==
  ASSUME RowInv, ApartInv, LetsGo PROVE ApartInv'
<1> USE TablesAssumption DEF RowInv, TypeOK, LetsGo, ApartInv
<1>1. PicksApart'
  BY DEF LanesTypeOK, ExportsTypeOK, PicksApart, RunningOn, ExportingOn
<1>2. SourceExclusion'
  BY DEF SourceExclusion, RunningOn, ExportingOn
<1> QED BY <1>1, <1>2

\* Inserting a run starts nothing.
LEMMA EnqueueRunLetsGo ==
  ASSUME RowInv, LockInv, NEW r \in Run, EnqueueRun(r) PROVE LetsGo
  BY DEF RowInv, TypeOK, RowsTypeOK, LanesTypeOK, ExportsTypeOK, LockInv, LaneOwnsRun,
         LaneOwnsExport, EnqueueRun, LetsGo, xrowVars, laneVars, xlaneVars, Busy

\* Inserting export jobs starts nothing.
LEMMA EnqueueExportsLetsGo ==
  ASSUME RowInv, LockInv, NEW batch \in SUBSET Export, EnqueueExports(batch) PROVE LetsGo
  BY DEF RowInv, TypeOK, RowsTypeOK, LanesTypeOK, ExportsTypeOK, LockInv, LaneOwnsRun,
         LaneOwnsExport, EnqueueExports, LetsGo, rowVars, laneVars, xlaneVars, Busy

\* A request that finds a run running only leaves a stop request.
LEMMA ApplyLetsGo ==
  ASSUME RowInv, LockInv, NEW r \in Run, NEW op, Apply(op, r, status[r], control[r]),
         api' = NoRequest
  PROVE  LetsGo
  BY DEF RowInv, TypeOK, RowsTypeOK, LanesTypeOK, ExportsTypeOK, LockInv, LaneOwnsRun,
         LaneOwnsExport, Apply, CancelAs, PauseAs, ResumeAs, LetsGo, xrowVars, laneVars,
         xlaneVars, Busy

\* Cancelling an export starts nothing: it lets go at most.
LEMMA CancelExportLetsGo ==
  ASSUME RowInv, LockInv, NEW x \in Export, CancelExport(x) PROVE LetsGo
  BY DEF RowInv, TypeOK, RowsTypeOK, LanesTypeOK, ExportsTypeOK, LockInv, LaneOwnsRun,
         LaneOwnsExport, CancelExport, CancelExportAs, LetsGo, rowVars, laneVars, xlaneVars,
         Busy

\* The start of the work on a run starts nothing: it lets go at most.
LEMMA StartRunLetsGo ==
  ASSUME RowInv, LockInv, NEW w \in Worker, StartRun(w) PROVE LetsGo
  BY DEF RowInv, TypeOK, RowsTypeOK, LanesTypeOK, ExportsTypeOK, LockInv, LaneOwnsRun,
         LaneOwnsExport, LetsGo, Busy, StartRun,
         At, Goto, elsewhere, xrowVars, xlaneVars

\* Saving the checkpoint starts nothing: it lets go at most.
LEMMA SaveCheckpointLetsGo ==
  ASSUME RowInv, LockInv, NEW w \in Worker, SaveCheckpoint(w) PROVE LetsGo
  BY DEF RowInv, TypeOK, RowsTypeOK, LanesTypeOK, ExportsTypeOK, LockInv, LaneOwnsRun,
         LaneOwnsExport, LetsGo, Busy, SaveCheckpoint,
         laneVars, elsewhere, xrowVars, xlaneVars

\* Seeing a stop request starts nothing: it lets go at most.
LEMMA ObserveControlLetsGo ==
  ASSUME RowInv, LockInv, NEW w \in Worker, ObserveControl(w) PROVE LetsGo
  BY DEF RowInv, TypeOK, RowsTypeOK, LanesTypeOK, ExportsTypeOK, LockInv, LaneOwnsRun,
         LaneOwnsExport, LetsGo, Busy, ObserveControl,
         elsewhere, xrowVars, xlaneVars

\* A session that expires (raw_http) starts nothing: it lets go at most.
LEMMA SessionExpiresLetsGo ==
  ASSUME RowInv, LockInv, NEW w \in Worker, SessionExpires(w) PROVE LetsGo
  BY DEF RowInv, TypeOK, RowsTypeOK, LanesTypeOK, ExportsTypeOK, LockInv, LaneOwnsRun,
         LaneOwnsExport, LetsGo, Busy, SessionExpires,
         At, elsewhere, xrowVars, xlaneVars

\* A login wall (other engines) starts nothing: it lets go at most.
LEMMA AuthWallLetsGo ==
  ASSUME RowInv, LockInv, NEW w \in Worker, AuthWall(w) PROVE LetsGo
  BY DEF RowInv, TypeOK, RowsTypeOK, LanesTypeOK, ExportsTypeOK, LockInv, LaneOwnsRun,
         LaneOwnsExport, LetsGo, Busy, AuthWall,
         At, ParkAs, Release, elsewhere, xrowVars, xlaneVars

\* Settling a signal starts nothing: it lets go at most.
LEMMA SettleSignalLetsGo ==
  ASSUME RowInv, LockInv, NEW w \in Worker, SettleSignal(w) PROVE LetsGo
<1>1. \E to \in {"pending", "paused", "cancelled"} : status' = [status EXCEPT ![job[w]] = to]
  <2>1. ASSUME NEW outcome, ParkAs(job[w], outcome)
        PROVE  \E to \in {"pending", "paused", "cancelled"} :
                  status' = [status EXCEPT ![job[w]] = to]
    BY <2>1 DEF ParkAs
  <2> QED BY <2>1 DEF SettleSignal
<1>2. /\ pc[w] = "signalled" /\ Release(w)
      /\ UNCHANGED <<xstatus, xpc, xjob, api>>
  BY DEF SettleSignal, At, elsewhere, xrowVars, xlaneVars
<1> QED BY <1>1, <1>2 DEF RowInv, TypeOK, RowsTypeOK, LanesTypeOK, ExportsTypeOK, LockInv,
                          LaneOwnsRun, LaneOwnsExport, LetsGo, Busy, Release

\* Dropping the checkpoint starts nothing: it lets go at most.
LEMMA ClearCheckpointLetsGo ==
  ASSUME RowInv, LockInv, NEW w \in Worker, ClearCheckpoint(w) PROVE LetsGo
  BY DEF RowInv, TypeOK, RowsTypeOK, LanesTypeOK, ExportsTypeOK, LockInv, LaneOwnsRun,
         LaneOwnsExport, LetsGo, Busy, ClearCheckpoint,
         Goto, elsewhere, xrowVars, xlaneVars

\* The end of a run by its own hand starts nothing: it lets go at most.
LEMMA FinishRunLetsGo ==
  ASSUME RowInv, LockInv, NEW w \in Worker, FinishRun(w) PROVE LetsGo
  BY DEF RowInv, TypeOK, RowsTypeOK, LanesTypeOK, ExportsTypeOK, LockInv, LaneOwnsRun,
         LaneOwnsExport, LetsGo, Busy, FinishRun,
         At, Release, elsewhere, xrowVars, xlaneVars

\* An exception in the work starts nothing: it lets go at most.
LEMMA WorkFailsLetsGo ==
  ASSUME RowInv, LockInv, NEW w \in Worker, WorkFails(w) PROVE LetsGo
  BY DEF RowInv, TypeOK, RowsTypeOK, LanesTypeOK, ExportsTypeOK, LockInv, LaneOwnsRun,
         LaneOwnsExport, LetsGo, Busy, WorkFails,
         Goto, elsewhere, xrowVars, xlaneVars

\* The worker's failure handler starts nothing: it lets go at most.
LEMMA HandleFailureLetsGo ==
  ASSUME RowInv, LockInv, NEW w \in Worker, HandleFailure(w) PROVE LetsGo
  BY DEF RowInv, TypeOK, RowsTypeOK, LanesTypeOK, ExportsTypeOK, LockInv, LaneOwnsRun,
         LaneOwnsExport, LetsGo, Busy, HandleFailure,
         At, Release, xrowVars, xlaneVars

\* The end of an export starts nothing: it lets go at most.
LEMMA FinishExportLetsGo ==
  ASSUME RowInv, LockInv, NEW w \in Worker, FinishExport(w) PROVE LetsGo
  BY DEF RowInv, TypeOK, RowsTypeOK, LanesTypeOK, ExportsTypeOK, LockInv, LaneOwnsRun,
         LaneOwnsExport, LetsGo, Busy, FinishExport,
         rowVars, laneVars

\* A crash starts nothing: it lets go at most.
LEMMA CrashLetsGo ==
  ASSUME RowInv, LockInv, NEW w \in Worker, Crash(w) PROVE LetsGo
  BY DEF RowInv, TypeOK, RowsTypeOK, LanesTypeOK, ExportsTypeOK, LockInv, LaneOwnsRun,
         LaneOwnsExport, LetsGo, Busy, Crash,
         Release, rowVars, xrowVars

\* Reaping a run starts nothing: it lets go at most.
LEMMA ReapLetsGo ==
  ASSUME RowInv, LockInv, Races \subseteq {"claim_skew"}, NEW r \in Run, Reap(r) PROVE LetsGo
  BY DEF RowInv, TypeOK, RowsTypeOK, LanesTypeOK, ExportsTypeOK, LockInv, LaneOwnsRun,
         LaneOwnsExport, LetsGo, Busy, Reap,
         Lost, Beating, xrowVars, laneVars, xlaneVars

\* Reaping an export starts nothing: it lets go at most.
LEMMA ReapExportLetsGo ==
  ASSUME RowInv, LockInv, Races \subseteq {"claim_skew"}, NEW x \in Export, ReapExport(x) PROVE LetsGo
  BY DEF RowInv, TypeOK, RowsTypeOK, LanesTypeOK, ExportsTypeOK, LockInv, LaneOwnsRun,
         LaneOwnsExport, LetsGo, Busy, ReapExport,
         XLost, XBeating, rowVars, laneVars, xlaneVars

\* The end of a retry delay starts nothing: it lets go at most.
LEMMA BackoffElapsesLetsGo ==
  ASSUME RowInv, LockInv, NEW r \in Run, BackoffElapses(r) PROVE LetsGo
  BY DEF RowInv, TypeOK, RowsTypeOK, LanesTypeOK, ExportsTypeOK, LockInv, LaneOwnsRun,
         LaneOwnsExport, LetsGo, Busy, BackoffElapses,
         xrowVars, laneVars, xlaneVars

\* A claim of a run takes a row that no lane has.
LEMMA PickRunLock ==
  ASSUME Races \subseteq {"claim_skew"}, RowInv, RowInv', LockInv, NEW w \in Worker, NEW r \in Run, PickRun(w, r)
  PROVE  LockInv'
<1> USE DEF RowInv, TypeOK, RowsTypeOK, LanesTypeOK, ExportsTypeOK, LockInv, PickRun,
            rowVars, xrowVars, xlaneVars
<1>1. LaneOwnsRun'
  BY DEF LaneOwnsRun, Busy, Claimable
<1>2. LaneOwnsExport'
  BY DEF LaneOwnsExport
<1> QED BY <1>1, <1>2

\* A claim of an export takes a job that no lane has.
LEMMA PickExportLock ==
  ASSUME Races \subseteq {"claim_skew"}, RowInv, RowInv', LockInv, NEW w \in Worker, NEW x \in Export,
         PickExport(w, x)
  PROVE  LockInv'
<1> USE DEF RowInv, TypeOK, RowsTypeOK, LanesTypeOK, ExportsTypeOK, LockInv, PickExport,
            rowVars, xrowVars, laneVars
<1>1. LaneOwnsRun'
  BY DEF LaneOwnsRun, Busy
<1>2. LaneOwnsExport'
  BY DEF LaneOwnsExport, XClaimable
<1> QED BY <1>1, <1>2

\* The claims commit on rows they have locked.
LEMMA ClaimRunLock ==
  ASSUME RowInv, RowInv', LockInv, NEW w \in Worker, ClaimRun(w) PROVE LockInv'
<1> USE TablesAssumption DEF RowInv, TypeOK, LockInv, ClaimRun, Goto, xrowVars, xlaneVars
<1>0. /\ job[w] \in Run /\ SourceOf[job[w]] \in Source
      /\ status' = [status EXCEPT ![job[w]] = "running"]
  BY LaneHolds
<1>1. LaneOwnsRun'
  BY <1>0 DEF RowsTypeOK, LanesTypeOK, LaneOwnsRun, ClaimsAreExclusive, Busy
<1>2. LaneOwnsExport'
  BY DEF LaneOwnsExport
<1> QED BY <1>1, <1>2

\* The same of the claim of an export.
LEMMA ClaimExportLock ==
  ASSUME RowInv, RowInv', LockInv, NEW w \in Worker, ClaimExport(w) PROVE LockInv'
<1> USE TablesAssumption DEF RowInv, TypeOK, LockInv, ClaimExport, rowVars, laneVars
<1>0. xjob[w] \in Export
  BY DEF ExportsTypeOK
<1>1. LaneOwnsRun'
  BY DEF LaneOwnsRun
<1>2. LaneOwnsExport'
  BY <1>0 DEF ExportsTypeOK, LaneOwnsExport, ClaimsAreExclusive
<1> QED BY <1>1, <1>2

\* With no stale request, the API only lets go.
LEMMA RequestLetsGo ==
  ASSUME Races \subseteq {"claim_skew"}, RowInv, LockInv, Request PROVE LetsGo
<1>1. ASSUME NEW r \in Run, EnqueueRun(r) PROVE LetsGo
  BY <1>1, EnqueueRunLetsGo
<1>2. ASSUME NEW r \in Run, CancelRun(r) \/ PauseRun(r) \/ ResumeRun(r) PROVE LetsGo
  BY <1>2, ApplyLetsGo DEF LockInv, CancelRun, PauseRun, ResumeRun
<1>3. ASSUME NEW batch \in SUBSET Export, EnqueueExports(batch) PROVE LetsGo
  BY <1>3, EnqueueExportsLetsGo
<1>4. ASSUME NEW x \in Export, CancelExport(x) PROVE LetsGo
  BY <1>4, CancelExportLetsGo
<1>5. /\ \A x \in Export : ~LoadForCancelExport(x)
      /\ \A r \in Run, op \in {"cancel", "pause", "resume"} : ~LoadForRequest(r, op)
      /\ ~CommitRequest
      /\ ~DropRequest
  BY DEF LockInv, LoadForCancelExport, LoadForRequest, CommitRequest, DropRequest
<1> QED BY <1>1, <1>2, <1>3, <1>4, <1>5 DEF Request

\* With overlapping claims let in, a worker keeps LockInv.
LEMMA LaneLock ==
  ASSUME Races \subseteq {"claim_skew"}, RowInv, RowInv', LockInv, NEW w \in Worker, Lane(w) PROVE LockInv'
<1>1. CASE \E r \in Run : PickRun(w, r)
  BY <1>1, PickRunLock
<1>2. CASE \E x \in Export : PickExport(w, x)
  BY <1>2, PickExportLock
<1>3. CASE Advance(w)
  BY <1>3, LetsGoLock, ClaimRunLock, StartRunLetsGo, ObserveControlLetsGo,
     SessionExpiresLetsGo, AuthWallLetsGo, SettleSignalLetsGo, ClearCheckpointLetsGo,
     FinishRunLetsGo, WorkFailsLetsGo, HandleFailureLetsGo DEF Advance
<1>4. CASE SaveCheckpoint(w) \/ Crash(w)
  BY <1>4, LetsGoLock, SaveCheckpointLetsGo, CrashLetsGo
<1>5. CASE AdvanceExport(w)
  BY <1>5, LetsGoLock, ClaimExportLock, FinishExportLetsGo DEF AdvanceExport
<1> QED BY <1>1, <1>2, <1>3, <1>4, <1>5 DEF Lane

\* So does every step.
LEMMA LockStep ==
  ASSUME Races \subseteq {"claim_skew"} PROVE RowInv /\ RowInv' /\ LockInv /\ [Next]_vars => LockInv'
<1> SUFFICES ASSUME RowInv, RowInv', LockInv, [Next]_vars PROVE LockInv'
  OBVIOUS
<1>1. CASE Request
  BY <1>1, RequestLetsGo, LetsGoLock
<1>2. CASE \E w \in Worker : Lane(w)
  BY <1>2, LaneLock
<1>3. CASE Environment
  BY <1>3, LetsGoLock, ReapLetsGo, BackoffElapsesLetsGo, ReapExportLetsGo DEF Environment
<1>4. CASE UNCHANGED vars
  BY <1>4 DEF vars, rowVars, xrowVars, laneVars, xlaneVars, LockInv, LaneOwnsRun,
              LaneOwnsExport
<1> QED BY <1>1, <1>2, <1>3, <1>4 DEF Next

\* Nothing runs at first, so LockInv holds.
LEMMA LockInit == Init => LockInv
  BY DEF Init, LockInv, LaneOwnsRun, LaneOwnsExport, Busy

\* Lanes own what they work on (claim_next_run, claim_next_export), even when the two
\* claims of a source overlap, as long as requests do not straddle other commits and
\* heartbeats are on time.
THEOREM LockInvariance == ASSUME Races \subseteq {"claim_skew"} PROVE Spec => []LockInv
<1>1. RowInv /\ RowInv' /\ LockInv /\ [Next]_vars => LockInv'
  BY LockStep
<1> QED BY <1>1, LockInit, RowInvariance, PTL DEF Spec

\* Under the same assumption a lane never works on a run that is not its own.
THEOREM LaneOwnsRunTheorem == ASSUME Races \subseteq {"claim_skew"} PROVE Spec => []LaneOwnsRun
<1>1. LockInv => LaneOwnsRun
  BY DEF LockInv
<1> QED BY <1>1, LockInvariance, PTL

\* Nor does an export lane ever write an export that is not its own.
THEOREM LaneOwnsExportTheorem == ASSUME Races \subseteq {"claim_skew"} PROVE Spec => []LaneOwnsExport
<1>1. LockInv => LaneOwnsExport
  BY DEF LockInv
<1> QED BY <1>1, LockInvariance, PTL
-----------------------------------------------------------------------------
(* What can bring a run and an export of one source together.               *)

\* A claim's select sees nothing of the other kind at work on its source.
LEMMA PicksKeepApart ==
  ASSUME RowInv, ApartInv, NEW w \in Worker,
         (\E r \in Run : PickRun(w, r)) \/ (\E x \in Export : PickExport(w, x))
  PROVE  ApartInv'
<1>1. ASSUME NEW r \in Run, PickRun(w, r) PROVE ApartInv'
  BY <1>1 DEF RowInv, TypeOK, LanesTypeOK, ApartInv, PickRun, PicksApart, Claimable,
     SourceExclusion, RunningOn, ExportingOn, rowVars, xrowVars, xlaneVars
<1>2. ASSUME NEW x \in Export, PickExport(w, x) PROVE ApartInv'
  BY <1>2 DEF RowInv, TypeOK, ExportsTypeOK, ApartInv, PickExport, PicksApart, XClaimable,
     SourceExclusion, RunningOn, ExportingOn, rowVars, xrowVars, laneVars
<1> QED BY <1>1, <1>2

\* A claim that no other overlaps commits on a snapshot that is still true.
LEMMA ClaimRunApart ==
  ASSUME RowInv, ApartInv, ~ClaimsOverlap, NEW w \in Worker, ClaimRun(w) PROVE ApartInv'
<1> USE TablesAssumption DEF RowInv, TypeOK, ApartInv, ClaimRun, Goto, xrowVars, xlaneVars
<1>0. /\ job[w] \in Run /\ SourceOf[job[w]] \in Source
      /\ status' = [status EXCEPT ![job[w]] = "running"]
      /\ ExportingOn(SourceOf[job[w]]) = {}
  BY LaneHolds DEF PicksApart
<1>1. PicksApart'
  BY <1>0 DEF RowsTypeOK, LanesTypeOK, ExportsTypeOK, PicksApart, ClaimsOverlap,
          RunningOn, ExportingOn
<1>2. SourceExclusion'
  BY <1>0 DEF RowsTypeOK, SourceExclusion, RunningOn, ExportingOn
<1> QED BY <1>1, <1>2

\* The same of the claim of an export: no run has started on its source.
LEMMA ClaimExportApart ==
  ASSUME RowInv, ApartInv, ~ClaimsOverlap, NEW w \in Worker, ClaimExport(w) PROVE ApartInv'
<1> USE TablesAssumption DEF RowInv, TypeOK, ApartInv, ClaimExport, rowVars, laneVars
<1>0. /\ xjob[w] \in Export /\ XSourceOf[xjob[w]] \in Source
      /\ RunningOn(XSourceOf[xjob[w]]) = {}
  BY DEF ExportsTypeOK, PicksApart
<1>1. PicksApart'
  BY <1>0 DEF LanesTypeOK, ExportsTypeOK, PicksApart, ClaimsOverlap, RunningOn,
          ExportingOn
<1>2. SourceExclusion'
  BY <1>0 DEF ExportsTypeOK, SourceExclusion, RunningOn, ExportingOn
<1> QED BY <1>1, <1>2

\* Every step keeps runs and exports apart, but one from a state in which two claims
\* of a source are open.
LEMMA ApartStep ==
  ASSUME Races \subseteq {"claim_skew"}
  PROVE  RowInv /\ LockInv /\ ApartInv /\ ~ClaimsOverlap /\ [Next]_vars => ApartInv'
<1> SUFFICES ASSUME RowInv, LockInv, ApartInv, ~ClaimsOverlap, [Next]_vars PROVE ApartInv'
  OBVIOUS
<1>1. CASE Request
  BY <1>1, RequestLetsGo, LetsGoApart
<1>2. ASSUME NEW w \in Worker, Lane(w) PROVE ApartInv'
  <2>1. CASE (\E r \in Run : PickRun(w, r)) \/ (\E x \in Export : PickExport(w, x))
    BY <2>1, PicksKeepApart
  <2>2. CASE Advance(w)
    BY <2>2, LetsGoApart, ClaimRunApart, StartRunLetsGo, ObserveControlLetsGo,
       SessionExpiresLetsGo, AuthWallLetsGo, SettleSignalLetsGo, ClearCheckpointLetsGo,
       FinishRunLetsGo, WorkFailsLetsGo, HandleFailureLetsGo DEF Advance
  <2>3. CASE SaveCheckpoint(w) \/ Crash(w)
    BY <2>3, LetsGoApart, SaveCheckpointLetsGo, CrashLetsGo
  <2>4. CASE AdvanceExport(w)
    BY <2>4, LetsGoApart, ClaimExportApart, FinishExportLetsGo DEF AdvanceExport
  <2> QED BY <1>2, <2>1, <2>2, <2>3, <2>4 DEF Lane
<1>3. CASE Environment
  BY <1>3, LetsGoApart, ReapLetsGo, BackoffElapsesLetsGo, ReapExportLetsGo DEF Environment
<1>4. CASE UNCHANGED vars
  BY <1>4 DEF vars, rowVars, xrowVars, laneVars, xlaneVars, ApartInv, PicksApart,
              SourceExclusion, RunningOn, ExportingOn
<1> QED BY <1>1, <1>2, <1>3, <1>4 DEF Next

\* Nothing runs at first.
LEMMA ApartInit == Init => ApartInv
  BY DEF Init, ApartInv, PicksApart, SourceExclusion, RunningOn, ExportingOn

\* Overlapping claims are let in: a run and an export of one source never are RUNNING
\* together, unless two claims of one source were open at once.  Crashes, reapers,
\* requeues, pauses and resumes cannot bring that about (claim_next_run and
\* claim_next_export under READ COMMITTED).
THEOREM ExclusionUnlessOverlap ==
  ASSUME Races \subseteq {"claim_skew"}
  PROVE  Spec => []SourceExclusion \/ <>ClaimsOverlap
<1>1. RowInv /\ LockInv /\ ApartInv /\ ~ClaimsOverlap /\ [Next]_vars => ApartInv'
  BY ApartStep
<1>2. ApartInv => SourceExclusion
  BY DEF ApartInv
<1> QED BY <1>1, <1>2, ApartInit, RowInvariance, LockInvariance, PTL DEF Spec
-----------------------------------------------------------------------------
(* How often a run is claimed.  A requeue that waits to be handled already   *)
(* counts as queued: the re-login it follows is spent.                       *)

RequeueBelowCap ==
    \A w \in Worker : pc[w] = "signalled" /\ sig[w] = "requeue"
                          => attempts[job[w]] < Cap(job[w])

AbsentUnclaimed == \A r \in Run : status[r] = "absent" => attempts[r] = 0

ClaimInv == AttemptsBounded /\ RequeueBelowCap /\ AbsentUnclaimed

\* Inserting a run keeps ClaimInv.
LEMMA EnqueueRunClaims ==
  ASSUME RowInv, LockInv, ClaimInv, NEW r \in Run, EnqueueRun(r) PROVE ClaimInv'
  BY BoundsAssumption DEF RowInv, TypeOK, RowsTypeOK, LanesTypeOK, SignalIsStop,
         LockInv, LaneOwnsRun, ClaimInv, AttemptsBounded, RequeueBelowCap, AbsentUnclaimed, Cap,
         Busy, EnqueueRun,
         laneVars

\* Inserting export jobs keeps ClaimInv.
LEMMA EnqueueExportsClaims ==
  ASSUME RowInv, LockInv, ClaimInv, NEW batch \in SUBSET Export, EnqueueExports(batch) PROVE ClaimInv'
  BY BoundsAssumption DEF RowInv, TypeOK, RowsTypeOK, LanesTypeOK, SignalIsStop,
         LockInv, LaneOwnsRun, ClaimInv, AttemptsBounded, RequeueBelowCap, AbsentUnclaimed, Cap,
         Busy, EnqueueExports,
         rowVars, laneVars

\* Selecting and locking a run keeps ClaimInv.
LEMMA PickRunClaims ==
  ASSUME RowInv, LockInv, ClaimInv, NEW w \in Worker, NEW r \in Run, PickRun(w, r) PROVE ClaimInv'
  BY BoundsAssumption DEF RowInv, TypeOK, RowsTypeOK, LanesTypeOK, SignalIsStop,
         LockInv, LaneOwnsRun, ClaimInv, AttemptsBounded, RequeueBelowCap, AbsentUnclaimed, Cap,
         Busy, PickRun,
         rowVars

\* Committing the claim of a run keeps ClaimInv.
LEMMA ClaimRunClaims ==
  ASSUME RowInv, LockInv, ClaimInv, NEW w \in Worker, ClaimRun(w) PROVE ClaimInv'
  BY BoundsAssumption DEF RowInv, TypeOK, RowsTypeOK, LanesTypeOK, SignalIsStop,
         LockInv, LaneOwnsRun, ClaimInv, AttemptsBounded, RequeueBelowCap, AbsentUnclaimed, Cap,
         Busy, ClaimRun,
         Goto, ClaimsAreExclusive

\* Selecting and locking an export keeps ClaimInv.
LEMMA PickExportClaims ==
  ASSUME RowInv, LockInv, ClaimInv, NEW w \in Worker, NEW x \in Export, PickExport(w, x) PROVE ClaimInv'
  BY BoundsAssumption DEF RowInv, TypeOK, RowsTypeOK, LanesTypeOK, SignalIsStop,
         LockInv, LaneOwnsRun, ClaimInv, AttemptsBounded, RequeueBelowCap, AbsentUnclaimed, Cap,
         Busy, PickExport,
         rowVars, laneVars

\* Committing the claim of an export keeps ClaimInv.
LEMMA ClaimExportClaims ==
  ASSUME RowInv, LockInv, ClaimInv, NEW w \in Worker, ClaimExport(w) PROVE ClaimInv'
  BY BoundsAssumption DEF RowInv, TypeOK, RowsTypeOK, LanesTypeOK, SignalIsStop,
         LockInv, LaneOwnsRun, ClaimInv, AttemptsBounded, RequeueBelowCap, AbsentUnclaimed, Cap,
         Busy, ClaimExport,
         rowVars, laneVars

\* The end of an export keeps ClaimInv.
LEMMA FinishExportClaims ==
  ASSUME RowInv, LockInv, ClaimInv, NEW w \in Worker, FinishExport(w) PROVE ClaimInv'
  BY BoundsAssumption DEF RowInv, TypeOK, RowsTypeOK, LanesTypeOK, SignalIsStop,
         LockInv, LaneOwnsRun, ClaimInv, AttemptsBounded, RequeueBelowCap, AbsentUnclaimed, Cap,
         Busy, FinishExport,
         rowVars, laneVars

\* The start of the work on a run keeps ClaimInv.
LEMMA StartRunClaims ==
  ASSUME RowInv, LockInv, ClaimInv, NEW w \in Worker, StartRun(w) PROVE ClaimInv'
  BY BoundsAssumption DEF RowInv, TypeOK, RowsTypeOK, LanesTypeOK, SignalIsStop,
         LockInv, LaneOwnsRun, ClaimInv, AttemptsBounded, RequeueBelowCap, AbsentUnclaimed, Cap,
         Busy, StartRun,
         At, Goto, elsewhere

\* Saving the checkpoint keeps ClaimInv.
LEMMA SaveCheckpointClaims ==
  ASSUME RowInv, LockInv, ClaimInv, NEW w \in Worker, SaveCheckpoint(w) PROVE ClaimInv'
  BY BoundsAssumption DEF RowInv, TypeOK, RowsTypeOK, LanesTypeOK, SignalIsStop,
         LockInv, LaneOwnsRun, ClaimInv, AttemptsBounded, RequeueBelowCap, AbsentUnclaimed, Cap,
         Busy, SaveCheckpoint,
         laneVars, elsewhere

\* Seeing a stop request keeps ClaimInv.
LEMMA ObserveControlClaims ==
  ASSUME RowInv, LockInv, ClaimInv, NEW w \in Worker, ObserveControl(w) PROVE ClaimInv'
  BY BoundsAssumption DEF RowInv, TypeOK, RowsTypeOK, LanesTypeOK, SignalIsStop,
         LockInv, LaneOwnsRun, ClaimInv, AttemptsBounded, RequeueBelowCap, AbsentUnclaimed, Cap,
         Busy, ObserveControl, Control, elsewhere

\* A session that expires (raw_http) keeps ClaimInv.
LEMMA SessionExpiresClaims ==
  ASSUME RowInv, LockInv, ClaimInv, NEW w \in Worker, SessionExpires(w) PROVE ClaimInv'
  BY BoundsAssumption DEF RowInv, TypeOK, RowsTypeOK, LanesTypeOK, SignalIsStop,
         LockInv, LaneOwnsRun, ClaimInv, AttemptsBounded, RequeueBelowCap, AbsentUnclaimed, Cap,
         Busy, SessionExpires,
         At, Outcome, TryRelogin, elsewhere

\* A login wall (other engines) keeps ClaimInv.
LEMMA AuthWallClaims ==
  ASSUME RowInv, LockInv, ClaimInv, NEW w \in Worker, AuthWall(w) PROVE ClaimInv'
  BY BoundsAssumption DEF RowInv, TypeOK, RowsTypeOK, LanesTypeOK, SignalIsStop,
         LockInv, LaneOwnsRun, ClaimInv, AttemptsBounded, RequeueBelowCap, AbsentUnclaimed, Cap,
         Busy, AuthWall,
         At, Outcome, TryRelogin, ParkAs, Release, elsewhere

\* Settling a signal keeps ClaimInv.
LEMMA SettleSignalClaims ==
  ASSUME RowInv, LockInv, ClaimInv, NEW w \in Worker, SettleSignal(w) PROVE ClaimInv'
  BY BoundsAssumption DEF RowInv, TypeOK, RowsTypeOK, LanesTypeOK, SignalIsStop,
         LockInv, LaneOwnsRun, ClaimInv, AttemptsBounded, RequeueBelowCap, AbsentUnclaimed, Cap,
         Busy, SettleSignal,
         At, Outcome, ParkAs, Release, elsewhere

\* Dropping the checkpoint keeps ClaimInv.
LEMMA ClearCheckpointClaims ==
  ASSUME RowInv, LockInv, ClaimInv, NEW w \in Worker, ClearCheckpoint(w) PROVE ClaimInv'
  BY BoundsAssumption DEF RowInv, TypeOK, RowsTypeOK, LanesTypeOK, SignalIsStop,
         LockInv, LaneOwnsRun, ClaimInv, AttemptsBounded, RequeueBelowCap, AbsentUnclaimed, Cap,
         Busy, ClearCheckpoint,
         Goto, elsewhere

\* The end of a run by its own hand keeps ClaimInv.
LEMMA FinishRunClaims ==
  ASSUME RowInv, LockInv, ClaimInv, NEW w \in Worker, FinishRun(w) PROVE ClaimInv'
  BY BoundsAssumption DEF RowInv, TypeOK, RowsTypeOK, LanesTypeOK, SignalIsStop,
         LockInv, LaneOwnsRun, ClaimInv, AttemptsBounded, RequeueBelowCap, AbsentUnclaimed, Cap,
         Busy, FinishRun,
         At, Release, elsewhere

\* An exception in the work keeps ClaimInv.
LEMMA WorkFailsClaims ==
  ASSUME RowInv, LockInv, ClaimInv, NEW w \in Worker, WorkFails(w) PROVE ClaimInv'
  BY BoundsAssumption DEF RowInv, TypeOK, RowsTypeOK, LanesTypeOK, SignalIsStop,
         LockInv, LaneOwnsRun, ClaimInv, AttemptsBounded, RequeueBelowCap, AbsentUnclaimed, Cap,
         Busy, WorkFails,
         Goto, elsewhere

\* The worker's failure handler keeps ClaimInv.
LEMMA HandleFailureClaims ==
  ASSUME RowInv, LockInv, ClaimInv, NEW w \in Worker, HandleFailure(w) PROVE ClaimInv'
  BY BoundsAssumption DEF RowInv, TypeOK, RowsTypeOK, LanesTypeOK, SignalIsStop,
         LockInv, LaneOwnsRun, ClaimInv, AttemptsBounded, RequeueBelowCap, AbsentUnclaimed, Cap,
         Busy, HandleFailure,
         At, MayRetry, Release

\* A crash keeps ClaimInv.
LEMMA CrashClaims ==
  ASSUME RowInv, LockInv, ClaimInv, NEW w \in Worker, Crash(w) PROVE ClaimInv'
  BY BoundsAssumption DEF RowInv, TypeOK, RowsTypeOK, LanesTypeOK, SignalIsStop,
         LockInv, LaneOwnsRun, ClaimInv, AttemptsBounded, RequeueBelowCap, AbsentUnclaimed, Cap,
         Busy, Crash,
         Release, rowVars

\* Reaping a run keeps ClaimInv.
LEMMA ReapClaims ==
  ASSUME RowInv, LockInv, ClaimInv, Races \subseteq {"claim_skew"}, NEW r \in Run, Reap(r) PROVE ClaimInv'
  BY BoundsAssumption DEF RowInv, TypeOK, RowsTypeOK, LanesTypeOK, SignalIsStop,
         LockInv, LaneOwnsRun, ClaimInv, AttemptsBounded, RequeueBelowCap, AbsentUnclaimed, Cap,
         Busy, Reap,
         Lost, Beating, laneVars

\* Reaping an export keeps ClaimInv.
LEMMA ReapExportClaims ==
  ASSUME RowInv, LockInv, ClaimInv, NEW x \in Export, ReapExport(x) PROVE ClaimInv'
  BY BoundsAssumption DEF RowInv, TypeOK, RowsTypeOK, LanesTypeOK, SignalIsStop,
         LockInv, LaneOwnsRun, ClaimInv, AttemptsBounded, RequeueBelowCap, AbsentUnclaimed, Cap,
         Busy, ReapExport,
         rowVars, laneVars

\* The end of a retry delay keeps ClaimInv.
LEMMA BackoffElapsesClaims ==
  ASSUME RowInv, LockInv, ClaimInv, NEW r \in Run, BackoffElapses(r) PROVE ClaimInv'
  BY BoundsAssumption DEF RowInv, TypeOK, RowsTypeOK, LanesTypeOK, SignalIsStop,
         LockInv, LaneOwnsRun, ClaimInv, AttemptsBounded, RequeueBelowCap, AbsentUnclaimed, Cap,
         Busy, BackoffElapses,
         laneVars

\* A resumed run may be claimed once more; no other request queues a run.
LEMMA ApplyClaims ==
  ASSUME RowInv, LockInv, ClaimInv, NEW r \in Run, NEW op,
         Apply(op, r, status[r], control[r])
  PROVE  ClaimInv'
  BY BoundsAssumption DEF RowInv, TypeOK, RowsTypeOK, LanesTypeOK, SignalIsStop, LockInv,
         LaneOwnsRun, ClaimInv, AttemptsBounded, RequeueBelowCap, AbsentUnclaimed, Cap, Busy,
         Apply, CancelAs, PauseAs, ResumeAs, laneVars

\* With overlapping claims let in, every step keeps ClaimInv.
LEMMA ClaimStep ==
  ASSUME Races \subseteq {"claim_skew"} PROVE RowInv /\ LockInv /\ ClaimInv /\ [Next]_vars => ClaimInv'
<1> SUFFICES ASSUME RowInv, LockInv, ClaimInv, [Next]_vars PROVE ClaimInv'
  OBVIOUS
<1>1. ASSUME NEW r \in Run, EnqueueRun(r) \/ CancelRun(r) \/ PauseRun(r) \/ ResumeRun(r)
      PROVE  ClaimInv'
  BY <1>1, EnqueueRunClaims, ApplyClaims DEF CancelRun, PauseRun, ResumeRun
<1>2. ASSUME NEW batch \in SUBSET Export, EnqueueExports(batch) PROVE ClaimInv'
  BY <1>2, EnqueueExportsClaims
<1>3. CASE UNCHANGED <<rowVars, laneVars>>
  BY <1>3 DEF rowVars, laneVars, ClaimInv, AttemptsBounded, RequeueBelowCap, AbsentUnclaimed, Cap
<1>4. CASE Request
  <2>1. ASSUME NEW x \in Export, CancelExport(x) PROVE UNCHANGED <<rowVars, laneVars>>
    BY <2>1 DEF CancelExport, CancelExportAs
  <2>2. /\ \A x \in Export : ~LoadForCancelExport(x)
        /\ \A r \in Run, op \in {"cancel", "pause", "resume"} : ~LoadForRequest(r, op)
        /\ ~CommitRequest
        /\ ~DropRequest
    BY DEF LockInv, LoadForCancelExport, LoadForRequest, CommitRequest, DropRequest
  <2> QED BY <1>1, <1>2, <1>3, <1>4, <2>1, <2>2 DEF Request
<1>5. ASSUME NEW w \in Worker, Lane(w) PROVE ClaimInv'
  <2>1. CASE Advance(w)
    BY <2>1, ClaimRunClaims, StartRunClaims, ObserveControlClaims, SessionExpiresClaims,
       AuthWallClaims, SettleSignalClaims, ClearCheckpointClaims, FinishRunClaims,
       WorkFailsClaims, HandleFailureClaims DEF Advance
  <2>2. CASE ~Advance(w)
    BY <1>5, <2>2, PickRunClaims, PickExportClaims, SaveCheckpointClaims, ClaimExportClaims,
       FinishExportClaims, CrashClaims DEF Lane, AdvanceExport
  <2> QED BY <2>1, <2>2
<1>6. CASE Environment
  BY <1>6, ReapClaims, BackoffElapsesClaims, ReapExportClaims DEF Environment
<1>7. CASE UNCHANGED vars
  BY <1>3, <1>7 DEF vars
<1> QED BY <1>4, <1>5, <1>6, <1>7 DEF Next

\* Nothing was claimed at first, so ClaimInv holds.
LEMMA ClaimInit == Init => ClaimInv
  BY BoundsAssumption DEF Init, ClaimInv, AttemptsBounded, RequeueBelowCap, AbsentUnclaimed,
         Cap, Busy

\* With overlapping claims let in, the two caps on attempts bound the claims of a run: one more
\* for each resume and one more for the re-login it may spend.
THEOREM AttemptsBoundedTheorem == ASSUME Races \subseteq {"claim_skew"} PROVE Spec => []AttemptsBounded
<1>1. RowInv /\ LockInv /\ ClaimInv /\ [Next]_vars => ClaimInv'
  BY ClaimStep
<1>2. ClaimInv => AttemptsBounded
  BY DEF ClaimInv
<1> QED BY <1>1, <1>2, ClaimInit, LockInvariance, RowInvariance, PTL DEF Spec

-----------------------------------------------------------------------------
(* RunQueue implements SourceLock: claims acquire, and whatever takes a row  *)
(* out of RUNNING releases.                                                  *)

\* OneOf chooses the only member of a set that has one.
LEMMA OneOfIs == OneOf({}) = NoRun /\ \A r : OneOf({r}) = r
  BY DEF OneOf

\* The writer of a source is its running run, if it has one.
LEMMA WriterIs ==
  ASSUME RowInv, NEW r \in Run, status[r] = "running"
  PROVE  Writer[SourceOf[r]] = r
<1>1. RunningOn(SourceOf[r]) = {r}
  BY DEF RowInv, OneActiveRun, RunningOn, Active
<1>2. SourceOf[r] \in Source
  BY TablesAssumption
<1> QED BY <1>1, <1>2, OneOfIs DEF Writer

\* A step that changes neither what runs nor what is exported is a stutter of
\* SourceLock.
LEMMA SameLock ==
  ASSUME \A r \in Run : status'[r] = "running" <=> status[r] = "running",
         \A x \in Export : xstatus'[x] = "running" <=> xstatus[x] = "running"
  PROVE  UNCHANGED Lock!lockVars
<1>1. \A s : RunningOn(s)' = RunningOn(s) /\ ExportingOn(s)' = ExportingOn(s)
  BY DEF RunningOn, ExportingOn
<1> QED BY <1>1 DEF Lock!lockVars, Writer, Readers

\* A running run that stops running is a ReleaseWrite of SourceLock.
LEMMA RunEnds ==
  ASSUME RowInv, NEW r \in Run, NEW to, to # "running",
         status' = [status EXCEPT ![r] = to], UNCHANGED xstatus
  PROVE  [Lock!Next]_(Lock!lockVars)
<1> USE DEF RowInv, TypeOK, RowsTypeOK
<1>1. CASE status[r] # "running"
  BY <1>1, SameLock
<1>2. CASE status[r] = "running"
  <2>1. \A s \in Source : RunningOn(s)' = RunningOn(s) \ {r}
    BY DEF RunningOn
  <2>2. \A s \in Source : RunningOn(s)' = IF s = SourceOf[r] THEN {} ELSE RunningOn(s)
    BY <1>2, <2>1 DEF RunningOn, OneActiveRun, Active
  <2>3. Writer' = [Writer EXCEPT ![SourceOf[r]] = NoRun]
    BY <2>2, OneOfIs DEF Writer
  <2>4. UNCHANGED Readers
    BY DEF Readers, ExportingOn
  <2> QED BY <1>2, <2>3, <2>4, WriterIs DEF Lock!Next, Lock!ReleaseWrite
<1> QED BY <1>1, <1>2

\* A run that starts running while its source is free is an AcquireWrite.
LEMMA RunBegins ==
  ASSUME RowInv, ApartInv, NEW w \in Worker, ClaimRun(w)
  PROVE  [Lock!Next]_(Lock!lockVars)
<1> DEFINE r == job[w]
<1>1. /\ r \in Run /\ SourceOf[r] \in Source /\ status[r] = "pending"
      /\ status' = [status EXCEPT ![r] = "running"] /\ UNCHANGED xstatus
      /\ ExportingOn(SourceOf[r]) = {}
  BY LaneHolds DEF RowInv, ApartInv, PicksApart, ClaimsAreExclusive, ClaimRun, xrowVars
<1>2. RunningOn(SourceOf[r]) = {}
  BY <1>1 DEF RowInv, OneActiveRun, RunningOn, Active
<1>3. \A s \in Source : RunningOn(s)' = IF s = SourceOf[r] THEN {r} ELSE RunningOn(s)
  BY <1>1, <1>2 DEF RowInv, TypeOK, RowsTypeOK, RunningOn
<1>4. Writer' = [Writer EXCEPT ![SourceOf[r]] = r]
  BY <1>3, OneOfIs DEF Writer
<1>5. UNCHANGED Readers
  BY <1>1 DEF Readers, ExportingOn
<1>6. Writer[SourceOf[r]] = NoRun /\ Readers[SourceOf[r]] = {}
  BY <1>1, <1>2, OneOfIs DEF Writer, Readers
<1> QED BY <1>1, <1>4, <1>5, <1>6 DEF Lock!Next, Lock!AcquireWrite

\* A running export that stops running is a ReleaseRead.
LEMMA ExportEnds ==
  ASSUME RowInv, NEW x \in Export, NEW to, to # "running",
         xstatus' = [xstatus EXCEPT ![x] = to], UNCHANGED status
  PROVE  [Lock!Next]_(Lock!lockVars)
<1> USE DEF RowInv, TypeOK, ExportsTypeOK
<1>1. CASE xstatus[x] # "running"
  BY <1>1, SameLock
<1>2. CASE xstatus[x] = "running"
  <2>1. Readers' = [Readers EXCEPT ![XSourceOf[x]] = @ \ {x}]
    BY TablesAssumption DEF Readers, ExportingOn
  <2>2. UNCHANGED Writer
    BY DEF Writer, RunningOn
  <2>3. x \in Readers[XSourceOf[x]]
    BY <1>2, TablesAssumption DEF Readers, ExportingOn
  <2> QED BY <2>1, <2>2, <2>3 DEF Lock!Next, Lock!ReleaseRead
<1> QED BY <1>1, <1>2

\* An export that starts while no run of its source runs is an AcquireRead.
LEMMA ExportBegins ==
  ASSUME RowInv, ApartInv, NEW w \in Worker, ClaimExport(w)
  PROVE  [Lock!Next]_(Lock!lockVars)
<1> DEFINE x == xjob[w]
<1>1. /\ x \in Export /\ XSourceOf[x] \in Source /\ xstatus[x] = "pending"
      /\ xstatus' = [xstatus EXCEPT ![x] = "running"] /\ UNCHANGED status
      /\ RunningOn(XSourceOf[x]) = {}
  BY TablesAssumption DEF RowInv, TypeOK, ExportsTypeOK, ApartInv, PicksApart,
     ClaimsAreExclusive, ClaimExport, rowVars
<1>2. Readers' = [Readers EXCEPT ![XSourceOf[x]] = @ \cup {x}]
  <2>1. \A s \in Source : ExportingOn(s)' =
           IF s = XSourceOf[x] THEN ExportingOn(s) \cup {x} ELSE ExportingOn(s)
    BY <1>1 DEF RowInv, TypeOK, ExportsTypeOK, ExportingOn
  <2> QED  BY <1>1, <2>1 DEF Readers
<1>3. UNCHANGED Writer
  BY <1>1 DEF Writer, RunningOn
<1>4. Writer[XSourceOf[x]] = NoRun /\ x \notin Readers[XSourceOf[x]]
  BY <1>1, OneOfIs DEF Writer, Readers, ExportingOn
<1> QED BY <1>1, <1>2, <1>3, <1>4 DEF Lock!Next, Lock!AcquireRead

\* The API never takes or releases the lock: every request is a stutter.
LEMMA RequestImplements ==
  ASSUME Races \subseteq {"claim_skew"}, RowInv, LockInv, Request PROVE [Lock!Next]_(Lock!lockVars)
<1>1. ASSUME NEW r \in Run, EnqueueRun(r) PROVE [Lock!Next]_(Lock!lockVars)
  BY <1>1, RunEnds DEF EnqueueRun, xrowVars
<1>2. ASSUME NEW r \in Run, NEW op, Apply(op, r, status[r], control[r])
      PROVE  [Lock!Next]_(Lock!lockVars)
  <2>1. UNCHANGED xstatus
    BY <1>2 DEF Apply, xrowVars
  <2>2. UNCHANGED status \/ \E to \in {"cancelled", "paused", "pending"} :
                               status' = [status EXCEPT ![r] = to]
    BY <1>2 DEF Apply, CancelAs, PauseAs, ResumeAs
  <2> QED BY <2>1, <2>2, RunEnds, SameLock
<1>3. ASSUME NEW batch \in SUBSET Export, EnqueueExports(batch)
      PROVE  [Lock!Next]_(Lock!lockVars)
  BY <1>3, SameLock DEF EnqueueExports, rowVars, RowInv, TypeOK, ExportsTypeOK
<1>4. ASSUME NEW x \in Export, CancelExport(x) PROVE [Lock!Next]_(Lock!lockVars)
  BY <1>4, ExportEnds DEF CancelExport, CancelExportAs, rowVars
<1>5. /\ \A x \in Export : ~LoadForCancelExport(x)
      /\ \A r \in Run, op \in {"cancel", "pause", "resume"} : ~LoadForRequest(r, op)
      /\ ~CommitRequest
      /\ ~DropRequest
  BY DEF LockInv, LoadForCancelExport, LoadForRequest, CommitRequest, DropRequest
<1> QED BY <1>1, <1>2, <1>3, <1>4, <1>5 DEF Request, CancelRun, PauseRun, ResumeRun

\* Every step of a worker is a step of SourceLock or a stutter.
LEMMA LaneImplements ==
  ASSUME RowInv, LockInv, ApartInv, NEW w \in Worker, Lane(w)
  PROVE  [Lock!Next]_(Lock!lockVars)
<1>1. CASE ClaimRun(w)
  BY <1>1, RunBegins
<1>2. CASE ClaimExport(w)
  BY <1>2, ExportBegins
<1>3. CASE \/ (\E r \in Run : PickRun(w, r)) \/ (\E x \in Export : PickExport(w, x))
           \/ ObserveControl(w) \/ SessionExpires(w) \/ ClearCheckpoint(w) \/ WorkFails(w)
           \/ SaveCheckpoint(w) \/ Crash(w)
  BY <1>3, SameLock DEF PickRun, PickExport, ObserveControl, SessionExpires, ClearCheckpoint,
     WorkFails, SaveCheckpoint, Crash, rowVars, xrowVars, elsewhere
<1>4. CASE StartRun(w)
  <2>1. UNCHANGED <<status, xstatus>>
    BY <1>4 DEF StartRun, At, elsewhere, xrowVars, RowInv, TypeOK, RowsTypeOK, LanesTypeOK,
                LockInv, LaneOwnsRun, Busy
  <2> QED BY <2>1, SameLock
<1>5. CASE AuthWall(w) \/ SettleSignal(w) \/ FinishRun(w) \/ HandleFailure(w)
  <2>1. job[w] \in Run
    BY <1>5, LaneHolds DEF AuthWall, SettleSignal, FinishRun, HandleFailure, At, RowInv
  <2>2. UNCHANGED xstatus
    BY <1>5 DEF AuthWall, SettleSignal, FinishRun, HandleFailure, elsewhere, xrowVars
  <2>3. UNCHANGED status
          \/ \E to \in RunStatus \ {"running"} : status' = [status EXCEPT ![job[w]] = to]
    <3>1. ASSUME NEW outcome, ParkAs(job[w], outcome)
          PROVE  \E to \in RunStatus \ {"running"} : status' = [status EXCEPT ![job[w]] = to]
      BY <3>1 DEF ParkAs, RunStatus, Active, Final
    <3>2. CASE AuthWall(w)
      BY <3>1, <3>2 DEF AuthWall
    <3>3. CASE SettleSignal(w)
      BY <3>1, <3>3 DEF SettleSignal, RunStatus, Active, Final
    <3>4. CASE FinishRun(w)
      BY <3>4 DEF FinishRun, RunStatus, Active, Final
    <3>5. CASE HandleFailure(w)
      BY <3>5 DEF HandleFailure, RunStatus, Active, Final
    <3> QED BY <1>5, <3>2, <3>3, <3>4, <3>5
  <2> QED BY <2>1, <2>2, <2>3, RunEnds, SameLock
<1>6. CASE FinishExport(w)
  <2>1. xjob[w] \in Export
    BY <1>6 DEF FinishExport, RowInv, TypeOK, ExportsTypeOK
  <2> QED BY <1>6, <2>1, ExportEnds DEF FinishExport, rowVars
<1> QED BY <1>1, <1>2, <1>3, <1>4, <1>5, <1>6 DEF Lane, Advance, AdvanceExport

\* Every step of the reapers is a release of SourceLock or a stutter.
LEMMA EnvironmentImplements ==
  ASSUME RowInv, Environment PROVE [Lock!Next]_(Lock!lockVars)
<1>1. ASSUME NEW r \in Run, Reap(r) PROVE [Lock!Next]_(Lock!lockVars)
  BY <1>1, RunEnds DEF Reap, xrowVars
<1>2. ASSUME NEW r \in Run, BackoffElapses(r) PROVE [Lock!Next]_(Lock!lockVars)
  BY <1>2, SameLock DEF BackoffElapses, xrowVars
<1>3. ASSUME NEW x \in Export, ReapExport(x) PROVE [Lock!Next]_(Lock!lockVars)
  <2>1. \E to \in {"failed", "pending"} : xstatus' = [xstatus EXCEPT ![x] = to]
    BY <1>3 DEF ReapExport
  <2> QED BY <1>3, <2>1, ExportEnds DEF ReapExport, rowVars
<1> QED BY <1>1, <1>2, <1>3 DEF Environment

\* At first nobody holds the lock.
LEMMA InitImplements == Init => Lock!Init
<1> SUFFICES ASSUME Init PROVE Lock!Init
  OBVIOUS
<1>1. \A s \in Source : RunningOn(s) = {} /\ ExportingOn(s) = {}
  BY DEF Init, RunningOn, ExportingOn
<1> QED BY <1>1, OneOfIs DEF Lock!Init, Writer, Readers

\* Overlapping claims are let in: the two claim queries implement a readers-writer
\* lock on each source, unless two claims of one source were open at once.
THEOREM LockUnlessOverlap ==
  ASSUME Races \subseteq {"claim_skew"}
  PROVE  Spec => ImplementsSourceLock \/ <>ClaimsOverlap
<1>1. RowInv /\ LockInv /\ ApartInv /\ [Next]_vars => [Lock!Next]_(Lock!lockVars)
  <2> SUFFICES ASSUME RowInv, LockInv, ApartInv, [Next]_vars
               PROVE  [Lock!Next]_(Lock!lockVars)
    OBVIOUS
  <2>1. CASE UNCHANGED vars
    BY <2>1, SameLock DEF vars, rowVars, xrowVars
  <2> QED BY <2>1, RequestImplements, LaneImplements, EnvironmentImplements DEF Next
<1>2. RowInv /\ LockInv /\ ApartInv /\ ~ClaimsOverlap /\ [Next]_vars => ApartInv'
  BY ApartStep
<1> QED BY <1>1, <1>2, ApartInit, InitImplements, RowInvariance, LockInvariance, PTL
        DEF Spec, ImplementsSourceLock, Lock!Spec

-----------------------------------------------------------------------------
(* What a step may not do to a run: undo an end, or swallow a stop request.  *)

Respects(r) == /\ status[r] \in Final => status'[r] = status[r]
               /\ status[r] = "running" /\ status'[r] = "pending"
                      => control'[r] = control[r]

\* Requests leave final runs as they are, and put no running run back in the queue.
LEMMA RequestRespects ==
  ASSUME Races \subseteq {"claim_skew"}, RowInv, LockInv, Request, NEW q \in Run PROVE Respects(q)
<1>1. ASSUME NEW r \in Run, EnqueueRun(r) PROVE Respects(q)
  BY <1>1 DEF EnqueueRun, Respects, RowInv, TypeOK, RowsTypeOK, Final
<1>2. ASSUME NEW r \in Run, NEW op, Apply(op, r, status[r], control[r]) PROVE Respects(q)
  BY <1>2 DEF Apply, CancelAs, PauseAs, ResumeAs, Respects, RowInv, TypeOK, RowsTypeOK, Final
<1>3. CASE UNCHANGED <<status, control>>
  BY <1>3 DEF Respects
<1>4. /\ \A x \in Export : ~LoadForCancelExport(x)
      /\ \A r \in Run, op \in {"cancel", "pause", "resume"} : ~LoadForRequest(r, op)
      /\ ~CommitRequest
      /\ ~DropRequest
  BY DEF LockInv, LoadForCancelExport, LoadForRequest, CommitRequest, DropRequest
<1> QED BY <1>1, <1>2, <1>3, <1>4 DEF Request, CancelRun, PauseRun, ResumeRun,
           EnqueueExports, CancelExport, CancelExportAs, rowVars

\* Workers leave final runs as they are, and a requeue keeps the stop request.
LEMMA LaneRespects ==
  ASSUME RowInv, LockInv, NEW w \in Worker, Lane(w), NEW q \in Run PROVE Respects(q)
<1> USE DEF RowInv, TypeOK, RowsTypeOK, LanesTypeOK, Respects
<1>1. CASE ClaimRun(w)
  BY <1>1 DEF ClaimRun, ClaimsAreExclusive, Final
<1>2. CASE StartRun(w)
  BY <1>2 DEF StartRun, At, LockInv, LaneOwnsRun, Busy, Final
<1>3. CASE AuthWall(w)
  BY <1>3 DEF AuthWall, ParkAs, Outcome, At, LockInv, LaneOwnsRun, Busy, Final
<1>4. CASE SettleSignal(w)
  <2>1. status[job[w]] = "running" /\ job[w] \in Run
    BY <1>4 DEF SettleSignal, At, LockInv, LaneOwnsRun, Busy
  <2>2. CASE KindOf[job[w]] = "web"
    <3>1. CASE sig[w] = "requeue"
      <4>1. control' = [control EXCEPT ![job[w]] = "none"]
        BY <1>4, <2>2, <3>1 DEF SettleSignal
      <4>2. ParkAs(job[w], Outcome(job[w], TRUE))
        BY <1>4, <2>2, <3>1 DEF SettleSignal
      <4> QED BY <2>1, <4>1, <4>2 DEF ParkAs, Outcome, Control, Final
    <3>2. CASE sig[w] \in {"pause", "cancel"}
      <4>1. ParkAs(job[w], sig[w])
        BY <1>4, <2>2, <3>2 DEF SettleSignal
      <4> QED BY <2>1, <3>2, <4>1 DEF ParkAs, Final
    <3> QED BY <1>4, <3>1, <3>2 DEF SettleSignal, SignalIsStop, At
  <2>3. CASE KindOf[job[w]] # "web"
    BY <1>4, <2>1, <2>3 DEF SettleSignal, ParkAs, SignalIsStop, At, Final
  <2> QED BY <2>2, <2>3
<1>5. CASE FinishRun(w)
  BY <1>5 DEF FinishRun, At, LockInv, LaneOwnsRun, Busy, Final
<1>6. CASE HandleFailure(w)
  BY <1>6 DEF HandleFailure, At, LockInv, LaneOwnsRun, Busy, Final
<1>7. CASE UNCHANGED <<status, control>>
  BY <1>7
<1> QED BY <1>1, <1>2, <1>3, <1>4, <1>5, <1>6, <1>7 DEF Lane, Advance, AdvanceExport, PickRun,
           PickExport, ClaimExport, FinishExport, SaveCheckpoint, ObserveControl,
           SessionExpires, ClearCheckpoint, WorkFails, Crash, rowVars

\* With overlapping claims let in, every step leaves final runs final and stop requests kept.
LEMMA StepRespects ==
  ASSUME Races \subseteq {"claim_skew"}, RowInv, LockInv, [Next]_vars, NEW q \in Run PROVE Respects(q)
<1>1. CASE Environment
  BY <1>1 DEF Environment, Reap, Lost, ReapExport, BackoffElapses, Respects, RowInv, TypeOK,
              RowsTypeOK, rowVars, Final
<1>2. CASE UNCHANGED vars
  BY <1>2 DEF vars, rowVars, Respects
<1> QED BY <1>1, <1>2, RequestRespects, LaneRespects DEF Next

\* With overlapping claims let in, a run that has ended stays as it ended.
THEOREM FinalIsFinalTheorem == ASSUME Races \subseteq {"claim_skew"} PROVE Spec => FinalIsFinal
<1>1. RowInv /\ LockInv /\ [Next]_vars
        => [\A r \in Run : status[r] \in Final => status'[r] = status[r]]_vars
  BY StepRespects DEF Respects
<1> QED BY <1>1, RowInvariance, LockInvariance, PTL DEF Spec, FinalIsFinal

\* With overlapping claims let in, no requeue swallows a stop request.
THEOREM StopSurvivesRequeueTheorem == ASSUME Races \subseteq {"claim_skew"} PROVE Spec => StopSurvivesRequeue
<1>1. RowInv /\ LockInv /\ [Next]_vars
        => [\A r \in Run : status[r] = "running" /\ status'[r] = "pending"
                               => control'[r] = control[r]]_vars
  BY StepRespects DEF Respects
<1> QED BY <1>1, RowInvariance, LockInvariance, PTL DEF Spec, StopSurvivesRequeue
=============================================================================
