------------------------- MODULE ExportFilesProofs -------------------------
(***************************************************************************)
(* Proofs about ExportFiles, for any number of jobs, attempts, claims and  *)
(* crashes and any cap: TypeOK and RowKeepsFiles.                          *)
(***************************************************************************)
EXTENDS ExportFiles, FiniteSetTheorems, WellFoundedInduction, TLAPS

\* Every attempt generates under an id of its own: a directory, past the cutoff or not,
\* is one of an attempt that was made, and the one in the making is not past the cutoff.
AttemptsAreFresh ==
    /\ \A d \in dirs \cup old.dirs : d \in Jobs \X (1 .. MaxAttempts) /\ d[2] <= attempts[d[1]]
    /\ lane # <<>> => lane[2] <= attempts[lane[1]] /\ lane \notin old.dirs

\* The sweep holds rows only while it has taken their files and not the rows; the
\* directories it knows are those of the completed rows, younger ones apart.
SweepFits ==
    /\ sweep.rows \subseteq Jobs
    /\ sweep.at = "cap" => sweep.known \subseteq Jobs
    /\ sweep.at \in {"idle", "orphans", "zips", "measure"} => sweep.rows = {}
    /\ sweep.at = "orphans" =>
          \A j \in Jobs : status[j] = "completed" => DirOf(j) \in sweep.known \/ DirOf(j) \notin old.dirs

FileInv == TypeOK /\ AttemptsAreFresh /\ SweepFits /\ RowKeepsFiles
-----------------------------------------------------------------------------
(* The oldest of some jobs is one of them: among the sets of those created  *)
(* no later than some job, the library's ordering of the finite sets has a  *)
(* minimal one.                                                             *)
LEMMA OldestIsOne ==
    ASSUME NEW S \in SUBSET Jobs, S # {}
    PROVE  Min(S) \in S /\ \A k \in S : Min(S) <= k
<1> DEFINE Until(j) == {k \in S : k <= j}
           T == {U \in SUBSET S : \E j \in S : U = Until(j)}
<1>1. S \subseteq Nat /\ IsFiniteSet(S)
  <2>1. 1 \in Int /\ MaxJob \in Int  BY ExportConstants
  <2>2. IsFiniteSet(1 .. MaxJob)  BY <2>1, FS_Interval
  <2>3. IsFiniteSet(S)  BY <2>2, FS_Subset DEF Jobs
  <2> QED  BY <2>1, <2>3 DEF Jobs
<1>2. T \subseteq FiniteSubsetsOf(S) /\ T # {}
  <2>1. \A U \in SUBSET S : IsFiniteSet(U)  BY <1>1, FS_Subset
  <2>2. \A j \in S : Until(j) \in T  OBVIOUS
  <2> QED  BY <2>1, <2>2 DEF FiniteSubsetsOf
<1>3. PICK U \in T : \A V \in T : <<V, U>> \notin StrictSubsetOrdering(S)
  <2> HIDE DEF T
  <2> QED  BY <1>1, <1>2, FS_StrictSubsetOrderingWellFounded, WFMin
<1>4. PICK j \in S : U = Until(j)  OBVIOUS
<1>5. ASSUME NEW k \in S, ~(j <= k) PROVE FALSE
  <2>1. Until(k) \in T  OBVIOUS
  <2>2. Until(k) \subseteq Until(j) /\ j \in Until(j) /\ j \notin Until(k)
    <3>1. j \in Nat /\ k \in Nat /\ k < j /\ \A z \in S : z \in Nat  BY <1>1, <1>5
    <3>2. \A z \in S : z <= k => z <= j  BY <3>1
    <3>3. j <= j /\ ~(j <= k)  BY <3>1
    <3> QED  BY <3>2, <3>3, Zenon
  <2> HIDE DEF Until
  <2> QED  BY <1>3, <1>4, <2>1, <2>2 DEF StrictSubsetOrdering
<1> QED  BY <1>5 DEF Min
-----------------------------------------------------------------------------
(* Types.                                                                  *)

LEMMA InitFiles == Init => FileInv
<1> SUFFICES ASSUME Init PROVE FileInv  OBVIOUS
<1> USE ExportConstants DEF Init
<1>1. TypeOK  BY DEF TypeOK, Terminal
<1>2. AttemptsAreFresh  BY DEF AttemptsAreFresh, Nothing
<1>3. SweepFits  BY DEF SweepFits, IdleSweep
<1>4. RowKeepsFiles  BY DEF RowKeepsFiles
<1> QED  BY <1>1, <1>2, <1>3, <1>4 DEF FileInv

LEMMA RequestTypes ==
    ASSUME TypeOK,
           \/ \E j \in Jobs : \/ CreateExport(j) \/ Cancel(j) \/ DeleteSource(j)
                              \/ Reap(j) \/ DeleteFiles(j) \/ DeleteRow(j)
           \/ \E keep \in SUBSET Jobs : CreateBatch(keep)
    PROVE  TypeOK'
<1>1. ASSUME NEW j \in Jobs, CreateExport(j) \/ Cancel(j) \/ DeleteSource(j) \/ Reap(j)
      PROVE  TypeOK'
  BY <1>1 DEF CreateExport, Cancel, DeleteSource, Reap, Enqueued, TypeOK, Terminal
<1>2. ASSUME NEW j \in Jobs, DeleteFiles(j) \/ DeleteRow(j)
      PROVE  TypeOK'
  BY <1>2 DEF DeleteFiles, DeleteRow, Without, TypeOK, rows
<1>3. ASSUME NEW keep \in SUBSET Jobs, CreateBatch(keep)
      PROVE  TypeOK'
  BY <1>3 DEF CreateBatch, Enqueued, TypeOK
<1> QED  BY <1>1, <1>2, <1>3

LEMMA LaneTypes == TypeOK /\ Lane => TypeOK'
<1> SUFFICES ASSUME TypeOK, Lane PROVE TypeOK'  OBVIOUS
<1>1. ASSUME NEW j \in Jobs, Claim(j) PROVE TypeOK'
  <2>1. attempts[j] + 1 \in 1 .. MaxAttempts
    BY <1>1, ExportConstants DEF Claim, TypeOK
  <2> QED  BY <1>1, <2>1 DEF Claim, TypeOK
<1>2. CASE Generate  BY <1>2 DEF Generate, TypeOK, rows
<1>3. CASE FinishExport
  <2>1. lane[1] \in Jobs /\ lane[2] \in 0 .. MaxAttempts
    BY <1>3, ExportConstants DEF FinishExport, TypeOK
  <2> QED  BY <1>3, <2>1 DEF FinishExport, TypeOK, Terminal
<1>4. CASE FailExport  BY <1>4 DEF FailExport, TypeOK, Terminal
<1> QED  BY <1>1, <1>2, <1>3, <1>4 DEF Lane

LEMMA DownloadTypes == TypeOK /\ Download => TypeOK'
<1> SUFFICES ASSUME TypeOK, Download PROVE TypeOK'  OBVIOUS
<1>1. CASE LoadBatch \/ ServeCached \/ BuildFails
  BY <1>1 DEF LoadBatch, ServeCached, BuildFails, TypeOK, rows
<1>2. CASE BuildZip
  <2>1. PICK d \in dl : zip' = LET there == d.done \cap dirs
                               IN  IF there = {} THEN NoZip ELSE {e[1] : e \in there}
    BY <1>2 DEF BuildZip
  <2>2. \A e \in dirs : e[1] \in Jobs  BY DEF TypeOK
  <2>3. zip' \in {NoZip} \cup SUBSET Jobs  BY <2>1, <2>2
  <2> QED  BY <1>2, <2>3 DEF BuildZip, TypeOK, rows
<1> QED  BY <1>1, <1>2 DEF Download

\* The sweep removes directories and rows, and may drop the zip.
LEMMA SweepTypes == TypeOK /\ Sweep => TypeOK'
<1> SUFFICES ASSUME TypeOK, Sweep PROVE TypeOK'  OBVIOUS
<1>1. UNCHANGED <<attempts, exportId, lane, deleting, torn>>
  BY DEF Sweep, AgeFiles, AgeRows, OrphanSweep, ZipSweep, Measure, EvictZip, EvictJob,
         EvictRows, Sweeping, Without, rows
<1>2. dirs' \subseteq dirs /\ zip' \in {zip, NoZip}
  BY DEF Sweep, AgeFiles, AgeRows, OrphanSweep, ZipSweep, Measure, EvictZip, EvictJob,
         EvictRows
<1>3. batch' \subseteq batch
      /\ (status' = status \/ \E js : status' = [j \in Jobs |-> IF j \in js THEN "gone" ELSE status[j]])
  BY DEF Sweep, AgeFiles, AgeRows, OrphanSweep, ZipSweep, Measure, EvictZip, EvictJob,
         EvictRows, Without, rows
<1> QED  BY <1>1, <1>2, <1>3 DEF TypeOK

\* The removals a crash cuts short are of the sweep or of requests.
LEMMA CrashTypes == TypeOK /\ SweepFits /\ (WorkerCrash \/ ApiCrash) => TypeOK'
BY DEF WorkerCrash, ApiCrash, TypeOK, SweepFits, rows

LEMMA FileTypesKept == TypeOK /\ SweepFits /\ [Next]_vars => TypeOK'
<1> SUFFICES ASSUME TypeOK, SweepFits, [Next]_vars PROVE TypeOK'  OBVIOUS
<1>1. CASE Lane  BY <1>1, LaneTypes
<1>2. CASE Download  BY <1>2, DownloadTypes
<1>3. CASE Sweep  BY <1>3, SweepTypes
<1>4. CASE Age  BY <1>4 DEF Age, TypeOK, rows
<1>5. CASE WorkerCrash \/ ApiCrash  BY <1>5, CrashTypes
<1>6. CASE UNCHANGED vars  BY <1>6 DEF vars, TypeOK, rows
<1> QED  BY <1>1, <1>2, <1>3, <1>4, <1>5, <1>6, RequestTypes DEF Next
-----------------------------------------------------------------------------
(* Attempts are fresh, and the sweep holds rows only between files and rows. *)

LEMMA FreshKept == TypeOK /\ AttemptsAreFresh /\ [Next]_vars => AttemptsAreFresh'
<1> SUFFICES ASSUME TypeOK, AttemptsAreFresh, [Next]_vars PROVE AttemptsAreFresh'  OBVIOUS
<1>1. ASSUME NEW j \in Jobs, Claim(j) PROVE AttemptsAreFresh'
  <2>1. /\ attempts[j] \in Nat /\ attempts \in [Jobs -> 0 .. MaxAttempts]
        /\ attempts' = [attempts EXCEPT ![j] = @ + 1]
        /\ lane' = <<j, attempts[j] + 1>> /\ UNCHANGED <<dirs, old>>
    BY <1>1 DEF Claim, TypeOK
  <2>2. \A d \in dirs \cup old.dirs :
           d \in Jobs \X (1 .. MaxAttempts) /\ d[2] <= attempts[d[1]]
    BY DEF AttemptsAreFresh
  <2>3. \A d \in dirs \cup old.dirs : d[2] <= attempts'[d[1]]
    BY <2>1, <2>2, ExportConstants
  <2>4. lane' \notin old.dirs  BY <2>1, <2>2
  <2>5. attempts'[j] = attempts[j] + 1  BY <2>1
  <2>6. lane'[1] = j /\ lane'[2] = attempts[j] + 1  BY <2>1
  <2> QED  BY <2>1, <2>2, <2>3, <2>4, <2>5, <2>6 DEF AttemptsAreFresh
<1>2. CASE Generate
  BY <1>2 DEF Generate, AttemptsAreFresh, TypeOK, rows
<1>3. CASE Age
  BY <1>3 DEF Age, AttemptsAreFresh, rows
<1>4. CASE /\ UNCHANGED <<attempts, old>> /\ dirs' \subseteq dirs
           /\ lane' \in {lane, <<>>}
  BY <1>4 DEF AttemptsAreFresh
<1>5. CASE Sweep
  <2>1. /\ UNCHANGED <<attempts, old, lane>> /\ dirs' \subseteq dirs
    BY <1>5 DEF Sweep, AgeFiles, AgeRows, OrphanSweep, ZipSweep, Measure, EvictZip, EvictJob,
          EvictRows, Sweeping, Without, rows
  <2> QED  BY <1>4, <2>1
<1>6. CASE Download
  <2>1. UNCHANGED <<attempts, dirs, lane>> /\ old'.dirs = old.dirs
    <3>1. CASE LoadBatch \/ ServeCached \/ BuildFails
      BY <3>1 DEF LoadBatch, ServeCached, BuildFails, rows
    <3>2. CASE BuildZip
      <4>1. old' = [old EXCEPT !.zip = FALSE] /\ UNCHANGED <<attempts, dirs, lane>>
        BY <3>2 DEF BuildZip, rows
      <4> QED  BY <4>1
    <3> QED  BY <1>6, <3>1, <3>2 DEF Download
  <2> QED  BY <2>1 DEF AttemptsAreFresh
<1>7. CASE FinishExport \/ FailExport \/ WorkerCrash \/ ApiCrash \/ UNCHANGED vars
  BY <1>4, <1>7 DEF FinishExport, FailExport, WorkerCrash, ApiCrash, rows, vars
<1>8. ASSUME NEW j \in Jobs, \/ CreateExport(j) \/ Cancel(j) \/ DeleteSource(j)
                             \/ Reap(j) \/ DeleteFiles(j) \/ DeleteRow(j)
      PROVE  AttemptsAreFresh'
  BY <1>4, <1>8 DEF CreateExport, Cancel, DeleteSource, Reap, DeleteFiles, DeleteRow, Without, rows
<1>9. ASSUME NEW keep \in SUBSET Jobs, CreateBatch(keep) PROVE AttemptsAreFresh'
  BY <1>4, <1>9 DEF CreateBatch
<1> QED  BY <1>1, <1>2, <1>3, <1>5, <1>6, <1>7, <1>8, <1>9 DEF Next, Lane

LEMMA SweepStepFits == TypeOK /\ SweepFits /\ Sweep => SweepFits'
<1> SUFFICES ASSUME TypeOK, SweepFits, Sweep PROVE SweepFits'  OBVIOUS
<1>0. UNCHANGED <<old, exportId>> /\ \A j \in Jobs : DirOf(j)' = DirOf(j)
  BY DEF Sweep, AgeFiles, AgeRows, OrphanSweep, ZipSweep, Measure, EvictZip, EvictJob,
         EvictRows, Sweeping, Without, DirOf, rows
<1>1. CASE AgeFiles
  BY <1>1 DEF AgeFiles, SweepFits
<1>2. CASE AgeRows
  <2> DEFINE known == {DirOf(k) : k \in {i \in Jobs : HasRow(i) /\ i \notin sweep.rows}}
  <2>1. sweep'.at = "orphans" /\ sweep'.rows = {} /\ sweep'.known = known
    BY <1>2 DEF AgeRows
  <2>2. ASSUME NEW j \in Jobs, status'[j] = "completed" PROVE DirOf(j) \in known
    BY <1>2, <2>2 DEF AgeRows, Without, HasRow, TypeOK
  <2> HIDE DEF known
  <2> QED  BY <1>0, <2>1, <2>2 DEF SweepFits
<1>3. CASE OrphanSweep \/ EvictZip
  <2>1. CASE OrphanSweep  BY <2>1 DEF OrphanSweep, Sweeping, SweepFits
  <2>2. CASE EvictZip
    <3>1. sweep.at = "cap" /\ sweep'.at = sweep.at /\ sweep'.rows = sweep.rows
          /\ sweep'.known = sweep.known
      BY <2>2 DEF EvictZip, Sweeping
    <3> QED  BY <3>1 DEF SweepFits
  <2> QED  BY <1>3, <2>1, <2>2
<1>4. CASE ZipSweep
  BY <1>4 DEF ZipSweep, Sweeping, SweepFits, IdleSweep
<1>5. CASE Measure
  BY <1>5 DEF Measure, Sweeping, SweepFits
<1>6. CASE EvictJob
  <2>1. Min(sweep.known) \in Jobs
    BY <1>6, OldestIsOne DEF EvictJob, Sweeping, SweepFits
  <2>2. sweep'.at = sweep.at /\ sweep.at = "cap" /\ sweep'.known \subseteq sweep.known
        /\ sweep'.rows = sweep.rows \cup {Min(sweep.known)}
    BY <1>6 DEF EvictJob, Sweeping
  <2> QED  BY <2>1, <2>2 DEF SweepFits
<1>7. CASE EvictRows
  BY <1>7 DEF EvictRows, SweepFits, IdleSweep
<1> QED  BY <1>1, <1>2, <1>3, <1>4, <1>5, <1>6, <1>7 DEF Sweep

\* Apart from the end of an export, no step completes a row or renames its directory.
LEMMA OnlyTheLaneCompletes ==
    ASSUME TypeOK, [Next]_vars, ~FinishExport
    PROVE  /\ exportId' = exportId
           /\ \A j \in Jobs : /\ DirOf(j)' = DirOf(j)
                              /\ status'[j] = "completed" => status[j] = "completed"
<1>1. exportId' = exportId
  <2>1. CASE Sweep
    BY <2>1 DEF Sweep, AgeFiles, AgeRows, OrphanSweep, ZipSweep, Measure, EvictZip, EvictJob,
          EvictRows, Without, rows
  <2>2. CASE Lane \/ Download
    BY <2>2 DEF Lane, Claim, Generate, FailExport, Download, LoadBatch, ServeCached, BuildZip,
          BuildFails, rows
  <2>3. CASE Age \/ WorkerCrash \/ ApiCrash \/ UNCHANGED vars
    BY <2>3 DEF Age, WorkerCrash, ApiCrash, rows, vars
  <2> QED
    BY <2>1, <2>2, <2>3
       DEF Next, CreateExport, Cancel, DeleteSource, Reap, DeleteFiles, DeleteRow, Without,
           CreateBatch, rows
<1>2. ASSUME NEW j \in Jobs, status'[j] = "completed" PROVE status[j] = "completed"
  <2>1. CASE Sweep \/ Download
    BY <1>2, <2>1 DEF Sweep, AgeFiles, AgeRows, OrphanSweep, ZipSweep, Measure, EvictZip,
          EvictJob, EvictRows, Without, Download, LoadBatch, ServeCached, BuildZip, BuildFails,
          rows
  <2>2. CASE Lane
    BY <1>2, <2>2 DEF Lane, Claim, Generate, FailExport, TypeOK, rows
  <2>3. CASE Age \/ WorkerCrash \/ ApiCrash \/ UNCHANGED vars
    BY <1>2, <2>3 DEF Age, WorkerCrash, ApiCrash, rows, vars
  <2>4. ASSUME NEW k \in Jobs, CreateExport(k) \/ Cancel(k) \/ DeleteSource(k) \/ Reap(k)
        PROVE  status[j] = "completed"
    BY <1>2, <2>4 DEF CreateExport, Cancel, DeleteSource, Reap, Enqueued, TypeOK
  <2>5. ASSUME NEW k \in Jobs, DeleteFiles(k) \/ DeleteRow(k) PROVE status[j] = "completed"
    BY <1>2, <2>5 DEF DeleteFiles, DeleteRow, Without, rows
  <2>6. ASSUME NEW keep \in SUBSET Jobs, CreateBatch(keep) PROVE status[j] = "completed"
    BY <1>2, <2>6 DEF CreateBatch, Enqueued
  <2> QED  BY <2>1, <2>2, <2>3, <2>4, <2>5, <2>6 DEF Next
<1> QED  BY <1>1, <1>2 DEF DirOf

\* The end of an export: the row that it completes names the directory it generated.
LEMMA FinishNames ==
    ASSUME TypeOK, FinishExport
    PROVE  /\ lane \in dirs /\ lane # <<>> /\ UNCHANGED <<dirs, old, deleting, sweep, torn>>
           /\ \A j \in Jobs : status'[j] = "completed" =>
                 \/ DirOf(j)' = lane
                 \/ status[j] = "completed" /\ DirOf(j)' = DirOf(j)
<1>1. lane \in Jobs \X (1 .. MaxAttempts) /\ lane = <<lane[1], lane[2]>>
  BY DEF FinishExport, TypeOK
<1>2. ASSUME NEW j \in Jobs, status'[j] = "completed"
      PROVE  DirOf(j)' = lane \/ (status[j] = "completed" /\ DirOf(j)' = DirOf(j))
  <2>1. CASE HasRow(lane[1]) /\ j = lane[1]
    <3>1. exportId'[j] = lane[2]  BY <1>1, <2>1 DEF FinishExport, TypeOK
    <3> QED  BY <1>1, <2>1, <3>1 DEF DirOf
  <2>2. CASE ~HasRow(lane[1]) \/ j # lane[1]
    <3>1. exportId'[j] = exportId[j] /\ status'[j] = status[j]
      BY <1>1, <2>2 DEF FinishExport, TypeOK
    <3> QED  BY <1>2, <3>1 DEF DirOf
  <2> QED  BY <2>1, <2>2
<1> QED  BY <1>2 DEF FinishExport

LEMMA SweepKept == TypeOK /\ AttemptsAreFresh /\ SweepFits /\ [Next]_vars => SweepFits'
<1> SUFFICES ASSUME TypeOK, AttemptsAreFresh, SweepFits, [Next]_vars PROVE SweepFits'
  OBVIOUS
<1>1. CASE Sweep  BY <1>1, SweepStepFits
<1>2. CASE FinishExport
  BY <1>2, FinishNames DEF SweepFits, AttemptsAreFresh
<1>3. CASE WorkerCrash  BY <1>3 DEF WorkerCrash, SweepFits, IdleSweep
<1>4. CASE Age
  BY <1>4 DEF Age, SweepFits
<1>5. CASE ~Sweep /\ ~FinishExport /\ ~WorkerCrash /\ ~Age
  <2>1. sweep' = sweep /\ old'.dirs = old.dirs
    <3>1. CASE Lane \/ LoadBatch \/ ServeCached \/ BuildFails \/ ApiCrash \/ UNCHANGED vars
      BY <1>5, <3>1 DEF Lane, Claim, Generate, FailExport, LoadBatch, ServeCached, BuildFails,
            ApiCrash, vars
    <3>2. CASE BuildZip
      <4>1. old' = [old EXCEPT !.zip = FALSE] /\ UNCHANGED sweep  BY <3>2 DEF BuildZip
      <4> QED  BY <4>1
    <3>3. ASSUME NEW j \in Jobs, \/ CreateExport(j) \/ Cancel(j) \/ DeleteSource(j)
                                 \/ Reap(j) \/ DeleteFiles(j) \/ DeleteRow(j)
          PROVE  sweep' = sweep /\ old'.dirs = old.dirs
      BY <3>3 DEF CreateExport, Cancel, DeleteSource, Reap, DeleteFiles, DeleteRow
    <3>4. ASSUME NEW keep \in SUBSET Jobs, CreateBatch(keep)
          PROVE  sweep' = sweep /\ old'.dirs = old.dirs
      BY <3>4 DEF CreateBatch
    <3> QED  BY <1>5, <3>1, <3>2, <3>3, <3>4 DEF Next, Download
  <2> QED  BY <1>5, <2>1, OnlyTheLaneCompletes DEF SweepFits
<1> QED  BY <1>1, <1>2, <1>3, <1>4, <1>5
-----------------------------------------------------------------------------
(* A completed row keeps its files.                                        *)

\* No directory is removed, and no removal forgotten.
LEMMA KeptByInaction ==
    ASSUME RowKeepsFiles, dirs \subseteq dirs',
           deleting \cup sweep.rows \cup torn \subseteq deleting' \cup sweep'.rows \cup torn',
           \A j \in Jobs : status'[j] = "completed" =>
              status[j] = "completed" /\ DirOf(j)' = DirOf(j)
    PROVE  RowKeepsFiles'
<1> SUFFICES ASSUME NEW j \in Jobs, status'[j] = "completed"
             PROVE  DirOf(j)' \in dirs' \/ j \in deleting' \cup sweep'.rows \cup torn'
  BY DEF RowKeepsFiles, Listed
<1>1. DirOf(j) \in dirs \/ j \in deleting \cup sweep.rows \cup torn
  BY DEF RowKeepsFiles, Listed
<1> QED  BY <1>1

LEMMA SweepKeepsFiles ==
    ASSUME TypeOK, AttemptsAreFresh, SweepFits, RowKeepsFiles, Sweep
    PROVE  RowKeepsFiles'
<1>0. /\ UNCHANGED <<deleting, torn, exportId>> /\ \A j \in Jobs : DirOf(j)' = DirOf(j)
  BY DEF Sweep, AgeFiles, AgeRows, OrphanSweep, ZipSweep, Measure, EvictZip, EvictJob,
         EvictRows, Sweeping, Without, DirOf, rows
<1> SUFFICES ASSUME NEW j \in Jobs, status'[j] = "completed"
             PROVE  DirOf(j) \in dirs' \/ j \in deleting \cup sweep'.rows \cup torn
  BY <1>0 DEF RowKeepsFiles, Listed
<1>1. status[j] = "completed"
  BY DEF Sweep, AgeFiles, AgeRows, OrphanSweep, ZipSweep, Measure, EvictZip,
         EvictJob, EvictRows, Without, rows
<1>2. DirOf(j) \in dirs \/ j \in deleting \cup sweep.rows \cup torn
  BY <1>1 DEF RowKeepsFiles, Listed
<1>3. CASE AgeFiles
  <2> DEFINE js == {k \in Jobs : k \in old.jobs /\ status[k] \in Terminal}
  <2>1. sweep.rows = {} /\ sweep'.rows = js /\ dirs' = dirs \ {DirOf(k) : k \in js}
    BY <1>3 DEF AgeFiles, Sweeping, SweepFits
  <2>2. \A k \in js : DirOf(k) = DirOf(j) => k = j  BY DEF DirOf
  <2> HIDE DEF js
  <2> QED  BY <1>2, <2>1, <2>2
<1>4. CASE AgeRows
  <2>1. j \notin sweep.rows  BY <1>4 DEF AgeRows, Without
  <2> QED  BY <1>2, <1>4, <2>1 DEF AgeRows
\* What the row of a job names is known to the sweep, or younger than the cutoff.
<1>5. CASE OrphanSweep
  <2>1. DirOf(j) \in sweep.known \/ DirOf(j) \notin old.dirs
    BY <1>1, <1>5 DEF OrphanSweep, Sweeping, SweepFits
  <2>2. DirOf(j) \notin Orphans  BY <2>1 DEF Orphans
  <2>3. sweep'.rows = sweep.rows  BY <1>5 DEF OrphanSweep
  <2> QED  BY <1>2, <1>5, <2>2, <2>3 DEF OrphanSweep
<1>6. CASE ZipSweep
  <2>1. sweep.rows = {} /\ dirs' = dirs  BY <1>6 DEF ZipSweep, Sweeping, SweepFits
  <2> QED  BY <1>2, <2>1
<1>7. CASE Measure \/ EvictZip
  <2>1. sweep'.rows = sweep.rows /\ dirs' = dirs
    <3>1. CASE Measure  BY <3>1 DEF Measure
    <3>2. CASE EvictZip  BY <3>2 DEF EvictZip
    <3> QED  BY <1>7, <3>1, <3>2
  <2> QED  BY <1>2, <2>1
<1>8. CASE EvictJob
  <2> DEFINE k == Min(sweep.known)
  <2>1. dirs' = dirs \ {DirOf(k)} /\ sweep'.rows = sweep.rows \cup {k}
    BY <1>8 DEF EvictJob
  <2>2. DirOf(k) = DirOf(j) => k = j  BY DEF DirOf
  <2> HIDE DEF k
  <2> QED  BY <1>2, <2>1, <2>2
<1>9. CASE EvictRows
  <2>1. j \notin sweep.rows  BY <1>9 DEF EvictRows, Without
  <2> QED  BY <1>2, <1>9, <2>1 DEF EvictRows
<1> QED  BY <1>3, <1>4, <1>5, <1>6, <1>7, <1>8, <1>9 DEF Sweep

LEMMA FilesKept ==
    ASSUME TypeOK, AttemptsAreFresh, SweepFits, RowKeepsFiles, [Next]_vars
    PROVE  RowKeepsFiles'
<1> DEFINE Still == \A j \in Jobs : status'[j] = "completed" =>
                        status[j] = "completed" /\ DirOf(j)' = DirOf(j)
<1>0. ~FinishExport => Still  BY OnlyTheLaneCompletes
<1>1. CASE Sweep  BY <1>1, SweepKeepsFiles
<1>2. CASE FinishExport
  <2> SUFFICES ASSUME NEW j \in Jobs, status'[j] = "completed"
               PROVE  DirOf(j)' \in dirs \/ j \in deleting \cup sweep.rows \cup torn
    BY <1>2, FinishNames DEF RowKeepsFiles, Listed
  <2> QED  BY <1>2, FinishNames DEF RowKeepsFiles, Listed
<1>3. ASSUME NEW k \in Jobs, DeleteFiles(k), Still PROVE RowKeepsFiles'
  <2> SUFFICES ASSUME NEW j \in Jobs, status'[j] = "completed"
               PROVE  DirOf(j)' \in dirs' \/ j \in deleting' \cup sweep.rows \cup torn
    BY <1>3 DEF DeleteFiles, RowKeepsFiles, Listed
  <2>1. DirOf(j) \in dirs \/ j \in deleting \cup sweep.rows \cup torn
    BY <1>3 DEF RowKeepsFiles, Listed
  <2>2. dirs' = dirs \ {DirOf(k)} /\ deleting' = deleting \cup {k}  BY <1>3 DEF DeleteFiles
  <2>3. DirOf(j) = DirOf(k) => j = k  BY DEF DirOf
  <2> QED  BY <1>3, <2>1, <2>2, <2>3
<1>4. ASSUME NEW k \in Jobs, DeleteRow(k), Still PROVE RowKeepsFiles'
  <2> SUFFICES ASSUME NEW j \in Jobs, status'[j] = "completed"
               PROVE  DirOf(j)' \in dirs \/ j \in deleting' \cup sweep.rows \cup torn
    BY <1>4 DEF DeleteRow, RowKeepsFiles, Listed
  <2>1. DirOf(j) \in dirs \/ j \in deleting \cup sweep.rows \cup torn
    BY <1>4 DEF RowKeepsFiles, Listed
  <2>2. j # k /\ deleting' = deleting \ {k}  BY <1>4 DEF DeleteRow, Without
  <2> QED  BY <1>4, <2>1, <2>2
<1>5. CASE WorkerCrash
  <2>1. dirs' = dirs /\ deleting' = deleting /\ torn' = torn \cup sweep.rows
    BY <1>5 DEF WorkerCrash
  <2>2. ~FinishExport  BY <1>5 DEF WorkerCrash, FinishExport
  <2> QED  BY <1>0, <2>1, <2>2, KeptByInaction
<1>6. CASE ApiCrash
  <2>1. dirs' = dirs /\ sweep' = sweep /\ torn' = torn \cup deleting
    BY <1>6 DEF ApiCrash
  <2>2. ~FinishExport  BY <1>6 DEF ApiCrash, FinishExport
  <2> QED  BY <1>0, <2>1, <2>2, KeptByInaction
<1>7. CASE Still /\ dirs \subseteq dirs' /\ UNCHANGED <<deleting, sweep, torn>>
  BY <1>7, KeptByInaction
<1> HIDE DEF Still
<1>8. CASE Lane \/ Download \/ Age \/ UNCHANGED vars
  BY <1>0, <1>2, <1>7, <1>8
     DEF Lane, Claim, Generate, FailExport, Download, LoadBatch, ServeCached, BuildZip,
         BuildFails, Age, vars
<1>9. ASSUME NEW j \in Jobs, ~FinishExport,
             CreateExport(j) \/ Cancel(j) \/ DeleteSource(j) \/ Reap(j)
      PROVE  RowKeepsFiles'
  BY <1>0, <1>7, <1>9 DEF CreateExport, Cancel, DeleteSource, Reap
<1>10. ASSUME NEW keep \in SUBSET Jobs, ~FinishExport, CreateBatch(keep) PROVE RowKeepsFiles'
  BY <1>0, <1>7, <1>10 DEF CreateBatch
<1> QED
  BY <1>0, <1>1, <1>2, <1>3, <1>4, <1>5, <1>6, <1>8, <1>9, <1>10 DEF Next

\* Every reachable state is well typed: directories are those of attempts of jobs, and
\* only jobs are ever listed for removal.
THEOREM FileTypes == Spec => []TypeOK
<1>1. Init => TypeOK /\ AttemptsAreFresh /\ SweepFits  BY InitFiles DEF FileInv
<1> QED  BY <1>1, FileTypesKept, FreshKept, SweepKept, PTL DEF Spec

\* A completed export keeps its directory unless a removal that is under way, or that a
\* crash cut short, has taken it: neither the orphan sweep nor the removal of another
\* job ever does.
THEOREM RowsKeepFiles == Spec => []RowKeepsFiles
<1>1. FileInv /\ [Next]_vars => FileInv'
  BY FileTypesKept, FreshKept, SweepKept, FilesKept DEF FileInv
<1>2. FileInv => RowKeepsFiles  BY DEF FileInv
<1> QED  BY <1>1, <1>2, InitFiles, PTL DEF Spec
=============================================================================
