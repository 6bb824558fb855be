-------------------------- MODULE DeltaFeedProofs --------------------------
(***************************************************************************)
(* Proofs about DeltaFeed, for any sources, runs, articles and batches.    *)
(*   - whatever gaps are let in: TypeOK;                                   *)
(*   - unless work goes on under a stream that found no ceiling            *)
(*     ("stale_ceiling"): NoLostChange, DeliveredIsTerminal, StaleIsOwed.  *)
(***************************************************************************)
EXTENDS DeltaFeed, FiniteSetTheorems, WellFoundedInduction, TLAPS

\* The rows there are, open or committed.
Used(i) == rows[i].state # "free"

\* A row that a run wrote to tell a change.
OfRun(i) == Used(i) /\ rows[i].kind \in Change /\ rows[i].run # NoRun

\* Ids are allocated in order, and a row names what its kind needs.
RowsFit ==
    \A i \in Id : Used(i) =>
        /\ i < next
        /\ rows[i].kind = "run_start" => rows[i].run \in Run
        /\ rows[i].kind \in Change => rows[i].article \in Article
        /\ OfRun(i) => SourceOf[rows[i].run] = HomeOf[rows[i].article]

\* A transaction is open only while its run is worked on, and a page's only once the
\* run has a row that is seen, below it: the sentinel.
OpenIsFloored ==
    \A i \in Id : rows[i].state = "open" /\ rows[i].run # NoRun =>
        /\ phase[rows[i].run] \in {"claimed", "floored"}
        /\ rows[i].kind \in Change =>
              /\ phase[rows[i].run] = "floored"
              /\ \E j \in Id : j < i /\ Seen(j) /\ rows[j].run = rows[i].run

FlooredHasFloor ==
    \A r \in Run : phase[r] = "floored" => \E j \in Id : Seen(j) /\ rows[j].run = r

\* A deletion tells of articles of its source; a tombstone waits only for a slow one.
OpenTombstones ==
    /\ \A a \in doomed : HomeOf[a] = deleting
    /\ \A i \in Id : rows[i].state = "open" /\ rows[i].run = NoRun => "slow_deletion" \in Gaps

\* Nothing below p can still change: its runs are over, their rows committed.
Settled(p) ==
    \A i \in Id : i < p /\ OfRun(i) => Seen(i) /\ phase[rows[i].run] = "ended"

\* A change that the consumer is to be told of (tombstones of slow deletions apart).
Owed(i) == Tells(i) /\ (rows[i].run # NoRun \/ "slow_deletion" \notin Gaps)

Following == op \in {"snapshot", "idle", "pull"}

\* What lies behind the consumer is settled, and so is what its stream may reach.
BehindIsSettled ==
    /\ cursor < next /\ last < next
    /\ Following => Settled(cursor + 1)
    /\ op = "pull" => limit <= next /\ Settled(limit) /\ Settled(last + 1)

\* All of it was delivered; only what was told is.
BehindIsDelivered ==
    /\ delivered \subseteq {i \in Id : Tells(i)}
    /\ op = "pull" => \A i \in Id : Owed(i) /\ i <= last => i \in delivered

\* The outbox by itself, and the consumer against it.
OutboxInv == RowsFit /\ OpenIsFloored /\ FlooredHasFloor /\ OpenTombstones
FollowInv == BehindIsSettled /\ BehindIsDelivered /\ NoLostChange /\ DeliveredIsTerminal

FeedInv == TypeOK /\ OutboxInv /\ FollowInv
-----------------------------------------------------------------------------
\* One run of a source is worked on at a time.
OneWorks ==
    \A q, r \in Run : q # r /\ SourceOf[q] = SourceOf[r] =>
        ~(phase[q] \in {"claimed", "floored"} /\ phase[r] \in {"claimed", "floored"})

\* What an open row of a run says of its article is still true of it, and nothing but a
\* removal (a deletion's tombstone) is recorded above it.
OpenIsTrue ==
    \A i \in Id : rows[i].state = "open" /\ OfRun(i) =>
        LET a == rows[i].article IN
        /\ rows[i].kind = "added" => stored[a] = "absent"
        /\ rows[i].kind = "updated" => stored[a] = "live" \/ a \in drifted
        /\ rows[i].kind = "removed" => stored[a] = "live"
        /\ \A j \in Id : Used(j) /\ rows[j].kind \in Change /\ rows[j].article = a
              => j <= i \/ rows[j].kind = "removed"

\* An article's rows tell what became of it.
RowsTell ==
    \A a \in Article \ drifted :
        /\ stored[a] = "absent" => ~\E i \in Id : Tells(i) /\ rows[i].article = a
        /\ (stored[a] = "removed" \/
              (stored[a] = "deleted" /\ \E i \in Id : Tells(i) /\ rows[i].article = a))
             => \E i \in Id : Tells(i) /\ rows[i].article = a /\ rows[i].kind = "removed"

\* The last thing that is told of an article is its removal.
RemovalIsLast ==
    \A i \in Id : Tells(i) /\ rows[i].kind = "removed" /\ rows[i].article \notin drifted =>
        /\ stored[rows[i].article] \in {"removed", "deleted"}
        /\ \A j \in Id : (i < j /\ Used(j) /\ rows[j].kind \in Change /\ rows[j].article = rows[i].article)
                 => rows[j].kind = "removed"

\* The articles against the outbox, and the consumer's copies against the articles.
ArticleInv == OneWorks /\ OpenIsTrue /\ RowsTell /\ RemovalIsLast
CopyInv == /\ ArticleInv
           /\ scanned # {} => Following
           /\ op = "pull" => cursor <= last
           /\ StaleIsOwed
-----------------------------------------------------------------------------
(* Least and greatest.  The least of a set of numbers is found by going down    *)
(* strictly smaller sets, which the library proves well-founded.               *)

\* Among the members of a finite set of numbers one is the least.
LEMMA FiniteHasLeast ==
  ASSUME NEW S \in SUBSET Nat, IsFiniteSet(S), S # {}
  PROVE  \E x \in S : \A y \in S : x <= y
<1> DEFINE Under(x) == {y \in S : y <= x}
           T == {U \in SUBSET S : \E x \in S : U = Under(x)}
<1>1. T \subseteq FiniteSubsetsOf(S) /\ T # {}
  <2>1. \A U \in SUBSET S : IsFiniteSet(U)
    BY FS_Subset
  <2>2. \A x \in S : Under(x) \in T
    OBVIOUS
  <2> QED BY <2>1, <2>2 DEF FiniteSubsetsOf
<1>2. PICK U \in T : \A V \in T : <<V, U>> \notin StrictSubsetOrdering(S)
  <2> HIDE DEF T
  <2> QED BY <1>1, FS_StrictSubsetOrderingWellFounded, WFMin
<1>3. PICK x \in S : U = Under(x)
  OBVIOUS
<1>4. ASSUME NEW y \in S, ~(x <= y) PROVE FALSE
  <2>1. Under(y) \in T
    OBVIOUS
  <2>2. \A z \in Under(y) : z \in Under(x)
    BY <1>4
  <2>3. x \in Under(x) /\ x \notin Under(y)
    BY <1>4
  <2> HIDE DEF Under
  <2> QED BY <1>2, <1>3, <2>1, <2>2, <2>3 DEF StrictSubsetOrdering
<1> QED BY <1>4

\* ... and one the greatest.
LEMMA FiniteHasGreatest ==
  ASSUME NEW S \in SUBSET Nat, IsFiniteSet(S), S # {}
  PROVE  \E x \in S : \A y \in S : y <= x
<1> DEFINE Over(x) == {y \in S : x <= y}
           T == {U \in SUBSET S : \E x \in S : U = Over(x)}
<1>1. T \subseteq FiniteSubsetsOf(S) /\ T # {}
  <2>1. \A U \in SUBSET S : IsFiniteSet(U)
    BY FS_Subset
  <2>2. \A x \in S : Over(x) \in T
    OBVIOUS
  <2> QED BY <2>1, <2>2 DEF FiniteSubsetsOf
<1>2. PICK U \in T : \A V \in T : <<V, U>> \notin StrictSubsetOrdering(S)
  <2> HIDE DEF T
  <2> QED BY <1>1, FS_StrictSubsetOrderingWellFounded, WFMin
<1>3. PICK x \in S : U = Over(x)
  OBVIOUS
<1>4. ASSUME NEW y \in S, ~(y <= x) PROVE FALSE
  <2>1. Over(y) \in T
    OBVIOUS
  <2>2. \A z \in Over(y) : z \in Over(x)
    BY <1>4
  <2>3. x \in Over(x) /\ x \notin Over(y)
    BY <1>4
  <2> HIDE DEF Over
  <2> QED BY <1>2, <1>3, <2>1, <2>2, <2>3 DEF StrictSubsetOrdering
<1> QED BY <1>4

\* Ids are finitely many numbers.
LEMMA IdFinite == Id \subseteq Nat /\ IsFiniteSet(Id) /\ \A ids \in SUBSET Id : IsFiniteSet(ids)
<1>1. MaxRow \in Nat
  BY BoundsAssumption
<1>2. IsFiniteSet(Id)
  BY <1>1, FS_Interval DEF Id
<1>3. Id \subseteq Nat
  BY <1>1 DEF Id
<1> QED BY <1>2, <1>3, FS_Subset

\* Least and Greatest find what they are named for, among ids.
LEMMA LeastIs ==
  ASSUME NEW ids \in SUBSET Id, ids # {}
  PROVE  Least(ids) \in ids /\ \A i \in ids : Least(ids) <= i
<1>1. IsFiniteSet(ids) /\ ids \in SUBSET Nat
  BY IdFinite
<1> QED BY <1>1, FiniteHasLeast DEF Least

\* Greatest of the empty set is 0.
LEMMA GreatestIs ==
  ASSUME NEW ids \in SUBSET Id
  PROVE  /\ Greatest(ids) \in 0..MaxRow
         /\ ids = {} => Greatest(ids) = 0
         /\ ids # {} => Greatest(ids) \in ids
         /\ \A i \in ids : i <= Greatest(ids)
<1>1. IsFiniteSet(ids) /\ ids \in SUBSET Nat
  BY IdFinite
<1>2. CASE ids = {}
  <2>1. Greatest(ids) = 0
    BY <1>2 DEF Greatest
  <2> QED BY <1>2, <2>1, BoundsAssumption
<1>3. CASE ids # {}
  <2>1. Greatest(ids) \in ids /\ \A i \in ids : i <= Greatest(ids)
    BY <1>1, <1>3, FiniteHasGreatest DEF Greatest
  <2>2. Greatest(ids) \in Id
    BY <1>3, <2>1
  <2>3. Greatest(ids) \in 0..MaxRow
    BY <2>2, BoundsAssumption DEF Id
  <2> QED BY <1>3, <2>1, <2>3
<1> QED BY <1>2, <1>3
-----------------------------------------------------------------------------
(* Types.                                                                   *)

\* The ceiling that a stream, or a snapshot, computes is a position of the outbox.
LEMMA PositionTypes ==
  ASSUME TypeOK
  PROVE  /\ Limit \in 1..(MaxRow + 1)
         /\ \A greatest \in 0..MaxRow : Watermark(greatest) \in 0..MaxRow
         /\ Examined \in 0..MaxRow
         /\ \A a \in Article : View(a) \in Nat /\ Applied(a) \in Nat
<1> USE BoundsAssumption
<1>1. FloorRows # {} => Least(FloorRows) \in Id
  BY LeastIs DEF FloorRows
<1>2. Limit \in 1..(MaxRow + 1)
  BY <1>1 DEF Limit, TypeOK, Id
<1>3. ASSUME NEW greatest \in 0..MaxRow PROVE Watermark(greatest) \in 0..MaxRow
  BY <1>1 DEF Watermark, Id
<1>4. Page \in SUBSET Id
  BY DEF Page, Ahead
<1>5. Examined \in 0..MaxRow
  BY <1>4, GreatestIs DEF Examined, TypeOK
<1>6. ASSUME NEW a \in Article PROVE View(a) \in Nat /\ Applied(a) \in Nat
  BY DEF View, Applied, TypeOK
<1> QED BY <1>2, <1>3, <1>5, <1>6

\* An insert keeps the outbox well-typed.
LEMMA InsertTypes ==
  ASSUME TypeOK, NEW kind \in Change \cup {"run_start"}, NEW r \in Run \cup {NoRun},
         NEW a \in Article \cup {NoArticle}, Insert(kind, r, a)
  PROVE  rows' \in [Id -> Row] /\ next' \in 1..(MaxRow + 1) /\ next \in Id
<1> USE BoundsAssumption
<1>1. [state |-> "open", kind |-> kind, run |-> r, article |-> a] \in Row
  BY DEF Row
<1>2. next \in Id
  BY DEF Insert, TypeOK, Id
<1>3. rows' \in [Id -> Row]
  BY <1>1, <1>2 DEF Insert, TypeOK
<1>4. next' \in 1..(MaxRow + 1)
  BY DEF Insert, TypeOK
<1> QED BY <1>2, <1>3, <1>4

\* So does a commit.
LEMMA CommitTypes ==
  ASSUME TypeOK, NEW ids, Commit(ids) PROVE rows' \in [Id -> Row]
<1>1. \A i \in Id : [rows[i] EXCEPT !.state = "committed"] \in Row
  BY DEF TypeOK, Row
<1> QED BY <1>1 DEF Commit, TypeOK

\* Init is well-typed.
LEMMA InitTypes == Init => TypeOK
  BY BoundsAssumption, TablesAssumption
     DEF Init, TypeOK, Free, Row, Change, Id, Phase

\* The steps of runs keep the types.
LEMMA RunTypes ==
  ASSUME TypeOK, NEW r \in Run, RunStep(r) PROVE TypeOK'
<1> USE BoundsAssumption, TablesAssumption DEF outbox, articles, deletion, stream
<1>1. CASE Claim(r) \/ EndRun(r) \/ Requeue(r)
  BY <1>1 DEF Claim, EndRun, Requeue, TypeOK, Phase
<1>2. CASE RecordRunStart(r)
  BY <1>2, InsertTypes DEF RecordRunStart, TypeOK
<1>3. CASE CommitRun(r)
  <2>1. rows' \in [Id -> Row]
    BY <1>3, CommitTypes DEF CommitRun
  <2>2. stored' \in [Article -> {"absent", "live", "removed", "deleted"}]
    BY <1>3 DEF CommitRun, TypeOK
  <2>3. content' \in [Article -> Nat]
    BY <1>3 DEF CommitRun, TypeOK
  <2> QED BY <1>3, <2>1, <2>2, <2>3 DEF CommitRun, TypeOK, Phase
<1>4. CASE RollBack(r)
  <2>1. Free \in Row
    BY DEF Free, Row
  <2> QED BY <1>4, <2>1 DEF RollBack, TypeOK
<1>5. ASSUME NEW a \in Article, RecordChange(r, a) PROVE TypeOK'
  <2>1. \E kind \in Change : Insert(kind, r, a)
    BY <1>5 DEF RecordChange, Change
  <2> QED BY <1>5, <2>1, InsertTypes DEF RecordChange, TypeOK
<1>6. ASSUME NEW a \in Article, RecordRemoval(r, a) PROVE TypeOK'
  BY <1>6, InsertTypes DEF RecordRemoval, TypeOK, Change
<1>7. ASSUME NEW a \in Article, Reappear(r, a) PROVE TypeOK'
  BY <1>7 DEF Reappear, TypeOK
<1> QED BY <1>1, <1>2, <1>3, <1>4, <1>5, <1>6, <1>7 DEF RunStep

\* So do resanitizing and deletions.
LEMMA ElsewhereTypes ==
  ASSUME TypeOK, Elsewhere PROVE TypeOK'
<1> USE BoundsAssumption, TablesAssumption DEF outbox, articles, deletion, stream
<1>1. ASSUME Cascade
      PROVE  /\ stored' \in [Article -> {"absent", "live", "removed", "deleted"}]
             /\ phase' \in [Run -> Phase]
             /\ deleting' = NoSource /\ doomed' = {} /\ UNCHANGED <<content, stream>>
  BY <1>1 DEF Cascade, TypeOK, Phase
<1>2. ASSUME NEW a \in Article, Resanitize(a) PROVE TypeOK'
  BY <1>2 DEF Resanitize, TypeOK
<1>3. ASSUME NEW a \in Article, RecordDeletion(a) PROVE TypeOK'
  BY <1>3, InsertTypes DEF RecordDeletion, TypeOK, Change
<1>4. CASE DeleteSource
  <2>1. doomed \subseteq Article /\ Cardinality(doomed) \in Nat
    BY FS_Subset, FS_CardinalityType DEF TypeOK
  <2>2. next' = next + Cardinality(doomed) /\ next' <= MaxRow + 1
    BY <1>4 DEF DeleteSource
  <2>3. next' \in 1..(MaxRow + 1)
    BY <2>1, <2>2 DEF TypeOK
  <2>4. PICK new \in [next..(next' - 1) -> doomed] :
           rows' = [i \in Id |->
                       IF i \in DOMAIN new
                       THEN [state |-> "committed", kind |-> "removed", run |-> NoRun,
                             article |-> new[i]]
                       ELSE rows[i]]
    BY <1>4 DEF DeleteSource
  <2>5. \A i \in DOMAIN new : new[i] \in Article
    BY <2>1
  <2>6. rows' \in [Id -> Row]
    BY <2>4, <2>5 DEF TypeOK, Row, Change
  <2>7. Cascade /\ drifted' \subseteq Article
    BY <1>4 DEF DeleteSource, LiveIn, TypeOK
  <2> QED BY <1>1, <2>3, <2>6, <2>7 DEF TypeOK
<1>5. ASSUME NEW s \in Deletable, ReadDeletion(s) PROVE TypeOK'
  BY <1>5 DEF ReadDeletion, LiveIn, TypeOK
<1>6. CASE CommitDeletion
  <2>1. Cascade /\ drifted' \subseteq Article /\ next' = next
    BY <1>6 DEF CommitDeletion, LiveIn, TypeOK
  <2>2. rows' \in [Id -> Row]
    BY <1>6, CommitTypes DEF CommitDeletion
  <2> QED BY <1>1, <2>1, <2>2 DEF TypeOK
<1> QED BY <1>2, <1>3, <1>4, <1>5, <1>6 DEF Elsewhere

\* So do the steps of the consumer.
LEMMA ConsumeTypes ==
  ASSUME TypeOK, Consume PROVE TypeOK'
<1> USE BoundsAssumption DEF outbox, articles, deletion, stream
<1>1. CASE StartSnapshot
  <2>1. cursor' \in 0..MaxRow
    BY <1>1, GreatestIs DEF StartSnapshot
  <2> QED BY <1>1, <2>1 DEF StartSnapshot, TypeOK
<1>2. CASE AnchorSnapshot
  <2>1. cursor' \in 0..MaxRow /\ delivered' \subseteq Id
    BY <1>2, PositionTypes DEF AnchorSnapshot, TypeOK
  <2> QED BY <1>2, <2>1 DEF AnchorSnapshot, TypeOK
<1>3. CASE StartPull
  BY <1>3, PositionTypes DEF StartPull, TypeOK
<1>4. CASE ReadBatch
  <2>1. Examined \in 0..MaxRow /\ copy' \in [Article -> Nat]
    BY <1>4, PositionTypes DEF ReadBatch
  <2>2. delivered' \subseteq Id
    BY <1>4 DEF ReadBatch, Page, Ahead, TypeOK
  <2> QED BY <1>4, <2>1, <2>2 DEF ReadBatch, Close, TypeOK
<1>5. CASE DropPull
  BY <1>5 DEF DropPull, Close, TypeOK
<1>6. ASSUME NEW a \in Article, ScanArticle(a) PROVE TypeOK'
  <2>1. copy' \in [Article -> Nat]
    BY <1>6, PositionTypes DEF ScanArticle, TypeOK
  <2> QED BY <1>6, <2>1 DEF ScanArticle, TypeOK
<1> QED BY <1>1, <1>2, <1>3, <1>4, <1>5, <1>6 DEF Consume

\* Every step keeps the types, whatever gaps are let in.
LEMMA NextTypes == TypeOK /\ [Next]_vars => TypeOK'
<1> SUFFICES ASSUME TypeOK, [Next]_vars PROVE TypeOK'
  OBVIOUS
<1>1. CASE UNCHANGED vars
  BY <1>1 DEF vars, outbox, articles, deletion, stream, TypeOK
<1> QED BY <1>1, RunTypes, ElsewhereTypes, ConsumeTypes DEF Next

\* The feed's variables keep their types, whatever gaps are let in.
THEOREM FeedTypes == Spec => []TypeOK
  BY InitTypes, NextTypes, PTL DEF Spec
-----------------------------------------------------------------------------
(* The outbox: what every step of a run, or of a deletion, does to its rows.  *)

\* What a step does to row i: nothing, roll it back, commit it, or insert it.
RowStep(i) ==
    \/ rows'[i] = rows[i]
    \/ rows[i].state = "open" /\ rows'[i] = Free
    \/ rows[i].state = "open" /\ rows'[i] = [rows[i] EXCEPT !.state = "committed"]
    \/ next <= i /\ i < next' /\ rows'[i].state # "free"

OutboxStep == /\ next <= next'
              /\ \A i \in Id : RowStep(i)
              /\ \A r \in Run : phase[r] = "ended" => phase'[r] = "ended"

\* An insert is such a step.
LEMMA InsertStep ==
  ASSUME TypeOK, NEW kind, NEW r, NEW a, Insert(kind, r, a)
  PROVE  /\ next <= next' /\ next < next'
         /\ \A i \in Id : RowStep(i)
         /\ \A i \in Id : i # next => rows'[i] = rows[i]
         /\ rows'[next] = [state |-> "open", kind |-> kind, run |-> r, article |-> a]
  BY BoundsAssumption DEF Insert, RowStep, TypeOK, Id

\* So is a commit of open rows.
LEMMA CommitStep ==
  ASSUME TypeOK, NEW r, Commit(OpenOf(r))
  PROVE  /\ \A i \in Id : RowStep(i)
         /\ \A i \in Id \ OpenOf(r) : rows'[i] = rows[i]
         /\ \A i \in OpenOf(r) : rows'[i] = [rows[i] EXCEPT !.state = "committed"]
  BY DEF Commit, OpenOf, RowStep, TypeOK

\* So is every step of a run.
LEMMA RunIsOutboxStep ==
  ASSUME TypeOK, OutboxInv, NEW r \in Run, RunStep(r) PROVE OutboxStep
<1> USE DEF outbox, OutboxStep, RowStep
<1>0. next \in Nat
  BY DEF TypeOK
<1>1. CASE Claim(r) \/ EndRun(r) \/ Requeue(r)
  BY <1>0, <1>1 DEF Claim, EndRun, Requeue, TypeOK, Active
<1>2. CASE RecordRunStart(r)
  BY <1>2, InsertStep DEF RecordRunStart
<1>3. CASE CommitRun(r)
  <2>1. phase[r] # "ended"
    BY <1>3, TablesAssumption DEF CommitRun, OpenOf, OutboxInv, OpenIsFloored
  <2>2. Commit(OpenOf(r)) /\ next' = next /\ phase' = [phase EXCEPT ![r] = "floored"]
    BY <1>3 DEF CommitRun
  <2>3. \A i \in Id : RowStep(i)
    BY <2>2, CommitStep
  <2>4. phase \in [Run -> Phase]
    BY DEF TypeOK
  <2> QED BY <1>0, <2>1, <2>2, <2>3, <2>4
<1>4. CASE RollBack(r)
  BY <1>0, <1>4 DEF RollBack, OpenOf, TypeOK
<1>5. ASSUME NEW a \in Article, RecordChange(r, a) PROVE OutboxStep
  BY <1>5, InsertStep DEF RecordChange
<1>6. ASSUME NEW a \in Article, RecordRemoval(r, a) PROVE OutboxStep
  BY <1>6, InsertStep DEF RecordRemoval
<1>7. ASSUME NEW a \in Article, Reappear(r, a) PROVE OutboxStep
  BY <1>0, <1>7 DEF Reappear
<1> QED BY <1>1, <1>2, <1>3, <1>4, <1>5, <1>6, <1>7 DEF RunStep

\* The ids from m up to, and without, n.
LEMMA UpTo ==
  ASSUME NEW m \in Nat, NEW n \in Nat
  PROVE  \A i \in Nat : i \in m..(n - 1) <=> (m <= i /\ i < n)
  OBVIOUS

\* What a deletion at once does: the new rows are tombstones, seen from the start.
LEMMA DeletionIs ==
  ASSUME TypeOK, DeleteSource
  PROVE  /\ next <= next' /\ next' <= MaxRow + 1 /\ next' \in Nat
         /\ \A i \in Id : ~(next <= i /\ i < next') => rows'[i] = rows[i]
         /\ \A i \in Id : (next <= i /\ i < next') =>
               /\ rows'[i].state = "committed" /\ rows'[i].kind = "removed"
               /\ rows'[i].run = NoRun /\ rows'[i].article \in doomed
         /\ \A a \in doomed : \E i \in Id : next <= i /\ i < next' /\ rows'[i].article = a
<1> DEFINE live == doomed
<1>1. Cardinality(live) \in Nat
  BY TablesAssumption, FS_Subset, FS_CardinalityType DEF TypeOK
<1>2. next' = next + Cardinality(live) /\ next' <= MaxRow + 1
  BY DEF DeleteSource
<1>3. next' \in Nat /\ next \in Nat \ {0} /\ next <= next'
  BY <1>1, <1>2 DEF TypeOK
<1>4. PICK new \in [next..(next' - 1) -> live] :
         /\ \A a \in live : \E i \in DOMAIN new : new[i] = a
         /\ rows' = [i \in Id |->
                     IF i \in DOMAIN new
                     THEN [state |-> "committed", kind |-> "removed", run |-> NoRun,
                           article |-> new[i]]
                     ELSE rows[i]]
  BY DEF DeleteSource
<1> HIDE DEF live
<1>0. DOMAIN new = next..(next' - 1)
  BY <1>4
<1>5. \A i \in Id : i \in DOMAIN new <=> (next <= i /\ i < next')
  <2>1. \A i \in Nat : i \in next..(next' - 1) <=> (next <= i /\ i < next')
    BY <1>3, UpTo
  <2> QED BY <1>0, <2>1, IdFinite
<1>6. DOMAIN new \subseteq Id
  BY <1>0, <1>2, <1>3, BoundsAssumption DEF Id
<1>7. \A i \in DOMAIN new : new[i] \in live
  BY <1>4
<1>8. \A a \in live : \E i \in Id : next <= i /\ i < next' /\ rows'[i].article = a
  BY <1>4, <1>5, <1>6
<1>9. /\ \A i \in Id : ~(next <= i /\ i < next') => rows'[i] = rows[i]
      /\ \A i \in Id : (next <= i /\ i < next') =>
            /\ rows'[i].state = "committed" /\ rows'[i].kind = "removed"
            /\ rows'[i].run = NoRun /\ rows'[i].article \in live
  BY <1>4, <1>5, <1>7
<1> QED BY <1>2, <1>3, <1>8, <1>9 DEF live

\* So is every step elsewhere.
LEMMA ElsewhereIsOutboxStep ==
  ASSUME TypeOK, OutboxInv, Elsewhere PROVE OutboxStep
<1> USE DEF outbox, OutboxStep, RowStep
<1>0. next \in Nat
  BY DEF TypeOK
<1>1. ASSUME Cascade PROVE \A r \in Run : phase[r] = "ended" => phase'[r] = "ended"
  BY <1>1 DEF Cascade
<1>2. ASSUME NEW a \in Article, Resanitize(a) PROVE OutboxStep
  BY <1>0, <1>2 DEF Resanitize
<1>3. ASSUME NEW a \in Article, RecordDeletion(a) PROVE OutboxStep
  BY <1>3, InsertStep DEF RecordDeletion
<1>4. CASE DeleteSource
  <2>1. Cascade
    BY <1>4 DEF DeleteSource
  <2> QED BY <1>1, <1>4, <2>1, DeletionIs
<1>5. ASSUME NEW s \in Deletable, ReadDeletion(s) PROVE OutboxStep
  BY <1>0, <1>5 DEF ReadDeletion
<1>6. CASE CommitDeletion
  BY <1>0, <1>1, <1>6, CommitStep DEF CommitDeletion
<1> QED BY <1>2, <1>3, <1>4, <1>5, <1>6 DEF Elsewhere

\* At first there is no row.
LEMMA OutboxInit == Init => OutboxInv
  BY DEF Init, OutboxInv, RowsFit, OpenIsFloored, FlooredHasFloor, OpenTombstones, Used, OfRun,
         Free

\* What OutboxInv needs of a row that is inserted by an open transaction.
LEMMA InsertKeepsOutbox ==
  ASSUME TypeOK, TypeOK', OutboxInv, NEW kind \in Change \cup {"run_start"},
         NEW r \in Run \cup {NoRun}, NEW a \in Article \cup {NoArticle}, Insert(kind, r, a),
         UNCHANGED <<phase, deletion>>,
         kind = "run_start" => r \in Run,
         kind \in Change => a \in Article,
         kind \in Change /\ r # NoRun =>
            SourceOf[r] = HomeOf[a] /\ phase[r] = "floored",
         r # NoRun => phase[r] \in {"claimed", "floored"},
         r = NoRun => "slow_deletion" \in Gaps
  PROVE  OutboxInv'
<1> USE DEF OutboxInv
<1>1. /\ \A i \in Id : i # next => rows'[i] = rows[i]
      /\ rows'[next] = [state |-> "open", kind |-> kind, run |-> r, article |-> a]
      /\ next < next' /\ next \in Id
  BY InsertStep, InsertTypes
<1>0. /\ next \in Nat /\ next' \in Nat /\ \A i \in Id : i \in Nat
      /\ \A i \in Id : Used(i) => i < next
      /\ \A i \in Id : i < next => i # next
  BY IdFinite DEF TypeOK, RowsFit
<1>2. RowsFit'
  BY <1>0, <1>1 DEF RowsFit, Used, OfRun, Change
<1>3. OpenIsFloored'
  <2> SUFFICES ASSUME NEW i \in Id, rows'[i].state = "open", rows'[i].run # NoRun
               PROVE  /\ phase[rows'[i].run] \in {"claimed", "floored"}
                      /\ rows'[i].kind \in Change =>
                            /\ phase[rows'[i].run] = "floored"
                            /\ \E j \in Id : j < i /\ rows'[j].state = "committed"
                                                  /\ rows'[j].run = rows'[i].run
    BY DEF OpenIsFloored, Seen
  <2>1. CASE i = next
    <3>1. rows'[i].run = r /\ rows'[i].kind = kind /\ r \in Run
      BY <1>1, <2>1
    <3>2. ASSUME kind \in Change
          PROVE  \E j \in Id : j < i /\ rows'[j].state = "committed" /\ rows'[j].run = r
      <4>1. PICK j \in Id : Seen(j) /\ rows[j].run = r
        BY <3>1, <3>2 DEF FlooredHasFloor
      <4>2. j < next
        BY <1>0, <4>1 DEF Seen, Used
      <4>3. rows'[j] = rows[j]
        BY <1>0, <1>1, <4>2
      <4> QED BY <2>1, <4>1, <4>2, <4>3 DEF Seen
    <3> QED BY <3>1, <3>2
  <2>2. CASE i # next
    <3>1. rows'[i] = rows[i]
      BY <1>1, <2>2
    <3>2. \A j \in Id : Seen(j) => rows'[j] = rows[j]
      BY <1>0, <1>1 DEF Seen, Used
    <3> QED BY <3>1, <3>2 DEF OpenIsFloored, Seen
  <2> QED BY <2>1, <2>2
<1>4. FlooredHasFloor'
  BY <1>0, <1>1 DEF FlooredHasFloor, Seen, Used
<1>5. OpenTombstones'
  BY <1>1 DEF OpenTombstones, deletion
<1> QED BY <1>2, <1>3, <1>4, <1>5

\* A step that leaves the rows alone keeps OutboxInv, if it moves no run that has rows
\* open, floors no run, and dooms no article of another source.
LEMMA SameRowsKeepOutbox ==
  ASSUME OutboxInv, UNCHANGED outbox,
         \A r \in Run : phase'[r] = "floored" => phase[r] = "floored",
         \A i \in Id : rows[i].state = "open" /\ rows[i].run # NoRun
                          => phase'[rows[i].run] = phase[rows[i].run],
         \A a \in doomed' : HomeOf[a] = deleting'
  PROVE  OutboxInv'
<1> USE DEF OutboxInv, outbox
<1>1. RowsFit'
  BY DEF RowsFit, Used, OfRun
<1>2. OpenIsFloored'
  BY DEF OpenIsFloored, Seen
<1>3. FlooredHasFloor'
  BY DEF FlooredHasFloor, Seen
<1>4. OpenTombstones'
  BY DEF OpenTombstones
<1> QED BY <1>1, <1>2, <1>3, <1>4

\* The steps of a run keep OutboxInv.
LEMMA RunKeepsOutbox ==
  ASSUME TypeOK, TypeOK', OutboxInv, NEW r \in Run, RunStep(r) PROVE OutboxInv'
<1> USE TablesAssumption DEF articles, deletion, stream
<1>1. CASE Claim(r) \/ EndRun(r) \/ Requeue(r)
  <2>1. OpenOf(r) = {} /\ UNCHANGED <<outbox, deletion>>
    BY <1>1 DEF Claim, EndRun, Requeue, OpenOf, OutboxInv, OpenIsFloored
  <2>2. \A q \in Run : phase'[q] = IF q = r THEN phase'[r] ELSE phase[q]
    BY <1>1 DEF Claim, EndRun, Requeue, TypeOK
  <2>3. phase'[r] # "floored"
    BY <1>1 DEF Claim, EndRun, Requeue, TypeOK
  <2>4. \A i \in Id : rows[i].state = "open" /\ rows[i].run # NoRun
                         => rows[i].run \in Run /\ rows[i].run # r
    BY <2>1 DEF OpenOf, TypeOK, Row
  <2>5. \A i \in Id : rows[i].state = "open" /\ rows[i].run # NoRun
                         => phase'[rows[i].run] = phase[rows[i].run]
    BY <2>2, <2>4
  <2> QED BY <2>1, <2>2, <2>3, <2>5, SameRowsKeepOutbox DEF OutboxInv, OpenTombstones
<1>2. CASE RecordRunStart(r)
  BY <1>2, InsertKeepsOutbox DEF RecordRunStart, Works, Change
<1>3. CASE CommitRun(r)
  <2> USE DEF OutboxInv
  <2>1. /\ \A i \in Id \ OpenOf(r) : rows'[i] = rows[i]
        /\ \A i \in OpenOf(r) : rows'[i] = [rows[i] EXCEPT !.state = "committed"]
        /\ next' = next /\ UNCHANGED <<deleting, doomed>>
        /\ OpenOf(r) # {} /\ phase' = [phase EXCEPT ![r] = "floored"]
    BY <1>3, CommitStep DEF CommitRun
  <2>2. \A i \in Id : /\ rows'[i].run = rows[i].run /\ rows'[i].kind = rows[i].kind
                      /\ rows'[i].article = rows[i].article
                      /\ Seen(i) => rows'[i].state = "committed"
                      /\ rows'[i].state = "open" => rows[i].state = "open" /\ rows[i].run # r
                      /\ rows'[i].state # "free" => rows[i].state # "free"
    BY <2>1 DEF OpenOf, TypeOK, Row, Seen
  <2>3. RowsFit'
    BY <2>1, <2>2 DEF RowsFit, Used, OfRun
  <2>4. OpenIsFloored'
    BY <2>1, <2>2 DEF OpenIsFloored, Seen, TypeOK
  <2>5. FlooredHasFloor'
    <3>1. \E j \in Id : rows'[j].state = "committed" /\ rows'[j].run = r
      BY <2>1 DEF OpenOf, TypeOK, Row
    <3> QED BY <2>1, <2>2, <3>1 DEF FlooredHasFloor, Seen, TypeOK
  <2>6. OpenTombstones'
    BY <2>1, <2>2 DEF OpenTombstones
  <2> QED BY <2>3, <2>4, <2>5, <2>6
<1>4. CASE RollBack(r)
  <2> USE DEF OutboxInv
  <2>1. \A i \in Id : \/ rows'[i] = rows[i]
                      \/ rows[i].state = "open" /\ rows'[i] = Free
    BY <1>4 DEF RollBack, OpenOf, TypeOK
  <2>2. UNCHANGED <<next, phase, deletion>>
    BY <1>4 DEF RollBack
  <2>3. \A i \in Id : /\ rows'[i].state # "free" => rows'[i] = rows[i]
                      /\ rows[i].state = "committed" => rows'[i] = rows[i]
    BY <2>1 DEF Free
  <2>4. RowsFit'
    BY <2>2, <2>3 DEF RowsFit, Used, OfRun
  <2>5. OpenIsFloored'
    BY <2>2, <2>3 DEF OpenIsFloored, Seen
  <2>6. FlooredHasFloor'
    BY <2>2, <2>3 DEF FlooredHasFloor, Seen
  <2>7. OpenTombstones'
    BY <2>2, <2>3 DEF OpenTombstones
  <2> QED BY <2>4, <2>5, <2>6, <2>7
<1>5. ASSUME NEW a \in Article, RecordChange(r, a) PROVE OutboxInv'
  <2>1. \E kind \in Change : Insert(kind, r, a)
    BY <1>5 DEF RecordChange, Change
  <2>2. "run_start" \notin Change
    BY DEF Change
  <2> QED BY <1>5, <2>1, <2>2, InsertKeepsOutbox DEF RecordChange, Works
<1>6. ASSUME NEW a \in Article, RecordRemoval(r, a) PROVE OutboxInv'
  BY <1>6, InsertKeepsOutbox DEF RecordRemoval, Change
<1>7. ASSUME NEW a \in Article, Reappear(r, a) PROVE OutboxInv'
  BY <1>7, SameRowsKeepOutbox DEF Reappear, OutboxInv, OpenIsFloored, OpenTombstones
<1> QED BY <1>1, <1>2, <1>3, <1>4, <1>5, <1>6, <1>7 DEF RunStep

\* Resanitizing and deletions keep OutboxInv.
LEMMA ElsewhereKeepsOutbox ==
  ASSUME TypeOK, TypeOK', OutboxInv, Elsewhere PROVE OutboxInv'
<1> USE TablesAssumption DEF articles, deletion, stream
<1>0. ASSUME Cascade
      PROVE  /\ \A r \in Run : SourceOf[r] = deleting => OpenOf(r) = {}
             /\ \A r \in Run : phase'[r] = IF SourceOf[r] = deleting THEN "ended" ELSE phase[r]
             /\ deleting' = NoSource /\ doomed' = {}
  BY <1>0 DEF Cascade
<1>1. ASSUME NEW a \in Article, Resanitize(a) PROVE OutboxInv'
  BY <1>1, SameRowsKeepOutbox DEF Resanitize, OutboxInv, OpenIsFloored, OpenTombstones
<1>2. ASSUME NEW a \in Article, RecordDeletion(a) PROVE OutboxInv'
  BY <1>2, InsertKeepsOutbox DEF RecordDeletion, Change
<1>3. CASE DeleteSource
  <2> USE DEF OutboxInv
  <2>1. /\ next <= next' /\ next' \in Nat /\ next \in Nat /\ \A i \in Id : i \in Nat
        /\ \A i \in Id : ~(next <= i /\ i < next') => rows'[i] = rows[i]
        /\ \A i \in Id : (next <= i /\ i < next') =>
              /\ rows'[i].state = "committed" /\ rows'[i].kind = "removed"
              /\ rows'[i].run = NoRun /\ rows'[i].article \in Article
    BY <1>3, DeletionIs, IdFinite DEF TypeOK
  <2>2. /\ doomed' = {}
        /\ \A r \in Run : SourceOf[r] = deleting => OpenOf(r) = {}
        /\ \A r \in Run : phase'[r] = IF SourceOf[r] = deleting THEN "ended" ELSE phase[r]
    BY <1>0, <1>3 DEF DeleteSource
  <2>3. \A i \in Id : /\ rows[i].state # "free" => rows'[i] = rows[i]
                      /\ rows'[i].state = "open" => rows'[i] = rows[i]
    BY <2>1 DEF RowsFit, Used
  <2>4. \A i \in Id : rows[i].state = "open" /\ rows[i].run # NoRun
                         => phase'[rows[i].run] = phase[rows[i].run]
    BY <2>2 DEF OpenOf, TypeOK, Row
  <2>5. RowsFit'
    <3> SUFFICES ASSUME NEW i \in Id, rows'[i].state # "free"
                 PROVE  /\ i < next'
                        /\ rows'[i].kind = "run_start" => rows'[i].run \in Run
                        /\ rows'[i].kind \in Change => rows'[i].article \in Article
                        /\ rows'[i].kind \in Change /\ rows'[i].run # NoRun
                              => SourceOf[rows'[i].run] = HomeOf[rows'[i].article]
      BY DEF RowsFit, Used, OfRun
    <3>1. CASE next <= i /\ i < next'
      BY <2>1, <3>1
    <3>2. CASE ~(next <= i /\ i < next')
      <4>1. rows'[i] = rows[i] /\ i < next
        BY <2>1, <3>2 DEF RowsFit, Used
      <4>2. i < next'
        BY <2>1, <4>1
      <4> QED BY <4>1, <4>2 DEF RowsFit, Used, OfRun
    <3> QED BY <3>1, <3>2
  <2>6. OpenIsFloored'
    BY <2>2, <2>3, <2>4 DEF OpenIsFloored, Seen
  <2>7. FlooredHasFloor'
    BY <2>2, <2>3 DEF FlooredHasFloor, Seen
  <2>8. OpenTombstones'
    BY <2>2, <2>3 DEF OpenTombstones
  <2> QED BY <2>5, <2>6, <2>7, <2>8
<1>4. ASSUME NEW s \in Deletable, ReadDeletion(s) PROVE OutboxInv'
  BY <1>4, SameRowsKeepOutbox DEF ReadDeletion, LiveIn
<1>5. CASE CommitDeletion
  <2> USE DEF OutboxInv
  <2>1. /\ \A i \in Id \ OpenOf(NoRun) : rows'[i] = rows[i]
        /\ \A i \in OpenOf(NoRun) : rows'[i] = [rows[i] EXCEPT !.state = "committed"]
        /\ next' = next /\ doomed' = {}
        /\ \A r \in Run : SourceOf[r] = deleting => OpenOf(r) = {}
        /\ \A r \in Run : phase'[r] = IF SourceOf[r] = deleting THEN "ended" ELSE phase[r]
    BY <1>0, <1>5, CommitStep DEF CommitDeletion
  <2>2. \A i \in Id : /\ rows'[i].run = rows[i].run /\ rows'[i].kind = rows[i].kind
                      /\ rows'[i].article = rows[i].article
                      /\ Seen(i) => rows'[i].state = "committed"
                      /\ rows'[i].state = "open" => rows[i].state = "open" /\ rows[i].run # NoRun
                      /\ rows'[i].state # "free" => rows[i].state # "free"
    BY <2>1 DEF OpenOf, TypeOK, Row, Seen
  <2>3. RowsFit'
    BY <2>1, <2>2 DEF RowsFit, Used, OfRun
  <2>4. \A i \in Id : rows[i].state = "open" /\ rows[i].run # NoRun
                         => phase'[rows[i].run] = phase[rows[i].run]
    BY <2>1 DEF OpenOf, TypeOK, Row
  <2>5. OpenIsFloored'
    BY <2>1, <2>2, <2>4 DEF OpenIsFloored, Seen
  <2>6. FlooredHasFloor'
    BY <2>1, <2>2 DEF FlooredHasFloor, Seen
  <2>7. OpenTombstones'
    BY <2>1, <2>2 DEF OpenTombstones
  <2> QED BY <2>3, <2>5, <2>6, <2>7
<1> QED BY <1>1, <1>2, <1>3, <1>4, <1>5 DEF Elsewhere

\* Every step keeps OutboxInv, whatever gaps are let in.
LEMMA NextKeepsOutbox ==
  ASSUME TypeOK, TypeOK', OutboxInv, [Next]_vars PROVE OutboxInv'
<1>1. CASE UNCHANGED <<outbox, phase, deletion>>
  BY <1>1, SameRowsKeepOutbox DEF OutboxInv, OpenTombstones, deletion
<1>2. CASE Consume
  BY <1>1, <1>2 DEF Consume, StartSnapshot, AnchorSnapshot, ScanArticle, StartPull, ReadBatch,
                    DropPull
<1> QED BY <1>1, <1>2, RunKeepsOutbox, ElsewhereKeepsOutbox DEF Next, vars
-----------------------------------------------------------------------------
(* The ceiling: below it nothing can still change.                          *)

\* A position that no row of an active run lies below is settled, as far as ids go.
LEMMA Ceiling ==
  ASSUME TypeOK, OutboxInv, NEW p \in Nat, p <= next, \A j \in FloorRows : p <= j
  PROVE  Settled(p)
<1> SUFFICES ASSUME NEW i \in Id, i < p, OfRun(i)
             PROVE  Seen(i) /\ phase[rows[i].run] = "ended"
  BY DEF Settled
<1>0. rows[i].run \in Run /\ i \in Nat
  BY IdFinite DEF OfRun, TypeOK, Row
<1>1. CASE Seen(i)
  <2>1. i \notin FloorRows
    BY <1>0
  <2> QED BY <1>0, <1>1, <2>1 DEF FloorRows, OfRun, TypeOK, Phase, Active
<1>2. CASE ~Seen(i)
  <2>1. rows[i].state = "open"
    BY <1>2 DEF OfRun, Used, Seen, TypeOK, Row
  <2>2. PICK j \in Id : j < i /\ Seen(j) /\ rows[j].run = rows[i].run
    BY <2>1 DEF OutboxInv, OpenIsFloored, OfRun
  <2>3. phase[rows[i].run] = "floored"
    BY <2>1 DEF OutboxInv, OpenIsFloored, OfRun
  <2>4. j \in FloorRows
    BY <2>2, <2>3 DEF FloorRows, Active, OfRun
  <2>5. j \in Nat /\ p <= j
    BY <2>4, IdFinite
  <2> QED BY <1>0, <2>2, <2>5
<1> QED BY <1>1, <1>2

\* Settled ids stay settled.
LEMMA SettledStays ==
  ASSUME TypeOK, OutboxInv, OutboxStep, NEW p \in Nat, p <= next, Settled(p) PROVE Settled(p)'
<1> SUFFICES ASSUME NEW i \in Id, i < p, OfRun(i)'
             PROVE  Seen(i)' /\ phase'[rows'[i].run] = "ended"
  BY DEF Settled
<1>1. i \in Nat /\ next \in Nat /\ ~(next <= i)
  BY IdFinite DEF TypeOK
<1>2. RowStep(i)
  BY DEF OutboxStep
<1>3. OfRun(i) /\ rows'[i].run = rows[i].run
  BY <1>1, <1>2 DEF RowStep, OfRun, Used, Free, Change, TypeOK, Row
<1>4. Seen(i) /\ phase[rows[i].run] = "ended"
  BY <1>3 DEF Settled
<1>5. rows'[i] = rows[i]
  BY <1>1, <1>2, <1>4 DEF RowStep, Seen
<1>6. rows[i].run \in Run
  BY <1>3 DEF OfRun, TypeOK, Row
<1> QED BY <1>4, <1>5, <1>6 DEF Seen, OutboxStep
-----------------------------------------------------------------------------
(* The consumer's position.                                                 *)

\* A row that is told, of those the consumer is owed, comes into sight ahead of every
\* settled position.
LEMMA SeenAhead ==
  ASSUME TypeOK, OutboxInv, OutboxStep, NEW p \in Nat, p < next, Settled(p + 1),
         NEW i \in Id, i <= p, Owed(i)'
  PROVE  Owed(i)
<1>1. i \in Nat /\ next \in Nat /\ ~(next <= i) /\ i < p + 1
  BY IdFinite DEF TypeOK
<1>2. RowStep(i)
  BY DEF OutboxStep
<1>3. CASE rows'[i] = rows[i]
  BY <1>3 DEF Owed, Tells, Seen
<1>4. CASE rows[i].state = "open" /\ rows'[i] = [rows[i] EXCEPT !.state = "committed"]
  <2>1. rows[i].kind \in Change /\ rows'[i].run = rows[i].run
    BY <1>4 DEF Owed, Tells, Change, TypeOK, Row
  <2>2. rows[i].run = NoRun
    BY <1>1, <1>4, <2>1 DEF Settled, OfRun, Used, Seen
  <2> QED BY <1>4, <2>1, <2>2 DEF Owed, OutboxInv, OpenTombstones
<1> QED BY <1>1, <1>2, <1>3, <1>4 DEF RowStep, Owed, Tells, Seen, Free

\* Steps that only others take leave the consumer as it was: what it has passed stays
\* settled, and nothing that it is owed comes into sight behind it.
LEMMA OthersKeepFollow ==
  ASSUME TypeOK, TypeOK', OutboxInv, OutboxStep, FollowInv, UNCHANGED stream
  PROVE  FollowInv'
<1> USE DEF FollowInv, stream
<1>1. /\ cursor \in Nat /\ last \in Nat /\ limit \in Nat /\ next \in Nat /\ next' \in Nat
      /\ next <= next' /\ cursor < next /\ last < next
  BY DEF TypeOK, OutboxStep, BehindIsSettled
<1>2. BehindIsSettled'
  <2>1. Following => Settled(cursor + 1)'
    BY <1>1, SettledStays DEF BehindIsSettled
  <2>2. op = "pull" => limit <= next /\ Settled(limit)' /\ Settled(last + 1)'
    BY <1>1, SettledStays DEF BehindIsSettled
  <2>3. /\ Following' = Following /\ cursor' = cursor /\ last' = last /\ limit' = limit /\ op' = op
        /\ op = "pull" => limit <= next'
    BY <1>1, <2>2 DEF Following
  <2> QED BY <1>1, <2>1, <2>2, <2>3 DEF BehindIsSettled
<1>3. \A i \in delivered : i \in Id /\ rows'[i] = rows[i] /\ Tells(i)
  <2> TAKE i \in delivered
  <2>1. i \in Id /\ Tells(i)
    BY DEF BehindIsDelivered
  <2>2. i < next /\ i \in Nat
    BY <2>1, IdFinite DEF OutboxInv, RowsFit, Used, Tells, Seen
  <2>3. ~(next <= i) /\ rows[i].state # "open"
    BY <1>1, <2>1, <2>2 DEF Tells, Seen
  <2> QED BY <2>1, <2>3 DEF OutboxStep, RowStep
<1>4. BehindIsDelivered'
  <2>1. ASSUME op = "pull", NEW i \in Id, Owed(i)', i <= last PROVE i \in delivered
    <3>1. Owed(i)
      BY <1>1, <2>1, SeenAhead DEF BehindIsSettled
    <3> QED BY <2>1, <3>1 DEF BehindIsDelivered
  <2> QED BY <1>3, <2>1 DEF BehindIsDelivered, Owed, Tells, Seen
<1>5. NoLostChange'
  <2>1. ASSUME Following, NEW i \in Id, Owed(i)', i <= cursor PROVE i \in delivered
    <3>1. Owed(i)
      BY <1>1, <2>1, SeenAhead DEF BehindIsSettled
    <3> QED BY <2>1, <3>1 DEF NoLostChange, Owed, Following
  <2> QED BY <2>1 DEF NoLostChange, Owed, Following, Tells, Seen
<1>6. DeliveredIsTerminal'
  <2>1. \A i \in delivered : rows[i].run # NoRun => rows[i].run \in Run
    BY <1>3 DEF TypeOK, Row
  <2> QED BY <1>3, <2>1 DEF DeliveredIsTerminal, OutboxStep
<1> QED BY <1>2, <1>4, <1>5, <1>6

\* A stream reads on from the last row it examined: everything told up to the last
\* row of its page is in that page or was delivered before.
LEMMA PageIs ==
  ASSUME TypeOK
  PROVE  /\ Page \subseteq {i \in Id : Seen(i) /\ i < limit}
         /\ last <= Examined
         /\ Examined = last \/ (Examined \in Page /\ Examined < limit)
         /\ \A i \in Id : Seen(i) /\ last < i /\ i <= Examined => i \in Page
<1>1. Page \subseteq Ahead /\ Ahead \subseteq Id /\ Page \in SUBSET Id
  BY DEF Page, Ahead
<1>2. CASE Page = {}
  <2>1. Examined = last
    BY <1>2 DEF Examined
  <2>2. \A i \in Id : ~(last < i /\ i <= last)
    BY IdFinite DEF TypeOK
  <2> QED BY <1>1, <1>2, <2>1, <2>2 DEF TypeOK
<1>3. CASE Page # {}
  <2> DEFINE g == Greatest(Page)
  <2>1. g \in Page /\ Examined = g /\ g \in Nat /\ \A i \in Page : i <= g
    BY <1>1, <1>3, GreatestIs, IdFinite DEF Examined
  <2>2. last < g /\ g < limit /\ last \in Nat /\ limit \in Nat
    BY <1>1, <2>1 DEF Ahead, TypeOK
  <2>3. ASSUME NEW i \in Id, Seen(i), last < i, i <= g PROVE i \in Page
    <3>1. i \in Ahead /\ i \in Nat
      BY <2>1, <2>2, <2>3, IdFinite DEF Ahead
    <3>2. {j \in Ahead : j < i} \subseteq {j \in Ahead : j < g}
      <4>1. \A j \in Ahead : j \in Nat
        BY <1>1, IdFinite
      <4>2. \A j \in Ahead : j < i => j < g
        BY <2>1, <2>3, <3>1, <4>1
      <4> QED BY <4>2
    <3>3. IsFiniteSet({j \in Ahead : j < g})
      BY <1>1, IdFinite
    <3>4. /\ Cardinality({j \in Ahead : j < i}) \in Nat /\ Cardinality({j \in Ahead : j < g}) \in Nat
          /\ Cardinality({j \in Ahead : j < i}) <= Cardinality({j \in Ahead : j < g})
      BY <3>2, <3>3, FS_Subset, FS_CardinalityType
    <3>5. Cardinality({j \in Ahead : j < g}) < Batch
      BY <2>1 DEF Page
    <3> QED BY <3>1, <3>4, <3>5, BoundsAssumption DEF Page
  <2> QED BY <1>1, <2>1, <2>2, <2>3 DEF Ahead
<1> QED BY <1>2, <1>3

\* At first nothing lies behind the consumer.
LEMMA FollowInit == Init => FollowInv
  BY IdFinite DEF Init, FollowInv, BehindIsSettled, BehindIsDelivered, Following, NoLostChange,
         DeliveredIsTerminal

\* The consumer's steps keep FollowInv, if a stream that found no ceiling ends with
\* the rows there were.
LEMMA ConsumeKeepsFollow ==
  ASSUME "stale_ceiling" \notin Gaps, TypeOK, TypeOK', OutboxInv, FollowInv, Consume
  PROVE  FollowInv'
<1> USE DEF FollowInv, outbox, articles, stream
<1>0. /\ cursor \in Nat /\ last \in Nat /\ limit \in Nat /\ next \in Nat \ {0}
      /\ \A i \in Id : i \in Nat
      /\ \A i \in Id : Seen(i) => i < next
  BY IdFinite DEF TypeOK, OutboxInv, RowsFit, Used, Seen
<1>1. CASE StartSnapshot
  <2>1. op' = "measuring" /\ UNCHANGED <<outbox, phase, last, limit, delivered>>
    BY <1>1 DEF StartSnapshot
  <2>2. cursor' < next
    <3>1. \A i \in {j \in Id : Seen(j)} : i < next
      BY <1>0
    <3> QED BY <1>0, <1>1, <3>1, GreatestIs DEF StartSnapshot
  <2>3. BehindIsSettled'
    BY <2>1, <2>2 DEF BehindIsSettled, Following
  <2>4. BehindIsDelivered' /\ NoLostChange' /\ DeliveredIsTerminal'
    BY <2>1 DEF BehindIsDelivered, NoLostChange, DeliveredIsTerminal, Tells, Seen, Owed
  <2> QED BY <2>3, <2>4
<1>2. CASE AnchorSnapshot
  <2>1. /\ op' = "snapshot" /\ UNCHANGED <<outbox, phase, last, limit>>
        /\ cursor' = Watermark(cursor) /\ delivered' = {i \in Id : Tells(i) /\ i <= cursor'}
    BY <1>2 DEF AnchorSnapshot
  <2>2. cursor' \in Nat /\ cursor' <= cursor /\ (\A j \in FloorRows : cursor' + 1 <= j)
    <3>1. CASE FloorRows # {} /\ Least(FloorRows) <= cursor
      <4>1. Least(FloorRows) \in Id /\ Least(FloorRows) \in Nat \ {0}
        BY <3>1, LeastIs, BoundsAssumption DEF FloorRows, Id
      <4>2. cursor' = Least(FloorRows) - 1
        BY <2>1, <3>1 DEF Watermark
      <4>3. \A j \in FloorRows : j \in Nat /\ Least(FloorRows) <= j
        BY <1>0, LeastIs DEF FloorRows
      <4> QED BY <1>0, <3>1, <4>1, <4>2, <4>3
    <3>2. CASE ~(FloorRows # {} /\ Least(FloorRows) <= cursor)
      <4>1. cursor' = cursor
        BY <2>1, <3>2 DEF Watermark
      <4>2. ASSUME NEW j \in FloorRows PROVE cursor + 1 <= j
        <5>1. Least(FloorRows) \in Nat /\ j \in Nat /\ Least(FloorRows) <= j
          BY <1>0, <4>2, LeastIs DEF FloorRows
        <5> QED BY <1>0, <3>2, <4>2, <5>1
      <4> QED BY <1>0, <4>1, <4>2
    <3> QED BY <3>1, <3>2
  <2>3. cursor < next
    BY DEF BehindIsSettled
  <2>4. Settled(cursor + 1)'
    <3> DEFINE p == cursor'
    <3>1. p + 1 \in Nat /\ p + 1 <= next
      <4>1. \A m, n, o \in Nat : m <= n /\ n < o => m + 1 \in Nat /\ m + 1 <= o
        OBVIOUS
      <4>2. p \in Nat /\ p <= cursor
        BY <2>2
      <4> HIDE DEF p
      <4> QED BY <1>0, <2>3, <4>1, <4>2
    <3>2. Settled(p + 1)
      <4> HIDE DEF p
      <4>1. \A j \in FloorRows : p + 1 <= j
        BY <2>2 DEF p
      <4> QED BY <3>1, <4>1, Ceiling
    <3> QED BY <2>1, <3>2 DEF Settled, OfRun, Used, Seen
  <2>5. BehindIsSettled'
    BY <1>0, <2>1, <2>2, <2>3, <2>4 DEF BehindIsSettled
  <2>6. BehindIsDelivered' /\ NoLostChange'
    BY <2>1 DEF BehindIsDelivered, NoLostChange, Tells, Seen
  <2>7. DeliveredIsTerminal'
    <3> SUFFICES ASSUME NEW i \in delivered', rows[i].run # NoRun
                 PROVE  phase[rows[i].run] = "ended"
      BY <2>1 DEF DeliveredIsTerminal
    <3>1. i \in Id /\ Tells(i) /\ i <= cursor'
      BY <2>1
    <3>2. i < cursor' + 1
      BY <1>0, <2>2, <3>1
    <3> QED BY <2>1, <2>4, <3>1, <3>2 DEF Settled, OfRun, Used, Tells, Seen
  <2> QED BY <2>5, <2>6, <2>7
<1>3. CASE StartPull
  <2>1. /\ op = "idle" /\ op' = "pull" /\ last' = cursor /\ limit' = Limit
        /\ UNCHANGED <<outbox, phase, cursor, delivered>>
    BY <1>3 DEF StartPull
  <2>2. Limit \in Nat /\ Limit <= next /\ \A j \in FloorRows : Limit <= j
    <3>1. CASE FloorRows = {}
      BY <1>0, <3>1 DEF Limit
    <3>2. CASE FloorRows # {}
      <4>1. Limit \in FloorRows /\ \A j \in FloorRows : Limit <= j
        BY <3>2, LeastIs DEF FloorRows, Limit
      <4>2. Limit \in Nat /\ Limit < next
        BY <1>0, <4>1 DEF FloorRows
      <4> QED BY <1>0, <4>1, <4>2
    <3> QED BY <3>1, <3>2
  <2>3. Settled(Limit)
    BY <2>2, Ceiling
  <2>4. Settled(limit)' /\ Settled(cursor + 1)' /\ Settled(last + 1)'
    BY <2>1, <2>3 DEF Settled, OfRun, Used, Seen, BehindIsSettled, Following
  <2>5. BehindIsSettled'
    BY <2>1, <2>2, <2>4 DEF BehindIsSettled
  <2>6. BehindIsDelivered' /\ NoLostChange' /\ DeliveredIsTerminal'
    BY <2>1 DEF BehindIsDelivered, NoLostChange, DeliveredIsTerminal, Tells, Seen, Owed
  <2> QED BY <2>5, <2>6
<1>4. CASE ReadBatch
  <2>1. /\ op = "pull" /\ UNCHANGED <<outbox, phase, deletion>>
        /\ delivered' = delivered \cup {i \in Page : Tells(i)}
        /\ \/ op' = "idle" /\ last' = 0 /\ limit' = 1 /\ cursor' = Examined
           \/ last' = Examined /\ op' = "pull" /\ cursor' = cursor /\ limit' = limit
    BY <1>4 DEF ReadBatch, Close
  <2>2. /\ Page \subseteq {i \in Id : Seen(i) /\ i < limit}
        /\ last <= Examined /\ Examined \in Nat
        /\ Examined = last \/ (Examined \in Page /\ Examined < limit)
        /\ \A i \in Id : Seen(i) /\ last < i /\ i <= Examined => i \in Page
    BY PageIs, PositionTypes
  <2>3. Examined < next
    BY <1>0, <2>1, <2>2 DEF BehindIsSettled
  <2>4. Settled(Examined + 1)
    <3>1. CASE Examined = last
      BY <2>1, <3>1 DEF BehindIsSettled
    <3>2. CASE Examined < limit
      BY <1>0, <2>1, <2>2, <3>2 DEF BehindIsSettled, Settled
    <3> QED BY <2>2, <3>1, <3>2
  <2>5. \A i \in Id : Owed(i) /\ i <= Examined => i \in delivered'
    <3> SUFFICES ASSUME NEW i \in Id, Owed(i), i <= Examined PROVE i \in delivered'
      OBVIOUS
    <3>1. CASE i <= last
      BY <2>1, <3>1 DEF BehindIsDelivered
    <3>2. CASE last < i
      BY <2>1, <2>2, <3>2 DEF Owed, Tells
    <3> QED BY <1>0, <3>1, <3>2
  <2>6. BehindIsSettled'
    <3>1. /\ Settled(cursor + 1)'
          /\ op' = "pull" => Settled(limit)' /\ Settled(last + 1)'
      BY <2>1, <2>4 DEF Settled, OfRun, Used, Seen, BehindIsSettled, Following
    <3>2. cursor' < next' /\ last' < next' /\ (op' = "pull" => limit' <= next')
      BY <1>0, <2>1, <2>3 DEF BehindIsSettled
    <3> QED BY <3>1, <3>2 DEF BehindIsSettled
  <2>7. BehindIsDelivered' /\ NoLostChange'
    <3>1. delivered' \subseteq {i \in Id : Tells(i)}
      BY <2>1, <2>2 DEF BehindIsDelivered
    <3>2. \A i \in Id : Owed(i) /\ i <= cursor' => i \in delivered'
      BY <2>1, <2>5 DEF NoLostChange, Owed
    <3>3. \A i \in Id : Owed(i)' <=> Owed(i)
      BY <2>1 DEF Owed, Tells, Seen
    <3> QED BY <2>1, <2>5, <3>1, <3>2, <3>3 DEF BehindIsDelivered, NoLostChange, Owed, Tells, Seen
  <2>8. DeliveredIsTerminal'
    <3>1. \A i \in Page : Tells(i) /\ rows[i].run # NoRun => phase[rows[i].run] = "ended"
      BY <2>1, <2>2 DEF BehindIsSettled, Settled, OfRun, Used, Tells, Seen
    <3> QED BY <2>1, <3>1 DEF DeliveredIsTerminal
  <2> QED BY <2>6, <2>7, <2>8
<1>5. CASE DropPull
  <2>1. /\ op = "pull" /\ op' = "idle" /\ last' = 0 /\ limit' = 1
        /\ UNCHANGED <<outbox, phase, deletion, cursor, delivered>>
    BY <1>5 DEF DropPull, Close
  <2>2. Settled(cursor + 1)'
    BY <2>1 DEF BehindIsSettled, Following, Settled, OfRun, Used, Seen
  <2>3. BehindIsSettled'
    BY <1>0, <2>1, <2>2 DEF BehindIsSettled
  <2>4. BehindIsDelivered' /\ NoLostChange' /\ DeliveredIsTerminal'
    BY <2>1 DEF BehindIsDelivered, NoLostChange, DeliveredIsTerminal, Tells, Seen, Owed
  <2> QED BY <2>3, <2>4
<1>6. ASSUME NEW a \in Article, ScanArticle(a) PROVE FollowInv'
  <2>1. /\ op = "snapshot" /\ op' \in {"snapshot", "idle"}
        /\ UNCHANGED <<outbox, phase, deletion, cursor, last, limit, delivered>>
    BY <1>6 DEF ScanArticle
  <2>2. Settled(cursor + 1)'
    BY <2>1 DEF BehindIsSettled, Following, Settled, OfRun, Used, Seen
  <2>3. BehindIsSettled'
    BY <1>0, <2>1, <2>2 DEF BehindIsSettled
  <2>4. BehindIsDelivered' /\ NoLostChange' /\ DeliveredIsTerminal'
    BY <2>1 DEF BehindIsDelivered, NoLostChange, DeliveredIsTerminal, Tells, Seen, Owed
  <2> QED BY <2>3, <2>4
<1> QED BY <1>1, <1>2, <1>3, <1>4, <1>5, <1>6 DEF Consume

\* The inductive invariant of the feed.
LEMMA FeedNext == ASSUME "stale_ceiling" \notin Gaps PROVE FeedInv /\ [Next]_vars => FeedInv'
<1> SUFFICES ASSUME FeedInv, [Next]_vars PROVE FeedInv'
  OBVIOUS
<1>1. TypeOK' /\ OutboxInv'
  BY NextTypes, NextKeepsOutbox DEF FeedInv
<1>2. CASE UNCHANGED vars
  <2>1. OutboxStep /\ UNCHANGED stream
    BY <1>2 DEF vars, outbox, OutboxStep, RowStep, TypeOK, FeedInv
  <2> QED BY <1>1, <2>1, OthersKeepFollow DEF FeedInv
<1>3. ASSUME NEW r \in Run, RunStep(r) PROVE FollowInv'
  <2>1. UNCHANGED stream
    BY <1>3 DEF RunStep, Claim, RecordRunStart, CommitRun, RollBack, EndRun, Requeue,
                RecordChange, RecordRemoval, Reappear
  <2> QED BY <1>1, <1>3, <2>1, RunIsOutboxStep, OthersKeepFollow DEF FeedInv
<1>4. CASE Elsewhere
  <2>1. UNCHANGED stream
    BY <1>4 DEF Elsewhere, Resanitize, RecordDeletion, ReadDeletion, DeleteSource, CommitDeletion,
                Cascade
  <2> QED BY <1>1, <1>4, <2>1, ElsewhereIsOutboxStep, OthersKeepFollow DEF FeedInv
<1>5. CASE Consume
  BY <1>1, <1>5, ConsumeKeepsFollow DEF FeedInv
<1> QED BY <1>1, <1>2, <1>3, <1>4, <1>5 DEF Next, FeedInv

\* It holds of every behaviour.
LEMMA FeedInvariance == ASSUME "stale_ceiling" \notin Gaps PROVE Spec => []FeedInv
<1>1. Init => FeedInv
  BY InitTypes, OutboxInit, FollowInit DEF FeedInv
<1> QED BY <1>1, FeedNext, PTL DEF Spec

\* delta_feed.py: whatever becomes visible at or below the consumer's cursor was sent to
\* it or is part of its snapshot, for any number of runs, sources, articles and rows, as
\* long as nobody works on under a stream that found no ceiling.
THEOREM NoChangeIsLost == ASSUME "stale_ceiling" \notin Gaps PROVE Spec => []NoLostChange
<1>1. FeedInv => NoLostChange
  BY DEF FeedInv, FollowInv
<1> QED BY <1>1, FeedInvariance, PTL

\* delta_feed.py: what a consumer is sent belongs to runs that are over.
THEOREM DeliveredStaysTerminal ==
  ASSUME "stale_ceiling" \notin Gaps PROVE Spec => []DeliveredIsTerminal
<1>1. FeedInv => DeliveredIsTerminal
  BY DEF FeedInv, FollowInv
<1> QED BY <1>1, FeedInvariance, PTL
-----------------------------------------------------------------------------
(* The articles: what the rows tell of them.                                *)

\* At first there are no rows and no run is worked on.
LEMMA ArticleInit == Init => ArticleInv
  BY DEF Init, ArticleInv, OneWorks, OpenIsTrue, RowsTell, RemovalIsLast, Tells, Seen, OfRun,
         Used, Free

\* The row of an article that a run has open is the run's that is worked on.
LEMMA OpenIsOwn ==
  ASSUME TypeOK, OutboxInv, OneWorks, NEW i \in Id, rows[i].state = "open", OfRun(i),
         NEW r \in Run, phase[r] \in {"claimed", "floored"}, SourceOf[r] = HomeOf[rows[i].article]
  PROVE  rows[i].run = r
<1>1. rows[i].run \in Run /\ Used(i)
  BY DEF OfRun, TypeOK, Row
<1>2. phase[rows[i].run] = "floored" /\ SourceOf[rows[i].run] = HomeOf[rows[i].article]
  BY DEF OutboxInv, OpenIsFloored, RowsFit, OfRun
<1> QED BY <1>1, <1>2 DEF OneWorks

\* Inserting the row of a change keeps ArticleInv, if it is true and no other is open.
LEMMA InsertKeepsArticles ==
  ASSUME TypeOK, TypeOK', OutboxInv, ArticleInv,
         NEW kind \in Change, NEW r \in Run \cup {NoRun}, NEW a \in Article, Insert(kind, r, a),
         UNCHANGED <<phase, stored>>, drifted \subseteq drifted',
         kind # "removed" =>
            \A i \in Id : rows[i].state = "open" /\ OfRun(i) => rows[i].article # a,
         r # NoRun => /\ kind = "added" => stored[a] = "absent"
                      /\ kind = "updated" => stored[a] = "live" \/ a \in drifted'
                      /\ kind = "removed" => stored[a] = "live",
         a \notin drifted' /\ stored[a] \in {"removed", "deleted"} => kind = "removed"
  PROVE  ArticleInv'
<1> USE DEF ArticleInv
<1>1. /\ \A i \in Id : i # next => rows'[i] = rows[i]
      /\ rows'[next] = [state |-> "open", kind |-> kind, run |-> r, article |-> a]
      /\ next \in Id
  BY InsertStep, InsertTypes
<1>2. /\ next \in Nat /\ \A i \in Id : i \in Nat
      /\ \A i \in Id : Used(i) => i < next /\ i # next
  BY IdFinite DEF OutboxInv, TypeOK, RowsFit
<1>3. \A i \in Id : Tells(i)' <=> Tells(i)
  BY <1>1, <1>2 DEF Tells, Seen, Used
<1>4. \A i \in Id : Tells(i) => rows'[i] = rows[i] /\ i < next
  BY <1>1, <1>2 DEF Tells, Seen, Used
<1>5. OneWorks'
  BY DEF OneWorks
<1>6. OpenIsTrue'
  <2> SUFFICES ASSUME NEW i \in Id, rows'[i].state = "open", OfRun(i)'
               PROVE  LET b == rows'[i].article IN
                      /\ rows'[i].kind = "added" => stored'[b] = "absent"
                      /\ rows'[i].kind = "updated" => stored'[b] = "live" \/ b \in drifted'
                      /\ rows'[i].kind = "removed" => stored'[b] = "live"
                      /\ \A j \in Id : Used(j)' /\ rows'[j].kind \in Change /\ rows'[j].article = b
                            => j <= i \/ rows'[j].kind = "removed"
    BY DEF OpenIsTrue
  <2>1. CASE i = next
    <3>1. \A j \in Id : Used(j)' => j <= i
      BY <1>1, <1>2, <2>1 DEF Used
    <3>2. rows'[i].run = r /\ rows'[i].kind = kind /\ rows'[i].article = a /\ r # NoRun
      BY <1>1, <2>1 DEF OfRun
    <3> QED BY <3>1, <3>2
  <2>2. CASE i # next
    <3>1. rows'[i] = rows[i] /\ OfRun(i) /\ (rows[i].article # a \/ kind = "removed")
      BY <1>1, <2>2 DEF OfRun, Used
    <3>2. \A j \in Id : rows'[j].article = rows[i].article => j # next \/ kind = "removed"
      BY <1>1, <3>1
    <3> QED BY <1>1, <3>1, <3>2 DEF OpenIsTrue, Used
  <2> QED BY <2>1, <2>2
<1>7. RowsTell'
  BY <1>3, <1>4 DEF RowsTell
<1>8. RemovalIsLast'
  <2> SUFFICES ASSUME NEW i \in Id, Tells(i), rows[i].kind = "removed", rows[i].article \notin drifted'
               PROVE  /\ stored[rows[i].article] \in {"removed", "deleted"}
                      /\ \A j \in Id : (i < j /\ Used(j)' /\ rows'[j].kind \in Change
                                          /\ rows'[j].article = rows[i].article)
                                           => rows'[j].kind = "removed"
    BY <1>3, <1>4 DEF RemovalIsLast
  <2>1. stored[rows[i].article] \in {"removed", "deleted"}
    BY DEF RemovalIsLast
  <2>2. ASSUME NEW j \in Id, i < j, Used(j)', rows'[j].kind \in Change,
               rows'[j].article = rows[i].article
        PROVE  rows'[j].kind = "removed"
    <3>1. CASE j = next
      BY <1>1, <2>1, <2>2, <3>1
    <3>2. CASE j # next
      BY <1>1, <2>2, <3>2 DEF RemovalIsLast, Used
    <3> QED BY <3>1, <3>2
  <2> QED BY <2>1, <2>2
<1> QED BY <1>5, <1>6, <1>7, <1>8

\* A step that tells nothing new and stores nothing keeps ArticleInv.
LEMMA QuietKeepsArticles ==
  ASSUME ArticleInv, OneWorks', stored' = stored, drifted \subseteq drifted',
         \A i \in Id : Tells(i) => rows'[i] = rows[i],
         \A i \in Id : Used(i)' /\ rows'[i].kind \in Change => rows'[i] = rows[i]
  PROVE  ArticleInv'
<1> USE DEF ArticleInv
<1>1. \A i \in Id : Tells(i)' <=> Tells(i)
  BY DEF Tells, Seen, Used
<1>2. OpenIsTrue'
  BY DEF OpenIsTrue, OfRun, Used
<1>3. RowsTell'
  BY <1>1 DEF RowsTell
<1>4. RemovalIsLast'
  BY <1>1 DEF RemovalIsLast, Used
<1> QED BY <1>2, <1>3, <1>4

\* Committing a run's rows stores what they say, so they go on telling the truth.
LEMMA CommitRunKeepsArticles ==
  ASSUME TypeOK, TypeOK', OutboxInv, ArticleInv, NEW r \in Run, CommitRun(r)
  PROVE  ArticleInv'
<1> USE TablesAssumption DEF ArticleInv
<1> DEFINE ids == OpenOf(r)
<1>1. /\ \A i \in Id \ ids : rows'[i] = rows[i]
      /\ \A i \in ids : rows'[i] = [rows[i] EXCEPT !.state = "committed"]
      /\ next' = next /\ drifted' = drifted
      /\ ids # {} /\ phase' = [phase EXCEPT ![r] = "floored"]
      /\ \A a \in Article : stored'[a] = CASE a \in Having(ids, {"added"}) -> "live"
                                           [] a \in Having(ids, {"removed"}) -> "removed"
                                           [] OTHER -> stored[a]
  BY CommitStep DEF CommitRun
<1>2. ids \subseteq Id /\ \A i \in ids : rows[i].state = "open" /\ rows[i].run = r /\ r # NoRun
  BY DEF OpenOf
<1>3. phase[r] \in {"claimed", "floored"}
  BY <1>1, <1>2 DEF OutboxInv, OpenIsFloored
<1>4. \A i \in Id : /\ rows'[i].run = rows[i].run /\ rows'[i].kind = rows[i].kind
                    /\ rows'[i].article = rows[i].article
                    /\ Used(i)' <=> Used(i)
                    /\ Tells(i) => Tells(i)'
                    /\ Tells(i)' => Tells(i) \/ (i \in ids /\ rows[i].kind \in Change)
                    /\ rows'[i].state = "open" => rows[i].state = "open" /\ rows[i].run # r
                    /\ i \in ids => Seen(i)'
  BY <1>1, <1>2 DEF OpenOf, TypeOK, Row, Seen, Tells, Used
<1>5. ASSUME NEW i \in ids, rows[i].kind \in Change
      PROVE  LET a == rows[i].article IN
             /\ a \in Article /\ SourceOf[r] = HomeOf[a] /\ OfRun(i)
             /\ rows[i].kind = "added" => stored[a] = "absent"
             /\ rows[i].kind = "updated" => stored[a] = "live" \/ a \in drifted
             /\ rows[i].kind = "removed" => stored[a] = "live"
             /\ \A j \in Id : Used(j) /\ rows[j].kind \in Change /\ rows[j].article = a
                   => j <= i \/ rows[j].kind = "removed"
  BY <1>2, <1>5 DEF OpenIsTrue, OfRun, Used, OutboxInv, RowsFit
<1>6. \A i \in ids : rows[i].kind \in {"added", "removed"} => rows[i].kind \in Change
  BY DEF Change
<1>7. ASSUME NEW a \in Article, \A i \in ids : rows[i].kind \in Change => rows[i].article # a
      PROVE  stored'[a] = stored[a]
  BY <1>1, <1>6, <1>7 DEF Having
<1> HIDE DEF ids
<1>8. OneWorks'
  BY <1>1, <1>3 DEF OneWorks, TypeOK
<1>9. OpenIsTrue'
  <2> SUFFICES ASSUME NEW i \in Id, rows[i].state = "open", rows[i].run # r, OfRun(i)
               PROVE  LET b == rows[i].article IN
                      /\ rows[i].kind = "added" => stored'[b] = "absent"
                      /\ rows[i].kind = "updated" => stored'[b] = "live" \/ b \in drifted
                      /\ rows[i].kind = "removed" => stored'[b] = "live"
                      /\ \A j \in Id : Used(j) /\ rows[j].kind \in Change /\ rows[j].article = b
                            => j <= i \/ rows[j].kind = "removed"
    BY <1>1, <1>4 DEF OpenIsTrue, OfRun
  <2>1. rows[i].article \in Article
    BY DEF OfRun, OutboxInv, RowsFit
  <2>2. \A k \in ids : rows[k].kind \in Change => rows[k].article # rows[i].article
    BY <1>3, <1>5, OpenIsOwn
  <2>3. stored'[rows[i].article] = stored[rows[i].article]
    BY <1>7, <2>1, <2>2
  <2> QED BY <2>3 DEF OpenIsTrue
<1>10. RowsTell'
  <2> SUFFICES ASSUME NEW a \in Article \ drifted
               PROVE  /\ stored'[a] = "absent" => ~\E i \in Id : Tells(i)' /\ rows[i].article = a
                      /\ (stored'[a] = "removed" \/
                            (stored'[a] = "deleted"
                               /\ \E i \in Id : Tells(i)' /\ rows[i].article = a))
                           => \E i \in Id : /\ Tells(i)' /\ rows[i].article = a
                                            /\ rows[i].kind = "removed"
    BY <1>1, <1>4 DEF RowsTell
  <2>1. CASE a \in Having(ids, {"added"})
    <3>1. a \notin Having(ids, {"removed"})
      BY <1>5, <2>1 DEF Having, Change
    <3>2. stored'[a] = "live"
      BY <1>1, <2>1, <3>1
    <3> QED BY <3>2
  <2>2. CASE a \notin Having(ids, {"added"}) /\ a \in Having(ids, {"removed"})
    <3>1. stored'[a] = "removed"
      BY <1>1, <2>2
    <3>2. PICK i \in ids : rows[i].kind = "removed" /\ rows[i].article = a
      BY <2>2 DEF Having
    <3>3. Tells(i)' /\ i \in Id
      BY <1>2, <1>4, <3>2 DEF Tells, Change
    <3> QED BY <3>1, <3>2, <3>3
  <2>3. CASE a \notin Having(ids, {"added"}) /\ a \notin Having(ids, {"removed"})
    <3>1. stored'[a] = stored[a]
      BY <1>1, <2>3
    <3>2. \A i \in ids : rows[i].kind \in Change /\ rows[i].article = a => stored[a] = "live"
      BY <1>5, <2>3 DEF Having, Change
    <3> QED BY <1>4, <3>1, <3>2 DEF RowsTell
  <2> QED BY <2>1, <2>2, <2>3
<1>11. RemovalIsLast'
  <2> SUFFICES ASSUME NEW i \in Id, Tells(i)', rows[i].kind = "removed", rows[i].article \notin drifted
               PROVE  /\ stored'[rows[i].article] \in {"removed", "deleted"}
                      /\ \A j \in Id : (i < j /\ Used(j) /\ rows[j].kind \in Change
                                          /\ rows[j].article = rows[i].article)
                                           => rows[j].kind = "removed"
    BY <1>1, <1>4 DEF RemovalIsLast
  <2> DEFINE a == rows[i].article
  <2>0. a \in Article
    BY <1>4 DEF Tells, Seen, OutboxInv, RowsFit, Used, Change
  <2>1. CASE Tells(i)
    <3>1. stored[a] \in {"removed", "deleted"}
      BY <2>1 DEF RemovalIsLast
    <3>2. \A k \in ids : rows[k].kind \in Change => rows[k].article # a
      BY <1>5, <3>1 DEF Change
    <3>3. stored'[a] = stored[a]
      BY <1>7, <2>0, <3>2
    <3> QED BY <2>1, <3>1, <3>3 DEF RemovalIsLast
  <2>2. CASE i \in ids /\ rows[i].kind \in Change
    <3>1. /\ stored[a] = "live"
          /\ \A j \in Id : Used(j) /\ rows[j].kind \in Change /\ rows[j].article = a
                => j <= i \/ rows[j].kind = "removed"
      BY <1>5, <2>2
    <3>2. a \notin Having(ids, {"added"})
      BY <1>5, <3>1 DEF Having, Change
    <3>3. a \in Having(ids, {"removed"})
      BY <2>2 DEF Having
    <3>4. stored'[a] = "removed"
      BY <1>1, <2>0, <3>2, <3>3
    <3>5. \A j \in Id : j <= i => ~(i < j)
      BY IdFinite
    <3> QED BY <3>1, <3>4, <3>5
  <2> QED BY <1>4, <2>1, <2>2
<1> QED BY <1>8, <1>9, <1>10, <1>11

\* The steps of a run keep ArticleInv.
LEMMA RunKeepsArticles ==
  ASSUME TypeOK, TypeOK', OutboxInv, ArticleInv, NEW r \in Run, RunStep(r) PROVE ArticleInv'
<1> USE TablesAssumption DEF outbox, articles, deletion, stream
<1>1. CASE Claim(r) \/ EndRun(r) \/ Requeue(r)
  <2>1. OneWorks'
    BY <1>1 DEF Claim, EndRun, Requeue, ArticleInv, OneWorks, TypeOK
  <2> QED BY <1>1, <2>1, QuietKeepsArticles DEF Claim, EndRun, Requeue
<1>2. CASE RecordRunStart(r)
  <2>1. /\ \A i \in Id : i # next => rows'[i] = rows[i]
        /\ rows'[next].kind = "run_start"
        /\ UNCHANGED <<phase, stored, drifted>>
    <3>1. Insert("run_start", r, NoArticle) /\ UNCHANGED <<phase, stored, drifted>>
      BY <1>2 DEF RecordRunStart
    <3>2. /\ \A i \in Id : i # next => rows'[i] = rows[i]
          /\ rows'[next] = [state |-> "open", kind |-> "run_start", run |-> r,
                            article |-> NoArticle]
      BY <3>1, InsertStep
    <3> QED BY <3>1, <3>2
  <2>2. \A i \in Id : Tells(i) => i # next
    BY IdFinite DEF OutboxInv, RowsFit, Used, Tells, Seen, TypeOK
  <2>3. OneWorks'
    BY <2>1 DEF ArticleInv, OneWorks
  <2> QED BY <2>1, <2>2, <2>3, QuietKeepsArticles DEF Change
<1>3. CASE CommitRun(r)
  BY <1>3, CommitRunKeepsArticles
<1>4. CASE RollBack(r)
  <2>1. /\ \A i \in Id : rows'[i] = rows[i] \/ (rows[i].state = "open" /\ rows'[i] = Free)
        /\ UNCHANGED <<phase, stored, drifted>>
    BY <1>4 DEF RollBack, OpenOf, TypeOK
  <2>2. OneWorks'
    BY <2>1 DEF ArticleInv, OneWorks
  <2> QED BY <2>1, <2>2, QuietKeepsArticles DEF Tells, Seen, Used, Free
<1>5. ASSUME NEW a \in Article, RecordChange(r, a) PROVE ArticleInv'
  <2>1. /\ OpenOf(r) = {} /\ phase[r] = "floored" /\ SourceOf[r] = HomeOf[a]
        /\ UNCHANGED <<phase, stored>> /\ drifted \subseteq drifted' /\ r # NoRun
    BY <1>5 DEF RecordChange, Works
  <2>2. \A i \in Id : rows[i].state = "open" /\ OfRun(i) => rows[i].article # a
    BY <2>1, OpenIsOwn DEF OpenOf, ArticleInv
  <2>3. PICK kind \in Change :
           /\ Insert(kind, r, a)
           /\ kind = "added" => stored[a] = "absent"
           /\ kind = "updated" => stored[a] = "live" \/ a \in drifted'
           /\ kind # "removed"
           /\ stored[a] = "removed" => a \in drifted'
           /\ stored[a] # "deleted"
    BY <1>5 DEF RecordChange, Change
  <2> QED BY <2>1, <2>2, <2>3, InsertKeepsArticles
<1>6. ASSUME NEW a \in Article, RecordRemoval(r, a) PROVE ArticleInv'
  <2>1. /\ phase[r] = "floored" /\ SourceOf[r] = HomeOf[a] /\ stored[a] = "live" /\ r # NoRun
        /\ UNCHANGED <<phase, stored, drifted>> /\ Insert("removed", r, a) /\ "removed" \in Change
    BY <1>6 DEF RecordRemoval, Change
  <2>2. \A i \in Id : rows[i].state = "open" /\ OfRun(i) => rows[i].article # a
    BY <1>6, <2>1, OpenIsOwn DEF RecordRemoval, ArticleInv
  <2> QED BY <2>1, <2>2, InsertKeepsArticles
<1>7. ASSUME NEW a \in Article, Reappear(r, a) PROVE ArticleInv'
  <2>1. /\ OpenOf(r) = {} /\ phase[r] = "floored" /\ SourceOf[r] = HomeOf[a]
        /\ UNCHANGED <<outbox, phase>> /\ drifted' = drifted \cup {a}
        /\ stored' = [stored EXCEPT ![a] = "live"]
    BY <1>7 DEF Reappear, Works
  <2>2. \A i \in Id : rows[i].state = "open" /\ OfRun(i) => rows[i].article # a
    BY <2>1, OpenIsOwn DEF OpenOf, ArticleInv
  <2>3. OneWorks'
    BY <2>1 DEF ArticleInv, OneWorks
  <2>4. OpenIsTrue'
    <3>1. \A i \in Id : rows[i].state = "open" /\ OfRun(i) => stored'[rows[i].article] = stored[rows[i].article]
      BY <2>1, <2>2 DEF OfRun, OutboxInv, RowsFit, TypeOK
    <3> QED BY <2>1, <3>1 DEF ArticleInv, OpenIsTrue, OfRun, Used
  <2>5. RowsTell'
    BY <2>1 DEF ArticleInv, RowsTell, Tells, Seen, TypeOK
  <2>6. RemovalIsLast'
    BY <2>1 DEF ArticleInv, RemovalIsLast, Tells, Seen, Used, TypeOK, OutboxInv, RowsFit, Change
  <2> QED BY <2>3, <2>4, <2>5, <2>6 DEF ArticleInv
<1> QED BY <1>1, <1>2, <1>3, <1>4, <1>5, <1>6, <1>7 DEF RunStep

\* A deletion tells of every article that it read, in one transaction; one that has come
\* to be live since has drifted.
LEMMA DeletionKeepsArticles ==
  ASSUME TypeOK, TypeOK', OutboxInv, ArticleInv, DeleteSource
  PROVE  ArticleInv'
<1> USE TablesAssumption DEF ArticleInv
<1> DEFINE New(i) == next <= i /\ i < next'
           s == deleting
<1>1. /\ \A i \in Id : ~New(i) => rows'[i] = rows[i]
      /\ \A i \in Id : New(i) =>
            /\ rows'[i].state = "committed" /\ rows'[i].kind = "removed"
            /\ rows'[i].run = NoRun /\ rows'[i].article \in doomed
      /\ \A a \in doomed : \E i \in Id : New(i) /\ rows'[i].article = a
  BY DeletionIs
<1>2. /\ drifted' = drifted \cup (LiveIn(s) \ doomed)
      /\ \A r \in Run : SourceOf[r] = s => OpenOf(r) = {}
      /\ \A r \in Run : phase'[r] = IF SourceOf[r] = s THEN "ended" ELSE phase[r]
      /\ \A a \in Article : stored'[a] = IF HomeOf[a] = s THEN "deleted" ELSE stored[a]
      /\ \A a \in doomed : a \in Article /\ HomeOf[a] = s
  BY DEF DeleteSource, Cascade, OutboxInv, OpenTombstones, TypeOK
<1>3. /\ next \in Nat /\ next' \in Nat /\ \A i \in Id : i \in Nat
      /\ \A i \in Id : Used(i) => ~New(i)
      /\ \A i, j \in Id : Used(i) /\ New(j) => i < j /\ ~(j <= i)
  BY IdFinite DEF TypeOK, OutboxInv, RowsFit
<1> HIDE DEF New, s
<1>4. \A i \in Id : /\ Tells(i)' <=> Tells(i) \/ New(i)
                    /\ Tells(i) => rows'[i] = rows[i]
                    /\ Used(i)' => (Used(i) /\ rows'[i] = rows[i]) \/ New(i)
  BY <1>1, <1>3 DEF Tells, Seen, Used, Change
<1>5. OneWorks'
  BY <1>2 DEF OneWorks
<1>6. OpenIsTrue'
  <2> SUFFICES ASSUME NEW i \in Id, rows'[i].state = "open", OfRun(i)'
               PROVE  LET b == rows'[i].article IN
                      /\ rows'[i].kind = "added" => stored'[b] = "absent"
                      /\ rows'[i].kind = "updated" => stored'[b] = "live" \/ b \in drifted'
                      /\ rows'[i].kind = "removed" => stored'[b] = "live"
                      /\ \A j \in Id : Used(j)' /\ rows'[j].kind \in Change /\ rows'[j].article = b
                            => j <= i \/ rows'[j].kind = "removed"
    BY DEF OpenIsTrue
  <2>1. rows'[i] = rows[i] /\ Used(i) /\ OfRun(i)
    BY <1>1 DEF OfRun, Used
  <2>2. rows[i].article \in Article /\ HomeOf[rows[i].article] # s
    <3>1. rows[i].run \in Run /\ i \in OpenOf(rows[i].run)
      BY <2>1 DEF OpenOf, OfRun, TypeOK, Row
    <3>2. rows[i].article \in Article /\ SourceOf[rows[i].run] = HomeOf[rows[i].article]
      BY <2>1 DEF OutboxInv, RowsFit, OfRun
    <3> QED BY <1>2, <3>1, <3>2
  <2>3. stored'[rows[i].article] = stored[rows[i].article]
    BY <1>2, <2>2
  <2>4. \A j \in Id : New(j) => rows'[j].article # rows[i].article
    BY <1>1, <1>2, <2>2
  <2>5. \A j \in Id : Used(j)' /\ rows'[j].kind \in Change /\ rows'[j].article = rows[i].article
                         => Used(j) /\ rows'[j] = rows[j]
    BY <1>4, <2>4
  <2> QED BY <1>2, <2>1, <2>3, <2>5 DEF OpenIsTrue
<1>7. RowsTell'
  <2> SUFFICES ASSUME NEW a \in Article, a \notin drifted'
               PROVE  /\ stored'[a] = "absent" => ~\E i \in Id : Tells(i)' /\ rows'[i].article = a
                      /\ (stored'[a] = "removed" \/
                            (stored'[a] = "deleted"
                               /\ \E i \in Id : Tells(i)' /\ rows'[i].article = a))
                           => \E i \in Id : /\ Tells(i)' /\ rows'[i].article = a
                                            /\ rows'[i].kind = "removed"
    BY DEF RowsTell
  <2>0. a \notin drifted /\ (a \in LiveIn(s) => a \in doomed)
    BY <1>2
  <2>1. CASE a \in doomed
    <3>1. stored'[a] = "deleted"
      BY <1>2, <2>1
    <3>2. PICK i \in Id : New(i) /\ rows'[i].article = a
      BY <1>1, <2>1
    <3> QED BY <1>1, <1>4, <3>1, <3>2
  <2>2. CASE a \notin doomed
    <3>1. \A i \in Id : rows'[i].article = a => ~New(i)
      BY <1>1, <2>2
    <3>2. \A i \in Id : Tells(i)' /\ rows'[i].article = a => Tells(i) /\ rows[i].article = a
      BY <1>4, <3>1
    <3>3. \A i \in Id : Tells(i) /\ rows[i].article = a /\ rows[i].kind = "removed"
             => Tells(i)' /\ rows'[i].article = a /\ rows'[i].kind = "removed"
      BY <1>4
    <3>4. CASE HomeOf[a] # s
      BY <1>2, <2>0, <3>2, <3>3, <3>4 DEF RowsTell
    <3>5. CASE HomeOf[a] = s
      <4>1. stored[a] \in {"absent", "removed", "deleted"} /\ stored'[a] = "deleted"
        BY <1>2, <2>0, <2>2, <3>5 DEF LiveIn, TypeOK
      <4> QED BY <2>0, <3>2, <3>3, <4>1 DEF RowsTell
    <3> QED BY <3>4, <3>5
  <2> QED BY <2>1, <2>2
<1>8. RemovalIsLast'
  <2> SUFFICES ASSUME NEW i \in Id, Tells(i)', rows'[i].kind = "removed",
                      rows'[i].article \notin drifted
               PROVE  /\ stored'[rows'[i].article] \in {"removed", "deleted"}
                      /\ \A j \in Id : (i < j /\ Used(j)' /\ rows'[j].kind \in Change
                                          /\ rows'[j].article = rows'[i].article)
                                           => rows'[j].kind = "removed"
    BY <1>2 DEF RemovalIsLast
  <2>1. CASE New(i)
    <3>1. stored'[rows'[i].article] = "deleted"
      BY <1>1, <1>2, <2>1
    <3>2. \A j \in Id : i < j => ~Used(j)
      BY <1>3, <2>1
    <3> QED BY <1>1, <1>4, <3>1, <3>2
  <2>2. CASE Tells(i)
    <3>1. rows'[i] = rows[i] /\ rows[i].article \in Article
      BY <1>4, <2>2 DEF Tells, Seen, OutboxInv, RowsFit, Used
    <3>2. stored'[rows[i].article] \in {"removed", "deleted"}
      BY <1>2, <2>2, <3>1 DEF RemovalIsLast
    <3>3. \A j \in Id : (i < j /\ Used(j) /\ rows[j].kind \in Change
                           /\ rows[j].article = rows[i].article) => rows[j].kind = "removed"
      BY <2>2, <3>1 DEF RemovalIsLast
    <3> QED BY <1>1, <1>4, <3>1, <3>2, <3>3
  <2> QED BY <1>4, <2>1, <2>2
<1> QED BY <1>5, <1>6, <1>7, <1>8

\* A slow deletion keeps ArticleInv: its articles are counted as drifted.
LEMMA SlowDeletionKeepsArticles ==
  ASSUME TypeOK, TypeOK', OutboxInv, ArticleInv, CommitDeletion PROVE ArticleInv'
<1> USE TablesAssumption DEF ArticleInv
<1> DEFINE ids == OpenOf(NoRun)
           s == deleting
<1>1. /\ \A i \in Id \ ids : rows'[i] = rows[i]
      /\ \A i \in ids : rows'[i] = [rows[i] EXCEPT !.state = "committed"]
      /\ Having(ids, Change) = doomed /\ drifted' = drifted \cup LiveIn(s) \cup doomed
      /\ \A r \in Run : SourceOf[r] = s => OpenOf(r) = {}
      /\ \A r \in Run : phase'[r] = IF SourceOf[r] = s THEN "ended" ELSE phase[r]
      /\ \A a \in Article : stored'[a] = IF HomeOf[a] = s THEN "deleted" ELSE stored[a]
  BY CommitStep DEF CommitDeletion, Cascade
<1>2. ids \subseteq Id /\ \A i \in ids : rows[i].state = "open" /\ rows[i].run = NoRun
  BY DEF OpenOf
<1>3. \A i \in Id : /\ rows'[i].run = rows[i].run /\ rows'[i].kind = rows[i].kind
                    /\ rows'[i].article = rows[i].article
                    /\ Used(i)' <=> Used(i)
                    /\ Tells(i) => Tells(i)'
                    /\ Tells(i)' => Tells(i) \/ (i \in ids /\ rows[i].kind \in Change)
                    /\ rows'[i].state = "open" => rows[i].state = "open" /\ rows[i].run # NoRun
  BY <1>1, <1>2 DEF OpenOf, TypeOK, Row, Seen, Tells, Used
<1>4. \A i \in ids : rows[i].kind \in Change => rows[i].article \in doomed
  BY <1>1 DEF Having
<1> HIDE DEF ids, s
<1>5. \A i \in Id : Tells(i)' /\ rows[i].article \notin drifted' => Tells(i)
  BY <1>1, <1>3, <1>4
<1>6. OneWorks'
  BY <1>1 DEF OneWorks
<1>7. OpenIsTrue'
  <2> SUFFICES ASSUME NEW i \in Id, rows[i].state = "open", rows[i].run # NoRun, OfRun(i)
               PROVE  LET b == rows[i].article IN
                      /\ rows[i].kind = "added" => stored'[b] = "absent"
                      /\ rows[i].kind = "updated" => stored'[b] = "live" \/ b \in drifted'
                      /\ rows[i].kind = "removed" => stored'[b] = "live"
                      /\ \A j \in Id : Used(j) /\ rows[j].kind \in Change /\ rows[j].article = b
                            => j <= i \/ rows[j].kind = "removed"
    BY <1>3 DEF OpenIsTrue, OfRun
  <2>1. rows[i].article \in Article /\ HomeOf[rows[i].article] # s
    <3>1. rows[i].run \in Run /\ i \in OpenOf(rows[i].run)
      BY DEF OpenOf, OfRun, TypeOK, Row
    <3>2. rows[i].article \in Article /\ SourceOf[rows[i].run] = HomeOf[rows[i].article]
      BY DEF OutboxInv, RowsFit, OfRun
    <3> QED BY <1>1, <3>1, <3>2
  <2>2. stored'[rows[i].article] = stored[rows[i].article] /\ drifted \subseteq drifted'
    BY <1>1, <2>1
  <2> QED BY <2>2 DEF OpenIsTrue
<1>8. RowsTell'
  <2> SUFFICES ASSUME NEW a \in Article, a \notin drifted'
               PROVE  /\ stored'[a] = "absent" => ~\E i \in Id : Tells(i)' /\ rows[i].article = a
                      /\ (stored'[a] = "removed" \/
                            (stored'[a] = "deleted"
                               /\ \E i \in Id : Tells(i)' /\ rows[i].article = a))
                           => \E i \in Id : /\ Tells(i)' /\ rows[i].article = a
                                            /\ rows[i].kind = "removed"
    BY <1>3 DEF RowsTell
  <2>1. \A i \in Id : Tells(i)' /\ rows[i].article = a <=> Tells(i) /\ rows[i].article = a
    BY <1>3, <1>5
  <2>2. a \notin drifted /\ a \notin LiveIn(s)
    BY <1>1
  <2>3. \/ stored'[a] = stored[a]
        \/ stored'[a] = "deleted" /\ stored[a] \in {"absent", "removed", "deleted"}
    <3>1. CASE HomeOf[a] # s
      BY <1>1, <3>1
    <3>2. CASE HomeOf[a] = s
      <4>1. stored'[a] = "deleted"
        BY <1>1, <3>2
      <4>2. stored[a] # "live"
        BY <2>2, <3>2 DEF LiveIn
      <4>3. stored[a] \in {"absent", "live", "removed", "deleted"}
        BY DEF TypeOK
      <4> QED BY <4>1, <4>2, <4>3
    <3> QED BY <3>1, <3>2
  <2> QED BY <2>1, <2>2, <2>3 DEF RowsTell
<1>9. RemovalIsLast'
  <2> SUFFICES ASSUME NEW i \in Id, Tells(i)', rows[i].kind = "removed",
                      rows[i].article \notin drifted'
               PROVE  /\ stored'[rows[i].article] \in {"removed", "deleted"}
                      /\ \A j \in Id : (i < j /\ Used(j) /\ rows[j].kind \in Change
                                          /\ rows[j].article = rows[i].article)
                                           => rows[j].kind = "removed"
    BY <1>3 DEF RemovalIsLast
  <2>1. Tells(i) /\ rows[i].article \notin drifted
    BY <1>1, <1>5
  <2>2. rows[i].article \in Article
    BY <2>1 DEF Tells, Seen, OutboxInv, RowsFit, Used
  <2> QED BY <1>1, <2>1, <2>2 DEF RemovalIsLast
<1> QED BY <1>6, <1>7, <1>8, <1>9

\* Resanitizing and deletions keep ArticleInv.
LEMMA ElsewhereKeepsArticles ==
  ASSUME TypeOK, TypeOK', OutboxInv, ArticleInv, Elsewhere PROVE ArticleInv'
<1> USE TablesAssumption DEF outbox, articles, deletion, stream
<1>1. ASSUME NEW a \in Article, Resanitize(a) PROVE ArticleInv'
  <2>1. OneWorks'
    BY <1>1 DEF Resanitize, ArticleInv, OneWorks
  <2> QED BY <1>1, <2>1, QuietKeepsArticles DEF Resanitize
<1>2. ASSUME NEW a \in Article, RecordDeletion(a) PROVE ArticleInv'
  BY <1>2, InsertKeepsArticles DEF RecordDeletion, Change
<1>3. CASE DeleteSource
  BY <1>3, DeletionKeepsArticles
<1>4. ASSUME NEW s \in Deletable, ReadDeletion(s) PROVE ArticleInv'
  <2>1. OneWorks'
    BY <1>4 DEF ReadDeletion, ArticleInv, OneWorks
  <2> QED BY <1>4, <2>1, QuietKeepsArticles DEF ReadDeletion
<1>5. CASE CommitDeletion
  BY <1>5, SlowDeletionKeepsArticles
<1> QED BY <1>1, <1>2, <1>3, <1>4, <1>5 DEF Elsewhere

\* Every step keeps ArticleInv, whatever gaps are let in.
LEMMA NextKeepsArticles ==
  ASSUME TypeOK, TypeOK', OutboxInv, ArticleInv, [Next]_vars PROVE ArticleInv'
<1>1. CASE UNCHANGED <<outbox, phase, articles>>
  <2>1. OneWorks'
    BY <1>1 DEF ArticleInv, OneWorks
  <2> QED BY <1>1, <2>1, QuietKeepsArticles DEF outbox, articles
<1>2. CASE Consume
  BY <1>1, <1>2 DEF Consume, StartSnapshot, AnchorSnapshot, ScanArticle, StartPull, ReadBatch,
                    DropPull
<1> QED BY <1>1, <1>2, RunKeepsArticles, ElsewhereKeepsArticles DEF Next, vars
-----------------------------------------------------------------------------
(* The copies of the consumer.                                              *)

\* A row that comes into sight and tells of a; a run's, or one just inserted.
NewlyTold(a) == \E i \in Id : /\ Tells(i)' /\ ~Tells(i) /\ rows'[i].article = a
                              /\ next <= i \/ rows'[i].run # NoRun

\* Nothing that a consumer should hold changes without a row that tells so.
LEMMA ChangesAreTold ==
  ASSUME TypeOK, TypeOK', OutboxInv, ArticleInv, NEW a \in Article, a \notin drifted',
         Elsewhere \/ \E r \in Run : RunStep(r)
  PROVE  View(a)' = View(a) \/ NewlyTold(a)
<1> USE TablesAssumption DEF outbox, articles, deletion
<1>0. stored'[a] = stored[a] /\ content'[a] = content[a] => View(a)' = View(a)
  BY DEF View
<1>1. ASSUME NEW r \in Run, CommitRun(r) PROVE View(a)' = View(a) \/ NewlyTold(a)
  <2> DEFINE ids == OpenOf(r)
  <2>1. /\ \A i \in ids : rows'[i] = [rows[i] EXCEPT !.state = "committed"]
        /\ ids \subseteq Id /\ \A i \in ids : rows[i].state = "open" /\ rows[i].run = r /\ r # NoRun
    BY <1>1, CommitStep DEF CommitRun, OpenOf
  <2>2. CASE \E i \in ids : rows[i].kind \in Change /\ rows[i].article = a
    <3>1. PICK i \in ids : rows[i].kind \in Change /\ rows[i].article = a
      BY <2>2
    <3>2. i \in Id /\ rows[i] \in Row /\ rows'[i] = [rows[i] EXCEPT !.state = "committed"]
      BY <2>1, <3>1 DEF TypeOK
    <3>3. /\ rows'[i].state = "committed" /\ rows'[i].kind = rows[i].kind
          /\ rows'[i].run = rows[i].run /\ rows'[i].article = a
      BY <3>1, <3>2 DEF Row
    <3>4. rows[i].state = "open" /\ rows[i].run = r /\ r # NoRun
      BY <2>1, <3>1
    <3> QED BY <3>1, <3>2, <3>3, <3>4 DEF NewlyTold, Tells, Seen
  <2>3. CASE \A i \in ids : ~(rows[i].kind \in Change /\ rows[i].article = a)
    <3>1. /\ a \notin Having(ids, {"added"}) /\ a \notin Having(ids, {"removed"})
          /\ a \notin Having(ids, {"added", "updated"})
      BY <2>3 DEF Having, Change
    <3>2. stored'[a] = stored[a]
      BY <1>1, <3>1 DEF CommitRun
    <3>3. content'[a] = content[a]
      BY <1>1, <3>1 DEF CommitRun, TypeOK
    <3> QED BY <1>0, <3>2, <3>3
  <2> QED BY <2>2, <2>3
<1>2. ASSUME NEW r \in Run, RunStep(r), ~CommitRun(r) PROVE View(a)' = View(a)
  <2>1. ASSUME NEW b \in Article, Reappear(r, b)
        PROVE stored'[a] = stored[a] /\ content'[a] = content[a]
    BY <2>1 DEF Reappear, TypeOK
  <2>2. ASSUME NEW b \in Article, RecordChange(r, b) \/ RecordRemoval(r, b)
        PROVE stored'[a] = stored[a] /\ content'[a] = content[a]
    BY <2>2 DEF RecordChange, RecordRemoval
  <2>3. Claim(r) \/ RecordRunStart(r) \/ RollBack(r) \/ EndRun(r) \/ Requeue(r)
           => stored'[a] = stored[a] /\ content'[a] = content[a]
    BY DEF Claim, RecordRunStart, RollBack, EndRun, Requeue
  <2> QED BY <1>0, <1>2, <2>1, <2>2, <2>3 DEF RunStep
<1>3. CASE DeleteSource
  <2>1. CASE a \in doomed
    <3>1. PICK i \in Id : next <= i /\ i < next' /\ rows'[i].article = a
      BY <1>3, <2>1, DeletionIs
    <3>2. Tells(i)'
      BY <1>3, <3>1, DeletionIs DEF Tells, Seen, Change
    <3>3. ~Tells(i)
      BY <3>1, IdFinite DEF Tells, Seen, Used, OutboxInv, RowsFit, TypeOK
    <3> QED BY <3>1, <3>2, <3>3 DEF NewlyTold
  <2>2. CASE a \notin doomed
    <3>1. /\ content'[a] = content[a] /\ a \notin LiveIn(deleting)
          /\ stored'[a] = IF HomeOf[a] = deleting THEN "deleted" ELSE stored[a]
      BY <1>3, <2>2 DEF DeleteSource, Cascade
    <3> QED BY <2>2, <3>1 DEF View, LiveIn
  <2> QED BY <2>1, <2>2
<1>4. CASE CommitDeletion
  <2>1. /\ content'[a] = content[a]
        /\ stored'[a] = IF HomeOf[a] = deleting THEN "deleted" ELSE stored[a]
        /\ a \notin LiveIn(deleting)
    BY <1>4 DEF CommitDeletion, Cascade
  <2> QED BY <2>1 DEF View, LiveIn
<1>5. ASSUME NEW b \in Article, Resanitize(b) PROVE View(a)' = View(a)
  <2>1. stored'[a] = stored[a] /\ content'[a] = content[a]
    BY <1>5 DEF Resanitize, TypeOK
  <2> QED BY <1>0, <2>1
<1>6. ASSUME NEW b \in Article, RecordDeletion(b) PROVE View(a)' = View(a)
  BY <1>0, <1>6 DEF RecordDeletion
<1>7. ASSUME NEW s \in Deletable, ReadDeletion(s) PROVE View(a)' = View(a)
  BY <1>0, <1>7 DEF ReadDeletion
<1> QED BY <1>1, <1>2, <1>3, <1>4, <1>5, <1>6, <1>7 DEF Elsewhere

\* What others do leaves every copy as it should be, or the consumer is owed a row.
LEMMA OthersKeepCopies ==
  ASSUME FeedInv, TypeOK', CopyInv, OutboxStep, UNCHANGED stream, drifted \subseteq drifted',
         Elsewhere \/ \E r \in Run : RunStep(r)
  PROVE  StaleIsOwed'
<1> SUFFICES ASSUME NEW a \in Article, a \notin drifted', a \in scanned', copy'[a] # View(a)'
             PROVE  \E i \in Id : Tells(i)' /\ rows'[i].article = a /\ i > Position'
  BY DEF StaleIsOwed
<1>1. /\ op' = op /\ cursor' = cursor /\ last' = last /\ copy' = copy /\ scanned' = scanned
      /\ Position' = Position /\ a \notin drifted
  BY DEF stream, Position
<1>2. Position \in Nat /\ Position < next /\ Settled(Position + 1) /\ next \in Nat
  <2>1. Following
    BY <1>1 DEF CopyInv
  <2> QED BY <2>1 DEF FeedInv, FollowInv, BehindIsSettled, Position, TypeOK
<1>3. CASE View(a)' = View(a)
  <2>1. PICK i \in Id : Tells(i) /\ rows[i].article = a /\ i > Position
    BY <1>1, <1>3 DEF CopyInv, StaleIsOwed
  <2>2. i < next /\ i \in Nat
    BY <2>1, IdFinite DEF FeedInv, OutboxInv, RowsFit, Used, Tells, Seen
  <2>3. ~(next <= i) /\ rows[i].state # "open"
    BY <1>2, <2>1, <2>2 DEF Tells, Seen
  <2>4. rows'[i] = rows[i]
    BY <2>3 DEF OutboxStep, RowStep
  <2> QED BY <1>1, <2>1, <2>4 DEF Tells, Seen
<1>4. CASE NewlyTold(a)
  <2>1. PICK i \in Id : /\ Tells(i)' /\ ~Tells(i) /\ rows'[i].article = a
                        /\ next <= i \/ rows'[i].run # NoRun
    BY <1>4 DEF NewlyTold
  <2>2. i > Position
    <3> SUFFICES ASSUME i <= Position PROVE FALSE
      BY <1>2, IdFinite
    <3>1. i \in Nat /\ ~(next <= i)
      BY <1>2, IdFinite
    <3>2. Owed(i)'
      BY <2>1, <3>1 DEF Owed
    <3>3. Owed(i)
      BY <1>2, <3>2, SeenAhead DEF FeedInv
    <3> QED BY <2>1, <3>3 DEF Owed
  <2> QED BY <1>1, <2>1, <2>2
<1> QED BY <1>3, <1>4, ChangesAreTold DEF FeedInv, CopyInv

\* What a page makes of a copy: it is as it should be, or a later row is still owed.
LEMMA PageBringsUpToDate ==
  ASSUME FeedInv, CopyInv, op = "pull", NEW a \in Article \ drifted, a \in scanned,
         Applied(a) # View(a)
  PROVE  \E i \in Id : Tells(i) /\ rows[i].article = a /\ i > Examined
<1> USE DEF FeedInv, CopyInv, ArticleInv
<1> DEFINE mine == {i \in Page : Tells(i) /\ rows[i].article = a}
           g == Greatest(mine)
<1>1. /\ Page \subseteq {i \in Id : Seen(i) /\ i < limit} /\ last <= Examined /\ Examined \in Nat
      /\ \A i \in Id : Seen(i) /\ last < i /\ i <= Examined => i \in Page
      /\ last \in Nat /\ \A i \in Id : i \in Nat
  BY PageIs, PositionTypes, IdFinite DEF TypeOK
<1>2. ASSUME NEW i \in Id, Tells(i), rows[i].article = a, i > last, i \notin mine
      PROVE  i > Examined
  BY <1>1, <1>2 DEF Tells
<1>3. mine \in SUBSET Id
  BY <1>1
<1>4. mine # {} => g \in mine /\ \A i \in mine : i <= g
  BY <1>3, GreatestIs
<1>5. CASE mine = {}
  <2>1. copy[a] # View(a)
    BY <1>5 DEF Applied
  <2>2. PICK i \in Id : Tells(i) /\ rows[i].article = a /\ i > last
    BY <2>1 DEF StaleIsOwed, Position
  <2>3. i \notin mine
    BY <1>5
  <2> QED BY <1>2, <2>2, <2>3
<1>6. CASE mine # {} /\ rows[g].kind = "removed"
  <2>1. stored[a] \in {"removed", "deleted"} /\ Applied(a) = 0
    BY <1>3, <1>4, <1>6 DEF RemovalIsLast, Applied
  <2> QED BY <2>1 DEF View
<1>7. CASE mine # {} /\ rows[g].kind # "removed"
  <2>1. g \in Id /\ Tells(g) /\ rows[g].article = a /\ Used(g) /\ rows[g].kind \in Change
    BY <1>3, <1>4, <1>7 DEF Tells, Seen, Used
  <2>2. ASSUME NEW m \in Id, Tells(m), rows[m].article = a, rows[m].kind = "removed"
        PROVE  m > Examined
    <3>1. ~(m < g)
      BY <1>7, <2>1, <2>2 DEF RemovalIsLast
    <3>2. g < m /\ last < g
      BY <1>1, <1>4, <1>7, <2>1, <2>2, <3>1 DEF Page, Ahead
    <3>3. m \notin mine
      BY <1>1, <1>4, <1>7, <2>1, <3>2
    <3> QED BY <1>1, <1>2, <2>1, <2>2, <3>2, <3>3
  <2>3. CASE stored[a] \in {"removed", "deleted"}
    <3>1. \E m \in Id : Tells(m) /\ rows[m].article = a /\ rows[m].kind = "removed"
      BY <2>1, <2>3 DEF RowsTell
    <3> QED BY <2>2, <3>1
  <2>4. CASE stored[a] = "live"
    BY <1>7, <2>4 DEF Applied, View
  <2>5. stored[a] # "absent"
    BY <2>1 DEF RowsTell
  <2> QED BY <2>3, <2>4, <2>5 DEF TypeOK
<1> QED BY <1>5, <1>6, <1>7

\* The consumer's own steps keep CopyInv.
LEMMA ConsumeKeepsCopies ==
  ASSUME FeedInv, TypeOK', ArticleInv', CopyInv, Consume PROVE CopyInv'
<1> USE DEF outbox, articles, deletion, stream
<1>0. UNCHANGED <<outbox, articles>>
  BY DEF Consume, StartSnapshot, AnchorSnapshot, ScanArticle, StartPull, ReadBatch, DropPull
<1>1. /\ \A a \in Article : View(a)' = View(a)
      /\ \A i \in Id : (Tells(i)' <=> Tells(i)) /\ rows'[i] = rows[i]
      /\ cursor \in Nat /\ last \in Nat /\ \A i \in Id : i \in Nat
  BY <1>0, IdFinite DEF View, Tells, Seen, FeedInv, TypeOK
\* It is enough that the position does not move on past what a copy is owed.
<1>2. ASSUME scanned' = scanned, copy' = copy, Position' \in Nat, Position' <= Position
      PROVE  StaleIsOwed'
  <2> SUFFICES ASSUME NEW a \in Article \ drifted, a \in scanned, copy[a] # View(a)
               PROVE  \E i \in Id : Tells(i) /\ rows[i].article = a /\ i > Position'
    BY <1>0, <1>1, <1>2 DEF StaleIsOwed
  <2>1. PICK i \in Id : Tells(i) /\ rows[i].article = a /\ i > Position
    BY DEF CopyInv, StaleIsOwed
  <2>2. Position \in Nat
    BY <1>1 DEF Position
  <2> QED BY <1>1, <1>2, <2>1, <2>2
<1>3. CASE StartSnapshot \/ AnchorSnapshot
  <2>1. scanned' = {} /\ op' # "pull"
    BY <1>3 DEF StartSnapshot, AnchorSnapshot, CopyInv, Following
  <2> QED BY <2>1 DEF CopyInv, StaleIsOwed
<1>4. ASSUME NEW a \in Article, ScanArticle(a) PROVE CopyInv'
  <2>1. /\ scanned' = scanned \cup {a} /\ copy' = [copy EXCEPT ![a] = View(a)]
        /\ op' \in {"snapshot", "idle"} /\ op = "snapshot" /\ cursor' = cursor
    BY <1>4 DEF ScanArticle
  <2>2. Position' = Position
    BY <2>1 DEF Position
  <2>3. StaleIsOwed'
    <3> SUFFICES ASSUME NEW b \in Article \ drifted, b \in scanned', copy'[b] # View(b)
                 PROVE  \E i \in Id : Tells(i) /\ rows[i].article = b /\ i > Position
      BY <1>0, <1>1, <2>2 DEF StaleIsOwed
    <3>1. b # a /\ b \in scanned /\ copy'[b] = copy[b]
      BY <2>1 DEF FeedInv, TypeOK
    <3> QED BY <3>1 DEF CopyInv, StaleIsOwed
  <2> QED BY <2>1, <2>3 DEF CopyInv, Following
<1>5. CASE StartPull
  <2>1. op = "idle" /\ op' = "pull" /\ last' = cursor /\ UNCHANGED <<cursor, scanned, copy>>
    BY <1>5 DEF StartPull
  <2>2. StaleIsOwed'
    BY <1>1, <1>2, <2>1 DEF Position
  <2> QED BY <1>1, <2>1, <2>2 DEF CopyInv, Following
<1>6. CASE ReadBatch
  <2>1. /\ op = "pull" /\ copy' = [a \in Article |-> Applied(a)] /\ scanned' = scanned
        /\ \/ op' = "idle" /\ last' = 0 /\ limit' = 1 /\ cursor' = Examined
           \/ last' = Examined /\ op' = "pull" /\ cursor' = cursor /\ limit' = limit
    BY <1>6 DEF ReadBatch, Close
  <2>2. Position' = Examined
    BY <2>1 DEF Position
  <2>3. StaleIsOwed'
    <3> SUFFICES ASSUME NEW a \in Article \ drifted, a \in scanned, Applied(a) # View(a)
                 PROVE  \E i \in Id : Tells(i) /\ rows[i].article = a /\ i > Examined
      BY <1>0, <1>1, <2>1, <2>2 DEF StaleIsOwed
    <3> QED BY <2>1, PageBringsUpToDate
  <2>4. op' = "pull" => cursor' <= last'
    BY <1>1, <2>1, PageIs, PositionTypes DEF CopyInv, FeedInv
  <2> QED BY <2>1, <2>3, <2>4 DEF CopyInv, Following
<1>7. CASE DropPull
  <2>1. op = "pull" /\ op' = "idle" /\ UNCHANGED <<cursor, scanned, copy>>
    BY <1>7 DEF DropPull, Close
  <2>2. StaleIsOwed'
    BY <1>1, <1>2, <2>1 DEF Position, CopyInv
  <2> QED BY <2>1, <2>2 DEF CopyInv, Following
<1> QED BY <1>3, <1>4, <1>5, <1>6, <1>7 DEF Consume

\* Every step keeps CopyInv.
LEMMA NextKeepsCopies ==
  ASSUME FeedInv, FeedInv', CopyInv, [Next]_vars PROVE CopyInv'
<1>1. ArticleInv'
  BY NextKeepsArticles DEF FeedInv, CopyInv
<1>2. CASE UNCHANGED vars
  <2>1. /\ UNCHANGED <<op, cursor, last, scanned, copy, drifted>> /\ Position' = Position
        /\ \A a \in Article : View(a)' = View(a)
        /\ \A i \in Id : (Tells(i)' <=> Tells(i)) /\ rows'[i] = rows[i]
    BY <1>2 DEF vars, outbox, articles, stream, View, Tells, Seen, Position
  <2>2. StaleIsOwed'
    BY <2>1 DEF CopyInv, StaleIsOwed
  <2> QED BY <1>1, <2>1, <2>2 DEF CopyInv, Following
<1>3. CASE Elsewhere \/ \E r \in Run : RunStep(r)
  <2>1. UNCHANGED stream /\ drifted \subseteq drifted'
    BY <1>3 DEF Elsewhere, RunStep, Claim, RecordRunStart, CommitRun, RollBack, EndRun, Requeue,
           RecordChange, RecordRemoval, Reappear, Resanitize, RecordDeletion, ReadDeletion,
           DeleteSource, CommitDeletion, Cascade, articles
  <2>2. OutboxStep
    BY <1>3, RunIsOutboxStep, ElsewhereIsOutboxStep DEF FeedInv
  <2>3. StaleIsOwed'
    BY <1>3, <2>1, <2>2, OthersKeepCopies DEF FeedInv
  <2>4. UNCHANGED <<op, cursor, last, scanned>>
    BY <2>1 DEF stream
  <2> QED BY <1>1, <2>3, <2>4 DEF CopyInv, Following
<1>4. CASE Consume
  BY <1>1, <1>4, ConsumeKeepsCopies DEF FeedInv
<1> QED BY <1>2, <1>3, <1>4 DEF Next

\* delta_feed.py: what the consumer holds of an article is what is stored of it, or a row
\* that it still has to be sent tells the difference.  Articles that changed without a
\* row (drifted) are the exceptions, whichever other gaps are let in.
THEOREM StaleCopiesAreOwed == ASSUME "stale_ceiling" \notin Gaps PROVE Spec => []StaleIsOwed
<1>1. Init => CopyInv
  BY ArticleInit DEF Init, CopyInv, StaleIsOwed
<1>2. FeedInv /\ FeedInv' /\ CopyInv /\ [Next]_vars => CopyInv'
  BY NextKeepsCopies
<1>3. CopyInv => StaleIsOwed
  BY DEF CopyInv
<1> QED BY <1>1, <1>2, <1>3, FeedInvariance, PTL DEF Spec
=============================================================================
