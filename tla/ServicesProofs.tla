--------------------------- MODULE ServicesProofs ---------------------------
(***************************************************************************)
(* Proofs about the services of MCServices, for any values of their        *)
(* constants: CountersMatchLog, RightsWereHeld, RunScrapesItsVersion,       *)
(* OneIdentity; and SiblingsDoNotRepeat with one extraction lane (worker.py *)
(* runs extractions one at a time, in one process).                        *)
(***************************************************************************)
EXTENDS MCServices, FiniteSetTheorems, TLAPS
-----------------------------------------------------------------------------
(* Webhooks: types, and every event has one delivery for each webhook.     *)

HookRow == [scope : Sources \cup {Global}, events : SUBSET Events, active : BOOLEAN,
            deliveries : Nat, failures : Nat]
Task == [source : Sources, event : Events, n : Nat]
Post == [hook : Hooks, source : Sources, n : Nat, attempt : 0 .. RETRY_DELAYS,
         success : BOOLEAN, read : HookRow]
LogRow == [hook : Hooks, n : Nat, success : BOOLEAN]

HookTypes ==
    /\ hook \in [Hooks -> SUBSET HookRow]
    /\ source \subseteq Sources
    /\ plan \in [Sources -> SUBSET (Events \cup {"none"})]
    /\ task \subseteq Task /\ post \subseteq Post /\ log \subseteq LogRow
    /\ spawned \in Nat

\* The log is finite, and the rows of a webhook go with it.
LogIsKept ==
    /\ IsFiniteSet(log)
    /\ \A d \in log : hook[d.hook] # {}

\* An event is waiting, on its way, or logged; and once for each webhook.
EventsFit ==
    /\ \A x \in task \cup post \cup log : x.n <= spawned
    /\ \A t, u \in task : t.n = u.n => t = u
    /\ \A t \in task, x \in post \cup log : t.n # x.n
    /\ \A d, e \in post : d.hook = e.hook /\ d.n = e.n => d = e
    /\ \A d \in post, x \in log : d.hook = x.hook => d.n # x.n

HookInv == HookTypes /\ LogIsKept /\ EventsFit /\ Hook!CountersMatchLog

LEMMA HookStarts == Hook!Init => HookInv
<1> SUFFICES ASSUME Hook!Init PROVE HookInv  OBVIOUS
<1>1. /\ hook = [h \in Hooks |-> {}] /\ source = Sources /\ plan = [s \in Sources |-> {"none"}]
      /\ task = {} /\ post = {} /\ log = {} /\ spawned = 0
  BY DEF Hook!Init, Hook!NoPlan
<1>2. HookTypes  BY <1>1 DEF HookTypes
<1>3. LogIsKept  BY <1>1, FS_EmptySet DEF LogIsKept
<1>4. EventsFit  BY <1>1 DEF EventsFit
<1>5. Hook!CountersMatchLog  BY <1>1 DEF Hook!CountersMatchLog
<1> QED  BY <1>2, <1>3, <1>4, <1>5 DEF HookInv

\* What a webhook is dispatched with.
LEMMA EligibleIs ==
    ASSUME HookTypes, NEW s, NEW e, NEW h \in Hook!Eligible(s, e)
    PROVE  h \in Hooks /\ hook[h] # {} /\ (CHOOSE w \in hook[h] : TRUE) \in HookRow
<1>1. h \in Hooks /\ hook[h] # {}  BY DEF Hook!Eligible
<1>2. (CHOOSE w \in hook[h] : TRUE) \in hook[h]  BY <1>1
<1> QED  BY <1>1, <1>2 DEF HookTypes

NewPost(t, h) == [hook |-> h, source |-> t.source, n |-> t.n, attempt |-> 0,
                  success |-> FALSE, read |-> CHOOSE w \in hook[h] : TRUE]

LEMMA DispatchIs ==
    ASSUME HookTypes, NEW t \in task, Hook!Dispatch(t)
    PROVE  /\ post' = post \cup {NewPost(t, h) : h \in Hook!Eligible(t.source, t.event)}
           /\ \A h \in Hook!Eligible(t.source, t.event) :
                 NewPost(t, h) \in Post /\ NewPost(t, h).hook = h /\ NewPost(t, h).n = t.n
           /\ task' = task \ {t} /\ UNCHANGED <<hook, source, plan, log, spawned>>
<1>1. /\ post' = post \cup {NewPost(t, h) : h \in Hook!Eligible(t.source, t.event)}
      /\ task' = task \ {t} /\ UNCHANGED <<hook, source, plan, log, spawned>>
  BY DEF Hook!Dispatch, NewPost
<1>2. t.source \in Sources /\ t.n \in Nat  BY DEF HookTypes, Task
<1>3. 0 \in 0 .. RETRY_DELAYS  BY DeliveriesAssumption
<1>4. ASSUME NEW h \in Hook!Eligible(t.source, t.event)
      PROVE  NewPost(t, h) \in Post /\ NewPost(t, h).hook = h /\ NewPost(t, h).n = t.n
  <2> DEFINE r == CHOOSE w \in hook[h] : TRUE
  <2>1. h \in Hooks /\ r \in HookRow  BY EligibleIs
  <2>2. NewPost(t, h) = [hook |-> h, source |-> t.source, n |-> t.n, attempt |-> 0,
                         success |-> FALSE, read |-> r]
    BY DEF NewPost
  <2> HIDE DEF r
  <2> QED  BY <1>2, <1>3, <2>1, <2>2 DEF Post
<1> QED  BY <1>1, <1>4

\* One POST, and its outcome.
LEMMA AttemptIs ==
    ASSUME HookTypes, NEW d \in post, NEW ok \in BOOLEAN, Hook!Attempt(d, ok)
    PROVE  \E e \in Post : /\ post' = (post \ {d}) \cup {e}
                           /\ e.hook = d.hook /\ e.n = d.n
<1>1. d \in Post /\ d.attempt < RETRY_DELAYS
  BY DEF HookTypes, Hook!Attempt
<1> DEFINE e == [d EXCEPT !.attempt = d.attempt + 1, !.success = ok]
<1>2. post' = (post \ {d}) \cup {e}  BY DEF Hook!Attempt
<1>3. d.attempt + 1 \in 0 .. RETRY_DELAYS  BY <1>1, DeliveriesAssumption DEF Post
<1>4. e \in Post /\ e.hook = d.hook /\ e.n = d.n  BY <1>1, <1>3 DEF Post
<1> QED  BY <1>2, <1>4

\* A delivery that is logged: the counters of its webhook's row go up by one.
LEMMA CountedIs ==
    ASSUME NEW w \in HookRow, NEW d \in Post
    PROVE  /\ Hook!Counted(w, d) \in HookRow
           /\ Hook!Counted(w, d).deliveries = w.deliveries + 1
           /\ Hook!Counted(w, d).failures = w.failures + (IF d.success THEN 0 ELSE 1)
<1> DEFINE m == w.deliveries + 1
           f == w.failures + (IF d.success THEN 0 ELSE 1)
<1>1. m \in Nat /\ f \in Nat  BY DEF HookRow
<1>2. Hook!Counted(w, d) = [w EXCEPT !.deliveries = m, !.failures = f]  BY DEF Hook!Counted
<1> HIDE DEF m, f
<1>3. Hook!Counted(w, d) \in HookRow /\ Hook!Counted(w, d).deliveries = m /\ Hook!Counted(w, d).failures = f
  BY <1>1, <1>2 DEF HookRow
<1> QED  BY <1>3 DEF m, f

LEMMA HookTypesKept ==
    ASSUME HookTypes, Hook!Next
    PROVE  HookTypes'
<1>1. ASSUME NEW h \in Hooks, NEW scope \in Sources \cup {Global}, NEW events \in SUBSET Events,
             Hook!CreateHook(h, scope, events)
      PROVE  HookTypes'
  <2>1. Hook!NewHook(scope, events) \in HookRow  BY DEF Hook!NewHook, HookRow
  <2> QED  BY <1>1, <2>1 DEF HookTypes, Hook!CreateHook
<1>2. ASSUME NEW h \in Hooks, Hook!UpdateHook(h) PROVE HookTypes'
  <2>1. PICK w \in hook[h], s \in source \cup {Global}, active \in BOOLEAN :
           /\ hook' = [hook EXCEPT ![h] = {[w EXCEPT !.active = active,
                          !.scope = IF s = Global THEN @ ELSE s]}]
           /\ UNCHANGED <<source, plan, task, post, log, spawned>>
    BY <1>2 DEF Hook!UpdateHook
  <2>2. w \in HookRow /\ (IF s = Global THEN w.scope ELSE s) \in Sources \cup {Global}
    BY DEF HookTypes, HookRow
  <2>3. [w EXCEPT !.active = active, !.scope = IF s = Global THEN @ ELSE s] \in HookRow
    BY <2>2 DEF HookRow
  <2> QED  BY <2>1, <2>3 DEF HookTypes
<1>3. ASSUME NEW h \in Hooks, Hook!DeleteHook(h) PROVE HookTypes'
  BY <1>3 DEF HookTypes, Hook!DeleteHook
<1>4. ASSUME NEW s \in Sources, Hook!DeleteSource(s) PROVE HookTypes'
  <2>1. ASSUME NEW w \in HookRow
        PROVE  [w EXCEPT !.scope = IF @ = s THEN Global ELSE @] \in HookRow
    BY DEF HookRow
  <2>2. hook' \in [Hooks -> SUBSET HookRow]
    BY <1>4, <2>1 DEF HookTypes, Hook!DeleteSource
  <2> QED  BY <1>4, <2>2 DEF HookTypes, Hook!DeleteSource
<1>5. ASSUME NEW s \in Sources, Hook!PrepareRun(s) PROVE HookTypes'
  <2>1. UNION {w.events : w \in Hook!InScope(s)} \subseteq Events
    BY DEF Hook!InScope, HookTypes, HookRow
  <2>2. PICK pruned \in SUBSET (Sources \ {s}) :
           plan' = [r \in Sources |->
                     CASE r = s -> UNION {w.events : w \in Hook!InScope(s)}
                       [] r \in pruned -> {"none"}
                       [] OTHER -> plan[r]]
    BY <1>5 DEF Hook!PrepareRun, Hook!NoPlan
  <2> DEFINE all == UNION {w.events : w \in Hook!InScope(s)}
  <2> HIDE DEF all
  <2>3. \A r \in Sources : plan'[r] = all \/ plan'[r] = {"none"} \/ plan'[r] = plan[r]
    BY <2>2 DEF all
  <2>4. plan' = [r \in Sources |-> plan'[r]]  BY <2>2
  <2>5. plan' \in [Sources -> SUBSET (Events \cup {"none"})]
    BY <2>1, <2>3, <2>4 DEF HookTypes, all
  <2> QED  BY <1>5, <2>5 DEF HookTypes, Hook!PrepareRun
<1>6. ASSUME NEW s \in Sources, NEW e \in Events, Hook!Emit(s, e) PROVE HookTypes'
  <2>1. [source |-> s, event |-> e, n |-> spawned + 1] \in Task  BY DEF HookTypes, Task
  <2>2. plan' \in [Sources -> SUBSET (Events \cup {"none"})]
    BY <1>6 DEF HookTypes, Hook!Emit, Hook!NoPlan
  <2> QED  BY <1>6, <2>1, <2>2 DEF HookTypes, Hook!Emit
<1>7. ASSUME NEW t \in task, Hook!Dispatch(t) PROVE HookTypes'
  BY <1>7, DispatchIs DEF HookTypes
<1>8. ASSUME NEW d \in post, NEW ok \in BOOLEAN, Hook!Attempt(d, ok) PROVE HookTypes'
  BY <1>8, AttemptIs DEF HookTypes, Hook!Attempt
<1>9. ASSUME NEW d \in post, Hook!Persist(d) PROVE HookTypes'
  <2>1. d \in Post /\ Hook!Logged(d) \in LogRow
    BY DEF HookTypes, Post, LogRow, Hook!Logged
  <2>2. \A w \in hook[d.hook] : Hook!Counted(w, d) \in HookRow
    BY <2>1, CountedIs DEF HookTypes, Post
  <2>3. hook' = [hook EXCEPT ![d.hook] = {Hook!Counted(w, d) : w \in hook[d.hook]}]
    BY <1>9 DEF Hook!Persist
  <2>4. hook' \in [Hooks -> SUBSET HookRow]
    BY <2>2, <2>3 DEF HookTypes
  <2> QED  BY <1>9, <2>1, <2>4 DEF HookTypes, Hook!Persist
<1>10. ASSUME NEW d \in post, Hook!PersistFails(d) PROVE HookTypes'
  BY <1>10 DEF HookTypes, Hook!PersistFails
<1>11. ASSUME Hook!WorkerCrash PROVE HookTypes'
  BY <1>11 DEF HookTypes, Hook!WorkerCrash, Hook!NoPlan
<1> QED
  BY <1>1, <1>2, <1>3, <1>4, <1>5, <1>6, <1>7, <1>8, <1>9, <1>10, <1>11 DEF Hook!Next

\* The steps that change what is logged, or the webhooks it is logged for.
LEMMA LogKept ==
    ASSUME HookTypes, LogIsKept, Hook!Next
    PROVE  LogIsKept'
<1>1. ASSUME NEW h \in Hooks, NEW scope, NEW events, Hook!CreateHook(h, scope, events)
      PROVE  LogIsKept'
  BY <1>1 DEF LogIsKept, HookTypes, LogRow, Hook!CreateHook
<1>2. ASSUME NEW h \in Hooks, Hook!UpdateHook(h) PROVE LogIsKept'
  BY <1>2 DEF LogIsKept, HookTypes, LogRow, Hook!UpdateHook
<1>3. ASSUME NEW h \in Hooks, Hook!DeleteHook(h) PROVE LogIsKept'
  <2>1. IsFiniteSet(log')
    BY <1>3, FS_Subset DEF LogIsKept, Hook!DeleteHook
  <2> QED  BY <1>3, <2>1 DEF LogIsKept, HookTypes, LogRow, Hook!DeleteHook
<1>4. ASSUME NEW s \in Sources, Hook!DeleteSource(s) PROVE LogIsKept'
  <2>1. ASSUME NEW h \in Hooks, hook[h] # {} PROVE hook'[h] # {}
    <3>1. PICK w \in hook[h] : TRUE  BY <2>1
    <3>2. [w EXCEPT !.scope = IF @ = s THEN Global ELSE @] \in hook'[h]
      BY <1>4, <3>1 DEF Hook!DeleteSource
    <3> QED  BY <3>2
  <2>2. log' = log  BY <1>4 DEF Hook!DeleteSource
  <2> QED  BY <2>1, <2>2 DEF LogIsKept, HookTypes, LogRow
<1>5. ASSUME NEW d \in post, Hook!Persist(d) PROVE LogIsKept'
  <2>1. Hook!Logged(d).hook = d.hook /\ d.hook \in Hooks /\ hook[d.hook] # {}
    BY <1>5 DEF Hook!Logged, HookTypes, Post, Hook!Persist
  <2>2. IsFiniteSet(log')
    BY <1>5, FS_AddElement DEF LogIsKept, Hook!Persist
  <2>3. \A h \in Hooks : hook[h] # {} => hook'[h] # {}
    BY <1>5 DEF HookTypes, Hook!Persist
  <2>4. log' = log \cup {Hook!Logged(d)}  BY <1>5 DEF Hook!Persist
  <2> QED  BY <2>1, <2>2, <2>3, <2>4 DEF LogIsKept, HookTypes, LogRow
<1>6. CASE UNCHANGED <<hook, log>>  BY <1>6 DEF LogIsKept
<1>7. ASSUME NEW s \in Sources, NEW e \in Events, Hook!PrepareRun(s) \/ Hook!Emit(s, e)
      PROVE UNCHANGED <<hook, log>>
  BY <1>7 DEF Hook!PrepareRun, Hook!Emit
<1>8. ASSUME Hook!WorkerCrash \/ \E t \in task : Hook!Dispatch(t) PROVE UNCHANGED <<hook, log>>
  BY <1>8 DEF Hook!WorkerCrash, Hook!Dispatch
<1>9. ASSUME NEW d \in post, (\E ok \in BOOLEAN : Hook!Attempt(d, ok)) \/ Hook!PersistFails(d)
      PROVE UNCHANGED <<hook, log>>
  BY <1>9 DEF Hook!Attempt, Hook!PersistFails
<1>10. ASSUME NEW s \in Sources, Hook!PrepareRun(s) PROVE UNCHANGED <<hook, log>>
  BY <1>10 DEF Hook!PrepareRun
<1> QED
  BY <1>1, <1>2, <1>3, <1>4, <1>5, <1>6, <1>7, <1>8, <1>9, <1>10 DEF Hook!Next

\* A delivery has the number of its event, and so has what is logged of it.
LEMMA EventsKept ==
    ASSUME HookTypes, EventsFit, Hook!Next
    PROVE  EventsFit'
<1>0. /\ \A x \in task \cup post \cup log : x.n \in Nat
      /\ spawned \in Nat
  BY DEF HookTypes, Task, Post, LogRow
<1>1. CASE UNCHANGED <<task, post, spawned>> /\ log' \subseteq log
  BY <1>1 DEF EventsFit
<1>2. ASSUME NEW s \in Sources, NEW e \in Events, Hook!Emit(s, e) PROVE EventsFit'
  <2>1. CASE UNCHANGED <<task, spawned>>
    BY <1>2, <2>1 DEF EventsFit, Hook!Emit
  <2>2. CASE /\ task' = task \cup {[source |-> s, event |-> e, n |-> spawned + 1]}
             /\ spawned' = spawned + 1
    <3> DEFINE t == [source |-> s, event |-> e, n |-> spawned + 1]
    <3>1. t.n = spawned + 1 /\ task' = task \cup {t}  BY <2>2
    <3>2. UNCHANGED <<post, log>>  BY <1>2 DEF Hook!Emit
    <3>3. \A x \in task \cup post \cup log : x.n <= spawned /\ x.n # spawned + 1 /\ x.n <= spawned + 1
      BY <1>0 DEF EventsFit
    <3> HIDE DEF t
    <3>4. \A x \in task' \cup post' \cup log' : x.n <= spawned'
      BY <1>0, <2>2, <3>1, <3>2, <3>3
    <3>5. /\ \A x, y \in task' : x.n = y.n => x = y
          /\ \A x \in task', y \in post' \cup log' : x.n # y.n
      BY <3>1, <3>2, <3>3 DEF EventsFit
    <3> QED  BY <3>2, <3>4, <3>5 DEF EventsFit
  <2> QED  BY <1>2, <2>1, <2>2 DEF Hook!Emit
<1>3. ASSUME NEW t \in task, Hook!Dispatch(t) PROVE EventsFit'
  <2>1. /\ task' = task \ {t} /\ UNCHANGED <<log, spawned>>
        /\ post \subseteq post'
        /\ \A d \in post' : d \in post \/ (d.n = t.n /\ d = NewPost(t, d.hook))
    BY <1>3, DispatchIs
  <2>2. \A x \in post \cup log : x.n # t.n  BY DEF EventsFit
  <2>3. \A x \in task' : x.n # t.n  BY <2>1 DEF EventsFit
  <2>4. \A d, e \in post' : d.hook = e.hook /\ d.n = e.n => d = e
    BY <2>1, <2>2 DEF EventsFit
  <2>5. t.n <= spawned  BY DEF EventsFit
  <2>6. \A x \in task' \cup post' \cup log' : x.n <= spawned'
    BY <2>1, <2>5 DEF EventsFit
  <2>7. \A x \in task', y \in post' \cup log' : x.n # y.n
    BY <2>1, <2>3 DEF EventsFit
  <2>8. \A d \in post', x \in log' : d.hook = x.hook => d.n # x.n
    BY <2>1, <2>2 DEF EventsFit
  <2>9. \A x, y \in task' : x.n = y.n => x = y
    BY <2>1 DEF EventsFit
  <2> QED  BY <2>4, <2>6, <2>7, <2>8, <2>9 DEF EventsFit
<1>4. ASSUME NEW d \in post, NEW ok \in BOOLEAN, Hook!Attempt(d, ok) PROVE EventsFit'
  <2>1. PICK e \in Post : post' = (post \ {d}) \cup {e} /\ e.hook = d.hook /\ e.n = d.n
    BY <1>4, AttemptIs
  <2>2. UNCHANGED <<task, log, spawned>>  BY <1>4 DEF Hook!Attempt
  <2> QED  BY <2>1, <2>2 DEF EventsFit
<1>5. ASSUME NEW d \in post, Hook!Persist(d) PROVE EventsFit'
  <2>1. /\ post' = post \ {d} /\ log' = log \cup {Hook!Logged(d)}
        /\ UNCHANGED <<task, spawned>>
    BY <1>5 DEF Hook!Persist
  <2>2. Hook!Logged(d).hook = d.hook /\ Hook!Logged(d).n = d.n  BY DEF Hook!Logged
  <2>3. \A e \in post' : e.hook = d.hook => e.n # d.n  BY <2>1 DEF EventsFit
  <2> QED  BY <2>1, <2>2, <2>3 DEF EventsFit
<1>6. ASSUME NEW d \in post, Hook!PersistFails(d) PROVE EventsFit'
  BY <1>6 DEF EventsFit, Hook!PersistFails
<1>7. ASSUME Hook!WorkerCrash PROVE EventsFit'
  BY <1>7 DEF EventsFit, Hook!WorkerCrash
<1>8. ASSUME NEW h \in Hooks, \/ \E scope \in Sources \cup {Global}, events \in SUBSET Events :
                                    Hook!CreateHook(h, scope, events)
                               \/ Hook!UpdateHook(h) \/ Hook!DeleteHook(h)
      PROVE  EventsFit'
  BY <1>1, <1>8 DEF Hook!CreateHook, Hook!UpdateHook, Hook!DeleteHook
<1>9. ASSUME NEW s \in Sources, Hook!DeleteSource(s) \/ Hook!PrepareRun(s) PROVE EventsFit'
  BY <1>1, <1>9 DEF Hook!DeleteSource, Hook!PrepareRun
<1> QED
  BY <1>2, <1>3, <1>4, <1>5, <1>6, <1>7, <1>8, <1>9 DEF Hook!Next

\* What the log says of a webhook.
LoggedOf(rows, h) == {d \in rows : d.hook = h}
FailedOf(rows, h) == {d \in LoggedOf(rows, h) : ~d.success}
CountsMatch(w, rows, h) == /\ w.deliveries = Cardinality(LoggedOf(rows, h))
                           /\ w.failures = Cardinality(FailedOf(rows, h))

\* The cardinality of the instance is the one the library's theorems are about.
LEMMA SameCardinality == \A S : Hook!Cardinality(S) = Cardinality(S)
  BY Zenon DEF Hook!Cardinality, Cardinality

LEMMA CountersAre ==
    Hook!CountersMatchLog <=> \A h \in Hooks : \A w \in hook[h] : CountsMatch(w, log, h)
  BY SameCardinality, Zenon DEF Hook!CountersMatchLog, CountsMatch, LoggedOf, FailedOf

LEMMA CountersFrom ==
    ASSUME \A h \in Hooks : \A w \in hook'[h] : CountsMatch(w, log', h)
    PROVE  Hook!CountersMatchLog'
  BY SameCardinality, Zenon DEF Hook!CountersMatchLog, CountsMatch, LoggedOf, FailedOf

\* One more row in the log.
LEMMA LoggedOnce ==
    ASSUME HookInv, NEW d \in post, hook[d.hook] # {}, NEW w \in hook[d.hook]
    PROVE  CountsMatch(Hook!Counted(w, d), log \cup {Hook!Logged(d)}, d.hook)
<1> DEFINE x == Hook!Logged(d)
           h == d.hook
           rows == LoggedOf(log, h)
           fails == FailedOf(log, h)
<1>1. d \in Post /\ h \in Hooks /\ w \in HookRow
  BY DEF HookInv, HookTypes, Post
<1>2. x.hook = h /\ x.n = d.n /\ x.success = d.success /\ d.success \in BOOLEAN
  BY <1>1 DEF Hook!Logged, Post
<1>3. x \notin rows
  BY <1>2 DEF HookInv, EventsFit, LoggedOf
<1>4. IsFiniteSet(rows) /\ IsFiniteSet(fails)
  BY FS_Subset DEF HookInv, LogIsKept, LoggedOf, FailedOf
<1>5. Cardinality(rows \cup {x}) = Cardinality(rows) + 1 /\ Cardinality(fails \cup {x}) = Cardinality(fails) + 1
  BY <1>3, <1>4, FS_AddElement DEF FailedOf
<1>6. w.deliveries = Cardinality(rows) /\ w.failures = Cardinality(fails)
  BY <1>1, CountersAre DEF HookInv, CountsMatch
<1>7. LoggedOf(log \cup {x}, h) = rows \cup {x}
  BY <1>2 DEF LoggedOf
<1>8. FailedOf(log \cup {x}, h) = IF d.success THEN fails ELSE fails \cup {x}
  BY <1>2, <1>7 DEF FailedOf
<1>9. w.failures \in Nat  BY <1>1 DEF HookRow
<1>10. /\ Hook!Counted(w, d).deliveries = Cardinality(rows) + 1
       /\ Hook!Counted(w, d).failures = Cardinality(fails) + (IF d.success THEN 0 ELSE 1)
  BY <1>1, <1>6, CountedIs
<1> HIDE DEF x, rows, fails
<1>11. CASE d.success
  <2>1. Hook!Counted(w, d).failures = Cardinality(fails)  BY <1>6, <1>9, <1>10, <1>11
  <2>2. FailedOf(log \cup {x}, h) = fails  BY <1>8, <1>11
  <2> QED  BY <1>5, <1>7, <1>10, <2>1, <2>2 DEF CountsMatch, x
<1>12. CASE ~d.success
  <2>1. Hook!Counted(w, d).failures = Cardinality(fails) + 1  BY <1>10, <1>12
  <2>2. FailedOf(log \cup {x}, h) = fails \cup {x}  BY <1>8, <1>12
  <2> QED  BY <1>5, <1>7, <1>10, <2>1, <2>2 DEF CountsMatch, x
<1> QED  BY <1>2, <1>11, <1>12

LEMMA CountersKept ==
    ASSUME HookInv, Hook!Next
    PROVE  Hook!CountersMatchLog'
<1>0. /\ hook \in [Hooks -> SUBSET HookRow] /\ log \subseteq LogRow
      /\ \A h \in Hooks : \A w \in hook[h] : CountsMatch(w, log, h)
  BY CountersAre DEF HookInv, HookTypes
<1>1. ASSUME NEW h \in Hooks, NEW scope, NEW events, Hook!CreateHook(h, scope, events)
      PROVE  Hook!CountersMatchLog'
  <2>1. LoggedOf(log, h) = {} /\ FailedOf(log, h) = {}
    BY <1>1 DEF HookInv, LogIsKept, LoggedOf, FailedOf, Hook!CreateHook
  <2>2. CountsMatch(Hook!NewHook(scope, events), log, h)
    BY <2>1, FS_EmptySet DEF CountsMatch, Hook!NewHook
  <2>3. hook' = [hook EXCEPT ![h] = {Hook!NewHook(scope, events)}] /\ log' = log
    BY <1>1 DEF Hook!CreateHook
  <2>4. \A g \in Hooks : \A w \in hook'[g] : CountsMatch(w, log', g)
    BY <1>0, <2>2, <2>3
  <2> QED  BY <2>4, CountersFrom
<1>2. ASSUME NEW h \in Hooks, Hook!UpdateHook(h) PROVE Hook!CountersMatchLog'
  <2>1. PICK w \in hook[h], s \in source \cup {Global}, active \in BOOLEAN :
           /\ hook' = [hook EXCEPT ![h] = {[w EXCEPT !.active = active,
                          !.scope = IF s = Global THEN @ ELSE s]}]
           /\ log' = log
    BY <1>2 DEF Hook!UpdateHook
  <2> DEFINE v == [w EXCEPT !.active = active, !.scope = IF s = Global THEN @ ELSE s]
  <2>2. v.deliveries = w.deliveries /\ v.failures = w.failures
    BY <1>0 DEF HookRow
  <2>3. hook' = [hook EXCEPT ![h] = {v}]  BY <2>1
  <2> HIDE DEF v
  <2>4. \A g \in Hooks : \A x \in hook'[g] : CountsMatch(x, log', g)
    BY <1>0, <2>1, <2>2, <2>3 DEF CountsMatch
  <2> QED  BY <2>4, CountersFrom
<1>3. ASSUME NEW h \in Hooks, Hook!DeleteHook(h) PROVE Hook!CountersMatchLog'
  <2>1. hook' = [hook EXCEPT ![h] = {}] /\ log' = {d \in log : d.hook # h}
    BY <1>3 DEF Hook!DeleteHook
  <2>2. \A g \in Hooks \ {h} : LoggedOf(log', g) = LoggedOf(log, g)
    BY <2>1 DEF LoggedOf
  <2>3. \A g \in Hooks : \A x \in hook'[g] : CountsMatch(x, log', g)
    BY <1>0, <2>1, <2>2 DEF CountsMatch, FailedOf
  <2> QED  BY <2>3, CountersFrom
<1>4. ASSUME NEW s \in Sources, Hook!DeleteSource(s) PROVE Hook!CountersMatchLog'
  <2>1. hook' = [h \in Hooks |-> {[w EXCEPT !.scope = IF @ = s THEN Global ELSE @] : w \in hook[h]}]
        /\ log' = log
    BY <1>4 DEF Hook!DeleteSource
  <2>2. ASSUME NEW g \in Hooks, NEW x \in hook'[g] PROVE CountsMatch(x, log', g)
    <3>1. PICK w \in hook[g] : x = [w EXCEPT !.scope = IF @ = s THEN Global ELSE @]
      BY <2>1
    <3>2. x.deliveries = w.deliveries /\ x.failures = w.failures
      BY <1>0, <3>1 DEF HookRow
    <3> QED  BY <1>0, <2>1, <3>2 DEF CountsMatch
  <2> QED  BY <2>2, CountersFrom
<1>5. ASSUME NEW d \in post, Hook!Persist(d) PROVE Hook!CountersMatchLog'
  <2>1. /\ hook[d.hook] # {} /\ log' = log \cup {Hook!Logged(d)}
        /\ hook' = [hook EXCEPT ![d.hook] = {Hook!Counted(w, d) : w \in hook[d.hook]}]
    BY <1>5 DEF Hook!Persist
  <2>2. d.hook \in Hooks  BY DEF HookInv, HookTypes, Post
  <2>3. ASSUME NEW w \in hook[d.hook] PROVE CountsMatch(Hook!Counted(w, d), log', d.hook)
    BY <2>1, LoggedOnce
  <2>4. \A g \in Hooks : g # d.hook => LoggedOf(log', g) = LoggedOf(log, g)
    BY <2>1 DEF LoggedOf, Hook!Logged
  <2>5. \A g \in Hooks : \A x \in hook'[g] : CountsMatch(x, log', g)
    <3>1. ASSUME NEW g \in Hooks, g # d.hook, NEW x \in hook'[g] PROVE CountsMatch(x, log', g)
      BY <1>0, <2>1, <2>2, <2>4, <3>1 DEF CountsMatch, FailedOf
    <3>2. \A x \in hook'[d.hook] : CountsMatch(x, log', d.hook)
      BY <1>0, <2>1, <2>2, <2>3
    <3> QED  BY <3>1, <3>2
  <2> QED  BY <2>5, CountersFrom
<1>6. CASE UNCHANGED <<hook, log>>
  BY <1>0, <1>6, CountersFrom
<1>7. ASSUME NEW s \in Sources, Hook!PrepareRun(s) PROVE UNCHANGED <<hook, log>>
  BY <1>7 DEF Hook!PrepareRun
<1>8. ASSUME NEW s \in Sources, NEW e \in Events, Hook!Emit(s, e) PROVE UNCHANGED <<hook, log>>
  BY <1>8 DEF Hook!Emit
<1>9. ASSUME Hook!WorkerCrash \/ \E t \in task : Hook!Dispatch(t) PROVE UNCHANGED <<hook, log>>
  BY <1>9 DEF Hook!WorkerCrash, Hook!Dispatch
<1>10. ASSUME NEW d \in post, (\E ok \in BOOLEAN : Hook!Attempt(d, ok)) \/ Hook!PersistFails(d)
       PROVE UNCHANGED <<hook, log>>
  BY <1>10 DEF Hook!Attempt, Hook!PersistFails
<1> QED
  BY <1>1, <1>2, <1>3, <1>4, <1>5, <1>6, <1>7, <1>8, <1>9, <1>10 DEF Hook!Next

LEMMA HookKept == HookInv /\ Hook!Next => HookInv'
<1> SUFFICES ASSUME HookInv, Hook!Next PROVE HookInv'  OBVIOUS
<1>1. HookTypes'  BY HookTypesKept DEF HookInv
<1>2. LogIsKept'  BY LogKept DEF HookInv
<1>3. EventsFit'  BY EventsKept DEF HookInv
<1>4. Hook!CountersMatchLog'  BY CountersKept
<1> QED  BY <1>1, <1>2, <1>3, <1>4 DEF HookInv

\* The counters of a webhook agree with the deliveries that were logged for it, whatever
\* deliveries of it run at the same time, are retried, or are lost with the worker: the
\* dispatcher has the database increment them (_deliver_one), in the log's transaction.
THEOREM CountersStayExact == ServicesSpec => []CountersMatchLog
<1> DEFINE I == part = "hooks" => HookInv
<1>1. ServicesInit => I
  BY HookStarts DEF ServicesInit
<1>2. I /\ [ServicesNext]_serviceVars => I'
  <2> SUFFICES ASSUME I, [ServicesNext]_serviceVars, part' = "hooks" PROVE HookInv'
    OBVIOUS
  <2>1. CASE UNCHANGED serviceVars
    <3>1. UNCHANGED hooksVars /\ HookInv  BY <2>1 DEF serviceVars
    <3> QED
      BY <3>1 DEF hooksVars, HookInv, HookTypes, LogIsKept, EventsFit, Hook!CountersMatchLog
  <2>2. CASE ServicesNext
    <3>1. Hook!Next /\ HookInv  BY <2>2 DEF ServicesNext
    <3> QED  BY <3>1, HookKept
  <2> QED  BY <2>1, <2>2
<1>3. I => CountersMatchLog
  BY DEF CountersMatchLog, HookInv
<1> QED  BY <1>1, <1>2, <1>3, PTL DEF ServicesSpec
-----------------------------------------------------------------------------
(* Accounts: what a request asks for, and what it decided, was held.        *)

UserRow == [role : Access!Role, active : BOOLEAN]
KeyRow == [owner : Users, role : Access!Role, active : BOOLEAN]

UsersFit ==
    /\ user \in [Users -> SUBSET UserRow]
    /\ \A u \in Users : \A x, y \in user[u] : x = y
    /\ used \subseteq Users
    /\ \A u \in Users : user[u] # {} => u \in used
    /\ peak \in [Users -> Access!Role]
    /\ \A u \in Users : \A x \in user[u] : Access!RoleAtLeast(peak[u], x.role)

RightsFit ==
    /\ key \in [Keys -> SUBSET KeyRow]
    /\ grant \subseteq Users \X Vendors \X Access!Role
    /\ Access!RightsWereHeld

\* A user had a role at some time.
Entitled(u, role) == u \in used /\ role \in Access!Role /\ Access!RoleAtLeast(peak[u], role)

AskFits(r) == Entitled(r.caller, r.role)

WriteFits(w) ==
    /\ w.op = "insert" => w.user \in Users /\ w.role \in Access!Role
    /\ w.op = "delete" => w.user \in Users
    /\ w.op = "update" =>
          /\ w.user \in Users
          /\ w.role = {} \/ \E x \in Access!Role : w.role = {x}
          /\ w.active = {} \/ \E x \in BOOLEAN : w.active = {x}
    /\ w.op = "grants" =>
          \A g \in w.grants : /\ g \in Users \X Vendors \X Access!Role
                              /\ g[1] = w.user /\ Entitled(g[1], g[3])
    /\ w.op = "mint" => Entitled(w.owner, w.role)

RequestFits(r) ==
    /\ r.step = "asked" => AskFits(r)
    /\ r.step = "decided" => WriteFits(r.write)

CallFits(calls_) == \A r \in calls_ : RequestFits(r)

DecisionsFit ==
    /\ call = [c \in Clients |-> call[c]]
    /\ \A c \in Clients : CallFits(call[c])

AccessInv == UsersFit /\ RightsFit /\ DecisionsFit

\* Roles are ordered, and read_only is the least.
LEMMA RoleOrder ==
    /\ "read_only" \in Access!Role /\ "admin" \in Access!Role
    /\ \A a \in Access!Role : Access!RoleAtLeast(a, a) /\ Access!RoleAtLeast(a, "read_only")
    /\ \A a, b, c \in Access!Role :
          Access!RoleAtLeast(a, b) /\ Access!RoleAtLeast(b, c) => Access!RoleAtLeast(a, c)
    /\ \A a, b \in Access!Role :
          /\ Access!MinRole(a, b) \in Access!Role /\ Access!RoleAtLeast(a, Access!MinRole(a, b))
          /\ Access!MaxRole(a, b) \in Access!Role /\ Access!RoleAtLeast(Access!MaxRole(a, b), a)
          /\ Access!RoleAtLeast(Access!MaxRole(a, b), b)
  BY DEF Access!Role, Access!RoleAtLeast, Access!MinRole, Access!MaxRole, Access!Level

LEMMA AccessStarts == Access!Init => AccessInv
<1> SUFFICES ASSUME Access!Init PROVE AccessInv  OBVIOUS
<1>1. UsersFit  BY RoleOrder DEF Access!Init, UsersFit
<1>2. DecisionsFit  BY DEF Access!Init, DecisionsFit, CallFits
<1>3. RightsFit  BY DEF Access!Init, RightsFit, Access!RightsWereHeld
<1> QED  BY <1>1, <1>2, <1>3 DEF AccessInv

\* The row that is read is the user's only one, and its role was held.
LEMMA RowIs ==
    ASSUME UsersFit, NEW u \in Users, Access!Exists(u)
    PROVE  /\ user[u] = {Access!Row(u)} /\ Access!Row(u) \in UserRow
           /\ Entitled(u, Access!Row(u).role)
<1>1. user[u] # {}  BY DEF Access!Exists
<1>2. Access!Row(u) \in user[u]  BY <1>1 DEF Access!Row
<1> QED  BY <1>1, <1>2 DEF UsersFit, Entitled, UserRow

\* What was held stays held while the highest roles only rise.
LEMMA HeldStays ==
    ASSUME UsersFit, UsersFit', used \subseteq used',
           \A u \in used : Access!RoleAtLeast(peak'[u], peak[u]),
           NEW u, NEW role, Entitled(u, role)
    PROVE  Entitled(u, role)'
<1>1. u \in Users /\ peak[u] \in Access!Role /\ peak'[u] \in Access!Role
  BY DEF UsersFit, Entitled
<1> QED  BY <1>1, RoleOrder DEF Entitled, Access!RoleAtLeast

\* A client that is done leaves the decisions of the others.
LEMMA OverIs ==
    ASSUME AccessInv, UsersFit', used \subseteq used',
           \A u \in used : Access!RoleAtLeast(peak'[u], peak[u]),
           NEW c \in Clients, NEW new,
           call' = [call EXCEPT ![c] = new], CallFits(new)'
    PROVE  DecisionsFit'
<1>1. ASSUME NEW r, RequestFits(r) PROVE RequestFits(r)'
  <2>1. AskFits(r) => AskFits(r)'
    BY HeldStays DEF AccessInv, AskFits
  <2>2. WriteFits(r.write) => WriteFits(r.write)'
    <3> DEFINE w == r.write
    <3>1. Entitled(w.owner, w.role) => Entitled(w.owner, w.role)'
      BY HeldStays DEF AccessInv
    <3>2. \A g : Entitled(g[1], g[3]) => Entitled(g[1], g[3])'
      BY HeldStays DEF AccessInv
    <3> QED  BY <3>1, <3>2 DEF WriteFits
  <2> QED  BY <1>1, <2>1, <2>2 DEF RequestFits
<1>2. ASSUME NEW d \in Clients, NEW r \in call'[d] PROVE RequestFits(r)'
  <2>1. CASE d = c
    <3>1. r \in new  BY <1>2, <2>1 DEF AccessInv, DecisionsFit
    <3> QED  BY <3>1 DEF CallFits
  <2>2. CASE d # c
    <3>1. r \in call[d]  BY <1>2, <2>2 DEF AccessInv, DecisionsFit
    <3>2. RequestFits(r)  BY <3>1 DEF AccessInv, DecisionsFit, CallFits
    <3> QED  BY <1>1, <3>2
  <2> QED  BY <2>1, <2>2
<1>3. call' = [d \in Clients |-> call'[d]]  BY DEF AccessInv, DecisionsFit
<1> QED  BY <1>2, <1>3 DEF DecisionsFit, CallFits

\* A step that writes no row.
LEMMA NoRowWritten ==
    ASSUME AccessInv, UNCHANGED <<user, used, key, grant, peak>>
    PROVE  /\ UsersFit' /\ RightsFit' /\ used \subseteq used'
           /\ \A u \in used : Access!RoleAtLeast(peak'[u], peak[u])
<1>1. UsersFit'  BY DEF AccessInv, UsersFit
<1>2. RightsFit'
  BY DEF AccessInv, RightsFit, Access!RightsWereHeld, Access!Exists
<1>3. \A u \in used : Access!RoleAtLeast(peak'[u], peak[u])
  BY RoleOrder DEF AccessInv, UsersFit
<1> QED  BY <1>1, <1>2, <1>3

\* A handler that decides writes nothing, and the decision fits.
LEMMA DecidesIs ==
    ASSUME AccessInv, NEW c \in Clients, NEW w, Access!Decides(c, w), WriteFits(w)
    PROVE  AccessInv'
<1> DEFINE r == [step |-> "decided", write |-> w]
<1>1. call' = [call EXCEPT ![c] = {r}] /\ UNCHANGED <<user, used, key, grant, peak>>
  BY DEF Access!Decides
<1>2. CallFits({r})'
  <2>1. WriteFits(w)'  BY <1>1 DEF WriteFits, Entitled
  <2> QED  BY <2>1 DEF CallFits, RequestFits
<1> HIDE DEF r
<1>3. DecisionsFit'  BY <1>1, <1>2, NoRowWritten, OverIs
<1> QED  BY <1>1, <1>3, NoRowWritten DEF AccessInv

LEMMA AskKeeps ==
    ASSUME AccessInv, NEW c \in Clients, Access!Authenticate(c)
    PROVE  AccessInv'
<1>0. UsersFit  BY DEF AccessInv
<1>1. PICK caller, role :
         /\ <<caller, role>> \in Access!Tokens \cup Access!KeyCallers
         /\ call' = [call EXCEPT ![c] = {[step |-> "asked", caller |-> caller, role |-> role]}]
         /\ UNCHANGED <<user, used, key, grant, peak>>
  <2>1. PICK cr \in Access!Tokens \cup Access!KeyCallers : Access!Ask(c, cr[1], cr[2])
    BY DEF Access!Authenticate
  <2>2. cr = <<cr[1], cr[2]>>
    BY <2>1 DEF Access!Tokens, Access!KeyCallers
  <2> QED  BY <2>1, <2>2 DEF Access!Ask
<1>2. Entitled(caller, role)
  <2>1. CASE <<caller, role>> \in Access!Tokens
    BY <1>0, <2>1, RowIs DEF Access!Tokens
  <2>2. CASE <<caller, role>> \in Access!KeyCallers
    <3>0. PICK i \in Keys :
             \E k \in key[i] :
                /\ Access!Exists(k.owner) /\ caller = k.owner
                /\ role = Access!MinRole(Access!Row(k.owner).role, k.role)
      BY <2>2 DEF Access!KeyCallers
    <3>1. PICK k \in key[i] :
             /\ Access!Exists(k.owner) /\ caller = k.owner
             /\ role = Access!MinRole(Access!Row(k.owner).role, k.role)
      BY <3>0
    <3>2. k.owner \in Users /\ k.role \in Access!Role
      BY DEF AccessInv, RightsFit, KeyRow
    <3>3. Entitled(k.owner, Access!Row(k.owner).role)  BY <1>0, <3>1, <3>2, RowIs
    <3>4. peak[k.owner] \in Access!Role  BY <1>0, <3>2 DEF UsersFit
    <3> DEFINE a == Access!Row(k.owner).role
    <3>5. /\ a \in Access!Role /\ Access!RoleAtLeast(peak[k.owner], a) /\ k.owner \in used
      BY <3>3 DEF Entitled
    <3>6. Access!MinRole(a, k.role) \in Access!Role /\ Access!RoleAtLeast(a, Access!MinRole(a, k.role))
      BY <3>2, <3>5, RoleOrder
    <3> HIDE DEF a
    <3>7. Access!RoleAtLeast(peak[k.owner], Access!MinRole(a, k.role))
      BY <3>4, <3>5, <3>6, RoleOrder
    <3> QED  BY <3>1, <3>5, <3>6, <3>7 DEF Entitled, a
  <2> QED  BY <1>1, <2>1, <2>2
<1> DEFINE r == [step |-> "asked", caller |-> caller, role |-> role]
<1>3. CallFits({r})'
  <2>1. Entitled(caller, role)'  BY <1>1, <1>2 DEF Entitled
  <2>2. r.step = "asked" /\ r.caller = caller /\ r.role = role  OBVIOUS
  <2> QED  BY <2>1, <2>2 DEF CallFits, RequestFits, AskFits
<1>4. call' = [call EXCEPT ![c] = {r}]  BY <1>1
<1> HIDE DEF r
<1>5. DecisionsFit'  BY <1>1, <1>3, <1>4, NoRowWritten, OverIs
<1> QED  BY <1>1, <1>5, NoRowWritten DEF AccessInv

\* Whoever asks had the role it asks with.
LEMMA AskedIs ==
    ASSUME AccessInv, NEW c \in Clients, NEW r \in Access!Asked(c)
    PROVE  Entitled(r.caller, r.role)
  BY DEF AccessInv, DecisionsFit, CallFits, RequestFits, AskFits, Access!Asked

LEMMA ChecksKeep ==
    ASSUME AccessInv, NEW c \in Clients,
           Access!RegisterFirst(c) \/ Access!Register(c) \/ Access!OAuthCallback(c)
              \/ Access!UpdateUser(c) \/ Access!DeleteUser(c)
              \/ Access!SetVendorPermissions(c) \/ Access!CreateApiKey(c)
              \/ Access!RevokeApiKey(c) \/ Access!RotateApiKey(c)
    PROVE  AccessInv'
<1>0. UsersFit /\ RightsFit  BY DEF AccessInv
<1>1. CASE Access!RegisterFirst(c) \/ Access!Register(c) \/ Access!OAuthCallback(c)
  <2>1. PICK u \in Users, role \in Access!Role :
           Access!Decides(c, [op |-> "insert", user |-> u, role |-> role])
    BY <1>1 DEF Access!RegisterFirst, Access!Register, Access!OAuthCallback, Access!Role
  <2>2. WriteFits([op |-> "insert", user |-> u, role |-> role])
    BY DEF WriteFits
  <2> QED  BY <2>1, <2>2, DecidesIs
<1>2. CASE Access!UpdateUser(c)
  <2>1. PICK t \in Users, role \in Access!Role, active \in BOOLEAN :
           Access!Decides(c, [op |-> "update", user |-> t,
                  role |-> IF role = Access!Row(t).role THEN {} ELSE {role},
                  active |-> IF active = Access!Row(t).active THEN {} ELSE {active}])
    BY <1>2 DEF Access!UpdateUser
  <2> DEFINE ro == IF role = Access!Row(t).role THEN {} ELSE {role}
             ac == IF active = Access!Row(t).active THEN {} ELSE {active}
             w == [op |-> "update", user |-> t, role |-> ro, active |-> ac]
  <2>2. (ro = {} \/ ro = {role}) /\ (ac = {} \/ ac = {active})  OBVIOUS
  <2>3. Access!Decides(c, w)  BY <2>1
  <2> HIDE DEF ro, ac
  <2>4. w.op = "update" /\ w.user = t /\ w.role = ro /\ w.active = ac  OBVIOUS
  <2> HIDE DEF w
  <2>5. WriteFits(w)  BY <2>2, <2>4 DEF WriteFits
  <2> QED  BY <2>3, <2>5, DecidesIs
<1>3. CASE Access!DeleteUser(c)
  <2>1. PICK t \in Users : Access!Decides(c, [op |-> "delete", user |-> t])
    BY <1>3 DEF Access!DeleteUser
  <2>2. WriteFits([op |-> "delete", user |-> t])  BY DEF WriteFits
  <2> QED  BY <2>1, <2>2, DecidesIs
<1>4. CASE Access!SetVendorPermissions(c)
  <2>1. PICK t \in Users, g \in SUBSET (Vendors \X {"read_only", "read_write"}) :
           /\ Access!Exists(t)
           /\ \A x \in g : x[2] = "read_write" => Access!RoleAtLeast(Access!Row(t).role, "read_write")
           /\ Access!Decides(c, [op |-> "grants", user |-> t, grants |-> Access!Grants(t, g),
                                 seen |-> {x \in grant : x[1] = t}])
    BY <1>4 DEF Access!SetVendorPermissions
  <2> DEFINE w == [op |-> "grants", user |-> t, grants |-> Access!Grants(t, g),
                   seen |-> {x \in grant : x[1] = t}]
  <2>2. Entitled(t, Access!Row(t).role)  BY <1>0, <2>1, RowIs
  <2>3. ASSUME NEW x \in g PROVE x[2] \in Access!Role /\ x[1] \in Vendors /\ Entitled(t, x[2])
    <3>1. x[2] \in {"read_only", "read_write"} /\ x[1] \in Vendors  OBVIOUS
    <3>2. x[2] \in Access!Role  BY <3>1 DEF Access!Role
    <3>3. peak[t] \in Access!Role  BY <1>0 DEF UsersFit
    <3>4. CASE x[2] = "read_only"  BY <2>2, <3>2, <3>3, <3>4, RoleOrder DEF Entitled
    <3>5. CASE x[2] = "read_write"
      <4>1. Access!RoleAtLeast(Access!Row(t).role, x[2])  BY <2>1, <3>5
      <4> QED  BY <2>2, <3>2, <3>3, <4>1, RoleOrder DEF Entitled
    <3> QED  BY <3>1, <3>2, <3>4, <3>5
  <2>4. \A y \in Access!Grants(t, g) :
           /\ y \in Users \X Vendors \X Access!Role /\ y[1] = t /\ Entitled(y[1], y[3])
    BY <2>3 DEF Access!Grants
  <2>5. w.op = "grants" /\ w.user = t /\ w.grants = Access!Grants(t, g)  OBVIOUS
  <2>6. Access!Decides(c, w)  BY <2>1
  <2> HIDE DEF w
  <2>7. WriteFits(w)  BY <2>4, <2>5 DEF WriteFits
  <2> QED  BY <2>6, <2>7, DecidesIs
<1>5. CASE Access!CreateApiKey(c)
  <2>1. PICK r \in Access!Asked(c), role \in Access!Role :
           /\ Access!RoleAtLeast(r.role, role)
           /\ Access!Decides(c, [op |-> "mint", owner |-> r.caller, role |-> role, old |-> {}])
    BY <1>5 DEF Access!CreateApiKey
  <2>2. Entitled(r.caller, r.role)  BY AskedIs
  <2>3. peak[r.caller] \in Access!Role  BY <1>0, <2>2 DEF UsersFit, Entitled
  <2>4. Entitled(r.caller, role)  BY <2>1, <2>2, <2>3, RoleOrder DEF Entitled
  <2>5. WriteFits([op |-> "mint", owner |-> r.caller, role |-> role, old |-> {}])
    BY <2>4 DEF WriteFits
  <2> QED  BY <2>1, <2>5, DecidesIs
<1>6. CASE Access!RotateApiKey(c)
  <2>0. PICK k \in Keys :
           \E x \in key[k] :
              Access!Decides(c, [op |-> "mint", owner |-> x.owner, role |-> x.role, old |-> {k}])
    BY <1>6 DEF Access!RotateApiKey, Access!Replacement
  <2>1. PICK x \in key[k] :
           Access!Decides(c, [op |-> "mint", owner |-> x.owner, role |-> x.role, old |-> {k}])
    BY <2>0
  <2>2. /\ x.owner \in Users /\ x.role \in Access!Role /\ Access!Exists(x.owner)
        /\ Access!RoleAtLeast(peak[x.owner], x.role)
    BY <1>0 DEF RightsFit, KeyRow, Access!RightsWereHeld
  <2>3. Entitled(x.owner, x.role)  BY <1>0, <2>2 DEF UsersFit, Entitled, Access!Exists
  <2>4. WriteFits([op |-> "mint", owner |-> x.owner, role |-> x.role, old |-> {k}])
    BY <2>3 DEF WriteFits
  <2> QED  BY <2>1, <2>4, DecidesIs
<1>7. CASE Access!RevokeApiKey(c)
  <2>1. PICK k \in Keys : Access!Decides(c, [op |-> "revoke", old |-> {k}])
    BY <1>7 DEF Access!RevokeApiKey
  <2>2. WriteFits([op |-> "revoke", old |-> {k}])  BY DEF WriteFits
  <2> QED  BY <2>1, <2>2, DecidesIs
<1> QED  BY <1>1, <1>2, <1>3, <1>4, <1>5, <1>6, <1>7

LEMMA InsertKeeps ==
    ASSUME AccessInv, NEW c \in Clients, Access!CommitInsert(c)
    PROVE  AccessInv'
<1>0. UsersFit /\ RightsFit  BY DEF AccessInv
<1>1. PICK r \in Access!Decided(c, "insert") :
         /\ r.write.user \notin used
         /\ user' = [user EXCEPT ![r.write.user] = {Access!NewUser(r.write.role)}]
         /\ used' = used \cup {r.write.user}
         /\ peak' = [peak EXCEPT ![r.write.user] = r.write.role]
         /\ call' = [call EXCEPT ![c] = {}] /\ UNCHANGED <<key, grant>>
  BY DEF Access!CommitInsert, Access!Over
<1> DEFINE u == r.write.user
           n == Access!NewUser(r.write.role)
<1>2. u \in Users /\ r.write.role \in Access!Role
  BY DEF Access!Decided, AccessInv, DecisionsFit, CallFits, RequestFits, WriteFits
<1>3. n \in UserRow /\ n.role = r.write.role
  BY <1>2 DEF Access!NewUser, UserRow
<1>4. /\ user' = [user EXCEPT ![u] = {n}] /\ used' = used \cup {u} /\ u \notin used
      /\ peak' = [peak EXCEPT ![u] = r.write.role]
  BY <1>1
<1> HIDE DEF n, u
<1>5. UsersFit'
  <2>1. Access!RoleAtLeast(peak'[u], n.role)
    BY <1>0, <1>2, <1>3, <1>4, RoleOrder DEF UsersFit
  <2>2. \A v \in Users : v # u => user'[v] = user[v] /\ peak'[v] = peak[v]
    BY <1>0, <1>4 DEF UsersFit
  <2>3. /\ user' \in [Users -> SUBSET UserRow] /\ peak' \in [Users -> Access!Role]
        /\ user'[u] = {n}
    BY <1>0, <1>2, <1>3, <1>4 DEF UsersFit
  <2>4. ASSUME NEW v \in Users, NEW x \in user'[v]
        PROVE  Access!RoleAtLeast(peak'[v], x.role) /\ v \in used'
    BY <1>0, <1>4, <2>1, <2>2, <2>3, <2>4 DEF UsersFit, Access!RoleAtLeast
  <2>5. \A v \in Users : \A x, y \in user'[v] : x = y
    BY <1>0, <2>2, <2>3 DEF UsersFit
  <2>6. used' \subseteq Users  BY <1>0, <1>2, <1>4 DEF UsersFit
  <2>7. \A v \in Users : user'[v] # {} => v \in used'  BY <2>4
  <2>8. \A v \in Users : \A x \in user'[v] : Access!RoleAtLeast(peak'[v], x.role)  BY <2>4
  <2> QED  BY <2>3, <2>5, <2>6, <2>7, <2>8 DEF UsersFit, Access!RoleAtLeast
<1>6. \A v \in used : peak'[v] = peak[v] /\ user'[v] = user[v] /\ v \in Users
  BY <1>0, <1>2, <1>4 DEF UsersFit
<1>7. RightsFit'
  <2>1. \A v \in Users : Access!Exists(v) =>
           Access!Exists(v)' /\ peak'[v] = peak[v]
    BY <1>0, <1>6 DEF UsersFit, Access!Exists
  <2>2. \A g \in grant : g[1] \in Users  BY <1>0 DEF RightsFit
  <2>3. \A k \in Keys : \A x \in key[k] : x.owner \in Users  BY <1>0 DEF RightsFit, KeyRow
  <2>4. Access!RightsWereHeld'
    BY <1>0, <1>1, <2>1, <2>2, <2>3
    DEF RightsFit, Access!RightsWereHeld, Access!RoleAtLeast
  <2> QED  BY <1>0, <1>1, <2>4 DEF RightsFit
<1>8. \A v \in used : Access!RoleAtLeast(peak'[v], peak[v])
  BY <1>0, <1>6, RoleOrder DEF UsersFit
<1>9. CallFits({})'  BY DEF CallFits
<1>10. DecisionsFit'  BY <1>1, <1>4, <1>5, <1>8, <1>9, OverIs
<1> QED  BY <1>5, <1>7, <1>10 DEF AccessInv

LEMMA UpdateKeeps ==
    ASSUME AccessInv, NEW c \in Clients, Access!CommitUpdate(c)
    PROVE  AccessInv'
<1>0. UsersFit /\ RightsFit  BY DEF AccessInv
<1> DEFINE Pick(cell, was) == IF cell = {} THEN was ELSE CHOOSE x \in cell : TRUE
           Patched(w, x) == [role |-> Pick(w.role, x.role), active |-> Pick(w.active, x.active)]
           Raised(w) == IF Access!Exists(w.user)
                        THEN Access!MaxRole(peak[w.user], Pick(w.role, peak[w.user]))
                        ELSE peak[w.user]
<1>1. PICK r \in Access!Decided(c, "update") :
         /\ user' = [user EXCEPT ![r.write.user] = {Patched(r.write, x) : x \in @}]
         /\ peak' = [peak EXCEPT ![r.write.user] =
                IF Access!Exists(r.write.user) THEN Access!MaxRole(@, Pick(r.write.role, @)) ELSE @]
         /\ call' = [call EXCEPT ![c] = {}] /\ UNCHANGED <<used, key, grant>>
  BY DEF Access!CommitUpdate, Access!Over
<1> DEFINE w == r.write
           t == w.user
<1>2. /\ t \in Users
      /\ w.role = {} \/ \E x \in Access!Role : w.role = {x}
      /\ w.active = {} \/ \E x \in BOOLEAN : w.active = {x}
  BY DEF Access!Decided, AccessInv, DecisionsFit, CallFits, RequestFits, WriteFits
<1>3. /\ user' = [user EXCEPT ![t] = {Patched(w, x) : x \in user[t]}]
      /\ peak' = [peak EXCEPT ![t] = Raised(w)]
  BY <1>1
<1> HIDE DEF w, t
<1>4. peak[t] \in Access!Role /\ user[t] \subseteq UserRow  BY <1>0, <1>2 DEF UsersFit
<1>5. ASSUME NEW was \in Access!Role
      PROVE  /\ Pick(w.role, was) \in Access!Role
             /\ w.role = {} => Pick(w.role, was) = was
             /\ w.role # {} => Pick(w.role, was) = Pick(w.role, peak[t])
  BY <1>2
<1>6. ASSUME NEW was \in BOOLEAN PROVE Pick(w.active, was) \in BOOLEAN
  BY <1>2
<1> HIDE DEF Pick
<1>7. Access!Exists(t) =>
         /\ Raised(w) \in Access!Role /\ Access!RoleAtLeast(Raised(w), peak[t])
         /\ Access!RoleAtLeast(Raised(w), Pick(w.role, peak[t]))
  BY <1>4, <1>5, RoleOrder DEF t
<1>8. ~Access!Exists(t) => Raised(w) = peak[t]  BY DEF t
<1> HIDE DEF Raised
<1>9. Raised(w) \in Access!Role /\ Access!RoleAtLeast(Raised(w), peak[t])
  BY <1>4, <1>7, <1>8, RoleOrder
<1>10. ASSUME NEW x \in user[t]
       PROVE  /\ Patched(w, x) \in UserRow
              /\ Access!RoleAtLeast(Raised(w), Patched(w, x).role)
  <2>1. x \in UserRow /\ x.role \in Access!Role /\ x.active \in BOOLEAN
    BY <1>4 DEF UserRow
  <2>2. Patched(w, x) \in UserRow  BY <1>5, <1>6, <2>1 DEF UserRow
  <2>3. Access!RoleAtLeast(peak[t], x.role)  BY <1>0, <1>2 DEF UsersFit
  <2>4. Access!Exists(t)  BY DEF Access!Exists
  <2>5. Patched(w, x).role = Pick(w.role, x.role)  OBVIOUS
  <2> HIDE DEF Patched
  <2>6. ASSUME w.role = {} PROVE Access!RoleAtLeast(Raised(w), Patched(w, x).role)
    <3>1. Patched(w, x).role = x.role  BY <1>5, <2>1, <2>5, <2>6
    <3> QED  BY <1>4, <1>9, <2>1, <2>3, <3>1, RoleOrder
  <2>7. ASSUME w.role # {} PROVE Access!RoleAtLeast(Raised(w), Patched(w, x).role)
    <3>1. Patched(w, x).role = Pick(w.role, peak[t])  BY <1>5, <2>1, <2>5, <2>7
    <3> QED  BY <1>7, <2>4, <3>1
  <2> QED  BY <2>2, <2>6, <2>7
<1> HIDE DEF Patched
<1> DEFINE n == {Patched(w, x) : x \in user[t]}
<1>11. n \subseteq UserRow /\ (n # {} <=> user[t] # {})  BY <1>10
<1>12. \A x \in n : Access!RoleAtLeast(Raised(w), x.role)  BY <1>10
<1>13. \A x, y \in n : x = y  BY <1>0, <1>2 DEF UsersFit
<1>14. user' = [user EXCEPT ![t] = n]  BY <1>3
<1> HIDE DEF n
<1>15. \A v \in Users : v # t => user'[v] = user[v] /\ peak'[v] = peak[v]
  BY <1>0, <1>3, <1>14 DEF UsersFit
<1>16. user'[t] = n /\ peak'[t] = Raised(w)
  BY <1>0, <1>2, <1>3, <1>14 DEF UsersFit
<1>17. UsersFit'
  <2>1. user' \in [Users -> SUBSET UserRow] /\ peak' \in [Users -> Access!Role]
    BY <1>0, <1>3, <1>9, <1>11, <1>14 DEF UsersFit
  <2>2. \A v \in Users : \A x, y \in user'[v] : x = y
    BY <1>0, <1>13, <1>15, <1>16 DEF UsersFit
  <2>3. used' \subseteq Users /\ \A v \in Users : user'[v] # {} => v \in used'
    BY <1>0, <1>1, <1>11, <1>15, <1>16 DEF UsersFit
  <2>4. \A v \in Users : \A x \in user'[v] : Access!RoleAtLeast(peak'[v], x.role)
    BY <1>0, <1>12, <1>15, <1>16 DEF UsersFit
  <2> QED  BY <2>1, <2>2, <2>3, <2>4 DEF UsersFit, Access!RoleAtLeast
<1>18. \A v \in Users : /\ Access!Exists(v) => Access!Exists(v)'
                        /\ Access!RoleAtLeast(peak'[v], peak[v])
  BY <1>0, <1>9, <1>11, <1>15, <1>16, RoleOrder DEF UsersFit, Access!Exists
<1>19. RightsFit'
  <2>1. ASSUME NEW v \in Users, NEW role \in Access!Role,
               Access!RoleAtLeast(peak[v], role)
        PROVE  Access!RoleAtLeast(peak'[v], role)
    <3>1. peak[v] \in Access!Role /\ peak'[v] \in Access!Role
      BY <1>0, <1>17 DEF UsersFit
    <3> QED  BY <1>18, <2>1, <3>1, RoleOrder
  <2>2. \A k \in Keys : \A x \in key[k] : x.owner \in Users /\ x.role \in Access!Role
    BY <1>0 DEF RightsFit, KeyRow
  <2>3. \A g \in grant : g[1] \in Users /\ g[3] \in Access!Role  BY <1>0 DEF RightsFit
  <2>4. key' = key /\ grant' = grant  BY <1>1
  <2>5. ASSUME NEW k \in Keys, NEW x \in key[k]
        PROVE  Access!Exists(x.owner)' /\ Access!RoleAtLeast(peak'[x.owner], x.role)
    BY <1>0, <1>18, <2>1, <2>2 DEF RightsFit, Access!RightsWereHeld
  <2>6. ASSUME NEW g \in grant
        PROVE  Access!Exists(g[1])' /\ Access!RoleAtLeast(peak'[g[1]], g[3])
    BY <1>0, <1>18, <2>1, <2>3 DEF RightsFit, Access!RightsWereHeld
  <2>7. Access!RightsWereHeld'
    BY <2>4, <2>5, <2>6 DEF Access!RightsWereHeld, Access!RoleAtLeast
  <2> QED  BY <1>0, <2>4, <2>7 DEF RightsFit
<1>20. \A v \in used : Access!RoleAtLeast(peak'[v], peak[v])  BY <1>0, <1>18 DEF UsersFit
<1>21. CallFits({})'  BY DEF CallFits
<1>22. DecisionsFit'  BY <1>1, <1>17, <1>20, <1>21, OverIs
<1> QED  BY <1>17, <1>19, <1>22 DEF AccessInv

LEMMA DeleteKeeps ==
    ASSUME AccessInv, NEW c \in Clients, Access!CommitDelete(c)
    PROVE  AccessInv'
<1>0. UsersFit /\ RightsFit  BY DEF AccessInv
<1>1. PICK r \in Access!Decided(c, "delete") :
         /\ user' = [user EXCEPT ![r.write.user] = {}]
         /\ key' = [k \in Keys |-> {x \in key[k] : x.owner # r.write.user}]
         /\ grant' = {g \in grant : g[1] # r.write.user}
         /\ call' = [call EXCEPT ![c] = {}] /\ UNCHANGED <<used, peak>>
  BY DEF Access!CommitDelete, Access!Over
<1> DEFINE t == r.write.user
<1>2. t \in Users
  BY DEF Access!Decided, AccessInv, DecisionsFit, CallFits, RequestFits, WriteFits
<1>3. UsersFit'
  <2>1. user' \in [Users -> SUBSET UserRow]  BY <1>0, <1>1 DEF UsersFit
  <2>2. \A v \in Users : user'[v] \subseteq user[v]  BY <1>0, <1>1 DEF UsersFit
  <2> QED  BY <1>0, <1>1, <2>1, <2>2 DEF UsersFit
<1>4. RightsFit'
  <2>1. \A v \in Users : v # t /\ Access!Exists(v) => Access!Exists(v)'
    BY <1>0, <1>1 DEF UsersFit, Access!Exists
  <2>2. key' \in [Keys -> SUBSET KeyRow]  BY <1>0, <1>1 DEF RightsFit
  <2>3. grant' \subseteq grant /\ \A g \in grant' : g[1] # t  BY <1>1
  <2>4. \A k \in Keys : \A x \in key'[k] : x \in key[k] /\ x.owner # t /\ x.owner \in Users
    BY <1>0, <1>1 DEF RightsFit, KeyRow
  <2>5. \A g \in grant' : g[1] \in Users  BY <1>0, <2>3 DEF RightsFit
  <2>6. Access!RightsWereHeld'
    BY <1>0, <1>1, <2>1, <2>3, <2>4, <2>5
    DEF RightsFit, Access!RightsWereHeld, Access!RoleAtLeast
  <2> QED  BY <1>0, <2>2, <2>3, <2>6 DEF RightsFit
<1>5. \A v \in used : Access!RoleAtLeast(peak'[v], peak[v])
  BY <1>0, <1>1, RoleOrder DEF UsersFit
<1>6. CallFits({})'  BY DEF CallFits
<1>7. DecisionsFit'  BY <1>1, <1>3, <1>5, <1>6, OverIs
<1> QED  BY <1>3, <1>4, <1>7 DEF AccessInv

\* A commit that leaves the users alone and writes rights that were held.
LEMMA RightsKeep ==
    ASSUME AccessInv, NEW c \in Clients, UNCHANGED <<user, used, peak>>,
           call' = [call EXCEPT ![c] = {}], RightsFit'
    PROVE  AccessInv'
<1>1. UsersFit'  BY DEF AccessInv, UsersFit
<1>2. \A v \in used : Access!RoleAtLeast(peak'[v], peak[v])
  BY RoleOrder DEF AccessInv, UsersFit
<1>3. CallFits({})'  BY DEF CallFits
<1>4. DecisionsFit'  BY <1>1, <1>2, <1>3, OverIs
<1> QED  BY <1>1, <1>4 DEF AccessInv

\* A revoked key keeps its owner and its role.
LEMMA RevokedIs ==
    ASSUME RightsFit, NEW old
    PROVE  /\ Access!Revoked(old) \in [Keys -> SUBSET KeyRow]
           /\ \A k \in Keys : \A x \in Access!Revoked(old)[k] :
                 \E y \in key[k] : x.owner = y.owner /\ x.role = y.role
<1> DEFINE Off(k) == {[x EXCEPT !.active = FALSE] : x \in key[k]}
<1>1. ASSUME NEW k \in Keys, NEW x \in key[k]
      PROVE  /\ [x EXCEPT !.active = FALSE] \in KeyRow
             /\ [x EXCEPT !.active = FALSE].owner = x.owner
             /\ [x EXCEPT !.active = FALSE].role = x.role
  <2>1. x \in KeyRow  BY DEF RightsFit
  <2> QED  BY <2>1 DEF KeyRow
<1>2. ASSUME NEW k \in Keys
      PROVE  /\ Off(k) \subseteq KeyRow
             /\ \A x \in Off(k) : \E y \in key[k] : x.owner = y.owner /\ x.role = y.role
  BY <1>1
<1>3. \A k \in Keys : Access!Revoked(old)[k] = IF k \in old THEN Off(k) ELSE key[k]
  BY DEF Access!Revoked
<1> HIDE DEF Off
<1>4. Access!Revoked(old) = [k \in Keys |-> Access!Revoked(old)[k]]
  BY DEF Access!Revoked
<1> QED  BY <1>2, <1>3, <1>4 DEF RightsFit

LEMMA GrantsKeep ==
    ASSUME AccessInv, NEW c \in Clients, Access!CommitGrants(c)
    PROVE  AccessInv'
<1>0. UsersFit /\ RightsFit  BY DEF AccessInv
<1>1. PICK r \in Access!Decided(c, "grants") :
         /\ Access!Exists(r.write.user)
         /\ grant' = (grant \ r.write.seen) \cup r.write.grants
         /\ call' = [call EXCEPT ![c] = {}] /\ UNCHANGED <<user, used, key, peak>>
  BY DEF Access!CommitGrants, Access!Over
<1>2. \A g \in r.write.grants : /\ g \in Users \X Vendors \X Access!Role
                                /\ g[1] = r.write.user /\ Entitled(g[1], g[3])
  BY DEF Access!Decided, AccessInv, DecisionsFit, CallFits, RequestFits, WriteFits
<1>3. RightsFit'
  BY <1>0, <1>1, <1>2
  DEF RightsFit, Access!RightsWereHeld, Access!Exists, Access!RoleAtLeast, Entitled
<1> QED  BY <1>1, <1>3, RightsKeep

LEMMA MintKeeps ==
    ASSUME AccessInv, NEW c \in Clients, Access!CommitKey(c)
    PROVE  AccessInv'
<1>0. UsersFit /\ RightsFit  BY DEF AccessInv
<1>1. PICK r \in Access!Decided(c, "mint"), k \in Keys :
         /\ Access!Exists(r.write.owner)
         /\ key' = [Access!Revoked(r.write.old) EXCEPT ![k] =
                       {Access!NewKey(r.write.owner, r.write.role)}]
         /\ call' = [call EXCEPT ![c] = {}] /\ UNCHANGED <<user, used, grant, peak>>
  BY DEF Access!CommitKey, Access!Over
<1> DEFINE n == Access!NewKey(r.write.owner, r.write.role)
           old == r.write.old
<1>2. Entitled(r.write.owner, r.write.role)
  BY DEF Access!Decided, AccessInv, DecisionsFit, CallFits, RequestFits, WriteFits
<1>3. /\ n \in KeyRow /\ n.owner = r.write.owner /\ n.role = r.write.role
  BY <1>0, <1>2 DEF Access!NewKey, KeyRow, Entitled, UsersFit
<1>4. key' = [Access!Revoked(old) EXCEPT ![k] = {n}]  BY <1>1
<1> HIDE DEF n, old
<1>5. key' \in [Keys -> SUBSET KeyRow]  BY <1>0, <1>3, <1>4, RevokedIs
<1>6. ASSUME NEW j \in Keys, NEW x \in key'[j]
      PROVE  Access!Exists(x.owner) /\ Access!RoleAtLeast(peak[x.owner], x.role)
  <2>1. CASE j = k
    <3>1. x = n  BY <1>0, <1>4, <1>6, <2>1, RevokedIs
    <3> QED  BY <1>1, <1>2, <1>3, <3>1 DEF Entitled
  <2>2. CASE j # k
    <3>1. x \in Access!Revoked(old)[j]  BY <1>0, <1>4, <1>6, <2>2, RevokedIs
    <3>2. PICK y \in key[j] : x.owner = y.owner /\ x.role = y.role
      BY <1>0, <3>1, RevokedIs
    <3> QED  BY <1>0, <3>2 DEF RightsFit, Access!RightsWereHeld
  <2> QED  BY <2>1, <2>2
<1>7. RightsFit'
  BY <1>0, <1>1, <1>5, <1>6
  DEF RightsFit, Access!RightsWereHeld, Access!Exists, Access!RoleAtLeast
<1> QED  BY <1>1, <1>7, RightsKeep

LEMMA RevokeKeeps ==
    ASSUME AccessInv, NEW c \in Clients, Access!CommitRevoke(c) \/ Access!Refuse(c)
    PROVE  AccessInv'
<1>0. UsersFit /\ RightsFit  BY DEF AccessInv
<1>1. /\ UNCHANGED <<user, used, peak, grant>> /\ call' = [call EXCEPT ![c] = {}]
      /\ key' = key \/ \E old : key' = Access!Revoked(old)
  BY DEF Access!CommitRevoke, Access!Refuse, Access!Over
<1>2. /\ key' \in [Keys -> SUBSET KeyRow]
      /\ \A k \in Keys : \A x \in key'[k] :
            \E y \in key[k] : x.owner = y.owner /\ x.role = y.role
  <2>1. CASE key' = key  BY <1>0, <2>1 DEF RightsFit
  <2>2. CASE \E old : key' = Access!Revoked(old)  BY <1>0, <2>2, RevokedIs
  <2> QED  BY <1>1, <2>1, <2>2
<1>3. \A k \in Keys : \A x \in key'[k] :
         Access!Exists(x.owner) /\ Access!RoleAtLeast(peak[x.owner], x.role)
  BY <1>0, <1>2 DEF RightsFit, Access!RightsWereHeld
<1>4. RightsFit'
  BY <1>0, <1>1, <1>2, <1>3
  DEF RightsFit, Access!RightsWereHeld, Access!Exists, Access!RoleAtLeast
<1> QED  BY <1>1, <1>4, RightsKeep

LEMMA AccessKept == AccessInv /\ Access!Next => AccessInv'
  BY AskKeeps, ChecksKeep, InsertKeeps, UpdateKeeps, DeleteKeeps, GrantsKeep, MintKeeps,
     RevokeKeeps DEF Access!Next

\* A key and a grant belong to a user that exists and give at most what this user was
\* entitled to at some time, whichever requests are under way: the role is checked
\* before the commit (create_api_key, set_vendor_permissions), the owner may be demoted
\* or deleted in between, and an administrator rotates the keys of others.
THEOREM RightsStayHeld == ServicesSpec => []RightsWereHeld
<1> DEFINE I == part = "accounts" => AccessInv
<1>1. ServicesInit => I
  BY AccessStarts DEF ServicesInit
<1>2. I /\ [ServicesNext]_serviceVars => I'
  <2> SUFFICES ASSUME I, [ServicesNext]_serviceVars, part' = "accounts" PROVE AccessInv'
    OBVIOUS
  <2>1. CASE UNCHANGED serviceVars
    <3>1. UNCHANGED accountsVars /\ AccessInv  BY <2>1 DEF serviceVars
    <3>2. UsersFit' /\ RightsFit'  BY <3>1, NoRowWritten DEF accountsVars
    <3>3. DecisionsFit'
      BY <3>1 DEF accountsVars, AccessInv, DecisionsFit, CallFits, RequestFits, AskFits, WriteFits, Entitled,
                  Access!RoleAtLeast
    <3> QED  BY <3>2, <3>3 DEF AccessInv
  <2>2. CASE ServicesNext
    <3>1. Access!Next /\ AccessInv  BY <2>2 DEF ServicesNext
    <3> QED  BY <3>1, AccessKept
  <2> QED  BY <2>1, <2>2
<1>3. I => RightsWereHeld
  BY DEF RightsWereHeld, AccessInv, RightsFit
<1> QED  BY <1>1, <1>2, <1>3, PTL DEF ServicesSpec
-----------------------------------------------------------------------------
(* The catalogue: types.  A URL has a token just where the site mints      *)
(* them, and so has a template without a hole for it.                      *)

Place == {u \in [site : Sites, ver : Nat \ {0}, tok : Nat] :
             u.site \in Minting <=> u.tok # 0}
Shape == {t \in [site : Sites, rev : BOOLEAN, tok : Nat] :
             ~t.rev => (t.site \in Minting <=> t.tok # 0)}
Templates == {T \in SUBSET Shape : \A x, y \in T : x = y}
SourceRow == [product : Products, url : Place, template : Templates,
              profile : BOOLEAN, pdf : BOOLEAN]
RunRow == [step : {"loaded", "versioned", "scraping"}, s : SourceRow, version : Nat,
           quiet : BOOLEAN]
PlanRow == [template : Templates, url : Place, open : BOOLEAN]
BumpRow == [product : Products, version : Nat \ {0}, was : Nat, read : SourceRow,
            plan : PlanRow]
TopicKey == [site : Sites, ver : Nat, tok : Nat]
PageRow == [key : TopicKey, url : Place, live : BOOLEAN]

\* One source at most, with nothing stored or under way before it is there.
ShelfTypes ==
    /\ product \in [Products -> [version : Nat, previous : Nat]]
    /\ row \subseteq SourceRow /\ \A x, y \in row : x = y
    /\ run \subseteq RunRow /\ bump \subseteq BumpRow /\ article \subseteq PageRow
    /\ settled \in BOOLEAN
    /\ row = {} => article = {}
    /\ row = {} /\ ~deleted => run = {} /\ bump = {}
    /\ \A b \in bump : b.read.product = b.product /\ (~b.plan.open => b.plan.url.ver = b.version)

VersionOf(s) == product[s.product].version

\* After a bump nobody raced, the URL and what a run has read are at the product's release.
SettledFits ==
    settled =>
        /\ \A s \in row : s.url.ver = VersionOf(s)
        /\ \A r \in run :
              /\ \A s \in row : s.product = r.s.product
              /\ r.step = "loaded" => r.s.url.ver = VersionOf(r.s)
              /\ r.step # "loaded" => r.s.url.ver = r.version /\ r.version = VersionOf(r.s)

TemplateFits(t, u) == t.site = u.site /\ (t.rev => u.site \in Minting)

\* A templated URL carries the product's version, and the page was stored at
\* another URL only when a profile moved the token.
RowFits(s) ==
    /\ \A t \in s.template : TemplateFits(t, s.url)
    /\ s.template # {} => s.url.ver = VersionOf(s)
    /\ \A a \in article : a.live /\ a.url.site = s.url.site
    /\ ~s.profile \/ s.template = {} => \A a \in article : a.url = s.url

\* A planned bump goes to its version, on the site the source is on.
BumpFits(b, s) ==
    /\ b.product = s.product /\ s.template # {}
    /\ b.read.url.ver = b.was /\ b.was # b.version
    /\ b.plan.template # {} /\ \A t \in b.plan.template : TemplateFits(t, s.url)
    /\ b.plan.url.ver = b.version /\ b.plan.url.site = s.url.site
    /\ b.read.profile => s.profile

\* The run's copy is at the row's URL; once it has the version, it has the template too
\* that the version calls for.
RunFits(r, s) ==
    /\ r.s.url = s.url /\ r.s.product = s.product
    /\ r.s.profile = s.profile /\ r.s.pdf = s.pdf
    /\ r.s.template # {} => s.template # {}
    /\ \A t \in r.s.template : TemplateFits(t, s.url)
    /\ ~r.s.profile \/ r.s.template = {} => \A a \in article : a.url = s.url
    /\ r.step # "loaded" /\ r.s.template # {} =>
          s.url.ver = r.version /\ r.version = VersionOf(s)
    /\ r.step # "loaded" /\ ~s.pdf =>
          /\ r.s.template = {} => r.version = 0 \/ s.url.ver # r.version
          /\ \A t \in r.s.template : t.rev \/ ~s.profile \/ s.url.tok = 0

\* While nothing went adrift the page has one article.
IdentityFits ==
    ~adrift =>
        /\ \A x, y \in article : x = y
        /\ \A s \in row : RowFits(s)
        /\ \A s \in row : \A b \in bump : BumpFits(b, s)
        /\ \A s \in row : \A r \in run : RunFits(r, s)

ShelfInv == ShelfTypes /\ SettledFits /\ IdentityFits

LEMMA VersionsAre == \A v \in Shelf!Versions : v \in Nat \ {0}
  BY VersionsAssumption DEF Shelf!Versions

LEMMA UrlsAre == Shelf!Url \subseteq Place
<1> SUFFICES ASSUME NEW u \in Shelf!Url PROVE u \in Place  OBVIOUS
<1>1. PICK s \in Sites, v \in Shelf!Versions, w \in Shelf!Versions :
         u = [site |-> s, ver |-> v, tok |-> Shelf!Token(s, w)]
  BY SMT DEF Shelf!Url
<1>2. v \in Nat \ {0} /\ w \in Nat \ {0}  BY VersionsAre
<1> QED  BY <1>1, <1>2 DEF Place, Shelf!Token

LEMMA TemplatesAre == Shelf!Template \subseteq Shape
<1> SUFFICES ASSUME NEW t \in Shelf!Template PROVE t \in Shape  OBVIOUS
<1>1. PICK s \in Sites, r \in BOOLEAN, w \in Shelf!Versions :
         t = [site |-> s, rev |-> r, tok |-> IF r THEN 0 ELSE Shelf!Token(s, w)]
  BY SMT DEF Shelf!Template
<1>2. w \in Nat \ {0}  BY VersionsAre
<1> QED  BY <1>1, <1>2 DEF Shape, Shelf!Token

LEMMA OnlyIs ==
    ASSUME NEW T \in Templates, T # {}
    PROVE  Shelf!The(T) \in Shape /\ Shelf!The(T) \in T /\ T = {Shelf!The(T)}
<1>1. Shelf!The(T) \in T  BY DEF Shelf!The
<1> QED  BY <1>1 DEF Templates

\* A resolved template is at the version, on the template's site.
LEMMA ResolvedIs ==
    ASSUME NEW t \in Shape, NEW v \in Nat \ {0}, NEW n \in Nat,
           t.rev => n # 0 /\ t.site \in Minting
    PROVE  /\ Shelf!ResolveTemplate(t, v, n) \in Place
           /\ Shelf!ResolveTemplate(t, v, n).site = t.site
           /\ Shelf!ResolveTemplate(t, v, n).ver = v
  BY DEF Shelf!ResolveTemplate, Place, Shape

\* The template of a URL.
LEMMA TemplatizedIs ==
    ASSUME NEW u \in Place, NEW v, NEW profile \in BOOLEAN
    PROVE  /\ Shelf!Templatize(u, v, profile) \in Templates
           /\ \A t \in Shelf!Templatize(u, v, profile) :
                 /\ TemplateFits(t, u) /\ u.ver = v
                 /\ t.rev \/ ~profile \/ u.tok = 0
           /\ u.ver = v => Shelf!Templatize(u, v, profile) # {}
<1>1. CASE u.ver # v
  BY <1>1 DEF Shelf!Templatize, Templates
<1>2. CASE u.ver = v /\ profile /\ u.tok # 0
  <2> DEFINE t == [site |-> u.site, rev |-> TRUE, tok |-> 0]
  <2>1. Shelf!Templatize(u, v, profile) = {t}  BY <1>2 DEF Shelf!Templatize
  <2>2. t \in Shape /\ TemplateFits(t, u) /\ t.rev  BY <1>2 DEF Shape, Place, TemplateFits
  <2> HIDE DEF t
  <2> QED  BY <1>2, <2>1, <2>2 DEF Templates
<1>3. CASE u.ver = v /\ ~(profile /\ u.tok # 0)
  <2> DEFINE t == [site |-> u.site, rev |-> FALSE, tok |-> u.tok]
  <2>1. Shelf!Templatize(u, v, profile) = {t}  BY <1>3 DEF Shelf!Templatize
  <2>2. t \in Shape /\ TemplateFits(t, u) /\ ~t.rev  BY <1>3 DEF Shape, Place, TemplateFits
  <2> HIDE DEF t
  <2> QED  BY <1>3, <2>1, <2>2 DEF Templates
<1> QED  BY <1>1, <1>2, <1>3

\* An upgraded template is one of the URL with a hole for the token; there is none only
\* when the template has one, the platform is not known, or the URL has no token.
LEMMA UpgradedIs ==
    ASSUME NEW t \in Shape, NEW u \in Place, NEW v, NEW profile \in BOOLEAN
    PROVE  /\ Shelf!UpgradeTemplate(t, u, v, profile) \in Templates
           /\ \A c \in Shelf!UpgradeTemplate(t, u, v, profile) : TemplateFits(c, u) /\ c.rev
           /\ Shelf!UpgradeTemplate(t, u, v, profile) = {} /\ u.ver = v =>
                 t.rev \/ ~profile \/ u.tok = 0
<1> DEFINE C == Shelf!Templatize(u, v, profile)
           U == Shelf!UpgradeTemplate(t, u, v, profile)
<1>1. U \subseteq C /\ \A c \in U : c.rev  BY DEF Shelf!UpgradeTemplate
<1>2. C \in Templates /\ \A c \in C : TemplateFits(c, u)  BY TemplatizedIs
<1>3. U \in Templates /\ \A c \in U : TemplateFits(c, u) /\ c.rev
  <2> HIDE DEF U, C
  <2> QED  BY <1>1, <1>2 DEF Templates
<1>4. ASSUME u.ver = v, ~t.rev, profile, u.tok # 0 PROVE U # {}
  <2> DEFINE c == [site |-> u.site, rev |-> TRUE, tok |-> 0]
  <2>1. C = {c}  BY <1>4 DEF Shelf!Templatize
  <2>2. Shelf!ExtractRevision(u, c, v) = u.tok  BY <1>4 DEF Shelf!ExtractRevision
  <2>3. Shelf!ResolveTemplate(c, v, u.tok) = u  BY <1>4 DEF Shelf!ResolveTemplate, Place
  <2>4. c \in U  BY <1>4, <2>1, <2>2, <2>3 DEF Shelf!UpgradeTemplate
  <2> QED  BY <2>4
<1> QED  BY <1>3, <1>4

-----------------------------------------------------------------------------
(* The catalogue: rows and what writes them.                               *)

\* What a run writes of its copy.
LEMMA WritesIs ==
    ASSUME ShelfTypes, NEW old \in SourceRow, NEW new \in SourceRow, Shelf!Writes(old, new)
    PROVE  /\ row = {} => row' = {}
           /\ \A s \in row : \E n \in SourceRow :
                 /\ row' = {n}
                 /\ n.template = IF new.template = old.template THEN s.template ELSE new.template
                 /\ n.url = IF new.url = old.url THEN s.url ELSE new.url
                 /\ n.profile = IF new.profile = old.profile THEN s.profile ELSE new.profile
                 /\ n.product = s.product /\ n.pdf = s.pdf
<1>1. row = {} => row' = {}  BY DEF Shelf!Writes
<1>2. ASSUME NEW s \in row
      PROVE  \E n \in SourceRow :
                 /\ row' = {n}
                 /\ n.template = IF new.template = old.template THEN s.template ELSE new.template
                 /\ n.url = IF new.url = old.url THEN s.url ELSE new.url
                 /\ n.profile = IF new.profile = old.profile THEN s.profile ELSE new.profile
                 /\ n.product = s.product /\ n.pdf = s.pdf
  <2> DEFINE T == IF new.template = old.template THEN s.template ELSE new.template
             u == IF new.url = old.url THEN s.url ELSE new.url
             b == IF new.profile = old.profile THEN s.profile ELSE new.profile
  <2>1. s \in SourceRow /\ row = {s}  BY <1>2 DEF ShelfTypes
  <2>2. T \in Templates /\ u \in Place  BY <2>1 DEF SourceRow
  <2>3. b \in BOOLEAN  BY <2>1 DEF SourceRow
  <2>4. row' = {[s EXCEPT !.template = T, !.url = u, !.profile = b]}
    <3>1. row' = {[x EXCEPT
                     !.template = IF new.template = old.template THEN @ ELSE new.template,
                     !.url = IF new.url = old.url THEN @ ELSE new.url,
                     !.profile = IF new.profile = old.profile THEN @ ELSE new.profile] :
                    x \in {s}}
      BY <2>1 DEF Shelf!Writes
    <3> QED  BY <3>1
  <2> HIDE DEF T, u, b
  <2>5. PICK n : n = [s EXCEPT !.template = T, !.url = u, !.profile = b]  OBVIOUS
  <2>6. n \in SourceRow  BY <2>1, <2>2, <2>3, <2>5 DEF SourceRow
  <2>7. n.template = T /\ n.url = u  BY <2>1, <2>5 DEF SourceRow
  <2>8. n.profile = b  BY <2>1, <2>5 DEF SourceRow
  <2>9. n.product = s.product /\ n.pdf = s.pdf  BY <2>1, <2>5 DEF SourceRow
  <2>10. row' = {n}  BY <2>4, <2>5
  <2> QED  BY <2>6, <2>7, <2>8, <2>9, <2>10 DEF T, u, b
<1> QED  BY <1>1, <1>2

\* The run's copy moves on.
LEMMA AdvanceIs ==
    ASSUME NEW r \in RunRow, NEW step \in {"versioned", "scraping"}, NEW s \in SourceRow,
           NEW v \in Nat, Shelf!Advance(r, step, s, v)
    PROVE  /\ Shelf!Writes(r.s, s)
           /\ \E n \in RunRow : run' = {n} /\ n.step = step /\ n.s = s /\ n.version = v
<1> DEFINE n == [r EXCEPT !.step = step, !.s = s, !.version = v]
<1>1. n \in RunRow  BY DEF RunRow
<1>2. n.step = step /\ n.s = s /\ n.version = v  BY DEF RunRow
<1>3. run' = {n} /\ Shelf!Writes(r.s, s)  BY DEF Shelf!Advance
<1> QED  BY <1>1, <1>2, <1>3

\* The planned template and URL.
LEMMA PlannedIs ==
    ASSUME NEW s \in SourceRow, s.template # {}, NEW v \in Nat \ {0}, NEW was \in Nat,
           NEW found \in BOOLEAN
    PROVE  \E n \in PlanRow :
              /\ n = Shelf!Planned(s, v, was, found)
              /\ ~n.open => n.url.ver = v
              /\ n.template # {}
              /\ (\A t \in s.template : TemplateFits(t, s.url)) =>
                    /\ \A t \in n.template : TemplateFits(t, s.url)
                    /\ n.url.site = s.url.site
                    /\ was = s.url.ver => n.url.ver = v
<1> DEFINE stored == Shelf!The(s.template)
           c == IF was = 0 THEN s.url.ver ELSE was
           upgraded == Shelf!UpgradeTemplate(stored, s.url, c, s.profile)
           t == IF upgraded = {} THEN stored ELSE Shelf!The(upgraded)
           looked == IF s.profile /\ found THEN Shelf!Token(t.site, v) ELSE 0
           carried == Shelf!ExtractRevision(s.url, t, c)
           token == IF looked # 0 THEN looked ELSE carried
           url == IF t.rev /\ token = 0 THEN s.url ELSE Shelf!ResolveTemplate(t, v, token)
           open == t.rev /\ looked = 0
           n == Shelf!Planned(s, v, was, found)
<1>1. s.template \in Templates /\ s.url \in Place /\ s.profile \in BOOLEAN  BY DEF SourceRow
<1>2. stored \in Shape /\ stored \in s.template /\ s.template = {stored}  BY <1>1, OnlyIs
<1>3. /\ upgraded \in Templates
      /\ \A x \in upgraded : TemplateFits(x, s.url) /\ x.rev
  <2> HIDE DEF stored, c
  <2> QED  BY <1>1, <1>2, UpgradedIs
<1>4. t \in Shape /\ (t \in upgraded \/ t = stored)
  <2> HIDE DEF upgraded, stored
  <2> QED  BY <1>2, <1>3, OnlyIs
<1>5. n = [template |-> {t}, url |-> url, open |-> open]  BY DEF Shelf!Planned
<1>6. looked \in Nat /\ (looked # 0 => t.site \in Minting)
  <2> HIDE DEF t
  <2> QED  BY DEF Shelf!Token
<1>7. /\ carried \in Nat
      /\ carried # 0 => t.site \in Minting
      /\ t.rev /\ t.site = s.url.site /\ s.url.ver = c /\ s.url.site \in Minting => carried # 0
  <2> HIDE DEF t, c
  <2> QED  BY <1>1 DEF Shelf!ExtractRevision, Place
<1>8. was = s.url.ver => s.url.ver = c  OBVIOUS
<1> HIDE DEF t, looked, carried, c
<1>9. token \in Nat /\ (token # 0 => t.site \in Minting)  BY <1>6, <1>7
<1>10. /\ url \in Place
       /\ ~(t.rev /\ token = 0) => url.ver = v /\ url.site = t.site
       /\ t.rev /\ token = 0 => url = s.url
  <2> HIDE DEF token
  <2> QED  BY <1>1, <1>4, <1>9, ResolvedIs
<1>11. ~open => url.ver = v
  BY <1>10
<1>12. (\A x \in s.template : TemplateFits(x, s.url)) =>
          /\ TemplateFits(t, s.url) /\ url.site = s.url.site
          /\ was = s.url.ver => url.ver = v
  <2> SUFFICES ASSUME \A x \in s.template : TemplateFits(x, s.url)
               PROVE  /\ TemplateFits(t, s.url) /\ url.site = s.url.site
                      /\ was = s.url.ver => url.ver = v
    OBVIOUS
  <2> HIDE DEF url, token, upgraded, stored
  <2>1. TemplateFits(t, s.url)  BY <1>2, <1>3, <1>4
  <2>2. url.site = s.url.site  BY <2>1, <1>10 DEF TemplateFits
  <2>3. ASSUME was = s.url.ver PROVE url.ver = v
    <3>1. t.rev => token # 0  BY <2>1, <2>3, <1>7, <1>8, <1>6 DEF TemplateFits, token
    <3> QED  BY <3>1, <1>10
  <2> QED  BY <2>1, <2>2, <2>3
<1>13. open \in BOOLEAN  OBVIOUS
<1>14. {t} \in Templates  BY <1>4 DEF Templates
<1> HIDE DEF url, open, n
<1>15. n \in PlanRow /\ n.template = {t} /\ n.url = url  BY <1>5, <1>10, <1>13, <1>14 DEF PlanRow
<1>16. n.open = open  BY <1>5
<1> QED  BY <1>11, <1>12, <1>15, <1>16 DEF n

-----------------------------------------------------------------------------
(* The catalogue: what the requests keep.                                  *)

LEMMA ShelfStarts == Shelf!Init => ShelfInv
<1> SUFFICES ASSUME Shelf!Init PROVE ShelfInv  OBVIOUS
<1>1. /\ product = [p \in Products |-> [version |-> 0, previous |-> 0]]
      /\ row = {} /\ article = {} /\ bump = {} /\ run = {} /\ settled = FALSE
  BY DEF Shelf!Init, Shelf!NewProduct
<1> QED  BY <1>1 DEF ShelfInv, ShelfTypes, SettledFits, IdentityFits

LEMMA NewRowKeeps ==
    ASSUME ShelfInv, NEW p \in Products, NEW u \in Place, NEW t \in Templates,
           NEW pdf \in BOOLEAN, Shelf!NewRow(p, u, t, pdf)
    PROVE  ShelfInv'
<1> DEFINE n == [product |-> p, url |-> u, template |-> t, profile |-> FALSE, pdf |-> pdf]
<1>1. /\ row = {} /\ ~deleted /\ row' = {n} /\ settled' = FALSE /\ adrift' = (t # {})
      /\ UNCHANGED <<product, article, bump, run, deleted>>
  BY DEF Shelf!NewRow, Shelf!NewSource
<1>2. article = {} /\ run = {} /\ bump = {}  BY <1>1 DEF ShelfInv, ShelfTypes
<1>3. n \in SourceRow /\ n.template = t  BY DEF SourceRow
<1> HIDE DEF n
<1>4. ShelfTypes'  BY <1>1, <1>2, <1>3 DEF ShelfInv, ShelfTypes
<1>5. SettledFits'  BY <1>1 DEF SettledFits
<1>6. IdentityFits'
  <2> SUFFICES ASSUME ~adrift' PROVE RowFits(n)'
    BY <1>1, <1>2 DEF IdentityFits
  <2> QED  BY <1>1, <1>2, <1>3 DEF RowFits
<1> QED  BY <1>4, <1>5, <1>6 DEF ShelfInv

\* The URL that a typed template gives, or the one that was typed.
LEMMA CarriedIs ==
    ASSUME NEW t \in Shape, NEW v \in Nat \ {0}, NEW u \in Place
    PROVE  Shelf!ResolveWithCarriedRevision(t, v, u) \in Place
<1> DEFINE n == Shelf!ExtractRevision(u, t, u.ver)
<1>1. n \in Nat /\ (n # 0 => t.site \in Minting)
  BY DEF Shelf!ExtractRevision, Place
<1> HIDE DEF n
<1>2. CASE t.rev /\ n = 0
  BY <1>2 DEF Shelf!ResolveWithCarriedRevision, n
<1>3. CASE ~(t.rev /\ n = 0)
  <2>1. Shelf!ResolveWithCarriedRevision(t, v, u) = Shelf!ResolveTemplate(t, v, n)
    BY <1>3 DEF Shelf!ResolveWithCarriedRevision, n
  <2> QED  BY <1>1, <1>3, <2>1, ResolvedIs
<1> QED  BY <1>2, <1>3

\* What a request can send for a template.
LEMMA SentIs ==
    ASSUME NEW T \in {{}} \cup {{x} : x \in Shelf!Template}
    PROVE  T \in Templates
  BY TemplatesAre DEF Templates

LEMMA CreateKeeps ==
    ASSUME ShelfInv, NEW p \in Products, NEW u \in Shelf!Url,
           NEW t \in {{}} \cup {{x} : x \in Shelf!Template},
           Shelf!CreateSource(p, u, t) \/ Shelf!ImportSource(p, u, t) \/ Shelf!CreatePdfSource(p, u)
    PROVE  ShelfInv'
<1>1. u \in Place /\ t \in Templates  BY UrlsAre, SentIs
<1>2. CASE Shelf!CreateSource(p, u, t)
  <2> DEFINE v == product[p].version
             n == IF t # {} /\ v # 0
                  THEN Shelf!ResolveWithCarriedRevision(Shelf!The(t), v, u) ELSE u
  <2>1. v \in Nat  BY DEF ShelfInv, ShelfTypes
  <2>2. n \in Place
    <3> HIDE DEF v
    <3> QED  BY <1>1, <2>1, OnlyIs, CarriedIs
  <2>3. Shelf!NewRow(p, n, t, FALSE)  BY <1>2 DEF Shelf!CreateSource
  <2> HIDE DEF n
  <2> QED  BY <1>1, <2>2, <2>3, NewRowKeeps
<1>3. CASE Shelf!ImportSource(p, u, t)
  <2>1. Shelf!NewRow(p, u, t, FALSE)  BY <1>3 DEF Shelf!ImportSource
  <2> QED  BY <1>1, <2>1, NewRowKeeps
<1>4. CASE Shelf!CreatePdfSource(p, u)
  <2>1. Shelf!NewRow(p, u, {}, TRUE)  BY <1>4 DEF Shelf!CreatePdfSource
  <2>2. {} \in Templates  BY DEF Templates
  <2> QED  BY <1>1, <2>1, <2>2, NewRowKeeps
<1> QED  BY <1>2, <1>3, <1>4

\* What a patch leaves.
LEMMA EditedIs ==
    ASSUME NEW s \in SourceRow, NEW p \in Products, NEW T \in Templates, NEW u \in Place,
           NEW b \in BOOLEAN
    PROVE  [s EXCEPT !.product = p, !.template = T, !.url = u, !.profile = b] \in SourceRow
  BY DEF SourceRow

UrlsSent == {{}} \cup {{u} : u \in Shelf!Url}
ProductsSent == {{}} \cup {{q} : q \in Products}
TemplatesSent == {{}, {{}}} \cup {{{t}} : t \in Shelf!Template}
ProfilesSent == {{}, {TRUE}, {FALSE}}

LEMMA UpdateSourceKeeps ==
    ASSUME ShelfInv,
           NEW url \in UrlsSent, NEW p \in ProductsSent,
           NEW template \in TemplatesSent, NEW profile \in ProfilesSent,
           Shelf!UpdateSource(url, p, template, profile)
    PROVE  ShelfInv'
<1>1. /\ settled' = FALSE /\ adrift' = TRUE
      /\ UNCHANGED <<product, article, bump, run, deleted>>
  BY DEF Shelf!UpdateSource
<1>2. \E n \in SourceRow : row' = {n}
  <2>1. PICK s \in row :
          LET at == IF p = {} THEN s.product ELSE Shelf!The(p)
              typed == IF url = {} THEN s.url ELSE Shelf!The(url)
              kept == IF url # {} /\ s.pdf THEN {} ELSE s.template
              tmpl == IF template = {} THEN kept ELSE Shelf!The(template)
              v == product[at].version
          IN  row' = {[s EXCEPT !.product = at, !.template = tmpl,
                  !.url = IF template # {} /\ tmpl # {} /\ v # 0
                          THEN Shelf!ResolveWithCarriedRevision(Shelf!The(tmpl), v, typed)
                          ELSE typed,
                  !.profile = IF profile = {} THEN @ ELSE Shelf!The(profile)]}
    BY DEF Shelf!UpdateSource
  <2>2. s \in SourceRow  BY DEF ShelfInv, ShelfTypes
  <2> DEFINE at == IF p = {} THEN s.product ELSE Shelf!The(p)
             typed == IF url = {} THEN s.url ELSE Shelf!The(url)
             kept == IF url # {} /\ s.pdf THEN {} ELSE s.template
             tmpl == IF template = {} THEN kept ELSE Shelf!The(template)
             v == product[at].version
             dest == IF template # {} /\ tmpl # {} /\ v # 0
                     THEN Shelf!ResolveWithCarriedRevision(Shelf!The(tmpl), v, typed) ELSE typed
             known == IF profile = {} THEN s.profile ELSE Shelf!The(profile)
  <2>3. at \in Products
    <3>1. p # {} => Shelf!The(p) \in p  BY DEF Shelf!The
    <3> QED  BY <2>2, <3>1 DEF SourceRow, ProductsSent
  <2>4. typed \in Place
    <3>1. url # {} => Shelf!The(url) \in url  BY DEF Shelf!The
    <3> QED  BY <2>2, <3>1, UrlsAre DEF SourceRow, UrlsSent
  <2>5. tmpl \in Templates
    <3>1. template # {} => Shelf!The(template) \in template  BY DEF Shelf!The
    <3>2. \A T \in template : T = {} \/ \E t \in Shelf!Template : T = {t}
      BY DEF TemplatesSent
    <3>3. \A T \in template : T \in Templates  BY <3>2, TemplatesAre DEF Templates
    <3>4. kept \in Templates
      <4>1. s.template \in Templates /\ {} \in Templates  BY <2>2 DEF SourceRow, Templates
      <4> QED  BY <4>1
    <3> HIDE DEF kept
    <3> QED  BY <3>1, <3>3, <3>4
  <2>6. v \in Nat  BY <2>3 DEF ShelfInv, ShelfTypes
  <2>7. dest \in Place
    <3> HIDE DEF v, tmpl, typed
    <3> QED  BY <2>4, <2>5, <2>6, OnlyIs, CarriedIs
  <2>8. known \in BOOLEAN
    <3>1. profile # {} => Shelf!The(profile) \in profile  BY DEF Shelf!The
    <3>2. s.profile \in BOOLEAN  BY <2>2 DEF SourceRow
    <3> QED  BY <3>1, <3>2 DEF ProfilesSent
  <2>9. row' = {[s EXCEPT !.product = at, !.template = tmpl, !.url = dest, !.profile = known]}
    BY <2>1
  <2> HIDE DEF at, tmpl, dest, known
  <2>10. [s EXCEPT !.product = at, !.template = tmpl, !.url = dest, !.profile = known]
            \in SourceRow
    BY <2>2, <2>3, <2>5, <2>7, <2>8, EditedIs
  <2> QED  BY <2>9, <2>10
<1>3. row # {}
  BY DEF Shelf!UpdateSource
<1>4. ShelfTypes'  BY <1>1, <1>2, <1>3 DEF ShelfInv, ShelfTypes
<1>5. SettledFits' /\ IdentityFits'  BY <1>1 DEF SettledFits, IdentityFits
<1> QED  BY <1>4, <1>5 DEF ShelfInv

LEMMA DeleteSourceKeeps == ShelfInv /\ Shelf!DeleteSource => ShelfInv'
<1> SUFFICES ASSUME ShelfInv, Shelf!DeleteSource PROVE ShelfInv'  OBVIOUS
<1>1. /\ row' = {} /\ article' = {} /\ deleted' = TRUE
      /\ UNCHANGED <<product, bump, run, settled, adrift>>
  BY DEF Shelf!DeleteSource
<1>2. ShelfTypes'  BY <1>1 DEF ShelfInv, ShelfTypes
<1>3. SettledFits'
  BY <1>1 DEF ShelfInv, SettledFits, VersionOf
<1>4. IdentityFits'  BY <1>1 DEF IdentityFits
<1> QED  BY <1>2, <1>3, <1>4 DEF ShelfInv

\* Versioning touches the keys of the articles, and the template of a URL that carries
\* the version.
LEMMA EnableIs ==
    ASSUME ShelfTypes, NEW p \in Products, NEW v \in Nat \ {0}, Shelf!EnableVersioning(p, v)
    PROVE  /\ product' \in [Products -> [version : Nat, previous : Nat]]
           /\ \A q \in Products : product'[q].version = IF q = p THEN v ELSE product[q].version
           /\ row = {} => row' = {}
           /\ \A s \in row : \E n \in SourceRow :
                 /\ row' = {n} /\ n.url = s.url /\ n.product = s.product
                 /\ n.profile = s.profile /\ n.pdf = s.pdf
                 /\ n.template = IF s.product = p /\ s.url.ver = v
                                 THEN Shelf!Templatize(s.url, v, s.profile) ELSE s.template
           /\ article' \subseteq PageRow
           /\ \A a \in article' : \E b \in article : a.url = b.url /\ a.live = b.live
           /\ (\A x, y \in article : x = y) => \A x, y \in article' : x = y
           /\ article = {} => article' = {}
<1>1. /\ product' = [product EXCEPT ![p].version = v]
      /\ row' = {[s EXCEPT !.template =
                   IF s.product = p /\ s.url.ver = v THEN Shelf!Templatize(s.url, v, s.profile)
                   ELSE @] : s \in row}
      /\ article' = {IF \E s \in row : s.product = p /\ s.url.ver = v /\ ~s.pdf
                   THEN [a EXCEPT !.key = Shelf!DeriveTopicKey(a.url,
                             Shelf!Templatize(Shelf!The(row).url, v, Shelf!The(row).profile), v)]
                   ELSE a : a \in article}
  BY DEF Shelf!EnableVersioning
<1>2. /\ product' \in [Products -> [version : Nat, previous : Nat]]
      /\ \A q \in Products : product'[q].version = IF q = p THEN v ELSE product[q].version
  BY <1>1 DEF ShelfTypes
<1>3. ASSUME NEW s \in row
      PROVE  \E n \in SourceRow :
                 /\ row' = {n} /\ n.url = s.url /\ n.product = s.product
                 /\ n.profile = s.profile /\ n.pdf = s.pdf
                 /\ n.template = IF s.product = p /\ s.url.ver = v
                                 THEN Shelf!Templatize(s.url, v, s.profile) ELSE s.template
  <2> DEFINE T == IF s.product = p /\ s.url.ver = v
                  THEN Shelf!Templatize(s.url, v, s.profile) ELSE s.template
             n == [s EXCEPT !.template = T]
  <2>1. s \in SourceRow /\ row = {s}  BY DEF ShelfTypes
  <2>2. T \in Templates  BY <2>1, TemplatizedIs DEF SourceRow
  <2>3. row' = {n}
    <3>1. row' = {[x EXCEPT !.template =
                   IF x.product = p /\ x.url.ver = v THEN Shelf!Templatize(x.url, v, x.profile)
                   ELSE @] : x \in {s}}
      BY <1>1, <2>1
    <3> QED  BY <3>1
  <2> HIDE DEF T
  <2>4. n \in SourceRow  BY <2>1, <2>2 DEF SourceRow
  <2>5. n.url = s.url /\ n.product = s.product /\ n.template = T  BY <2>1 DEF SourceRow
  <2>6. n.profile = s.profile  BY <2>1 DEF SourceRow
  <2>7. n.pdf = s.pdf  BY <2>1 DEF SourceRow
  <2> HIDE DEF n
  <2> QED  BY <2>3, <2>4, <2>5, <2>6, <2>7 DEF T
<1>4. PICK K : K = [a \in article |-> IF \E s \in row : s.product = p /\ s.url.ver = v /\ ~s.pdf
                   THEN [a EXCEPT !.key = Shelf!DeriveTopicKey(a.url,
                             Shelf!Templatize(Shelf!The(row).url, v, Shelf!The(row).profile), v)]
                   ELSE a]
  OBVIOUS
<1>5. article' = {K[a] : a \in article}  BY <1>1, <1>4
<1>6. ASSUME NEW a \in article
      PROVE  K[a] \in PageRow /\ K[a].url = a.url /\ K[a].live = a.live
  <2>1. a \in PageRow  BY DEF ShelfTypes
  <2>2. CASE K[a] = a  BY <2>1, <2>2
  <2>3. CASE ~(K[a] = a)
    <3>1. PICK s \in row : s.product = p /\ s.url.ver = v /\ ~s.pdf  BY <1>4, <2>3
    <3> DEFINE T == Shelf!Templatize(Shelf!The(row).url, v, Shelf!The(row).profile)
               k == Shelf!DeriveTopicKey(a.url, T, v)
    <3>2. K[a] = [a EXCEPT !.key = k]  BY <1>4, <2>3
    <3>3. k \in TopicKey
      <4> HIDE DEF T
      <4>1. a.url \in Place  BY <2>1 DEF PageRow
      <4> QED  BY <4>1, VersionsAssumption DEF Shelf!DeriveTopicKey, TopicKey, Place, Shelf!Rev, Shelf!Hole
    <3> HIDE DEF k
    <3>4. K[a] \in PageRow  BY <2>1, <3>2, <3>3 DEF PageRow
    <3>5. K[a].url = a.url  BY <2>1, <3>2 DEF PageRow
    <3>6. K[a].live = a.live  BY <2>1, <3>2 DEF PageRow
    <3> QED  BY <3>4, <3>5, <3>6
  <2> QED  BY <2>2, <2>3
<1>7. row = {} => row' = {}  BY <1>1
<1> HIDE DEF ShelfTypes
<1> QED  BY <1>2, <1>3, <1>5, <1>6, <1>7

LEMMA EnableKeeps ==
    ASSUME ShelfInv, NEW p \in Products, NEW v \in Shelf!Versions, Shelf!EnableVersioning(p, v)
    PROVE  ShelfInv'
<1>1. v \in Nat \ {0} /\ ShelfTypes  BY VersionsAre DEF ShelfInv
<1>2. /\ settled' = FALSE
      /\ adrift' = (adrift \/ \E s \in row : s.product = p /\ s.template # {} /\ s.url.ver # v)
      /\ UNCHANGED <<bump, run, deleted>>
  BY DEF Shelf!EnableVersioning
<1>3. /\ product' \in [Products -> [version : Nat, previous : Nat]]
      /\ \A q \in Products : product'[q].version = IF q = p THEN v ELSE product[q].version
      /\ row = {} => row' = {}
      /\ article' \subseteq PageRow
      /\ \A a \in article' : \E b \in article : a.url = b.url /\ a.live = b.live
      /\ (\A x, y \in article : x = y) => \A x, y \in article' : x = y
      /\ article = {} => article' = {}
  BY <1>1, EnableIs
<1>4. CASE row = {}
  <2>1. row' = {} /\ article' = {}  BY <1>1, <1>3, <1>4 DEF ShelfTypes
  <2>2. ShelfTypes'  BY <1>1, <1>2, <1>3, <1>4, <2>1 DEF ShelfTypes
  <2>3. SettledFits' /\ IdentityFits'  BY <1>2, <2>1 DEF SettledFits, IdentityFits
  <2> QED  BY <2>2, <2>3 DEF ShelfInv
<1>5. ASSUME NEW s \in row PROVE ShelfInv'
  <2>1. PICK n \in SourceRow :
           /\ row' = {n} /\ n.url = s.url /\ n.product = s.product
           /\ n.profile = s.profile /\ n.pdf = s.pdf
           /\ n.template = IF s.product = p /\ s.url.ver = v
                           THEN Shelf!Templatize(s.url, v, s.profile) ELSE s.template
    BY <1>1, EnableIs
  <2>2. ShelfTypes'  BY <1>1, <1>2, <1>3, <2>1 DEF ShelfTypes
  <2>3. SettledFits'  BY <1>2 DEF SettledFits
  <2>4. ASSUME ~adrift' PROVE /\ RowFits(n)' /\ \A b \in bump : BumpFits(b, n)'
                              /\ \A r \in run : RunFits(r, n)'
    <3>1. ~adrift /\ RowFits(s) /\ (\A b \in bump : BumpFits(b, s)) /\ \A r \in run : RunFits(r, s)
      BY <1>2, <2>4 DEF ShelfInv, IdentityFits
    <3>2. s.product = p /\ s.template # {} => s.url.ver = v  BY <1>2, <2>4
    <3>3. s \in SourceRow /\ s.url \in Place /\ s.profile \in BOOLEAN
      BY <1>1 DEF ShelfTypes, SourceRow
    <3>4. /\ \A t \in n.template : TemplateFits(t, n.url)
          /\ s.template # {} => n.template # {}
          /\ n.template # {} /\ s.product = p => s.url.ver = v
      BY <2>1, <3>1, <3>2, <3>3, TemplatizedIs DEF RowFits
    <3>5. s.product \in Products  BY <3>3 DEF SourceRow
    <3>6. /\ product'[s.product].version = IF s.product = p THEN v ELSE product[s.product].version
      BY <1>3, <3>5
    <3>7. n.template = {} => s.template = {}  BY <3>4
    <3>8. RowFits(n)'
      <4>1. \A a \in article' : a.live /\ a.url.site = n.url.site
        BY <1>3, <2>1, <3>1 DEF RowFits
      <4>2. ~n.profile \/ n.template = {} => \A a \in article' : a.url = n.url
        BY <1>3, <2>1, <3>1, <3>7 DEF RowFits
      <4>3. n.template # {} => n.url.ver = product'[n.product].version
        BY <2>1, <3>1, <3>4, <3>6 DEF RowFits, VersionOf
      <4> QED  BY <3>4, <4>1, <4>2, <4>3 DEF RowFits, VersionOf
    <3>9. ASSUME NEW b \in bump PROVE BumpFits(b, n)'
      BY <2>1, <3>1, <3>4 DEF BumpFits
    <3>10. ASSUME NEW r \in run PROVE RunFits(r, n)'
      <4>1. RunFits(r, s)  BY <3>1
      <4>2. r.step # "loaded" /\ r.s.template # {} =>
              n.url.ver = r.version /\ r.version = product'[n.product].version
        BY <2>1, <3>1, <3>2, <3>6, <4>1 DEF RunFits, VersionOf, RowFits
      <4>3. ~r.s.profile \/ r.s.template = {} => \A a \in article' : a.url = n.url
        BY <1>3, <2>1, <4>1 DEF RunFits
      <4> QED  BY <2>1, <3>4, <4>1, <4>2, <4>3 DEF RunFits, VersionOf
    <3> QED  BY <3>8, <3>9, <3>10
  <2>5. IdentityFits'
    <3> SUFFICES ASSUME ~adrift'
                 PROVE  /\ \A x, y \in article' : x = y
                        /\ RowFits(n)' /\ \A b \in bump' : BumpFits(b, n)'
                        /\ \A r \in run' : RunFits(r, n)'
      BY <2>1 DEF IdentityFits
    <3>1. \A x, y \in article : x = y  BY <1>2 DEF ShelfInv, IdentityFits
    <3> QED  BY <1>2, <1>3, <2>4, <3>1
  <2> QED  BY <2>2, <2>3, <2>5 DEF ShelfInv
<1> QED  BY <1>4, <1>5

LEMMA BumpPlanKeeps ==
    ASSUME ShelfInv, NEW p \in Products, NEW v \in Shelf!Versions, NEW found \in BOOLEAN,
           Shelf!BumpPlan(p, v, found)
    PROVE  ShelfInv'
<1>1. PICK s \in row :
         /\ s.product = p /\ s.template # {}
         /\ bump' = {[product |-> p, version |-> v, was |-> product[p].version, read |-> s,
                      plan |-> Shelf!Planned(s, v, product[p].version, found)]}
  BY DEF Shelf!BumpPlan
<1>2. /\ product[p].version # v
      /\ UNCHANGED <<product, row, article, run, settled, adrift, deleted>>
  BY DEF Shelf!BumpPlan
<1>3. PICK was : was = product[p].version  OBVIOUS
<1>4. s \in SourceRow /\ row = {s} /\ v \in Nat \ {0} /\ was \in Nat
  BY <1>3, VersionsAre DEF ShelfInv, ShelfTypes
<1>5. PICK n \in PlanRow :
         /\ n = Shelf!Planned(s, v, was, found)
         /\ ~n.open => n.url.ver = v
         /\ n.template # {}
         /\ (\A t \in s.template : TemplateFits(t, s.url)) =>
               /\ \A t \in n.template : TemplateFits(t, s.url)
               /\ n.url.site = s.url.site
               /\ was = s.url.ver => n.url.ver = v
  BY <1>1, <1>4, PlannedIs
<1>6. PICK b : b = [product |-> p, version |-> v, was |-> was, read |-> s, plan |-> n]  OBVIOUS
<1>7. bump' = {b}  BY <1>6, <1>1, <1>5, <1>3
<1>8. b \in BumpRow  BY <1>6, <1>4 DEF BumpRow
<1>9. b.product = p /\ b.version = v /\ b.was = was /\ b.read = s /\ b.plan = n  BY <1>6
<1>10. was # v /\ s.product = p  BY <1>1, <1>2, <1>3
<1>11. ShelfTypes'  BY <1>2, <1>4, <1>5, <1>7, <1>8, <1>9, <1>10 DEF ShelfInv, ShelfTypes
<1>12. SettledFits'  BY <1>2 DEF ShelfInv, SettledFits, VersionOf
<1>13. IdentityFits'
  <2> SUFFICES ASSUME ~adrift'
               PROVE  /\ \A x, y \in article' : x = y
                      /\ RowFits(s)' /\ BumpFits(b, s)' /\ \A r \in run' : RunFits(r, s)'
    BY <1>2, <1>4, <1>7 DEF IdentityFits
  <2>1. /\ \A x, y \in article : x = y
        /\ RowFits(s) /\ \A r \in run : RunFits(r, s)
    BY <1>2, <1>4 DEF ShelfInv, IdentityFits
  <2>2. RowFits(s)'  BY <1>2, <2>1 DEF RowFits, VersionOf
  <2>3. \A r \in run' : RunFits(r, s)'  BY <1>2, <2>1 DEF RunFits, VersionOf
  <2>4. (\A t \in s.template : TemplateFits(t, s.url)) /\ s.url.ver = was
    BY <1>1, <1>3, <2>1 DEF RowFits, VersionOf
  <2>5. BumpFits(b, s)'
    BY <1>1, <1>5, <1>9, <1>10, <2>4 DEF BumpFits
  <2> QED  BY <1>2, <2>1, <2>2, <2>3, <2>5
<1> QED  BY <1>11, <1>12, <1>13 DEF ShelfInv

\* What a bump commits.
LEMMA CommitIs ==
    ASSUME ShelfTypes, NEW b \in bump, row # {},
           product' = [product EXCEPT ![b.product] = [version |-> b.version, previous |-> b.was]],
           row' = {[s EXCEPT
                !.template = IF b.plan.template = b.read.template THEN @ ELSE b.plan.template,
                !.url = IF b.plan.url = b.read.url THEN @ ELSE b.plan.url] : s \in row}
    PROVE  /\ b \in BumpRow /\ b.product \in Products
           /\ product' \in [Products -> [version : Nat, previous : Nat]]
           /\ product'[b.product].version = b.version
           /\ \E s \in row : \E n \in SourceRow :
                 /\ row = {s} /\ row' = {n} /\ n.product = s.product
                 /\ n.profile = s.profile /\ n.pdf = s.pdf
                 /\ n.template = IF b.plan.template = b.read.template
                                 THEN s.template ELSE b.plan.template
                 /\ n.url = IF b.plan.url = b.read.url THEN s.url ELSE b.plan.url
<1>1. b \in BumpRow  BY DEF ShelfTypes
<1>2. b.product \in Products /\ b.version \in Nat /\ b.was \in Nat  BY <1>1 DEF BumpRow
<1>3. /\ product' \in [Products -> [version : Nat, previous : Nat]]
      /\ product'[b.product].version = b.version
  BY <1>2 DEF ShelfTypes
<1>4. PICK s \in row : TRUE  OBVIOUS
<1>5. s \in SourceRow /\ row = {s}  BY DEF ShelfTypes
<1> DEFINE T == IF b.plan.template = b.read.template THEN s.template ELSE b.plan.template
           u == IF b.plan.url = b.read.url THEN s.url ELSE b.plan.url
           n == [s EXCEPT !.template = T, !.url = u]
<1>6. T \in Templates /\ u \in Place
  <2>1. b.plan \in PlanRow  BY <1>1 DEF BumpRow
  <2>2. b.plan.template \in Templates /\ b.plan.url \in Place  BY <2>1 DEF PlanRow
  <2>3. s.template \in Templates /\ s.url \in Place  BY <1>5 DEF SourceRow
  <2> QED  BY <2>2, <2>3
<1>7. row' = {n}
  <2>1. row' = {[x EXCEPT
                !.template = IF b.plan.template = b.read.template THEN @ ELSE b.plan.template,
                !.url = IF b.plan.url = b.read.url THEN @ ELSE b.plan.url] : x \in {s}}
    BY <1>5
  <2> QED  BY <2>1
<1> HIDE DEF T, u
<1>8. n \in SourceRow  BY <1>5, <1>6 DEF SourceRow
<1>9. n.product = s.product /\ n.template = T /\ n.url = u  BY <1>5 DEF SourceRow
<1>10. n.profile = s.profile  BY <1>5 DEF SourceRow
<1>11. n.pdf = s.pdf  BY <1>5 DEF SourceRow
<1> HIDE DEF n
<1> QED  BY <1>1, <1>2, <1>3, <1>5, <1>7, <1>8, <1>9, <1>10, <1>11 DEF T, u

LEMMA CommitKeeps ==
    ASSUME ShelfInv, NEW force \in BOOLEAN, Shelf!BumpCommit(force)
    PROVE  ShelfInv'
<1>1. PICK b \in bump :
        /\ row # {}
        /\ product' = [product EXCEPT ![b.product] = [version |-> b.version,
                                                      previous |-> b.was]]
        /\ row' = {[s EXCEPT
                !.template = IF b.plan.template = b.read.template THEN @ ELSE b.plan.template,
                !.url = IF b.plan.url = b.read.url THEN @ ELSE b.plan.url] : s \in row}
        /\ settled' = (row = {b.read} /\ ~Shelf!Active /\ product[b.product].version = b.was
                       /\ ~b.plan.open)
        /\ adrift' = (adrift \/ ~b.read.profile \/ Shelf!Active)
        /\ bump' = {}
        /\ UNCHANGED <<article, run, deleted>>
  BY DEF Shelf!BumpCommit
<1>2. ShelfTypes  BY DEF ShelfInv
<1>3. /\ b \in BumpRow /\ b.product \in Products
      /\ product' \in [Products -> [version : Nat, previous : Nat]]
      /\ product'[b.product].version = b.version
      /\ \E s \in row : \E n \in SourceRow :
            /\ row = {s} /\ row' = {n} /\ n.product = s.product
            /\ n.profile = s.profile /\ n.pdf = s.pdf
            /\ n.template = IF b.plan.template = b.read.template
                            THEN s.template ELSE b.plan.template
            /\ n.url = IF b.plan.url = b.read.url THEN s.url ELSE b.plan.url
  BY <1>1, <1>2, CommitIs
<1>4. PICK s \in row, n \in SourceRow :
            /\ row = {s} /\ row' = {n} /\ n.product = s.product
            /\ n.profile = s.profile /\ n.pdf = s.pdf
            /\ n.template = IF b.plan.template = b.read.template
                            THEN s.template ELSE b.plan.template
            /\ n.url = IF b.plan.url = b.read.url THEN s.url ELSE b.plan.url
  BY <1>3
<1>5. ShelfTypes'
  <2>1. settled' \in BOOLEAN  BY <1>1
  <2>2. row' # {}  BY <1>4
  <2> QED  BY <1>1, <1>2, <1>3, <1>4, <2>1, <2>2 DEF ShelfTypes
<1>6. SettledFits'
  <2> SUFFICES ASSUME settled'
               PROVE  /\ n.url.ver = product'[n.product].version
                      /\ run' = {}
    BY <1>4 DEF SettledFits, VersionOf
  <2>1. row = {b.read} /\ run = {} /\ ~b.plan.open  BY <1>1 DEF Shelf!Active
  <2>2. s = b.read  BY <1>4, <2>1
  <2>3. b.read.product = b.product /\ b.plan.url.ver = b.version  BY <1>2, <2>1 DEF ShelfTypes
  <2>4. n.url = b.plan.url /\ n.product = b.product  BY <1>4, <2>2, <2>3
  <2> QED  BY <1>1, <1>3, <2>1, <2>3, <2>4
<1>7. IdentityFits'
  <2> SUFFICES ASSUME ~adrift'
               PROVE  /\ \A x, y \in article' : x = y
                      /\ RowFits(n)' /\ run' = {}
    BY <1>1, <1>4 DEF IdentityFits
  <2>1. ~adrift /\ b.read.profile /\ run = {}  BY <1>1 DEF Shelf!Active
  <2>2. (\A x, y \in article : x = y) /\ RowFits(s) /\ BumpFits(b, s)
    BY <1>4, <2>1 DEF ShelfInv, IdentityFits
  <2>3. n.url = b.plan.url /\ n.url.ver = b.version /\ n.url.site = s.url.site
    BY <1>4, <2>2 DEF BumpFits
  <2>4. n.template # {} /\ n.product = b.product  BY <1>4, <2>2 DEF BumpFits
  <2>5. \A t \in n.template : TemplateFits(t, n.url)
    BY <1>4, <2>2, <2>3 DEF BumpFits, RowFits, TemplateFits
  <2>6. n.profile  BY <1>4, <2>1, <2>2 DEF BumpFits
  <2>7. RowFits(n)'
    BY <1>1, <1>3, <2>2, <2>3, <2>4, <2>5, <2>6 DEF RowFits, VersionOf
  <2> QED  BY <1>1, <2>1, <2>2, <2>7
<1> QED  BY <1>5, <1>6, <1>7 DEF ShelfInv

LEMMA RefusedKeeps == ShelfInv /\ Shelf!BumpRefused => ShelfInv'
<1> SUFFICES ASSUME ShelfInv, Shelf!BumpRefused PROVE ShelfInv'  OBVIOUS
<1>1. bump' = {} /\ UNCHANGED <<product, row, article, run, settled, adrift, deleted>>
  BY DEF Shelf!BumpRefused
<1>2. ShelfTypes'  BY <1>1 DEF ShelfInv, ShelfTypes
<1>3. SettledFits'  BY <1>1 DEF ShelfInv, SettledFits, VersionOf
<1>4. IdentityFits'
  BY <1>1 DEF ShelfInv, IdentityFits, RowFits, RunFits, VersionOf
<1> QED  BY <1>2, <1>3, <1>4 DEF ShelfInv

-----------------------------------------------------------------------------
(* The catalogue: what a run keeps.                                        *)

LEMMA LoadKeeps == ShelfInv /\ Shelf!RunLoads => ShelfInv'
<1> SUFFICES ASSUME ShelfInv, Shelf!RunLoads PROVE ShelfInv'  OBVIOUS
<1>1. PICK s \in row :
         run' = {[step |-> "loaded", s |-> s, version |-> 0, quiet |-> settled]}
  BY DEF Shelf!RunLoads
<1>2. UNCHANGED <<product, row, article, bump, settled, adrift, deleted>>
  BY DEF Shelf!RunLoads
<1>3. s \in SourceRow /\ row = {s} /\ settled \in BOOLEAN  BY DEF ShelfInv, ShelfTypes
<1>4. PICK r : r = [step |-> "loaded", s |-> s, version |-> 0, quiet |-> settled]  OBVIOUS
<1>5. r \in RunRow /\ r.step = "loaded" /\ r.s = s  BY <1>3, <1>4 DEF RunRow
<1>6. run' = {r}  BY <1>1, <1>4
<1>7. ShelfTypes'  BY <1>2, <1>3, <1>5, <1>6 DEF ShelfInv, ShelfTypes
<1>8. SettledFits'
  BY <1>2, <1>3, <1>5, <1>6 DEF ShelfInv, SettledFits, VersionOf
<1>9. IdentityFits'
  <2> SUFFICES ASSUME ~adrift'
               PROVE  /\ \A x, y \in article' : x = y
                      /\ RowFits(s)' /\ (\A b \in bump' : BumpFits(b, s)') /\ RunFits(r, s)'
    BY <1>2, <1>3, <1>6 DEF IdentityFits
  <2>1. /\ \A x, y \in article : x = y
        /\ RowFits(s) /\ \A b \in bump : BumpFits(b, s)
    BY <1>2, <1>3 DEF ShelfInv, IdentityFits
  <2>2. RowFits(s)'  BY <1>2, <2>1 DEF RowFits, VersionOf
  <2>3. \A b \in bump' : BumpFits(b, s)'  BY <1>2, <2>1 DEF BumpFits
  <2>4. RunFits(r, s)'  BY <1>2, <1>5, <2>1 DEF RunFits, RowFits, VersionOf
  <2> QED  BY <1>2, <2>1, <2>2, <2>3, <2>4
<1> QED  BY <1>7, <1>8, <1>9 DEF ShelfInv

\* The template a run goes on with.
Better(s, v, profile) ==
    IF v = 0 \/ s.pdf THEN {}
    ELSE IF s.template = {} THEN Shelf!Templatize(s.url, v, profile)
    ELSE Shelf!UpgradeTemplate(Shelf!The(s.template), s.url, v, profile)

LEMMA BetterIs ==
    ASSUME NEW s \in SourceRow, NEW v \in Nat, NEW profile \in BOOLEAN, NEW T,
           T = Better(s, v, profile)
    PROVE  /\ T \in Templates
           /\ \A t \in T : TemplateFits(t, s.url) /\ (t.rev \/ ~profile \/ s.url.tok = 0)
           /\ T # {} /\ s.template = {} => s.url.ver = v
           /\ T = {} /\ s.template = {} /\ ~s.pdf => v = 0 \/ s.url.ver # v
           /\ T = {} /\ s.url.ver = v /\ ~s.pdf =>
                 \A t \in s.template : t.rev \/ ~profile \/ s.url.tok = 0
<1>1. s.url \in Place /\ s.template \in Templates  BY DEF SourceRow
<1>2. s.url.ver # 0  BY <1>1 DEF Place
<1>3. CASE v = 0 \/ s.pdf
  BY <1>2, <1>3 DEF Templates, Better
<1>4. CASE ~(v = 0 \/ s.pdf) /\ s.template = {}
  BY <1>1, <1>4, TemplatizedIs DEF Better
<1>5. CASE ~(v = 0 \/ s.pdf) /\ s.template # {}
  <2>1. Shelf!The(s.template) \in Shape /\ s.template = {Shelf!The(s.template)}
    BY <1>1, <1>5, OnlyIs
  <2> DEFINE t == Shelf!The(s.template)
  <2> HIDE DEF t
  <2>2. T = Shelf!UpgradeTemplate(t, s.url, v, profile)  BY <1>5 DEF t, Better
  <2>3. t \in Shape /\ s.template = {t}  BY <2>1 DEF t
  <2>4. /\ T \in Templates
        /\ \A x \in T : TemplateFits(x, s.url) /\ x.rev
        /\ T = {} /\ s.url.ver = v => t.rev \/ ~profile \/ s.url.tok = 0
    BY <1>1, <2>2, <2>3, UpgradedIs
  <2> QED  BY <1>5, <2>3, <2>4
<1> QED  BY <1>3, <1>4, <1>5

\* A step of a run: the row follows the copy where the copy changed.
LEMMA AdvancesKeeps ==
    ASSUME ShelfInv, NEW r \in run, NEW n \in SourceRow, NEW v \in Nat,
           NEW step \in {"versioned", "scraping"}, Shelf!Advance(r, step, n, v),
           UNCHANGED <<product, article, bump, settled, adrift, deleted>>,
           n.product = r.s.product, n.pdf = r.s.pdf,
           r.s.profile => n.profile,
           r.s.template # {} => n.template # {},
           /\ r.step = "loaded" => r.s.url.ver = VersionOf(r.s)
           /\ r.step # "loaded" => r.s.url.ver = r.version /\ r.version = VersionOf(r.s)
           => n.url.ver = v /\ v = VersionOf(r.s),
           \A s \in row : ~adrift /\ RowFits(s) /\ RunFits(r, s) =>
              /\ n.url.site = r.s.url.site
              /\ n.url # r.s.url => n.profile /\ n.template # {}
              /\ \A t \in n.template : TemplateFits(t, n.url)
              /\ n.template # {} => n.url.ver = v /\ v = VersionOf(s)
              /\ ~s.pdf => /\ n.template = {} => v = 0 \/ n.url.ver # v
                           /\ \A t \in n.template : t.rev \/ ~n.profile \/ n.url.tok = 0
    PROVE  ShelfInv'
<1>1. r \in RunRow /\ r.s \in SourceRow  BY DEF ShelfInv, ShelfTypes, RunRow
<1>2. Shelf!Writes(r.s, n) /\ \E m \in RunRow : run' = {m} /\ m.step = step /\ m.s = n /\ m.version = v
  BY <1>1, AdvanceIs
<1>3. PICK m \in RunRow : run' = {m} /\ m.step = step /\ m.s = n /\ m.version = v
  BY <1>2
<1>4. CASE row = {}
  <2>1. row' = {}  BY <1>2, <1>4 DEF Shelf!Writes
  <2>2. ShelfTypes'  BY <1>3, <1>4, <2>1 DEF ShelfInv, ShelfTypes
  <2>3. SettledFits'
    <3> SUFFICES ASSUME settled' PROVE n.url.ver = v /\ v = product'[n.product].version
      BY <1>3, <2>1 DEF SettledFits, VersionOf
    <3> QED  BY DEF ShelfInv, SettledFits, VersionOf
  <2>4. IdentityFits'  BY <2>1 DEF ShelfInv, IdentityFits
  <2> QED  BY <2>2, <2>3, <2>4 DEF ShelfInv
<1>5. ASSUME NEW s \in row PROVE ShelfInv'
  <2>1. s \in SourceRow /\ row = {s}  BY DEF ShelfInv, ShelfTypes
  <2>2. \E x \in SourceRow :
           /\ row' = {x}
           /\ x.template = IF n.template = r.s.template THEN s.template ELSE n.template
           /\ x.url = IF n.url = r.s.url THEN s.url ELSE n.url
           /\ x.profile = IF n.profile = r.s.profile THEN s.profile ELSE n.profile
           /\ x.product = s.product /\ x.pdf = s.pdf
    BY <1>1, <1>2, <2>1, WritesIs DEF ShelfInv
  <2>3. PICK x \in SourceRow :
           /\ row' = {x}
           /\ x.template = IF n.template = r.s.template THEN s.template ELSE n.template
           /\ x.url = IF n.url = r.s.url THEN s.url ELSE n.url
           /\ x.profile = IF n.profile = r.s.profile THEN s.profile ELSE n.profile
           /\ x.product = s.product /\ x.pdf = s.pdf
    BY <2>2
  <2>4. ShelfTypes'  BY <1>3, <2>3 DEF ShelfInv, ShelfTypes
  <2>5. SettledFits'
    <3> SUFFICES ASSUME settled'
                 PROVE  /\ x.url.ver = VersionOf(x) /\ x.product = n.product
                        /\ n.url.ver = v /\ v = VersionOf(n)
      BY <1>3, <2>3 DEF SettledFits, VersionOf
    <3>1. /\ s.url.ver = VersionOf(s) /\ s.product = r.s.product
          /\ r.step = "loaded" => r.s.url.ver = VersionOf(r.s)
          /\ r.step # "loaded" => r.s.url.ver = r.version /\ r.version = VersionOf(r.s)
      BY DEF ShelfInv, SettledFits
    <3>2. n.url.ver = v /\ v = VersionOf(r.s)  BY <3>1
    <3> QED  BY <2>3, <3>1, <3>2 DEF VersionOf
  <2>6. IdentityFits'
    <3> SUFFICES ASSUME ~adrift'
                 PROVE  /\ \A y, z \in article' : y = z
                        /\ RowFits(x)' /\ (\A b \in bump' : BumpFits(b, x)') /\ RunFits(m, x)'
      BY <1>3, <2>3 DEF IdentityFits
    <3>1. /\ \A y, z \in article : y = z
          /\ ~adrift /\ RowFits(s) /\ (\A b \in bump : BumpFits(b, s)) /\ RunFits(r, s)
      BY <2>1 DEF ShelfInv, IdentityFits
    <3>2. /\ n.url.site = r.s.url.site
          /\ n.url # r.s.url => n.profile /\ n.template # {}
          /\ \A t \in n.template : TemplateFits(t, n.url)
          /\ n.template # {} => n.url.ver = v /\ v = VersionOf(s)
          /\ ~s.pdf => /\ n.template = {} => v = 0 \/ n.url.ver # v
                       /\ \A t \in n.template : t.rev \/ ~n.profile \/ n.url.tok = 0
      BY <3>1
    <3>3. /\ x.url = n.url /\ x.url.site = s.url.site
          /\ x.profile = n.profile
          /\ s.profile => x.profile
          /\ x.pdf = n.pdf /\ x.product = n.product
      <4>1. r.s.url = s.url /\ r.s.product = s.product /\ r.s.profile = s.profile /\ r.s.pdf = s.pdf
        BY <3>1 DEF RunFits
      <4>2. x.url = n.url /\ x.url.site = s.url.site  BY <2>3, <3>2, <4>1
      <4>3. x.profile = n.profile  BY <2>3, <4>1
      <4>4. s.profile => x.profile  BY <4>1, <4>3
      <4>5. x.pdf = n.pdf /\ x.product = n.product  BY <2>3, <4>1
      <4> QED  BY <4>2, <4>3, <4>4, <4>5
    <3>4. /\ r.s.template # {} => s.template # {}
          /\ s.template # {} => x.template # {}
          /\ n.template # {} => x.template # {}
      <4>1. r.s.template # {} => s.template # {}  BY <3>1 DEF RunFits
      <4> QED  BY <2>3, <4>1
    <3>5. \A t \in x.template : TemplateFits(t, x.url)
      <4>1. x.url.site = n.url.site  BY <3>3
      <4> QED  BY <2>3, <3>1, <3>2, <3>3, <4>1 DEF RowFits, TemplateFits
    <3>6. /\ x.template # {} => x.url.ver = VersionOf(s)
          /\ ~x.profile \/ x.template = {} => s.url = n.url /\ (~s.profile \/ s.template = {})
      <4>1. s.url = r.s.url /\ s.profile = r.s.profile  BY <3>1 DEF RunFits
      <4>2. ASSUME x.template # {} PROVE x.url.ver = VersionOf(s)
        <5>1. CASE n.template # {}  BY <3>2, <3>3, <5>1
        <5>2. CASE n.template = {}
          <6>1. n.url = s.url /\ n.template = r.s.template  BY <3>2, <4>1, <5>2
          <6>2. s.template # {}  BY <2>3, <4>2, <6>1
          <6> QED  BY <3>1, <3>3, <6>1, <6>2 DEF RowFits
        <5> QED  BY <5>1, <5>2
      <4>3. ASSUME ~x.profile \/ x.template = {}
            PROVE  s.url = n.url /\ (~s.profile \/ s.template = {})
        BY <3>2, <3>3, <3>4, <4>1, <4>3
      <4> QED  BY <4>2, <4>3
    <3>7. RowFits(x)'
      <4>1. \A a \in article : a.live /\ a.url.site = x.url.site  BY <3>1, <3>3 DEF RowFits
      <4>2. ~x.profile \/ x.template = {} => \A a \in article : a.url = x.url
        BY <3>1, <3>3, <3>6 DEF RowFits
      <4>3. x.template # {} => x.url.ver = product'[x.product].version
        BY <2>3, <3>6 DEF VersionOf
      <4> QED  BY <3>5, <4>1, <4>2, <4>3 DEF RowFits, VersionOf
    <3>8. \A b \in bump' : BumpFits(b, x)'
      <4> SUFFICES ASSUME NEW b \in bump PROVE BumpFits(b, x)'  OBVIOUS
      <4>1. BumpFits(b, s)  BY <3>1
      <4>2. \A t \in b.plan.template : TemplateFits(t, x.url)
        BY <3>3, <4>1 DEF BumpFits, TemplateFits
      <4>3. s.profile => x.profile  BY <3>3
      <4>4. x.product = s.product  BY <2>3
      <4> QED  BY <3>3, <3>4, <4>1, <4>2, <4>3, <4>4 DEF BumpFits
    <3>9. RunFits(m, x)'
      <4>1. m.s = n /\ m.step # "loaded" /\ m.version = v  BY <1>3
      <4>2. ~n.profile \/ n.template = {} => \A a \in article : a.url = x.url
        <5> SUFFICES ASSUME ~n.profile \/ n.template = {}
                     PROVE  \A a \in article : a.url = x.url
          OBVIOUS
        <5>1. x.url = r.s.url /\ r.s.url = s.url  BY <3>1, <3>2, <3>3 DEF RunFits
        <5>2. ~r.s.profile \/ r.s.template = {}  OBVIOUS
        <5> QED  BY <3>1, <5>1, <5>2 DEF RunFits
      <4>3. /\ n.template # {} => x.url.ver = v /\ v = VersionOf(s)
            /\ \A t \in n.template : TemplateFits(t, x.url)
        BY <3>2, <3>3
      <4>4. ~x.pdf => /\ n.template = {} => v = 0 \/ x.url.ver # v
                      /\ \A t \in n.template : t.rev \/ ~x.profile \/ x.url.tok = 0
        BY <2>3, <3>2, <3>3
      <4>5. x.product = s.product  BY <2>3
      <4>6. n.template # {} => x.url.ver = v /\ v = product'[x.product].version
        BY <4>3, <4>5 DEF VersionOf
      <4> QED  BY <3>3, <3>4, <4>1, <4>2, <4>3, <4>4, <4>6 DEF RunFits, VersionOf
    <3> QED  BY <3>1, <3>7, <3>8, <3>9
  <2> QED  BY <2>4, <2>5, <2>6 DEF ShelfInv
<1> QED  BY <1>4, <1>5

LEMMA ReadsKeeps ==
    ASSUME ShelfInv, NEW detected \in BOOLEAN, Shelf!RunReadsVersion(detected)
    PROVE  ShelfInv'
<1>1. PICK r \in run :
        /\ r.step = "loaded"
        /\ LET v == product[r.s.product].version
               profile == r.s.profile \/ (detected /\ ~r.s.pdf)
               better == IF v = 0 \/ r.s.pdf THEN {}
                         ELSE IF r.s.template = {} THEN Shelf!Templatize(r.s.url, v, profile)
                         ELSE Shelf!UpgradeTemplate(Shelf!The(r.s.template), r.s.url, v, profile)
           IN  Shelf!Advance(r, "versioned", [r.s EXCEPT !.profile = profile,
                       !.template = IF better = {} THEN @ ELSE better], v)
        /\ UNCHANGED <<product, article, bump, edits, settled, adrift, deleted>>
  BY DEF Shelf!RunReadsVersion
<1>2. r \in RunRow /\ r.s \in SourceRow /\ r.s.product \in Products
  BY DEF ShelfInv, ShelfTypes, RunRow, SourceRow
<1>3. PICK v \in Nat : v = VersionOf(r.s)
  BY <1>2 DEF ShelfInv, ShelfTypes, VersionOf
<1>4. PICK profile \in BOOLEAN : profile = (r.s.profile \/ (detected /\ ~r.s.pdf))
  OBVIOUS
<1>5. PICK T : T = Better(r.s, v, profile)  OBVIOUS
<1>6. PICK best : best = IF T = {} THEN r.s.template ELSE T  OBVIOUS
<1>7. Shelf!Advance(r, "versioned", [r.s EXCEPT !.profile = profile, !.template = best], v)
  BY <1>1, <1>3, <1>4, <1>5, <1>6 DEF VersionOf, Better
<1>8. /\ T \in Templates
      /\ \A t \in T : TemplateFits(t, r.s.url) /\ (t.rev \/ ~profile \/ r.s.url.tok = 0)
      /\ T # {} /\ r.s.template = {} => r.s.url.ver = v
      /\ T = {} /\ r.s.template = {} /\ ~r.s.pdf => v = 0 \/ r.s.url.ver # v
      /\ T = {} /\ r.s.url.ver = v /\ ~r.s.pdf =>
            \A t \in r.s.template : t.rev \/ ~profile \/ r.s.url.tok = 0
  <2>1. PICK z \in SourceRow : z = r.s  BY <1>2
  <2>2. profile \in BOOLEAN  BY <1>4
  <2>3. T = Better(z, v, profile)  BY <1>5, <2>1
  <2>4. v \in Nat  BY <1>3
  <2>5. /\ T \in Templates
        /\ \A t \in T : TemplateFits(t, z.url) /\ (t.rev \/ ~profile \/ z.url.tok = 0)
        /\ T # {} /\ z.template = {} => z.url.ver = v
        /\ T = {} /\ z.template = {} /\ ~z.pdf => v = 0 \/ z.url.ver # v
        /\ T = {} /\ z.url.ver = v /\ ~z.pdf =>
              \A t \in z.template : t.rev \/ ~profile \/ z.url.tok = 0
    BY <2>2, <2>3, <2>4, BetterIs
  <2> QED  BY <2>1, <2>5
<1>9. best \in Templates  BY <1>2, <1>6, <1>8 DEF SourceRow
<1>10. PICK n : n = [r.s EXCEPT !.profile = profile, !.template = best]  OBVIOUS
<1>11. n \in SourceRow  BY <1>2, <1>9, <1>10 DEF SourceRow
<1>12. n.template = best /\ n.url = r.s.url /\ n.product = r.s.product  BY <1>2, <1>10 DEF SourceRow
<1>13. n.profile = profile  BY <1>2, <1>10 DEF SourceRow
<1>14. n.pdf = r.s.pdf  BY <1>2, <1>10 DEF SourceRow
<1>15. r.s.profile => n.profile  BY <1>4, <1>13
<1>16. r.s.template # {} => n.template # {}  BY <1>6, <1>12
<1>17. ASSUME NEW s \in row, ~adrift, RowFits(s), RunFits(r, s)
       PROVE  /\ \A t \in n.template : TemplateFits(t, n.url)
              /\ n.template # {} => n.url.ver = v /\ v = VersionOf(s)
              /\ ~s.pdf => /\ n.template = {} => v = 0 \/ n.url.ver # v
                           /\ \A t \in n.template : t.rev \/ ~n.profile \/ n.url.tok = 0
  <2>1. \A t \in n.template : TemplateFits(t, n.url)
    BY <1>6, <1>8, <1>12, <1>17 DEF RunFits
  <2>2. v = VersionOf(s)  BY <1>3, <1>17 DEF RunFits, VersionOf
  <2>3. r.s.template # {} => s.url.ver = v /\ r.s.url.ver = v
    BY <1>17, <2>2 DEF RunFits, RowFits
  <2>4. n.template # {} => n.url.ver = v  BY <1>6, <1>8, <1>12, <2>3
  <2>5. ~s.pdf => ~r.s.pdf  BY <1>17 DEF RunFits
  <2>6. ~s.pdf => (n.template = {} => v = 0 \/ n.url.ver # v)
    BY <1>6, <1>8, <1>12, <2>5
  <2>7. ~s.pdf => \A t \in n.template : t.rev \/ ~n.profile \/ n.url.tok = 0
    BY <1>6, <1>8, <1>12, <1>13, <2>3, <2>5
  <2> QED  BY <2>1, <2>2, <2>4, <2>6, <2>7
<1>18. n.url.site = r.s.url.site /\ (n.url # r.s.url => n.profile /\ n.template # {})  BY <1>12
<1>19. r.s.url.ver = VersionOf(r.s) => n.url.ver = v /\ v = VersionOf(r.s)  BY <1>3, <1>12
<1>20. r.step = "loaded" /\ UNCHANGED <<product, article, bump, settled, adrift, deleted>>
  BY <1>1
<1>21. Shelf!Advance(r, "versioned", n, v)  BY <1>7, <1>10
<1> QED
  BY <1>11, <1>12, <1>14, <1>15, <1>16, <1>17, <1>18, <1>19, <1>20, <1>21, AdvancesKeeps

LEMMA RefreshKeeps ==
    ASSUME ShelfInv, NEW found \in BOOLEAN, Shelf!RunRefreshesRevision(found)
    PROVE  ShelfInv'
<1>1. PICK r \in run :
        /\ r.step = "versioned"
        /\ LET t == r.s.template
               token == IF found /\ r.s.profile /\ r.version # 0 /\ t # {} /\ Shelf!The(t).rev
                        THEN Shelf!Token(Shelf!The(t).site, r.version) ELSE 0
           IN  Shelf!Advance(r, "scraping", [r.s EXCEPT !.url =
                       IF token = 0 THEN @ ELSE Shelf!ResolveTemplate(Shelf!The(t), r.version, token)],
                       r.version)
        /\ UNCHANGED <<product, article, bump, edits, settled, adrift, deleted>>
  BY DEF Shelf!RunRefreshesRevision
<1>2. r \in RunRow /\ r.s \in SourceRow /\ r.version \in Nat
  BY DEF ShelfInv, ShelfTypes, RunRow
<1>3. r.s.template \in Templates /\ r.s.url \in Place  BY <1>2 DEF SourceRow
<1>4. PICK t : t = Shelf!The(r.s.template)  OBVIOUS
<1>5. PICK token : token =
         IF found /\ r.s.profile /\ r.version # 0 /\ r.s.template # {} /\ t.rev
         THEN Shelf!Token(t.site, r.version) ELSE 0
  OBVIOUS
<1>6. PICK u : u = IF token = 0 THEN r.s.url ELSE Shelf!ResolveTemplate(t, r.version, token)
  OBVIOUS
<1>7. PICK n : n = [r.s EXCEPT !.url = u]  OBVIOUS
<1>8. Shelf!Advance(r, "scraping", n, r.version)
  BY <1>1, <1>4, <1>5, <1>6, <1>7
<1>9. token # 0 =>
        /\ r.s.profile /\ r.version # 0 /\ r.s.template = {t} /\ t.rev
        /\ t \in Shape /\ t.site \in Minting /\ token \in Nat
  BY <1>2, <1>3, <1>4, <1>5, OnlyIs DEF Shelf!Token
<1>10. /\ u \in Place
       /\ token # 0 => u.site = t.site /\ u.ver = r.version
       /\ token = 0 => u = r.s.url
  BY <1>2, <1>3, <1>6, <1>9, ResolvedIs
<1>11. n \in SourceRow  BY <1>2, <1>7, <1>10 DEF SourceRow
<1>12. n.url = u /\ n.product = r.s.product /\ n.template = r.s.template  BY <1>2, <1>7 DEF SourceRow
<1>13. n.profile = r.s.profile  BY <1>2, <1>7 DEF SourceRow
<1>14. n.pdf = r.s.pdf  BY <1>2, <1>7 DEF SourceRow
<1>15. ASSUME NEW s \in row, ~adrift, RowFits(s), RunFits(r, s)
       PROVE  /\ n.url.site = r.s.url.site
              /\ n.url # r.s.url => n.profile /\ n.template # {}
              /\ \A x \in n.template : TemplateFits(x, n.url)
              /\ n.template # {} => n.url.ver = r.version /\ r.version = VersionOf(s)
              /\ ~s.pdf => /\ n.template = {} => r.version = 0 \/ n.url.ver # r.version
                           /\ \A x \in n.template : x.rev \/ ~n.profile \/ n.url.tok = 0
  <2>1. r.step # "loaded" /\ r.s.url = s.url /\ \A x \in r.s.template : TemplateFits(x, s.url)
    BY <1>1, <1>15 DEF RunFits
  <2>2. r.s.template # {} => s.url.ver = r.version /\ r.version = VersionOf(s)
    BY <1>15, <2>1 DEF RunFits
  <2>3. n.url.site = s.url.site /\ (n.template # {} => n.url.ver = r.version)
    BY <1>9, <1>10, <1>12, <2>1, <2>2 DEF TemplateFits
  <2>4. n.url # r.s.url => n.profile /\ n.template # {}
    BY <1>9, <1>10, <1>12, <1>13
  <2>5. \A x \in n.template : TemplateFits(x, n.url)
    BY <1>12, <2>1, <2>3 DEF TemplateFits
  <2>6. ASSUME ~s.pdf
        PROVE  /\ n.template = {} => r.version = 0 \/ n.url.ver # r.version
               /\ \A x \in n.template : x.rev \/ ~n.profile \/ n.url.tok = 0
    <3>1. /\ r.s.template = {} => r.version = 0 \/ s.url.ver # r.version
          /\ \A x \in r.s.template : x.rev \/ ~s.profile \/ s.url.tok = 0
      BY <1>15, <2>1, <2>6 DEF RunFits
    <3>2. r.s.profile = s.profile  BY <1>15 DEF RunFits
    <3>3. CASE token = 0  BY <1>10, <1>12, <1>13, <2>1, <3>1, <3>2, <3>3
    <3>4. CASE token # 0  BY <1>9, <1>12, <3>4
    <3> QED  BY <3>3, <3>4
  <2> QED  BY <1>12, <2>1, <2>2, <2>3, <2>4, <2>5, <2>6
<1>16. r.s.url.ver = r.version /\ r.version = VersionOf(r.s) =>
         n.url.ver = r.version /\ r.version = VersionOf(r.s)
  BY <1>9, <1>10, <1>12
<1>17. r.step = "versioned" /\ UNCHANGED <<product, article, bump, settled, adrift, deleted>>
  BY <1>1
<1>18. (r.s.profile => n.profile) /\ (r.s.template # {} => n.template # {})  BY <1>12, <1>13
<1> QED
  BY <1>2, <1>8, <1>11, <1>12, <1>14, <1>15, <1>16, <1>17, <1>18, AdvancesKeeps

\* The key of a page.
LEMMA KeyIs ==
    ASSUME NEW u \in Place, NEW T, NEW v \in Nat
    PROVE  Shelf!DeriveTopicKey(u, T, v) \in TopicKey
  BY VersionsAssumption DEF Shelf!DeriveTopicKey, TopicKey, Place, Shelf!Rev, Shelf!Hole

LEMMA ShelfCardinality == \A S : Shelf!Cardinality(S) = Cardinality(S)
  BY Zenon DEF Shelf!Cardinality, Cardinality

LEMMA MatchingIs ==
    ASSUME NEW u, NEW topic, NEW a, article = {a}, a.live,
           a.url = u \/ Shelf!Fits(a.url, topic)
    PROVE  Shelf!Matching(u, topic) = article
<1> DEFINE byKey == {x \in article : x.key = topic}
           byUrl == {x \in article : x.live /\ x.url = u}
           byShape == {x \in article : x.live /\ Shelf!Fits(x.url, topic)}
<1>1. Shelf!Cardinality(article) = 1  BY FS_Singleton, ShelfCardinality
<1>2. /\ byKey = {} \/ byKey = article
      /\ byUrl = {} \/ byUrl = article
      /\ byShape = {} \/ byShape = article
  OBVIOUS
<1>3. byUrl = article \/ byShape = article  OBVIOUS
<1>4. Shelf!Cardinality({}) = 0  BY FS_EmptySet, ShelfCardinality
<1>5. Shelf!Matching(u, topic) =
        IF byKey # {} THEN byKey
        ELSE IF Shelf!Cardinality(byUrl) = 1 THEN byUrl
        ELSE IF Shelf!Cardinality(byShape) = 1 THEN byShape
        ELSE {}
  BY DEF Shelf!Matching
<1> HIDE DEF byKey, byUrl, byShape
<1>6. CASE byKey # {}  BY <1>2, <1>5, <1>6
<1>7. CASE byKey = {} /\ byUrl # {}
  BY <1>1, <1>2, <1>4, <1>5, <1>7
<1>8. CASE byKey = {} /\ byUrl = {}
  <2>1. Shelf!Cardinality(byUrl) = 0 /\ Shelf!Cardinality(byShape) = 1
    BY <1>1, <1>2, <1>3, <1>4, <1>8
  <2> QED  BY <1>2, <1>3, <1>5, <1>8, <2>1
<1> QED  BY <1>6, <1>7, <1>8

\* Where nothing went adrift, the page's article is matched.
LEMMA PageIsMatched ==
    ASSUME ShelfTypes, NEW s \in row, NEW r \in run, RowFits(s), RunFits(r, s),
           \A x, y \in article : x = y, article # {},
           r.step # "loaded", ~s.pdf, r.s.url.tok = Shelf!Token(r.s.url.site, r.s.url.ver)
    PROVE  Shelf!Matching(r.s.url, Shelf!DeriveTopicKey(r.s.url, r.s.template, r.version)) = article
<1> DEFINE topic == Shelf!DeriveTopicKey(r.s.url, r.s.template, r.version)
<1>1. PICK a \in article : article = {a}  OBVIOUS
<1>2. a.live /\ a.url.site = s.url.site /\ r.s.url = s.url  BY DEF RowFits, RunFits
<1>3. a \in PageRow /\ a.url \in Place /\ s.url \in Place /\ r \in RunRow
  BY DEF ShelfTypes, PageRow, SourceRow
<1>4. r.s.template \in Templates /\ r.version \in Nat  BY <1>3 DEF RunRow, SourceRow
<1>5. CASE ~s.profile \/ r.s.template = {}
  <2>1. a.url = r.s.url  BY <1>2, <1>5 DEF RunFits
  <2> QED  BY <1>1, <1>2, <2>1, MatchingIs
<1>6. CASE s.profile /\ r.s.template # {}
  <2>1. PICK t \in Shape : r.s.template = {t}  BY <1>4, <1>6, OnlyIs
  <2>2. TemplateFits(t, s.url) /\ s.url.ver = r.version  BY <1>6, <2>1 DEF RunFits
  <2>3. r.version # 0  BY <1>3, <2>2 DEF Place
  <2>4. t.rev \/ s.url.tok = 0  BY <1>6, <2>1 DEF RunFits
  <2>5. topic.ver = Shelf!Hole /\ topic.site = s.url.site
    BY <1>2, <2>2 DEF Shelf!DeriveTopicKey
  <2>6. topic.tok \in {Shelf!Rev, a.url.tok}
    <3>1. CASE t.rev
      <4>1. s.url.tok # 0  BY <1>3, <2>2, <3>1 DEF TemplateFits, Place
      <4>2. Shelf!ExtractRevision(s.url, t, r.version) # 0
        BY <2>2, <3>1, <4>1 DEF Shelf!ExtractRevision, TemplateFits
      <4> QED  BY <1>2, <2>1, <2>3, <4>2 DEF Shelf!DeriveTopicKey
    <3>2. CASE ~t.rev
      <4>1. s.url.tok = 0 /\ s.url.site \notin Minting  BY <1>3, <2>4, <3>2 DEF Place
      <4>2. a.url.tok = 0  BY <1>2, <1>3, <4>1 DEF Place
      <4> QED  BY <1>2, <4>1, <4>2 DEF Shelf!DeriveTopicKey
    <3> QED  BY <3>1, <3>2
  <2> HIDE DEF topic
  <2>7. Shelf!Fits(a.url, topic)  BY <1>2, <2>5, <2>6 DEF Shelf!Fits
  <2> QED  BY <1>1, <1>2, <2>7, MatchingIs DEF topic
<1> QED  BY <1>5, <1>6 DEF RunFits

LEMMA ScrapeKeeps == ShelfInv /\ Shelf!RunScrapes => ShelfInv'
<1> SUFFICES ASSUME ShelfInv, Shelf!RunScrapes PROVE ShelfInv'  OBVIOUS
<1>1. PICK r \in run :
        /\ r.step = "scraping" /\ ~r.s.pdf /\ row # {}
        /\ r.s.url.tok = Shelf!Token(r.s.url.site, r.s.url.ver)
        /\ LET u == r.s.url
               topic == Shelf!DeriveTopicKey(u, r.s.template, r.version)
               same == Shelf!Matching(u, topic)
           IN  article' = {[a EXCEPT !.live = FALSE] : a \in article \ same}
                             \cup {[key |-> topic, url |-> u, live |-> TRUE]}
        /\ run' = {}
        /\ UNCHANGED <<product, row, bump, edits, settled, adrift, deleted>>
  BY DEF Shelf!RunScrapes
<1>2. r \in RunRow /\ r.s \in SourceRow /\ r.version \in Nat /\ r.s.url \in Place
  BY DEF ShelfInv, ShelfTypes, RunRow, SourceRow
<1>3. PICK topic : topic = Shelf!DeriveTopicKey(r.s.url, r.s.template, r.version)  OBVIOUS
<1>4. PICK same : same = Shelf!Matching(r.s.url, topic)  OBVIOUS
<1>5. PICK n : n = [key |-> topic, url |-> r.s.url, live |-> TRUE]  OBVIOUS
<1>6. article' = {[a EXCEPT !.live = FALSE] : a \in article \ same} \cup {n}
  BY <1>1, <1>3, <1>4, <1>5
<1>7. topic \in TopicKey  BY <1>2, <1>3, KeyIs
<1>8. n \in PageRow /\ n.url = r.s.url /\ n.live  BY <1>2, <1>5, <1>7 DEF PageRow
<1>9. \A a \in article : [a EXCEPT !.live = FALSE] \in PageRow
  <2> SUFFICES ASSUME NEW a \in PageRow PROVE [a EXCEPT !.live = FALSE] \in PageRow
    BY DEF ShelfInv, ShelfTypes
  <2> QED  BY DEF PageRow
<1>10. ShelfTypes'
  <2>1. article' \subseteq PageRow  BY <1>6, <1>8, <1>9
  <2> QED  BY <1>1, <2>1 DEF ShelfInv, ShelfTypes
<1>11. SettledFits'  BY <1>1 DEF ShelfInv, SettledFits, VersionOf
<1>12. IdentityFits'
  <2> SUFFICES ASSUME ~adrift', NEW s \in row
               PROVE  article' = {n} /\ RowFits(s)' /\ \A b \in bump : BumpFits(b, s)'
    BY <1>1 DEF IdentityFits
  <2>1. /\ \A x, y \in article : x = y
        /\ RowFits(s) /\ (\A b \in bump : BumpFits(b, s)) /\ RunFits(r, s)
    BY <1>1 DEF ShelfInv, IdentityFits
  <2>2. r.s.url = s.url /\ ~s.pdf  BY <1>1, <2>1 DEF RunFits
  <2>3. article \subseteq same
    <3>1. CASE article = {}  BY <3>1
    <3>2. CASE article # {}
      <4>1. r.step # "loaded"  BY <1>1
      <4>2. same = article
        BY <1>1, <1>3, <1>4, <2>1, <2>2, <3>2, <4>1, PageIsMatched DEF ShelfInv
      <4> QED  BY <4>2
    <3> QED  BY <3>1, <3>2
  <2>4. article' = {n}  BY <1>6, <2>3
  <2>5. RowFits(s)'  BY <1>1, <1>8, <2>1, <2>2, <2>4 DEF RowFits, VersionOf
  <2>6. \A b \in bump : BumpFits(b, s)'  BY <2>1 DEF BumpFits
  <2> QED  BY <2>4, <2>5, <2>6
<1> QED  BY <1>10, <1>11, <1>12 DEF ShelfInv

LEMMA EndKeeps == ShelfInv /\ Shelf!RunEnds => ShelfInv'
<1> SUFFICES ASSUME ShelfInv, Shelf!RunEnds PROVE ShelfInv'  OBVIOUS
<1>1. run' = {} /\ UNCHANGED <<product, row, article, bump, settled, adrift, deleted>>
  BY DEF Shelf!RunEnds
<1>2. ShelfTypes'  BY <1>1 DEF ShelfInv, ShelfTypes
<1>3. SettledFits'  BY <1>1 DEF ShelfInv, SettledFits, VersionOf
<1>4. IdentityFits'
  BY <1>1 DEF ShelfInv, IdentityFits, RowFits, BumpFits, VersionOf
<1> QED  BY <1>2, <1>3, <1>4 DEF ShelfInv

LEMMA ShelfKept == ShelfInv /\ Shelf!Next => ShelfInv'
<1> SUFFICES ASSUME ShelfInv, Shelf!Next PROVE ShelfInv'  OBVIOUS
<1>1. CASE \E p \in Products, u \in Shelf!Url :
             \/ \E t \in {{}} \cup {{x} : x \in Shelf!Template} :
                   Shelf!CreateSource(p, u, t) \/ Shelf!ImportSource(p, u, t)
             \/ Shelf!CreatePdfSource(p, u)
  <2>1. {} \in {{}} \cup {{x} : x \in Shelf!Template}  OBVIOUS
  <2> QED  BY <1>1, <2>1, CreateKeeps
<1>2. CASE \E url \in {{}} \cup {{u} : u \in Shelf!Url}, p \in {{}} \cup {{q} : q \in Products},
             template \in {{}, {{}}} \cup {{{t}} : t \in Shelf!Template},
             profile \in {{}, {TRUE}, {FALSE}} : Shelf!UpdateSource(url, p, template, profile)
  <2>1. PICK url \in UrlsSent, p \in ProductsSent, template \in TemplatesSent,
             profile \in ProfilesSent : Shelf!UpdateSource(url, p, template, profile)
    BY <1>2 DEF UrlsSent, ProductsSent, TemplatesSent, ProfilesSent
  <2> QED  BY <2>1, UpdateSourceKeeps
<1>3. CASE \E p \in Products, v \in Shelf!Versions :
             \/ Shelf!EnableVersioning(p, v)
             \/ \E found \in BOOLEAN : Shelf!BumpPlan(p, v, found)
  BY <1>3, EnableKeeps, BumpPlanKeeps
<1>4. CASE \E force \in BOOLEAN : Shelf!BumpCommit(force)  BY <1>4, CommitKeeps
<1>5. CASE \E b \in BOOLEAN : Shelf!RunReadsVersion(b) \/ Shelf!RunRefreshesRevision(b)
  BY <1>5, ReadsKeeps, RefreshKeeps
<1>6. CASE Shelf!DeleteSource \/ Shelf!BumpRefused
  BY <1>6, DeleteSourceKeeps, RefusedKeeps
<1>7. CASE Shelf!RunLoads \/ Shelf!RunScrapes \/ Shelf!RunEnds
  BY <1>7, LoadKeeps, ScrapeKeeps, EndKeeps
<1> HIDE DEF ShelfInv
<1> QED  BY <1>1, <1>2, <1>3, <1>4, <1>5, <1>6, <1>7 DEF Shelf!Next

-----------------------------------------------------------------------------
(* The catalogue: the theorems.                                            *)

LEMMA ShelfStays == ServicesSpec => [](part = "catalogue" => ShelfInv)
<1> DEFINE I == part = "catalogue" => ShelfInv
<1>1. ServicesInit => I
  BY ShelfStarts DEF ServicesInit
<1>2. I /\ [ServicesNext]_serviceVars => I'
  <2> SUFFICES ASSUME I, [ServicesNext]_serviceVars, part' = "catalogue" PROVE ShelfInv'
    OBVIOUS
  <2>1. CASE UNCHANGED serviceVars
    <3>1. UNCHANGED catalogueVars /\ ShelfInv  BY <2>1 DEF serviceVars
    <3>2. UNCHANGED <<product, row, article, bump, run, settled, adrift, deleted>>
      BY <3>1 DEF catalogueVars
    <3>3. ShelfTypes'  BY <3>1, <3>2 DEF ShelfInv, ShelfTypes
    <3>4. SettledFits'  BY <3>1, <3>2 DEF ShelfInv, SettledFits, VersionOf
    <3>5. IdentityFits'
      BY <3>1, <3>2 DEF ShelfInv, IdentityFits, RowFits, BumpFits, RunFits, VersionOf
    <3> QED  BY <3>3, <3>4, <3>5 DEF ShelfInv
  <2>2. CASE ServicesNext
    <3>1. Shelf!Next /\ ShelfInv  BY <2>2 DEF ServicesNext
    <3> QED  BY <3>1, ShelfKept
  <2> QED  BY <2>1, <2>2
<1> QED  BY <1>1, <1>2, PTL DEF ServicesSpec

\* A run that goes over the pages after a bump that nobody raced is at the URL of the
\* release it is tagged with, whichever template was upgraded and whichever token was
\* resolved or carried (bump_version, then extract_source on the row as it was loaded).
THEOREM RunsScrapeTheirVersion == ServicesSpec => []RunScrapesItsVersion
<1> DEFINE I == part = "catalogue" => ShelfInv
<1>1. I => RunScrapesItsVersion
  BY DEF RunScrapesItsVersion, Shelf!RunScrapesItsVersion, ShelfInv, SettledFits
<1> QED  BY <1>1, ShelfStays, PTL

\* A page stays one article over any number of releases, bumps, re-loads and runs, in any
\* order of their steps, as long as nothing went adrift: its key, its URL or the shape of
\* its key finds the stored copy again (process_article_result).
THEOREM PagesStayOne == ServicesSpec => []OneIdentity
<1> DEFINE I == part = "catalogue" => ShelfInv
<1>1. I => OneIdentity
  BY DEF OneIdentity, Shelf!OneIdentity, ShelfInv, IdentityFits
<1> QED  BY <1>1, ShelfStays, PTL

-----------------------------------------------------------------------------
(* The session of a login realm: types.                                    *)

Busy == {"jit", "loggedin", "relogin"}
LoginRow == [run : Run \cup {NoRun}, kind : {"jit", "wall", "user"}, at : Int, done : Int,
             outcome : {"ok", "rejected", "outage"}, kept : BOOLEAN]
Session(pcs) == [run : Run \cup {NoRun}, pc : pcs, loaded : Row, copy : Row]
LaneRow == Session({"free", "works"} \cup Busy)

RealmTypes ==
    /\ clock \in Nat /\ realm \in Row
    /\ created \in [Firing -> Int]
    /\ phase = [r \in Run |-> phase[r]]
    /\ lane \in [Worker -> LaneRow]
    /\ human \in Session({"free", "login"})
    /\ logins \in Seq(LoginRow)

LEMMA BlankIs == Blank \in Row /\ Free \in LaneRow /\ Free \in Session({"free", "login"})
<1>1. Blank \in Row  BY DEF Blank, Row, Status, Never
<1> QED  BY <1>1 DEF Free, LaneRow, Session, NoRun

\* A commit writes the columns that the session changed.
LEMMA MergeIs ==
    ASSUME NEW x \in Row, NEW l \in Row, NEW c \in Row
    PROVE  /\ Merge(x, l, c) \in Row
           /\ Merge(x, l, c).attempt = IF c.attempt # l.attempt THEN c.attempt ELSE x.attempt
           /\ Merge(x, l, c).login = IF c.login # l.login THEN c.login ELSE x.login
<1> DEFINE m == Merge(x, l, c)
<1>1. DOMAIN x = {"status", "creds", "expires", "attempt", "login"}  BY DEF Row
<1>2. m = [k \in {"status", "creds", "expires", "attempt", "login"} |->
             IF c[k] # l[k] THEN c[k] ELSE x[k]]
  BY <1>1 DEF Merge
<1>3. m = [status |-> m.status, creds |-> m.creds, expires |-> m.expires,
           attempt |-> m.attempt, login |-> m.login]
  BY <1>2
<1>4. /\ m.status \in Status /\ m.creds \in BOOLEAN /\ m.expires \in Int
      /\ m.attempt \in Int /\ m.login \in Int
  BY <1>2 DEF Row
<1>5. m \in Row  BY <1>3, <1>4 DEF Row
<1> QED  BY <1>2, <1>5

LEMMA AfterLoginIs ==
    ASSUME clock \in Nat, NEW c \in Row, NEW o \in {"ok", "rejected", "outage"}, NEW life \in Nat
    PROVE  /\ AfterLogin(c, o, life) \in Row
           /\ AfterLogin(c, o, life).attempt = c.attempt
           /\ AfterLogin(c, o, life).login = IF o = "ok" THEN clock ELSE c.login
<1>1. CASE o = "ok"
  <2>1. AfterLogin(c, o, life) =
          [c EXCEPT !.status = "active", !.expires = clock + life, !.login = clock]
    BY <1>1 DEF AfterLogin
  <2>2. clock + life \in Int /\ clock \in Int /\ "active" \in Status  BY DEF Status
  <2> QED  BY <1>1, <2>1, <2>2 DEF Row
<1>2. CASE o = "rejected"
  <2>1. AfterLogin(c, o, life) = [c EXCEPT !.status = "login_failed"]
    BY <1>2 DEF AfterLogin
  <2> QED  BY <1>2, <2>1 DEF Row, Status
<1>3. CASE o = "outage" /\ c.status # "login_failed"
  <2>1. AfterLogin(c, o, life) = [c EXCEPT !.status = "expired"]
    BY <1>3 DEF AfterLogin
  <2> QED  BY <1>3, <2>1 DEF Row, Status
<1>4. CASE o = "outage" /\ c.status = "login_failed"
  <2>1. AfterLogin(c, o, life) = c  BY <1>4 DEF AfterLogin
  <2> QED  BY <1>4, <2>1 DEF Row
<1> QED  BY <1>1, <1>2, <1>3, <1>4

LEMMA RowHas == \A c \in Row : c.attempt \in Int /\ c.login \in Int
  BY DEF Row

LEMMA SessionsAre ==
    ASSUME RealmTypes
    PROVE  /\ \A w \in Worker : /\ lane[w].loaded \in Row /\ lane[w].copy \in Row
                                /\ lane[w].run \in Run \cup {NoRun}
           /\ human.loaded \in Row /\ human.copy \in Row /\ human.run \in Run \cup {NoRun}
           /\ realm.attempt \in Int /\ realm.login \in Int
<1>1. \A w \in Worker : lane[w] \in LaneRow  BY DEF RealmTypes
<1>2. human \in Session({"free", "login"})  BY DEF RealmTypes
<1> QED  BY <1>1, <1>2, RowHas DEF LaneRow, Session, RealmTypes

LEMMA LoginsAre ==
    ASSUME RealmTypes
    PROVE  /\ Len(logins) \in Nat /\ DOMAIN logins = 1 .. Len(logins)
           /\ \A i \in DOMAIN logins : logins[i] \in LoginRow /\ logins[i].at \in Int
                                       /\ logins[i].done \in Int
<1>1. \A x \in LoginRow : x.at \in Int /\ x.done \in Int  BY DEF LoginRow
<1>2. logins \in Seq(LoginRow)  BY DEF RealmTypes
<1> QED  BY <1>1, <1>2
-----------------------------------------------------------------------------
(* The invariant: what a session that was committed means for later ones.  *)

FiringsFit ==
    /\ \A f \in Firing : created[f] <= clock /\ (created[f] = Never \/ created[f] >= 0)
    /\ \A r \in Run : FiringOf[r] # NoFiring /\ phase[r] # "unborn"
                         => created[FiringOf[r]] # Never

HumanFits == human.pc = "login" => human.copy.attempt <= clock

UserSince(t) == \E m \in DOMAIN logins : logins[m].kind = "user" /\ logins[m].done >= t
Held(i, f) == JitOf(i, f) /\ logins[i].kept
Answered(i, t) ==
    \E m \in i .. Len(logins) : logins[m].outcome = "ok" /\ logins[m].done = t
Spaced(i, t) ==
    \E m \in i .. Len(logins) : logins[m].outcome = "ok" /\ t - logins[m].done >= Floor

\* As long as the user does not log in, the attempt of a firing stays on the row, and a
\* success that is on the row since is one of the logins that came after.
StampStands(i, f) ==
    /\ created[f] # Never /\ created[f] <= logins[i].at
    /\ realm.attempt >= logins[i].at
    /\ realm.login >= logins[i].at => Answered(i, realm.login)

StampsStand ==
    /\ \A i \in DOMAIN logins : logins[i].at <= clock
    /\ \A f \in Firing, i \in DOMAIN logins :
          Held(i, f) /\ ~UserSince(logins[i].at) => StampStands(i, f)

\* A just-in-time login that is under way for a firing.
JitFits(l, c, f) ==
    /\ created[f] # Never /\ created[f] <= c.attempt
    /\ l.login < c.attempt
    /\ UserSince(c.attempt) \/ (realm.attempt = l.attempt /\ realm.login = l.login)
    /\ \A i \in DOMAIN logins :
          Held(i, f) /\ ~UserSince(logins[i].at) => Spaced(i, c.attempt)

LaneFits(me) ==
    /\ me.pc # "free" => me.run \in Run /\ phase[me.run] # "unborn"
    /\ me.pc \in Busy =>
          /\ 0 <= me.copy.attempt /\ me.copy.attempt <= clock
          /\ \A i \in DOMAIN logins : logins[i].kind = "user" \/ logins[i].at <= me.copy.attempt
    /\ me.pc \in {"jit", "relogin"} => me.copy.login = me.loaded.login
    /\ me.pc = "loggedin" => me.copy.login >= me.copy.attempt /\ me.copy.login <= clock
    /\ me.pc \in {"jit", "loggedin"} /\ FiringOf[me.run] \in Firing
          => JitFits(me.loaded, me.copy, FiringOf[me.run])

RealmInv ==
    /\ RealmTypes /\ FiringsFit /\ HumanFits /\ StampsStand /\ CommittedLoginIsSpent
    /\ \A w \in Worker : LaneFits(lane[w])

LEMMA RealmStarts == Init => RealmInv
<1> SUFFICES ASSUME Init PROVE RealmInv  OBVIOUS
<1>1. realm \in Row
  <2> DEFINE New(c) == [Blank EXCEPT !.creds = c]
             Uploaded(c, e) == [Blank EXCEPT !.status = "active", !.creds = c, !.expires = e]
  <2>1. \A c \in BOOLEAN : New(c) \in Row
    BY BlankIs DEF Row
  <2>2. ASSUME NEW c \in BOOLEAN, NEW e \in Lives PROVE Uploaded(c, e) \in Row
    <3>1. e \in Int /\ "active" \in Status  BY TimesAssumption DEF Status
    <3> QED  BY <3>1, BlankIs DEF Row
  <2>3. \E c \in BOOLEAN : realm = New(c) \/ \E e \in Lives : realm = Uploaded(c, e)
    BY Zenon DEF Init
  <2> HIDE DEF New, Uploaded
  <2> QED  BY <2>1, <2>2, <2>3
<1>2. /\ clock = 0 /\ created = [f \in Firing |-> Never] /\ phase = [r \in Run |-> "unborn"]
      /\ lane = [w \in Worker |-> Free] /\ human = Free /\ logins = << >>
  BY DEF Init
<1>3. Free.pc = "free"  BY DEF Free
<1>4. Never \in Int /\ Never <= 0  BY DEF Never
<1>5. RealmTypes  BY <1>1, <1>2, <1>4, BlankIs DEF RealmTypes
<1>6. FiringsFit /\ HumanFits  BY <1>2, <1>3, <1>4 DEF FiringsFit, HumanFits
<1>7. StampsStand /\ CommittedLoginIsSpent
  BY <1>2 DEF StampsStand, CommittedLoginIsSpent
<1>8. \A w \in Worker : LaneFits(lane[w])
  BY <1>2, <1>3 DEF LaneFits, Busy
<1> QED  BY <1>5, <1>6, <1>7, <1>8 DEF RealmInv
-----------------------------------------------------------------------------
(* Steps that record no login.                                             *)

\* Time passes, a firing is created, the row keeps its stamps.
Quiet ==
    /\ logins' = logins /\ clock' \in Nat /\ clock' >= clock
    /\ realm'.attempt = realm.attempt /\ realm'.login = realm.login
    /\ created' \in [Firing -> Int]
    /\ \A f \in Firing : created[f] # Never => created'[f] = created[f]

LEMMA QuietKeeps ==
    ASSUME RealmInv, Quiet
    PROVE  StampsStand' /\ CommittedLoginIsSpent'
<1>1. CommittedLoginIsSpent'
  BY DEF RealmInv, Quiet, CommittedLoginIsSpent, JitOf, SpacedOut
<1>2. ASSUME NEW i \in DOMAIN logins PROVE logins'[i].at <= clock'
  <2>1. logins[i].at \in Int /\ logins[i].at <= clock /\ clock \in Nat
    BY LoginsAre DEF RealmInv, RealmTypes, StampsStand
  <2> QED  BY <2>1 DEF Quiet
<1>3. ASSUME NEW f \in Firing, NEW i \in DOMAIN logins, Held(i, f)', ~UserSince(logins[i].at)'
      PROVE  StampStands(i, f)'
  <2>1. StampStands(i, f)
    BY <1>3 DEF RealmInv, StampsStand, Quiet, UserSince, Held, JitOf
  <2> QED  BY <2>1 DEF StampStands, Quiet, Answered
<1>4. StampsStand'  BY <1>2, <1>3 DEF StampsStand, Quiet
<1> QED  BY <1>1, <1>4

\* What is under way stays right.
LEMMA LaneStays ==
    ASSUME RealmInv, Quiet, NEW w \in Worker, lane'[w] = lane[w],
           \A r \in Run : phase[r] # "unborn" => phase'[r] # "unborn"
    PROVE  LaneFits(lane[w])'
<1> DEFINE me == lane[w]
<1>1. LaneFits(me)  BY DEF RealmInv
<1>2. me.copy.attempt \in Int /\ me.copy.login \in Int /\ clock \in Nat
  BY SessionsAre, RowHas DEF RealmInv, RealmTypes
<1>3. ASSUME NEW f \in Firing, JitFits(me.loaded, me.copy, f)
      PROVE  JitFits(me.loaded, me.copy, f)'
  BY <1>3 DEF JitFits, Quiet, UserSince, Held, JitOf, Spaced
<1> QED  BY <1>1, <1>2, <1>3 DEF LaneFits, Quiet
-----------------------------------------------------------------------------
(* Steps that record a login.                                              *)

LEMMA Appended ==
    ASSUME RealmTypes, NEW e \in LoginRow, logins' = Append(logins, e)
    PROVE  /\ logins' \in Seq(LoginRow)
           /\ Len(logins') = Len(logins) + 1 /\ DOMAIN logins' = 1 .. Len(logins) + 1
           /\ DOMAIN logins = 1 .. Len(logins) /\ Len(logins) \in Nat
           /\ \A i \in DOMAIN logins : logins'[i] = logins[i]
           /\ logins'[Len(logins) + 1] = e
<1>1. logins \in Seq(LoginRow)  BY DEF RealmTypes
<1> QED  BY <1>1

\* A login of the user: whatever was held before no longer counts.
LEMMA UserKeeps ==
    ASSUME RealmInv, NEW e \in LoginRow, logins' = Append(logins, e),
           e.kind = "user", e.done = clock, e.at <= clock,
           UNCHANGED <<clock, created>>
    PROVE  /\ StampsStand' /\ CommittedLoginIsSpent'
           /\ \A me : me \in LaneRow /\ LaneFits(me) /\ phase' = phase => LaneFits(me)'
<1> DEFINE n == Len(logins) + 1
<1>0. RealmTypes /\ StampsStand  BY DEF RealmInv
<1>1. /\ DOMAIN logins' = 1 .. n /\ n \in Nat /\ DOMAIN logins = 1 .. Len(logins)
      /\ \A i \in DOMAIN logins : logins'[i] = logins[i]
      /\ logins'[n] = e /\ Len(logins') = n
      /\ \A i \in DOMAIN logins' : i \in DOMAIN logins \/ i = n
  BY <1>0, Appended
<1>2. ASSUME NEW t \in Int, t <= clock PROVE UserSince(t)'
  <2>1. n \in DOMAIN logins'  BY <1>1
  <2>2. logins'[n].kind = "user" /\ logins'[n].done >= t
    BY <1>1, <1>2, <1>0 DEF RealmTypes
  <2> QED  BY <2>1, <2>2 DEF UserSince
<1>3. ASSUME NEW i \in DOMAIN logins' PROVE logins'[i].at \in Int /\ logins'[i].at <= clock
  <2>1. e.at \in Int  BY DEF LoginRow
  <2>2. \A j \in DOMAIN logins : logins[j].at \in Int /\ logins[j].at <= clock
    BY <1>0, LoginsAre DEF StampsStand
  <2> QED  BY <1>1, <2>1, <2>2
<1>4. \A i \in DOMAIN logins' : UserSince(logins[i].at)'
  <2> TAKE i \in DOMAIN logins'
  <2>1. PICK t : t = logins'[i].at  OBVIOUS
  <2>2. UserSince(t)'  BY <1>2, <1>3, <2>1
  <2> QED  BY <2>1, <2>2 DEF UserSince
<1>5. StampsStand'  BY <1>3, <1>4 DEF StampsStand
<1>6. CommittedLoginIsSpent'
  <2>1. \A i \in DOMAIN logins' : \E m \in DOMAIN logins' :
           logins'[m].kind = "user" /\ logins'[m].done >= logins'[i].at
    BY <1>4 DEF UserSince
  <2>2. \A m \in DOMAIN logins' : logins'[m].done \in Int
    BY <1>0, <1>1, LoginsAre DEF LoginRow
  <2>3. \A i \in DOMAIN logins' : \E m \in DOMAIN logins' :
           logins'[m].kind = "user" /\ ~(logins'[m].done < logins'[i].at)
    <3> TAKE i \in DOMAIN logins'
    <3>1. PICK m \in DOMAIN logins' :
             logins'[m].kind = "user" /\ logins'[m].done >= logins'[i].at
      BY <2>1
    <3>2. logins'[m].done \in Int /\ logins'[i].at \in Int  BY <1>3, <2>2
    <3>3. ~(logins'[m].done < logins'[i].at)  BY <3>1, <3>2
    <3> QED  BY <3>1, <3>3
  <2> QED  BY <2>3 DEF CommittedLoginIsSpent
<1>7. ASSUME NEW me, me \in LaneRow, LaneFits(me), phase' = phase PROVE LaneFits(me)'
  <2>1. \A i \in DOMAIN logins' :
           (i \in DOMAIN logins /\ logins'[i] = logins[i]) \/ logins'[i].kind = "user"
    BY <1>1
  <2>2. ASSUME NEW f \in Firing, me.pc \in {"jit", "loggedin"}, JitFits(me.loaded, me.copy, f)
        PROVE  JitFits(me.loaded, me.copy, f)'
    <3>1. me.copy.attempt \in Int /\ me.copy.attempt <= clock
      BY <1>7, <2>2, RowHas DEF LaneRow, Session, LaneFits, Busy
    <3>2. UserSince(me.copy.attempt)'  BY <1>2, <3>1
    <3>3. created' = created  OBVIOUS
    <3>4. \A i \in DOMAIN logins' : ~(~UserSince(logins[i].at)')  BY <1>4
    <3> QED  BY <2>2, <3>2, <3>3, <3>4 DEF JitFits
  <2> QED  BY <1>7, <2>1, <2>2 DEF LaneFits
<1> QED  BY <1>5, <1>6, <1>7

\* A login of a run, on the only lane.  Its copy is stamped when it began, and what it
\* writes is its stamp, or nothing; the success is its own.
LEMMA RunLoginKeeps ==
    ASSUME RealmInv, NEW w \in Worker, NEW e \in LoginRow, logins' = Append(logins, e),
           lane[w].pc \in Busy, e.kind \in {"jit", "wall"}, e.at = lane[w].copy.attempt,
           e.kind = "jit" => lane[w].pc \in {"jit", "loggedin"} /\ e.run = lane[w].run,
           UNCHANGED <<clock, created>>, realm' \in Row,
           realm'.attempt = e.at \/ realm'.attempt = realm.attempt,
           e.kind = "jit" /\ e.kept => \/ realm'.attempt = e.at
                                       \/ lane[w].loaded.attempt = e.at,
           realm'.login = realm.login \/ (e.outcome = "ok" /\ realm'.login = e.done)
    PROVE  StampsStand' /\ CommittedLoginIsSpent'
<1> PICK n : n = Len(logins) + 1  OBVIOUS
<1> PICK me : me = lane[w]  OBVIOUS
<1>0. RealmTypes /\ StampsStand /\ CommittedLoginIsSpent /\ LaneFits(me)  BY DEF RealmInv
<1>1. /\ DOMAIN logins' = 1 .. n /\ n \in Nat /\ DOMAIN logins = 1 .. Len(logins)
      /\ Len(logins) \in Nat
      /\ \A i \in DOMAIN logins : logins'[i] = logins[i]
      /\ logins'[n] = e /\ Len(logins') = n /\ n \in DOMAIN logins'
      /\ \A i \in DOMAIN logins' : i \in DOMAIN logins \/ i = n
      /\ \A i \in DOMAIN logins : i \in DOMAIN logins' /\ i < n
  BY <1>0, Appended
<1>2. \A t : UserSince(t)' <=> UserSince(t)
  BY <1>1 DEF UserSince
<1>3. /\ e.at \in Int /\ 0 <= e.at /\ e.at <= clock
      /\ \A i \in DOMAIN logins : logins[i].kind = "user" \/ logins[i].at <= e.at
      /\ realm.attempt \in Int /\ realm.login \in Int
      /\ realm'.attempt \in Int /\ realm'.login \in Int
      /\ \A i \in DOMAIN logins : logins[i].at \in Int
  BY <1>0, SessionsAre, RowHas, LoginsAre DEF LaneFits
<1>4. \A i \in DOMAIN logins : \A t :
         /\ Answered(i, t) => Answered(i, t)'
         /\ Spaced(i, t) => \E m \in i .. n - 1 :
               logins'[m].outcome = "ok" /\ t - logins'[m].done >= Floor
  BY <1>1 DEF Answered, Spaced
<1>5. \A i \in DOMAIN logins' : logins'[i].at <= clock'
  BY <1>0, <1>1, <1>3 DEF StampsStand
<1>6. \A i \in DOMAIN logins : \A f : Held(i, f)' <=> Held(i, f)
  BY <1>1 DEF Held, JitOf
<1>7. ASSUME e.kind = "jit", FiringOf[e.run] \in Firing
      PROVE  JitFits(me.loaded, me.copy, FiringOf[e.run])
  BY <1>0, <1>7 DEF LaneFits
<1>8. ASSUME NEW f \in Firing, NEW i \in DOMAIN logins, Held(i, f), ~UserSince(logins[i].at)
      PROVE  StampStands(i, f)'
  <2>1. StampStands(i, f)  BY <1>0, <1>8 DEF StampsStand
  <2>2. logins'[i] = logins[i] /\ logins[i].at <= e.at
    BY <1>1, <1>3, <1>8 DEF Held, JitOf
  <2>3. realm'.attempt >= logins[i].at
    BY <1>3, <2>1, <2>2 DEF StampStands
  <2>4. ASSUME realm'.login >= logins[i].at PROVE Answered(i, realm.login)'
    <3>1. CASE realm'.login = realm.login
      <4>1. Answered(i, realm.login)  BY <2>1, <2>4, <3>1 DEF StampStands
      <4> QED  BY <1>1, <3>1, <4>1 DEF Answered
    <3>2. CASE e.outcome = "ok" /\ realm'.login = e.done
      <4>1. n \in i .. Len(logins')  BY <1>1
      <4> QED  BY <1>1, <3>2, <4>1 DEF Answered
    <3> QED  BY <3>1, <3>2
  <2> QED  BY <2>1, <2>2, <2>3, <2>4 DEF StampStands
<1>9. ASSUME NEW f \in Firing, Held(n, f)', ~UserSince(e.at)
      PROVE  StampStands(n, f)'
  <2>1. e.kind = "jit" /\ e.kept /\ f = FiringOf[e.run]
    BY <1>1, <1>9 DEF Held, JitOf
  <2>2. JitFits(me.loaded, me.copy, f)  BY <1>7, <2>1
  <2>3. /\ created[f] # Never /\ created[f] <= e.at
        /\ me.loaded.login < e.at
        /\ realm.attempt = me.loaded.attempt /\ realm.login = me.loaded.login
    BY <1>9, <2>2 DEF JitFits
  <2>4. realm'.attempt = e.at  BY <2>1, <2>3
  <2>5. realm'.login >= e.at => Answered(n, realm.login)'
    <3>1. CASE realm'.login = realm.login  BY <1>3, <2>3, <3>1
    <3>2. CASE e.outcome = "ok" /\ realm'.login = e.done
      <4>1. n \in n .. Len(logins')  BY <1>1
      <4> QED  BY <1>1, <3>2, <4>1 DEF Answered
    <3> QED  BY <3>1, <3>2
  <2> QED  BY <1>1, <1>3, <2>3, <2>4, <2>5 DEF StampStands
<1>10. StampsStand'
  <2>1. ASSUME NEW f \in Firing, NEW i \in DOMAIN logins', Held(i, f)', ~UserSince(logins[i].at)'
        PROVE  StampStands(i, f)'
    <3>1. PICK t : t = logins'[i].at  OBVIOUS
    <3>2. ~UserSince(t)'  BY <2>1, <3>1 DEF UserSince
    <3>3. ~UserSince(t)  BY <1>2, <3>2
    <3>4. CASE i \in DOMAIN logins
      BY <1>1, <1>6, <1>8, <2>1, <3>1, <3>3, <3>4
    <3>5. CASE i = n
      BY <1>1, <1>9, <2>1, <3>1, <3>3, <3>5
    <3> QED  BY <1>1, <3>4, <3>5
  <2> QED  BY <1>5, <2>1 DEF StampsStand
<1>11. CommittedLoginIsSpent'
  <2> SUFFICES ASSUME NEW i \in DOMAIN logins', NEW k \in DOMAIN logins', NEW f \in Firing,
                      i < k, JitOf(i, f)', JitOf(k, f)', logins'[i].kept,
                      \A m \in DOMAIN logins' : logins'[m].kind = "user" =>
                                                   logins'[m].done < logins'[i].at
               PROVE  SpacedOut(i, k)'
    BY DEF CommittedLoginIsSpent
  <2>1. i \in DOMAIN logins /\ JitOf(i, f) /\ logins[i].kept /\ logins'[i] = logins[i]
    BY <1>1 DEF JitOf
  <2>2. \A m \in DOMAIN logins : logins[m].kind = "user" => logins[m].done < logins[i].at
    BY <1>1, <2>1
  <2>3. CASE k \in DOMAIN logins
    <3>1. SpacedOut(i, k)  BY <1>0, <1>1, <2>1, <2>2, <2>3 DEF CommittedLoginIsSpent, JitOf
    <3> QED  BY <1>1, <2>3, <3>1 DEF SpacedOut
  <2>4. CASE k = n
    <3>1. e.kind = "jit" /\ f = FiringOf[e.run]  BY <1>1, <2>4 DEF JitOf
    <3>2. JitFits(me.loaded, me.copy, f)  BY <1>7, <3>1
    <3>3. \A m \in DOMAIN logins : logins[m].done \in Int  BY <1>0, LoginsAre
    <3>4. ~UserSince(logins[i].at)  BY <1>3, <2>1, <2>2, <3>3 DEF UserSince
    <3>5. Spaced(i, e.at)  BY <2>1, <3>2, <3>4 DEF JitFits, Held
    <3> QED  BY <1>1, <1>4, <2>1, <2>4, <3>5 DEF SpacedOut
  <2> QED  BY <1>1, <2>3, <2>4
<1> QED  BY <1>10, <1>11
-----------------------------------------------------------------------------
(* The actions: first the types.                                           *)

LEMMA LaneTypes ==
    ASSUME RealmTypes, NEW w \in Worker, NEW me \in LaneRow, lane' = [lane EXCEPT ![w] = me]
    PROVE  lane' \in [Worker -> LaneRow]
  BY DEF RealmTypes

\* A free lane, and one that works on its pages, hold no login.
LEMMA LaneRests ==
    ASSUME NEW me, me.pc \in {"free", "works"},
           me.pc = "works" => me.run \in Run /\ phase'[me.run] # "unborn"
    PROVE  LaneFits(me)'
  BY DEF LaneFits, Busy

\* A step that keeps the lanes, the firings and the stamps of the row.
LEMMA OutsideKeeps ==
    ASSUME RealmInv, Quiet, lane' = lane, realm' \in Row,
           phase' = [r \in Run |-> phase'[r]],
           \A r \in Run : phase[r] # "unborn" => phase'[r] # "unborn",
           human' = human,
           \A f \in Firing : created'[f] <= clock' /\ (created'[f] = Never \/ created'[f] >= 0),
           \A r \in Run : FiringOf[r] # NoFiring /\ phase'[r] # "unborn"
                             => created'[FiringOf[r]] # Never
    PROVE  RealmInv'
<1>1. StampsStand' /\ CommittedLoginIsSpent'  BY QuietKeeps
<1>2. \A w \in Worker : LaneFits(lane[w])'
  <2> TAKE w \in Worker
  <2> QED  BY LaneStays
<1>4. RealmTypes'  BY DEF RealmInv, RealmTypes, Quiet
<1>5. HumanFits'
  <2>1. human.copy.attempt \in Int /\ clock \in Nat
    BY SessionsAre, RowHas DEF RealmInv, RealmTypes
  <2> QED  BY <2>1 DEF RealmInv, HumanFits, Quiet
<1>6. FiringsFit'  BY DEF FiringsFit
<1> QED  BY <1>1, <1>2, <1>4, <1>5, <1>6 DEF RealmInv

LEMMA StartKeeps ==
    ASSUME RealmInv, NEW r \in Run, StartManual(r) \/ Resume(r)
    PROVE  RealmInv'
<1>1. /\ phase' = [phase EXCEPT ![r] = "queued"]
      /\ UNCHANGED <<clock, realm, created, lane, human, logins>>
      /\ FiringOf[r] = NoFiring \/ phase[r] = "paused"
  BY DEF StartManual, Resume
<1>2. Quiet  BY <1>1 DEF Quiet, RealmInv, RealmTypes
<1>3. phase' = [s \in Run |-> phase'[s]] /\ realm' \in Row
  BY <1>1 DEF RealmInv, RealmTypes
<1>4. \A s \in Run : /\ phase[s] # "unborn" => phase'[s] # "unborn"
                     /\ phase'[s] # "unborn" => phase[s] # "unborn" \/ FiringOf[s] = NoFiring
  BY <1>1 DEF RealmInv, RealmTypes
<1> QED  BY <1>1, <1>2, <1>3, <1>4, OutsideKeeps DEF RealmInv, FiringsFit

LEMMA FireKeeps ==
    ASSUME RealmInv, NEW f \in Firing, FireJob(f)
    PROVE  RealmInv'
<1>0. clock \in Nat /\ created \in [Firing -> Int] /\ Never \in Int /\ Never < 0
  BY DEF RealmInv, RealmTypes, Never
<1>1. /\ created[f] = Never /\ created' = [created EXCEPT ![f] = clock]
      /\ phase' = [r \in Run |-> IF FiringOf[r] = f THEN "queued" ELSE phase[r]]
      /\ UNCHANGED <<clock, realm, lane, human, logins>>
  BY DEF FireJob
<1>2. Quiet  BY <1>0, <1>1 DEF Quiet
<1>3. realm' \in Row  BY <1>1 DEF RealmInv, RealmTypes
<1>4. \A g \in Firing : created'[g] <= clock' /\ (created'[g] = Never \/ created'[g] >= 0)
  BY <1>0, <1>1 DEF RealmInv, FiringsFit
<1>5. \A r \in Run : FiringOf[r] # NoFiring /\ phase'[r] # "unborn"
                        => created'[FiringOf[r]] # Never
  <2>1. \A r \in Run : FiringOf[r] # NoFiring => FiringOf[r] \in Firing
    BY RunsAssumption
  <2> QED  BY <1>0, <1>1, <2>1 DEF RealmInv, FiringsFit
<1>6. \A r \in Run : phase[r] # "unborn" => phase'[r] # "unborn"
  BY <1>1
<1> QED  BY <1>1, <1>2, <1>3, <1>4, <1>5, <1>6, OutsideKeeps

\* The user uploads a session, tests it, or changes the credentials; time passes.
LEMMA RowKeeps ==
    ASSUME RealmInv, \/ \E life \in Lives : Upload(life)
                     \/ \E saved \in BOOLEAN : ChangeCredentials(saved)
                     \/ TestHitsWall \/ TimePasses
    PROVE  RealmInv'
<1>0. clock \in Nat /\ realm \in Row /\ Lives \subseteq Nat
  BY TimesAssumption DEF RealmInv, RealmTypes
<1>1. realm' \in Row /\ realm'.attempt = realm.attempt /\ realm'.login = realm.login
  <2>1. ASSUME NEW life \in Lives, Upload(life)
        PROVE  realm' \in Row /\ realm'.attempt = realm.attempt /\ realm'.login = realm.login
    <3>1. realm' = [realm EXCEPT !.status = "active", !.expires = clock + life]
      BY <2>1 DEF Upload
    <3>2. clock + life \in Int /\ "active" \in Status  BY <1>0 DEF Status
    <3> QED  BY <1>0, <3>1, <3>2 DEF Row
  <2>2. ASSUME NEW saved \in BOOLEAN, ChangeCredentials(saved)
        PROVE  realm' \in Row /\ realm'.attempt = realm.attempt /\ realm'.login = realm.login
    <3>1. PICK status \in Status : realm' = [realm EXCEPT !.creds = saved, !.status = status]
      BY <1>0, <2>2 DEF ChangeCredentials, Row, Status
    <3> QED  BY <1>0, <3>1 DEF Row
  <2>3. ASSUME TestHitsWall
        PROVE  realm' \in Row /\ realm'.attempt = realm.attempt /\ realm'.login = realm.login
    <3>1. realm' = [realm EXCEPT !.status = "expired"]  BY <2>3 DEF TestHitsWall
    <3>2. "expired" \in Status  BY DEF Status
    <3> QED  BY <1>0, <3>1, <3>2 DEF Row
  <2>4. TimePasses => realm' = realm  BY DEF TimePasses
  <2> QED  BY <1>0, <2>1, <2>2, <2>3, <2>4
<1>2. /\ UNCHANGED <<created, phase, lane, human, logins>>
      /\ clock' = clock \/ clock' = clock + 1
  BY DEF Upload, ChangeCredentials, TestHitsWall, TimePasses
<1>3. Quiet  BY <1>0, <1>1, <1>2 DEF Quiet, RealmInv, RealmTypes
<1>4. phase' = [r \in Run |-> phase'[r]]  BY <1>2 DEF RealmInv, RealmTypes
<1>5. \A f \in Firing : created'[f] <= clock' /\ (created'[f] = Never \/ created'[f] >= 0)
  BY <1>0, <1>2 DEF RealmInv, RealmTypes, FiringsFit
<1> QED  BY <1>1, <1>2, <1>3, <1>4, <1>5, OutsideKeeps DEF RealmInv, FiringsFit

\* The user's login: it begins, and is answered.
LEMMA UserBeginsKeeps ==
    ASSUME RealmInv, LoginCall
    PROVE  RealmInv'
<1>0. clock \in Nat /\ realm \in Row  BY DEF RealmInv, RealmTypes
<1>1. /\ human' = [run |-> NoRun, pc |-> "login", loaded |-> realm,
                   copy |-> [realm EXCEPT !.attempt = clock]]
      /\ UNCHANGED <<clock, realm, created, phase, lane, logins>>
  BY DEF LoginCall
<1>2. [realm EXCEPT !.attempt = clock] \in Row /\ [realm EXCEPT !.attempt = clock].attempt = clock
  BY <1>0 DEF Row
<1>3. Quiet  BY <1>0, <1>1 DEF Quiet, RealmInv, RealmTypes
<1>4. StampsStand' /\ CommittedLoginIsSpent'  BY <1>3, QuietKeeps
<1>5. \A w \in Worker : LaneFits(lane[w])'
  <2> TAKE w \in Worker
  <2> QED  BY <1>1, <1>3, LaneStays
<1>6. human' \in Session({"free", "login"}) /\ human'.copy.attempt = clock
  BY <1>0, <1>1, <1>2 DEF Session
<1>7. RealmTypes' /\ HumanFits' /\ FiringsFit'
  BY <1>0, <1>1, <1>6 DEF RealmInv, RealmTypes, HumanFits, FiringsFit
<1> QED  BY <1>4, <1>5, <1>7 DEF RealmInv

LEMMA UserAnswersKeeps ==
    ASSUME RealmInv, NEW o \in {"ok", "rejected", "outage"}, NEW life \in Nat,
           LoginAnswer(o, life)
    PROVE  RealmInv'
<1> DEFINE e == [run |-> human.run, kind |-> "user", at |-> human.copy.attempt, done |-> clock,
                 outcome |-> o, kept |-> TRUE]
           c == AfterLogin(human.copy, o, life)
<1>0. /\ RealmTypes /\ clock \in Nat /\ realm \in Row
      /\ human.loaded \in Row /\ human.copy \in Row /\ human.run \in Run \cup {NoRun}
  BY SessionsAre DEF RealmInv, RealmTypes
<1>1. /\ human.pc = "login" /\ realm' = Merge(realm, human.loaded, c)
      /\ logins' = Append(logins, e) /\ human' = Free
      /\ UNCHANGED <<clock, created, phase, lane>>
  BY DEF LoginAnswer, Write, Record
<1>2. human.copy.attempt \in Int /\ human.copy.attempt <= clock
  BY <1>0, <1>1, RowHas DEF RealmInv, HumanFits
<1>3. e \in LoginRow /\ e.kind = "user" /\ e.done = clock /\ e.at <= clock
  <2>1. e \in LoginRow  BY <1>0, <1>2 DEF LoginRow
  <2>2. e.kind = "user" /\ e.done = clock /\ e.at = human.copy.attempt  OBVIOUS
  <2> QED  BY <1>2, <2>1, <2>2
<1>4. c \in Row  BY <1>0, AfterLoginIs
<1> HIDE DEF c, e
<1>5. realm' \in Row  BY <1>0, <1>1, <1>4, MergeIs
<1>6. /\ StampsStand' /\ CommittedLoginIsSpent'
      /\ \A me : me \in LaneRow /\ LaneFits(me) /\ phase' = phase => LaneFits(me)'
  BY <1>1, <1>3, UserKeeps
<1>7. \A w \in Worker : lane'[w] \in LaneRow /\ lane'[w] = lane[w] /\ LaneFits(lane[w])
  BY <1>0, <1>1 DEF RealmInv, RealmTypes
<1>8. \A w \in Worker : LaneFits(lane[w])'
  <2> TAKE w \in Worker
  <2>1. PICK me : me = lane[w]  OBVIOUS
  <2>2. LaneFits(me)'  BY <1>1, <1>6, <1>7, <2>1
  <2> QED  BY <1>7, <2>1, <2>2 DEF LaneFits
<1>9. RealmTypes' /\ HumanFits' /\ FiringsFit'
  <2>1. logins' \in Seq(LoginRow)  BY <1>0, <1>1, <1>3, Appended
  <2>2. Free.pc = "free"  BY DEF Free
  <2> QED
    BY <1>0, <1>1, <1>5, <2>1, <2>2, BlankIs DEF RealmInv, RealmTypes, HumanFits, FiringsFit
<1> QED  BY <1>6, <1>8, <1>9 DEF RealmInv
-----------------------------------------------------------------------------
(* The only lane.                                                          *)

\* What is left to show of a step of the lane.
LEMMA LaneStepKeeps ==
    ASSUME RealmInv, NEW w, Worker = {w}, NEW me \in LaneRow, lane' = [lane EXCEPT ![w] = me],
           LaneFits(me)', StampsStand', CommittedLoginIsSpent', realm' \in Row,
           logins' \in Seq(LoginRow), UNCHANGED <<clock, created, human>>,
           NEW r \in Run, NEW p, phase' = [phase EXCEPT ![r] = p], phase[r] # "unborn"
    PROVE  RealmInv'
<1>1. RealmTypes'
  BY LaneTypes DEF RealmInv, RealmTypes
<1>2. \A s \in Run : phase'[s] # "unborn" => phase[s] # "unborn"
  BY DEF RealmInv, RealmTypes
<1>3. FiringsFit' /\ HumanFits'
  BY <1>2 DEF RealmInv, FiringsFit, HumanFits
<1>4. lane'[w] = me  BY DEF RealmInv, RealmTypes
<1>5. LaneFits(lane[w])'  BY <1>4 DEF LaneFits
<1>6. \A v \in Worker : LaneFits(lane[v])'  BY <1>5
<1> QED  BY <1>1, <1>3, <1>6 DEF RealmInv

\* A just-in-time login of a firing begins on a row that was not stamped since the firing
\* began, or holds a success whose cookies are spent.
LEMMA DecisionIs ==
    ASSUME RealmInv, NEW r \in Run, phase[r] = "queued", Decision(r, realm) = "login",
           FiringOf[r] \in Firing
    PROVE  /\ realm.login < clock
           /\ created[FiringOf[r]] # Never /\ created[FiringOf[r]] <= clock
           /\ \A i \in DOMAIN logins :
                 Held(i, FiringOf[r]) /\ ~UserSince(logins[i].at) => Spaced(i, clock)
<1> DEFINE f == FiringOf[r]
<1>0. /\ clock \in Nat /\ realm.attempt \in Int /\ realm.login \in Int
      /\ created[f] \in Int /\ Never \in Int /\ Never < 0 /\ Floor \in Int /\ Floor = 1
  BY SessionsAre DEF RealmInv, RealmTypes, Never, Floor
<1>1. created[f] # Never /\ created[f] <= clock /\ created[f] >= 0
  BY RunsAssumption DEF RealmInv, FiringsFit
<1>2. ~LoggedInBy(realm, f) \/ SessionSpent(realm)
  <2>1. f # NoFiring  BY RunsAssumption
  <2>2. CASE LoggedInBy(realm, f) /\ ~SessionSpent(realm) /\ Usable(realm) /\ Stale(realm)
    BY <2>1, <2>2 DEF Decision, Stale
  <2> QED  BY <2>1, <2>2 DEF Decision, Stale
<1>3. CASE ~LoggedInBy(realm, f)
  <2>1. realm.attempt < created[f] /\ realm.login < created[f]
    BY <1>0, <1>1, <1>3 DEF LoggedInBy
  <2>2. ASSUME NEW i \in DOMAIN logins, Held(i, f), ~UserSince(logins[i].at) PROVE FALSE
    <3>1. StampStands(i, f) /\ logins[i].at \in Int
      BY <2>2, LoginsAre DEF RealmInv, StampsStand
    <3> QED  BY <1>0, <2>1, <3>1 DEF StampStands
  <2> QED  BY <1>0, <1>1, <2>1, <2>2
<1>4. CASE SessionSpent(realm)
  <2>1. realm.attempt <= realm.login /\ clock - realm.login >= Floor
    BY <1>4 DEF SessionSpent
  <2>2. ASSUME NEW i \in DOMAIN logins, Held(i, f), ~UserSince(logins[i].at)
        PROVE  Spaced(i, clock)
    <3>1. StampStands(i, f) /\ logins[i].at \in Int
      BY <2>2, LoginsAre DEF RealmInv, StampsStand
    <3>2. Answered(i, realm.login)
      BY <1>0, <2>1, <3>1 DEF StampStands
    <3> QED  BY <2>1, <3>2 DEF Answered, Spaced
  <2> QED  BY <1>0, <1>1, <2>1, <2>2
<1> QED  BY <1>2, <1>3, <1>4

LEMMA BeginKeeps ==
    ASSUME RealmInv, NEW w, Worker = {w}, NEW r \in Run, Begin(w, r)
    PROVE  RealmInv'
<1>0. RealmTypes /\ clock \in Nat /\ realm \in Row /\ created \in [Firing -> Int]
  BY DEF RealmInv, RealmTypes
<1>1. /\ phase[r] = "queued" /\ phase' = [phase EXCEPT ![r] = "running"]
      /\ Decision(r, realm) # "refuse"
      /\ lane' = [lane EXCEPT ![w] =
            IF Decision(r, realm) = "use"
            THEN [run |-> r, pc |-> "works", loaded |-> realm, copy |-> realm]
            ELSE [run |-> r, pc |-> "jit", loaded |-> realm,
                  copy |-> [realm EXCEPT !.attempt = clock]]]
      /\ UNCHANGED <<clock, realm, created, human, logins>>
  BY DEF Begin
<1>2. Quiet  BY <1>0, <1>1 DEF Quiet
<1>3. StampsStand' /\ CommittedLoginIsSpent'  BY <1>2, QuietKeeps
<1>4. phase'[r] = "running"  BY <1>0, <1>1 DEF RealmTypes
<1>5. realm' \in Row /\ logins' \in Seq(LoginRow)  BY <1>0, <1>1 DEF RealmTypes
<1>6. CASE Decision(r, realm) = "use"
  <2> DEFINE me == [run |-> r, pc |-> "works", loaded |-> realm, copy |-> realm]
  <2>1. me \in LaneRow  BY <1>0 DEF LaneRow, Session
  <2>2. lane' = [lane EXCEPT ![w] = me]  BY <1>1, <1>6
  <2>3. me.pc = "works" /\ me.run = r  OBVIOUS
  <2>4. PICK you : you = me  OBVIOUS
  <2> HIDE DEF me
  <2>5. LaneFits(you)'  BY <1>4, <2>3, <2>4, LaneRests
  <2> QED  BY <1>1, <1>3, <1>5, <2>1, <2>2, <2>4, <2>5, LaneStepKeeps
<1>7. CASE Decision(r, realm) = "login"
  <2> DEFINE c == [realm EXCEPT !.attempt = clock]
             me == [run |-> r, pc |-> "jit", loaded |-> realm, copy |-> c]
  <2>1. c \in Row /\ c.attempt = clock /\ c.login = realm.login  BY <1>0 DEF Row
  <2>2. me \in LaneRow  BY <2>1 DEF LaneRow, Session, Busy, RealmInv, RealmTypes
  <2>3. lane' = [lane EXCEPT ![w] = me]  BY <1>1, <1>7
  <2>4. me.pc = "jit" /\ me.run = r /\ me.loaded = realm /\ me.copy = c  OBVIOUS
  <2>5. PICK you : you = me  OBVIOUS
  <2> HIDE DEF me
  <2>6. ASSUME FiringOf[r] \in Firing
        PROVE  JitFits(you.loaded, you.copy, FiringOf[r])'
    <3>1. /\ realm.login < clock
          /\ created[FiringOf[r]] # Never /\ created[FiringOf[r]] <= clock
          /\ \A i \in DOMAIN logins :
                Held(i, FiringOf[r]) /\ ~UserSince(logins[i].at) => Spaced(i, clock)
      BY <1>1, <1>7, <2>6, DecisionIs
    <3>2. \A i \in DOMAIN logins' :
             Held(i, FiringOf[r])' /\ ~UserSince(logins[i].at)' => Spaced(i, clock)'
      BY <1>1, <3>1 DEF Held, JitOf, UserSince, Spaced
    <3>3. you.copy.attempt = clock /\ you.loaded = realm  BY <2>1, <2>4, <2>5
    <3> QED  BY <1>1, <3>1, <3>2, <3>3 DEF JitFits, Spaced
  <2>7. LaneFits(you)'
    <3>1. \A i \in DOMAIN logins : logins[i].at <= clock  BY DEF RealmInv, StampsStand
    <3>2. /\ you.pc = "jit" /\ you.run = r /\ you.copy.attempt = clock
          /\ you.copy.login = you.loaded.login
      BY <2>1, <2>4, <2>5
    <3> QED  BY <1>0, <1>1, <1>4, <2>6, <3>1, <3>2 DEF LaneFits, Busy
  <2> QED  BY <1>1, <1>3, <1>5, <2>2, <2>3, <2>5, <2>7, LaneStepKeeps
<1> QED  BY <1>1, <1>6, <1>7 DEF Decision

\* A refused run leaves the lanes alone.
LEMMA RefuseKeeps ==
    ASSUME RealmInv, NEW w \in Worker, NEW r \in Run, Refuse(w, r)
    PROVE  RealmInv'
<1>0. clock \in Nat /\ realm \in Row  BY DEF RealmInv, RealmTypes
<1>1. /\ phase' = [phase EXCEPT ![r] = "failed"] /\ phase[r] = "queued"
      /\ UNCHANGED <<clock, created, lane, human, logins>>
      /\ realm' = [realm EXCEPT !.status = "needs_login"] \/ realm' = realm
  BY DEF Refuse
<1>2. realm' \in Row /\ realm'.attempt = realm.attempt /\ realm'.login = realm.login
  <2>1. "needs_login" \in Status  BY DEF Status
  <2> QED  BY <1>0, <1>1, <2>1 DEF Row
<1>3. Quiet  BY <1>0, <1>1, <1>2 DEF Quiet, RealmInv, RealmTypes
<1>4. /\ phase' = [s \in Run |-> phase'[s]]
      /\ \A s \in Run : (phase[s] # "unborn" <=> phase'[s] # "unborn")
  BY <1>1 DEF RealmInv, RealmTypes
<1> QED  BY <1>1, <1>2, <1>3, <1>4, OutsideKeeps DEF RealmInv, FiringsFit

\* What a lane that holds a run has.
LEMMA BusyIs ==
    ASSUME RealmInv, NEW w \in Worker, lane[w].pc # "free"
    PROVE  /\ RealmTypes /\ LaneFits(lane[w]) /\ lane[w] \in LaneRow
           /\ lane[w].run \in Run /\ phase[lane[w].run] # "unborn"
           /\ lane[w].loaded \in Row /\ lane[w].copy \in Row
           /\ lane[w].copy.attempt \in Int /\ lane[w].copy.login \in Int
           /\ realm \in Row /\ clock \in Nat /\ clock \in Int
<1>1. LaneFits(lane[w]) /\ RealmTypes  BY DEF RealmInv
<1> QED  BY <1>1, SessionsAre, RowHas DEF LaneFits, RealmTypes

\* A lane that is done with its run, or pauses it.
LEMMA LeaveKeeps ==
    ASSUME RealmInv, NEW w, Worker = {w}, WallPause(w) \/ Finish(w)
    PROVE  RealmInv'
<1> DEFINE me == lane[w]
<1>1. /\ me.pc = "works" /\ lane' = [lane EXCEPT ![w] = Free]
      /\ UNCHANGED <<clock, created, human, logins>>
      /\ \E p : phase' = [phase EXCEPT ![me.run] = p]
  BY DEF WallPause, Finish
<1>2. /\ me.run \in Run /\ phase[me.run] # "unborn" /\ me.copy \in Row /\ realm \in Row
      /\ clock \in Nat
  BY <1>1, BusyIs
<1>3. realm' \in Row /\ realm'.attempt = realm.attempt /\ realm'.login = realm.login
  <2>1. CASE Finish(w)  BY <1>2, <2>1 DEF Finish
  <2>2. CASE WallPause(w)
    <3>1. PICK c \in {me.copy, realm} :
             realm' = IF c.status = "login_failed" THEN realm
                      ELSE Merge(realm, c, [c EXCEPT !.status = "expired"])
      BY <2>2 DEF WallPause
    <3> DEFINE d == [c EXCEPT !.status = "expired"]
    <3>2. c \in Row /\ "expired" \in Status  BY <1>2 DEF Status
    <3>3. d \in Row /\ d.attempt = c.attempt /\ d.login = c.login
      BY <3>2 DEF Row
    <3> HIDE DEF d
    <3>4. Merge(realm, c, d) \in Row /\ Merge(realm, c, d).attempt = realm.attempt
          /\ Merge(realm, c, d).login = realm.login
      BY <1>2, <3>2, <3>3, MergeIs
    <3> QED  BY <1>2, <3>1, <3>4 DEF d
  <2> QED  BY <2>1, <2>2, <1>1
<1>4. Quiet  BY <1>1, <1>2, <1>3 DEF Quiet, RealmInv, RealmTypes
<1>5. StampsStand' /\ CommittedLoginIsSpent'  BY <1>4, QuietKeeps
<1>6. LaneFits(Free)'
  <2>1. Free.pc = "free"  BY DEF Free
  <2> QED  BY <2>1, LaneRests
<1>7. logins' \in Seq(LoginRow)  BY <1>1 DEF RealmInv, RealmTypes
<1> QED  BY <1>1, <1>2, <1>3, <1>5, <1>6, <1>7, BlankIs, LaneStepKeeps

\* The auth wall of a run: it logs in again, from its own copy or a fresh one.
LEMMA ReloginKeeps ==
    ASSUME RealmInv, NEW w, Worker = {w}, WallRelogin(w)
    PROVE  RealmInv'
<1>1. PICK c \in {lane[w].copy, realm} :
         lane' = [lane EXCEPT ![w] = [lane[w] EXCEPT !.pc = "relogin", !.loaded = c,
                                                     !.copy = [c EXCEPT !.attempt = clock]]]
  BY DEF WallRelogin
<1>2. lane[w].pc = "works" /\ UNCHANGED <<clock, realm, created, phase, human, logins>>
  BY DEF WallRelogin
<1>3. /\ RealmTypes /\ lane[w].run \in Run /\ phase[lane[w].run] # "unborn"
      /\ lane[w].copy \in Row /\ realm \in Row /\ clock \in Nat /\ lane[w] \in LaneRow
  BY <1>2, BusyIs
<1> DEFINE d == [c EXCEPT !.attempt = clock]
           me == [lane[w] EXCEPT !.pc = "relogin", !.loaded = c, !.copy = d]
<1>4. d \in Row /\ d.attempt = clock /\ d.login = c.login  BY <1>3 DEF Row
<1>5. me \in LaneRow /\ me.pc = "relogin" /\ me.run = lane[w].run /\ me.loaded = c /\ me.copy = d
  BY <1>3, <1>4 DEF LaneRow, Session, Busy
<1>6. lane' = [lane EXCEPT ![w] = me]  BY <1>1
<1>7. PICK you : you = me  OBVIOUS
<1> HIDE DEF me, d
<1>8. LaneFits(you)'
  <2>1. \A i \in DOMAIN logins : logins[i].at <= clock  BY DEF RealmInv, StampsStand
  <2> QED  BY <1>2, <1>3, <1>4, <1>5, <1>7, <2>1 DEF LaneFits, Busy
<1>9. Quiet  BY <1>2, <1>3 DEF Quiet, RealmTypes
<1>10. StampsStand' /\ CommittedLoginIsSpent'  BY <1>9, QuietKeeps
<1>11. phase' = [phase EXCEPT ![lane[w].run] = phase[lane[w].run]]
  BY <1>2, <1>3 DEF RealmTypes
<1>12. realm' \in Row /\ logins' \in Seq(LoginRow)  BY <1>2, <1>3 DEF RealmTypes
<1> QED
  BY <1>2, <1>3, <1>5, <1>6, <1>7, <1>8, <1>10, <1>11, <1>12, LaneStepKeeps

\* The just-in-time login succeeds: nothing is committed yet.
LEMMA SuccessKeeps ==
    ASSUME RealmInv, NEW w, Worker = {w}, NEW life \in Lives, JitSucceeds(w, life)
    PROVE  RealmInv'
<1> DEFINE d == AfterLogin(lane[w].copy, "ok", life)
           me == [lane[w] EXCEPT !.pc = "loggedin", !.copy = d]
<1>1. /\ lane[w].pc = "jit" /\ UNCHANGED <<clock, realm, created, phase, human, logins>>
      /\ lane' = [lane EXCEPT ![w].pc = "loggedin", ![w].copy = AfterLogin(@, "ok", life)]
  BY DEF JitSucceeds
<1>2. /\ RealmTypes /\ lane[w].run \in Run /\ phase[lane[w].run] # "unborn"
      /\ lane[w].copy \in Row /\ realm \in Row /\ clock \in Nat /\ lane[w] \in LaneRow
      /\ LaneFits(lane[w]) /\ lane[w].copy.attempt \in Int
  BY <1>1, BusyIs
<1>3. d \in Row /\ d.attempt = lane[w].copy.attempt /\ d.login = clock
  BY <1>2, TimesAssumption, AfterLoginIs
<1>4. lane' = [lane EXCEPT ![w] = me]  BY <1>1, <1>2 DEF LaneRow, Session, RealmTypes
<1> HIDE DEF d
<1>5. /\ me \in LaneRow /\ me.pc = "loggedin" /\ me.run = lane[w].run
      /\ me.loaded = lane[w].loaded /\ me.copy = d
  BY <1>2, <1>3 DEF LaneRow, Session, Busy
<1>6. PICK you : you = me  OBVIOUS
<1> HIDE DEF me
<1>7. Quiet  BY <1>1, <1>2 DEF Quiet, RealmTypes
<1>8. LaneFits(you)'
  <2>1. /\ 0 <= lane[w].copy.attempt /\ lane[w].copy.attempt <= clock
        /\ \A i \in DOMAIN logins :
              logins[i].kind = "user" \/ logins[i].at <= lane[w].copy.attempt
    BY <1>1, <1>2 DEF LaneFits, Busy
  <2>2. ASSUME NEW f \in Firing, f = FiringOf[lane[w].run]
        PROVE  JitFits(you.loaded, you.copy, f)'
    <3>1. JitFits(lane[w].loaded, lane[w].copy, f)  BY <1>1, <1>2, <2>2 DEF LaneFits
    <3>2. you.loaded = lane[w].loaded /\ you.copy.attempt = lane[w].copy.attempt
      BY <1>3, <1>5, <1>6
    <3> QED  BY <1>1, <3>1, <3>2 DEF JitFits, UserSince, Held, JitOf, Spaced
  <2> QED  BY <1>1, <1>2, <1>3, <1>5, <1>6, <2>1, <2>2 DEF LaneFits, Busy
<1>9. StampsStand' /\ CommittedLoginIsSpent'  BY <1>7, QuietKeeps
<1>10. phase' = [phase EXCEPT ![lane[w].run] = phase[lane[w].run]]
  BY <1>1, <1>2 DEF RealmTypes
<1>11. realm' \in Row /\ logins' \in Seq(LoginRow)  BY <1>1, <1>2 DEF RealmTypes
<1> QED  BY <1>1, <1>2, <1>4, <1>5, <1>6, <1>8, <1>9, <1>10, <1>11, LaneStepKeeps

\* A login of a run is answered, and the lane is free, or goes on with its run.
LEMMA AnswerKeeps ==
    ASSUME RealmInv, NEW w, Worker = {w}, lane[w].pc \in Busy,
           NEW kind \in {"jit", "wall"}, kind = "jit" => lane[w].pc \in {"jit", "loggedin"},
           NEW o \in {"ok", "rejected", "outage"}, NEW done \in Int, NEW kept \in BOOLEAN,
           NEW c \in Row,
           c.attempt = lane[w].copy.attempt,
           c.login = lane[w].loaded.login \/ (o = "ok" /\ c.login = done),
           realm' = Merge(realm, lane[w].loaded, c) \/ (realm' = realm /\ ~kept),
           Record(lane[w], kind, o, done, kept),
           NEW me \in LaneRow, lane' = [lane EXCEPT ![w] = me],
           me.pc \in {"free", "works"},
           me.pc = "works" => me.run \in Run /\ phase'[me.run] # "unborn",
           NEW p, phase' = [phase EXCEPT ![lane[w].run] = p],
           UNCHANGED <<clock, created, human>>
    PROVE  RealmInv'
<1> DEFINE e == [run |-> lane[w].run, kind |-> kind, at |-> lane[w].copy.attempt, done |-> done,
                 outcome |-> o, kept |-> kept]
<1>0. lane[w].pc # "free"  BY DEF Busy
<1>1. /\ RealmTypes /\ lane[w].run \in Run /\ phase[lane[w].run] # "unborn"
      /\ lane[w].loaded \in Row /\ lane[w].copy \in Row /\ lane[w].copy.attempt \in Int
      /\ realm \in Row
  BY <1>0, BusyIs
<1>2. logins' = Append(logins, e)  BY DEF Record
<1>3. e \in LoginRow  BY <1>1 DEF LoginRow
<1>4. /\ e.run = lane[w].run /\ e.kind = kind /\ e.at = lane[w].copy.attempt
      /\ e.done = done /\ e.outcome = o /\ e.kept = kept
  OBVIOUS
<1> HIDE DEF e
<1>5. /\ realm' \in Row
      /\ realm'.attempt = lane[w].copy.attempt \/ realm'.attempt = realm.attempt
      /\ kept => \/ realm'.attempt = lane[w].copy.attempt
                 \/ lane[w].loaded.attempt = lane[w].copy.attempt
      /\ realm'.login = realm.login \/ (o = "ok" /\ realm'.login = done)
  <2>1. CASE realm' = Merge(realm, lane[w].loaded, c)
    BY <1>1, <2>1, MergeIs
  <2>2. CASE realm' = realm /\ ~kept
    BY <1>1, <2>2
  <2> QED  BY <2>1, <2>2
<1>6. StampsStand' /\ CommittedLoginIsSpent'
  <2>1. w \in Worker  OBVIOUS
  <2>2. e.kind \in {"jit", "wall"}  BY <1>4
  <2>3. e.kind = "jit" => lane[w].pc \in {"jit", "loggedin"} /\ e.run = lane[w].run  BY <1>4
  <2>4. realm'.attempt = e.at \/ realm'.attempt = realm.attempt  BY <1>4, <1>5
  <2>5. e.kind = "jit" /\ e.kept => realm'.attempt = e.at \/ lane[w].loaded.attempt = e.at
    BY <1>4, <1>5
  <2>6. realm'.login = realm.login \/ (e.outcome = "ok" /\ realm'.login = e.done)
    BY <1>4, <1>5
  <2> QED
    BY <1>2, <1>3, <1>4, <1>5, <2>1, <2>2, <2>3, <2>4, <2>5, <2>6, RunLoginKeeps
<1>7. LaneFits(me)'  BY LaneRests
<1>8. logins' \in Seq(LoginRow)  BY <1>1, <1>2, <1>3, Appended
<1> QED  BY <1>1, <1>5, <1>6, <1>7, <1>8, LaneStepKeeps

LEMMA AnswersKeep ==
    ASSUME RealmInv, NEW w, Worker = {w},
           \/ \E o \in {"rejected", "outage"} : JitFails(w, o) \/ WallAnswer(w, o, 0)
           \/ \E life \in Lives : WallAnswer(w, "ok", life)
           \/ JitCommits(w) \/ JitRolledBack(w)
    PROVE  RealmInv'
<1>0. Free \in LaneRow /\ Free.pc = "free" /\ 0 \in Nat /\ Lives \subseteq Nat
  BY BlankIs, TimesAssumption DEF Free
<1>1. ASSUME NEW o \in {"rejected", "outage"}, JitFails(w, o) PROVE RealmInv'
  <2> DEFINE c == AfterLogin(lane[w].copy, o, 0)
  <2>1. /\ lane[w].pc = "jit" /\ realm' = Merge(realm, lane[w].loaded, c)
        /\ Record(lane[w], "jit", o, clock, TRUE)
        /\ phase' = [phase EXCEPT ![lane[w].run] = "failed"]
        /\ lane' = [lane EXCEPT ![w] = Free] /\ UNCHANGED <<clock, created, human>>
    BY <1>1 DEF JitFails, Write
  <2>2. /\ LaneFits(lane[w]) /\ lane[w].copy \in Row /\ clock \in Nat /\ clock \in Int
    BY <2>1, BusyIs
  <2>3. c \in Row /\ c.attempt = lane[w].copy.attempt /\ c.login = lane[w].copy.login
    <3>1. PICK d \in Row : d = lane[w].copy  BY <2>2
    <3>2. PICK life \in Nat : life = 0  OBVIOUS
    <3>3. o \in {"ok", "rejected", "outage"} /\ o # "ok"  OBVIOUS
    <3>4. /\ AfterLogin(d, o, life) \in Row /\ AfterLogin(d, o, life).attempt = d.attempt
          /\ AfterLogin(d, o, life).login = d.login
      BY <2>2, <3>3, AfterLoginIs
    <3> QED  BY <3>1, <3>2, <3>4
  <2>4. c.login = lane[w].loaded.login  BY <2>1, <2>2, <2>3 DEF LaneFits
  <2>5. lane[w].pc \in Busy  BY <2>1 DEF Busy
  <2> HIDE DEF c
  <2> QED  BY <1>0, <2>1, <2>2, <2>3, <2>4, <2>5, AnswerKeeps
<1>2. ASSUME NEW o \in {"ok", "rejected", "outage"}, NEW life \in Nat, WallAnswer(w, o, life)
      PROVE RealmInv'
  <2> DEFINE c == AfterLogin(lane[w].copy, o, life)
  <2>1. /\ lane[w].pc = "relogin" /\ realm' = Merge(realm, lane[w].loaded, c)
        /\ Record(lane[w], "wall", o, clock, TRUE)
        /\ lane' = [lane EXCEPT ![w] = Free] /\ UNCHANGED <<clock, created, human>>
    BY <1>2 DEF WallAnswer, Write
  <2>2. PICK p : phase' = [phase EXCEPT ![lane[w].run] = p]  BY <1>2 DEF WallAnswer
  <2>3. /\ LaneFits(lane[w]) /\ lane[w].copy \in Row /\ clock \in Nat /\ clock \in Int
    BY <2>1, BusyIs
  <2>4. /\ c \in Row /\ c.attempt = lane[w].copy.attempt
        /\ o = "ok" => c.login = clock
        /\ o # "ok" => c.login = lane[w].copy.login
    <3>1. PICK d \in Row : d = lane[w].copy  BY <2>3
    <3>2. AfterLogin(d, o, life).login = IF o = "ok" THEN clock ELSE d.login
      BY <2>3, AfterLoginIs
    <3>3. AfterLogin(d, o, life) \in Row /\ AfterLogin(d, o, life).attempt = d.attempt
      BY <2>3, AfterLoginIs
    <3> QED  BY <3>1, <3>2, <3>3
  <2>5. c.login = lane[w].loaded.login \/ (o = "ok" /\ c.login = clock)
    BY <2>1, <2>3, <2>4 DEF LaneFits
  <2>6. lane[w].pc \in Busy  BY <2>1 DEF Busy
  <2> HIDE DEF c
  <2> QED  BY <1>0, <2>1, <2>2, <2>3, <2>4, <2>5, <2>6, AnswerKeeps
<1>3. ASSUME JitCommits(w) PROVE RealmInv'
  <2> DEFINE c == lane[w].copy
             me == [lane[w] EXCEPT !.pc = "works", !.loaded = c]
  <2>1. /\ lane[w].pc = "loggedin" /\ realm' = Merge(realm, lane[w].loaded, c)
        /\ Record(lane[w], "jit", "ok", c.login, TRUE)
        /\ lane' = [lane EXCEPT ![w].pc = "works", ![w].loaded = c]
        /\ UNCHANGED <<clock, created, human, phase>>
    BY <1>3 DEF JitCommits, Write
  <2>2. /\ RealmTypes /\ c \in Row /\ c.login \in Int /\ lane[w] \in LaneRow
        /\ lane[w].run \in Run /\ phase[lane[w].run] # "unborn"
    BY <2>1, BusyIs
  <2>3. lane' = [lane EXCEPT ![w] = me]  BY <2>1, <2>2 DEF LaneRow, Session, RealmTypes
  <2>4. me \in LaneRow /\ me.pc = "works" /\ me.run = lane[w].run
    BY <2>2 DEF LaneRow, Session
  <2>5. phase' = [phase EXCEPT ![lane[w].run] = phase[lane[w].run]]
    BY <2>1, <2>2 DEF RealmTypes
  <2>6. lane[w].pc \in Busy  BY <2>1 DEF Busy
  <2>7. phase'[me.run] # "unborn" /\ me.run \in Run  BY <2>1, <2>2, <2>4
  <2>8. PICK p : p = phase[lane[w].run]  OBVIOUS
  <2> HIDE DEF me
  <2>9. phase' = [phase EXCEPT ![lane[w].run] = p]  BY <2>5, <2>8
  <2> QED  BY <2>1, <2>2, <2>3, <2>4, <2>6, <2>7, <2>9, AnswerKeeps
<1>4. ASSUME JitRolledBack(w) PROVE RealmInv'
  <2> DEFINE c == lane[w].copy
  <2>1. /\ lane[w].pc = "loggedin" /\ Record(lane[w], "jit", "ok", c.login, FALSE)
        /\ lane' = [lane EXCEPT ![w] = Free] /\ UNCHANGED <<clock, realm, created, human>>
    BY <1>4 DEF JitRolledBack
  <2>2. PICK p : phase' = [phase EXCEPT ![lane[w].run] = p]  BY <1>4 DEF JitRolledBack
  <2>3. c \in Row /\ c.login \in Int  BY <2>1, BusyIs
  <2>4. lane[w].pc \in Busy  BY <2>1 DEF Busy
  <2> QED  BY <1>0, <2>1, <2>2, <2>3, <2>4, AnswerKeeps
<1> QED  BY <1>0, <1>1, <1>2, <1>3, <1>4

LEMMA RealmKept ==
    ASSUME RealmInv, NEW w, Worker = {w}, Next
    PROVE  RealmInv'
<1>1. ASSUME NEW r \in Run, StartManual(r) \/ Resume(r) PROVE RealmInv'
  BY <1>1, StartKeeps
<1>2. ASSUME NEW f \in Firing, FireJob(f) PROVE RealmInv'  BY <1>2, FireKeeps
<1>3. ASSUME NEW v \in Worker, NEW r \in Run, Begin(v, r) \/ Refuse(v, r) PROVE RealmInv'
  BY <1>3, BeginKeeps, RefuseKeeps
<1>4. ASSUME NEW v \in Worker,
             \/ \E o \in {"rejected", "outage"} : JitFails(v, o) \/ WallAnswer(v, o, 0)
             \/ \E life \in Lives : WallAnswer(v, "ok", life)
             \/ JitCommits(v) \/ JitRolledBack(v)
      PROVE RealmInv'
  <2>1. v = w  OBVIOUS
  <2> QED  BY <1>4, <2>1, AnswersKeep
<1>5. ASSUME NEW v \in Worker, NEW life \in Lives, JitSucceeds(v, life) PROVE RealmInv'
  BY <1>5, SuccessKeeps
<1>6. ASSUME NEW v \in Worker, WallRelogin(v) PROVE RealmInv'  BY <1>6, ReloginKeeps
<1>7. ASSUME NEW v \in Worker, WallPause(v) \/ Finish(v) PROVE RealmInv'
  BY <1>7, LeaveKeeps
<1>8. ASSUME LoginCall PROVE RealmInv'  BY <1>8, UserBeginsKeeps
<1>9. ASSUME \/ \E o \in {"rejected", "outage"} : LoginAnswer(o, 0)
             \/ \E life \in Lives : LoginAnswer("ok", life)
      PROVE RealmInv'
  <2>1. 0 \in Nat /\ Lives \subseteq Nat  BY TimesAssumption
  <2> QED  BY <1>9, <2>1, UserAnswersKeeps
<1>10. ASSUME \/ \E life \in Lives : Upload(life)
              \/ \E saved \in BOOLEAN : ChangeCredentials(saved)
              \/ TestHitsWall \/ TimePasses
       PROVE RealmInv'
  BY <1>10, RowKeeps
<1> QED
  BY <1>1, <1>2, <1>3, <1>4, <1>5, <1>6, <1>7, <1>8, <1>9, <1>10 DEF Next

\* The runs of one firing log in once: after a login that was committed, well or badly, and
\* as long as the user does not log in, the next run of the firing logs in only when a
\* success came since and the floor has passed (session_for_run, with one extraction lane).
THEOREM SiblingsStayQuiet ==
    ASSUME NEW CONSTANT w, Worker = {w}
    PROVE  ServicesSpec => []SiblingsDoNotRepeat
<1> DEFINE I == part = "realm" => RealmInv
<1>1. ServicesInit => I
  BY RealmStarts DEF ServicesInit
<1>2. I /\ [ServicesNext]_serviceVars => I'
  <2> SUFFICES ASSUME I, [ServicesNext]_serviceVars, part' = "realm" PROVE RealmInv'
    OBVIOUS
  <2>1. CASE UNCHANGED serviceVars
    <3>1. UNCHANGED vars /\ RealmInv  BY <2>1 DEF serviceVars, realmVars
    <3> QED
      BY <3>1 DEF vars, RealmInv, RealmTypes, FiringsFit, HumanFits, StampsStand, StampStands,
                  CommittedLoginIsSpent, JitOf, SpacedOut, Held, UserSince, Answered, Spaced,
                  LaneFits, JitFits
  <2>2. CASE ServicesNext
    <3>1. Next /\ RealmInv  BY <2>2 DEF ServicesNext
    <3> QED  BY <3>1, RealmKept
  <2> QED  BY <2>1, <2>2
<1>3. I => SiblingsDoNotRepeat
  BY DEF SiblingsDoNotRepeat, RealmInv
<1> QED  BY <1>1, <1>2, <1>3, PTL DEF ServicesSpec
=============================================================================
