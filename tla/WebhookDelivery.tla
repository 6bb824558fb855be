--------------------------- MODULE WebhookDelivery ---------------------------
(***************************************************************************)
(* Webhooks: the configuration rows the API edits, the per-process run     *)
(* plan that keeps deliveries off the extraction path, and the background  *)
(* tasks of the worker that post an event to each eligible hook, retry,    *)
(* and log the outcome on a session of their own                           *)
(* (services/webhook_dispatcher.py, routes/webhooks.py).                   *)
(*                                                                         *)
(* A page event is spawned after its page is committed; the completion     *)
(* event before the run's last commit.  Nothing about an event is stored   *)
(* until its delivery ends: a crash of the worker loses what is in flight. *)
(***************************************************************************)
EXTENDS Naturals, FiniteSets, FiniteSetsExt

CONSTANTS
    Hooks,          \* the webhook ids
    Sources,        \* documentation sources, one run each
    Global,         \* source_id NULL: every source
    Events,         \* the event types
    Final,          \* extraction_complete
    RETRY_DELAYS,   \* the number of attempts of a delivery
    MaxEvents       \* page events and completions together (bound)

VARIABLES
    hook,       \* the row of each webhook, {} when there is none
    source,     \* the sources that exist
    plan,       \* _run_plans: the subscribed events of a run, <<>>: no plan
    task,       \* spawned events that have not been dispatched yet
    post,       \* deliveries in progress
    log,        \* webhook_deliveries
    spawned     \* events spawned so far

vars == <<hook, source, plan, task, post, log, spawned>>

NoPlan == {"none"}

\* A webhook, and the row that logs a delivery of it.
NewHook(scope, events) ==
    [scope |-> scope, events |-> events, active |-> TRUE, deliveries |-> 0, failures |-> 0]
Logged(d) == [hook |-> d.hook, n |-> d.n, success |-> d.success]

Init ==
    /\ hook = [h \in Hooks |-> {}]
    /\ source = Sources
    /\ plan = [s \in Sources |-> NoPlan]
    /\ task = {} /\ post = {} /\ log = {} /\ spawned = 0

-----------------------------------------------------------------------------
(* The API.                                                                *)

CreateHook(h, scope, events) ==
    /\ hook[h] = {}
    /\ scope \in source \cup {Global} /\ events # {}
    /\ hook' = [hook EXCEPT ![h] = {NewHook(scope, events)}]
    /\ UNCHANGED <<source, plan, task, post, log, spawned>>

\* A patch sets what it names; the scope can be set to a source, never back to
\* every source.
UpdateHook(h) ==
    \E w \in hook[h], s \in source \cup {Global}, active \in BOOLEAN :
        /\ hook' = [hook EXCEPT ![h] = {[w EXCEPT !.active = active,
                       !.scope = IF s = Global THEN @ ELSE s]}]
        /\ hook' # hook
        /\ UNCHANGED <<source, plan, task, post, log, spawned>>

\* The deliveries of a deleted webhook go with it.
DeleteHook(h) ==
    /\ hook[h] # {}
    /\ hook' = [hook EXCEPT ![h] = {}]
    /\ log' = {d \in log : d.hook # h}
    /\ UNCHANGED <<source, plan, task, post, spawned>>

\* The foreign key of a webhook is SET NULL, and NULL is the global scope.
DeleteSource(s) ==
    /\ s \in source
    /\ source' = source \ {s}
    /\ hook' = [h \in Hooks |->
                  {[w EXCEPT !.scope = IF @ = s THEN Global ELSE @] : w \in hook[h]}]
    /\ UNCHANGED <<plan, task, post, log, spawned>>

-----------------------------------------------------------------------------
(* The run and its plan.                                                   *)

InScope(s) == {w \in UNION {hook[h] : h \in Hooks} :
                  w.active /\ w.scope \in {s, Global}}

\* prepare_run: the events anyone in scope subscribes to, read once.  Plans
\* that a crashed or cancelled run left are dropped when their time is up.
PrepareRun(s) ==
    /\ s \in source /\ spawned < MaxEvents
    /\ \E pruned \in SUBSET (Sources \ {s}) :
          plan' = [r \in Sources |->
                     CASE r = s -> UNION {w.events : w \in InScope(s)}
                       [] r \in pruned -> NoPlan
                       [] OTHER -> plan[r]]
    /\ UNCHANGED <<hook, source, task, post, log, spawned>>

\* A page of the run was committed, or the run is done: an event goes out only
\* when the plan has a subscriber.  The end of the run drops the plan.
Emit(s, e) ==
    /\ s \in source /\ plan[s] # NoPlan /\ spawned < MaxEvents
    /\ IF e \in plan[s]
       THEN /\ task' = task \cup {[source |-> s, event |-> e, n |-> spawned + 1]}
            /\ spawned' = spawned + 1
       ELSE UNCHANGED <<task, spawned>>
    /\ plan' = IF e = Final THEN [plan EXCEPT ![s] = NoPlan] ELSE plan
    /\ UNCHANGED <<hook, source, post, log>>

-----------------------------------------------------------------------------
(* Delivery.                                                               *)

Eligible(s, e) == {h \in Hooks : \E w \in hook[h] :
                      w.active /\ w.scope \in {s, Global} /\ e \in w.events}

\* The hooks are read again, now; each gets a delivery of its own, with the row
\* as it was read.
Dispatch(t) ==
    /\ t \in task
    /\ task' = task \ {t}
    /\ post' = post \cup
         {[hook |-> h, source |-> t.source, n |-> t.n, attempt |-> 0,
           success |-> FALSE, read |-> CHOOSE w \in hook[h] : TRUE] :
             h \in Eligible(t.source, t.event)}
    /\ UNCHANGED <<hook, source, plan, log, spawned>>

\* One POST: anything but a 2xx is tried again after a delay.
Attempt(d, ok) ==
    /\ d \in post /\ ~d.success /\ d.attempt < RETRY_DELAYS
    /\ post' = (post \ {d}) \cup {[d EXCEPT !.attempt = @ + 1, !.success = ok]}
    /\ UNCHANGED <<hook, source, plan, task, log, spawned>>

Ended(d) == d.success \/ d.attempt = RETRY_DELAYS

\* Mutant of Counted: the counters are written from the row that was read when
\* the event was dispatched.
CountedFromRead(w, d) ==
    [w EXCEPT !.deliveries = d.read.deliveries + 1,
              !.failures = d.read.failures + (IF d.success THEN 0 ELSE 1)]

\* The counters are incremented in the database, where a concurrent delivery
\* may have incremented them since.
Counted(w, d) ==
    [w EXCEPT !.deliveries = @ + 1,
              !.failures = @ + (IF d.success THEN 0 ELSE 1)]

\* The delivery row and the counters, in one transaction.
Persist(d) ==
    /\ d \in post /\ Ended(d) /\ hook[d.hook] # {}
    /\ post' = post \ {d}
    /\ log' = log \cup {Logged(d)}
    /\ hook' = [hook EXCEPT ![d.hook] = {Counted(w, d) : w \in @}]
    /\ UNCHANGED <<source, plan, task, spawned>>

\* The webhook is gone (the foreign key fails) or the database is: swallowed.
PersistFails(d) ==
    /\ d \in post /\ Ended(d)
    /\ post' = post \ {d}
    /\ UNCHANGED <<hook, source, plan, task, log, spawned>>

\* The worker's memory: plans and tasks.
WorkerCrash ==
    /\ post \cup task # {}
    /\ plan' = [s \in Sources |-> NoPlan]
    /\ task' = {} /\ post' = {}
    /\ UNCHANGED <<hook, source, log, spawned>>

Next ==
    \/ \E h \in Hooks : \/ \E scope \in Sources \cup {Global} :
                             \E events \in SUBSET Events : CreateHook(h, scope, events)
                        \/ UpdateHook(h) \/ DeleteHook(h)
    \/ \E s \in Sources : \/ DeleteSource(s) \/ PrepareRun(s)
                          \/ \E e \in Events : Emit(s, e)
    \/ \E t \in task : Dispatch(t)
    \/ \E d \in post : \/ \E ok \in BOOLEAN : Attempt(d, ok)
                       \/ Persist(d) \/ PersistFails(d)
    \/ WorkerCrash

Spec == Init /\ [][Next]_vars

-----------------------------------------------------------------------------
(* The counters of a webhook agree with its delivery log, whatever         *)
(* deliveries to it ran at the same time and whichever could not be        *)
(* persisted (_deliver_one).                                               *)
CountersMatchLog ==
    \A h \in Hooks : \A w \in hook[h] :
        LET rows == {d \in log : d.hook = h}
        IN  /\ w.deliveries = Cardinality(rows)
            /\ w.failures = Cardinality({d \in rows : ~d.success})
=============================================================================
