----------------------------- MODULE SourceLock -----------------------------
(***************************************************************************)
(* What the run queue promises about one source: a run rewrites its        *)
(* articles alone, exports read them together, and never both at once.     *)
(* RunQueue implements this readers-writer lock with two SQL claims.       *)
(***************************************************************************)
CONSTANTS Source, Run, Export, SourceOf, XSourceOf, NoRun

VARIABLES
    writer,     \* the run that is rewriting each source, or NoRun
    readers     \* the exports that are reading each source

lockVars == <<writer, readers>>

TypeOK == /\ writer \in [Source -> Run \cup {NoRun}]
          /\ readers \in [Source -> SUBSET Export]

Init == /\ writer = [s \in Source |-> NoRun]
        /\ readers = [s \in Source |-> {}]

AcquireWrite(r) ==
    /\ writer[SourceOf[r]] = NoRun
    /\ readers[SourceOf[r]] = {}
    /\ writer' = [writer EXCEPT ![SourceOf[r]] = r]
    /\ UNCHANGED readers

ReleaseWrite(r) ==
    /\ writer[SourceOf[r]] = r
    /\ writer' = [writer EXCEPT ![SourceOf[r]] = NoRun]
    /\ UNCHANGED readers

AcquireRead(x) ==
    /\ writer[XSourceOf[x]] = NoRun
    /\ x \notin readers[XSourceOf[x]]
    /\ readers' = [readers EXCEPT ![XSourceOf[x]] = @ \cup {x}]
    /\ UNCHANGED writer

ReleaseRead(x) ==
    /\ x \in readers[XSourceOf[x]]
    /\ readers' = [readers EXCEPT ![XSourceOf[x]] = @ \ {x}]
    /\ UNCHANGED writer

Next == \/ \E r \in Run : AcquireWrite(r) \/ ReleaseWrite(r)
        \/ \E x \in Export : AcquireRead(x) \/ ReleaseRead(x)

Spec == Init /\ [][Next]_lockVars
=============================================================================
