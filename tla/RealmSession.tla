---------------------------- MODULE RealmSession ----------------------------
(***************************************************************************)
(* The session of one login realm, shared by the runs of its sources. A    *)
(* run started by a job logs the realm in just in time, or once more when  *)
(* it hits an auth wall; a user logs in, uploads a session, tests it or    *)
(* changes the credentials through the API. Every actor works on its own   *)
(* copy of the realm's row, loaded when it starts, and writes back the     *)
(* columns it changed when it commits.                                     *)
(*                                                                         *)
(* Time is counted in half hours: the floor between two logins of a firing *)
(* is 1, the horizon of a just-in-time login 2, and the five minutes of    *)
(* margin are 0.                                                           *)
(***************************************************************************)
EXTENDS Integers, Sequences, FiniteSets

CONSTANTS
    Run,            \* the runs of the realm's sources
    Firing,         \* the job runs
    FiringOf,       \* the job run of each run, or NoFiring
    NoFiring,
    Worker,         \* extraction lanes: one in each worker process
    Lives,          \* how long the cookies of a new session may last
    MaxTime,        \* bound on the clock
    MaxLogins,      \* bound on the logins ever attempted
    MaxHuman        \* bound on the user's calls

ASSUME RunsAssumption == FiringOf \in [Run -> Firing \cup {NoFiring}] /\ NoFiring \notin Firing
ASSUME TimesAssumption == Lives \subseteq Nat /\ MaxTime \in Nat /\ MaxLogins \in Nat /\ MaxHuman \in Nat

Horizon == 2        \* JIT_LOGIN_HORIZON
Floor == 1          \* FIRING_RELOGIN_FLOOR
Margin == 0         \* FIRING_RELOGIN_MARGIN
Never == -1         \* a null timestamp

Status == {"needs_login", "active", "expired", "login_failed"}

VARIABLES
    clock,
    realm,          \* the committed row
    created,        \* when each firing was created, or Never
    phase,          \* what each run is doing
    spent,          \* runs whose automatic re-login is used up
    lane,           \* the run each worker works on, with its copy of the row
    human,          \* a login through the API, with its copy of the row
    logins,         \* every scripted login, in the order they were committed or lost
    calls

vars == <<clock, realm, created, phase, spent, lane, human, logins, calls>>

\* The credential columns are saved or not; the snapshot is its cookies' expiry.
Row == [status : Status, creds : BOOLEAN, expires : Int, attempt : Int, login : Int]

NoRun == "none"
Blank == [status |-> "needs_login", creds |-> FALSE, expires |-> Never, attempt |-> Never,
          login |-> Never]
\* A session on the row: what it loaded, and what it made of it since.
Free == [run |-> NoRun, pc |-> "free", loaded |-> Blank, copy |-> Blank]

TypeOK ==
    /\ clock \in 0 .. MaxTime
    /\ realm \in Row
    /\ created \in [Firing -> Never .. MaxTime]
    /\ phase \in [Run -> {"unborn", "queued", "running", "paused", "done", "failed"}]
    /\ spent \subseteq Run
    /\ \A w \in Worker :
          /\ lane[w].run \in Run \cup {NoRun}
          /\ lane[w].pc \in {"free", "jit", "loggedin", "works", "relogin"}
          /\ {lane[w].loaded, lane[w].copy} \subseteq Row
          /\ lane[w].run # NoRun => phase[lane[w].run] = "running"
    /\ human.pc \in {"free", "login"} /\ {human.loaded, human.copy} \subseteq Row
    /\ Len(logins) <= MaxLogins
    /\ calls \in 0 .. MaxHuman
-----------------------------------------------------------------------------
(* What the code asks of a row (a copy) *)

HasSnapshot(c) == c.expires # Never
Usable(c) == c.status = "active" /\ HasSnapshot(c)

\* _session_stale, _firing_session_spent, _logged_in_this_firing
Stale(c) == ~Usable(c) \/ c.expires <= clock + Horizon

SessionSpent(c) ==
    /\ c.status = "active"
    /\ c.login # Never
    /\ c.attempt <= c.login
    /\ clock - c.login >= Floor
    /\ HasSnapshot(c) /\ c.expires <= clock + Margin

\* Mutant of LoggedInBy: only success counts.
LoggedInWell(c, f) == c.login # Never /\ c.login >= created[f]

LoggedInBy(c, f) == \/ c.attempt # Never /\ c.attempt >= created[f]
                    \/ c.login # Never /\ c.login >= created[f]

\* session_for_run: whether a run logs in, takes the session there is, or fails.
Decision(r, c) ==
    LET f == FiringOf[r]
        ensured == IF Usable(c) THEN "use" ELSE IF c.creds THEN "login" ELSE "refuse"
    IN  IF f = NoFiring THEN ensured
        ELSE IF c.status = "login_failed" THEN "refuse"
        ELSE IF ~c.creds \/ ~Stale(c) THEN ensured
        ELSE IF ~LoggedInBy(c, f) \/ SessionSpent(c) THEN "login"
        ELSE IF Usable(c) THEN "use" ELSE "refuse"

CanRelogin(r, c) == FiringOf[r] # NoFiring /\ r \notin spent
                    /\ c.status # "login_failed" /\ c.creds

\* What run_scripted_login leaves in the copy, for each answer.  The attempt was
\* stamped when it was made.
AfterLogin(c, outcome, life) ==
    CASE outcome = "ok" -> [c EXCEPT !.status = "active", !.expires = clock + life, !.login = clock]
      [] outcome = "rejected" -> [c EXCEPT !.status = "login_failed"]
      [] outcome = "outage" /\ c.status # "login_failed" -> [c EXCEPT !.status = "expired"]
      [] OTHER -> c

\* A commit writes the columns in which the copy differs from what was loaded.
Merge(row, loaded, c) ==
    [k \in DOMAIN row |-> IF c[k] # loaded[k] THEN c[k] ELSE row[k]]

\* run_scripted_login flushes a success: its transaction holds the row until it ends.
RowIsFree == \A w \in Worker : lane[w].pc # "loggedin"

Write(session, c) == realm' = Merge(realm, session.loaded, c)

\* The login a session tried, when it was answered, and whether its stamp reached
\* the database.
Record(session, kind, outcome, done, kept) ==
    /\ Len(logins) < MaxLogins
    /\ logins' = Append(logins, [run |-> session.run, kind |-> kind, at |-> session.copy.attempt,
                                 done |-> done, outcome |-> outcome, kept |-> kept])
-----------------------------------------------------------------------------
(* The runs *)

\* The trigger route refuses a realm that blocks extraction, a firing one that no
\* login could help.
StartManual(r) ==
    /\ FiringOf[r] = NoFiring /\ phase[r] = "unborn"
    /\ realm.status # "expired" /\ (HasSnapshot(realm) => realm.expires > clock)
    /\ phase' = [phase EXCEPT ![r] = "queued"]
    /\ UNCHANGED <<clock, realm, created, spent, lane, human, logins, calls>>

FireJob(f) ==
    /\ created[f] = Never
    /\ realm.status # "login_failed"
    /\ realm.creds \/ (Usable(realm) /\ realm.expires > clock)
    /\ created' = [created EXCEPT ![f] = clock]
    /\ phase' = [r \in Run |-> IF FiringOf[r] = f THEN "queued" ELSE phase[r]]
    /\ UNCHANGED <<clock, realm, spent, lane, human, logins, calls>>

\* A worker claims the run and asks session_for_run.
Begin(w, r) ==
    /\ lane[w] = Free /\ phase[r] = "queued"
    /\ Decision(r, realm) # "refuse"
    /\ phase' = [phase EXCEPT ![r] = "running"]
    /\ lane' = [lane EXCEPT ![w] =
          IF Decision(r, realm) = "use"
          THEN [run |-> r, pc |-> "works", loaded |-> realm, copy |-> realm]
          ELSE [run |-> r, pc |-> "jit", loaded |-> realm,
                copy |-> [realm EXCEPT !.attempt = clock]]]
    /\ UNCHANGED <<clock, realm, created, spent, human, logins, calls>>

\* NeedsLoginError without a login: ensure_session marks the realm, the guards of
\* session_for_run leave it as it is.
Refuse(w, r) ==
    /\ lane[w] = Free /\ phase[r] = "queued"
    /\ Decision(r, realm) = "refuse"
    /\ RowIsFree
    /\ phase' = [phase EXCEPT ![r] = "failed"]
    /\ realm' = IF ~realm.creds /\ (FiringOf[r] # NoFiring => realm.status # "login_failed")
                THEN [realm EXCEPT !.status = "needs_login"] ELSE realm
    /\ UNCHANGED <<clock, created, spent, lane, human, logins, calls>>

\* The just-in-time login answers: a failure fails the run and is committed with
\* it, a success is only flushed.
JitFails(w, outcome) ==
    LET me == lane[w] IN
    /\ me.pc = "jit" /\ RowIsFree
    /\ Write(me, AfterLogin(me.copy, outcome, 0))
    /\ Record(me, "jit", outcome, clock, TRUE)
    /\ phase' = [phase EXCEPT ![me.run] = "failed"]
    /\ lane' = [lane EXCEPT ![w] = Free]
    /\ UNCHANGED <<clock, created, spent, human, calls>>

JitSucceeds(w, life) ==
    /\ lane[w].pc = "jit" /\ RowIsFree
    /\ lane' = [lane EXCEPT ![w].pc = "loggedin", ![w].copy = AfterLogin(@, "ok", life)]
    /\ UNCHANGED <<clock, realm, created, phase, spent, human, logins, calls>>

\* The next commit of the run keeps it ...
JitCommits(w) ==
    LET me == lane[w] IN
    /\ me.pc = "loggedin"
    /\ Write(me, me.copy)
    /\ Record(me, "jit", "ok", me.copy.login, TRUE)
    /\ lane' = [lane EXCEPT ![w].pc = "works", ![w].loaded = me.copy]
    /\ UNCHANGED <<clock, created, phase, spent, human, calls>>

\* ... but Firecrawl may be down, the PDF may not be had, or the worker is lost
\* before it: the rollback takes the session and the stamps of the login with it.
JitRolledBack(w) ==
    LET me == lane[w] IN
    /\ me.pc = "loggedin"
    /\ Record(me, "jit", "ok", me.copy.login, FALSE)
    /\ \E p \in {"queued", "failed"} : phase' = [phase EXCEPT ![me.run] = p]
    /\ lane' = [lane EXCEPT ![w] = Free]
    /\ UNCHANGED <<clock, realm, created, spent, human, calls>>

\* The run hits an auth wall.  Its copy is as old as the run, or read again after
\* a rollback.  It may log in again ...
WallRelogin(w) ==
    LET me == lane[w] IN
    /\ me.pc = "works"
    /\ \E c \in {me.copy, realm} :
          /\ CanRelogin(me.run, c)
          /\ lane' = [lane EXCEPT ![w] = [me EXCEPT !.pc = "relogin", !.loaded = c,
                                                    !.copy = [c EXCEPT !.attempt = clock]]]
    /\ spent' = spent \cup {me.run}
    /\ UNCHANGED <<clock, realm, created, phase, human, logins, calls>>

\* ... or it marks the realm expired and waits for the user, paused.
WallPause(w) ==
    LET me == lane[w] IN
    /\ me.pc = "works" /\ RowIsFree
    /\ \E c \in {me.copy, realm} :
          /\ ~CanRelogin(me.run, c)
          /\ realm' = IF c.status = "login_failed" THEN realm
                      ELSE Merge(realm, c, [c EXCEPT !.status = "expired"])
    /\ phase' = [phase EXCEPT ![me.run] = "paused"]
    /\ lane' = [lane EXCEPT ![w] = Free]
    /\ UNCHANGED <<clock, created, spent, human, logins, calls>>

\* The re-login answers: the run goes back to the queue, or pauses.
WallAnswer(w, outcome, life) ==
    LET me == lane[w] IN
    /\ me.pc = "relogin" /\ RowIsFree
    /\ Write(me, AfterLogin(me.copy, outcome, life))
    /\ Record(me, "wall", outcome, clock, TRUE)
    /\ phase' = [phase EXCEPT ![me.run] = IF outcome = "ok" THEN "queued" ELSE "paused"]
    /\ lane' = [lane EXCEPT ![w] = Free]
    /\ UNCHANGED <<clock, created, spent, human, calls>>

Finish(w) ==
    /\ lane[w].pc = "works"
    /\ phase' = [phase EXCEPT ![lane[w].run] = "done"]
    /\ lane' = [lane EXCEPT ![w] = Free]
    /\ UNCHANGED <<clock, realm, created, spent, human, logins, calls>>
-----------------------------------------------------------------------------
(* The user *)

Call == calls < MaxHuman /\ calls' = calls + 1

Resume(r) ==
    /\ Call /\ phase[r] = "paused"
    /\ phase' = [phase EXCEPT ![r] = "queued"]
    /\ UNCHANGED <<clock, realm, created, spent, lane, human, logins>>

\* POST login runs the scripted login, whatever the status is.
LoginCall ==
    /\ Call /\ human.pc = "free" /\ realm.creds
    /\ human' = [run |-> NoRun, pc |-> "login", loaded |-> realm,
                 copy |-> [realm EXCEPT !.attempt = clock]]
    /\ UNCHANGED <<clock, realm, created, phase, spent, lane, logins>>

LoginAnswer(outcome, life) ==
    /\ human.pc = "login" /\ RowIsFree
    /\ Write(human, AfterLogin(human.copy, outcome, life))
    /\ Record(human, "user", outcome, clock, TRUE)
    /\ human' = Free
    /\ UNCHANGED <<clock, created, phase, spent, lane, calls>>

Upload(life) ==
    /\ Call /\ RowIsFree
    /\ realm' = [realm EXCEPT !.status = "active", !.expires = clock + life]
    /\ UNCHANGED <<clock, created, phase, spent, lane, human, logins>>

\* New credentials, or none, lift a rejection.
ChangeCredentials(saved) ==
    /\ Call /\ RowIsFree
    /\ realm' = [realm EXCEPT !.creds = saved,
                              !.status = IF @ = "login_failed" THEN "needs_login" ELSE @]
    /\ UNCHANGED <<clock, created, phase, spent, lane, human, logins>>

\* POST test meets an auth wall with the session there is.
TestHitsWall ==
    /\ Call /\ RowIsFree /\ Usable(realm)
    /\ realm' = [realm EXCEPT !.status = "expired"]
    /\ UNCHANGED <<clock, created, phase, spent, lane, human, logins>>

TimePasses ==
    /\ clock < MaxTime
    /\ clock' = clock + 1
    /\ UNCHANGED <<realm, created, phase, spent, lane, human, logins, calls>>
-----------------------------------------------------------------------------
\* A realm is new, or has a session that a user uploaded; credentials or none.
Init ==
    /\ clock = 0
    /\ \E c \in BOOLEAN :
          \/ realm = [Blank EXCEPT !.creds = c]
          \/ \E e \in Lives : realm = [Blank EXCEPT !.status = "active", !.creds = c, !.expires = e]
    /\ created = [f \in Firing |-> Never]
    /\ phase = [r \in Run |-> "unborn"]
    /\ spent = {}
    /\ lane = [w \in Worker |-> Free]
    /\ human = Free
    /\ logins = << >>
    /\ calls = 0

Next ==
    \/ \E r \in Run : StartManual(r) \/ Resume(r)
    \/ \E f \in Firing : FireJob(f)
    \/ \E w \in Worker :
          \/ \E r \in Run : Begin(w, r) \/ Refuse(w, r)
          \/ \E o \in {"rejected", "outage"} : JitFails(w, o) \/ WallAnswer(w, o, 0)
          \/ \E life \in Lives : JitSucceeds(w, life) \/ WallAnswer(w, "ok", life)
          \/ JitCommits(w) \/ JitRolledBack(w)
          \/ WallRelogin(w) \/ WallPause(w) \/ Finish(w)
    \/ LoginCall
    \/ \E o \in {"rejected", "outage"} : LoginAnswer(o, 0)
    \/ \E life \in Lives : LoginAnswer("ok", life) \/ Upload(life)
    \/ \E saved \in BOOLEAN : ChangeCredentials(saved)
    \/ TestHitsWall
    \/ TimePasses

Spec == Init /\ [][Next]_vars
-----------------------------------------------------------------------------
(* Properties *)

JitOf(i, f) == logins[i].kind = "jit" /\ FiringOf[logins[i].run] = f

\* Between two just-in-time logins of one firing somebody's login succeeded, and
\* the floor has passed since.
SpacedOut(i, k) ==
    \E m \in i .. k - 1 : logins[m].outcome = "ok" /\ logins[k].at - logins[m].done >= Floor

\* A firing whose login was committed, well or badly, does not log in again: a
\* rejected password is not tried once per source, and an odd cookie does not make
\* one login per source.  (A user's own login since, or one that was under way, may
\* put back an older stamp or a newer success: that is the user's choice.)
CommittedLoginIsSpent ==
    \A i, k \in DOMAIN logins : \A f \in Firing :
        /\ i < k /\ JitOf(i, f) /\ JitOf(k, f) /\ logins[i].kept
        /\ \A m \in DOMAIN logins : logins[m].kind = "user" => logins[m].done < logins[i].at
        => SpacedOut(i, k)
=============================================================================
