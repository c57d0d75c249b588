-------------------------------- MODULE Dashboard --------------------------------
(***************************************************************************)
(* The single-machine dashboard (dashboard/runtime.py Runtime): a browser  *)
(* begins and stops sessions and answers comparisons; each session is a    *)
(* SessionGuard on a connection and a task, communicate, that exchanges    *)
(* data and assesses.  The process may crash; the store survives.          *)
(*                                                                         *)
(* Pc of a task: connect is begin's own await, before there is a task;     *)
(* closing and unwind are the connection.close of a restriction, with and  *)
(* without an await; closed is the await of SessionGuard.close.            *)
(***************************************************************************)
EXTENDS TrustGuard, FiniteSets

CONSTANTS MaxCrashes,
          RaceKinds     \* the requests that may race another one (Races below)

ASSUME DashboardAssumption == MaxCrashes \in Nat /\ RaceKinds \subseteq {"begin", "stop"}

VARIABLES latest,   \* Runtime.task, 0 is None
          crashes,
          races     \* the kinds of request that have raced another one

vars == <<guardVars, current, latest, crashes, races>>

RuntimeTypeOK ==
    GuardTypeOK /\ latest \in 0 .. MaxBegins /\ crashes \in 0 .. MaxCrashes

TypeOK == RuntimeTypeOK /\ races \subseteq RaceKinds

Init == GuardInit /\ latest = 0 /\ crashes = 0 /\ races = {}

Running(g) == task[g].pc \notin {"unused", "connect", "ended"}

(* What a step of communicate outside assess leaves alone                     *)
Communicates ==
    UNCHANGED <<current, latest, crashes, answer, sessions, owed, failed, compared>>

AtRest == UNCHANGED <<latest, crashes>>

-------------------------------------------------------------------------------
(* begin: refused while a session runs, up to the await of the connection     *)
Begin(g) ==
    /\ task[g].pc = "unused" /\ \A h \in Begins : h < g => task[h].pc # "unused"
    /\ latest # 0 => ~Running(latest)
    /\ Goto(g, "connect")
    /\ UNCHANGED <<db, conn, guard, faults>> /\ Communicates

(* Connected: SessionGuard.__init__ takes the verified flag from the store,   *)
(* and the task is created.  If the store raises, begin fails, and neither    *)
(* the connection nor a row already written has an owner.                     *)
Begun(g) ==
    LET n == sessions + 1
        started == StartSession(db, n)
    IN /\ task[g].pc = "connect" /\ sessions < MaxSessions
       /\ sessions' = n
       /\ \/ /\ db' = started
             /\ guard' = [guard EXCEPT ![g] = [session |-> n, verified |-> db.verified,
                                               restricted |-> FALSE]]
             /\ conn' = [conn EXCEPT ![n] = IF db.verified THEN "open" ELSE "gated"]
             /\ current' = g /\ latest' = g
             /\ Goto(g, "start")
             /\ UNCHANGED faults
          \/ /\ faults < MaxFaults
             /\ faults' = faults + 1
             /\ db' \in {db, started}
             /\ conn' = [conn EXCEPT ![n] = "gated"]
             /\ Goto(g, "ended")
             /\ UNCHANGED <<guard, current, latest>>
       /\ UNCHANGED <<answer, crashes, owed, failed, compared>>

BeginFails(g) ==
    /\ task[g].pc = "connect"
    /\ Goto(g, "ended")
    /\ UNCHANGED <<db, conn, guard, faults>> /\ Communicates

(* communicate assesses at once.                                              *)
Start(g) == task[g].pc = "start" /\ Assesses(g, current) /\ AtRest

LockGot(g) ==
    /\ task[g].pc = "lock" /\ ~Locked(task[g].on)
    /\ Assesses(g, task[g].on) /\ AtRest

(* The payload came back, over a connection that is still open; assess again. *)
Exchanged(g) ==
    /\ task[g].pc = "exchange"
    /\ conn[guard[task[g].on].session] = "open"
    /\ Assesses(g, current) /\ AtRest

(* send or receive raises, having closed the connection, or another payload   *)
(* came back.                                                                 *)
ExchangeFails(g) ==
    LET s == guard[task[g].on].session IN
    /\ task[g].pc = "exchange"
    /\ \/ /\ conn' = [conn EXCEPT ![s] = "closed"]
          /\ Leaves(g, 0, s, "error")
       \/ /\ UNCHANGED conn
          /\ task' = [task EXCEPT ![g].pc = "unwind", ![g].cause = "error"]
    /\ UNCHANGED <<db, guard, faults>> /\ Communicates

Wakes(g) ==
    /\ task[g].pc = "sleep"
    /\ UNCHANGED <<db, conn, guard, faults>> /\ Loops(g)
    /\ Communicates

-------------------------------------------------------------------------------
(* The end of communicate                                                     *)

Unwinding(g, cause) == task[g].pc \in {"closing", "unwind"} /\ task[g].cause = cause

(* assess returned from a restriction.                                        *)
ReturnsRestricted(g) ==
    /\ Unwinding(g, "return")
    /\ UNCHANGED <<db, conn, guard, faults>> /\ Returns(g)
    /\ Communicates

(* except Exception: restrict whatever guard the runtime has now.             *)
HandlesError(g) ==
    LET s == guard[current].session IN
    /\ Unwinding(g, "error")
    /\ Shuts(current, s) /\ Leaves(g, 0, s, "cancel")
    /\ \/ db' = Restriction(db, s) /\ UNCHANGED faults
       \/ /\ faults < MaxFaults
          /\ faults' = faults + 1
          /\ db' \in RestrictionTried({db}, s)
    /\ Communicates

(* Mutant: the third status that finish_session accepts                       *)
EndFailed(q) == IF guard[q].restricted THEN "FAILED" ELSE "CLOSED"

EndStatus(q) == IF guard[q].restricted THEN "RESTRICTED" ELSE "CLOSED"

(* SessionGuard.close after the connection has closed: the row ends.          *)
EndsRow(g, q) ==
    LET s == guard[q].session IN
    /\ Goto(g, "ended")
    /\ \/ db' = FinishSession(db, s, EndStatus(q)) /\ UNCHANGED faults
       \/ /\ faults < MaxFaults
          /\ faults' = faults + 1
          /\ UNCHANGED db

(* finally: guard.close()                                                     *)
Finally(g) ==
    LET s == guard[current].session IN
    /\ Unwinding(g, "cancel")
    /\ IF IsUp(s)
       THEN /\ conn' = [conn EXCEPT ![s] = "closed"]
            /\ task' = [task EXCEPT ![g].pc = "closed", ![g].on = current]
            /\ UNCHANGED <<db, faults>>
       ELSE EndsRow(g, current) /\ UNCHANGED conn
    /\ UNCHANGED guard /\ Communicates

Closed(g) ==
    /\ task[g].pc = "closed"
    /\ EndsRow(g, task[g].on)
    /\ UNCHANGED <<conn, guard>> /\ Communicates

-------------------------------------------------------------------------------
(* stop: the task is cancelled at the await where it stands.                  *)

(* In verify or reestablish the guard restricts itself on the way out.        *)
StopsAssess(g) ==
    /\ task[g].pc \in {"compare", "redial"}
    /\ answer' = IF task[g].pc = "compare" THEN 0 ELSE answer
    /\ failed' = (failed \/ task[g].pc = "compare")
    /\ RestrictsOrRaises(g, task[g].on, db, {db}, "cancel")
    /\ UNCHANGED <<current, latest, crashes, sessions, owed, compared>>

StopsExchange(g) ==
    LET s == guard[task[g].on].session IN
    /\ task[g].pc = "exchange"
    /\ conn' = [conn EXCEPT ![s] = "closed"]
    /\ Leaves(g, 0, s, "cancel")
    /\ UNCHANGED <<db, guard, faults>> /\ Communicates

(* Between two assessments, or while a restriction closes the connection      *)
StopsElsewhere(g) ==
    /\ task[g].pc \in {"lock", "sleep", "closing"}
    /\ task' = [task EXCEPT ![g].pc = "unwind", ![g].cause = "cancel"]
    /\ UNCHANGED <<db, conn, guard, faults>> /\ Communicates

(* The finally clause is not entered, or is left before the row ends.         *)
StopsTooSoon(g) ==
    /\ task[g].pc \in {"start", "closed"}
    /\ Goto(g, "ended")
    /\ UNCHANGED <<db, conn, guard, faults>> /\ Communicates

Stop(g) ==
    /\ g = latest
    /\ StopsAssess(g) \/ StopsExchange(g) \/ StopsElsewhere(g)

(* The process dies and is started again: only the store is left.             *)
Crash ==
    /\ crashes < MaxCrashes
    /\ crashes' = crashes + 1
    /\ conn' = [s \in Sessions |-> IF IsUp(s) THEN "closed" ELSE conn[s]]
    /\ task' = [g \in Begins |-> IF task[g].pc = "unused" THEN NoTask
                                 ELSE [NoTask EXCEPT !.pc = "ended"]]
    /\ guard' = [g \in Begins |-> NoGuard]
    /\ current' = 0 /\ latest' = 0 /\ answer' = 0
    /\ UNCHANGED <<db, sessions, faults, owed, failed, compared>>

(* A begin while another one connects; a stop before the task's first step or *)
(* while it is already closing down                                           *)
Races(g, kind) ==
    \/ kind = "begin" /\ Begin(g) /\ \E h \in Begins : task[h].pc = "connect"
    \/ kind = "stop" /\ g = latest /\ StopsTooSoon(g)

Step(g) ==
    \/ Begin(g) /\ \A h \in Begins : task[h].pc # "connect"
    \/ Begun(g) \/ BeginFails(g) \/ Start(g) \/ LockGot(g)
    \/ (Matches(g) \/ Mismatches(g) \/ TimesOut(g)) /\ AtRest
    \/ (Redialled(g) \/ RedialFails(g)) /\ AtRest
    \/ Exchanged(g) \/ ExchangeFails(g) \/ Wakes(g)
    \/ ReturnsRestricted(g) \/ HandlesError(g) \/ Finally(g) \/ Closed(g)
    \/ Stop(g)

Next ==
    \/ ((\E g \in Begins : Step(g)) \/ Crash) /\ UNCHANGED races
    \/ \E g \in Begins, kind \in RaceKinds : Races(g, kind) /\ races' = races \cup {kind}

Spec == Init /\ [][Next]_vars

-------------------------------------------------------------------------------
(* Application data flows on a connection exactly when it is open.            *)
Open(s) == conn[s] = "open"

(* Data flows only on a connection whose guard is verified and not restricted *)
(* and only while the store says so too: it has the relationship verified and *)
(* the session ACTIVE, whatever transaction raised and whenever the process   *)
(* crashed.  (Two begins at once make two guards that overrule each other, a  *)
(* hasty stop abandons a connection: stated while no request has raced.)      *)
OpenIsOnRecord ==
    races = {} => \A s \in Sessions : Open(s) =>
        /\ db.verified /\ db.row[s] = "ACTIVE"
        /\ \E g \in Begins : guard[g] = [session |-> s, verified |-> TRUE,
                                         restricted |-> FALSE]

Shut == \A s \in Sessions : ~Open(s)

(* A comparison that was demanded shuts every connection until it succeeds:   *)
(* no timeout, stop, failed replacement or new session gets around it.  It is *)
(* remembered in memory only, so a crash forgets it.                          *)
OwedComparisonShuts == faults = 0 /\ crashes = 0 /\ races = {} /\ owed => Shut

(* A comparison that failed (a mismatch, a timeout, a stop) shuts every later *)
(* session until one succeeds, also after a crash, if it could be stored.     *)
(* docs/algorithms.md:50 says so without the condition: "Failure closes the   *)
(* session; recovery requires a new verified connection."                     *)
FailedComparisonShuts == faults = 0 /\ races = {} /\ failed => Shut

(* A connection on which a comparison was demanded never carries data again:  *)
(* success is carried over to a fresh one.                                    *)
FreshAfterComparison == \A s \in compared : ~Open(s)

(* Whatever is open or ACTIVE is the session that runs: a replaced session's  *)
(* row has ended, and after a session ends nothing is left of it.  (A row     *)
(* that a crash or an exception leaves ACTIVE stays so.)                      *)
NothingLeftOpen == faults = 0 /\ crashes = 0 /\ races = {} =>
    \A s \in Sessions : IsUp(s) \/ db.row[s] = "ACTIVE" =>
        latest # 0 /\ Running(latest) /\ guard[latest].session = s

(* begin refuses while "a session is already running": there are never two.   *)
OneSessionRuns == Cardinality({g \in Begins : Running(g)}) <= 1
===============================================================================
