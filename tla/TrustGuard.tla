------------------------------- MODULE TrustGuard -------------------------------
(***************************************************************************)
(* SessionGuard (verification/session_guard.py): it shuts a connection     *)
(* until both people have compared, replaces the connection after a        *)
(* comparison and when its key is old, and keeps the store in step.  The   *)
(* guards belong to the sessions a dashboard begins, one each, and assess  *)
(* is called by that session's task.  What a trust score is worth is not   *)
(* modelled: an assessment of a verified relationship demands a            *)
(* comparison, finds the key old, or does neither.                         *)
(*                                                                         *)
(* A step is the code between two awaits.  A transaction of it may raise:  *)
(* then the store keeps what was committed before, and the guard restricts *)
(* itself, whose two transactions may raise as well.                       *)
(***************************************************************************)
EXTENDS RelationshipStore, Naturals

CONSTANTS MaxBegins,    \* sessions a user begins
          MaxSessions,  \* TLS connections, each with a row in the store
          MaxFaults     \* steps in which the store raises

ASSUME GuardAssumption ==
    MaxBegins \in Nat /\ MaxSessions \in Nat /\ MaxFaults \in Nat

Begins == 1 .. MaxBegins
Sessions == 1 .. MaxSessions

VARIABLES
    db,        \* the store
    conn,      \* each connection: none, gated, open, closed
    guard,     \* each SessionGuard
    current,   \* Runtime.guard, 0 is None
    answer,    \* the task whose respond awaits Runtime.answer, 0 is None
    task,      \* each Runtime.communicate: the await it stands at
    sessions, faults,              \* connections made, steps that raised
    owed, failed, compared         \* history, read by properties only

guardVars == <<db, conn, guard, answer, task, sessions, faults, owed, failed,
               compared>>

NoGuard == [session |-> 0, verified |-> FALSE, restricted |-> FALSE]
NoTask == [pc |-> "unused", on |-> 0, first |-> TRUE, cause |-> "none"]

GuardTypeOK ==
    /\ db \in Store(Sessions)
    /\ conn \in [Sessions -> {"none", "gated", "open", "closed"}]
    /\ guard \in [Begins -> [session : 0 .. MaxSessions, verified : BOOLEAN,
                             restricted : BOOLEAN]]
    /\ current \in 0 .. MaxBegins /\ answer \in 0 .. MaxBegins
    /\ task \in [Begins -> [pc : {"unused", "connect", "start", "lock", "compare",
                                  "redial", "exchange", "sleep", "closing", "unwind",
                                  "closed", "ended"},
                            on : 0 .. MaxBegins, first : BOOLEAN,
                            cause : {"none", "return", "error", "cancel"}]]
    /\ sessions \in 0 .. MaxSessions /\ faults \in 0 .. MaxFaults
    /\ owed \in BOOLEAN /\ failed \in BOOLEAN
    /\ compared \in SUBSET Sessions

GuardInit ==
    /\ db = EmptyStore(Sessions)
    /\ conn = [s \in Sessions |-> "none"]
    /\ guard = [g \in Begins |-> NoGuard]
    /\ current = 0 /\ answer = 0
    /\ task = [g \in Begins |-> NoTask]
    /\ sessions = 0 /\ faults = 0
    /\ owed = FALSE /\ failed = FALSE /\ compared = {}

IsUp(s) == conn[s] \in {"gated", "open"}

(* require_verification on a connection, which may have closed                *)
Gate(s, as) == [conn EXCEPT ![s] = IF IsUp(s) THEN as ELSE @]

Goto(g, pc) == task' = [task EXCEPT ![g].pc = pc]

(* An exception, or the return after a restriction, leaves assess by way of   *)
(* connection.close, which awaits only if the connection was open.            *)
Leaves(g, q, s, cause) ==
    task' = [task EXCEPT ![g] = [@ EXCEPT !.pc = IF IsUp(s) THEN "closing" ELSE "unwind",
                                          !.on = q, !.cause = cause]]

(* Mutant: the connection is left to the caller.                              *)
ShutsLater(q, s) ==
    /\ guard' = [guard EXCEPT ![q] = [session |-> s, verified |-> FALSE,
                                      restricted |-> TRUE]]
    /\ UNCHANGED conn

(* The part of SessionGuard.restrict that cannot fail                         *)
Shuts(q, s) ==
    /\ guard' = [guard EXCEPT ![q] = [session |-> s, verified |-> FALSE,
                                      restricted |-> TRUE]]
    /\ conn' = [conn EXCEPT ![s] = "closed"]

(* SessionGuard.restrict of guard q, on the store d                           *)
Restricts(g, q, d, cause) ==
    LET s == guard[q].session IN
    /\ Shuts(q, s) /\ Leaves(g, q, s, cause)
    /\ db' = Restriction(d, s)
    /\ UNCHANGED faults

(* A transaction raised after one of tries was committed.                     *)
StoreRaises(g, q, s, tries, cause) ==
    /\ faults < MaxFaults
    /\ faults' = faults + 1
    /\ Shuts(q, s) /\ Leaves(g, q, s, cause)
    /\ db' \in RestrictionTried(tries, s)

(* A restriction whose own transactions may raise                             *)
RestrictsOrRaises(g, q, d, tries, cause) ==
    \/ Restricts(g, q, d, cause)
    \/ StoreRaises(g, q, guard[q].session, tries, "error")

-------------------------------------------------------------------------------
(* communicate, as far as the return from assess leads to it                  *)

(* The head of the loop: its condition, then connection.send.                 *)
Loops(g) ==
    task' = [task EXCEPT ![g] =
               IF guard'[current].restricted
               THEN [@ EXCEPT !.pc = "unwind", !.cause = "cancel"]
               ELSE IF conn'[guard'[current].session] = "open"
               THEN [@ EXCEPT !.pc = "exchange", !.on = current, !.first = FALSE]
               ELSE [@ EXCEPT !.pc = "unwind", !.cause = "error"]]

Returns(g) == IF task[g].first THEN Loops(g) ELSE Goto(g, "sleep")

-------------------------------------------------------------------------------
(* assess by task g on guard q                                                *)

(* The guard's lock is held: some task is inside its assess.                  *)
Locked(q) ==
    \E h \in Begins :
        task[h].on = q /\ task[h].pc \in {"compare", "redial", "closing"}

(* Nothing to do: the connection opens, or stays open.                        *)
Keeps(g, q) ==
    /\ guard[q].verified
    /\ conn' = Gate(guard[q].session, "open")
    /\ UNCHANGED guard /\ Returns(g)
    /\ UNCHANGED <<db, answer, faults, owed, compared>>

(* Mutant: the verified guard opens the connection it has.                    *)
OpensInPlace(g, q) ==
    /\ conn' = Gate(guard[q].session, "open")
    /\ Returns(g)

(* reestablish closes the connection; it is to be replaced.                   *)
Reestablishes(g, q) ==
    /\ conn' = [conn EXCEPT ![guard[q].session] = "closed"]
    /\ task' = [task EXCEPT ![g].pc = "redial", ![g].on = q]

(* The key is old.                                                            *)
Rotates(g, q) ==
    /\ guard[q].verified
    /\ UNCHANGED <<db, guard, answer, faults, owed, compared>>
    /\ Reestablishes(g, q)

(* A comparison is demanded: the connection shuts, and respond awaits an      *)
(* answer.                                                                    *)
Triggers(g, q) ==
    /\ conn' = Gate(guard[q].session, "gated")
    /\ task' = [task EXCEPT ![g].pc = "compare", ![g].on = q]
    /\ answer' = g
    /\ owed' = TRUE /\ compared' = compared \cup {guard[q].session}
    /\ UNCHANGED <<db, guard, faults>>

Assesses(g, q) ==
    /\ \/ /\ Locked(q)
          /\ task' = [task EXCEPT ![g].pc = "lock", ![g].on = q]
          /\ UNCHANGED <<db, conn, guard, answer, faults, owed, compared>>
       \/ /\ ~Locked(q) /\ guard[q].restricted
          /\ UNCHANGED <<db, conn, guard, answer, faults, owed, compared>>
          /\ Returns(g)
       \/ /\ ~Locked(q) /\ ~guard[q].restricted
          /\ \/ Keeps(g, q)
             \/ Rotates(g, q)
             \/ Triggers(g, q)
             \/ /\ StoreRaises(g, q, guard[q].session, {db}, "error")
                /\ UNCHANGED <<answer, owed, compared>>
    /\ UNCHANGED <<current, sessions, failed>>

(* resolve: the browser answers the request that is pending on Runtime.guard; *)
(* the answer goes to whoever awaits Runtime.answer.                          *)
Answers(g) ==
    /\ answer = g /\ task[g].pc = "compare"
    /\ \E h \in Begins : task[h].pc = "compare" /\ task[h].on = current

(* MATCH: verified, and a fresh connection is to replace this one.            *)
Matches(g) ==
    LET q == task[g].on
        s == guard[q].session
        d == Verification(db, TRUE)
    IN /\ Answers(g)
       /\ answer' = 0 /\ owed' = FALSE /\ failed' = FALSE
       /\ \/ /\ db' = d
             /\ guard' = [guard EXCEPT ![q].verified = TRUE]
             /\ Reestablishes(g, q)
             /\ UNCHANGED faults
          \/ StoreRaises(g, q, s, {db, d}, "error")
       /\ UNCHANGED <<current, sessions, compared>>

(* Any other outcome restricts the guard; assess returns.                     *)
ComparisonFails(g) ==
    LET d == Verification(db, FALSE) IN
    /\ answer' = 0 /\ failed' = TRUE
    /\ RestrictsOrRaises(g, task[g].on, d, {db, d}, "return")
    /\ UNCHANGED <<current, sessions, owed, compared>>

Mismatches(g) == Answers(g) /\ ComparisonFails(g)

TimesOut(g) == task[g].pc = "compare" /\ ComparisonFails(g)

(* reestablish has a fresh connection, which takes the place of the old one.  *)
Redialled(g) ==
    LET q == task[g].on
        n == sessions + 1
        old == guard[q].session
    IN /\ task[g].pc = "redial" /\ sessions < MaxSessions
       /\ sessions' = n
       /\ \/ /\ db' = Replaced(db, old, n)
             /\ guard' = [guard EXCEPT ![q].session = n]
             /\ conn' = [conn EXCEPT ![n] = "open"]
             /\ Returns(g)
             /\ UNCHANGED faults
          \/ /\ faults < MaxFaults
             /\ faults' = faults + 1
             /\ Shuts(q, n)
             /\ task' = [task EXCEPT ![g].pc = "closing", ![g].cause = "error"]
             /\ db' \in RestrictionTried(ReplacementTried(db, old, n), n)
       /\ UNCHANGED <<current, answer, owed, failed, compared>>

RedialFails(g) ==
    /\ task[g].pc = "redial"
    /\ RestrictsOrRaises(g, task[g].on, db, {db}, "error")
    /\ UNCHANGED <<current, answer, sessions, owed, failed, compared>>
===============================================================================
