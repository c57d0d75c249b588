---------------------------- MODULE DashboardProofs ----------------------------
(***************************************************************************)
(* What the dashboard guarantees for any number of sessions, store         *)
(* failures, crashes, overlapping begins and stops, by two inductive       *)
(* invariants.                                                             *)
(*                                                                         *)
(* IInv: a connection on which a comparison was demanded never carries     *)
(* data again. Such a connection is closed, or it is gated and one task    *)
(* awaits the answer inside its guard's assess; only that guard could open *)
(* it, its lock is held, and the task closes the connection on every way   *)
(* out.                                                                    *)
(*                                                                         *)
(* JInv: as long as no two requests raced for the runtime, one task runs   *)
(* at a time, the store has the row of the session it runs (Lone), and     *)
(* what the row says is what the guard and the connection are at. So an    *)
(* open connection is on record, a comparison that is owed or failed       *)
(* leaves nothing open, and a session that has ended or was replaced       *)
(* leaves nothing behind.                                                  *)
(***************************************************************************)
EXTENDS Dashboard, TLAPS

TaskRecord == [pc : {"unused", "connect", "start", "lock", "compare", "redial",
                     "exchange", "sleep", "closing", "unwind", "closed", "ended"},
               on : 0 .. MaxBegins, first : BOOLEAN,
               cause : {"none", "return", "error", "cancel"}]

(* Where a task's guard matters                                               *)
OnGuard == {"lock", "compare", "redial", "exchange", "closed"}

(* Every guard in use has a session, and no other guard has.                  *)
OwnersOK ==
    /\ current # 0 => guard[current].session # 0
    /\ \A g \in Begins : Running(g) => current # 0
    /\ \A g \in Begins : task[g].pc \in OnGuard =>
          task[g].on # 0 /\ guard[task[g].on].session # 0
    /\ \A g \in Begins : task[g].pc \in {"unused", "connect"} => guard[g].session = 0

(* Sessions are numbered as they are made, and no two guards share one.       *)
NumbersOK ==
    /\ \A g \in Begins : guard[g].session <= sessions
    /\ \A g, h \in Begins : guard[g].session = guard[h].session =>
          g = h \/ guard[g].session = 0
    /\ \A s \in compared : s <= sessions

(* A guard's lock has one holder.                                             *)
LockOK ==
    \A g, h \in Begins :
        /\ task[g].pc \in {"compare", "redial"} /\ task[h].pc \in {"compare", "redial"}
        /\ task[g].on = task[h].on
        => g = h

(* What a demanded comparison has left of its connection                      *)
ComparedOK ==
    \A s \in compared : IsUp(s) =>
        /\ conn[s] = "gated"
        /\ \E g \in Begins : task[g].pc = "compare" /\ guard[task[g].on].session = s

IInv == RuntimeTypeOK /\ OwnersOK /\ NumbersOK /\ LockOK /\ ComparedOK

(* The invariant holds initially: there is no guard and no connection.        *)
LEMMA InitIInv == Init => IInv
<1> SUFFICES ASSUME Init PROVE IInv
  OBVIOUS
<1> USE GuardAssumption, DashboardAssumption DEF Init, GuardInit
<1>1. EmptyStore(Sessions) \in Store(Sessions)
  BY DEF EmptyStore, Store, Row
<1>2. RuntimeTypeOK
  <2>1. NoGuard \in [session : 0 .. MaxSessions, verified : BOOLEAN, restricted : BOOLEAN]
    BY DEF NoGuard
  <2>2. NoTask \in TaskRecord
    BY DEF NoTask, TaskRecord
  <2>3. guard \in [Begins -> [session : 0 .. MaxSessions, verified : BOOLEAN,
                              restricted : BOOLEAN]]
    BY <2>1
  <2>4. task \in [Begins -> TaskRecord]
    BY <2>2
  <2>5. conn \in [Sessions -> {"none", "gated", "open", "closed"}] /\ db \in Store(Sessions)
    BY <1>1
  <2>6. /\ current \in 0 .. MaxBegins /\ answer \in 0 .. MaxBegins
        /\ sessions \in 0 .. MaxSessions /\ faults \in 0 .. MaxFaults
        /\ latest \in 0 .. MaxBegins /\ crashes \in 0 .. MaxCrashes
    OBVIOUS
  <2>7. owed \in BOOLEAN /\ failed \in BOOLEAN /\ compared \in SUBSET Sessions
    OBVIOUS
  <2> QED BY <2>3, <2>4, <2>5, <2>6, <2>7 DEF RuntimeTypeOK, GuardTypeOK, TaskRecord
<1>3. OwnersOK /\ NumbersOK /\ LockOK /\ ComparedOK
  BY DEF OwnersOK, NumbersOK, LockOK, ComparedOK, NoGuard, NoTask, Running, OnGuard,
         Begins, Sessions
<1> QED BY <1>2, <1>3 DEF IInv

(* Every transaction leaves a store.                                          *)
LEMMA StoreOK ==
  ASSUME NEW S, NEW d \in Store(S), NEW s \in S
  PROVE  /\ StartSession(d, s) \in Store(S)
         /\ \A status \in Row : FinishSession(d, s, status) \in Store(S)
         /\ \A b \in BOOLEAN : Verification(d, b) \in Store(S)
         /\ RestrictRelationship(d) \in Store(S)
BY DEF Store, Row, StartSession, FinishSession, Verification, RestrictRelationship

(* SessionGuard.restrict leaves a store.                                      *)
LEMMA RestrictionOK ==
  ASSUME NEW S, NEW d \in Store(S), NEW s \in S
  PROVE  Restriction(d, s) \in Store(S)
<1>1. RestrictRelationship(d) \in Store(S)
  BY StoreOK
<1> QED BY <1>1, StoreOK DEF Restriction, Row

(* So does a restriction of which a transaction raised.                       *)
LEMMA RestrictionTriedOK ==
  ASSUME NEW S, NEW tries \in SUBSET Store(S), NEW s \in S
  PROVE  RestrictionTried(tries, s) \subseteq Store(S)
BY StoreOK, RestrictionOK DEF RestrictionTried

(* So do the transactions of a replaced connection, complete or not.          *)
LEMMA ReplacedOK ==
  ASSUME NEW S, NEW d \in Store(S), NEW old \in S, NEW new \in S
  PROVE  /\ Replaced(d, old, new) \in Store(S)
         /\ ReplacementTried(d, old, new) \subseteq Store(S)
<1>1. FinishSession(d, old, "CLOSED") \in Store(S)
  BY StoreOK DEF Row
<1>2. Replaced(d, old, new) \in Store(S)
  BY <1>1, StoreOK DEF Replaced
<1> QED BY <1>1, <1>2 DEF ReplacementTried

(* What every step of a task says of the variables it may change              *)
Typed ==
    /\ db' \in Store(Sessions)
    /\ conn' \in [Sessions -> {"none", "gated", "open", "closed"}]
    /\ guard' \in [Begins -> [session : 0 .. MaxSessions, verified : BOOLEAN,
                              restricted : BOOLEAN]]
    /\ task' \in [Begins -> TaskRecord]
    /\ faults' \in 0 .. MaxFaults

(* A step of one task that makes no session and takes a lock only if it is    *)
(* free                                                                       *)
Steady(g) ==
    /\ Typed /\ AtRest /\ UNCHANGED <<sessions, current>>
    /\ answer' \in 0 .. MaxBegins /\ owed' \in BOOLEAN /\ failed' \in BOOLEAN
    /\ compared' \subseteq compared \cup ({guard[q].session : q \in Begins} \ {0})
    /\ \A h \in Begins : guard'[h].session = guard[h].session
    /\ \A h \in Begins \ {g} : task'[h] = task[h]
    /\ task'[g].pc \in OnGuard => task'[g].on # 0 /\ guard[task'[g].on].session # 0
    /\ task'[g].pc \notin {"unused", "connect", "ended"} => current # 0
    /\ task'[g].pc # "unused" /\ (task'[g].pc = "connect" => task[g].pc = "unused")
    /\ task'[g].pc \in {"compare", "redial"} =>
          \/ task[g].pc = "compare" /\ task'[g].on = task[g].on
          \/ ~Locked(task'[g].on)

(* A steady step keeps all of the invariant but ComparedOK.                   *)
LEMMA SteadyOK ==
  ASSUME IInv, NEW g \in Begins, Steady(g)
  PROVE  RuntimeTypeOK' /\ OwnersOK' /\ NumbersOK' /\ LockOK'
<1> USE DEF Steady
<1>0. /\ guard \in [Begins -> [session : 0 .. MaxSessions, verified : BOOLEAN,
                               restricted : BOOLEAN]]
      /\ \A h \in Begins : task[h].on \in 0 .. MaxBegins
      /\ current \in 0 .. MaxBegins /\ compared \in SUBSET Sessions
      /\ sessions \in 0 .. MaxSessions
  BY DEF IInv, RuntimeTypeOK, GuardTypeOK
<1>1. RuntimeTypeOK'
  <2>1. {guard[q].session : q \in Begins} \ {0} \subseteq Sessions
    BY <1>0, GuardAssumption DEF Sessions
  <2>2. compared' \in SUBSET Sessions
    BY <1>0, <2>1
  <2> QED BY <2>2 DEF IInv, RuntimeTypeOK, GuardTypeOK, Typed, AtRest, TaskRecord
<1>2. OwnersOK'
  <2>0. \A h \in Begins : task'[h].on \in 0 .. MaxBegins
    BY DEF Typed, TaskRecord
  <2>1. \A q \in 1 .. MaxBegins : guard'[q].session = guard[q].session
    BY DEF Begins
  <2>2. current' # 0 => guard'[current'].session # 0
    BY <1>0, <2>1, GuardAssumption DEF IInv, OwnersOK
  <2>3. \A h \in Begins : Running(h)' => current' # 0
    BY DEF IInv, OwnersOK, Running
  <2>4. \A h \in Begins : task'[h].pc \in OnGuard =>
            task'[h].on # 0 /\ guard[task'[h].on].session # 0
    BY DEF IInv, OwnersOK
  <2>5. \A h \in Begins : task'[h].pc \in OnGuard =>
            task'[h].on # 0 /\ guard'[task'[h].on].session # 0
    BY <2>0, <2>1, <2>4, GuardAssumption
  <2>6. \A h \in Begins : task'[h].pc \in {"unused", "connect"} => guard'[h].session = 0
    BY DEF IInv, OwnersOK
  <2> QED BY <2>2, <2>3, <2>5, <2>6 DEF OwnersOK
<1>3. NumbersOK'
  BY <1>0, GuardAssumption DEF IInv, NumbersOK
<1>4. LockOK'
  <2> SUFFICES ASSUME NEW h \in Begins, NEW k \in Begins,
                      task'[h].pc \in {"compare", "redial"},
                      task'[k].pc \in {"compare", "redial"},
                      task'[h].on = task'[k].on, h # k
               PROVE  FALSE
    BY DEF LockOK
  <2>1. task[g].pc # "compare" \/ task'[g].on # task[g].on
    BY DEF IInv, LockOK
  <2>2. g \in {h, k}
    BY DEF IInv, LockOK
  <2>3. ~Locked(task'[g].on)
    BY <2>1, <2>2
  <2>4. \E j \in {h, k} : j # g /\ task[j] = task'[j] /\ task[j].on = task'[g].on
    BY <2>2
  <2> QED BY <2>3, <2>4 DEF Locked
<1> QED BY <1>1, <1>2, <1>3, <1>4

(* A steady step that also opens nothing and demands nothing                  *)
Quiet(g) ==
    /\ Steady(g)
    /\ compared' = compared
    /\ \A s \in Sessions : conn'[s] \in {conn[s], "closed"}
    /\ task[g].pc = "compare" => conn'[guard[task[g].on].session] = "closed"
    /\ task'[g].pc # "compare"

(* The comparison a task awaits is on the connection of a guard.              *)
LEMMA WitnessOK ==
  ASSUME IInv, NEW s \in compared, IsUp(s)
  PROVE  /\ conn[s] = "gated"
         /\ \E h \in Begins : /\ task[h].pc = "compare" /\ guard[task[h].on].session = s
                              /\ task[h].on \in Begins
<1>1. /\ conn[s] = "gated"
      /\ \E h \in Begins : task[h].pc = "compare" /\ guard[task[h].on].session = s
  BY DEF IInv, ComparedOK
<1>2. PICK h \in Begins : task[h].pc = "compare" /\ guard[task[h].on].session = s
  BY <1>1
<1>3. task[h].on \in 0 .. MaxBegins /\ task[h].on # 0
  BY <1>2 DEF IInv, RuntimeTypeOK, GuardTypeOK, OwnersOK, OnGuard
<1>4. task[h].on \in Begins
  BY <1>3, GuardAssumption DEF Begins
<1> QED BY <1>1, <1>2, <1>4

(* A quiet step keeps the whole invariant.                                    *)
LEMMA QuietOK ==
  ASSUME IInv, NEW g \in Begins, Quiet(g)
  PROVE  IInv'
<1>1. RuntimeTypeOK' /\ OwnersOK' /\ NumbersOK' /\ LockOK'
  BY SteadyOK DEF Quiet
<1>2. ComparedOK'
  <2> SUFFICES ASSUME NEW s \in compared, IsUp(s)'
               PROVE  /\ conn'[s] = "gated"
                      /\ \E h \in Begins : task'[h].pc = "compare"
                                           /\ guard'[task'[h].on].session = s
    BY DEF ComparedOK, Quiet
  <2>0. s \in Sessions
    BY DEF IInv, RuntimeTypeOK, GuardTypeOK
  <2>1. conn'[s] = conn[s] /\ IsUp(s)
    BY <2>0 DEF IsUp, Quiet
  <2>2. conn[s] = "gated"
    BY <2>1, WitnessOK
  <2>3. PICK h \in Begins : /\ task[h].pc = "compare" /\ guard[task[h].on].session = s
                            /\ task[h].on \in Begins
    BY <2>1, WitnessOK
  <2>4. h # g
    BY <2>1, <2>3 DEF IsUp, Quiet
  <2> QED BY <2>1, <2>2, <2>3, <2>4 DEF Quiet, Steady
<1> QED BY <1>1, <1>2 DEF IInv

(* Task g moved to one of pcs, and no other task did.                         *)
OnlyMoves(g, pcs) ==
    /\ task' \in [Begins -> TaskRecord]
    /\ \A h \in Begins \ {g} : task'[h] = task[h]
    /\ task'[g].pc \in pcs

(* What Goto does to the tasks                                                *)
LEMMA GotoOK ==
  ASSUME RuntimeTypeOK, NEW g \in Begins, Goto(g, "connect") \/ Goto(g, "start")
                                   \/ Goto(g, "sleep") \/ Goto(g, "ended")
  PROVE  /\ OnlyMoves(g, {"connect", "start", "sleep", "ended"})
         /\ Goto(g, "ended") => task'[g].pc = "ended"
         /\ Goto(g, "connect") => task'[g].pc = "connect"
         /\ Goto(g, "start") => task'[g].pc = "start"
BY SMTT(40) DEF RuntimeTypeOK, GuardTypeOK, Goto, OnlyMoves, TaskRecord

(* A task that returns from assess exchanges on the current guard, or ends.   *)
LEMMA ReturnsOK ==
  ASSUME RuntimeTypeOK, NEW g \in Begins, current # 0, Loops(g) \/ Returns(g)
  PROVE  /\ OnlyMoves(g, {"unwind", "exchange", "sleep"})
         /\ task'[g].pc = "exchange" => task'[g].on = current
<1>1. CASE Loops(g)
  <2> DEFINE r == IF guard'[current].restricted
                  THEN [task[g] EXCEPT !.pc = "unwind", !.cause = "cancel"]
                  ELSE IF conn'[guard'[current].session] = "open"
                  THEN [task[g] EXCEPT !.pc = "exchange", !.on = current, !.first = FALSE]
                  ELSE [task[g] EXCEPT !.pc = "unwind", !.cause = "error"]
  <2>1. task' = [task EXCEPT ![g] = r]
    BY <1>1 DEF Loops
  <2>2. task[g] \in TaskRecord /\ task \in [Begins -> TaskRecord] /\ current \in 0 .. MaxBegins
    BY DEF RuntimeTypeOK, GuardTypeOK, TaskRecord
  <2>3. /\ r \in TaskRecord /\ r.pc \in {"unwind", "exchange"}
        /\ r.pc = "exchange" => r.on = current
    BY <2>2 DEF TaskRecord
  <2> HIDE DEF r
  <2> QED BY <2>1, <2>2, <2>3 DEF OnlyMoves
<1>2. CASE Goto(g, "sleep")
  BY <1>2 DEF RuntimeTypeOK, GuardTypeOK, Goto, OnlyMoves, TaskRecord
<1> QED BY <1>1, <1>2 DEF Returns

(* A task that leaves assess after a restriction is on its way out.           *)
LEMMA LeavesOK ==
  ASSUME RuntimeTypeOK, NEW g \in Begins, NEW q \in 0 .. MaxBegins, NEW s \in Sessions,
         NEW cause \in {"return", "error", "cancel"}, Leaves(g, q, s, cause)
  PROVE  OnlyMoves(g, {"closing", "unwind"})
<1> DEFINE r == [task[g] EXCEPT !.pc = IF IsUp(s) THEN "closing" ELSE "unwind",
                                !.on = q, !.cause = cause]
<1>1. task' = [task EXCEPT ![g] = r]
  BY DEF Leaves
<1>2. task[g] \in TaskRecord /\ task \in [Begins -> TaskRecord]
  BY DEF RuntimeTypeOK, GuardTypeOK, TaskRecord
<1>3. r \in TaskRecord /\ r.pc \in {"closing", "unwind"}
  BY <1>2 DEF TaskRecord
<1> HIDE DEF r
<1> QED BY <1>1, <1>2, <1>3 DEF OnlyMoves

(* A restriction closes one connection and keeps every other one.             *)
LEMMA ShutsOK ==
  ASSUME RuntimeTypeOK, NEW q \in Begins, NEW s \in Sessions, Shuts(q, s)
  PROVE  /\ conn' \in [Sessions -> {"none", "gated", "open", "closed"}]
         /\ guard' \in [Begins -> [session : 0 .. MaxSessions, verified : BOOLEAN,
                                   restricted : BOOLEAN]]
         /\ guard'[q].session = s
         /\ \A h \in Begins \ {q} : guard'[h] = guard[h]
         /\ conn'[s] = "closed"
         /\ \A t \in Sessions \ {s} : conn'[t] = conn[t]
BY GuardAssumption DEF RuntimeTypeOK, GuardTypeOK, Shuts, Sessions

(* What a restriction, complete or not, does to the guard of an assess        *)
LEMMA RestrictedOK ==
  ASSUME RuntimeTypeOK, NEW g \in Begins, NEW q \in Begins, guard[q].session # 0,
         NEW d \in Store(Sessions), NEW tries \in SUBSET Store(Sessions),
         NEW cause \in {"return", "error", "cancel"},
         \/ RestrictsOrRaises(g, q, d, tries, cause)
         \/ StoreRaises(g, q, guard[q].session, tries, cause)
  PROVE  /\ Typed /\ OnlyMoves(g, {"closing", "unwind"})
         /\ \A h \in Begins : guard'[h].session = guard[h].session
         /\ \A s \in Sessions : conn'[s] \in {conn[s], "closed"}
         /\ conn'[guard[q].session] = "closed"
<1> DEFINE s == guard[q].session
<1>1. s \in Sessions /\ q \in 0 .. MaxBegins
  BY GuardAssumption DEF RuntimeTypeOK, GuardTypeOK, Sessions, Begins
<1>2. Restriction(d, s) \in Store(Sessions)
  BY <1>1, RestrictionOK
<1>3. RestrictionTried(tries, s) \subseteq Store(Sessions)
  BY <1>1, RestrictionTriedOK
<1>4. Shuts(q, s) /\ \E c \in {"return", "error", "cancel"} : Leaves(g, q, s, c)
  BY DEF RestrictsOrRaises, Restricts, StoreRaises
<1>5. OnlyMoves(g, {"closing", "unwind"})
  BY <1>1, <1>4, LeavesOK
<1>6. db' \in Store(Sessions)
  BY <1>2, <1>3 DEF RestrictsOrRaises, Restricts, StoreRaises
<1>7. faults' \in 0 .. MaxFaults
  BY GuardAssumption DEF RestrictsOrRaises, Restricts, StoreRaises, RuntimeTypeOK, GuardTypeOK
<1>8. /\ conn' \in [Sessions -> {"none", "gated", "open", "closed"}]
      /\ guard' \in [Begins -> [session : 0 .. MaxSessions, verified : BOOLEAN,
                                restricted : BOOLEAN]]
      /\ guard'[q].session = s /\ conn'[s] = "closed"
      /\ \A h \in Begins \ {q} : guard'[h] = guard[h]
      /\ \A t \in Sessions \ {s} : conn'[t] = conn[t]
  BY <1>1, <1>4, ShutsOK
<1> QED BY <1>5, <1>6, <1>7, <1>8 DEF Typed, OnlyMoves

-------------------------------------------------------------------------------
(* The steps outside assess                                                   *)

(* A task that only moves, to a place where it is on no guard or on the       *)
(* current one, and that may close connections                                *)
LEMMA MoveOK ==
  ASSUME IInv, NEW g \in Begins, task[g].pc # "compare", Communicates,
         OnlyMoves(g, {"connect", "start", "sleep", "exchange", "closing", "unwind",
                       "closed", "ended"}),
         task'[g].pc \in {"exchange", "closed"} => task'[g].on = current,
         task'[g].pc \notin {"connect", "ended"} => current # 0,
         task'[g].pc = "connect" => task[g].pc = "unused",
         db' \in Store(Sessions), faults' \in 0 .. MaxFaults,
         guard' \in [Begins -> [session : 0 .. MaxSessions, verified : BOOLEAN,
                                restricted : BOOLEAN]],
         \A h \in Begins : guard'[h].session = guard[h].session,
         conn' \in [Sessions -> {"none", "gated", "open", "closed"}],
         \A s \in Sessions : conn'[s] \in {conn[s], "closed"}
  PROVE  IInv'
<1>1. Typed
  BY DEF Typed, OnlyMoves
<1>2. /\ AtRest /\ UNCHANGED <<sessions, current>> /\ compared' = compared
      /\ answer' \in 0 .. MaxBegins /\ owed' \in BOOLEAN /\ failed' \in BOOLEAN
  BY DEF Communicates, AtRest, IInv, RuntimeTypeOK, GuardTypeOK
<1>3. task'[g].pc \in OnGuard => task'[g].on # 0 /\ guard[task'[g].on].session # 0
  BY DEF OnlyMoves, OnGuard, IInv, OwnersOK
<1>4. /\ \A h \in Begins \ {g} : task'[h] = task[h]
      /\ task'[g].pc \notin {"unused", "compare", "redial"}
  BY DEF OnlyMoves
<1>5. Steady(g)
  BY <1>1, <1>2, <1>3, <1>4 DEF Steady
<1>6. Quiet(g)
  BY <1>2, <1>4, <1>5 DEF Quiet
<1> QED BY <1>6, QuietOK

(* The same, if neither the store nor a guard nor a connection changes        *)
LEMMA StillMoveOK ==
  ASSUME IInv, NEW g \in Begins, task[g].pc # "compare", Communicates,
         OnlyMoves(g, {"connect", "start", "sleep", "exchange", "closing", "unwind",
                       "closed", "ended"}),
         task'[g].pc \in {"exchange", "closed"} => task'[g].on = current,
         task'[g].pc \notin {"connect", "ended"} => current # 0,
         task'[g].pc = "connect" => task[g].pc = "unused",
         UNCHANGED <<db, conn, guard, faults>>
  PROVE  IInv'
<1>1. /\ db' \in Store(Sessions) /\ faults' \in 0 .. MaxFaults
      /\ guard' \in [Begins -> [session : 0 .. MaxSessions, verified : BOOLEAN,
                                restricted : BOOLEAN]]
      /\ conn' \in [Sessions -> {"none", "gated", "open", "closed"}]
  BY DEF IInv, RuntimeTypeOK, GuardTypeOK
<1>2. /\ \A h \in Begins : guard'[h].session = guard[h].session
      /\ \A s \in Sessions : conn'[s] \in {conn[s], "closed"}
  OBVIOUS
<1> QED BY <1>1, <1>2, MoveOK

(* begin, and a stop before the first step                                    *)
LEMMA BeginsOK ==
  ASSUME IInv, NEW g \in Begins, Begin(g) \/ BeginFails(g) \/ StopsTooSoon(g)
  PROVE  IInv'
<1>1. task[g].pc # "compare" /\ Communicates /\ UNCHANGED <<db, conn, guard, faults>>
  BY DEF Begin, BeginFails, StopsTooSoon
<1>2. (Goto(g, "connect") /\ task[g].pc = "unused") \/ Goto(g, "ended")
  BY DEF Begin, BeginFails, StopsTooSoon
<1>3. /\ OnlyMoves(g, {"connect", "start", "sleep", "ended"})
      /\ (task'[g].pc = "connect" /\ task[g].pc = "unused") \/ task'[g].pc = "ended"
  BY <1>2, GotoOK DEF IInv
<1> QED BY <1>1, <1>3, StillMoveOK DEF OnlyMoves

(* A task that runs has a guard to find.                                      *)
LEMMA CurrentOK ==
  ASSUME IInv, NEW g \in Begins, Running(g)
  PROVE  /\ current # 0 /\ current \in Begins /\ guard[current].session \in Sessions
         /\ task[g].pc \in OnGuard =>
               task[g].on \in Begins /\ guard[task[g].on].session \in Sessions
<1>1. current \in 0 .. MaxBegins /\ task[g].on \in 0 .. MaxBegins
  BY DEF IInv, RuntimeTypeOK, GuardTypeOK
<1>2. /\ current # 0 /\ guard[current].session # 0
      /\ task[g].pc \in OnGuard => task[g].on # 0 /\ guard[task[g].on].session # 0
  BY DEF IInv, OwnersOK
<1>3. \A q \in Begins : guard[q].session \in 0 .. MaxSessions
  BY DEF IInv, RuntimeTypeOK, GuardTypeOK
<1> QED BY <1>1, <1>2, <1>3, GuardAssumption DEF Begins, Sessions

(* The head of the loop of communicate                                        *)
LEMMA WakesOK ==
  ASSUME IInv, NEW g \in Begins, Wakes(g) \/ ReturnsRestricted(g)
  PROVE  IInv'
<1>1. /\ task[g].pc # "compare" /\ Communicates /\ UNCHANGED <<db, conn, guard, faults>>
      /\ Running(g) /\ (Loops(g) \/ Returns(g))
  BY DEF Wakes, ReturnsRestricted, Unwinding, Running
<1>2. current # 0
  BY <1>1, CurrentOK
<1>3. /\ OnlyMoves(g, {"unwind", "exchange", "sleep"})
      /\ task'[g].pc = "exchange" => task'[g].on = current
  BY <1>1, <1>2, ReturnsOK DEF IInv
<1> QED BY <1>1, <1>2, <1>3, StillMoveOK DEF OnlyMoves

(* A stop between two assessments                                             *)
LEMMA StopsElsewhereOK ==
  ASSUME IInv, NEW g \in Begins, StopsElsewhere(g)
  PROVE  IInv'
<1>1. current # 0
  BY CurrentOK DEF StopsElsewhere, Running
<1>2. OnlyMoves(g, {"unwind"})
  <2> DEFINE r == [task[g] EXCEPT !.pc = "unwind", !.cause = "cancel"]
  <2>1. task[g] \in TaskRecord /\ task \in [Begins -> TaskRecord]
    BY DEF IInv, RuntimeTypeOK, GuardTypeOK, TaskRecord
  <2>2. r \in TaskRecord /\ r.pc = "unwind"
    BY <2>1 DEF TaskRecord
  <2>3. task' = [task EXCEPT ![g] = r]
    BY DEF StopsElsewhere
  <2> HIDE DEF r
  <2> QED BY <2>1, <2>2, <2>3 DEF OnlyMoves
<1> QED BY <1>1, <1>2, StillMoveOK DEF StopsElsewhere, OnlyMoves

(* A failed or cancelled exchange closes a connection.                        *)
LEMMA ExchangeFailsOK ==
  ASSUME IInv, NEW g \in Begins, ExchangeFails(g) \/ StopsExchange(g)
  PROVE  IInv'
<1> DEFINE s == guard[task[g].on].session
<1>1. /\ task[g].pc = "exchange" /\ Communicates /\ UNCHANGED <<db, guard, faults>>
  BY DEF ExchangeFails, StopsExchange
<1>2. current # 0 /\ s \in Sessions
  BY <1>1, CurrentOK DEF Running, OnGuard
<1>3. /\ conn' \in [Sessions -> {"none", "gated", "open", "closed"}]
      /\ \A t \in Sessions : conn'[t] \in {conn[t], "closed"}
  BY <1>2 DEF ExchangeFails, StopsExchange, IInv, RuntimeTypeOK, GuardTypeOK
<1>4. OnlyMoves(g, {"closing", "unwind"})
  <2>1. CASE \E c \in {"error", "cancel"} : Leaves(g, 0, s, c)
    BY <1>2, <2>1, LeavesOK, GuardAssumption DEF IInv
  <2>2. CASE task' = [task EXCEPT ![g].pc = "unwind", ![g].cause = "error"]
    <3> DEFINE r == [task[g] EXCEPT !.pc = "unwind", !.cause = "error"]
    <3>1. task[g] \in TaskRecord /\ task \in [Begins -> TaskRecord]
      BY DEF IInv, RuntimeTypeOK, GuardTypeOK, TaskRecord
    <3>2. r \in TaskRecord /\ r.pc = "unwind"
      BY <3>1 DEF TaskRecord
    <3>3. task' = [task EXCEPT ![g] = r]
      BY <2>2
    <3> HIDE DEF r
    <3> QED BY <3>1, <3>2, <3>3 DEF OnlyMoves
  <2> QED BY <2>1, <2>2 DEF ExchangeFails, StopsExchange
<1>5. /\ db' \in Store(Sessions) /\ faults' \in 0 .. MaxFaults
      /\ guard' \in [Begins -> [session : 0 .. MaxSessions, verified : BOOLEAN,
                                restricted : BOOLEAN]]
      /\ \A h \in Begins : guard'[h].session = guard[h].session
  BY <1>1 DEF IInv, RuntimeTypeOK, GuardTypeOK
<1>6. /\ task[g].pc # "compare" /\ task'[g].pc \in {"closing", "unwind"}
      /\ OnlyMoves(g, {"connect", "start", "sleep", "exchange", "closing", "unwind",
                       "closed", "ended"})
  BY <1>1, <1>4 DEF OnlyMoves
<1> QED BY <1>1, <1>2, <1>3, <1>5, <1>6, MoveOK

(* The handler of communicate restricts the current guard.                    *)
LEMMA HandlesErrorOK ==
  ASSUME IInv, NEW g \in Begins, HandlesError(g)
  PROVE  IInv'
<1> DEFINE s == guard[current].session
<1>1. /\ task[g].pc # "compare" /\ Communicates /\ Shuts(current, s)
      /\ Leaves(g, 0, s, "cancel") /\ Running(g)
  BY DEF HandlesError, Unwinding, Running
<1>2. current \in Begins /\ current # 0 /\ s \in Sessions
  BY <1>1, CurrentOK
<1>3. OnlyMoves(g, {"closing", "unwind"})
  BY <1>1, <1>2, LeavesOK, GuardAssumption DEF IInv
<1>4. db' \in Store(Sessions) /\ faults' \in 0 .. MaxFaults
  <2>1. db \in Store(Sessions) /\ faults \in 0 .. MaxFaults
    BY DEF IInv, RuntimeTypeOK, GuardTypeOK
  <2>2. Restriction(db, s) \in Store(Sessions)
    BY <1>2, <2>1, RestrictionOK
  <2>3. RestrictionTried({db}, s) \subseteq Store(Sessions)
    BY <1>2, <2>1, RestrictionTriedOK
  <2>4. \/ db' = Restriction(db, s) /\ faults' = faults
        \/ /\ faults < MaxFaults /\ faults' = faults + 1
           /\ db' \in RestrictionTried({db}, s)
    BY DEF HandlesError
  <2>5. db' \in Store(Sessions)
    BY <2>2, <2>3, <2>4
  <2>6. faults' \in 0 .. MaxFaults
    BY <2>1, <2>4, GuardAssumption
  <2> QED BY <2>5, <2>6
<1>5. /\ conn' \in [Sessions -> {"none", "gated", "open", "closed"}]
      /\ guard' \in [Begins -> [session : 0 .. MaxSessions, verified : BOOLEAN,
                                restricted : BOOLEAN]]
      /\ \A h \in Begins : guard'[h].session = guard[h].session
      /\ \A t \in Sessions : conn'[t] \in {conn[t], "closed"}
  <2>1. /\ conn' \in [Sessions -> {"none", "gated", "open", "closed"}]
        /\ guard' \in [Begins -> [session : 0 .. MaxSessions, verified : BOOLEAN,
                                  restricted : BOOLEAN]]
        /\ guard'[current].session = s /\ conn'[s] = "closed"
        /\ \A h \in Begins \ {current} : guard'[h] = guard[h]
        /\ \A t \in Sessions \ {s} : conn'[t] = conn[t]
    BY <1>1, <1>2, ShutsOK DEF IInv
  <2> QED BY <2>1
<1>6. /\ task'[g].pc \in {"closing", "unwind"}
      /\ OnlyMoves(g, {"connect", "start", "sleep", "exchange", "closing", "unwind",
                       "closed", "ended"})
  BY <1>3 DEF OnlyMoves
<1> QED BY <1>1, <1>2, <1>4, <1>5, <1>6, MoveOK

(* The end of a row is a transaction too.                                     *)
LEMMA EndsRowOK ==
  ASSUME IInv, NEW g \in Begins, NEW q \in Begins, guard[q].session \in Sessions,
         EndsRow(g, q)
  PROVE  /\ db' \in Store(Sessions) /\ faults' \in 0 .. MaxFaults
         /\ OnlyMoves(g, {"connect", "start", "sleep", "ended"}) /\ task'[g].pc = "ended"
<1>1. db \in Store(Sessions) /\ faults \in 0 .. MaxFaults
  BY DEF IInv, RuntimeTypeOK, GuardTypeOK
<1>2. FinishSession(db, guard[q].session, EndStatus(q)) \in Store(Sessions)
  BY <1>1, StoreOK DEF EndStatus, Row
<1>3. db' \in Store(Sessions) /\ faults' \in 0 .. MaxFaults
  BY <1>1, <1>2, GuardAssumption DEF EndsRow
<1> QED BY <1>3, GotoOK DEF EndsRow, IInv

(* SessionGuard.close, up to its await and after it                           *)
LEMMA FinallyOK ==
  ASSUME IInv, NEW g \in Begins, Finally(g) \/ Closed(g)
  PROVE  IInv'
<1>1. /\ task[g].pc # "compare" /\ Communicates /\ UNCHANGED guard /\ Running(g)
  BY DEF Finally, Closed, Unwinding, Running
<1>2. current \in Begins /\ current # 0 /\ guard[current].session \in Sessions
  BY <1>1, CurrentOK
<1>3. /\ guard' \in [Begins -> [session : 0 .. MaxSessions, verified : BOOLEAN,
                                restricted : BOOLEAN]]
      /\ \A h \in Begins : guard'[h].session = guard[h].session
      /\ conn \in [Sessions -> {"none", "gated", "open", "closed"}]
      /\ db \in Store(Sessions) /\ faults \in 0 .. MaxFaults
  BY <1>1 DEF IInv, RuntimeTypeOK, GuardTypeOK
<1>4. CASE UNCHANGED conn /\ \E q \in Begins : guard[q].session \in Sessions /\ EndsRow(g, q)
  <2>1. /\ db' \in Store(Sessions) /\ faults' \in 0 .. MaxFaults
        /\ OnlyMoves(g, {"connect", "start", "sleep", "ended"}) /\ task'[g].pc = "ended"
    BY <1>4, EndsRowOK
  <2> QED BY <1>1, <1>3, <1>4, <2>1, MoveOK DEF OnlyMoves
<1>5. CASE /\ conn' = [conn EXCEPT ![guard[current].session] = "closed"]
           /\ task' = [task EXCEPT ![g].pc = "closed", ![g].on = current]
           /\ UNCHANGED <<db, faults>>
  <2> DEFINE r == [task[g] EXCEPT !.pc = "closed", !.on = current]
  <2>1. task[g] \in TaskRecord /\ task \in [Begins -> TaskRecord] /\ current \in 0 .. MaxBegins
    BY DEF IInv, RuntimeTypeOK, GuardTypeOK, TaskRecord
  <2>2. r \in TaskRecord /\ r.pc = "closed" /\ r.on = current
    BY <2>1 DEF TaskRecord
  <2>3. task' = [task EXCEPT ![g] = r]
    BY <1>5
  <2> HIDE DEF r
  <2>4. /\ OnlyMoves(g, {"connect", "start", "sleep", "exchange", "closing", "unwind",
                         "closed", "ended"})
        /\ task'[g].pc = "closed" /\ task'[g].on = current
    BY <2>1, <2>2, <2>3 DEF OnlyMoves
  <2>5. /\ conn' \in [Sessions -> {"none", "gated", "open", "closed"}]
        /\ \A t \in Sessions : conn'[t] \in {conn[t], "closed"}
    BY <1>2, <1>3, <1>5
  <2> QED BY <1>1, <1>2, <1>3, <1>5, <2>4, <2>5, MoveOK
<1>6. CASE Closed(g)
  <2>1. task[g].on \in Begins /\ guard[task[g].on].session \in Sessions
    BY <1>1, <1>6, CurrentOK DEF Closed, OnGuard
  <2> QED BY <1>4, <1>6, <2>1 DEF Closed
<1>7. CASE Finally(g)
  BY <1>2, <1>4, <1>5, <1>7 DEF Finally
<1> QED BY <1>6, <1>7

-------------------------------------------------------------------------------
(* The steps of assess                                                        *)

(* What the steps of assess leave alone, and the range of what they do not    *)
InAssess ==
    /\ AtRest /\ UNCHANGED <<sessions, current>>
    /\ answer' \in 0 .. MaxBegins /\ owed' \in BOOLEAN /\ failed' \in BOOLEAN

(* A restriction closes the connection that its task waited for.              *)
LEMMA RestrictsOK ==
  ASSUME IInv, NEW g \in Begins, NEW q \in Begins, guard[q].session # 0, Running(g),
         task[g].pc = "compare" => task[g].on = q,
         InAssess, compared' = compared,
         NEW d \in Store(Sessions), NEW tries \in SUBSET Store(Sessions),
         NEW cause \in {"return", "error", "cancel"},
         \/ RestrictsOrRaises(g, q, d, tries, cause)
         \/ StoreRaises(g, q, guard[q].session, tries, cause)
  PROVE  IInv'
<1>1. /\ Typed /\ OnlyMoves(g, {"closing", "unwind"})
      /\ \A h \in Begins : guard'[h].session = guard[h].session
      /\ \A s \in Sessions : conn'[s] \in {conn[s], "closed"}
      /\ conn'[guard[q].session] = "closed"
  BY RestrictedOK DEF IInv
<1>2. current # 0
  BY CurrentOK
<1>3. Steady(g)
  BY <1>1, <1>2 DEF Steady, InAssess, OnlyMoves, OnGuard
<1>4. Quiet(g)
  BY <1>1, <1>3 DEF Quiet, OnlyMoves
<1> QED BY <1>4, QuietOK

(* What assess starts from                                                    *)
Ready(g, q) ==
    /\ task[g].pc \in {"start", "lock", "exchange"}
    /\ q \in Begins /\ guard[q].session \in Sessions /\ current # 0

(* A task takes a place on a guard.                                           *)
Takes(g, q, pc) == task' = [task EXCEPT ![g].pc = pc, ![g].on = q]

(* Such a task is the only one that moves.                                    *)
LEMMA TakesOK ==
  ASSUME RuntimeTypeOK, NEW g \in Begins, NEW q \in Begins,
         NEW pc \in {"lock", "compare", "redial"}, Takes(g, q, pc)
  PROVE  OnlyMoves(g, {pc}) /\ task'[g].on = q
<1> DEFINE r == [task[g] EXCEPT !.pc = pc, !.on = q]
<1>1. task[g] \in TaskRecord /\ task \in [Begins -> TaskRecord] /\ q \in 0 .. MaxBegins
  BY GuardAssumption DEF RuntimeTypeOK, GuardTypeOK, TaskRecord, Begins
<1>2. r \in TaskRecord /\ r.pc = pc /\ r.on = q
  BY <1>1 DEF TaskRecord
<1>3. task' = [task EXCEPT ![g] = r]
  BY DEF Takes
<1> HIDE DEF r
<1> QED BY <1>1, <1>2, <1>3 DEF OnlyMoves

(* The lock is taken: its task waits, or goes on if the guard is restricted.  *)
LEMMA WaitsOK ==
  ASSUME IInv, NEW g \in Begins, NEW q, Ready(g, q), InAssess,
         Takes(g, q, "lock") \/ Returns(g),
         UNCHANGED <<db, conn, guard, faults, compared>>
  PROVE  IInv'
<1>1. /\ OnlyMoves(g, {"lock", "unwind", "exchange", "sleep"})
      /\ task'[g].pc = "lock" => task'[g].on = q
      /\ task'[g].pc = "exchange" => task'[g].on = current
  <2>1. CASE Takes(g, q, "lock")
    BY <2>1, TakesOK DEF IInv, Ready, OnlyMoves
  <2>2. CASE Returns(g)
    BY <2>2, ReturnsOK DEF IInv, Ready, OnlyMoves
  <2> QED BY <2>1, <2>2
<1>2. Typed
  BY <1>1 DEF Typed, OnlyMoves, IInv, RuntimeTypeOK, GuardTypeOK
<1>3. task'[g].pc \in OnGuard => task'[g].on # 0 /\ guard[task'[g].on].session # 0
  BY <1>1, GuardAssumption DEF OnlyMoves, OnGuard, Ready, IInv, OwnersOK, Begins, Sessions
<1>4. Steady(g)
  BY <1>1, <1>2, <1>3 DEF Steady, InAssess, OnlyMoves, Ready
<1>5. Quiet(g)
  BY <1>1, <1>4 DEF Quiet, OnlyMoves, Ready
<1> QED BY <1>5, QuietOK

(* While a guard's lock is free, its connection owes no comparison.           *)
LEMMA FreeOK ==
  ASSUME IInv, NEW q \in Begins, guard[q].session \in Sessions, ~Locked(q),
         NEW s \in compared, IsUp(s)
  PROVE  s # guard[q].session
<1> SUFFICES ASSUME s = guard[q].session PROVE FALSE
  OBVIOUS
<1>1. PICK h \in Begins : /\ task[h].pc = "compare" /\ guard[task[h].on].session = s
                          /\ task[h].on \in Begins
  BY WitnessOK
<1>2. task[h].on = q
  BY <1>1, GuardAssumption DEF IInv, NumbersOK, Sessions
<1> QED BY <1>1, <1>2 DEF Locked

(* assess opens a connection, which owes no comparison.                       *)
LEMMA KeepsOK ==
  ASSUME IInv, NEW g \in Begins, NEW q, Ready(g, q), InAssess, ~Locked(q), Keeps(g, q)
  PROVE  IInv'
<1> DEFINE s == guard[q].session
<1>1. q \in Begins /\ s \in Sessions /\ current # 0
  BY DEF Ready
<1>2. /\ OnlyMoves(g, {"unwind", "exchange", "sleep"})
      /\ task'[g].pc = "exchange" => task'[g].on = current
  BY <1>1, ReturnsOK DEF Keeps, IInv
<1>3. /\ conn' \in [Sessions -> {"none", "gated", "open", "closed"}]
      /\ \A t \in Sessions \ {s} : conn'[t] = conn[t]
      /\ ~IsUp(s) => conn'[s] = conn[s]
  BY <1>1 DEF Keeps, Gate, IInv, RuntimeTypeOK, GuardTypeOK
<1>4. Typed /\ UNCHANGED <<guard, compared>>
  BY <1>2, <1>3 DEF Typed, OnlyMoves, Keeps, IInv, RuntimeTypeOK, GuardTypeOK
<1>5. task'[g].pc \in OnGuard => task'[g].on # 0 /\ guard[task'[g].on].session # 0
  BY <1>2 DEF OnlyMoves, OnGuard, Ready, IInv, OwnersOK
<1>6. Steady(g)
  BY <1>2, <1>4, <1>5 DEF Steady, InAssess, OnlyMoves, Ready
<1>7. ComparedOK'
  <2> SUFFICES ASSUME NEW t \in compared, IsUp(t)'
               PROVE  /\ conn'[t] = "gated"
                      /\ \E h \in Begins : task'[h].pc = "compare"
                                           /\ guard'[task'[h].on].session = t
    BY <1>4 DEF ComparedOK
  <2>1. t \in Sessions
    BY DEF IInv, RuntimeTypeOK, GuardTypeOK
  <2>2. IsUp(t)
    BY <1>3, <2>1 DEF IsUp
  <2>3. t # s
    BY <1>1, <2>2, FreeOK
  <2>4. conn[t] = "gated"
    BY <2>2, WitnessOK
  <2>5. PICK h \in Begins : task[h].pc = "compare" /\ guard[task[h].on].session = t
    BY <2>2, WitnessOK
  <2>6. task'[h] = task[h]
    BY <1>2, <2>5 DEF OnlyMoves, Ready
  <2> QED BY <1>3, <1>4, <2>1, <2>3, <2>4, <2>5, <2>6
<1> QED BY <1>6, <1>7, SteadyOK DEF IInv

(* assess closes a connection whose key is old.                               *)
LEMMA RotatesOK ==
  ASSUME IInv, NEW g \in Begins, NEW q, Ready(g, q), InAssess, ~Locked(q), Rotates(g, q)
  PROVE  IInv'
<1> DEFINE s == guard[q].session
<1>1. q \in Begins /\ s \in Sessions /\ current # 0 /\ s # 0
  BY GuardAssumption DEF Ready, Sessions
<1>2. OnlyMoves(g, {"redial"}) /\ task'[g].on = q
  BY <1>1, TakesOK DEF Takes, Rotates, Reestablishes, IInv
<1>3. /\ conn' \in [Sessions -> {"none", "gated", "open", "closed"}]
      /\ \A t \in Sessions : conn'[t] \in {conn[t], "closed"}
  BY <1>1 DEF Rotates, Reestablishes, IInv, RuntimeTypeOK, GuardTypeOK
<1>4. Typed /\ UNCHANGED <<guard, compared>>
  BY <1>2, <1>3 DEF Typed, OnlyMoves, Rotates, IInv, RuntimeTypeOK, GuardTypeOK
<1>5. task'[g].on # 0
  BY <1>2, GuardAssumption DEF Ready, Begins
<1>6. Steady(g)
  BY <1>1, <1>2, <1>4, <1>5 DEF Steady, InAssess, OnlyMoves, Ready
<1>7. Quiet(g)
  BY <1>2, <1>3, <1>4, <1>6 DEF Quiet, OnlyMoves, Ready
<1> QED BY <1>7, QuietOK

(* assess demands a comparison: its task is the witness that is needed.       *)
LEMMA TriggersOK ==
  ASSUME IInv, NEW g \in Begins, NEW q, Ready(g, q), InAssess, ~Locked(q), Triggers(g, q)
  PROVE  IInv'
<1> DEFINE s == guard[q].session
<1>1. q \in Begins /\ s \in Sessions /\ current # 0 /\ s # 0
  BY GuardAssumption DEF Ready, Sessions
<1>2. OnlyMoves(g, {"compare"}) /\ task'[g].on = q
  BY <1>1, TakesOK DEF Takes, Triggers, IInv
<1>3. /\ conn' \in [Sessions -> {"none", "gated", "open", "closed"}]
      /\ \A t \in Sessions \ {s} : conn'[t] = conn[t]
      /\ conn'[s] \in {"none", "gated", "closed"}
      /\ ~IsUp(s) => conn'[s] = conn[s]
  BY <1>1 DEF Triggers, Gate, IsUp, IInv, RuntimeTypeOK, GuardTypeOK
<1>4. Typed /\ UNCHANGED guard /\ compared' = compared \cup {s}
  BY <1>2, <1>3 DEF Typed, OnlyMoves, Triggers, IInv, RuntimeTypeOK, GuardTypeOK
<1>5. task'[g].on # 0
  BY <1>2, GuardAssumption DEF Ready, Begins
<1>6. Steady(g)
  BY <1>1, <1>2, <1>4, <1>5 DEF Steady, InAssess, OnlyMoves, Ready
<1>7. ComparedOK'
  <2> SUFFICES ASSUME NEW t \in compared \cup {s}, IsUp(t)'
               PROVE  /\ conn'[t] = "gated"
                      /\ \E h \in Begins : task'[h].pc = "compare"
                                           /\ guard'[task'[h].on].session = t
    BY <1>4 DEF ComparedOK
  <2>1. CASE t = s
    <3>1. conn'[t] = "gated"
      BY <1>3, <2>1 DEF IsUp
    <3>2. task'[g].pc = "compare" /\ guard'[task'[g].on].session = t
      BY <1>2, <1>4, <2>1 DEF OnlyMoves
    <3> QED BY <3>1, <3>2
  <2>2. CASE t \in compared /\ t # s
    <3>1. t \in Sessions
      BY <2>2 DEF IInv, RuntimeTypeOK, GuardTypeOK
    <3>2. IsUp(t) /\ conn'[t] = conn[t]
      BY <1>3, <2>2, <3>1 DEF IsUp
    <3>3. conn[t] = "gated"
      BY <2>2, <3>2, WitnessOK
    <3>4. PICK h \in Begins : task[h].pc = "compare" /\ guard[task[h].on].session = t
      BY <2>2, <3>2, WitnessOK
    <3>5. task'[h] = task[h]
      BY <1>2, <3>4 DEF OnlyMoves, Ready
    <3> QED BY <1>4, <3>2, <3>3, <3>4, <3>5
  <2> QED BY <2>1, <2>2
<1> QED BY <1>6, <1>7, SteadyOK DEF IInv

(* Every branch of assess                                                     *)
LEMMA AssessesOK ==
  ASSUME IInv, NEW g \in Begins, NEW q, Ready(g, q), AtRest, Assesses(g, q)
  PROVE  IInv'
<1>1. InAssess
  <2>1. answer \in 0 .. MaxBegins /\ owed \in BOOLEAN /\ failed \in BOOLEAN
        /\ g \in 0 .. MaxBegins
    BY GuardAssumption DEF IInv, RuntimeTypeOK, GuardTypeOK, Begins
  <2> QED BY <2>1 DEF InAssess, Assesses, Keeps, Rotates, Triggers
<1>2. CASE UNCHANGED <<db, conn, guard, answer, faults, owed, compared>>
           /\ (Takes(g, q, "lock") \/ Returns(g))
  BY <1>1, <1>2, WaitsOK
<1>3. CASE ~Locked(q) /\ Keeps(g, q)
  BY <1>1, <1>3, KeepsOK
<1>4. CASE ~Locked(q) /\ Rotates(g, q)
  BY <1>1, <1>4, RotatesOK
<1>5. CASE ~Locked(q) /\ Triggers(g, q)
  BY <1>1, <1>5, TriggersOK
<1>6. CASE StoreRaises(g, q, guard[q].session, {db}, "error") /\ UNCHANGED compared
  <2>1. q \in Begins /\ guard[q].session # 0 /\ Running(g) /\ task[g].pc # "compare"
    BY GuardAssumption DEF Ready, Running, Sessions
  <2>2. db \in Store(Sessions) /\ {db} \in SUBSET Store(Sessions)
    BY DEF IInv, RuntimeTypeOK, GuardTypeOK
  <2> QED BY <1>1, <1>6, <2>1, <2>2, RestrictsOK
<1> QED BY <1>2, <1>3, <1>4, <1>5, <1>6 DEF Assesses, Takes

(* The three places communicate assesses from                                 *)
LEMMA StartsOK ==
  ASSUME IInv, NEW g \in Begins, Start(g) \/ LockGot(g) \/ Exchanged(g)
  PROVE  IInv'
<1>1. task[g].pc \in {"start", "lock", "exchange"} /\ Running(g) /\ AtRest
  BY DEF Start, LockGot, Exchanged, Running
<1>2. Ready(g, current)
  BY <1>1, CurrentOK DEF Ready
<1>3. task[g].pc = "lock" => Ready(g, task[g].on)
  BY <1>1, CurrentOK DEF Ready, OnGuard
<1> QED BY <1>1, <1>2, <1>3, AssessesOK DEF Start, LockGot, Exchanged

(* The guard whose assess a task is in                                        *)
LEMMA InsideOK ==
  ASSUME IInv, NEW g \in Begins, task[g].pc \in {"compare", "redial"}
  PROVE  /\ task[g].on \in Begins /\ task[g].on # 0 /\ Running(g) /\ current # 0
         /\ guard[task[g].on].session \in Sessions /\ guard[task[g].on].session # 0
<1>1. Running(g) /\ task[g].pc \in OnGuard
  BY DEF Running, OnGuard
<1>2. task[g].on \in Begins /\ guard[task[g].on].session \in Sessions /\ current # 0
  BY <1>1, CurrentOK
<1> QED BY <1>1, <1>2, GuardAssumption DEF Begins, Sessions

(* A guard that becomes verified keeps its session.                           *)
LEMMA VerifiedOK ==
  ASSUME RuntimeTypeOK, NEW q \in Begins, guard' = [guard EXCEPT ![q].verified = TRUE]
  PROVE  /\ guard' \in [Begins -> [session : 0 .. MaxSessions, verified : BOOLEAN,
                                   restricted : BOOLEAN]]
         /\ \A h \in Begins : guard'[h].session = guard[h].session
<1> DEFINE R == [session : 0 .. MaxSessions, verified : BOOLEAN, restricted : BOOLEAN]
           r == [guard[q] EXCEPT !.verified = TRUE]
<1>1. guard[q] \in R /\ guard \in [Begins -> R]
  BY DEF RuntimeTypeOK, GuardTypeOK
<1>2. r \in R /\ r.session = guard[q].session
  BY <1>1
<1>3. guard' = [guard EXCEPT ![q] = r]
  OBVIOUS
<1> HIDE DEF r, R
<1>4. guard' \in [Begins -> R] /\ \A h \in Begins : guard'[h].session = guard[h].session
  BY <1>1, <1>2, <1>3
<1> QED BY <1>4 DEF R

(* Both people said MATCH: the compared connection closes.                    *)
LEMMA MatchesOK ==
  ASSUME IInv, NEW g \in Begins, Matches(g), AtRest
  PROVE  IInv'
<1> DEFINE q == task[g].on
           s == guard[q].session
           d == Verification(db, TRUE)
<1>1. task[g].pc = "compare" /\ compared' = compared
  BY DEF Matches, Answers
<1>2. /\ q \in Begins /\ q # 0 /\ Running(g) /\ current # 0
      /\ s \in Sessions /\ s # 0
  BY <1>1, InsideOK
<1>3. InAssess
  <2>1. answer' = 0 /\ owed' = FALSE /\ failed' = FALSE /\ UNCHANGED <<sessions, current>>
    BY DEF Matches
  <2>2. answer' \in 0 .. MaxBegins
    BY <2>1, GuardAssumption
  <2> QED BY <2>1, <2>2 DEF InAssess
<1>4. d \in Store(Sessions) /\ db \in Store(Sessions)
  BY <1>2, StoreOK DEF IInv, RuntimeTypeOK, GuardTypeOK
<1>5. CASE StoreRaises(g, q, s, {db, d}, "error")
  BY <1>1, <1>2, <1>3, <1>4, <1>5, RestrictsOK
<1>6. CASE /\ db' = d /\ guard' = [guard EXCEPT ![q].verified = TRUE]
           /\ Reestablishes(g, q) /\ UNCHANGED faults
  <2>1. OnlyMoves(g, {"redial"}) /\ task'[g].on = q
    BY <1>2, <1>6, TakesOK DEF Takes, Reestablishes, IInv
  <2>2. /\ conn' \in [Sessions -> {"none", "gated", "open", "closed"}]
        /\ \A t \in Sessions : conn'[t] \in {conn[t], "closed"}
        /\ conn'[s] = "closed"
    BY <1>2, <1>6 DEF Reestablishes, IInv, RuntimeTypeOK, GuardTypeOK
  <2>3. /\ guard' \in [Begins -> [session : 0 .. MaxSessions, verified : BOOLEAN,
                                  restricted : BOOLEAN]]
        /\ \A h \in Begins : guard'[h].session = guard[h].session
    BY <1>2, <1>6, VerifiedOK DEF IInv
  <2>4. Typed
    BY <1>4, <1>6, <2>1, <2>2, <2>3 DEF Typed, OnlyMoves, IInv, RuntimeTypeOK, GuardTypeOK
  <2>5. Steady(g)
    BY <1>1, <1>2, <1>3, <2>1, <2>3, <2>4 DEF Steady, InAssess, OnlyMoves
  <2>6. Quiet(g)
    BY <1>1, <2>1, <2>2, <2>5 DEF Quiet, OnlyMoves
  <2> QED BY <2>6, QuietOK
<1> QED BY <1>5, <1>6 DEF Matches

(* A comparison that fails closes its connection.                             *)
LEMMA ComparisonFailsOK ==
  ASSUME IInv, NEW g \in Begins, task[g].pc = "compare", ComparisonFails(g), AtRest
  PROVE  IInv'
<1> DEFINE q == task[g].on
           d == Verification(db, FALSE)
<1>1. /\ q \in Begins /\ guard[q].session # 0 /\ Running(g)
      /\ guard[q].session \in Sessions
  BY InsideOK
<1>2. InAssess /\ compared' = compared
  BY GuardAssumption DEF InAssess, ComparisonFails, IInv, RuntimeTypeOK, GuardTypeOK
<1>3. d \in Store(Sessions) /\ db \in Store(Sessions)
  BY <1>1, StoreOK DEF IInv, RuntimeTypeOK, GuardTypeOK
<1>4. RestrictsOrRaises(g, q, d, {db, d}, "return")
  BY DEF ComparisonFails
<1> QED BY <1>1, <1>2, <1>3, <1>4, RestrictsOK

(* So does a replacement that fails, and a stop inside assess.                *)
LEMMA RedialFailsOK ==
  ASSUME IInv, NEW g \in Begins,
         (RedialFails(g) /\ AtRest) \/ StopsAssess(g)
  PROVE  IInv'
<1> DEFINE q == task[g].on
<1>1. task[g].pc \in {"compare", "redial"}
  BY DEF RedialFails, StopsAssess
<1>2. /\ q \in Begins /\ guard[q].session # 0 /\ Running(g)
  BY <1>1, InsideOK
<1>3. InAssess /\ compared' = compared
  <2>1. /\ answer \in 0 .. MaxBegins /\ 0 \in 0 .. MaxBegins
        /\ owed \in BOOLEAN /\ failed \in BOOLEAN
    BY GuardAssumption DEF IInv, RuntimeTypeOK, GuardTypeOK
  <2>2. AtRest /\ UNCHANGED <<sessions, current, owed, compared>>
    BY DEF AtRest, RedialFails, StopsAssess
  <2>3. answer' \in 0 .. MaxBegins
    BY <2>1 DEF RedialFails, StopsAssess
  <2>4. failed' \in BOOLEAN
    BY <2>1 DEF RedialFails, StopsAssess
  <2> QED BY <2>1, <2>2, <2>3, <2>4 DEF InAssess
<1>4. db \in Store(Sessions)
  BY DEF IInv, RuntimeTypeOK, GuardTypeOK
<1>5. \E c \in {"error", "cancel"} : RestrictsOrRaises(g, q, db, {db}, c)
  BY DEF RedialFails, StopsAssess
<1> QED BY <1>2, <1>3, <1>4, <1>5, RestrictsOK

-------------------------------------------------------------------------------
(* The steps that make a session, and the crash                               *)

(* A step of task g that makes a session, for guard q                         *)
Fresh(g, q) ==
    /\ Typed /\ crashes' = crashes /\ sessions < MaxSessions /\ sessions' = sessions + 1
    /\ latest' \in 0 .. MaxBegins /\ current' \in 0 .. MaxBegins
    /\ UNCHANGED <<answer, owed, failed, compared>>
    /\ \A h \in Begins \ {q} : guard'[h].session = guard[h].session
    /\ guard'[q].session \in {guard[q].session, sessions + 1}
    /\ \A s \in Sessions \ {sessions + 1} : conn'[s] \in {conn[s], "closed"}
    /\ \A h \in Begins \ {g} : task'[h] = task[h]
    /\ task[g].pc # "compare" /\ (q = g \/ guard[q].session # 0)
    /\ \A h \in Begins : task[h].pc = "compare" => task[h].on # q
    /\ task'[g].pc \notin {"compare", "redial", "unused", "connect"}
    /\ task'[g].pc # "ended" => current' # 0
    /\ current' \in {0, q, current} /\ (current' = 0 => current = 0)
    /\ current' = q /\ current # q => guard'[q].session # 0
    /\ task'[g].pc \in OnGuard => task'[g].on \in {q, current} \ {0}
                                  /\ guard'[task'[g].on].session # 0

(* The number of the session it makes was never compared.                     *)
LEMMA FreshOK ==
  ASSUME IInv, NEW g \in Begins, NEW q \in Begins, Fresh(g, q)
  PROVE  IInv'
<1> USE DEF Fresh
<1>0. /\ sessions \in 0 .. MaxSessions /\ current \in 0 .. MaxBegins
      /\ compared \in SUBSET Sessions
      /\ \A h \in Begins : task[h].on \in 0 .. MaxBegins
      /\ \A h \in Begins : guard[h].session \in Nat
  BY GuardAssumption DEF IInv, RuntimeTypeOK, GuardTypeOK
<1>1. RuntimeTypeOK'
  <2>1. sessions' \in 0 .. MaxSessions
    BY <1>0, GuardAssumption
  <2> QED BY <2>1 DEF IInv, RuntimeTypeOK, GuardTypeOK, Typed, TaskRecord
<1>2. \A h \in Begins : guard[h].session # 0 => guard'[h].session # 0
  BY <1>0
<1>3. OwnersOK'
  <2>1. current' # 0 => guard'[current'].session # 0
    BY <1>0, <1>2, GuardAssumption DEF IInv, OwnersOK, Begins
  <2>2. \A h \in Begins : Running(h)' => current' # 0
    BY DEF IInv, OwnersOK, Running
  <2>3. \A h \in Begins \ {g} : task'[h].pc \in OnGuard =>
            task'[h].on # 0 /\ guard'[task'[h].on].session # 0
    BY <1>0, <1>2, GuardAssumption DEF IInv, OwnersOK, Begins
  <2>4. \A h \in Begins : task'[h].pc \in {"unused", "connect"} => guard'[h].session = 0
    BY DEF IInv, OwnersOK
  <2> QED BY <2>1, <2>2, <2>3, <2>4 DEF OwnersOK
<1>4. NumbersOK'
  <2>1. \A h \in Begins : guard'[h].session <= sessions'
    BY <1>0, GuardAssumption DEF IInv, NumbersOK
  <2>2. \A h, k \in Begins : guard'[h].session = guard'[k].session =>
            h = k \/ guard'[h].session = 0
    BY <1>0, GuardAssumption DEF IInv, NumbersOK
  <2>3. \A s \in compared' : s <= sessions'
    BY <1>0, GuardAssumption DEF IInv, NumbersOK, Sessions
  <2> QED BY <2>1, <2>2, <2>3 DEF NumbersOK
<1>5. LockOK'
  BY DEF IInv, LockOK
<1>6. ComparedOK'
  <2> SUFFICES ASSUME NEW s \in compared, IsUp(s)'
               PROVE  /\ conn'[s] = "gated"
                      /\ \E h \in Begins : task'[h].pc = "compare"
                                           /\ guard'[task'[h].on].session = s
    BY DEF ComparedOK
  <2>1. s \in Sessions /\ s # sessions + 1
    BY <1>0, GuardAssumption DEF IInv, NumbersOK, Sessions
  <2>2. conn'[s] = conn[s] /\ IsUp(s)
    BY <2>1 DEF IsUp
  <2>3. conn[s] = "gated"
    BY <2>2, WitnessOK
  <2>4. PICK h \in Begins : /\ task[h].pc = "compare" /\ guard[task[h].on].session = s
                            /\ task[h].on \in Begins
    BY <2>2, WitnessOK
  <2>5. h # g /\ task[h].on # q
    BY <2>4
  <2> QED BY <2>2, <2>3, <2>4, <2>5
<1> QED BY <1>1, <1>3, <1>4, <1>5, <1>6 DEF IInv

(* begin has a connection, whether or not the store takes it.                 *)
LEMMA BegunOK ==
  ASSUME IInv, NEW g \in Begins, Begun(g)
  PROVE  IInv'
<1> DEFINE n == sessions + 1
<1>1. /\ task[g].pc = "connect" /\ sessions < MaxSessions /\ sessions' = n
      /\ UNCHANGED <<answer, crashes, owed, failed, compared>>
  BY DEF Begun
<1>2. /\ n \in Sessions /\ n \in 0 .. MaxSessions /\ n # 0 /\ g \in 0 .. MaxBegins /\ g # 0
      /\ current \in 0 .. MaxBegins /\ latest \in 0 .. MaxBegins
  BY <1>1, GuardAssumption DEF IInv, RuntimeTypeOK, GuardTypeOK, Sessions, Begins
<1>3. /\ db \in Store(Sessions) /\ StartSession(db, n) \in Store(Sessions)
      /\ db.verified \in BOOLEAN
  BY <1>2, StoreOK DEF IInv, RuntimeTypeOK, GuardTypeOK, Store
<1>4. /\ guard[g].session = 0
      /\ \A h \in Begins : task[h].pc = "compare" => task[h].on # g
  BY <1>1 DEF IInv, OwnersOK, OnGuard
<1>5. CASE /\ db' = StartSession(db, n)
           /\ guard' = [guard EXCEPT ![g] = [session |-> n, verified |-> db.verified,
                                             restricted |-> FALSE]]
           /\ conn' = [conn EXCEPT ![n] = IF db.verified THEN "open" ELSE "gated"]
           /\ current' = g /\ latest' = g
           /\ Goto(g, "start")
           /\ UNCHANGED faults
  <2>1. /\ OnlyMoves(g, {"connect", "start", "sleep", "ended"}) /\ task'[g].pc = "start"
    BY <1>5, GotoOK DEF IInv
  <2>2. /\ guard' \in [Begins -> [session : 0 .. MaxSessions, verified : BOOLEAN,
                                  restricted : BOOLEAN]]
        /\ guard'[g].session = n /\ \A h \in Begins \ {g} : guard'[h] = guard[h]
    BY <1>2, <1>3, <1>5 DEF IInv, RuntimeTypeOK, GuardTypeOK
  <2>3. /\ conn' \in [Sessions -> {"none", "gated", "open", "closed"}]
        /\ \A s \in Sessions \ {n} : conn'[s] = conn[s]
    BY <1>2, <1>5 DEF IInv, RuntimeTypeOK, GuardTypeOK
  <2>4. Typed
    BY <1>3, <1>5, <2>1, <2>2, <2>3 DEF Typed, OnlyMoves, IInv, RuntimeTypeOK, GuardTypeOK
  <2>5. Fresh(g, g)
    BY <1>1, <1>2, <1>4, <1>5, <2>1, <2>2, <2>3, <2>4 DEF Fresh, OnlyMoves, OnGuard
  <2> QED BY <2>5, FreshOK
<1>6. CASE /\ faults < MaxFaults
           /\ faults' = faults + 1
           /\ db' \in {db, StartSession(db, n)}
           /\ conn' = [conn EXCEPT ![n] = "gated"]
           /\ Goto(g, "ended")
           /\ UNCHANGED <<guard, current, latest>>
  <2>1. /\ OnlyMoves(g, {"connect", "start", "sleep", "ended"}) /\ task'[g].pc = "ended"
    BY <1>6, GotoOK DEF IInv
  <2>2. guard' \in [Begins -> [session : 0 .. MaxSessions, verified : BOOLEAN,
                               restricted : BOOLEAN]]
    BY <1>6 DEF IInv, RuntimeTypeOK, GuardTypeOK
  <2>3. /\ conn' \in [Sessions -> {"none", "gated", "open", "closed"}]
        /\ \A s \in Sessions \ {n} : conn'[s] = conn[s]
    BY <1>2, <1>6 DEF IInv, RuntimeTypeOK, GuardTypeOK
  <2>4. faults' \in 0 .. MaxFaults
    BY <1>6, GuardAssumption DEF IInv, RuntimeTypeOK, GuardTypeOK
  <2>5. Typed
    BY <1>3, <1>6, <2>1, <2>2, <2>3, <2>4 DEF Typed, OnlyMoves
  <2>6. Fresh(g, g)
    BY <1>1, <1>2, <1>4, <1>6, <2>1, <2>3, <2>5 DEF Fresh, OnlyMoves, OnGuard
  <2> QED BY <2>6, FreshOK
<1> QED BY <1>5, <1>6 DEF Begun

(* A guard that takes a fresh connection                                      *)
LEMMA RenumberedOK ==
  ASSUME RuntimeTypeOK, NEW q \in Begins, NEW n \in 0 .. MaxSessions,
         guard' = [guard EXCEPT ![q].session = n]
  PROVE  /\ guard' \in [Begins -> [session : 0 .. MaxSessions, verified : BOOLEAN,
                                   restricted : BOOLEAN]]
         /\ guard'[q].session = n /\ \A h \in Begins \ {q} : guard'[h] = guard[h]
<1> DEFINE R == [session : 0 .. MaxSessions, verified : BOOLEAN, restricted : BOOLEAN]
           r == [guard[q] EXCEPT !.session = n]
<1>1. guard[q] \in R /\ guard \in [Begins -> R]
  BY DEF RuntimeTypeOK, GuardTypeOK
<1>2. r \in R /\ r.session = n
  BY <1>1
<1>3. guard' = [guard EXCEPT ![q] = r]
  OBVIOUS
<1> HIDE DEF r, R
<1>4. /\ guard' \in [Begins -> R] /\ guard'[q].session = n
      /\ \A h \in Begins \ {q} : guard'[h] = guard[h]
  BY <1>1, <1>2, <1>3
<1> QED BY <1>4 DEF R

(* reestablish has a connection, whether or not the store takes it.           *)
LEMMA RedialledOK ==
  ASSUME IInv, NEW g \in Begins, Redialled(g), AtRest
  PROVE  IInv'
<1> DEFINE q == task[g].on
           n == sessions + 1
           old == guard[q].session
<1>1. /\ task[g].pc = "redial" /\ sessions < MaxSessions /\ sessions' = n
      /\ UNCHANGED <<answer, crashes, latest, current, owed, failed, compared>>
  BY DEF Redialled, AtRest
<1>2. /\ q \in Begins /\ q # 0 /\ Running(g) /\ current # 0 /\ old \in Sessions /\ old # 0
  BY <1>1, InsideOK
<1>3. /\ n \in Sessions /\ n \in 0 .. MaxSessions /\ n # 0
      /\ current \in 0 .. MaxBegins /\ latest \in 0 .. MaxBegins
      /\ guard[current].session # 0
  BY <1>1, <1>2, GuardAssumption
     DEF IInv, RuntimeTypeOK, GuardTypeOK, Sessions, Begins, OwnersOK
<1>4. /\ db \in Store(Sessions) /\ Replaced(db, old, n) \in Store(Sessions)
      /\ ReplacementTried(db, old, n) \subseteq Store(Sessions)
  BY <1>2, <1>3, ReplacedOK DEF IInv, RuntimeTypeOK, GuardTypeOK
<1>5. \A h \in Begins : task[h].pc = "compare" => task[h].on # q
  BY <1>1 DEF IInv, LockOK
<1>6. CASE /\ db' = Replaced(db, old, n)
           /\ guard' = [guard EXCEPT ![q].session = n]
           /\ conn' = [conn EXCEPT ![n] = "open"]
           /\ Returns(g)
           /\ UNCHANGED faults
  <2>1. /\ OnlyMoves(g, {"unwind", "exchange", "sleep"})
        /\ task'[g].pc = "exchange" => task'[g].on = current
    BY <1>2, <1>6, ReturnsOK DEF IInv
  <2>2. /\ guard' \in [Begins -> [session : 0 .. MaxSessions, verified : BOOLEAN,
                                  restricted : BOOLEAN]]
        /\ guard'[q].session = n /\ \A h \in Begins \ {q} : guard'[h] = guard[h]
    BY <1>2, <1>3, <1>6, RenumberedOK DEF IInv
  <2>3. /\ conn' \in [Sessions -> {"none", "gated", "open", "closed"}]
        /\ \A s \in Sessions \ {n} : conn'[s] = conn[s]
    BY <1>3, <1>6 DEF IInv, RuntimeTypeOK, GuardTypeOK
  <2>4. Typed
    BY <1>4, <1>6, <2>1, <2>2, <2>3 DEF Typed, OnlyMoves, IInv, RuntimeTypeOK, GuardTypeOK
  <2>5. current \in Begins /\ guard'[current].session # 0
    BY <1>2, <1>3, <2>2, GuardAssumption DEF Begins
  <2>6. Fresh(g, q)
    BY <1>1, <1>2, <1>3, <1>5, <2>1, <2>2, <2>3, <2>4, <2>5 DEF Fresh, OnlyMoves, OnGuard
  <2> QED BY <1>2, <2>6, FreshOK
<1>7. CASE /\ faults < MaxFaults
           /\ faults' = faults + 1
           /\ Shuts(q, n)
           /\ task' = [task EXCEPT ![g].pc = "closing", ![g].cause = "error"]
           /\ db' \in RestrictionTried(ReplacementTried(db, old, n), n)
  <2>1. OnlyMoves(g, {"closing"})
    <3> DEFINE r == [task[g] EXCEPT !.pc = "closing", !.cause = "error"]
    <3>1. task[g] \in TaskRecord /\ task \in [Begins -> TaskRecord]
      BY DEF IInv, RuntimeTypeOK, GuardTypeOK, TaskRecord
    <3>2. r \in TaskRecord /\ r.pc = "closing"
      BY <3>1 DEF TaskRecord
    <3>3. task' = [task EXCEPT ![g] = r]
      BY <1>7
    <3> HIDE DEF r
    <3> QED BY <3>1, <3>2, <3>3 DEF OnlyMoves
  <2>2. /\ conn' \in [Sessions -> {"none", "gated", "open", "closed"}]
        /\ guard' \in [Begins -> [session : 0 .. MaxSessions, verified : BOOLEAN,
                                  restricted : BOOLEAN]]
        /\ guard'[q].session = n
        /\ \A h \in Begins \ {q} : guard'[h] = guard[h]
        /\ \A t \in Sessions \ {n} : conn'[t] = conn[t]
    BY <1>2, <1>3, <1>7, ShutsOK DEF IInv
  <2>3. db' \in Store(Sessions)
    BY <1>3, <1>4, <1>7, RestrictionTriedOK
  <2>4. faults' \in 0 .. MaxFaults
    BY <1>7, GuardAssumption DEF IInv, RuntimeTypeOK, GuardTypeOK
  <2>5. Typed
    BY <2>1, <2>2, <2>3, <2>4 DEF Typed, OnlyMoves
  <2>6. Fresh(g, q)
    BY <1>1, <1>2, <1>3, <1>5, <2>1, <2>2, <2>5 DEF Fresh, OnlyMoves, OnGuard
  <2> QED BY <1>2, <2>6, FreshOK
<1> QED BY <1>6, <1>7 DEF Redialled

(* A crash leaves no guard, no task and no connection.                        *)
LEMMA CrashOK ==
  ASSUME IInv, Crash
  PROVE  IInv'
<1>1. /\ \A h \in Begins : task'[h].pc \in {"unused", "ended"} /\ guard'[h] = NoGuard
      /\ task' \in [Begins -> TaskRecord]
  <2> DEFINE ended == [NoTask EXCEPT !.pc = "ended"]
  <2>0. NoTask \in TaskRecord /\ NoTask.pc = "unused"
    BY GuardAssumption DEF NoTask, TaskRecord
  <2>1. /\ NoTask \in TaskRecord /\ NoTask.pc = "unused"
        /\ ended \in TaskRecord /\ ended.pc = "ended"
    BY <2>0 DEF TaskRecord
  <2>2. /\ task' = [h \in Begins |-> IF task[h].pc = "unused" THEN NoTask ELSE ended]
        /\ guard' = [h \in Begins |-> NoGuard]
    BY DEF Crash
  <2> HIDE DEF ended
  <2> QED BY <2>1, <2>2
<1>2. /\ conn' \in [Sessions -> {"none", "gated", "open", "closed"}]
      /\ \A s \in Sessions : ~IsUp(s)'
  BY DEF Crash, IsUp, IInv, RuntimeTypeOK, GuardTypeOK
<1>3. RuntimeTypeOK'
  <2>1. guard' \in [Begins -> [session : 0 .. MaxSessions, verified : BOOLEAN,
                               restricted : BOOLEAN]]
    BY GuardAssumption DEF Crash, NoGuard
  <2>2. /\ UNCHANGED <<db, sessions, faults, owed, failed, compared>>
        /\ current' = 0 /\ latest' = 0 /\ answer' = 0
        /\ crashes < MaxCrashes /\ crashes' = crashes + 1
    BY DEF Crash
  <2>3. /\ crashes' \in 0 .. MaxCrashes /\ latest' \in 0 .. MaxBegins
        /\ current' \in 0 .. MaxBegins /\ answer' \in 0 .. MaxBegins
    BY <2>2, GuardAssumption, DashboardAssumption DEF IInv, RuntimeTypeOK, GuardTypeOK
  <2>4. /\ db' \in Store(Sessions) /\ sessions' \in 0 .. MaxSessions
        /\ faults' \in 0 .. MaxFaults /\ compared' \in SUBSET Sessions
    BY <2>2 DEF IInv, RuntimeTypeOK, GuardTypeOK
  <2>5. owed' \in BOOLEAN /\ failed' \in BOOLEAN
    BY <2>2 DEF IInv, RuntimeTypeOK, GuardTypeOK
  <2> QED BY <1>1, <1>2, <2>1, <2>3, <2>4, <2>5 DEF RuntimeTypeOK, GuardTypeOK, TaskRecord
<1>4. OwnersOK'
  BY <1>1 DEF Crash, OwnersOK, Running, OnGuard, NoGuard
<1>5. NumbersOK'
  BY <1>1, GuardAssumption
     DEF Crash, NumbersOK, NoGuard, IInv, RuntimeTypeOK, GuardTypeOK, Sessions
<1>6. LockOK'
  BY <1>1 DEF LockOK
<1>7. ComparedOK'
  BY <1>2 DEF Crash, ComparedOK, IInv, RuntimeTypeOK, GuardTypeOK
<1> QED BY <1>3, <1>4, <1>5, <1>6, <1>7 DEF IInv

-------------------------------------------------------------------------------

(* Every step keeps the invariant.                                            *)
LEMMA StepOK == IInv /\ [Next]_vars => IInv'
<1> SUFFICES ASSUME IInv, [Next]_vars PROVE IInv'
  OBVIOUS
<1>1. CASE UNCHANGED vars
  BY <1>1 DEF vars, guardVars, IInv, RuntimeTypeOK, GuardTypeOK, OwnersOK, NumbersOK, LockOK,
              ComparedOK, Running, IsUp
<1>2. CASE Crash
  BY <1>2, CrashOK
<1>3. ASSUME NEW g \in Begins, Step(g) PROVE IInv'
  <2>1. CASE Begin(g) \/ BeginFails(g)
    BY <2>1, BeginsOK
  <2>2. CASE Begun(g)
    BY <2>2, BegunOK
  <2>3. CASE Start(g) \/ LockGot(g) \/ Exchanged(g)
    BY <2>3, StartsOK
  <2>4. CASE Matches(g) /\ AtRest
    BY <2>4, MatchesOK
  <2>5. CASE (Mismatches(g) \/ TimesOut(g)) /\ AtRest
    BY <2>5, ComparisonFailsOK DEF Mismatches, TimesOut, Answers
  <2>6. CASE Redialled(g) /\ AtRest
    BY <2>6, RedialledOK
  <2>7. CASE RedialFails(g) /\ AtRest
    BY <2>7, RedialFailsOK
  <2>8. CASE ExchangeFails(g)
    BY <2>8, ExchangeFailsOK
  <2>9. CASE Wakes(g) \/ ReturnsRestricted(g)
    BY <2>9, WakesOK
  <2>10. CASE HandlesError(g)
    BY <2>10, HandlesErrorOK
  <2>11. CASE Finally(g) \/ Closed(g)
    BY <2>11, FinallyOK
  <2>12. CASE Stop(g)
    BY <2>12, RedialFailsOK, ExchangeFailsOK, StopsElsewhereOK DEF Stop
  <2> QED BY <1>3, <2>1, <2>2, <2>3, <2>4, <2>5, <2>6, <2>7, <2>8, <2>9, <2>10, <2>11,
             <2>12 DEF Step
<1>4. ASSUME NEW g \in Begins, NEW kind \in RaceKinds, Races(g, kind) PROVE IInv'
  BY <1>4, BeginsOK DEF Races
<1> QED BY <1>1, <1>2, <1>3, <1>4 DEF Next

(* The invariant holds in every state of the dashboard.                       *)
THEOREM AlwaysIInv == Spec => []IInv
BY InitIInv, StepOK, PTL DEF Spec

(* Every variable of the dashboard, its guards and its store keeps its type,  *)
(* also when transactions raise, requests race and the process crashes.       *)
THEOREM DashboardTypeCorrect == Spec => []TypeOK
<1>1. Init => races \subseteq RaceKinds
  BY DEF Init
<1>2. races \subseteq RaceKinds /\ [Next]_vars => (races \subseteq RaceKinds)'
  BY DEF Next, vars
<1>3. Spec => [](races \subseteq RaceKinds)
  BY <1>1, <1>2, PTL DEF Spec
<1>4. IInv /\ races \subseteq RaceKinds => TypeOK
  BY DEF IInv, TypeOK
<1> QED BY <1>3, <1>4, AlwaysIInv, PTL

(* A connection on which SessionGuard.assess demanded a comparison never      *)
(* carries data again.                                                        *)
THEOREM FreshSafe == Spec => []FreshAfterComparison
<1>1. IInv => FreshAfterComparison
  <2> SUFFICES ASSUME IInv, NEW s \in compared, Open(s) PROVE FALSE
    BY DEF FreshAfterComparison
  <2>1. IsUp(s) /\ conn[s] # "gated"
    BY DEF Open, IsUp
  <2> QED BY <2>1, WitnessOK
<1> QED BY <1>1, AlwaysIInv, PTL

-------------------------------------------------------------------------------
(* The store's transactions, row by row, and a second invariant: what holds   *)
(* while no request has raced another one                                     *)

(* The end of one row leaves the others and the verified flag alone.          *)
LEMMA FinishRow ==
  ASSUME NEW S, NEW d \in Store(S), NEW s \in S, NEW status \in Row \ {"ACTIVE"}
  PROVE  /\ FinishSession(d, s, status).verified = d.verified
         /\ FinishSession(d, s, status).row[s] # "ACTIVE"
         /\ \A t \in S \ {s} : FinishSession(d, s, status).row[t] = d.row[t]
         /\ \A t \in S : FinishSession(d, s, status).row[t] = "ACTIVE" => d.row[t] = "ACTIVE"
         /\ \A t \in S : d.row[t] = "none" => FinishSession(d, s, status).row[t] = "none"
<1>1. CASE d.row[s] = "ACTIVE"
  <2> DEFINE e == [d EXCEPT !.row[s] = status]
  <2>1. FinishSession(d, s, status) = e
    BY <1>1 DEF FinishSession
  <2>2. e.verified = d.verified /\ e.row = [d.row EXCEPT ![s] = status]
    BY DEF Store
  <2>3. e.row[s] = status /\ \A t \in S \ {s} : e.row[t] = d.row[t]
    BY <2>2 DEF Store
  <2> QED BY <1>1, <2>1, <2>2, <2>3
<1>2. CASE d.row[s] # "ACTIVE"
  BY <1>2 DEF FinishSession
<1> QED BY <1>1, <1>2

(* A restriction takes the relationship's verification and ends the row.      *)
LEMMA RestrictionRow ==
  ASSUME NEW S, NEW d \in Store(S), NEW s \in S
  PROVE  /\ Restriction(d, s).verified = FALSE
         /\ \A t \in S \ {s} : Restriction(d, s).row[t] = d.row[t]
         /\ \A t \in S : Restriction(d, s).row[t] = "ACTIVE" => d.row[t] = "ACTIVE"
<1> DEFINE e == RestrictRelationship(d)
<1>1. e \in Store(S) /\ e.verified = FALSE /\ e.row = d.row
  BY StoreOK DEF RestrictRelationship, Store
<1>2. Restriction(d, s) = FinishSession(e, s, "RESTRICTED") /\ "RESTRICTED" \in Row \ {"ACTIVE"}
  BY DEF Restriction, Row
<1> HIDE DEF e
<1> QED BY <1>1, <1>2, FinishRow

(* A restriction of which a transaction raised has written no other row.      *)
LEMMA RestrictionTriedRow ==
  ASSUME NEW S, NEW tries \in SUBSET Store(S), NEW s \in S, NEW e \in RestrictionTried(tries, s)
  PROVE  \E d \in tries : \A t \in S \ {s} : e.row[t] = d.row[t]
<1>1. CASE e \in tries
  BY <1>1
<1>2. CASE \E d \in tries : e = RestrictRelationship(d)
  BY <1>2 DEF RestrictRelationship, Store
<1>3. ASSUME NEW d \in tries, e = Restriction(d, s) PROVE \A t \in S \ {s} : e.row[t] = d.row[t]
  <2>1. d \in Store(S)
    OBVIOUS
  <2> QED BY <1>3, <2>1, RestrictionRow
<1> QED BY <1>1, <1>2, <1>3 DEF RestrictionTried

(* What starts a row                                                          *)
LEMMA StartRow ==
  ASSUME NEW S, NEW d \in Store(S), NEW s \in S
  PROVE  /\ StartSession(d, s).verified = d.verified
         /\ StartSession(d, s).row[s] = "ACTIVE"
         /\ \A t \in S \ {s} : StartSession(d, s).row[t] = d.row[t]
<1> DEFINE e == [d EXCEPT !.row[s] = "ACTIVE"]
<1>1. e.verified = d.verified /\ e.row = [d.row EXCEPT ![s] = "ACTIVE"]
  BY DEF Store
<1>2. e.row[s] = "ACTIVE" /\ \A t \in S \ {s} : e.row[t] = d.row[t]
  BY <1>1 DEF Store
<1> QED BY <1>1, <1>2 DEF StartSession

(* A replacement ends the old row and starts the new one.                     *)
LEMMA ReplacedRow ==
  ASSUME NEW S, NEW d \in Store(S), NEW old \in S, NEW new \in S, old # new
  PROVE  /\ Replaced(d, old, new).verified = d.verified
         /\ Replaced(d, old, new).row[new] = "ACTIVE"
         /\ Replaced(d, old, new).row[old] # "ACTIVE"
         /\ \A t \in S \ {old, new} : Replaced(d, old, new).row[t] = d.row[t]
         /\ \A e \in ReplacementTried(d, old, new) : \A t \in S \ {old, new} :
               e.row[t] = d.row[t]
<1> DEFINE f == FinishSession(d, old, "CLOSED")
<1>0. "CLOSED" \in Row \ {"ACTIVE"}
  BY DEF Row
<1>1. /\ f \in Store(S) /\ f.verified = d.verified /\ f.row[old] # "ACTIVE"
      /\ \A t \in S \ {old} : f.row[t] = d.row[t]
  <2>1. f \in Store(S)
    BY <1>0, StoreOK
  <2>2. /\ f.verified = d.verified /\ f.row[old] # "ACTIVE"
        /\ \A t \in S \ {old} : f.row[t] = d.row[t]
    BY <1>0, FinishRow
  <2> QED BY <2>1, <2>2
<1>2. /\ Replaced(d, old, new) = StartSession(f, new)
      /\ ReplacementTried(d, old, new) = {d, f, Replaced(d, old, new)}
  BY DEF Replaced, ReplacementTried
<1> HIDE DEF f
<1>3. /\ Replaced(d, old, new).verified = d.verified
      /\ Replaced(d, old, new).row[new] = "ACTIVE"
      /\ \A t \in S \ {new} : Replaced(d, old, new).row[t] = f.row[t]
  BY <1>1, <1>2, StartRow
<1> QED BY <1>1, <1>2, <1>3

(* A task from the request that begins it to its end                          *)
Alive(g) == task[g].pc \notin {"unused", "ended"}

(* There is one task at a time, on the runtime's guard, which is its own.     *)
AloneOK ==
    /\ latest = current
    /\ \A g, h \in Begins : Alive(g) /\ Alive(h) => g = h
    /\ \A g \in Begins : Running(g) => g = current
    /\ \A g \in Begins : task[g].pc \in OnGuard => task[g].on = g

(* What is open belongs to the session that runs, and the store agrees.       *)
RecordOK ==
    /\ \A s \in Sessions : s > sessions => conn[s] = "none" /\ db.row[s] = "none"
    /\ \A s \in Sessions : Open(s) =>
          current # 0 /\ Running(current) /\ guard[current].session = s /\ guard[current].verified
    /\ \A g \in Begins : Running(g) =>
          /\ guard[g].verified => ~guard[g].restricted /\ db.verified
          /\ ~guard[g].restricted => db.row[guard[g].session] = "ACTIVE"

(* What a task has done when it stands at one of these awaits                 *)
PlaceOK ==
    \A g \in Begins :
        /\ task[g].pc = "redial" => guard[g].verified /\ conn[guard[g].session] = "closed"
        /\ task[g].pc = "closed" => ~IsUp(guard[g].session)
        /\ task[g].pc = "compare" => ~guard[g].restricted /\ guard[g].session \in compared

(* While the store has not raised and the process has not crashed, nothing is *)
(* left of an earlier session, and the store takes verification away before a *)
(* demanded comparison is given up.                                           *)
HistoryOK ==
    /\ faults = 0 /\ crashes = 0 => \A s \in Sessions : IsUp(s) \/ db.row[s] = "ACTIVE" =>
          current # 0 /\ Running(current) /\ guard[current].session = s
    /\ faults = 0 /\ crashes = 0 /\ owed => ~db.verified \/ \E g \in Begins : task[g].pc = "compare"
    /\ faults = 0 /\ failed => ~db.verified

(* What is true while nothing has raced                                       *)
Lone == AloneOK /\ RecordOK /\ PlaceOK /\ HistoryOK

(* The second invariant                                                       *)
JInv == IInv /\ (races = {} => Lone)

(* Nothing has happened: everything holds.                                    *)
LEMMA InitLone == Init => Lone
<1> SUFFICES ASSUME Init PROVE Lone
  OBVIOUS
<1>1. /\ \A g \in Begins : task[g] = NoTask /\ guard[g] = NoGuard
      /\ \A s \in Sessions : conn[s] = "none" /\ db.row[s] = "none"
      /\ ~db.verified /\ latest = 0 /\ current = 0
  BY DEF Init, GuardInit, EmptyStore
<1> QED BY <1>1
        DEF Lone, AloneOK, RecordOK, PlaceOK, HistoryOK, Alive, Running, Open, IsUp, NoTask,
            OnGuard

(* The task that runs is the only one; its guard is its own and the runtime's.*)
LEMMA HereOK ==
  ASSUME IInv, Lone, NEW g \in Begins, Running(g)
  PROVE  /\ g = current /\ g = latest /\ g # 0
         /\ guard[g].session \in Sessions /\ guard[g].session <= sessions
         /\ task[g].pc \in OnGuard => task[g].on = g
         /\ \A h \in Begins \ {g} : task[h].pc \in {"unused", "ended"}
         /\ \A s \in Sessions \ {guard[g].session} : ~Open(s)
         /\ \A s \in Sessions : IsUp(s) \/ db.row[s] = "ACTIVE" =>
               faults # 0 \/ crashes # 0 \/ s = guard[g].session
<1>1. g = current /\ g = latest /\ (task[g].pc \in OnGuard => task[g].on = g)
  BY DEF Lone, AloneOK
<1>2. Alive(g)
  BY DEF Alive, Running
<1>3. \A h \in Begins \ {g} : task[h].pc \in {"unused", "ended"}
  BY <1>2 DEF Lone, AloneOK, Alive
<1>4. guard[g].session \in Sessions /\ g # 0
  BY <1>1, CurrentOK
<1>5. guard[g].session <= sessions
  BY DEF IInv, NumbersOK
<1>6. \A s \in Sessions \ {guard[g].session} : ~Open(s)
  BY <1>1 DEF Lone, RecordOK
<1>7. \A s \in Sessions : IsUp(s) \/ db.row[s] = "ACTIVE" =>
               faults # 0 \/ crashes # 0 \/ s = guard[g].session
  BY <1>1 DEF Lone, HistoryOK
<1> QED BY <1>1, <1>3, <1>4, <1>5, <1>6, <1>7

(* It stays so while that task is the only one that moves.                    *)
LEMMA AloneStep ==
  ASSUME IInv, Lone, NEW g \in Begins, Running(g), UNCHANGED <<current, latest>>,
         NEW pcs, OnlyMoves(g, pcs), task'[g].pc \in OnGuard => task'[g].on = g
  PROVE  AloneOK'
<1>1. /\ g = current /\ g = latest
      /\ \A h \in Begins \ {g} : task'[h].pc \in {"unused", "ended"}
  BY HereOK DEF OnlyMoves
<1> QED BY <1>1 DEF AloneOK, Alive, Running, OnGuard

(* A task moves on, between two awaits that no one else is at; a connection   *)
(* may close.                                                                 *)
LEMMA MovesLone ==
  ASSUME IInv, Lone, NEW g \in Begins, Running(g), task[g].pc # "compare",
         UNCHANGED <<current, latest, crashes, sessions, owed, failed, compared>>,
         UNCHANGED <<db, guard, faults>>,
         NEW pcs, OnlyMoves(g, pcs), task'[g].pc \in OnGuard => task'[g].on = g,
         task'[g].pc \notin {"unused", "connect", "compare", "redial", "ended"},
         \A t \in Sessions : conn'[t] \in {conn[t], "closed"},
         \A t \in Sessions : t > sessions => conn'[t] = conn[t],
         task'[g].pc = "closed" => conn'[guard[g].session] \in {"none", "closed"}
  PROVE  Lone'
<1>1. AloneOK'
  BY AloneStep
<1>2. /\ g = current /\ g # 0 /\ Running(g)'
      /\ \A h \in Begins \ {g} : task'[h] = task[h] /\ task[h].pc \in {"unused", "ended"}
  BY HereOK DEF OnlyMoves, Running
<1>3. RecordOK'
  BY <1>2 DEF Lone, RecordOK, Open, Running
<1>4. PlaceOK'
  BY <1>2 DEF PlaceOK, IsUp
<1>5. HistoryOK'
  BY <1>2 DEF Lone, HistoryOK, IsUp
<1> QED BY <1>1, <1>3, <1>4, <1>5 DEF Lone

(* A step that ends in a restriction of the guard, of which the store may     *)
(* have raised a part                                                         *)
Shutting(g) ==
    /\ UNCHANGED <<current, latest, crashes>> /\ OnlyMoves(g, {"closing", "unwind"})
    /\ sessions' \in {sessions, sessions + 1}
    /\ guard'[g].verified = FALSE /\ guard'[g].restricted = TRUE
    /\ \A t \in Sessions : conn'[t] # "open"
    /\ \A t \in Sessions : t > sessions' => conn'[t] = conn[t] /\ db'.row[t] = db.row[t]
    /\ faults' = 0 =>
          /\ faults = 0 /\ ~db'.verified /\ guard'[g].session = guard[g].session
          /\ \A t \in Sessions : IsUp(t)' => IsUp(t)
          /\ \A t \in Sessions : db'.row[t] = "ACTIVE" => db.row[t] = "ACTIVE"

(* After it nothing is open and, unless the store raised, unverified.         *)
LEMMA ShuttingLone ==
  ASSUME IInv, Lone, NEW g \in Begins, Running(g), Shutting(g)
  PROVE  Lone'
<1> USE DEF Shutting
<1>0. sessions \in Nat
  BY GuardAssumption DEF IInv, RuntimeTypeOK, GuardTypeOK
<1>1. AloneOK'
  BY AloneStep DEF OnlyMoves, OnGuard
<1>2. /\ g = current /\ g # 0 /\ Running(g)'
      /\ task'[g].pc \in {"closing", "unwind"}
      /\ \A h \in Begins \ {g} : task'[h] = task[h] /\ task[h].pc \in {"unused", "ended"}
  BY HereOK DEF OnlyMoves, Running
<1>3. \A t \in Sessions : t > sessions' => t > sessions
  BY <1>0 DEF Sessions
<1>4. RecordOK'
  BY <1>2, <1>3 DEF Lone, RecordOK, Open, Running
<1>5. PlaceOK'
  BY <1>2 DEF PlaceOK
<1>6. HistoryOK'
  BY <1>2 DEF Lone, HistoryOK
<1> QED BY <1>1, <1>4, <1>5, <1>6 DEF Lone

(* A guard that restricts itself shuts its connection, the only one, and the  *)
(* store is told unless it raises.                                            *)
LEMMA RestrictedLone ==
  ASSUME IInv, Lone, NEW g \in Begins, Running(g),
         UNCHANGED <<current, latest, crashes, sessions>>,
         NEW d \in Store(Sessions), NEW tries \in SUBSET Store(Sessions),
         d.row = db.row, \A e \in tries : e.row = db.row,
         NEW cause \in {"return", "error", "cancel"},
         \/ RestrictsOrRaises(g, g, d, tries, cause)
         \/ StoreRaises(g, g, guard[g].session, tries, cause)
  PROVE  Lone'
<1> DEFINE s == guard[g].session
<1>0. RuntimeTypeOK /\ sessions \in Nat /\ g \in 0 .. MaxBegins
  BY GuardAssumption DEF IInv, RuntimeTypeOK, GuardTypeOK, Begins
<1>1. /\ s \in Sessions /\ s <= sessions /\ g \in 0 .. MaxBegins
      /\ \A t \in Sessions \ {s} : ~Open(t)
      /\ RuntimeTypeOK /\ sessions \in Nat
  BY <1>0, HereOK
<1>2. guard[g].session # 0
  BY <1>1, GuardAssumption DEF Sessions
<1>3. OnlyMoves(g, {"closing", "unwind"})
  BY <1>1, <1>2, RestrictedOK
<1>4. Shuts(g, s)
  BY DEF RestrictsOrRaises, Restricts, StoreRaises
<1>5. /\ guard'[g] = [session |-> s, verified |-> FALSE, restricted |-> TRUE]
      /\ conn'[s] = "closed" /\ \A t \in Sessions \ {s} : conn'[t] = conn[t]
  BY <1>1, <1>4 DEF Shuts, RuntimeTypeOK, GuardTypeOK
<1>6. faults' = 0 => faults = 0 /\ db' = Restriction(d, s)
  <2>1. faults \in Nat
    BY <1>1, GuardAssumption DEF RuntimeTypeOK, GuardTypeOK
  <2> QED BY <2>1 DEF RestrictsOrRaises, Restricts, StoreRaises
<1>r. /\ ~Restriction(d, s).verified
      /\ \A t \in Sessions \ {s} : Restriction(d, s).row[t] = db.row[t]
      /\ \A t \in Sessions : Restriction(d, s).row[t] = "ACTIVE" => db.row[t] = "ACTIVE"
  <2> HIDE DEF s
  <2>1. /\ Restriction(d, s).verified = FALSE
        /\ \A t \in Sessions \ {s} : Restriction(d, s).row[t] = d.row[t]
        /\ \A t \in Sessions : Restriction(d, s).row[t] = "ACTIVE" => d.row[t] = "ACTIVE"
    BY <1>1, RestrictionRow
  <2> QED BY <2>1
<1>7. faults' = 0 => /\ ~db'.verified
                     /\ \A t \in Sessions : db'.row[t] = "ACTIVE" => db.row[t] = "ACTIVE"
  BY <1>6, <1>r
<1>8. \A t \in Sessions \ {s} : db'.row[t] = db.row[t]
  <2>1. CASE db' = Restriction(d, s)
    BY <2>1, <1>r
  <2>2. CASE db' \in RestrictionTried(tries, s)
    <3>1. \E e \in tries : \A t \in Sessions \ {s} : db'.row[t] = e.row[t]
      BY <1>1, <2>2, RestrictionTriedRow
    <3> QED BY <3>1
  <2> QED BY <2>1, <2>2 DEF RestrictsOrRaises, Restricts, StoreRaises
<1>9. \A t \in Sessions : t > sessions => t # s
  BY <1>1 DEF Sessions
<1>10. Shutting(g)
  <2>1. \A t \in Sessions : conn'[t] # "open"
    BY <1>1, <1>5 DEF Open
  <2>2. \A t \in Sessions : IsUp(t)' => IsUp(t)
    BY <1>5 DEF IsUp
  <2>3. \A t \in Sessions : t > sessions => conn'[t] = conn[t] /\ db'.row[t] = db.row[t]
    BY <1>5, <1>8, <1>9
  <2> QED BY <1>3, <1>5, <1>6, <1>7, <2>1, <2>2, <2>3 DEF Shutting
<1> QED BY <1>10, ShuttingLone

(* begin, and a begin that fails: there is no session, before and after.      *)
LEMMA BeginsLone ==
  ASSUME IInv, Lone, NEW g \in Begins, UNCHANGED <<crashes>>,
         (Begin(g) /\ \A h \in Begins : task[h].pc # "connect") \/ BeginFails(g)
  PROVE  Lone'
<1>1. /\ \A h \in Begins : ~Running(h)
      /\ \A h \in Begins \ {g} : ~Alive(h)
      /\ task[g].pc \notin {"unused", "connect"} => FALSE
  <2>1. CASE Begin(g) /\ (\A h \in Begins : task[h].pc # "connect")
    <3>1. task[g].pc = "unused" /\ (latest # 0 => ~Running(latest))
      BY <2>1 DEF Begin
    <3>2. \A h \in Begins : ~Running(h)
      <4> SUFFICES ASSUME NEW h \in Begins, Running(h) PROVE FALSE
        OBVIOUS
      <4> QED BY <3>1, HereOK
    <3> QED BY <2>1, <3>1, <3>2 DEF Running, Alive
  <2>2. CASE BeginFails(g)
    <3>1. task[g].pc = "connect" /\ Alive(g)
      BY <2>2 DEF BeginFails, Alive
    <3>2. \A h \in Begins \ {g} : ~Alive(h)
      BY <3>1 DEF Lone, AloneOK
    <3> QED BY <3>1, <3>2 DEF Running, Alive
  <2> QED BY <2>1, <2>2
<1>2. /\ Communicates /\ UNCHANGED <<db, conn, guard, faults>>
      /\ (Goto(g, "connect") \/ Goto(g, "ended"))
  BY DEF Begin, BeginFails
<1>3. /\ OnlyMoves(g, {"connect", "start", "sleep", "ended"})
      /\ task'[g].pc \in {"connect", "ended"}
  BY <1>2, GotoOK DEF IInv
<1>4. /\ \A h \in Begins : ~Running(h)'
      /\ \A h \in Begins \ {g} : task'[h] = task[h] /\ task[h].pc \in {"unused", "ended"}
  BY <1>1, <1>3 DEF Running, Alive, OnlyMoves
<1>5. current = 0 \/ current \in Begins
  BY DEF IInv, RuntimeTypeOK, GuardTypeOK, Begins
<1>6. AloneOK'
  BY <1>2, <1>3, <1>4 DEF Lone, AloneOK, Alive, OnGuard, Communicates
<1>7. RecordOK'
  BY <1>1, <1>2, <1>4, <1>5 DEF Lone, RecordOK, Open, Communicates
<1>8. PlaceOK'
  BY <1>3, <1>4 DEF PlaceOK
<1>9. HistoryOK'
  BY <1>1, <1>2, <1>4, <1>5, <1>3 DEF Lone, HistoryOK, IsUp, Communicates
<1> QED BY <1>6, <1>7, <1>8, <1>9 DEF Lone

(* begin has a connection: the guard is verified exactly if the store says    *)
(* so; without the store nobody owns the connection.                          *)
LEMMA BegunLone ==
  ASSUME IInv, Lone, NEW g \in Begins, Begun(g)
  PROVE  Lone'
<1> DEFINE n == sessions + 1
<1>1. /\ task[g].pc = "connect" /\ sessions < MaxSessions /\ sessions' = n
      /\ UNCHANGED <<answer, crashes, owed, failed, compared>>
  BY DEF Begun
<1>2. /\ n \in Sessions /\ sessions \in Nat /\ g \in 0 .. MaxBegins /\ g # 0
      /\ current \in 0 .. MaxBegins /\ latest \in 0 .. MaxBegins /\ faults \in Nat
      /\ \A t \in Sessions : t > n => t > sessions /\ t # n
  BY <1>1, GuardAssumption DEF IInv, RuntimeTypeOK, GuardTypeOK, Sessions, Begins
<1>3. /\ db \in Store(Sessions)
      /\ StartSession(db, n).verified = db.verified
      /\ StartSession(db, n).row[n] = "ACTIVE"
      /\ \A t \in Sessions \ {n} : StartSession(db, n).row[t] = db.row[t]
  BY <1>2, StartRow DEF IInv, RuntimeTypeOK, GuardTypeOK
<1>4. /\ \A h \in Begins : ~Running(h)
      /\ \A h \in Begins \ {g} : task[h].pc \in {"unused", "ended"}
  <2>1. Alive(g)
    BY <1>1 DEF Alive
  <2>2. \A h \in Begins \ {g} : task[h].pc \in {"unused", "ended"}
    BY <2>1 DEF Lone, AloneOK, Alive
  <2> QED BY <1>1, <2>2 DEF Running
<1>5. /\ \A t \in Sessions : ~Open(t)
      /\ faults = 0 /\ crashes = 0 => \A t \in Sessions : ~IsUp(t) /\ db.row[t] # "ACTIVE"
      /\ faults = 0 /\ crashes = 0 /\ owed => ~db.verified
      /\ faults = 0 /\ failed => ~db.verified
  <2>1. current = 0 \/ current \in Begins
    BY <1>2, GuardAssumption DEF Begins
  <2>2. \A h \in Begins : task[h].pc # "compare"
    BY <1>1, <1>4
  <2> QED BY <1>4, <2>1, <2>2 DEF Lone, RecordOK, HistoryOK
<1>6. CASE /\ db' = StartSession(db, n)
           /\ guard' = [guard EXCEPT ![g] = [session |-> n, verified |-> db.verified,
                                             restricted |-> FALSE]]
           /\ conn' = [conn EXCEPT ![n] = IF db.verified THEN "open" ELSE "gated"]
           /\ current' = g /\ latest' = g
           /\ Goto(g, "start")
           /\ UNCHANGED faults
  <2>1. /\ task'[g].pc = "start"
        /\ \A h \in Begins \ {g} : task'[h].pc \in {"unused", "ended"}
    BY <1>4, <1>6, GotoOK DEF IInv, OnlyMoves
  <2>2. guard'[g] = [session |-> n, verified |-> db.verified, restricted |-> FALSE]
    BY <1>6 DEF IInv, RuntimeTypeOK, GuardTypeOK
  <2>3. /\ conn'[n] = IF db.verified THEN "open" ELSE "gated"
        /\ \A t \in Sessions \ {n} : conn'[t] = conn[t]
    BY <1>2, <1>6 DEF IInv, RuntimeTypeOK, GuardTypeOK
  <2>4. AloneOK'
    BY <1>6, <2>1 DEF AloneOK, Alive, Running, OnGuard
  <2>5. RecordOK'
    <3>1. \A t \in Sessions : t > sessions' => conn'[t] = "none" /\ db'.row[t] = "none"
      BY <1>1, <1>2, <1>3, <1>6, <2>3 DEF Lone, RecordOK
    <3>2. \A t \in Sessions : Open(t)' => t = n /\ db.verified
      BY <1>5, <2>3 DEF Open
    <3>3. Running(g)' /\ \A h \in Begins \ {g} : ~Running(h)'
      BY <2>1 DEF Running
    <3>4. \A t \in Sessions : Open(t)' =>
             current' # 0 /\ Running(current)' /\ guard'[current'].session = t
             /\ guard'[current'].verified
      BY <1>2, <1>6, <2>2, <3>2, <3>3
    <3>5. /\ guard'[g].verified => ~guard'[g].restricted /\ db'.verified
          /\ db'.row[guard'[g].session] = "ACTIVE"
      BY <1>3, <1>6, <2>2
    <3> QED BY <3>1, <3>3, <3>4, <3>5 DEF RecordOK
  <2>6. PlaceOK'
    BY <2>1 DEF PlaceOK
  <2>7. HistoryOK'
    <3>1. faults' = 0 /\ crashes' = 0 => \A t \in Sessions :
              IsUp(t)' \/ db'.row[t] = "ACTIVE" => t = n
      BY <1>1, <1>3, <1>5, <1>6, <2>3 DEF IsUp
    <3>2. current' # 0 /\ Running(current)' /\ guard'[current'].session = n
      BY <1>2, <1>6, <2>1, <2>2 DEF Running
    <3>3. /\ faults' = 0 /\ crashes' = 0 /\ owed' => ~db'.verified
          /\ faults' = 0 /\ failed' => ~db'.verified
      BY <1>1, <1>3, <1>5, <1>6
    <3> QED BY <3>1, <3>2, <3>3 DEF HistoryOK
  <2> QED BY <2>4, <2>5, <2>6, <2>7 DEF Lone
<1>7. CASE /\ faults < MaxFaults
           /\ faults' = faults + 1
           /\ db' \in {db, StartSession(db, n)}
           /\ conn' = [conn EXCEPT ![n] = "gated"]
           /\ Goto(g, "ended")
           /\ UNCHANGED <<guard, current, latest>>
  <2>1. /\ task'[g].pc = "ended"
        /\ \A h \in Begins : task'[h].pc \in {"unused", "ended"}
    BY <1>4, <1>7, GotoOK DEF IInv, OnlyMoves
  <2>2. /\ conn'[n] = "gated" /\ \A t \in Sessions \ {n} : conn'[t] = conn[t]
        /\ \A t \in Sessions \ {n} : db'.row[t] = db.row[t]
    BY <1>2, <1>3, <1>7 DEF IInv, RuntimeTypeOK, GuardTypeOK
  <2>3. AloneOK'
    BY <1>7, <2>1 DEF Lone, AloneOK, Alive, Running, OnGuard
  <2>4. RecordOK'
    <3>1. \A t \in Sessions : t > sessions' => conn'[t] = "none" /\ db'.row[t] = "none"
      BY <1>1, <1>2, <2>2 DEF Lone, RecordOK
    <3>2. \A t \in Sessions : ~Open(t)'
      BY <1>5, <2>2 DEF Open
    <3>3. \A h \in Begins : ~Running(h)'
      BY <2>1 DEF Running
    <3> QED BY <3>1, <3>2, <3>3 DEF RecordOK
  <2>5. PlaceOK'
    BY <2>1 DEF PlaceOK
  <2>6. faults' # 0
    BY <1>2, <1>7
  <2>7. HistoryOK'
    BY <2>6 DEF HistoryOK
  <2> QED BY <2>3, <2>4, <2>5, <2>7 DEF Lone
<1> QED BY <1>6, <1>7 DEF Begun

(* The head of the loop, and a stop between two assessments                   *)
LEMMA WakesLone ==
  ASSUME IInv, Lone, NEW g \in Begins, UNCHANGED <<latest, crashes>>,
         Wakes(g) \/ ReturnsRestricted(g) \/ StopsElsewhere(g)
  PROVE  Lone'
<1>1. /\ task[g].pc # "compare" /\ Communicates /\ UNCHANGED <<db, conn, guard, faults>>
      /\ Running(g)
  BY DEF Wakes, ReturnsRestricted, StopsElsewhere, Unwinding, Running
<1>2. g = current /\ current # 0
  BY <1>1, HereOK
<1>3. /\ OnlyMoves(g, {"unwind", "exchange", "sleep"})
      /\ task'[g].pc = "exchange" => task'[g].on = current
  <2>1. CASE Wakes(g) \/ ReturnsRestricted(g)
    BY <1>2, <2>1, ReturnsOK DEF IInv, Wakes, ReturnsRestricted
  <2>2. CASE StopsElsewhere(g)
    <3> DEFINE r == [task[g] EXCEPT !.pc = "unwind", !.cause = "cancel"]
    <3>1. task[g] \in TaskRecord /\ task \in [Begins -> TaskRecord]
      BY DEF IInv, RuntimeTypeOK, GuardTypeOK, TaskRecord
    <3>2. r \in TaskRecord /\ r.pc = "unwind"
      BY <3>1 DEF TaskRecord
    <3>3. task' = [task EXCEPT ![g] = r]
      BY <2>2 DEF StopsElsewhere
    <3> HIDE DEF r
    <3> QED BY <3>1, <3>2, <3>3 DEF OnlyMoves
  <2> QED BY <2>1, <2>2
<1>4. /\ task'[g].pc \in OnGuard => task'[g].on = g
      /\ task'[g].pc \notin {"unused", "connect", "compare", "redial", "ended", "closed"}
      /\ \A t \in Sessions : conn'[t] \in {conn[t], "closed"}
      /\ \A t \in Sessions : t > sessions => conn'[t] = conn[t]
  BY <1>1, <1>2, <1>3 DEF OnlyMoves, OnGuard
<1> QED BY <1>1, <1>3, <1>4, MovesLone DEF Communicates

(* An exchange that fails or is cancelled                                     *)
LEMMA ExchangeFailsLone ==
  ASSUME IInv, Lone, NEW g \in Begins, ExchangeFails(g) \/ StopsExchange(g)
  PROVE  Lone'
<1> DEFINE s == guard[task[g].on].session
<1>1. /\ task[g].pc = "exchange" /\ Communicates /\ UNCHANGED <<db, guard, faults>>
      /\ Running(g)
  BY DEF ExchangeFails, StopsExchange, Running
<1>2. s \in Sessions /\ s <= sessions
  BY <1>1, HereOK DEF OnGuard
<1>3. /\ \A t \in Sessions : conn'[t] \in {conn[t], "closed"}
      /\ \A t \in Sessions \ {s} : conn'[t] = conn[t]
  BY <1>2 DEF ExchangeFails, StopsExchange, IInv, RuntimeTypeOK, GuardTypeOK
<1>4. \A t \in Sessions : t > sessions => t # s
  BY <1>2, GuardAssumption DEF Sessions, IInv, RuntimeTypeOK, GuardTypeOK
<1>5. OnlyMoves(g, {"closing", "unwind"})
  <2>1. CASE \E c \in {"error", "cancel"} : Leaves(g, 0, s, c)
    BY <1>2, <2>1, LeavesOK, GuardAssumption DEF IInv
  <2>2. CASE task' = [task EXCEPT ![g].pc = "unwind", ![g].cause = "error"]
    <3> DEFINE r == [task[g] EXCEPT !.pc = "unwind", !.cause = "error"]
    <3>1. task[g] \in TaskRecord /\ task \in [Begins -> TaskRecord]
      BY DEF IInv, RuntimeTypeOK, GuardTypeOK, TaskRecord
    <3>2. r \in TaskRecord /\ r.pc = "unwind"
      BY <3>1 DEF TaskRecord
    <3>3. task' = [task EXCEPT ![g] = r]
      BY <2>2
    <3> HIDE DEF r
    <3> QED BY <3>1, <3>2, <3>3 DEF OnlyMoves
  <2> QED BY <2>1, <2>2 DEF ExchangeFails, StopsExchange
<1>6. /\ task'[g].pc \in OnGuard => task'[g].on = g
      /\ task'[g].pc \notin {"unused", "connect", "compare", "redial", "ended", "closed"}
  BY <1>5 DEF OnlyMoves, OnGuard
<1>7. \A t \in Sessions : t > sessions => conn'[t] = conn[t]
  BY <1>3, <1>4
<1> HIDE DEF s
<1> QED BY <1>1, <1>3, <1>5, <1>6, <1>7, MovesLone DEF Communicates

(* The handler of communicate restricts the guard of its own session.         *)
LEMMA HandlesErrorLone ==
  ASSUME IInv, Lone, NEW g \in Begins, HandlesError(g)
  PROVE  Lone'
<1> DEFINE s == guard[g].session
<1>1. Communicates /\ Running(g)
  BY DEF HandlesError, Unwinding, Running
<1>2. /\ g = current /\ s \in Sessions /\ s <= sessions
      /\ \A t \in Sessions \ {s} : ~Open(t)
  BY <1>1, HereOK
<1>3. /\ Shuts(g, s) /\ Leaves(g, 0, s, "cancel")
      /\ \/ db' = Restriction(db, s) /\ UNCHANGED faults
         \/ /\ faults < MaxFaults
            /\ faults' = faults + 1
            /\ db' \in RestrictionTried({db}, s)
  BY <1>2 DEF HandlesError
<1>4. OnlyMoves(g, {"closing", "unwind"})
  BY <1>2, <1>3, LeavesOK, GuardAssumption DEF IInv
<1>5. /\ guard'[g] = [session |-> s, verified |-> FALSE, restricted |-> TRUE]
      /\ conn'[s] = "closed" /\ \A t \in Sessions \ {s} : conn'[t] = conn[t]
  BY <1>2, <1>3 DEF Shuts, IInv, RuntimeTypeOK, GuardTypeOK
<1>6. faults \in Nat /\ db \in Store(Sessions) /\ sessions \in Nat
  BY GuardAssumption DEF IInv, RuntimeTypeOK, GuardTypeOK
<1>7. /\ Restriction(db, s).verified = FALSE
      /\ \A t \in Sessions \ {s} : Restriction(db, s).row[t] = db.row[t]
      /\ \A t \in Sessions : Restriction(db, s).row[t] = "ACTIVE" => db.row[t] = "ACTIVE"
  BY <1>2, <1>6, RestrictionRow, Zenon
<1>8. \A t \in Sessions \ {s} : db'.row[t] = db.row[t]
  <2>1. CASE db' = Restriction(db, s)
    BY <1>7, <2>1
  <2>2. CASE db' \in RestrictionTried({db}, s)
    <3>1. {db} \in SUBSET Store(Sessions)
      BY <1>6
    <3>2. \E e \in {db} : \A t \in Sessions \ {s} : db'.row[t] = e.row[t]
      BY <1>2, <2>2, <3>1, RestrictionTriedRow
    <3> QED BY <3>2
  <2> QED BY <1>3, <2>1, <2>2
<1>9. faults' = 0 => faults = 0 /\ db' = Restriction(db, s)
  BY <1>3, <1>6
<1>10. \A t \in Sessions : t > sessions => t # s
  BY <1>2, <1>6 DEF Sessions
<1>11. Shutting(g)
  <2>1. \A t \in Sessions : conn'[t] # "open"
    BY <1>2, <1>5 DEF Open
  <2>2. \A t \in Sessions : IsUp(t)' => IsUp(t)
    BY <1>5 DEF IsUp
  <2>3. \A t \in Sessions : t > sessions => conn'[t] = conn[t] /\ db'.row[t] = db.row[t]
    BY <1>5, <1>8, <1>10
  <2>4. faults' = 0 => /\ ~db'.verified
                       /\ \A t \in Sessions : db'.row[t] = "ACTIVE" => db.row[t] = "ACTIVE"
    BY <1>7, <1>9
  <2> QED BY <1>1, <1>4, <1>5, <1>9, <2>1, <2>2, <2>3, <2>4 DEF Shutting, Communicates
<1> QED BY <1>1, <1>11, ShuttingLone

(* The row of a session ends with its connection closed: nothing is left.     *)
LEMMA EndsLone ==
  ASSUME IInv, Lone, NEW g \in Begins, Running(g), task[g].pc # "compare", Communicates,
         UNCHANGED <<conn, guard>>, EndsRow(g, g), ~IsUp(guard[g].session)
  PROVE  Lone'
<1> DEFINE s == guard[g].session
<1>1. /\ g = current /\ s \in Sessions /\ s <= sessions
      /\ \A h \in Begins \ {g} : task[h].pc \in {"unused", "ended"}
      /\ \A t \in Sessions \ {s} : ~Open(t)
      /\ \A t \in Sessions : IsUp(t) \/ db.row[t] = "ACTIVE" =>
            faults # 0 \/ crashes # 0 \/ t = s
  BY HereOK
<1>2. /\ OnlyMoves(g, {"connect", "start", "sleep", "ended"}) /\ task'[g].pc = "ended"
  BY <1>1, EndsRowOK
<1>3. \A h \in Begins : task'[h].pc \in {"unused", "ended"}
  BY <1>1, <1>2 DEF OnlyMoves
<1>4. AloneOK'
  BY <1>2, AloneStep DEF Communicates, OnGuard
<1>5. /\ db \in Store(Sessions) /\ EndStatus(g) \in Row \ {"ACTIVE"}
      /\ faults \in Nat /\ sessions \in Nat
  BY GuardAssumption DEF IInv, RuntimeTypeOK, GuardTypeOK, EndStatus, Row
<1>6. /\ FinishSession(db, s, EndStatus(g)).verified = db.verified
      /\ FinishSession(db, s, EndStatus(g)).row[s] # "ACTIVE"
      /\ \A t \in Sessions \ {s} : FinishSession(db, s, EndStatus(g)).row[t] = db.row[t]
  <2> DEFINE e == EndStatus(g)
  <2>1. e \in Row \ {"ACTIVE"}
    BY <1>5
  <2> HIDE DEF e, s
  <2> QED BY <1>1, <1>5, <2>1, FinishRow
<1>7. /\ db'.verified = db.verified
      /\ \A t \in Sessions \ {s} : db'.row[t] = db.row[t]
      /\ faults' = 0 => faults = 0 /\ db'.row[s] # "ACTIVE"
  <2>1. \/ db' = FinishSession(db, s, EndStatus(g)) /\ faults' = faults
        \/ faults' = faults + 1 /\ db' = db
    BY DEF EndsRow
  <2> QED BY <1>5, <1>6, <2>1
<1>8. \A t \in Sessions : t > sessions => t # s
  BY <1>1, <1>5 DEF Sessions
<1>9. \A t \in Sessions : ~Open(t)'
  BY <1>1 DEF Open, IsUp
<1>10. RecordOK'
  <2>1. \A h \in Begins : ~Running(h)'
    BY <1>3 DEF Running
  <2>2. \A t \in Sessions : t > sessions' => conn'[t] = "none" /\ db'.row[t] = "none"
    BY <1>7, <1>8 DEF Lone, RecordOK, Communicates
  <2> QED BY <1>9, <2>1, <2>2 DEF RecordOK
<1>11. PlaceOK'
  BY <1>3 DEF PlaceOK
<1>12. HistoryOK'
  <2>1. faults' = 0 /\ crashes' = 0 => \A t \in Sessions : ~IsUp(t)' /\ db'.row[t] # "ACTIVE"
    BY <1>1, <1>7 DEF Communicates, IsUp
  <2>2. \A h \in Begins : task[h].pc # "compare"
    BY <1>1
  <2>3. /\ faults' = 0 /\ crashes' = 0 /\ owed' => ~db'.verified
        /\ faults' = 0 /\ failed' => ~db'.verified
    BY <1>7, <2>2 DEF Lone, HistoryOK, Communicates
  <2> QED BY <2>1, <2>3 DEF HistoryOK
<1> QED BY <1>4, <1>10, <1>11, <1>12 DEF Lone

(* SessionGuard.close, up to its await and after it                           *)
LEMMA FinallyLone ==
  ASSUME IInv, Lone, NEW g \in Begins, Finally(g) \/ Closed(g)
  PROVE  Lone'
<1> DEFINE s == guard[g].session
<1>1. /\ task[g].pc # "compare" /\ Communicates /\ UNCHANGED guard /\ Running(g)
  BY DEF Finally, Closed, Unwinding, Running
<1>2. /\ g = current /\ g # 0 /\ s \in Sessions /\ s <= sessions
      /\ task[g].pc \in OnGuard => task[g].on = g
  BY <1>1, HereOK
<1>3. CASE UNCHANGED conn /\ EndsRow(g, g) /\ ~IsUp(s)
  BY <1>1, <1>3, EndsLone
<1>4. CASE /\ conn' = [conn EXCEPT ![s] = "closed"]
           /\ task' = [task EXCEPT ![g].pc = "closed", ![g].on = current]
           /\ UNCHANGED <<db, faults>>
  <2> DEFINE r == [task[g] EXCEPT !.pc = "closed", !.on = current]
  <2>1. task[g] \in TaskRecord /\ task \in [Begins -> TaskRecord] /\ current \in 0 .. MaxBegins
    BY DEF IInv, RuntimeTypeOK, GuardTypeOK, TaskRecord
  <2>2. r \in TaskRecord /\ r.pc = "closed" /\ r.on = current
    BY <2>1 DEF TaskRecord
  <2>3. task' = [task EXCEPT ![g] = r]
    BY <1>4
  <2> HIDE DEF r
  <2>4. OnlyMoves(g, {"closed"}) /\ task'[g].on = g /\ task'[g].pc = "closed"
    BY <1>2, <2>1, <2>2, <2>3 DEF OnlyMoves
  <2>5. /\ \A t \in Sessions : conn'[t] \in {conn[t], "closed"}
        /\ \A t \in Sessions \ {s} : conn'[t] = conn[t]
        /\ conn'[s] = "closed"
    BY <1>2, <1>4 DEF IInv, RuntimeTypeOK, GuardTypeOK
  <2>6. \A t \in Sessions : t > sessions => t # s
    BY <1>2, GuardAssumption DEF Sessions, IInv, RuntimeTypeOK, GuardTypeOK
  <2>7. \A t \in Sessions : t > sessions => conn'[t] = conn[t]
    BY <2>5, <2>6
  <2>8. task'[g].pc \notin {"unused", "connect", "compare", "redial", "ended"}
    BY <2>4
  <2> HIDE DEF s
  <2>9. conn'[guard[g].session] \in {"none", "closed"}
    BY <2>5 DEF s
  <2> QED BY <1>1, <1>4, <2>4, <2>5, <2>7, <2>8, <2>9, MovesLone DEF Communicates
<1>5. CASE Closed(g)
  <2>1. /\ task[g].pc = "closed" /\ EndsRow(g, task[g].on) /\ UNCHANGED conn
    BY <1>5 DEF Closed
  <2>2. task[g].on = g /\ ~IsUp(s)
    BY <1>2, <2>1 DEF OnGuard, Lone, PlaceOK
  <2> QED BY <1>3, <2>1, <2>2
<1>6. CASE Finally(g)
  BY <1>2, <1>3, <1>4, <1>6 DEF Finally
<1> QED BY <1>5, <1>6

(* assess lets the connection open: the guard is verified.                    *)
LEMMA KeepsLone ==
  ASSUME IInv, Lone, NEW g \in Begins, Ready(g, g), InAssess,
         UNCHANGED <<crashes, failed>>, Keeps(g, g)
  PROVE  Lone'
<1> DEFINE s == guard[g].session
<1>1. /\ Running(g) /\ task[g].pc # "compare" /\ g \in Begins /\ s \in Sessions
      /\ guard[g].verified /\ Returns(g)
      /\ UNCHANGED <<current, latest, sessions, guard, db, faults, owed, compared>>
  BY DEF Ready, Running, Keeps, InAssess, AtRest
<1>2. /\ g = current /\ g # 0 /\ s <= sessions
      /\ \A h \in Begins \ {g} : task[h].pc \in {"unused", "ended"}
      /\ \A t \in Sessions \ {s} : ~Open(t)
  BY <1>1, HereOK
<1>3. /\ OnlyMoves(g, {"unwind", "exchange", "sleep"})
      /\ task'[g].pc = "exchange" => task'[g].on = current
  BY <1>1, <1>2, ReturnsOK DEF IInv
<1>4. /\ \A t \in Sessions \ {s} : conn'[t] = conn[t]
      /\ \A t \in Sessions : IsUp(t)' => IsUp(t)
  BY <1>1 DEF Keeps, Gate, IsUp, IInv, RuntimeTypeOK, GuardTypeOK
<1>5. \A t \in Sessions : t > sessions => t # s
  BY <1>2, GuardAssumption DEF Sessions, IInv, RuntimeTypeOK, GuardTypeOK
<1>6. AloneOK'
  BY <1>1, <1>2, <1>3, AloneStep DEF OnlyMoves, OnGuard
<1>7. /\ Running(g)' /\ task'[g].pc \notin {"compare", "redial", "closed"}
      /\ \A h \in Begins \ {g} : task'[h].pc \in {"unused", "ended"}
  BY <1>2, <1>3 DEF OnlyMoves, Running
<1>8. RecordOK'
  <2>1. \A t \in Sessions : t > sessions => conn'[t] = "none" /\ db'.row[t] = "none"
    BY <1>1, <1>4, <1>5 DEF Lone, RecordOK
  <2>2. \A t \in Sessions : Open(t)' => t = s
    BY <1>2, <1>4 DEF Open
  <2>3. \A h \in Begins : Running(h)' => h = g
    BY <1>7 DEF Running
  <2>4. /\ guard[g].verified => ~guard[g].restricted /\ db.verified
        /\ ~guard[g].restricted => db.row[s] = "ACTIVE"
    BY <1>1 DEF Lone, RecordOK
  <2> QED BY <1>1, <1>2, <1>7, <2>1, <2>2, <2>3, <2>4 DEF RecordOK
<1>9. PlaceOK'
  BY <1>7 DEF PlaceOK
<1>10. HistoryOK'
  <2>1. \A h \in Begins : task[h].pc # "compare"
    BY <1>1, <1>2
  <2> QED BY <1>1, <1>2, <1>4, <1>7, <2>1 DEF Lone, HistoryOK
<1> QED BY <1>6, <1>8, <1>9, <1>10 DEF Lone

(* A task takes its place on its guard, for a comparison or a replacement.    *)
LEMMA PlacesLone ==
  ASSUME IInv, Lone, NEW g \in Begins, Running(g),
         UNCHANGED <<current, latest, crashes, sessions, faults>>,
         NEW pc \in {"compare", "redial"}, Takes(g, g, pc),
         guard'[g].session = guard[g].session, ~guard'[g].restricted,
         guard'[g].verified => db'.verified, ~guard[g].restricted,
         db'.row = db.row, \A t \in Sessions : ~Open(t)',
         \A t \in Sessions : IsUp(t)' => IsUp(t),
         \A t \in Sessions : t > sessions => conn'[t] = conn[t],
         pc = "redial" => guard'[g].verified /\ conn'[guard[g].session] = "closed",
         pc = "compare" => guard[g].session \in compared',
         owed' => ~db'.verified \/ pc = "compare" \/ (task[g].pc # "compare" /\ owed),
         db'.verified => db.verified \/ ~owed',
         failed' => failed /\ (db'.verified => db.verified)
  PROVE  Lone'
<1>1. /\ g = current /\ g # 0 /\ guard[g].session \in Sessions
      /\ \A h \in Begins \ {g} : task[h].pc \in {"unused", "ended"}
  BY HereOK
<1>2. OnlyMoves(g, {pc}) /\ task'[g].on = g
  BY TakesOK DEF IInv
<1>3. AloneOK'
  BY <1>2, AloneStep
<1>4. /\ Running(g)' /\ task'[g].pc = pc
      /\ \A h \in Begins \ {g} : task'[h].pc \in {"unused", "ended"}
  BY <1>1, <1>2 DEF OnlyMoves, Running
<1>5. RecordOK'
  <2>1. \A t \in Sessions : t > sessions => conn'[t] = "none" /\ db'.row[t] = "none"
    BY DEF Lone, RecordOK
  <2>2. \A h \in Begins : Running(h)' => h = g
    BY <1>4 DEF Running
  <2>3. db.row[guard[g].session] = "ACTIVE"
    BY DEF Lone, RecordOK
  <2> QED BY <2>1, <2>2, <2>3 DEF RecordOK
<1>6. PlaceOK'
  BY <1>4 DEF PlaceOK
<1>7. HistoryOK'
  <2>1. faults' = 0 /\ crashes' = 0 => \A t \in Sessions :
            IsUp(t)' \/ db'.row[t] = "ACTIVE" => t = guard[g].session
    BY HereOK
  <2>2. current' # 0 /\ Running(current)' /\ guard'[current'].session = guard[g].session
    BY <1>1, <1>4
  <2>3. faults' = 0 /\ crashes' = 0 /\ owed' => ~db'.verified \/ \E h \in Begins : task'[h].pc = "compare"
    <3>1. task[g].pc # "compare" => \A h \in Begins : task[h].pc # "compare"
      BY <1>1
    <3> QED BY <1>4, <3>1 DEF Lone, HistoryOK
  <2>4. faults' = 0 /\ failed' => ~db'.verified
    BY DEF Lone, HistoryOK
  <2> QED BY <2>1, <2>2, <2>3, <2>4 DEF HistoryOK
<1> QED BY <1>3, <1>5, <1>6, <1>7 DEF Lone

(* assess closes a connection whose key is old, or demands a comparison.      *)
LEMMA TriggersLone ==
  ASSUME IInv, Lone, NEW g \in Begins, Ready(g, g), InAssess,
         UNCHANGED <<crashes, failed>>, Rotates(g, g) \/ Triggers(g, g),
         ~guard[g].restricted
  PROVE  Lone'
<1> DEFINE s == guard[g].session
<1>1. /\ Running(g) /\ task[g].pc # "compare" /\ s \in Sessions
      /\ UNCHANGED <<current, latest, sessions, guard, db, faults>>
  BY DEF Ready, Running, Rotates, Triggers, InAssess, AtRest
<1>2. /\ s <= sessions /\ \A t \in Sessions \ {s} : ~Open(t)
  BY <1>1, HereOK
<1>3. /\ \A t \in Sessions \ {s} : conn'[t] = conn[t]
      /\ \A t \in Sessions : IsUp(t)' => IsUp(t)
      /\ conn'[s] # "open" /\ (Rotates(g, g) => conn'[s] = "closed")
  BY <1>1 DEF Rotates, Reestablishes, Triggers, Gate, IsUp, IInv, RuntimeTypeOK, GuardTypeOK
<1>4. \A t \in Sessions : t > sessions => t # s
  BY <1>2, GuardAssumption DEF Sessions, IInv, RuntimeTypeOK, GuardTypeOK
<1>5. /\ \A t \in Sessions : ~Open(t)'
      /\ \A t \in Sessions : t > sessions => conn'[t] = conn[t]
  BY <1>2, <1>3, <1>4 DEF Open
<1>6. guard[g].verified => db.verified
  BY <1>1 DEF Lone, RecordOK
<1>7. CASE Rotates(g, g)
  <2>1. Takes(g, g, "redial") /\ guard[g].verified /\ owed' = owed
    BY <1>7 DEF Rotates, Reestablishes, Takes
  <2> HIDE DEF s
  <2> QED BY <1>1, <1>3, <1>5, <1>6, <1>7, <2>1, PlacesLone DEF s
<1>8. CASE Triggers(g, g)
  <2>1. Takes(g, g, "compare") /\ s \in compared'
    BY <1>8 DEF Triggers, Takes
  <2> HIDE DEF s
  <2> QED BY <1>1, <1>3, <1>5, <1>6, <2>1, PlacesLone DEF s
<1> QED BY <1>7, <1>8

(* Every branch of assess                                                     *)
LEMMA AssessesLone ==
  ASSUME IInv, Lone, NEW g \in Begins, Start(g) \/ LockGot(g) \/ Exchanged(g)
  PROVE  Lone'
<1>1. /\ task[g].pc \in {"start", "lock", "exchange"} /\ Running(g) /\ AtRest
      /\ task[g].pc # "compare"
  BY DEF Start, LockGot, Exchanged, Running
<1>2. /\ g = current /\ g # 0 /\ (task[g].pc \in OnGuard => task[g].on = g)
      /\ guard[g].session \in Sessions
  BY <1>1, HereOK
<1>3. Assesses(g, g) /\ Ready(g, g)
  BY <1>1, <1>2 DEF Start, LockGot, Exchanged, Ready, OnGuard
<1>4. InAssess /\ UNCHANGED <<crashes, failed, sessions, current, latest>>
  <2>1. answer \in 0 .. MaxBegins /\ owed \in BOOLEAN /\ failed \in BOOLEAN
        /\ g \in 0 .. MaxBegins
    BY GuardAssumption DEF IInv, RuntimeTypeOK, GuardTypeOK, Begins
  <2>2. InAssess
    BY <1>1, <1>3, <2>1 DEF InAssess, Assesses, Keeps, Rotates, Triggers
  <2>3. UNCHANGED <<crashes, failed, sessions, current, latest>>
    BY <1>1, <1>3 DEF AtRest, Assesses
  <2> QED BY <2>2, <2>3
<1>5. CASE UNCHANGED <<db, conn, guard, answer, faults, owed, compared>>
           /\ (Takes(g, g, "lock") \/ Returns(g))
  <2>1. /\ OnlyMoves(g, {"lock", "unwind", "exchange", "sleep"})
        /\ task'[g].pc \in OnGuard => task'[g].on = g
    <3>1. CASE Takes(g, g, "lock")
      BY <3>1, TakesOK DEF IInv, OnlyMoves
    <3>2. CASE Returns(g)
      BY <1>2, <3>2, ReturnsOK DEF IInv, OnlyMoves, OnGuard
    <3> QED BY <1>5, <3>1, <3>2
  <2>2. /\ task'[g].pc \notin {"unused", "connect", "compare", "redial", "ended", "closed"}
        /\ \A t \in Sessions : conn'[t] \in {conn[t], "closed"}
        /\ \A t \in Sessions : t > sessions => conn'[t] = conn[t]
    BY <1>5, <2>1 DEF OnlyMoves
  <2> QED BY <1>1, <1>4, <1>5, <2>1, <2>2, MovesLone
<1>6. CASE Keeps(g, g)
  BY <1>3, <1>4, <1>6, KeepsLone
<1>7. CASE (Rotates(g, g) \/ Triggers(g, g)) /\ ~guard[g].restricted
  BY <1>3, <1>4, <1>7, TriggersLone
<1>8. CASE StoreRaises(g, g, guard[g].session, {db}, "error")
  <2>1. db \in Store(Sessions) /\ {db} \in SUBSET Store(Sessions)
    BY DEF IInv, RuntimeTypeOK, GuardTypeOK
  <2> QED BY <1>1, <1>4, <1>8, <2>1, RestrictedLone
<1> QED BY <1>3, <1>5, <1>6, <1>7, <1>8 DEF Assesses, Takes

(* MATCH: verified, in the store as well, and the connection closed.          *)
LEMMA MatchesLone ==
  ASSUME IInv, Lone, NEW g \in Begins, Matches(g), AtRest
  PROVE  Lone'
<1> DEFINE s == guard[g].session
           d == Verification(db, TRUE)
<1>1. /\ task[g].pc = "compare" /\ Running(g)
      /\ owed' = FALSE /\ failed' = FALSE
      /\ UNCHANGED <<current, latest, crashes, sessions, compared>>
  BY DEF Matches, Answers, Running, AtRest
<1>2. /\ task[g].on = g /\ s \in Sessions /\ s <= sessions
      /\ \A t \in Sessions \ {s} : ~Open(t)
      /\ ~guard[g].restricted
  <2>1. ~guard[g].restricted
    BY <1>1 DEF Lone, PlaceOK
  <2> QED BY <1>1, <2>1, HereOK DEF OnGuard
<1>3. d \in Store(Sessions) /\ db \in Store(Sessions) /\ d.row = db.row /\ d.verified = TRUE
  <2>1. db \in Store(Sessions)
    BY DEF IInv, RuntimeTypeOK, GuardTypeOK
  <2> QED BY <2>1 DEF Verification, Store
<1>4. CASE StoreRaises(g, g, s, {db, d}, "error")
  <2>1. {db, d} \in SUBSET Store(Sessions) /\ \A e \in {db, d} : e.row = db.row
    BY <1>3
  <2> HIDE DEF d
  <2> QED BY <1>1, <1>3, <1>4, <2>1, RestrictedLone
<1>5. CASE /\ db' = d /\ guard' = [guard EXCEPT ![g].verified = TRUE]
           /\ Reestablishes(g, g) /\ UNCHANGED faults
  <2>1. Takes(g, g, "redial") /\ conn' = [conn EXCEPT ![s] = "closed"]
    BY <1>5 DEF Reestablishes, Takes
  <2>2. /\ \A t \in Sessions \ {s} : conn'[t] = conn[t]
        /\ conn'[s] = "closed"
    BY <1>2, <2>1 DEF IInv, RuntimeTypeOK, GuardTypeOK
  <2>3. \A t \in Sessions : t > sessions => t # s
    BY <1>2, GuardAssumption DEF Sessions, IInv, RuntimeTypeOK, GuardTypeOK
  <2>4. /\ \A t \in Sessions : ~Open(t)'
        /\ \A t \in Sessions : IsUp(t)' => IsUp(t)
        /\ \A t \in Sessions : t > sessions => conn'[t] = conn[t]
    BY <1>2, <2>2, <2>3 DEF Open, IsUp
  <2>5. guard'[g].session = s /\ guard'[g].verified /\ ~guard'[g].restricted
    BY <1>2, <1>5 DEF IInv, RuntimeTypeOK, GuardTypeOK
  <2>6. db'.row = db.row /\ db'.verified
    BY <1>3, <1>5
  <2> HIDE DEF s, d
  <2> QED BY <1>1, <1>2, <1>5, <2>1, <2>2, <2>4, <2>5, <2>6, PlacesLone DEF s
<1> QED BY <1>2, <1>4, <1>5 DEF Matches

(* A comparison, a replacement or an assessment that ends in a restriction    *)
LEMMA RedialFailsLone ==
  ASSUME IInv, Lone, NEW g \in Begins,
         \/ (Mismatches(g) \/ TimesOut(g) \/ RedialFails(g)) /\ AtRest
         \/ StopsAssess(g)
  PROVE  Lone'
<1>1. /\ task[g].pc \in {"compare", "redial"} /\ Running(g)
      /\ UNCHANGED <<current, latest, crashes, sessions>>
  BY DEF Mismatches, Answers, TimesOut, ComparisonFails, RedialFails, StopsAssess, AtRest,
         Running
<1>2. task[g].on = g
  BY <1>1, HereOK DEF OnGuard
<1>3. db \in Store(Sessions)
  BY DEF IInv, RuntimeTypeOK, GuardTypeOK
<1>4. CASE \E c \in {"error", "cancel"} : RestrictsOrRaises(g, g, db, {db}, c)
  <2>1. {db} \in SUBSET Store(Sessions) /\ \A e \in {db} : e.row = db.row
    BY <1>3
  <2> QED BY <1>1, <1>3, <1>4, <2>1, RestrictedLone
<1>5. CASE ComparisonFails(g)
  <2> DEFINE d == Verification(db, FALSE)
  <2>1. d \in Store(Sessions) /\ d.row = db.row
    BY <1>3 DEF Verification, Store
  <2>2. {db, d} \in SUBSET Store(Sessions) /\ \A e \in {db, d} : e.row = db.row
    BY <1>3, <2>1
  <2>3. RestrictsOrRaises(g, g, d, {db, d}, "return")
    BY <1>2, <1>5 DEF ComparisonFails
  <2> HIDE DEF d
  <2> QED BY <1>1, <2>1, <2>2, <2>3, RestrictedLone
<1>6. CASE RedialFails(g) \/ StopsAssess(g)
  BY <1>2, <1>4, <1>6 DEF RedialFails, StopsAssess
<1> QED BY <1>5, <1>6 DEF Mismatches, TimesOut

(* reestablish has a connection: it takes the place of the old one, in the    *)
(* store as well; without the store it closes again.                          *)
LEMMA RedialledLone ==
  ASSUME IInv, Lone, NEW g \in Begins, Redialled(g), AtRest
  PROVE  Lone'
<1> DEFINE s == guard[g].session
           n == sessions + 1
<1>1. /\ task[g].pc = "redial" /\ Running(g) /\ sessions < MaxSessions /\ sessions' = n
      /\ UNCHANGED <<answer, crashes, latest, current, owed, failed, compared>>
  BY DEF Redialled, AtRest, Running
<1>2. /\ task[g].on = g /\ g = current /\ g # 0 /\ s \in Sessions /\ s <= sessions
      /\ \A t \in Sessions \ {s} : ~Open(t)
      /\ \A h \in Begins \ {g} : task[h].pc \in {"unused", "ended"}
      /\ \A t \in Sessions : IsUp(t) \/ db.row[t] = "ACTIVE" =>
            faults # 0 \/ crashes # 0 \/ t = s
  BY <1>1, HereOK DEF OnGuard
<1>3. /\ n \in Sessions /\ n \in 0 .. MaxSessions /\ sessions \in Nat /\ s # n
      /\ faults \in Nat /\ db \in Store(Sessions) /\ g \in Begins
      /\ \A t \in Sessions : t > n => t > sessions /\ t # n /\ t # s
  BY <1>1, <1>2, GuardAssumption DEF IInv, RuntimeTypeOK, GuardTypeOK, Sessions
<1>4. /\ guard[g].verified /\ conn[s] = "closed" /\ ~guard[g].restricted /\ db.verified
  BY <1>1 DEF Lone, PlaceOK, RecordOK
<1>5. \A t \in Sessions : ~Open(t) /\ (IsUp(t) => faults # 0 \/ crashes # 0)
  BY <1>2, <1>4 DEF Open, IsUp
<1>6. CASE /\ db' = Replaced(db, s, n)
           /\ guard' = [guard EXCEPT ![g].session = n]
           /\ conn' = [conn EXCEPT ![n] = "open"]
           /\ Returns(g)
           /\ UNCHANGED faults
  <2>1. /\ OnlyMoves(g, {"unwind", "exchange", "sleep"})
        /\ task'[g].pc = "exchange" => task'[g].on = current
    BY <1>2, <1>6, ReturnsOK DEF IInv
  <2>2. /\ Running(g)' /\ task'[g].pc \notin {"compare", "redial", "closed"}
        /\ \A h \in Begins \ {g} : task'[h].pc \in {"unused", "ended"}
    BY <1>2, <2>1 DEF OnlyMoves, Running
  <2>3. guard'[g].session = n /\ guard'[g].verified /\ ~guard'[g].restricted
    <3>1. guard'[g] = [guard[g] EXCEPT !.session = n]
      BY <1>3, <1>6 DEF IInv, RuntimeTypeOK, GuardTypeOK
    <3> QED BY <1>4, <3>1 DEF IInv, RuntimeTypeOK, GuardTypeOK
  <2>4. conn'[n] = "open" /\ \A t \in Sessions \ {n} : conn'[t] = conn[t]
    BY <1>3, <1>6 DEF IInv, RuntimeTypeOK, GuardTypeOK
  <2>5. /\ db'.verified /\ db'.row[n] = "ACTIVE" /\ db'.row[s] # "ACTIVE"
        /\ \A t \in Sessions \ {s, n} : db'.row[t] = db.row[t]
    <3> HIDE DEF s, n
    <3> QED BY <1>2, <1>3, <1>4, <1>6, ReplacedRow
  <2>6. AloneOK'
    BY <1>1, <1>2, <2>1, AloneStep DEF OnlyMoves, OnGuard
  <2>7. RecordOK'
    <3>1. \A t \in Sessions : t > sessions' => conn'[t] = "none" /\ db'.row[t] = "none"
      BY <1>1, <1>3, <2>4, <2>5 DEF Lone, RecordOK
    <3>2. \A t \in Sessions : Open(t)' => t = n
      BY <1>5, <2>4 DEF Open
    <3>3. \A h \in Begins : Running(h)' => h = g
      BY <2>2 DEF Running
    <3> QED BY <1>1, <1>2, <2>2, <2>3, <2>5, <3>1, <3>2, <3>3 DEF RecordOK
  <2>8. PlaceOK'
    BY <2>2 DEF PlaceOK
  <2>9. HistoryOK'
    <3>1. faults' = 0 /\ crashes' = 0 => \A t \in Sessions :
              IsUp(t)' \/ db'.row[t] = "ACTIVE" => t = n
      BY <1>1, <1>2, <1>5, <1>6, <2>4, <2>5 DEF IsUp
    <3>2. /\ faults' = 0 /\ crashes' = 0 => ~owed'
          /\ faults' = 0 => ~failed'
      <4>1. \A h \in Begins : task[h].pc # "compare"
        BY <1>1, <1>2
      <4> QED BY <1>1, <1>4, <1>6, <4>1 DEF Lone, HistoryOK
    <3> QED BY <1>1, <1>2, <2>2, <2>3, <3>1, <3>2 DEF HistoryOK
  <2> QED BY <2>6, <2>7, <2>8, <2>9 DEF Lone
<1>7. CASE /\ faults < MaxFaults
           /\ faults' = faults + 1
           /\ Shuts(g, n)
           /\ task' = [task EXCEPT ![g].pc = "closing", ![g].cause = "error"]
           /\ db' \in RestrictionTried(ReplacementTried(db, s, n), n)
  <2>1. OnlyMoves(g, {"closing", "unwind"})
    <3> DEFINE r == [task[g] EXCEPT !.pc = "closing", !.cause = "error"]
    <3>1. task[g] \in TaskRecord /\ task \in [Begins -> TaskRecord]
      BY DEF IInv, RuntimeTypeOK, GuardTypeOK, TaskRecord
    <3>2. r \in TaskRecord /\ r.pc = "closing"
      BY <3>1 DEF TaskRecord
    <3>3. task' = [task EXCEPT ![g] = r]
      BY <1>7
    <3> HIDE DEF r
    <3> QED BY <3>1, <3>2, <3>3 DEF OnlyMoves
  <2>2. /\ guard'[g] = [session |-> n, verified |-> FALSE, restricted |-> TRUE]
        /\ conn'[n] = "closed" /\ \A t \in Sessions \ {n} : conn'[t] = conn[t]
    BY <1>3, <1>7 DEF Shuts, IInv, RuntimeTypeOK, GuardTypeOK
  <2>3. \A t \in Sessions \ {s, n} : db'.row[t] = db.row[t]
    <3> HIDE DEF s, n
    <3>1. ReplacementTried(db, s, n) \in SUBSET Store(Sessions)
      BY <1>2, <1>3, ReplacedOK
    <3>2. PICK e \in ReplacementTried(db, s, n) : \A t \in Sessions \ {n} : db'.row[t] = e.row[t]
      BY <1>3, <1>7, <3>1, RestrictionTriedRow
    <3>3. \A t \in Sessions \ {s, n} : e.row[t] = db.row[t]
      BY <1>2, <1>3, <3>2, ReplacedRow
    <3> QED BY <3>2, <3>3
  <2>4. /\ \A t \in Sessions : conn'[t] # "open"
        /\ \A t \in Sessions : t > sessions' => conn'[t] = conn[t] /\ db'.row[t] = db.row[t]
        /\ faults' # 0
    BY <1>1, <1>3, <1>5, <1>7, <2>2, <2>3 DEF Open
  <2>5. Shutting(g)
    BY <1>1, <2>1, <2>2, <2>4 DEF Shutting
  <2> QED BY <1>1, <2>5, ShuttingLone
<1> QED BY <1>2, <1>6, <1>7 DEF Redialled

(* After a crash nothing runs and nothing is open.                            *)
LEMMA CrashLone ==
  ASSUME IInv, Lone, Crash
  PROVE  Lone'
<1>1. \A h \in Begins : task'[h].pc \in {"unused", "ended"}
  BY DEF Crash, NoTask
<1>2. /\ \A s \in Sessions : ~Open(s)' /\ (conn[s] = "none" => conn'[s] = "none")
      /\ UNCHANGED <<db, sessions, faults, owed, failed, compared>>
      /\ current' = 0 /\ latest' = 0 /\ crashes' = crashes + 1 /\ crashes \in Nat
  BY DashboardAssumption DEF Crash, Open, IsUp, IInv, RuntimeTypeOK
<1>3. AloneOK'
  BY <1>1, <1>2 DEF AloneOK, Alive, Running, OnGuard
<1>4. RecordOK'
  BY <1>1, <1>2 DEF Lone, RecordOK, Running
<1>5. PlaceOK'
  BY <1>1 DEF PlaceOK
<1>6. crashes' # 0
  BY <1>2
<1>7. HistoryOK'
  BY <1>2, <1>6 DEF Lone, HistoryOK
<1> QED BY <1>3, <1>4, <1>5, <1>7 DEF Lone

(* Every step but a race keeps the second invariant, and after a race it says *)
(* nothing.                                                                   *)
LEMMA StepLone == IInv /\ (races = {} => Lone) /\ [Next]_vars => (races = {} => Lone)'
<1> SUFFICES ASSUME IInv, races = {} => Lone, [Next]_vars, races' = {} PROVE Lone'
  OBVIOUS
<1>1. CASE UNCHANGED vars
  BY <1>1 DEF vars, guardVars, Lone, AloneOK, RecordOK, PlaceOK, HistoryOK, Alive, Running,
              Open, IsUp
<1>2. CASE Crash /\ UNCHANGED races
  BY <1>2, CrashLone
<1>3. ASSUME NEW g \in Begins, Step(g), UNCHANGED races PROVE Lone'
  <2>0. Lone
    BY <1>3
  <2>1. CASE Begin(g) /\ \A h \in Begins : task[h].pc # "connect"
    BY <2>0, <2>1, BeginsLone DEF Begin, Communicates
  <2>2. CASE Begun(g)
    BY <2>0, <2>2, BegunLone
  <2>3. CASE BeginFails(g)
    BY <2>0, <2>3, BeginsLone DEF BeginFails, Communicates
  <2>4. CASE Start(g) \/ LockGot(g) \/ Exchanged(g)
    BY <2>0, <2>4, AssessesLone
  <2>5. CASE Matches(g) /\ AtRest
    BY <2>0, <2>5, MatchesLone
  <2>6. CASE (Mismatches(g) \/ TimesOut(g) \/ RedialFails(g)) /\ AtRest
    BY <2>0, <2>6, RedialFailsLone
  <2>7. CASE Redialled(g) /\ AtRest
    BY <2>0, <2>7, RedialledLone
  <2>8. CASE ExchangeFails(g)
    BY <2>0, <2>8, ExchangeFailsLone
  <2>9. CASE Wakes(g) \/ ReturnsRestricted(g)
    BY <2>0, <2>9, WakesLone DEF Wakes, ReturnsRestricted, Communicates
  <2>10. CASE HandlesError(g)
    BY <2>0, <2>10, HandlesErrorLone
  <2>11. CASE Finally(g) \/ Closed(g)
    BY <2>0, <2>11, FinallyLone
  <2>12. CASE Stop(g)
    <3>1. CASE StopsAssess(g)
      BY <2>0, <3>1, RedialFailsLone
    <3>2. CASE StopsExchange(g)
      BY <2>0, <3>2, ExchangeFailsLone
    <3>3. CASE StopsElsewhere(g)
      BY <2>0, <3>3, WakesLone DEF StopsElsewhere, Communicates
    <3> QED BY <2>12, <3>1, <3>2, <3>3 DEF Stop
  <2> QED BY <1>3, <2>1, <2>2, <2>3, <2>4, <2>5, <2>6, <2>7, <2>8, <2>9, <2>10, <2>11,
             <2>12 DEF Step
<1>4. \A kind \in RaceKinds : races' # races \cup {kind}
  OBVIOUS
<1> QED BY <1>1, <1>2, <1>3, <1>4 DEF Next

(* Both invariants hold in every state of the dashboard.                      *)
THEOREM AlwaysJInv == Spec => []JInv
<1>1. Init => (races = {} => Lone)
  BY InitLone
<1>2. JInv /\ [Next]_vars => JInv'
  BY StepOK, StepLone DEF JInv
<1> QED BY <1>1, <1>2, InitIInv, PTL DEF Spec, JInv

(* While no request races another one, data flows only on the connection of a *)
(* verified, unrestricted guard whose relationship the store has verified and *)
(* whose session it has ACTIVE, whatever transaction raised (communicate,     *)
(* SessionGuard.restrict) and whenever the process crashed.                   *)
THEOREM OpenRecorded == Spec => []OpenIsOnRecord
<1>1. JInv => OpenIsOnRecord
  <2> SUFFICES ASSUME JInv, races = {}, NEW s \in Sessions, Open(s)
               PROVE  /\ db.verified /\ db.row[s] = "ACTIVE"
                      /\ \E g \in Begins : guard[g] = [session |-> s, verified |-> TRUE,
                                                       restricted |-> FALSE]
    BY DEF OpenIsOnRecord
  <2>1. /\ current # 0 /\ Running(current) /\ guard[current].session = s
        /\ guard[current].verified
    BY DEF JInv, Lone, RecordOK
  <2>2. current \in Begins
    BY <2>1, GuardAssumption DEF JInv, IInv, RuntimeTypeOK, GuardTypeOK, Begins
  <2>3. db.verified /\ ~guard[current].restricted /\ db.row[s] = "ACTIVE"
    BY <2>1, <2>2 DEF JInv, Lone, RecordOK
  <2>4. guard[current] = [session |-> s, verified |-> TRUE, restricted |-> FALSE]
    BY <2>1, <2>2, <2>3 DEF JInv, IInv, RuntimeTypeOK, GuardTypeOK
  <2> QED BY <2>2, <2>3, <2>4
<1> QED BY <1>1, AlwaysJInv, PTL

(* A comparison that SessionGuard.assess demanded shuts every connection      *)
(* until it succeeds: no timeout, stop, failed replacement or new session     *)
(* gets around it, while the store does not raise and the process lives.      *)
THEOREM OwedShuts == Spec => []OwedComparisonShuts
<1>1. JInv => OwedComparisonShuts
  <2> SUFFICES ASSUME JInv, faults = 0, crashes = 0, races = {}, owed,
                      NEW s \in Sessions, Open(s)
               PROVE  FALSE
    BY DEF OwedComparisonShuts, Shut
  <2>1. current # 0 /\ Running(current) /\ guard[current].session = s
    BY DEF JInv, Lone, RecordOK
  <2>2. current \in Begins /\ guard[current].verified
    BY <2>1, GuardAssumption
       DEF JInv, Lone, RecordOK, IInv, RuntimeTypeOK, GuardTypeOK, Begins
  <2>3. db.verified
    BY <2>1, <2>2 DEF JInv, Lone, RecordOK
  <2>4. PICK h \in Begins : task[h].pc = "compare"
    BY <2>3 DEF JInv, Lone, HistoryOK
  <2>5. h = current /\ guard[h].session \in compared
    BY <2>4 DEF JInv, Lone, AloneOK, PlaceOK, Running
  <2>6. s \in compared /\ IsUp(s) /\ conn[s] # "gated"
    BY <2>1, <2>5 DEF Open, IsUp
  <2> QED BY <2>6, WitnessOK DEF JInv
<1> QED BY <1>1, AlwaysJInv, PTL

(* A comparison that failed, by a mismatch, a timeout or a stop, shuts every  *)
(* later session until one succeeds, also across a crash, if it could be      *)
(* stored (SessionGuard.restrict).                                            *)
THEOREM FailedShuts == Spec => []FailedComparisonShuts
<1>1. JInv => FailedComparisonShuts
  <2> SUFFICES ASSUME JInv, faults = 0, races = {}, failed, NEW s \in Sessions, Open(s)
               PROVE  FALSE
    BY DEF FailedComparisonShuts, Shut
  <2>1. current # 0 /\ Running(current) /\ guard[current].verified
    BY DEF JInv, Lone, RecordOK
  <2>2. current \in Begins
    BY <2>1, GuardAssumption DEF JInv, IInv, RuntimeTypeOK, GuardTypeOK, Begins
  <2>3. db.verified
    BY <2>1, <2>2 DEF JInv, Lone, RecordOK
  <2> QED BY <2>3 DEF JInv, Lone, HistoryOK
<1> QED BY <1>1, AlwaysJInv, PTL

(* While the store does not raise and the process lives, whatever connection  *)
(* is up and whatever row is ACTIVE belongs to the session that runs          *)
(* (SessionGuard.close, reestablish).                                         *)
THEOREM NothingLeft == Spec => []NothingLeftOpen
<1>1. JInv => NothingLeftOpen
  BY DEF JInv, Lone, HistoryOK, AloneOK, NothingLeftOpen
<1> QED BY <1>1, AlwaysJInv, PTL

(* While no request races another one, begin's check suffices: there are      *)
(* never two sessions.                                                        *)
THEOREM OneAtATime ==
    Spec => [](races = {} => \A g, h \in Begins : Running(g) /\ Running(h) => g = h)
<1>1. JInv => (races = {} => \A g, h \in Begins : Running(g) /\ Running(h) => g = h)
  BY DEF JInv, Lone, AloneOK
<1> QED BY <1>1, AlwaysJInv, PTL
===============================================================================
