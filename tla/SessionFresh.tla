----------------------------- MODULE SessionFresh -----------------------------
(***************************************************************************)
(* Proofs about the two-device session without bursts: that a comparison   *)
(* which is to be followed by fresh TLS never opens a gate on the          *)
(* connection it was made on (RecoveredFresh), and that no gate is open    *)
(* while a comparison is pending (PendingPauses).                          *)
(*                                                                         *)
(* Connections are numbered in the order they are established and          *)
(* requests in the order they are made, by Alice for both. Alice's side    *)
(* (AliceFresh) follows her task: she redials before she concludes.        *)
(* Bob has only what arrives: he opens on whichever connection brings the  *)
(* approval of his reservation. That this is a later one than that of the  *)
(* comparison is InOrder: Alice asks on a connection only after every      *)
(* result she sent on an earlier one, so no earlier connection carries     *)
(* the approval of a later request.                                        *)
(*                                                                         *)
(* A comparison could be pending behind an open gate if it began at Bob    *)
(* while he waits for the ready that opens him. Precedes says why it does  *)
(* not: on a connection that brought the proof of a recovery (Proven) a    *)
(* ready travels ahead of every request (ReadyAhead), because Alice sends  *)
(* ready before she can ask again (AliceSays).                             *)
(***************************************************************************)
EXTENDS SessionProofs

(* A gate that a comparison is to open on fresh TLS has that connection.      *)
Fresh(r) == basis[r].recovery => conn[r] > basis[r].on

(* No reconnect burst runs.                                                   *)
NoBurst == task["burst"] = "off"

(* The numbers of what Alice uses are those given out so far.                 *)
NumbersOK ==
    /\ via["measure"] <= conns /\ \A r \in Role : conn[r] <= conns
    /\ basis["alice"].on <= conns /\ asked.id <= ids /\ approved <= ids
    /\ \A c \in Conns : cand[c].pc # "none" => c <= conns /\ c # conn["bob"]

-------------------------------------------------------------------------------
(* How a step of Alice changes the numbers                                    *)
Counted ==
    /\ task'["burst"] = task["burst"]
    /\ conns' \in {conns, conns + 1} /\ ids' \in {ids, ids + 1}
    /\ \/ conn'["alice"] = conn["alice"]
       \/ conn'["alice"] = 0
       \/ conns' = conns + 1 /\ conn'["alice"] = conns + 1
    /\ via'["measure"] \in {via["measure"], 0, conn'["alice"]}
    /\ asked'.id \in {asked.id, 0, ids'} /\ approved' \in {approved, 0, asked.id}
    /\ basis'["alice"].on \in {basis["alice"].on, 0, via["measure"]}

(* What of it Raises does                                                     *)
LEMMA RaisesCounted ==
  ASSUME IType, NEW l, Raises("measure", l)
  PROVE  /\ task'["burst"] = task["burst"] /\ conn' = conn /\ via'["measure"] = 0
         /\ asked'.id = 0
<1>1. TaskOK /\ "measure" \in Tasks /\ "burst" \in Tasks
  BY TypeParts DEF IType, AliceOK, Tasks
<1>2. task' \in {[task EXCEPT !["measure"] = "off"], [task EXCEPT !["measure"] = "failed"]}
  BY DEF Raises, Goto
<1>3. conn' = conn
  BY DEF Raises, Restricts
<1> QED BY <1>1, <1>2, <1>3 DEF Raises, TaskOK, NotAsked

(* measure_loop, between the handshakes                                       *)
LEMMA MeasureCounted ==
  ASSUME IType, MeasureStep
  PROVE  Counted
<1>0. /\ EndpointOK /\ CoreOK /\ TaskOK /\ HistOK /\ AliceOK /\ "alice" \in Role
      /\ "measure" \in Tasks /\ "burst" \in Tasks /\ "measure" # "burst"
      /\ task \in [Tasks -> Places] /\ via \in [Tasks -> Refs] /\ basis \in [Role -> Bases]
  BY TypeParts DEF IType, EndpointOK, AliceOK, Role, Tasks, CoreOK, TaskOK, HistOK
<1>1. conns' = conns
  BY <1>0, MeasureStepStill
<1>2. ASSUME NEW l, Raises("measure", l), ids' = ids, approved' \in {approved, 0, asked.id},
             basis'["alice"].on \in {basis["alice"].on, 0, via["measure"]}
      PROVE  Counted
  BY <1>1, <1>2, RaisesCounted DEF Counted
<1>3. ASSUME conn' = conn, ids' = ids, approved' = approved, basis' = basis,
             asked' = asked, via' = via, NEW pc, task' = [task EXCEPT !["measure"] = pc]
      PROVE  Counted
  BY <1>0, <1>1, <1>3 DEF Counted
<1>4. ASSUME conn' = conn, ids' \in {ids, ids + 1}, approved' \in {approved, asked.id},
             basis'["alice"].on \in {basis["alice"].on, via["measure"]}, asked'.id \in {asked.id, ids'},
             NEW pc, NEW m, NEW l, Sends("measure", pc, m, l)
      PROVE  Counted
  <2>1. via'["measure"] = conn'["alice"] /\ task'["burst"] = task["burst"]
    BY <1>0, <1>4 DEF Sends, Goto
  <2> QED BY <1>1, <1>4, <2>1 DEF Counted
<1>5. CASE Concludes /\ UNCHANGED <<ids, basis, approved>>
  <2>1. CASE Sends("measure", "resume", Notice("ready"), link)
    BY <1>4, <1>5, <2>1 DEF Concludes
  <2>2. CASE /\ task' \in {[task EXCEPT !["measure"] = "loop"], [task EXCEPT !["measure"] = "off"]}
             /\ via' = via
    BY <1>3, <1>5, <2>2 DEF Concludes
  <2> QED BY <1>5, <2>1, <2>2, Zenon DEF Concludes, Goto
<1>6. CASE GuardFailed \/ LoopHead
  BY <1>3, <1>6 DEF GuardFailed, LoopHead, Restricts, core, hist, Goto
<1>7. CASE Heartbeat \/ PingSent \/ RequestSent
  BY <1>2, <1>3, <1>4, <1>7 DEF Heartbeat, PingSent, RequestSent, core, Goto
<1>8. CASE HeartbeatStops \/ AssessRotates \/ RespondTimesOut
  BY <1>2, <1>8 DEF HeartbeatStops, AssessRotates, RespondTimesOut
<1>9. CASE BothDecided
  BY <1>2, <1>4, <1>9 DEF BothDecided
<1>10. CASE Conclude \/ AssessKeeps
  BY <1>5, <1>10 DEF Conclude, AssessKeeps
<1>11. CASE AssessVerifies
  <2>1. CASE Raises("measure", link) /\ ids' = ids
    BY <1>2, <1>11, <2>1 DEF AssessVerifies
  <2>2. CASE /\ ids' = ids + 1 /\ asked' = [id |-> ids + 1, recovery |-> guard = "verified"]
             /\ UNCHANGED <<conn, basis, approved>>
             /\ Sends("measure", "request", Msg("verify_request", ids + 1, guard = "verified"), link)
    BY <1>4, <2>2
  <2> QED BY <1>11, <2>1, <2>2, Zenon DEF AssessVerifies
<1>12. CASE ResultSent
  <2> DEFINE b == [id |-> asked.id, on |-> via["measure"], recovery |-> asked.recovery]
  <2>1. CASE Raises("measure", link) /\ UNCHANGED <<basis, approved>>
    BY <1>2, <1>12, <2>1 DEF ResultSent
  <2>2. CASE /\ basis' = [basis EXCEPT !["alice"] = b]
             /\ approved' = IF asked.recovery THEN asked.id ELSE approved
    <3>1. basis'["alice"].on = via["measure"] /\ approved' \in {approved, asked.id} /\ ids' = ids
      BY <1>0, <1>12, <2>2 DEF ResultSent
    <3>2. CASE Raises("measure", link)
      BY <1>2, <3>1, <3>2
    <3>3. CASE UNCHANGED <<conn, asked>> /\ Sends("measure", "notice", Notice("reconnect"), link)
      BY <1>4, <3>1, <3>3
    <3>4. CASE asked' = NotAsked /\ Goto("measure", "conclude") /\ UNCHANGED <<conn, via>>
      BY <1>0, <1>1, <3>1, <3>4 DEF Counted, Goto, NotAsked
    <3> QED BY <1>12, <3>2, <3>3, <3>4, Zenon DEF ResultSent
  <2> QED BY <1>12, <2>1, <2>2, Zenon DEF ResultSent
<1>13. CASE NoticeSent
  <2>1. CASE Raises("measure", link)
    BY <1>2, <1>13, <2>1 DEF NoticeSent
  <2>2. CASE asked' = NotAsked /\ Goto("measure", "close") /\ UNCHANGED <<conn, via>>
    BY <1>0, <1>1, <1>13, <2>2 DEF Counted, NoticeSent, Goto, NotAsked
  <2> QED BY <1>13, <2>1, <2>2, Zenon DEF NoticeSent
<1> QED BY <1>6, <1>7, <1>8, <1>9, <1>10, <1>11, <1>12, <1>13 DEF MeasureStep

(* recover, with the handshake of its fresh connection                        *)
LEMMA RecoveryCounted ==
  ASSUME IType, \/ RecoveryStep("measure") \/ Redialled("measure") \/ RedialFails("measure")
  PROVE  Counted
<1>0. /\ EndpointOK /\ CoreOK /\ TaskOK /\ HistOK /\ AliceOK /\ "alice" \in Role
      /\ "measure" \in Tasks /\ "burst" \in Tasks /\ "measure" # "burst"
      /\ task \in [Tasks -> Places] /\ via \in [Tasks -> Refs] /\ basis \in [Role -> Bases]
      /\ conn \in [Role -> Refs]
  BY TypeParts DEF IType, EndpointOK, AliceOK, Role, Tasks, CoreOK, TaskOK, HistOK
<1>1. ASSUME NEW l, Raises("measure", l), ids' = ids, approved' \in {approved, 0},
             basis' = basis, conns' \in {conns, conns + 1}
      PROVE  Counted
  BY <1>1, RaisesCounted DEF Counted
<1>2. ASSUME conn' = conn, ids' = ids, approved' \in {approved, 0}, basis' = basis, asked' = asked,
             conns' \in {conns, conns + 1}, via' = via,
             task' = task \/ \E pc : task' = [task EXCEPT !["measure"] = pc]
      PROVE  Counted
  BY <1>0, <1>2 DEF Counted
<1>3. ASSUME ids' = ids, approved' = approved, basis' = basis, asked' = asked,
             \/ conn' = conn /\ conns' = conns
             \/ conn'["alice"] = conns + 1 /\ conns' = conns + 1,
             NEW pc, NEW m, NEW l, Sends("measure", pc, m, l)
      PROVE  Counted
  <2>1. via'["measure"] = conn'["alice"] /\ task'["burst"] = task["burst"]
    BY <1>0, <1>3 DEF Sends, Goto
  <2> QED BY <1>3, <2>1 DEF Counted
<1>4. CASE RecoveryStep("measure")
  <2>1. ids' = ids /\ basis' = basis /\ conns' = conns
    BY <1>4 DEF RecoveryStep, RecoverBegins, ProofSent, Recovered, Resumed, TaskStep
  <2>2. CASE RecoverBegins("measure") \/ ProofSent("measure")
    BY <1>1, <1>2, <2>1, <2>2 DEF RecoverBegins, ProofSent, core, Goto
  <2>3. CASE Recovered("measure")
    BY <1>1, <1>2, <1>3, <2>1, <2>3 DEF Recovered, core, Goto
  <2>4. CASE Resumed("measure")
    BY <1>1, <1>2, <2>1, <2>4 DEF Resumed, Goto
  <2> QED BY <1>4, <2>2, <2>3, <2>4 DEF RecoveryStep
<1>5. CASE Redialled("measure")
  <2>1. PICK c \in Conns : Established(c) /\ Reconnected("measure", c, LinkUp(c))
    BY <1>5 DEF Redialled
  <2>2. c = conns + 1 /\ conns' = c
    BY <2>1 DEF Established
  <2>3. ids' = ids /\ basis' = basis /\ approved' = approved
    BY <2>1 DEF Reconnected, hist
  <2>4. CASE Raises("measure", LinkUp(c))
    BY <1>1, <2>2, <2>3, <2>4
  <2>5. CASE /\ conn' = [conn EXCEPT !["alice"] = c] /\ asked' = asked
             /\ Sends("measure", "proof", Msg("verification_result", approved, TRUE), LinkUp(c))
    <3>1. conn'["alice"] = conns + 1
      BY <1>0, <2>2, <2>5
    <3> QED BY <1>3, <2>2, <2>3, <2>5, <3>1
  <2> QED BY <2>1, <2>4, <2>5, Zenon DEF Reconnected
<1>6. CASE RedialFails("measure")
  <2>1. conns' \in {conns, conns + 1} /\ \E l : EstablishFails("measure", l)
    BY <1>6 DEF RedialFails, Established
  <2>2. PICK l : EstablishFails("measure", l)
    BY <2>1
  <2> QED BY <1>1, <1>2, <2>1, <2>2 DEF EstablishFails, hist
<1> QED BY <1>4, <1>5, <1>6

(* Without a burst, a task that takes a step is the measurement.              *)
LEMMA OnlyMeasures ==
  ASSUME IType, NoBurst, Measures \/ Replaces
  PROVE  MeasureStep \/ RecoveryStep("measure") \/ Redialled("measure") \/ RedialFails("measure")
<1>1. CASE Replaces
  <2>1. TaskWorks("burst") /\ "burst" \in Tasks
    BY <1>1 DEF Replaces, TaskWorks, Tasks
  <2> QED BY <2>1, TaskIsOn DEF NoBurst
<1> QED BY <1>1 DEF Measures

(* How every step of Alice changes them                                       *)
LEMMA AliceCounted ==
  ASSUME IType, IdleOK, NoBurst, MaxBursts = 0, AliceStep
  PROVE  Counted
<1>0. /\ TypeOK /\ SeatOK /\ Wires(link, Spoken) /\ Held(reader, Spoken) /\ "alice" \in Role
      /\ BoundOK /\ CoreOK /\ TaskOK /\ HistOK /\ "measure" \in Tasks /\ "burst" \in Tasks
  BY TypeParts DEF IType, EndpointOK, AliceOK, Role, Tasks
<1>1. CASE OwnStep("alice")
  <2>1. conn' = conn /\ UNCHANGED <<task, asked>> /\ basis'["alice"] = basis["alice"]
    BY <1>0, <1>1, OwnStepConn, OwnStepAlice
  <2>2. UNCHANGED <<conns, ids, via, approved>>
    <3>1. CASE Answers("alice") \/ (LinkFails("alice", conn["alice"]) /\ OfEither)
      BY <3>1 DEF Answers, Confirm, LinkFails, OfEither, aliceVars
    <3>2. CASE CommandStep("alice") \/ TabCloses("alice") \/ Timeouts("alice")
      BY <3>2 DEF CommandStep, Decide, AliceStops, SendShutdown, AliceDisconnectEnds,
          DisconnectEnds,
         TabCloses, ConfirmAbandoned, DisconnectAbandoned, StopAbandoned, Timeouts,
         VerificationEnds, OfEither, aliceVars
    <3>3. CASE Reads("alice")
      BY <3>3, AliceReadsOne DEF Reads, ReaderSeesClose, ReaderSent, EndOfStream, LinkFails,
         OfEither, aliceVars
    <3> QED BY <1>1, <3>1, <3>2, <3>3 DEF OwnStep
  <2> QED BY <2>1, <2>2 DEF Counted
<1>2. CASE Measures \/ Replaces
  BY <1>2, OnlyMeasures, MeasureCounted, RecoveryCounted
<1>3. CASE Bursts
  BY <1>0, <1>3 DEF Bursts, BoundOK
<1>4. CASE Connects
  BY <1>0, <1>4 DEF Connects, Connect, aliceVars, hist, Counted, CoreOK
<1>5. CASE Dialled
  <2>1. PICK c \in Conns : Established(c) /\ Connected(c)
    BY <1>5 DEF Dialled
  <2> QED BY <1>0, <2>1 DEF Established, Connected, Counted, Goto, CoreOK, TaskOK, HistOK, NoBasis
<1>6. CASE DialFails
  <2>1. conn' = conn
    BY <1>6 DEF DialFails, ConnectFails, ConnectAbandoned, Restricts, core
  <2> QED BY <1>6, <2>1 DEF DialFails, ConnectFails, ConnectAbandoned, aliceVars, hist, Counted
<1>7. CASE AliceDisconnectBegins /\ OfAlice
  BY <1>0, <1>7 DEF AliceDisconnectBegins, OfAlice, hist, Counted, NotAsked, NoBurst
<1> QED BY <1>1, <1>2, <1>3, <1>4, <1>5, <1>6, <1>7 DEF AliceStep

-------------------------------------------------------------------------------
(* Alice's side.  While she asks, answers and redials her gate is not open;   *)
(* after a comparison that is to be followed by fresh TLS it stays so until   *)
(* she has that connection, or gives up.                                      *)
Pausing == {"request", "ready", "result", "notice", "close", "establish"}
(* Where a comparison for fresh TLS may be on her record without that TLS     *)
Leaving == {"notice", "close", "establish", "failed", "off"}
(* Her part of the invariant                                                  *)
AliceFresh ==
    /\ task["measure"] \in Pausing => gate["alice"] # "ACTIVE"
    /\ Fresh("alice") \/ (gate["alice"] # "ACTIVE" /\ task["measure"] \in Leaving)

(* A step that leaves her the connection and what she compared keeps this if  *)
(* it opens nothing, or if she has fresh TLS already.                         *)
LEMMA FreshStays ==
  ASSUME AliceFresh, conn'["alice"] = conn["alice"], basis'["alice"] = basis["alice"],
         \/ gate'["alice"] # "ACTIVE" \/ gate["alice"] = "ACTIVE"
         \/ task["measure"] \notin Leaving /\ task'["measure"] \notin Pausing,
         \/ task'["measure"] = task["measure"]
         \/ task'["measure"] \in Pausing /\ gate'["alice"] # "ACTIVE"
         \/ task'["measure"] \notin Pausing,
         task'["measure"] \in Leaving \/ task["measure"] \notin Leaving
  PROVE  AliceFresh'
BY DEF AliceFresh, Fresh

(* A task that gives up                                                       *)
LEMMA RaisesFresh ==
  ASSUME IType, AliceFresh, NEW l, Raises("measure", l), basis'["alice"] = basis["alice"]
  PROVE  AliceFresh'
<1>1. /\ gate'["alice"] \in {gate["alice"], "RESTRICTED"} /\ task'["measure"] \in {"off", "failed"}
      /\ conn' = conn
  BY RaisesAlice, RaisesCounted DEF Tasks
<1> QED BY <1>1, FreshStays DEF Pausing, Leaving

(* measure_loop keeps it.                                                     *)
LEMMA MeasureFresh ==
  ASSUME IType, AliceFresh, MeasureStep
  PROVE  AliceFresh'
<1>0. /\ CoreOK /\ HistOK /\ "alice" \in Role /\ "measure" \in Tasks /\ gate \in [Role -> State]
      /\ task \in [Tasks -> Places] /\ basis \in [Role -> Bases] /\ TaskWorks("measure")
  BY TypeParts DEF IType, EndpointOK, AliceOK, Role, Tasks, CoreOK, TaskOK, HistOK, TaskWorks
<1>1. ASSUME NEW l, Raises("measure", l), ~ResultSent PROVE AliceFresh'
  BY <1>0, <1>1, TaskBasis, RaisesFresh DEF Tasks
<1>2. ASSUME conn' = conn, ~ResultSent, task["measure"] \notin Leaving,
             \/ task'["measure"] \notin Pausing
             \/ task'["measure"] = task["measure"] /\ gate' = gate
             \/ task'["measure"] \in Pausing /\ gate'["alice"] # "ACTIVE"
      PROVE  AliceFresh'
  BY <1>0, <1>2, TaskBasis DEF AliceFresh, Fresh
<1>3. CASE Concludes /\ ~ResultSent /\ task["measure"] \notin Leaving
  <2>1. conn' = conn /\ task'["measure"] \in {"loop", "resume", "off"}
    BY <1>0, <1>3 DEF Concludes, Goto, Sends
  <2> QED BY <1>2, <1>3, <2>1 DEF Pausing
<1>4. CASE GuardFailed
  <2>1. /\ conn' = conn /\ gate'["alice"] \in {gate["alice"], "RESTRICTED"} /\ task'["measure"] = "off"
    BY <1>0, <1>4 DEF GuardFailed, Goto, Restricts
  <2>2. ~ResultSent
    BY <1>4 DEF GuardFailed, ResultSent
  <2> QED BY <1>0, <2>1, <2>2, TaskBasis, FreshStays DEF Pausing, Leaving
<1>5. CASE LoopHead
  <2>1. conn' = conn /\ task["measure"] = "loop" /\ task'["measure"] \in {"off", "sleep"}
    BY <1>0, <1>5 DEF LoopHead, Goto, core
  <2> QED BY <1>2, <2>1 DEF Pausing, Leaving, ResultSent
<1>6. CASE (Heartbeat \/ PingSent) /\ ~Raises("measure", link)
  <2>1. conn' = conn /\ task["measure"] \in {"sleep", "ping"} /\ task'["measure"] \in {"loop", "ping", "pong"}
    BY <1>0, <1>6 DEF Heartbeat, PingSent, Sends, Goto, core
  <2> QED BY <1>2, <2>1 DEF Pausing, Leaving, ResultSent
<1>7. CASE Heartbeat \/ PingSent \/ HeartbeatStops \/ AssessRotates
  BY <1>1, <1>6, <1>7 DEF Heartbeat, PingSent, HeartbeatStops, AssessRotates, AtAssess, ResultSent
<1>8. CASE Conclude \/ AssessKeeps
  BY <1>3, <1>8 DEF Conclude, AssessKeeps, AtAssess, ResultSent, Leaving
<1>9. CASE AssessVerifies
  <2>1. ~ResultSent /\ task["measure"] \notin Leaving
    BY <1>9 DEF AssessVerifies, AtAssess, ResultSent, Leaving
  <2>2. CASE Raises("measure", link)
    BY <1>1, <2>1, <2>2
  <2>3. CASE /\ BeginVerification("alice", ids + 1, guard = "verified") /\ conn' = conn
             /\ Sends("measure", "request", Msg("verify_request", ids + 1, guard = "verified"), link)
    <3>1. task'["measure"] = "request" /\ gate'["alice"] = "VERIFYING"
      BY <1>0, <2>3 DEF Sends, Goto, BeginVerification
    <3> QED BY <1>2, <2>1, <2>3, <3>1 DEF Pausing
  <2> QED BY <1>9, <2>2, <2>3, Zenon DEF AssessVerifies
<1>10. CASE RequestSent \/ BothDecided
  <2>1. ~ResultSent /\ task["measure"] \in {"request", "ready"}
    BY <1>10 DEF RequestSent, BothDecided, ResultSent
  <2>2. CASE Raises("measure", link)
    BY <1>1, <2>1, <2>2
  <2>3. CASE ~Raises("measure", link)
    <3>1. UNCHANGED <<gate, conn>> /\ task'["measure"] \in {"ready", "result"}
      BY <1>0, <1>10, <2>3 DEF RequestSent, BothDecided, Sends, Goto, core
    <3>2. gate["alice"] # "ACTIVE" /\ task["measure"] \notin Leaving
      BY <2>1 DEF AliceFresh, Pausing, Leaving
    <3> QED BY <1>2, <2>1, <3>1, <3>2 DEF Pausing
  <2> QED BY <2>2, <2>3
<1>11. CASE RespondTimesOut /\ ~ResultSent
  BY <1>1, <1>11 DEF RespondTimesOut
<1>12. CASE ResultSent
  <2> DEFINE b == [id |-> asked.id, on |-> via["measure"], recovery |-> asked.recovery]
  <2>0. gate["alice"] # "ACTIVE"
    BY <1>12 DEF ResultSent, AliceFresh, Pausing
  <2>1. CASE Raises("measure", link) /\ UNCHANGED <<basis, approved>>
    BY <2>1, RaisesFresh
  <2>2. CASE basis' = [basis EXCEPT !["alice"] = b]
    <3>1. basis'["alice"].recovery = asked.recovery
      BY <1>0, <2>2
    <3>2. CASE Raises("measure", link)
      <4>1. gate'["alice"] # "ACTIVE" /\ task'["measure"] \in {"off", "failed"}
        BY <1>0, <2>0, <3>2, RaisesAlice
      <4> QED BY <4>1 DEF AliceFresh, Pausing, Leaving
    <3>3. CASE gate' = gate /\ Sends("measure", "notice", Notice("reconnect"), link)
      <4>1. gate'["alice"] # "ACTIVE" /\ task'["measure"] = "notice"
        BY <1>0, <2>0, <3>3 DEF Sends, Goto
      <4> QED BY <4>1 DEF AliceFresh, Pausing, Leaving
    <3>4. CASE ~asked.recovery /\ Goto("measure", "conclude")
      <4>1. ~basis'["alice"].recovery /\ task'["measure"] = "conclude"
        BY <1>0, <3>1, <3>4 DEF Goto
      <4> QED BY <4>1 DEF AliceFresh, Fresh, Pausing
    <3> QED BY <1>12, <3>2, <3>3, <3>4, Zenon DEF ResultSent
  <2> QED BY <1>12, <2>1, <2>2, Zenon DEF ResultSent
<1>13. CASE NoticeSent
  <2>1. ~ResultSent /\ task["measure"] = "notice"
    BY <1>13 DEF NoticeSent, ResultSent
  <2>2. CASE Raises("measure", link)
    BY <1>1, <2>1, <2>2
  <2>3. CASE gate' = [gate EXCEPT !["alice"] = "RECONNECTING"] /\ conn' = conn /\ Goto("measure", "close")
    <3>1. gate'["alice"] = "RECONNECTING" /\ task'["measure"] = "close"
      BY <1>0, <2>3 DEF Goto
    <3> QED BY <1>0, <2>1, <2>3, <3>1, TaskBasis, FreshStays DEF Pausing, Leaving
  <2> QED BY <1>13, <2>2, <2>3, Zenon DEF NoticeSent
<1> QED BY <1>4, <1>5, <1>7, <1>8, <1>9, <1>10, <1>11, <1>12, <1>13 DEF MeasureStep

(* recover, on her behalf: a gate that opens on a recovery has the connection *)
(* that it redialled.                                                         *)
LEMMA RecoveryFresh ==
  ASSUME IType, NumbersOK, AliceFresh,
         RecoveryStep("measure") \/ Redialled("measure") \/ RedialFails("measure")
  PROVE  AliceFresh'
<1>0. /\ CoreOK /\ HistOK /\ CountOK /\ "alice" \in Role /\ "measure" \in Tasks
      /\ gate \in [Role -> State] /\ conn \in [Role -> Refs]
      /\ task \in [Tasks -> Places] /\ basis \in [Role -> Bases] /\ TaskWorks("measure")
  BY TypeParts DEF IType, EndpointOK, AliceOK, Role, Tasks, CoreOK, TaskOK, HistOK, TaskWorks
<1>1. basis'["alice"] = basis["alice"]
  <2>1. ~ResultSent
    BY DEF ResultSent, RecoveryStep, RecoverBegins, ProofSent, Recovered, Resumed, Redialled,
       Reconnected, RedialFails, EstablishFails
  <2> QED BY <1>0, <2>1, TaskBasis
<1>2. ASSUME NEW l, Raises("measure", l) PROVE AliceFresh'
  BY <1>1, <1>2, RaisesFresh
<1>3. ASSUME conn' = conn, task["measure"] \notin Leaving, task'["measure"] \notin Pausing
      PROVE  AliceFresh'
  BY <1>1, <1>3, FreshStays
<1>4. CASE RecoverBegins("measure")
  <2>1. CASE gate["alice"] = "RECONNECTING" /\ UNCHANGED core /\ Goto("measure", "establish")
    <3>1. UNCHANGED <<gate, conn>> /\ task'["measure"] = "establish"
      BY <1>0, <2>1 DEF Goto, core
    <3> QED BY <1>1, <2>1, <3>1, FreshStays DEF Leaving, Pausing
  <2> QED BY <1>2, <1>4, <2>1, Zenon DEF RecoverBegins
<1>5. CASE ProofSent("measure")
  <2>1. CASE task["measure"] = "proof" /\ UNCHANGED core /\ Goto("measure", "confirm")
    <3>1. conn' = conn /\ task'["measure"] = "confirm"
      BY <1>0, <2>1 DEF Goto, core
    <3> QED BY <1>3, <2>1, <3>1 DEF Leaving, Pausing
  <2> QED BY <1>2, <1>5, <2>1, Zenon DEF ProofSent
<1>6. CASE Recovered("measure")
  <2>1. CASE task["measure"] = "confirm" /\ conn' = conn
             /\ task' \in {[task EXCEPT !["measure"] = "conclude"], [task EXCEPT !["measure"] = "resume"]}
    <3>1. task'["measure"] \in {"conclude", "resume"}
      BY <1>0, <2>1
    <3> QED BY <1>3, <2>1, <3>1 DEF Leaving, Pausing
  <2>2. ~Raises("measure", link) => conn' = conn
             /\ task' \in {[task EXCEPT !["measure"] = "conclude"], [task EXCEPT !["measure"] = "resume"]}
    BY <1>6 DEF Recovered, Goto, Sends, core
  <2> QED BY <1>2, <1>6, <2>1, <2>2 DEF Recovered
<1>7. CASE Resumed("measure")
  <2>1. CASE task["measure"] = "resume" /\ conn' = conn /\ Goto("measure", "loop")
    <3>1. task'["measure"] = "loop"
      BY <1>0, <2>1 DEF Goto
    <3> QED BY <1>3, <2>1, <3>1 DEF Leaving, Pausing
  <2>2. ~Raises("measure", link) => conn' = conn /\ Goto("measure", "loop")
    BY <1>7 DEF Resumed
  <2> QED BY <1>2, <1>7, <2>1, <2>2 DEF Resumed
<1>8. CASE Redialled("measure")
  <2>1. PICK c \in Conns : Established(c) /\ Reconnected("measure", c, LinkUp(c))
    BY <1>8 DEF Redialled
  <2>2. CASE /\ gate' = [gate EXCEPT !["alice"] = "VERIFYING"] /\ conn' = [conn EXCEPT !["alice"] = c]
             /\ Sends("measure", "proof", Msg("verification_result", approved, TRUE), LinkUp(c))
    <3>1. task'["measure"] = "proof" /\ conn'["alice"] = conns + 1
      BY <1>0, <2>1, <2>2 DEF Sends, Goto, Established
    <3>2. basis["alice"].on < conns + 1
      BY <1>0 DEF NumbersOK, Bases, CountOK, Refs
    <3> QED BY <1>1, <3>1, <3>2 DEF AliceFresh, Fresh, Pausing
  <2> QED BY <1>2, <2>1, <2>2, Zenon DEF Reconnected
<1>9. CASE RedialFails("measure")
  <2>1. PICK l : EstablishFails("measure", l)
    BY <1>9 DEF RedialFails
  <2>2. CASE UNCHANGED <<gate, conn, task>>
    BY <1>1, <2>2 DEF AliceFresh, Fresh
  <2> QED BY <1>2, <2>1, <2>2, Zenon DEF EstablishFails
<1> QED BY <1>4, <1>5, <1>6, <1>7, <1>8, <1>9 DEF RecoveryStep

(* Every step of hers keeps it.                                               *)
LEMMA AliceStepFresh ==
  ASSUME IType, IdleOK, NoBurst, MaxBursts = 0, NumbersOK, AliceFresh, AliceStep
  PROVE  AliceFresh'
<1>0. /\ TypeOK /\ SeatOK /\ Wires(link, Spoken) /\ Held(reader, Spoken) /\ "alice" \in Role
      /\ BoundOK /\ CoreOK /\ HistOK /\ gate \in [Role -> State] /\ task \in [Tasks -> Places]
      /\ "measure" \in Tasks /\ basis \in [Role -> Bases]
  BY TypeParts DEF IType, EndpointOK, AliceOK, Role, Tasks, CoreOK, TaskOK, HistOK
<1>1. CASE OwnStep("alice")
  <2>1. conn' = conn /\ UNCHANGED task /\ basis'["alice"] = basis["alice"]
    BY <1>0, <1>1, OwnStepConn, OwnStepAlice
  <2>2. gate'["alice"] \in {gate["alice"], "RESTRICTED", "CLOSED"}
    BY <1>1, OwnStepAlice
  <2>3. gate'["alice"] = "ACTIVE" => gate["alice"] = "ACTIVE"
    BY <2>2
  <2> QED BY <2>1, <2>3 DEF AliceFresh, Fresh
<1>2. CASE Measures \/ Replaces
  BY <1>2, OnlyMeasures, MeasureFresh, RecoveryFresh
<1>3. CASE Bursts
  BY <1>0, <1>3 DEF Bursts, BoundOK
<1>4. CASE Connects
  <2>1. UNCHANGED <<task, basis>> /\ gate' = [gate EXCEPT !["alice"] = "CONNECTING"]
        /\ (gate["alice"] \in {"LOCKED", "CLOSED"} \/ guard = "none")
    BY <1>4 DEF Connects, Connect, aliceVars, hist
  <2>2. task["measure"] = "off" /\ gate'["alice"] # "ACTIVE"
    BY <1>0, <2>1 DEF IdleOK, Idle
  <2> QED BY <2>1, <2>2 DEF AliceFresh, Leaving
<1>5. CASE Dialled
  <2>1. PICK c \in Conns : Connected(c)
    BY <1>5 DEF Dialled
  <2>2. task'["measure"] = "assess" /\ basis'["alice"] = NoBasis
    BY <1>0, <2>1 DEF Connected, Goto
  <2> QED BY <2>2 DEF AliceFresh, Fresh, NoBasis, Pausing
<1>6. CASE DialFails
  <2>1. UNCHANGED <<task, basis, conn>>
    BY <1>6 DEF DialFails, ConnectFails, ConnectAbandoned, Restricts, core, aliceVars, hist
  <2>2. gate'["alice"] \in {gate["alice"], "RESTRICTED"}
    BY <1>0, <1>6 DEF DialFails, ConnectFails, ConnectAbandoned, Restricts, core
  <2> QED BY <2>1, <2>2 DEF AliceFresh, Fresh
<1>7. CASE AliceDisconnectBegins
  <2>1. UNCHANGED <<basis, conn, gate>> /\ task' = [t \in Tasks |-> "off"]
    BY <1>7 DEF AliceDisconnectBegins, hist
  <2>2. task'["measure"] = "off"
    BY <1>0, <2>1
  <2> QED BY <2>1, <2>2 DEF AliceFresh, Fresh, Pausing, Leaving
<1> QED BY <1>1, <1>2, <1>3, <1>4, <1>5, <1>6, <1>7 DEF AliceStep

-------------------------------------------------------------------------------
(* The numbers, over every step                                               *)

(* What a step of Bob does to the connections waiting at his server           *)
LEMMA BobStepCands ==
  ASSUME IType, BobStep
  PROVE  \/ conn'["bob"] \in {conn["bob"], 0} /\ \A c \in Conns : cand'[c] \in {cand[c], NoCand}
         \/ \E c \in Conns :
               /\ cand[c].pc # "none" /\ \A d \in Conns \ {c} : cand'[d] = cand[d]
               /\ \/ conn'["bob"] = conn["bob"]
                  \/ conn'["bob"] = c /\ cand'[c].pc = "none"
<1>0. /\ TypeOK /\ SeatOK /\ Wires(link, Spoken) /\ Held(reader, Spoken) /\ CoreOK /\ BobTypeOK
      /\ "bob" \in Role /\ conn \in [Role -> Refs] /\ cand \in [Conns -> Cands]
  BY TypeParts DEF IType, EndpointOK, CoreOK, BobTypeOK, Cands, Role
<1>1. CASE Listens \/ BobDisconnectBegins
  BY <1>0, <1>1 DEF Listens, StartServer, BobDisconnectBegins, SendShutdown, bobVars
<1>2. CASE OwnStep("bob")
  <2>1. conn' = conn
    BY <1>0, <1>2, OwnStepConn
  <2>2. UNCHANGED bobVars \/ BobDisconnectEnds
    BY <1>2, BobReadsOne DEF OwnStep, Answers, CommandStep, Reads, BobReads, ProofHandled,
        TabCloses,
       Timeouts, ReservationExpires, OfEither
  <2>3. \A c \in Conns : cand'[c] \in {cand[c], NoCand}
    BY <2>2 DEF bobVars, BobDisconnectEnds
  <2> QED BY <2>1, <2>3
<1>3. ASSUME NEW c \in Conns, Admits(c)
      PROVE  /\ cand[c].pc # "none" /\ \A d \in Conns \ {c} : cand'[d] = cand[d]
             /\ \/ conn'["bob"] = conn["bob"]
                \/ conn'["bob"] = c /\ cand'[c].pc = "none"
  <2>1. cand[c].pc # "none"
    BY <1>3 DEF Admits, Accept, Admit, CandidateEnds
  <2>2. \E k : cand' = [cand EXCEPT ![c] = k]
    BY <1>3 DEF Admits, Accept, Admit, CandidateEnds, Leave
  <2>3. conn' = conn \/ (Leave(c) /\ conn' = [conn EXCEPT !["bob"] = c])
    BY <1>3, Zenon DEF Admits, Accept, Admit, CandidateEnds, AttachBob
  <2> QED BY <1>0, <2>1, <2>2, <2>3 DEF Leave, NoCand
<1> QED BY <1>1, <1>2, <1>3 DEF BobStep, Admission

(* Every step only uses numbers that were given out.                          *)
LEMMA NextNumbers ==
  ASSUME IType, IdleOK, NoBurst, MaxBursts = 0, NumbersOK, [Next]_vars
  PROVE  NumbersOK' /\ NoBurst'
<1>0. /\ TypeOK /\ SeatOK /\ Wires(link, Spoken) /\ Held(reader, Spoken)
      /\ "alice" \in Role /\ "bob" \in Role /\ Role = {"alice", "bob"}
      /\ CountOK /\ TaskOK /\ BobTypeOK /\ cand \in [Conns -> Cands]
  BY TypeParts DEF IType, EndpointOK, AliceOK, BobTypeOK, Cands, Role
<1>1. /\ conns \in Nat /\ ids \in Nat /\ \A r \in Role : conn[r] \in Nat
      /\ via["measure"] \in Nat /\ asked.id \in Nat /\ approved \in Nat /\ basis["alice"].on \in Nat
  BY <1>0, TypeParts, EndpointAssumption DEF IType, EndpointOK, AliceOK, CountOK, CoreOK, TaskOK,
      RetryOK,
     HistOK, Bases, Refs, Tasks
<1>2. \A c \in Conns : c \in Nat \ {0}
  BY EndpointAssumption DEF Conns
<1>3. CASE AliceStep
  <2>1. Counted
    BY <1>3, AliceCounted
  <2>2. conn'["bob"] = conn["bob"]
    BY <1>0, <1>3, AliceStepStill DEF Still, CoreStill
  <2>3. /\ via'["measure"] <= conns' /\ conn'["alice"] <= conns' /\ conn'["bob"] <= conns'
        /\ basis'["alice"].on <= conns' /\ asked'.id <= ids' /\ approved' <= ids'
    BY <1>0, <1>1, <2>1, <2>2 DEF Counted, NumbersOK
  <2>4. ASSUME NEW c \in Conns, cand'[c].pc # "none" PROVE c <= conns' /\ c # conn'["bob"]
    <3>1. CASE UNCHANGED bobVars
      BY <1>1, <1>2, <2>1, <2>2, <2>4, <3>1 DEF bobVars, Counted, NumbersOK
    <3>2. ASSUME NEW d \in Conns, Established(d) PROVE c <= conns' /\ c # conn'["bob"]
      <4>1. /\ d = conns + 1 /\ conns' = d /\ cand' = [cand EXCEPT ![d].pc = "arrived"]
        BY <3>2 DEF Established, Arrives
      <4>2. CASE c = d
        BY <1>0, <1>1, <2>2, <4>1, <4>2 DEF NumbersOK
      <4>3. CASE c # d
        <5>1. cand'[c] = cand[c]
          BY <1>0, <4>1, <4>3
        <5> QED BY <1>0, <1>1, <1>2, <2>2, <2>4, <4>1, <5>1 DEF NumbersOK
      <4> QED BY <4>2, <4>3
    <3> QED BY <1>0, <1>3, <3>1, <3>2, AliceStepStill
  <2>5. task'["burst"] = "off"
    BY <2>1 DEF Counted, NoBurst
  <2> QED BY <1>0, <2>3, <2>4, <2>5 DEF NumbersOK, NoBurst
<1>4. CASE BobStep
  <2>1. /\ UNCHANGED aliceVars /\ UNCHANGED <<conns, ids>> /\ conn'["alice"] = conn["alice"]
        /\ basis'["alice"] = basis["alice"]
    BY <1>0, <1>4, BobStepStill DEF Still, CoreStill, RestStill
  <2>2. /\ conn'["bob"] <= conns
        /\ \A c \in Conns : cand'[c].pc # "none" => c <= conns /\ c # conn'["bob"]
    <3>1. CASE conn'["bob"] \in {conn["bob"], 0} /\ \A c \in Conns : cand'[c] \in {cand[c], NoCand}
      BY <1>0, <1>1, <1>2, <3>1 DEF NumbersOK, NoCand
    <3>2. ASSUME NEW c \in Conns, cand[c].pc # "none", \A d \in Conns \ {c} : cand'[d] = cand[d],
                 \/ conn'["bob"] = conn["bob"]
                 \/ conn'["bob"] = c /\ cand'[c].pc = "none"
          PROVE  /\ conn'["bob"] <= conns
                 /\ \A d \in Conns : cand'[d].pc # "none" => d <= conns /\ d # conn'["bob"]
      BY <1>0, <3>2 DEF NumbersOK
    <3> QED BY <1>4, <3>1, <3>2, BobStepCands
  <2> QED BY <1>0, <2>1, <2>2 DEF aliceVars, NumbersOK, NoBurst
<1>5. CASE UNCHANGED vars
  BY <1>5 DEF vars, endpointVars, core, hist, aliceVars, bobVars, NumbersOK, NoBurst
<1> QED BY <1>3, <1>4, <1>5, NextIsOf

-------------------------------------------------------------------------------
(* Bob's side: what a step does to his gate, his connection and what he is    *)
(* comparing.                                                                 *)

(* He goes on with the same connection: at most his gate closes, or opens     *)
(* after a recovery, or what was pending ends.                                *)
BobStays ==
    /\ conn'["bob"] = conn["bob"] /\ basis'["bob"] = basis["bob"]
    /\ dual'["bob"].id \in {dual["bob"].id, 0}
    /\ server' = server \/ dual'["bob"].id = 0
    /\ \/ gate'["bob"] \in {"RESTRICTED", "CLOSED"}
       \/ gate'["bob"] = gate["bob"] /\ resume'.id = resume.id
       \/ gate["bob"] = "VERIFYING" /\ gate'["bob"] = "ACTIVE"

(* His server starts.                                                         *)
BobListens ==
    /\ ~server /\ gate'["bob"] \in {"CONNECTING", "CLOSED"} /\ conn'["bob"] = 0
    /\ dual'["bob"] = dual["bob"] /\ basis'["bob"] = basis["bob"]

(* A first connection is accepted.                                            *)
BobAccepts(c) ==
    /\ gate["bob"] = "CONNECTING" /\ gate'["bob"] = "VERIFYING" /\ conn'["bob"] = c
    /\ dual'["bob"] = dual["bob"] /\ basis'["bob"] = NoBasis /\ server' = server

(* A recovered one is, for the proof that it is the recovery he reserved.     *)
BobAdmits(c) ==
    /\ gate["bob"] = "RECONNECTING" /\ gate'["bob"] = "VERIFYING" /\ conn'["bob"] = c
    /\ dual'["bob"] = dual["bob"] /\ basis'["bob"] = basis["bob"] /\ server' = server
    /\ cand[c].pc # "none" /\ link[c].wire["bob"] # <<>>
    /\ LET m == Head(link[c].wire["bob"])
       IN  m.type = "verification_result" /\ m.flag /\ m.id = resume.id

(* He begins the comparison that m asks for.                                  *)
BobAsked(m) ==
    /\ m.type = "verify_request" /\ gate'["bob"] = "VERIFYING"
    /\ gate["bob"] \in {"ACTIVE", "VERIFYING"}
    /\ dual'["bob"].id = m.id /\ conn'["bob"] = conn["bob"] /\ basis'["bob"] = basis["bob"]
    /\ server' = server

(* He goes by the result m.                                                   *)
BobConcludes(m) ==
    /\ ResultAgrees(m) /\ gate'["bob"] = AfterResult(m)
    /\ m.flag => resume'.id = m.id
    /\ dual'["bob"].id = 0 /\ conn'["bob"] = conn["bob"] /\ server' = server
    /\ basis'["bob"] = [id |-> m.id, on |-> conn["bob"], recovery |-> m.flag]

(* The ways in which he closes his gate                                       *)
LEMMA RestrictsBob ==
  ASSUME IType, NEW l, Restricts("bob", l), basis' = basis
  PROVE  BobStays
<1>1. CoreOK /\ "bob" \in Role
  BY TypeParts DEF IType, EndpointOK, Role
<1> QED BY <1>1 DEF Restricts, CoreOK, NoDual, BobStays

(* A frame that he refuses, or a send that fails, at most closes it.          *)
LEMMA RefusesBob ==
  ASSUME IType, NEW l, Refuse("bob", l) \/ (ReaderRaises("bob", l) /\ basis' = basis), server' = server
  PROVE  BobStays
<1>1. ReaderRaises("bob", l) /\ basis' = basis
  BY DEF Refuse
<1>2. Restricts("bob", l) \/ UNCHANGED <<gate, conn, dual, resume>>
  BY <1>1 DEF ReaderRaises
<1>3. CASE UNCHANGED <<gate, conn, dual, resume>>
  BY <1>1, <1>3 DEF BobStays
<1> QED BY <1>1, <1>2, <1>3, RestrictsBob

(* Each of his handlers                                                       *)
LEMMA BobHandleMovesGate ==
  ASSUME IType, NEW m \in Message, NEW l, m.type \notin {"none", "pong"}, BobHandle(m, l),
         server' = server
  PROVE  BobStays \/ BobAsked(m) \/ BobConcludes(m) \/ m.type = "demo_mode"
<1>0. /\ CoreOK /\ HistOK /\ "bob" \in Role /\ "alice" \in Role /\ gate \in [Role -> State]
      /\ dual \in [Role -> Dual] /\ basis \in [Role -> Bases] /\ resume \in Resumes
  BY TypeParts DEF IType, EndpointOK, CoreOK, HistOK, Role
<1>1. CASE Refuse("bob", l)
  BY <1>1, RefusesBob
<1>2. CASE UNCHANGED <<gate, conn, dual, basis>> /\ resume'.id = resume.id
  BY <1>2 DEF BobStays
<1>3. CASE BobVerifyRequest(m, l) /\ m.type = "verify_request"
  <2>1. CASE /\ gate["bob"] \in {"ACTIVE", "VERIFYING"} /\ BeginVerification("bob", m.id, m.flag)
             /\ UNCHANGED <<conn, basis>>
    BY <1>0, <1>3, <2>1 DEF BeginVerification, NewDual, BobAsked
  <2> QED BY <1>1, <1>3, <2>1 DEF BobVerifyRequest, hist
<1>4. CASE HandleResponse("bob", m, l)
  <2>1. CASE Restricts("bob", l) /\ UNCHANGED hist
    BY <2>1, RestrictsBob DEF hist
  <2>2. CASE /\ dual' = [dual EXCEPT !["bob"] = Decided(dual["bob"], Peer("bob"), m.flag)]
             /\ UNCHANGED <<gate, conn, resume>> /\ UNCHANGED hist
    <3>1. Decided(dual["bob"], Peer("bob"), m.flag).id = dual["bob"].id
      BY <1>0 DEF Decided, Dual
    <3>2. dual'["bob"].id = dual["bob"].id
      BY <1>0, <2>2, <3>1
    <3> QED BY <2>2, <3>2 DEF BobStays, hist
  <2> QED BY <1>1, <1>4, <2>1, <2>2, Zenon DEF HandleResponse
<1>5. CASE BobResult(m, l)
  <2>1. CASE /\ ResultAgrees(m) /\ CanMove(gate["bob"], AfterResult(m))
    <3>1. /\ gate' = [gate EXCEPT !["bob"] = AfterResult(m)]
          /\ resume' = IF m.flag THEN [id |-> m.id, confirmed |-> FALSE] ELSE resume
          /\ dual' = [dual EXCEPT !["bob"] = NoDual] /\ conn' = conn
          /\ basis' = [basis EXCEPT !["bob"] = [id |-> m.id, on |-> conn["bob"], recovery |-> m.flag]]
      BY <1>5, <2>1, Zenon DEF BobResult
    <3>2. gate'["bob"] = AfterResult(m) /\ dual'["bob"].id = 0
      BY <1>0, <3>1 DEF NoDual
    <3>3. basis'["bob"] = [id |-> m.id, on |-> conn["bob"], recovery |-> m.flag]
      BY <1>0, <3>1
    <3>4. m.flag => resume'.id = m.id
      BY <3>1
    <3> QED BY <2>1, <3>1, <3>2, <3>3, <3>4 DEF BobConcludes
  <2>2. CASE Proves(conn["bob"], l) /\ UNCHANGED <<gate, conn, dual>> /\ UNCHANGED hist
    <3>1. resume'.id = resume.id
      BY <1>0, <2>2 DEF Proves, Resumes
    <3> QED BY <1>2, <2>2, <3>1 DEF hist
  <2> QED BY <1>1, <1>5, <2>1, <2>2, Zenon DEF BobResult
<1>6. CASE BobPing(l) \/ BobReconnect(l)
  <2>1. CASE ReaderRaises("bob", l) /\ UNCHANGED hist
    BY <2>1, RefusesBob DEF hist
  <2> QED BY <1>1, <1>2, <1>6, <2>1 DEF BobPing, BobReconnect, hist
<1>7. CASE BobReady(l)
  <2>1. CASE /\ gate["bob"] = "VERIFYING" /\ gate' = [gate EXCEPT !["bob"] = "ACTIVE"]
             /\ UNCHANGED <<conn, dual, basis>>
    BY <1>0, <2>1 DEF BobStays
  <2> QED BY <1>1, <1>7, <2>1 DEF BobReady, hist
<1>8. CASE HandleShutdown("bob", l)
  BY <1>8, RestrictsBob DEF HandleShutdown, hist
<1> QED BY <1>3, <1>4, <1>5, <1>6, <1>7, <1>8, BobHandleCases

(* Every step of the system                                                   *)
LEMMA NextBob ==
  ASSUME IType, [Next]_vars
  PROVE  \/ BobStays \/ BobListens
         \/ \E c \in Conns : BobAccepts(c) \/ BobAdmits(c)
         \/ \E m \in Message, l \in Links :
               Delivered("bob", m, l) /\ (BobAsked(m) \/ BobConcludes(m) \/ m.type = "demo_mode")
<1>0. /\ TypeOK /\ SeatOK /\ Wires(link, Spoken) /\ Held(reader, Spoken) /\ CoreOK /\ HistOK
      /\ "bob" \in Role /\ gate \in [Role -> State] /\ dual \in [Role -> Dual]
      /\ conn \in [Role -> Refs] /\ basis \in [Role -> Bases]
  BY TypeParts DEF IType, EndpointOK, CoreOK, HistOK, Role
<1>1. ASSUME gate'["bob"] = gate["bob"], conn'["bob"] = conn["bob"], dual'["bob"] = dual["bob"],
             basis'["bob"] = basis["bob"], resume' = resume, server' = server
      PROVE  BobStays
  BY <1>1 DEF BobStays
<1>2. CASE UNCHANGED vars
  BY <1>1, <1>2 DEF vars, endpointVars, core, hist, bobVars
<1>3. CASE AliceStep
  BY <1>0, <1>1, <1>3, AliceStepStill DEF Still, CoreStill, RestStill, bobVars, Established, Arrives
<1>4. CASE Listens
  BY <1>0, <1>4 DEF Listens, StartServer, hist, BobListens
<1>5. CASE BobDisconnectBegins
  BY <1>1, <1>5 DEF BobDisconnectBegins, SendShutdown, bobVars, hist
<1>6. ASSUME NEW c \in Conns, Admits(c)
      PROVE  BobStays \/ BobAccepts(c) \/ BobAdmits(c)
  <2>1. dual' = dual /\ server' = server
    BY <1>6 DEF Admits, Accept, Admit, CandidateEnds
  <2>2. CASE UNCHANGED <<gate, conn, resume, basis>>
    BY <1>1, <2>1, <2>2
  <2>3. CASE Accept(c)
    <3>1. resume' = resume
      BY <2>3 DEF Accept
    <3>2. CASE AttachBob(c, "recv") /\ gate["bob"] = "CONNECTING" /\ basis' = [basis EXCEPT !["bob"] = NoBasis]
      BY <1>0, <2>1, <3>2 DEF AttachBob, BobAccepts
    <3> QED BY <2>2, <2>3, <3>1, <3>2, Zenon DEF Accept
  <2>4. CASE Admit(c)
    <3> DEFINE m == Head(link[c].wire["bob"])
    <3>1. cand[c].pc = "proof" /\ link[c].wire["bob"] # <<>> /\ basis' = basis
      BY <2>4 DEF Admit, hist
    <3>2. CASE Admissible(c, m)
      <4>1. AttachBob(c, "ready")
        BY <2>4, <3>2, Zenon DEF Admit
      <4>2. gate'["bob"] = "VERIFYING" /\ conn'["bob"] = c
        BY <1>0, <4>1 DEF AttachBob
      <4>3. m.type = "verification_result" /\ m.flag /\ m.id = resume.id /\ gate["bob"] = "RECONNECTING"
        BY <3>2 DEF Admissible
      <4> QED BY <2>1, <3>1, <4>2, <4>3 DEF BobAdmits
    <3>3. CASE UNCHANGED <<gate, conn, resume>>
      BY <2>2, <3>1, <3>3
    <3> QED BY <2>4, <3>2, <3>3, Zenon DEF Admit
  <2>5. CASE CandidateEnds(c)
    BY <2>2, <2>5 DEF CandidateEnds, hist
  <2> QED BY <1>6, <2>3, <2>4, <2>5 DEF Admits
<1>7. CASE OwnStep("bob") /\ ~(BobReceives \/ BobGetsLock)
  <2>1. conn' = conn
    BY <1>0, <1>7, OwnStepConn
  <2>2. ASSUME NEW k, Restricts("bob", k), basis' = basis PROVE BobStays
    BY <2>2, RestrictsBob
  <2>3. CASE Answers("bob")
    <3>1. PICK id \in 1 .. ids, match \in BOOLEAN : Confirm("bob", id, match)
      BY <2>3 DEF Answers
    <3>2. basis' = basis /\ server' = server
      BY <2>3, <3>1 DEF Answers, OfEither, bobVars, Confirm
    <3>3. Restricts("bob", link) \/ UNCHANGED <<gate, dual, resume>>
      BY <3>1, Zenon DEF Confirm
    <3> QED BY <1>1, <2>1, <2>2, <3>2, <3>3
  <2>4. CASE BobDisconnectEnds
    <3>1. basis' = basis /\ gate'["bob"] = "CLOSED" /\ dual'["bob"].id = 0
      BY <1>0, <2>4 DEF BobDisconnectEnds, DisconnectEnds, hist, NoDual
    <3> QED BY <2>1, <3>1 DEF BobStays
  <2>5. CASE Decide("bob")
    <3>1. basis' = basis /\ server' = server
      BY <1>7, <2>5 DEF Decide, OwnStep, CommandStep, Answers, Reads, TabCloses, Timeouts, OfBob,
         OfEither, bobVars, BobDisconnectEnds, BobReads, ProofHandled, ReservationExpires, hist,
         DisconnectEnds
    <3>2. CASE dual' = [dual EXCEPT !["bob"] = Decided(@, "bob", cmd["bob"].match)]
               /\ UNCHANGED <<gate, resume>>
      <4>1. Decided(dual["bob"], "bob", cmd["bob"].match).id = dual["bob"].id
        BY <1>0 DEF Decided, Dual
      <4>2. dual'["bob"].id = dual["bob"].id
        BY <1>0, <3>2, <4>1
      <4> QED BY <2>1, <3>1, <3>2, <4>2 DEF BobStays
    <3>3. CASE UNCHANGED core
      BY <1>1, <3>1, <3>3 DEF core
    <3> QED BY <2>2, <2>5, <3>1, <3>2, <3>3, Zenon DEF Decide
  <2>6. CASE TabCloses("bob") \/ Timeouts("bob")
    <3>1. basis' = basis /\ server' = server
      BY <2>6 DEF TabCloses, ConfirmAbandoned, DisconnectAbandoned, Timeouts, VerificationEnds,
         ReservationExpires, OfEither, OfBob, bobVars, hist
    <3>2. Restricts("bob", link) \/ UNCHANGED <<gate, dual, resume>>
      BY <2>6 DEF TabCloses, ConfirmAbandoned, DisconnectAbandoned, Timeouts, VerificationEnds,
         ReservationExpires
    <3> QED BY <1>1, <2>1, <2>2, <3>1, <3>2
  <2>7. CASE LinkFails("bob", conn["bob"]) /\ OfEither
    BY <1>1, <2>7 DEF LinkFails, OfEither, bobVars, hist
  <2>8. CASE (ReaderSeesClose("bob") \/ ReaderSent("bob") \/ EndOfStream("bob")) /\ OfEither
    <3>1. basis' = basis /\ server' = server
      BY <2>8 DEF ReaderSeesClose, ReaderSent, EndOfStream, LinkFails, OfEither, bobVars, hist
    <3>2. Restricts("bob", link) \/ UNCHANGED <<gate, dual, resume>>
      BY <2>8 DEF ReaderSeesClose, ReaderSent, EndOfStream, LinkFails, ReaderRaises, core
    <3> QED BY <1>1, <2>1, <2>2, <3>1, <3>2
  <2>9. CASE ProofHandled
    BY <1>1, <2>9 DEF ProofHandled, core, bobVars, hist
  <2> QED BY <1>7, <2>3, <2>4, <2>5, <2>6, <2>7, <2>8, <2>9
          DEF OwnStep, Reads, BobReads, CommandStep
<1>8. CASE BobReceives \/ BobGetsLock
  <2>1. PICK m, l : Delivered("bob", m, l) /\ (BobHandle(m, l) \/ Postpones("bob", l))
    BY <1>8, BobReadsOne
  <2>2. m \in Message /\ l \in Links /\ m.type \notin {"none", "pong"}
    BY <2>1, DeliveredSpoken
  <2>3. server' = server
    BY <1>8, BobReadsOne DEF bobVars
  <2>4. CASE Postpones("bob", l)
    BY <1>1, <2>3, <2>4 DEF Postpones, hist
  <2> QED BY <2>1, <2>2, <2>3, <2>4, BobHandleMovesGate
<1> QED BY <1>2, <1>3, <1>4, <1>5, <1>6, <1>7, <1>8, NextIsOf DEF BobStep, Admission

-------------------------------------------------------------------------------
(* The order in which Alice numbers what she sends.  mark: no result she sent *)
(* on a connection is for a later request than its mark.  top: she asked on   *)
(* no later connection.                                                       *)

(* Request id was made on connection c: every result on an earlier one is of  *)
(* an earlier request.                                                        *)
OrderedAt(c, id, mark, top) == c <= top /\ \A e \in Conns : e < c => mark[e] < id

(* The frames that such a peer sends                                          *)
Ordered(mark, top) ==
    [c \in Refs |-> [r \in Role |->
        {m \in Message : r = "bob" =>
            /\ m.type # "demo_mode"
            /\ m.type = "verify_request" => OrderedAt(c, m.id, mark, top)
            /\ m.type = "verification_result" /\ m.flag => m.id <= mark[c]}]]

(* Everything on its way to Bob, and all that he keeps, is in that order.     *)
OrderOK(mark, top) ==
    /\ top <= conns /\ (conn["alice"] # 0 => top <= conn["alice"])
    /\ \A c \in Conns : mark[c] <= ids
    /\ Wires(link, Ordered(mark, top)) /\ Held(reader, Ordered(mark, top))
    /\ dual["bob"].id # 0 => OrderedAt(conn["bob"], dual["bob"].id, mark, top)
    /\ gate["bob"] = "RECONNECTING" => OrderedAt(conn["bob"], resume.id, mark, top)

(* There are such marks.                                                      *)
InOrder == \E mark \in [Refs -> 0 .. MaxIds], top \in Refs : OrderOK(mark, top)

(* Bob's gate, and the connection it is to open on                            *)
BobFresh ==
    /\ gate["bob"] \in {"ACTIVE", "VERIFYING"} => Fresh("bob")
    /\ gate["bob"] = "RECONNECTING" /\ basis["bob"].recovery => conn["bob"] >= basis["bob"].on
    /\ gate["bob"] \in {"CONNECTING", "RECONNECTING"} \/ ~server => dual["bob"].id = 0

(* The marks after a step: what Alice is now connected with may carry results *)
(* of every request she has made.                                             *)
MarkAfter(mark) ==
    IF conn'["alice"] # 0 THEN [mark EXCEPT ![conn'["alice"]] = ids'] ELSE mark
(* The connection she asks on is the one she has now.                         *)
TopAfter(top) == IF conn'["alice"] # 0 THEN conn'["alice"] ELSE top

(* They only grow, and only where no request has been ordered.                *)
LEMMA MarksGrow ==
  ASSUME IType, IdleOK, NoBurst, MaxBursts = 0, NumbersOK, [Next]_vars,
         NEW mark \in [Refs -> 0 .. MaxIds], NEW top \in Refs, OrderOK(mark, top)
  PROVE  /\ ids' \in {ids, ids + 1} /\ ids \in Nat
         /\ MarkAfter(mark) \in [Refs -> 0 .. MaxIds] /\ TopAfter(top) \in Refs
         /\ top <= TopAfter(top) /\ TopAfter(top) <= conns'
         /\ conn'["alice"] # 0 => TopAfter(top) = conn'["alice"] /\ MarkAfter(mark)[conn'["alice"]] = ids'
         /\ \A e \in Conns : mark[e] <= MarkAfter(mark)[e] /\ MarkAfter(mark)[e] <= ids'
         /\ \A e \in Conns : e < TopAfter(top) => MarkAfter(mark)[e] = mark[e]
<1>0. /\ TypeOK /\ SeatOK /\ Wires(link, Spoken) /\ Held(reader, Spoken) /\ "alice" \in Role
      /\ conns \in Refs /\ ids \in 0 .. MaxIds /\ conn \in [Role -> Refs]
  BY TypeParts DEF IType, EndpointOK, CountOK, CoreOK, Role
<1>1. conns' \in Refs /\ ids' \in 0 .. MaxIds /\ conn' \in [Role -> Refs]
  BY NextIType, TypeParts DEF IType, EndpointOK, CountOK, CoreOK
<1>2. Refs \subseteq Nat /\ (\A e \in Conns : e \in Refs /\ e # 0) /\ \A e \in Refs : mark[e] \in Nat
  <2>1. \A n \in 0 .. MaxIds : n \in Nat
    BY EndpointAssumption
  <2>2. \A e \in Refs : mark[e] \in 0 .. MaxIds
    OBVIOUS
  <2> QED BY <2>1, <2>2, EndpointAssumption DEF Refs, Conns
<1>3. /\ conns' \in {conns, conns + 1} /\ ids' \in {ids, ids + 1}
      /\ \/ conn'["alice"] = conn["alice"]
         \/ conn'["alice"] = 0
         \/ conns' = conns + 1 /\ conn'["alice"] = conns + 1
  <2>1. CASE AliceStep
    BY <2>1, AliceCounted DEF Counted
  <2>2. CASE BobStep
    BY <1>0, <2>2, BobStepStill DEF Still, CoreStill
  <2>3. CASE UNCHANGED vars
    BY <2>3 DEF vars, endpointVars, core
  <2> QED BY <2>1, <2>2, <2>3, NextIsOf
<1>4. /\ top <= conns /\ (conn["alice"] # 0 => top <= conn["alice"]) /\ conn["alice"] <= conns
      /\ \A c \in Conns : mark[c] <= ids
  BY <1>0 DEF OrderOK, NumbersOK
<1>5. CASE conn'["alice"] = 0
  <2>1. MarkAfter(mark) = mark /\ TopAfter(top) = top
    BY <1>5 DEF MarkAfter, TopAfter
  <2>2. \A e \in Conns : mark[e] \in Nat
    BY <1>2
  <2> QED BY <1>0, <1>1, <1>2, <1>3, <1>4, <1>5, <2>1, <2>2
<1>6. CASE conn'["alice"] # 0
  <2>1. PICK c \in Refs : c = conn'["alice"]
    BY <1>0, <1>1
  <2>2. MarkAfter(mark) = [mark EXCEPT ![c] = ids'] /\ TopAfter(top) = c
    BY <1>6, <2>1 DEF MarkAfter, TopAfter
  <2>3. top <= c /\ c <= conns'
    BY <1>0, <1>1, <1>2, <1>3, <1>4, <1>6, <2>1
  <2>4. [mark EXCEPT ![c] = ids'] \in [Refs -> 0 .. MaxIds]
    BY <1>1
  <2>5. \A e \in Conns : [mark EXCEPT ![c] = ids'][e] = IF e = c THEN ids' ELSE mark[e]
    BY <1>2
  <2>6. [mark EXCEPT ![c] = ids'][c] = ids'
    OBVIOUS
  <2>7. \A e \in Conns : mark[e] \in Nat /\ mark[e] <= ids /\ e \in Nat
    BY <1>2, <1>4
  <2>8. ids \in Nat /\ ids' \in Nat
    BY <1>0, <1>1
  <2>9. /\ \A e \in Conns : mark[e] <= MarkAfter(mark)[e] /\ MarkAfter(mark)[e] <= ids'
        /\ \A e \in Conns : e < TopAfter(top) => MarkAfter(mark)[e] = mark[e]
    BY <1>2, <1>3, <2>2, <2>5, <2>7, <2>8
  <2> QED BY <1>3, <2>1, <2>2, <2>3, <2>4, <2>6, <2>8, <2>9
<1> QED BY <1>5, <1>6

(* Growing marks keep every order there was.                                  *)
LEMMA OrderGrows ==
  ASSUME NEW mark, NEW top \in Nat, NEW mark2, NEW top2 \in Nat, NEW c \in Nat, NEW id,
         top <= top2, \A e \in Conns : e < top2 => mark2[e] = mark[e],
         OrderedAt(c, id, mark, top)
  PROVE  OrderedAt(c, id, mark2, top2)
<1>1. c <= top2 /\ \A e \in Conns : e < c => e < top2
  BY EndpointAssumption DEF OrderedAt, Conns
<1> QED BY <1>1 DEF OrderedAt

(* The frames such a peer sends are still those of one with larger marks.     *)
LEMMA OrderedGrows ==
  ASSUME NEW mark \in [Refs -> 0 .. MaxIds], NEW top \in Refs,
         NEW mark2 \in [Refs -> 0 .. MaxIds], NEW top2 \in Refs, top <= top2,
         \A e \in Conns : mark[e] <= mark2[e], \A e \in Conns : e < top2 => mark2[e] = mark[e],
         NEW c \in Refs, NEW r \in Role, r = "alice" \/ c \in Conns
  PROVE  Ordered(mark, top)[c][r] \subseteq Ordered(mark2, top2)[c][r]
<1>0. c \in Nat /\ top \in Nat /\ top2 \in Nat /\ mark[c] \in Nat /\ mark2[c] \in Nat
  BY EndpointAssumption DEF Refs
<1> SUFFICES ASSUME r = "bob", NEW m \in Ordered(mark, top)[c][r]
             PROVE  m \in Ordered(mark2, top2)[c][r]
  BY DEF Ordered, Role
<1>1. m \in Message /\ m.id \in Nat
  BY EndpointAssumption DEF Ordered, Message
<1>2. m.type # "demo_mode"
  BY DEF Ordered
<1>3. m.type = "verify_request" => OrderedAt(c, m.id, mark2, top2)
  <2>1. m.type = "verify_request" => OrderedAt(c, m.id, mark, top)
    BY DEF Ordered
  <2> QED BY <1>0, <2>1, OrderGrows
<1>4. m.type = "verification_result" /\ m.flag => m.id <= mark2[c]
  <2>1. m.type = "verification_result" /\ m.flag => m.id <= mark[c]
    BY DEF Ordered
  <2> QED BY <1>0, <1>1, <2>1
<1> QED BY <1>1, <1>2, <1>3, <1>4 DEF Ordered

(* What Alice sends in a step is in that order.                               *)
LEMMA OrderedAllows ==
  ASSUME IType, NoBurst, ids' \in 0 .. MaxIds, ids <= ids', asked.id <= ids, approved <= ids,
         NEW mark \in [Refs -> 0 .. MaxIds], NEW top \in Refs,
         conn'["alice"] # 0 => top = conn'["alice"] /\ mark[conn'["alice"]] = ids',
         \A e \in Conns : e < top => mark[e] <= ids
  PROVE  Speech(Ordered(mark, top))
<1> DEFINE S == Ordered(mark, top)
<1>0. /\ ids \in 0 .. MaxIds /\ asked.id \in 0 .. MaxIds /\ Conns \subseteq Refs
      /\ asked.recovery \in BOOLEAN /\ approved \in 0 .. MaxIds /\ 0 .. MaxIds \subseteq Nat
      /\ "alice" \in Role /\ "bob" \in Role
  BY TypeParts, EndpointAssumption DEF IType, EndpointOK, CountOK, AliceOK, TaskOK, RetryOK, Conns,
     Refs, Role
<1>1. \A c \in Conns, m \in Message : m \in S[c]["alice"]
  BY <1>0 DEF Ordered
<1>2. \A c \in Conns, m \in Message :
         m.type \notin {"demo_mode", "verify_request", "verification_result"} => m \in S[c]["bob"]
  BY <1>0 DEF Ordered
<1>3. \A c \in Conns, m \in Message :
         m.type = "verify_request" /\ OrderedAt(c, m.id, mark, top) => m \in S[c]["bob"]
  BY <1>0 DEF Ordered
<1>4. \A c \in Conns, m \in Message :
         m.type = "verification_result" /\ m.id <= mark[c] => m \in S[c]["bob"]
  BY <1>0 DEF Ordered
<1> HIDE DEF S
<1>5. \A c \in Conns :
        /\ {Notice("ping"), Notice("ready"), Notice("reconnect"), Notice("shutdown")} \subseteq S[c]["bob"]
        /\ {Notice("pong"), Notice("ready"), Notice("shutdown")} \subseteq S[c]["alice"]
  <2>1. \A type \in {"ping", "pong", "ready", "reconnect", "shutdown"} :
           Notice(type) \in Message /\ Notice(type).type = type
    BY ValuesOK
  <2> HIDE DEF Notice
  <2>2. \A type \in {"ping", "pong", "ready", "reconnect", "shutdown"}, c \in Conns :
           Notice(type) \in S[c]["bob"] /\ Notice(type) \in S[c]["alice"]
    BY <1>1, <1>2, <2>1
  <2> QED BY <2>2
<1>6. ASSUME NEW r \in Role, NEW id \in Ids, NEW match \in BOOLEAN, NEW c \in Conns
      PROVE  Msg("verify_response", id, match) \in S[c][Peer(r)]
  <2>1. /\ Msg("verify_response", id, match) \in Message
        /\ Msg("verify_response", id, match).type = "verify_response"
    BY ValuesOK, EndpointAssumption DEF Ids, Msg
  <2>2. Peer(r) = "alice" \/ Peer(r) = "bob"
    BY DEF Role, Peer
  <2> HIDE DEF Msg
  <2> QED BY <1>1, <1>2, <2>1, <2>2
<1>7. ASSUME conn'["alice"] \in Conns
      PROVE  /\ ids' = ids + 1 => \A recovery \in BOOLEAN :
                   Msg("verify_request", ids + 1, recovery) \in S[conn'["alice"]]["bob"]
             /\ Msg("verification_result", asked.id, asked.recovery) \in S[conn'["alice"]]["bob"]
             /\ Msg("verification_result", approved, TRUE) \in S[conn'["alice"]]["bob"]
  <2>1. PICK c \in Conns : c = conn'["alice"]
    BY <1>7
  <2>2. c # 0 /\ c \in Nat /\ top = c /\ mark[c] = ids'
    BY <2>1, EndpointAssumption DEF Conns
  <2>3. \A id \in 0 .. MaxIds, flag \in BOOLEAN, type \in {"verify_request", "verification_result"} :
          /\ Msg(type, id, flag) \in Message
          /\ Msg(type, id, flag).type = type /\ Msg(type, id, flag).id = id
    BY ValuesOK DEF Msg
  <2> HIDE DEF Msg
  <2>4. \A id \in 0 .. MaxIds, flag \in BOOLEAN :
           id <= ids => Msg("verification_result", id, flag) \in S[c]["bob"]
    BY <1>0, <1>4, <2>2, <2>3
  <2>5. ASSUME ids' = ids + 1 PROVE OrderedAt(c, ids + 1, mark, top) /\ ids + 1 \in 0 .. MaxIds
    <3>1. \A e \in Conns : e < c => mark[e] < ids + 1
      <4> SUFFICES ASSUME NEW e \in Conns, e < c PROVE mark[e] < ids + 1
        OBVIOUS
      <4>1. mark[e] \in Nat /\ mark[e] <= ids
        BY <1>0, <2>2
      <4> QED BY <1>0, <4>1
    <3>2. c <= top
      BY <2>2
    <3> QED BY <2>5, <3>1, <3>2 DEF OrderedAt
  <2>6. ASSUME ids' = ids + 1, NEW recovery \in BOOLEAN
        PROVE  Msg("verify_request", ids + 1, recovery) \in S[c]["bob"]
    BY <1>3, <2>3, <2>5, <2>6
  <2> QED BY <1>0, <2>1, <2>4, <2>6
<1>8. Speech(S)
  BY <1>5, <1>6, <1>7 DEF Speech, NoBurst
<1> QED BY <1>8 DEF S

(* What Bob compares, and what he reserves, stays in that order.              *)
LEMMA BobOrdered ==
  ASSUME IType, AnswersOK, BobFresh, [Next]_vars, NEW mark, NEW top,
         Wires(link, Ordered(mark, top)), Held(reader, Ordered(mark, top)),
         dual["bob"].id # 0 => OrderedAt(conn["bob"], dual["bob"].id, mark, top),
         gate["bob"] = "RECONNECTING" => OrderedAt(conn["bob"], resume.id, mark, top)
  PROVE  /\ dual'["bob"].id # 0 => OrderedAt(conn'["bob"], dual'["bob"].id, mark, top)
         /\ gate'["bob"] = "RECONNECTING" => OrderedAt(conn'["bob"], resume'.id, mark, top)
<1>0. EndpointOK /\ HistOK /\ "bob" \in Role /\ conn["bob"] \in Refs
  BY TypeParts DEF IType, EndpointOK, CoreOK, Role
<1>1. CASE BobStays
  BY <1>1 DEF BobStays
<1>2. CASE BobListens \/ \E c \in Conns : BobAccepts(c) \/ BobAdmits(c)
  BY <1>2 DEF BobListens, BobAccepts, BobAdmits, BobFresh
<1>3. ASSUME NEW m \in Message, NEW l \in Links, Delivered("bob", m, l),
             BobAsked(m) \/ BobConcludes(m) \/ m.type = "demo_mode"
      PROVE  /\ dual'["bob"].id # 0 => OrderedAt(conn'["bob"], dual'["bob"].id, mark, top)
             /\ gate'["bob"] = "RECONNECTING" => OrderedAt(conn'["bob"], resume'.id, mark, top)
  <2>1. m \in Ordered(mark, top)[conn["bob"]]["bob"]
    BY <1>0, <1>3, DeliveredOK, DeliveredSpoken
  <2>2. /\ m.type # "demo_mode"
        /\ m.type = "verify_request" => OrderedAt(conn["bob"], m.id, mark, top)
    BY <1>0, <2>1 DEF Ordered
  <2>3. CASE BobAsked(m)
    BY <2>2, <2>3 DEF BobAsked
  <2>4. CASE BobConcludes(m)
    <3>1. dual["bob"].id \in Ids /\ m.id = dual["bob"].id
      BY <1>0, <2>4 DEF BobConcludes, ResultAgrees, AnswersOK, HonestDual, HistOK
    <3>2. dual["bob"].id # 0
      BY <3>1, EndpointAssumption DEF Ids
    <3> QED BY <2>4, <3>1, <3>2 DEF BobConcludes, AfterResult
  <2> QED BY <1>3, <2>2, <2>3, <2>4
<1> QED BY <1>1, <1>2, <1>3, NextBob

(* Every step keeps the order.                                                *)
LEMMA NextOrder ==
  ASSUME IType, IdleOK, NoBurst, MaxBursts = 0, NumbersOK, AnswersOK, BobFresh, InOrder, [Next]_vars
  PROVE  InOrder'
<1>0. /\ TypeOK /\ SeatOK /\ Wires(link, Spoken) /\ Held(reader, Spoken)
      /\ Conns \subseteq Refs /\ "bob" \in Role /\ Refs \subseteq Nat
      /\ reader \in [Role -> Readers] /\ conn["bob"] \in Refs
  BY TypeParts, EndpointAssumption DEF IType, EndpointOK, CoreOK, ReaderOK, Role, Conns, Refs
<1>1. PICK mark \in [Refs -> 0 .. MaxIds], top \in Refs : OrderOK(mark, top)
  BY DEF InOrder
<1>2. PICK mark2, top2 : mark2 = MarkAfter(mark) /\ top2 = TopAfter(top)
  OBVIOUS
<1>3. /\ ids' \in {ids, ids + 1} /\ ids \in Nat
      /\ mark2 \in [Refs -> 0 .. MaxIds] /\ top2 \in Refs
      /\ top <= top2 /\ top2 <= conns'
      /\ conn'["alice"] # 0 => top2 = conn'["alice"] /\ mark2[conn'["alice"]] = ids'
      /\ \A e \in Conns : mark[e] <= mark2[e] /\ mark2[e] <= ids'
      /\ \A e \in Conns : e < top2 => mark2[e] = mark[e]
  BY <1>1, <1>2, MarksGrow
<1>4. PICK S : S = Ordered(mark2, top2)
  OBVIOUS
<1>5. \A c \in Refs, r \in Role : r = "alice" \/ c \in Conns => Ordered(mark, top)[c][r] \subseteq S[c][r]
  BY <1>3, <1>4, OrderedGrows
<1>6. Wires(link, S)
  BY <1>0, <1>1, <1>5, WiresGrow DEF OrderOK
<1>7. Held(reader, S)
  <2> SUFFICES ASSUME NEW r \in Role, reader[r].pc = "lock" PROVE reader[r].msg \in S[reader[r].conn][r]
    BY DEF Held
  <2>1. reader[r].conn \in Refs /\ reader[r].msg \in Ordered(mark, top)[reader[r].conn][r]
    BY <1>0, <1>1 DEF OrderOK, Held, Readers
  <2>2. r = "alice" \/ reader[r].conn \in Conns
    BY <1>0 DEF SeatOK, Role
  <2> QED BY <1>5, <2>1, <2>2
<1>8. Speech(S)
  <2>1. ids' \in 0 .. MaxIds
    BY NextIType, TypeParts DEF IType, EndpointOK, CountOK
  <2>2. ids <= ids' /\ asked.id <= ids /\ approved <= ids
    BY <1>3 DEF NumbersOK
  <2>3. \A e \in Conns : e < top2 => mark2[e] <= ids
    BY <1>1, <1>3 DEF OrderOK
  <2>4. Speech(Ordered(mark2, top2))
    BY <1>3, <2>1, <2>2, <2>3, OrderedAllows
  <2> QED BY <1>4, <2>4
<1>9. Wires(link', S) /\ Held(reader', S)
  BY <1>0, <1>6, <1>7, <1>8, NextWires, NextHeld
<1>10. /\ dual'["bob"].id # 0 => OrderedAt(conn'["bob"], dual'["bob"].id, mark2, top2)
       /\ gate'["bob"] = "RECONNECTING" => OrderedAt(conn'["bob"], resume'.id, mark2, top2)
  <2>1. /\ dual["bob"].id # 0 => OrderedAt(conn["bob"], dual["bob"].id, mark, top)
        /\ gate["bob"] = "RECONNECTING" => OrderedAt(conn["bob"], resume.id, mark, top)
    BY <1>1 DEF OrderOK
  <2>2. /\ dual["bob"].id # 0 => OrderedAt(conn["bob"], dual["bob"].id, mark2, top2)
        /\ gate["bob"] = "RECONNECTING" => OrderedAt(conn["bob"], resume.id, mark2, top2)
    BY <1>0, <1>3, <2>1, OrderGrows
  <2> QED BY <1>4, <1>6, <1>7, <2>2, BobOrdered
<1>11. top2 <= conns' /\ (conn'["alice"] # 0 => top2 <= conn'["alice"])
  BY <1>0, <1>3
<1>12. Wires(link', Ordered(mark2, top2)) /\ Held(reader', Ordered(mark2, top2))
  BY <1>4, <1>9
<1> QED BY <1>3, <1>10, <1>11, <1>12 DEF InOrder, OrderOK, Wires, Held, Ordered, OrderedAt

(* Every step of Bob's keeps his side: the connection on which the proof of   *)
(* his reservation arrives is later than that of the comparison.              *)
LEMMA NextBobFresh ==
  ASSUME IType, NumbersOK, BobFresh, InOrder, [Next]_vars
  PROVE  BobFresh'
<1>0. /\ SeatOK /\ Wires(link, Spoken) /\ EndpointOK /\ CoreOK /\ "bob" \in Role /\ Refs \subseteq Nat
      /\ conn["bob"] \in Nat /\ basis["bob"].on \in Nat /\ link \in Links /\ conn["bob"] \in Refs
  BY TypeParts, EndpointAssumption DEF IType, EndpointOK, CoreOK, HistOK, Bases, Role, Refs
<1>1. PICK mark \in [Refs -> 0 .. MaxIds], top \in Refs : OrderOK(mark, top)
  BY DEF InOrder
<1>2. CASE BobStays
  BY <1>2 DEF BobStays, BobFresh, Fresh
<1>3. CASE BobListens
  BY <1>3 DEF BobListens, BobFresh
<1>4. ASSUME NEW c \in Conns, BobAccepts(c) PROVE BobFresh'
  BY <1>4 DEF BobAccepts, BobFresh, Fresh, NoBasis
<1>5. ASSUME NEW c \in Conns, BobAdmits(c) PROVE BobFresh'
  <2>1. PICK m : m = Head(link[c].wire["bob"])
    OBVIOUS
  <2>2. m.type = "verification_result" /\ m.flag /\ m.id = resume.id
    BY <1>5, <2>1 DEF BobAdmits
  <2>3. m \in Ordered(mark, top)[c]["bob"]
    BY <1>0, <1>1, <1>5, <2>1, TakeWires DEF BobAdmits, OrderOK
  <2>4. c \in Refs /\ c \in Nat
    BY EndpointAssumption DEF Conns, Refs
  <2>5. resume.id <= mark[c]
    BY <1>0, <2>2, <2>3, <2>4 DEF Ordered
  <2>6. c < conn["bob"] => mark[c] < resume.id
    BY <1>1, <1>5 DEF OrderOK, OrderedAt, BobAdmits
  <2>7. mark[c] \in Nat /\ resume.id \in Nat
    BY <1>0, <2>4, EndpointAssumption DEF CoreOK, Resumes
  <2>8. c # conn["bob"]
    BY <1>5 DEF BobAdmits, NumbersOK
  <2>9. c > conn["bob"]
    BY <1>0, <2>4, <2>5, <2>6, <2>7, <2>8
  <2>10. basis["bob"].recovery => c > basis["bob"].on
    BY <1>0, <1>5, <2>4, <2>9 DEF BobFresh, BobAdmits
  <2> QED BY <1>5, <2>10 DEF BobAdmits, BobFresh, Fresh
<1>6. ASSUME NEW m \in Message, NEW l \in Links, Delivered("bob", m, l),
             BobAsked(m) \/ BobConcludes(m) \/ m.type = "demo_mode"
      PROVE  BobFresh'
  <2>1. server
    BY <1>0, <1>6 DEF Delivered, SeatOK
  <2>2. m \in Ordered(mark, top)[conn["bob"]]["bob"]
    BY <1>0, <1>1, <1>6, DeliveredOK, DeliveredSpoken DEF OrderOK
  <2>3. m.type # "demo_mode"
    BY <1>0, <2>2 DEF Ordered
  <2>4. CASE BobAsked(m)
    BY <2>1, <2>4 DEF BobAsked, BobFresh, Fresh
  <2>5. CASE BobConcludes(m)
    <3>1. basis'["bob"].on = conn'["bob"] /\ basis'["bob"].recovery = m.flag /\ conn'["bob"] \in Nat
      BY <1>0, <2>5 DEF BobConcludes
    <3>2. gate'["bob"] = (IF m.flag THEN "RECONNECTING" ELSE "ACTIVE") /\ dual'["bob"].id = 0
      BY <2>5 DEF BobConcludes, AfterResult
    <3> QED BY <3>1, <3>2 DEF BobFresh, Fresh
  <2> QED BY <1>6, <2>3, <2>4, <2>5
<1> QED BY <1>2, <1>3, <1>4, <1>5, <1>6, NextBob

(* No step of Bob's touches Alice's side.                                     *)
LEMMA NextAliceFresh ==
  ASSUME IType, IdleOK, NoBurst, MaxBursts = 0, NumbersOK, AliceFresh, [Next]_vars
  PROVE  AliceFresh'
<1>0. TypeOK /\ SeatOK /\ Wires(link, Spoken) /\ Held(reader, Spoken)
  BY DEF IType
<1>1. CASE BobStep \/ UNCHANGED vars
  <2>1. /\ gate'["alice"] = gate["alice"] /\ conn'["alice"] = conn["alice"]
        /\ basis'["alice"] = basis["alice"] /\ UNCHANGED aliceVars
    <3>1. CASE BobStep
      BY <1>0, <3>1, BobStepStill DEF Still, CoreStill, RestStill
    <3>2. CASE UNCHANGED vars
      BY <3>2 DEF vars, endpointVars, core, hist
    <3> QED BY <1>1, <3>1, <3>2
  <2>2. task' = task
    BY <2>1 DEF aliceVars
  <2> QED BY <2>1, <2>2 DEF AliceFresh, Fresh
<1> QED BY <1>1, AliceStepFresh, NextIsOf

-------------------------------------------------------------------------------
(* The inductive invariant                                                    *)
IFresh == IBoth /\ NoBurst /\ NumbersOK /\ AliceFresh /\ BobFresh /\ InOrder

(* It holds before anything has happened.                                     *)
LEMMA InitIFresh == Init => IFresh
<1> SUFFICES ASSUME Init PROVE IFresh
  OBVIOUS
<1>1. /\ "alice" \in Role /\ "bob" \in Role /\ "measure" \in Tasks /\ "burst" \in Tasks
      /\ 0 \in Refs /\ 0 \in 0 .. MaxIds
  BY EndpointAssumption DEF Role, Tasks, Refs
<1>2. NoBurst /\ NumbersOK /\ AliceFresh /\ BobFresh
  BY <1>1 DEF Init, EndpointInit, AliceInit, BobInit, NoBurst, NumbersOK, AliceFresh, BobFresh,
      Fresh,
     NoBasis, NotAsked, NoCand, NoDual, Pausing
<1>3. InOrder
  <2>1. PICK mark \in [Refs -> 0 .. MaxIds] : mark = [c \in Refs |-> 0]
    BY <1>1
  <2>2. \A c \in Conns : mark[c] <= ids
    BY <2>1 DEF Init, EndpointInit, Conns, Refs
  <2>3. \A c \in Conns, r \in Role : link[c].wire[r] = <<>>
    BY DEF Init, EndpointInit
  <2>4. \A c \in Conns, r \in Role : <<>> \in Seq(Ordered(mark, 0)[c][r])
    OBVIOUS
  <2>5. Wires(link, Ordered(mark, 0)) /\ Held(reader, Ordered(mark, 0))
    BY <2>3, <2>4 DEF Wires, Held, Init, EndpointInit, NoReader
  <2>6. /\ conns = 0 /\ conn["alice"] = 0 /\ dual["bob"].id = 0 /\ gate["bob"] # "RECONNECTING"
    BY <1>1 DEF Init, EndpointInit, NoDual
  <2>7. OrderOK(mark, 0)
    BY <2>2, <2>5, <2>6 DEF OrderOK
  <2> QED BY <1>1, <2>7 DEF InOrder
<1> QED BY <1>2, <1>3, InitIBoth DEF IFresh

(* Every step keeps it.                                                       *)
LEMMA NextIFresh ==
  ASSUME MaxBursts = 0, IFresh, [Next]_vars
  PROVE  IFresh'
<1>1. /\ IType /\ AnswersOK /\ AInv /\ BInv /\ IdleOK
      /\ NoBurst /\ NumbersOK /\ AliceFresh /\ BobFresh /\ InOrder
  BY DEF IFresh, IBoth, AInv
<1>2. IBoth'
  BY <1>1, NextIType, NextAnswers, NextAInv, NextBInv DEF IBoth
<1>3. NoBurst' /\ NumbersOK' /\ AliceFresh' /\ BobFresh' /\ InOrder'
  BY <1>1, NextNumbers, NextAliceFresh, NextBobFresh, NextOrder
<1> QED BY <1>2, <1>3 DEF IFresh

(* After a comparison that was to be followed by fresh TLS, a gate is never   *)
(* open on the connection the comparison was made on, in any session of any   *)
(* two honest runtimes that never start a reconnect burst.                    *)
THEOREM RecoveredFresh == MaxBursts = 0 => (Spec => []RecoveredOnFreshTLS)
<1>1. SUFFICES ASSUME MaxBursts = 0 PROVE Spec => []RecoveredOnFreshTLS
  OBVIOUS
<1>2. IFresh => RecoveredOnFreshTLS
  BY DEF IFresh, AliceFresh, BobFresh, Fresh, Leaving, RecoveredOnFreshTLS, Role
<1>3. IFresh /\ [Next]_vars => IFresh'
  BY <1>1, NextIFresh
<1> QED BY <1>2, <1>3, InitIFresh, PTL DEF Spec

-------------------------------------------------------------------------------
(* Pending comparisons.  Of what travels to Bob, in its order: ready is on    *)
(* the way,                                                                   *)
HasReady(w) == \E i \in 1 .. Len(w) : w[i].type = "ready"
(* no request is ahead of it,                                                 *)
ReadyFirst(w) ==
    \A i \in 1 .. Len(w) :
       w[i].type = "verify_request" => \E j \in 1 .. i - 1 : w[j].type = "ready"
(* the proof of a recovery is the first frame.                                *)
FirstProof(w) == w # <<>> /\ Head(w).type = "verification_result"

(* A frame behind the others                                                  *)
LEMMA AppendReady ==
  ASSUME NEW w \in Seq(Message), NEW m \in Message
  PROVE  /\ HasReady(w) \/ m.type = "ready" => HasReady(Append(w, m))
         /\ ReadyFirst(w) /\ (m.type = "verify_request" => HasReady(w)) => ReadyFirst(Append(w, m))
         /\ w # <<>> => (FirstProof(Append(w, m)) <=> FirstProof(w))
         /\ Append(w, m) # <<>>
         /\ w = <<>> /\ m.type # "verify_request" => ReadyFirst(Append(w, m))
<1> DEFINE u == Append(w, m)
           n == Len(w)
<1>1. /\ n \in Nat /\ Len(u) = n + 1 /\ u[n + 1] = m /\ u # <<>>
      /\ \A i \in 1 .. n : u[i] = w[i]
  BY AppendProperties
<1>2. w # <<>> => n # 0 /\ Head(u) = Head(w)
  BY EmptySeq
<1>3. w = <<>> => n = 0
  OBVIOUS
<1> HIDE DEF u, n
<1>4. HasReady(w) \/ m.type = "ready" => HasReady(u)
  <2>1. CASE m.type = "ready"
    BY <1>1, <2>1 DEF HasReady
  <2>2. CASE HasReady(w)
    <3>1. PICK i \in 1 .. n : w[i].type = "ready"
      BY <2>2 DEF HasReady, n
    <3>2. i \in 1 .. n + 1 /\ u[i].type = "ready"
      BY <1>1, <3>1
    <3> QED BY <1>1, <3>2 DEF HasReady
  <2> QED BY <2>1, <2>2
<1>5. ASSUME ReadyFirst(w), m.type = "verify_request" => HasReady(w) PROVE ReadyFirst(u)
  <2> SUFFICES ASSUME NEW i \in 1 .. n + 1, u[i].type = "verify_request"
               PROVE  \E j \in 1 .. i - 1 : u[j].type = "ready"
    BY <1>1 DEF ReadyFirst
  <2>1. CASE i = n + 1
    <3>1. PICK j \in 1 .. n : w[j].type = "ready"
      BY <1>1, <1>5, <2>1 DEF HasReady, n
    <3> QED BY <1>1, <2>1, <3>1
  <2>2. CASE i # n + 1
    <3>1. i \in 1 .. n
      BY <1>1, <2>2
    <3>2. PICK j \in 1 .. i - 1 : w[j].type = "ready"
      BY <1>1, <1>5, <3>1 DEF ReadyFirst, n
    <3> QED BY <1>1, <3>1, <3>2
  <2> QED BY <2>1, <2>2
<1>6. ASSUME w = <<>>, m.type # "verify_request" PROVE ReadyFirst(u)
  BY <1>1, <1>3, <1>6 DEF ReadyFirst
<1>7. w # <<>> => (FirstProof(u) <=> FirstProof(w))
  BY <1>1, <1>2 DEF FirstProof
<1> QED BY <1>1, <1>4, <1>5, <1>6, <1>7 DEF u

(* The first frame is taken.                                                  *)
LEMMA TailReady ==
  ASSUME NEW w \in Seq(Message), w # <<>>
  PROVE  /\ Head(w).type # "ready" /\ HasReady(w) => HasReady(Tail(w))
         /\ Head(w).type # "ready" /\ ReadyFirst(w) => ReadyFirst(Tail(w))
         /\ ReadyFirst(w) => Head(w).type # "verify_request"
<1> DEFINE u == Tail(w)
           n == Len(w)
<1>1. /\ n \in Nat \ {0} /\ Len(u) = n - 1 /\ Head(w) = w[1]
      /\ \A i \in 1 .. n - 1 : u[i] = w[i + 1]
  BY EmptySeq
<1> HIDE DEF u, n
<1>2. ASSUME Head(w).type # "ready", HasReady(w) PROVE HasReady(u)
  <2>1. PICK i \in 1 .. n : w[i].type = "ready"
    BY <1>2 DEF HasReady, n
  <2>2. i # 1
    BY <1>1, <1>2, <2>1
  <2>3. i - 1 \in 1 .. n - 1 /\ u[i - 1] = w[(i - 1) + 1] /\ (i - 1) + 1 = i
    BY <1>1, <2>1, <2>2
  <2> QED BY <1>1, <2>1, <2>3 DEF HasReady
<1>3. ASSUME Head(w).type # "ready", ReadyFirst(w) PROVE ReadyFirst(u)
  <2> SUFFICES ASSUME NEW i \in 1 .. n - 1, u[i].type = "verify_request"
               PROVE  \E j \in 1 .. i - 1 : u[j].type = "ready"
    BY <1>1 DEF ReadyFirst
  <2>1. i + 1 \in 1 .. n /\ w[i + 1].type = "verify_request"
    BY <1>1
  <2>2. PICK j \in 1 .. (i + 1) - 1 : w[j].type = "ready"
    BY <1>3, <2>1 DEF ReadyFirst, n
  <2>3. j # 1
    BY <1>1, <1>3, <2>2
  <2>4. j - 1 \in 1 .. i - 1 /\ j - 1 \in 1 .. n - 1 /\ (j - 1) + 1 = j
    BY <1>1, <2>2, <2>3
  <2> QED BY <1>1, <2>2, <2>4
<1>4. ASSUME ReadyFirst(w) PROVE Head(w).type # "verify_request"
  <2>1. 1 \in 1 .. n /\ ~\E j \in 1 .. 1 - 1 : w[j].type = "ready"
    BY <1>1
  <2> QED BY <1>1, <1>4, <2>1 DEF ReadyFirst, n
<1> QED BY <1>2, <1>3, <1>4 DEF u

-------------------------------------------------------------------------------
(* A close empties that end of the connection and nothing else; a receive     *)
LEMMA ShutElse ==
  ASSUME NEW l \in Links, NEW r \in Role, NEW c \in Refs
  PROVE  /\ Shut(l, r, c) \in Links
         /\ \A d \in Conns : d # c => Shut(l, r, c)[d] = l[d]
         /\ \A d \in Conns, q \in Role \ {r} :
               Shut(l, r, c)[d].wire[q] = l[d].wire[q] /\ Shut(l, r, c)[d].up[q] = l[d].up[q]
         /\ c \in Conns => Shut(l, r, c)[c].up[r] = FALSE /\ Shut(l, r, c)[c].wire[r] = <<>>
<1>1. CASE c = 0
  BY <1>1, EndpointAssumption DEF Shut, Conns
<1>2. CASE c # 0
  <2> DEFINE k == [l[c] EXCEPT !.up = [@ EXCEPT ![r] = FALSE]]
             e == <<>>
             s == WithWire(k, r, e)
  <2>1. c \in Conns
    BY <1>2, EndpointAssumption DEF Refs, Conns
  <2>2. Shut(l, r, c) = [l EXCEPT ![c] = s]
    BY <1>2, <2>1 DEF Shut, Links, Ends, WithWire
  <2>3. l[c] \in Ends
    BY <2>1 DEF Links
  <2>4. k \in Ends /\ k.wire = l[c].wire /\ k.up[r] = FALSE /\ \A q \in Role \ {r} : k.up[q] = l[c].up[q]
    BY <2>3 DEF Ends
  <2>e. e \in Seq(Message)
    OBVIOUS
  <2> HIDE DEF k, e
  <2>5. /\ s \in Ends /\ s.up[r] = FALSE /\ s.wire[r] = e
        /\ \A q \in Role \ {r} : s.up[q] = l[c].up[q] /\ s.wire[q] = l[c].wire[q]
    BY <2>4, <2>e, WireOK
  <2> HIDE DEF s
  <2>6. /\ [l EXCEPT ![c] = s] \in Links
        /\ \A d \in Conns : [l EXCEPT ![c] = s][d] = IF d = c THEN s ELSE l[d]
    BY <2>1, <2>5, ReplaceOK
  <2> QED BY <2>1, <2>2, <2>5, <2>6 DEF e
<1> QED BY <1>1, <1>2

(* takes the first frame of that end and nothing else;                        *)
LEMMA TakeElse ==
  ASSUME NEW l \in Links, NEW r \in Role, NEW c \in Conns, l[c].wire[r] # <<>>
  PROVE  /\ Take(l, r, c) \in Links
         /\ Take(l, r, c)[c].wire[r] = Tail(l[c].wire[r])
         /\ \A d \in Conns, q \in Role :
               /\ d # c \/ q # r => Take(l, r, c)[d].wire[q] = l[d].wire[q]
               /\ Take(l, r, c)[d].up[q] = l[d].up[q]
<1>1. l[c] \in Ends
  BY DEF Links
<1> DEFINE u == Tail(l[c].wire[r])
           t == WithWire(l[c], r, u)
<1>2. Take(l, r, c) = [l EXCEPT ![c] = t]
  BY DEF Take, WithWire
<1>3. u \in Seq(Message)
  BY <1>1, HeadTailProperties DEF Ends
<1> HIDE DEF u
<1>4. t \in Ends /\ t.wire[r] = u
  BY <1>1, <1>3, WireOK
<1> HIDE DEF t
<1>5. [l EXCEPT ![c] = t][c] = t
  BY DEF Links
<1>6. Take(l, r, c)[c].wire[r] = u
  BY <1>2, <1>4, <1>5
<1> QED BY <1>6, TakeOK DEF u

(* adds one behind the others, if the peer is there.                          *)
LEMMA PutElse ==
  ASSUME NEW l \in Links, NEW r \in Role, NEW c \in Conns, NEW m \in Message
  PROVE  /\ Put(l, r, c, m) \in Links
         /\ l[c].up[Peer(r)] => Put(l, r, c, m)[c].wire[Peer(r)] = Append(l[c].wire[Peer(r)], m)
         /\ \A d \in Conns, q \in Role :
               /\ d # c \/ q = r => Put(l, r, c, m)[d].wire[q] = l[d].wire[q]
               /\ Put(l, r, c, m)[d].up[q] = l[d].up[q]
<1>1. l[c] \in Ends /\ Peer(r) \in Role /\ Peer(r) # r
  BY PeerOK DEF Links
<1> DEFINE u == Append(l[c].wire[Peer(r)], m)
           t == WithWire(l[c], Peer(r), u)
<1>2. l[c].up[Peer(r)] => Put(l, r, c, m) = [l EXCEPT ![c] = t]
  BY DEF Put, WithWire
<1>3. u \in Seq(Message)
  BY <1>1, AppendProperties DEF Ends
<1> HIDE DEF u
<1>4. t \in Ends /\ t.wire[Peer(r)] = u
  BY <1>1, <1>3, WireOK
<1> HIDE DEF t
<1>5. [l EXCEPT ![c] = t][c] = t
  BY DEF Links
<1>6. l[c].up[Peer(r)] => Put(l, r, c, m)[c].wire[Peer(r)] = u
  BY <1>2, <1>4, <1>5
<1>7. /\ Put(l, r, c, m) \in Links
      /\ \A d \in Conns, q \in Role :
            /\ \/ Put(l, r, c, m)[d].wire[q] = l[d].wire[q]
               \/ d = c /\ q = Peer(r) /\ Put(l, r, c, m)[d].wire[q] = Append(l[d].wire[q], m)
            /\ Put(l, r, c, m)[d].up = l[d].up
  BY PutOK
<1>8. PICK k : k = Put(l, r, c, m)
  OBVIOUS
<1>9. \A d \in Conns, q \in Role :
         /\ d # c \/ q = r => k[d].wire[q] = l[d].wire[q]
         /\ k[d].up[q] = l[d].up[q]
  <2>1. \A d \in Conns, q \in Role :
           /\ k[d].wire[q] = l[d].wire[q] \/ (d = c /\ q = Peer(r))
           /\ k[d].up = l[d].up
    BY <1>7, <1>8, Zenon
  <2> QED BY <1>1, <2>1
<1> QED BY <1>6, <1>7, <1>8, <1>9, Zenon DEF u

(* What Alice sends is the last frame of its connection.                      *)
LEMMA AlicePuts ==
  ASSUME NEW l \in Links, NEW c \in Conns, NEW m \in Message
  PROVE  /\ l[c].up["bob"] =>
               Put(l, "alice", c, m)[c].wire["bob"] = Append(l[c].wire["bob"], m)
         /\ \A d \in Conns :
               /\ d # c => Put(l, "alice", c, m)[d].wire["bob"] = l[d].wire["bob"]
               /\ Put(l, "alice", c, m)[d].up["bob"] = l[d].up["bob"]
<1>1. "alice" \in Role /\ "bob" \in Role /\ Peer("alice") = "bob"
  BY DEF Role, Peer
<1>2. PICK k : k = Put(l, "alice", c, m)
  OBVIOUS
<1>3. /\ l[c].up[Peer("alice")] => k[c].wire[Peer("alice")] = Append(l[c].wire[Peer("alice")], m)
      /\ \A d \in Conns, q \in Role :
            /\ d # c \/ q = "alice" => k[d].wire[q] = l[d].wire[q]
            /\ k[d].up[q] = l[d].up[q]
  <2>1. /\ l[c].up[Peer("alice")] =>
              Put(l, "alice", c, m)[c].wire[Peer("alice")] = Append(l[c].wire[Peer("alice")], m)
        /\ \A d \in Conns, q \in Role :
              /\ d # c \/ q = "alice" => Put(l, "alice", c, m)[d].wire[q] = l[d].wire[q]
              /\ Put(l, "alice", c, m)[d].up[q] = l[d].up[q]
    <3>1. PICK r \in Role : r = "alice"
      BY <1>1
    <3>2. /\ l[c].up[Peer(r)] =>
                Put(l, r, c, m)[c].wire[Peer(r)] = Append(l[c].wire[Peer(r)], m)
          /\ \A d \in Conns, q \in Role :
                /\ d # c \/ q = r => Put(l, r, c, m)[d].wire[q] = l[d].wire[q]
                /\ Put(l, r, c, m)[d].up[q] = l[d].up[q]
      BY PutElse
    <3> QED BY <3>1, <3>2, Zenon
  <2> QED BY <1>2, <2>1, Zenon
<1>4. l[c].up["bob"] => k[c].wire["bob"] = Append(l[c].wire["bob"], m)
  BY <1>1, <1>3
<1>5. ASSUME NEW d \in Conns
      PROVE  (d # c => k[d].wire["bob"] = l[d].wire["bob"]) /\ k[d].up["bob"] = l[d].up["bob"]
  BY <1>1, <1>3
<1> QED BY <1>2, <1>4, <1>5

(* A handshake concerns one connection.                                       *)
LEMMA LinkUpElse ==
  ASSUME link \in Links, NEW c \in Conns
  PROVE  \A d \in Conns \ {c} : LinkUp(c)[d] = link[d] /\ [link EXCEPT ![c].up["bob"] = TRUE][d] = link[d]
BY DEF LinkUp, Links

-------------------------------------------------------------------------------
(* Bob's end of every connection is the same, and Alice's has gained nothing. *)
SameForBob(l, k) ==
    \A c \in Conns :
       /\ k[c].wire["bob"] = l[c].wire["bob"] /\ k[c].up["bob"] = l[c].up["bob"]
       /\ k[c].up["alice"] => l[c].up["alice"]
       /\ l[c].wire["alice"] = <<>> => k[c].wire["alice"] = <<>>

(* Of Alice's steps only what she sends reaches it: a close does not,         *)
LEMMA AliceShuts ==
  ASSUME NEW l \in Links, NEW c \in Refs
  PROVE  SameForBob(l, Shut(l, "alice", c))
<1>1. "alice" \in Role /\ "bob" \in Role \ {"alice"}
  BY DEF Role
<1>2. \A d \in Conns, q \in Role \ {"alice"} :
         /\ Shut(l, "alice", c)[d].wire[q] = l[d].wire[q]
         /\ Shut(l, "alice", c)[d].up[q] = l[d].up[q]
  BY <1>1, ShutElse
<1>3. \A d \in Conns : /\ Shut(l, "alice", c)[d].up["alice"] => l[d].up["alice"]
                       /\ Shut(l, "alice", c)[d].wire["alice"] \in {l[d].wire["alice"], <<>>}
  BY <1>1, ShutOK
<1> QED BY <1>1, <1>2, <1>3, Zenon DEF SameForBob

(* receiving does not,                                                        *)
LEMMA AliceTakes ==
  ASSUME NEW l \in Links, NEW c \in Conns, l[c].wire["alice"] # <<>>
  PROVE  SameForBob(l, Take(l, "alice", c))
<1>1. "alice" \in Role /\ "bob" \in Role /\ "bob" # "alice"
  BY DEF Role
<1> QED BY <1>1, TakeElse DEF SameForBob

(* nor restricting,                                                           *)
LEMMA AliceRestricts ==
  ASSUME CoreOK, NEW l \in Links, Restricts("alice", l)
  PROVE  SameForBob(l, link') /\ conn' = conn
<1>1. conn["alice"] \in Refs
  BY DEF CoreOK, Role
<1> QED BY <1>1, AliceShuts DEF Restricts

(* nor the exception of a task,                                               *)
LEMMA AliceRaises ==
  ASSUME CoreOK, NEW t \in Tasks, NEW l \in Links, Raises(t, l)
  PROVE  SameForBob(l, link') /\ conn' = conn
<1>1. conn["alice"] \in Refs
  BY DEF CoreOK, Role
<1>2. Restricts("alice", l) \/ (link' = Shut(l, "alice", conn["alice"]) /\ conn' = conn)
  BY DEF Raises
<1> QED BY <1>1, <1>2, AliceShuts, AliceRestricts

(* nor that of her reader,                                                    *)
LEMMA AliceReaderRaises ==
  ASSUME CoreOK, NEW l \in Links, ReaderRaises("alice", l)
  PROVE  SameForBob(l, link')
<1>1. Restricts("alice", l) \/ link' = l
  BY DEF ReaderRaises
<1> QED BY <1>1, AliceRestricts DEF SameForBob

(* nor anything her reader does with a frame.                                 *)
LEMMA AliceHandles ==
  ASSUME CoreOK, NEW m, NEW l \in Links, AliceHandle(m, l) \/ Postpones("alice", l)
  PROVE  SameForBob(l, link')
<1>1. Restricts("alice", l) \/ ReaderRaises("alice", l) \/ link' = l
  <2>1. CASE AliceHandle(m, l)
    BY <2>1, AliceHandleCases
       DEF AliceHears, HandleResponse, HandleShutdown, Refuse
  <2> QED BY <2>1 DEF Postpones
<1> QED BY <1>1, AliceRestricts, AliceReaderRaises DEF SameForBob

-------------------------------------------------------------------------------
(* She sends the frame m on her connection.                                   *)
Says(m) ==
    /\ conn["alice"] \in Conns /\ conn'["alice"] = conn["alice"] /\ Up("alice", conn["alice"])
    /\ link' = Put(link, "alice", conn["alice"], m)
    /\ m.type = "verify_request" => AtAssess /\ gate["alice"] \in {"ACTIVE", "VERIFYING"}
    /\ m.type = "verification_result" => task["measure"] = "ready"

(* A handshake ends; if she recovers with it, its first frame is the proof.   *)
Dials(c) ==
    /\ Established(c)
    /\ \A d \in Conns \ {c} : /\ link'[d].wire["bob"] = link[d].wire["bob"]
                              /\ link'[d].up["bob"] = link[d].up["bob"]
                              /\ link'[d].up["alice"] => link[d].up["alice"]
    /\ \A d \in Conns : link[d].wire["alice"] = <<>> => link'[d].wire["alice"] = <<>>
    /\ \/ link'[c].wire["bob"] = link[c].wire["bob"] /\ conn'["alice"] \in {conn["alice"], c}
       \/ /\ link'[c].wire["bob"] =
                Append(link[c].wire["bob"], Msg("verification_result", approved, TRUE))
          /\ conn'["alice"] = c /\ approved' = approved
          /\ task'["measure"] = "proof" /\ gate'["alice"] = "VERIFYING"

(* She sends nothing.                                                         *)
SaysNothing == SameForBob(link, link') /\ conn'["alice"] \in {conn["alice"], 0}

(* What measure_loop sends                                                    *)
LEMMA MeasureSays ==
  ASSUME IType, MeasureStep
  PROVE  SaysNothing \/ \E m \in Message : Says(m)
<1>0. /\ "measure" \in Tasks /\ link \in Links /\ "alice" \in Role /\ CoreOK /\ TaskOK
      /\ conn["alice"] \in Refs /\ ids \in 0 .. MaxIds /\ 0 .. MaxIds \subseteq Nat
      /\ asked.id \in 0 .. MaxIds /\ asked.recovery \in BOOLEAN
  BY TypeParts, EndpointAssumption
     DEF IType, Tasks, EndpointOK, AliceOK, CoreOK, TaskOK, Role, CountOK
<1>1. CASE Raises("measure", link)
  BY <1>0, <1>1, AliceRaises DEF SaysNothing
<1>2. CASE link' = link /\ conn' = conn
  BY <1>2 DEF SaysNothing, SameForBob
<1>3. CASE Restricts("alice", link)
  BY <1>0, <1>3, AliceRestricts DEF SaysNothing
<1>4. ASSUME NEW pc, NEW type \in {"ping", "ready", "reconnect"}, CanControl("alice"), conn' = conn,
             Sends("measure", pc, Notice(type), link)
      PROVE  \E m \in Message : Says(m)
  <2>1. PICK m \in Message : m = Notice(type) /\ m.type = type
    BY ValuesOK
  <2>2. conn["alice"] \in Conns
    BY <1>0, <1>4, ControlOK
  <2> QED BY <1>4, <2>1, <2>2 DEF Sends, Says, CanControl
<1>5. CASE Concludes
  BY <1>2, <1>3, <1>4, <1>5 DEF Concludes
<1>6. CASE GuardFailed \/ LoopHead
  BY <1>2, <1>3, <1>6 DEF GuardFailed, LoopHead, core
<1>7. CASE Heartbeat \/ PingSent \/ RequestSent
  BY <1>1, <1>2, <1>4, <1>7 DEF Heartbeat, PingSent, RequestSent, core
<1>8. CASE HeartbeatStops \/ AssessRotates \/ RespondTimesOut
  BY <1>1, <1>8 DEF HeartbeatStops, AssessRotates, RespondTimesOut
<1>9. CASE Conclude \/ AssessKeeps
  BY <1>5, <1>9 DEF Conclude, AssessKeeps
<1>10. CASE AssessVerifies
  <2> DEFINE recovery == guard = "verified"
  <2>1. CASE ~Raises("measure", link)
    <3>1. /\ ids < MaxIds /\ conn' = conn /\ Up("alice", conn["alice"]) /\ AtAssess
          /\ gate["alice"] \in {"ACTIVE", "VERIFYING"}
          /\ Sends("measure", "request", Msg("verify_request", ids + 1, recovery), link)
      BY <1>10, <2>1, Zenon DEF AssessVerifies
    <3>2. conn["alice"] \in Conns /\ recovery \in BOOLEAN /\ ids + 1 \in 0 .. MaxIds
      BY <1>0, <3>1, EndpointAssumption DEF Up, Refs, Conns
    <3> HIDE DEF recovery
    <3>3. PICK m \in Message : m = Msg("verify_request", ids + 1, recovery) /\ m.type = "verify_request"
      BY <3>2, ValuesOK
    <3> QED BY <3>1, <3>2, <3>3 DEF Sends, Says
  <2> QED BY <1>1, <2>1
<1>11. CASE BothDecided
  <2>1. CASE ~Raises("measure", link)
    <3>1. /\ task["measure"] = "ready" /\ CanControl("alice") /\ conn' = conn
          /\ Sends("measure", "result", Msg("verification_result", asked.id, asked.recovery), link)
      BY <1>11, <2>1, Zenon DEF BothDecided
    <3>2. PICK m \in Message : /\ m = Msg("verification_result", asked.id, asked.recovery)
                               /\ m.type = "verification_result"
      BY <1>0, ValuesOK
    <3>3. conn["alice"] \in Conns
      BY <1>0, <3>1, ControlOK
    <3> QED BY <3>1, <3>2, <3>3 DEF Sends, Says, CanControl
  <2> QED BY <1>1, <2>1
<1>12. CASE ResultSent
  BY <1>1, <1>2, <1>4, <1>12 DEF ResultSent
<1>13. CASE NoticeSent
  <2>1. CASE link' = Shut(link, "alice", conn["alice"]) /\ conn' = conn
    BY <1>0, <2>1, AliceShuts DEF SaysNothing
  <2> QED BY <1>1, <1>13, <2>1 DEF NoticeSent
<1> QED BY <1>6, <1>7, <1>8, <1>9, <1>10, <1>11, <1>12, <1>13 DEF MeasureStep

(* What recover sends                                                         *)
LEMMA RecoverySays ==
  ASSUME IType, \/ RecoveryStep("measure") \/ Redialled("measure") \/ RedialFails("measure")
  PROVE  SaysNothing \/ (\E m \in Message : Says(m)) \/ (\E c \in Conns : Dials(c))
<1>0. /\ "measure" \in Tasks /\ link \in Links /\ "alice" \in Role /\ "bob" \in Role /\ CoreOK /\ TaskOK
      /\ conn \in [Role -> Refs] /\ gate \in [Role -> State] /\ task \in [Tasks -> Places]
      /\ approved \in 0 .. MaxIds
  BY TypeParts DEF IType, Tasks, EndpointOK, AliceOK, CoreOK, TaskOK, Role, RetryOK
<1>1. CASE Raises("measure", link)
  BY <1>0, <1>1, AliceRaises DEF SaysNothing
<1>2. CASE link' = link /\ conn' = conn
  BY <1>2 DEF SaysNothing, SameForBob
<1>3. CASE RecoverBegins("measure") \/ ProofSent("measure") \/ Resumed("measure")
  BY <1>1, <1>2, <1>3 DEF RecoverBegins, ProofSent, Resumed, core
<1>4. CASE Recovered("measure")
  <2>1. CASE CanControl("alice") /\ conn' = conn /\ Sends("measure", "resume", Notice("ready"), link)
    <3>1. PICK m \in Message : m = Notice("ready") /\ m.type = "ready"
      BY ValuesOK
    <3>2. conn["alice"] \in Conns /\ conn'["alice"] = conn["alice"]
      BY <1>0, <2>1, ControlOK
    <3>3. link' = Put(link, "alice", conn["alice"], m)
      BY <2>1, <3>1, <3>2 DEF Sends
    <3>4. m.type # "verify_request" /\ m.type # "verification_result"
      BY <3>1
    <3>5. Says(m)
      BY <2>1, <3>2, <3>3, <3>4 DEF Says, CanControl
    <3> QED BY <3>5
  <2> QED BY <1>1, <1>2, <1>4, <2>1 DEF Recovered, core
<1>5. CASE Redialled("measure")
  <2>1. PICK c \in Conns : Established(c) /\ Reconnected("measure", c, LinkUp(c))
    BY <1>5 DEF Redialled
  <2>2. /\ LinkUp(c) \in Links /\ LinkUp(c)[c].wire["bob"] = link[c].wire["bob"]
        /\ LinkUp(c)[c].wire["alice"] = link[c].wire["alice"]
        /\ \A d \in Conns \ {c} : LinkUp(c)[d] = link[d]
    BY <1>0, LinkUpOK, LinkUpElse
  <2>3. CASE Raises("measure", LinkUp(c))
    <3>1. PICK l : l = LinkUp(c)
      OBVIOUS
    <3>2. SameForBob(l, link') /\ conn' = conn
      BY <1>0, <2>2, <2>3, <3>1, AliceRaises
    <3>4. /\ l[c].wire["bob"] = link[c].wire["bob"] /\ l[c].wire["alice"] = link[c].wire["alice"]
          /\ \A d \in Conns \ {c} : l[d] = link[d]
      BY <2>2, <3>1
    <3>5. ASSUME NEW d \in Conns PROVE link[d].wire["alice"] = <<>> => link'[d].wire["alice"] = <<>>
      BY <3>2, <3>4 DEF SameForBob
    <3>6. ASSUME NEW d \in Conns \ {c}
          PROVE  /\ link'[d].wire["bob"] = link[d].wire["bob"]
                 /\ link'[d].up["bob"] = link[d].up["bob"]
                 /\ link'[d].up["alice"] => link[d].up["alice"]
      BY <3>2, <3>4 DEF SameForBob
    <3>7. link'[c].wire["bob"] = link[c].wire["bob"]
      BY <3>2, <3>4 DEF SameForBob
    <3>3. Dials(c)
      BY <2>1, <3>2, <3>5, <3>6, <3>7 DEF Dials
    <3> QED BY <3>3
  <2>4. CASE /\ gate' = [gate EXCEPT !["alice"] = "VERIFYING"] /\ conn' = [conn EXCEPT !["alice"] = c]
             /\ Sends("measure", "proof", Msg("verification_result", approved, TRUE), LinkUp(c))
    <3>1. PICK m \in Message : m = Msg("verification_result", approved, TRUE)
      BY <1>0, ValuesOK
    <3>2. conn'["alice"] = c /\ gate'["alice"] = "VERIFYING" /\ task'["measure"] = "proof"
      BY <1>0, <2>4 DEF Sends, Goto
    <3>3. link' = Put(LinkUp(c), "alice", c, m) /\ Peer("alice") = "bob"
      BY <2>4, <3>1, <3>2 DEF Sends, Peer
    <3>4. LinkUp(c)[c].up["bob"]
      BY <1>0 DEF LinkUp, Links, Ends
    <3>5. /\ link'[c].wire["bob"] = Append(link[c].wire["bob"], m)
          /\ \A d \in Conns \ {c} : /\ link'[d].wire["bob"] = link[d].wire["bob"]
                                    /\ link'[d].up["bob"] = link[d].up["bob"]
                                    /\ link'[d].up["alice"] = link[d].up["alice"]
          /\ \A d \in Conns : link'[d].wire["alice"] = link[d].wire["alice"]
      <4>1. PICK l \in Links : l = LinkUp(c)
        BY <2>2
      <4>2. /\ l[c].up[Peer("alice")] => Put(l, "alice", c, m)[c].wire[Peer("alice")] =
                                             Append(l[c].wire[Peer("alice")], m)
            /\ \A d \in Conns, q \in Role :
                  /\ d # c \/ q = "alice" => Put(l, "alice", c, m)[d].wire[q] = l[d].wire[q]
                  /\ Put(l, "alice", c, m)[d].up[q] = l[d].up[q]
        BY <1>0, PutElse
      <4>3. link'[c].wire["bob"] = Append(l[c].wire["bob"], m)
        BY <3>3, <3>4, <4>1, <4>2
      <4>4. ASSUME NEW d \in Conns \ {c}
            PROVE  /\ link'[d].wire["bob"] = l[d].wire["bob"] /\ link'[d].up["bob"] = l[d].up["bob"]
                   /\ link'[d].up["alice"] = l[d].up["alice"]
        BY <1>0, <3>3, <4>1, <4>2
      <4>5. ASSUME NEW d \in Conns PROVE link'[d].wire["alice"] = l[d].wire["alice"]
        BY <1>0, <3>3, <4>1, <4>2
      <4> QED BY <2>2, <4>1, <4>3, <4>4, <4>5
    <3>6. approved' = approved
      BY <2>1 DEF Reconnected
    <3> QED BY <2>1, <3>1, <3>2, <3>5, <3>6 DEF Dials
  <2> QED BY <2>1, <2>3, <2>4, Zenon DEF Reconnected
<1>6. CASE RedialFails("measure")
  <2>1. ASSUME NEW l \in Links, EstablishFails("measure", l)
        PROVE  SameForBob(l, link') /\ conn' = conn
    <3>1. CASE Raises("measure", l)
      BY <1>0, <2>1, <3>1, AliceRaises
    <3>2. CASE link' = l /\ conn' = conn
      BY <3>2 DEF SameForBob
    <3> QED BY <2>1, <3>1, <3>2, Zenon DEF EstablishFails
  <2>2. CASE EstablishFails("measure", link)
    BY <1>0, <2>1, <2>2 DEF SaysNothing
  <2>3. ASSUME NEW c \in Conns, Established(c),
               EstablishFails("measure", [link EXCEPT ![c].up["bob"] = TRUE])
        PROVE  Dials(c)
    <3> DEFINE l == [link EXCEPT ![c].up["bob"] = TRUE]
    <3>1. /\ l \in Links /\ l[c].wire["bob"] = link[c].wire["bob"]
          /\ l[c].wire["alice"] = link[c].wire["alice"]
          /\ \A d \in Conns \ {c} : l[d] = link[d]
      BY <1>0, HalfUpOK, LinkUpElse
    <3> HIDE DEF l
    <3>2. SameForBob(l, link') /\ conn' = conn
      BY <2>1, <2>3, <3>1 DEF l
    <3> QED BY <2>3, <3>1, <3>2 DEF SameForBob, Dials
  <2> QED BY <1>6, <2>2, <2>3 DEF RedialFails
<1> QED BY <1>3, <1>4, <1>5, <1>6 DEF RecoveryStep

(* Every step of hers                                                         *)
LEMMA AliceSpeaks ==
  ASSUME IType, NoBurst, MaxBursts = 0, AliceStep
  PROVE  SaysNothing \/ (\E m \in Message : Says(m)) \/ (\E c \in Conns : Dials(c))
<1>0. /\ TypeOK /\ SeatOK /\ Wires(link, Spoken) /\ Held(reader, Spoken) /\ "alice" \in Role
      /\ EndpointOK /\ BoundOK /\ CoreOK /\ link \in Links /\ conn["alice"] \in Refs
      /\ cmd["alice"].conn \in Refs /\ reader["alice"].conn \in Refs /\ "bob" \in Role
      /\ conn \in [Role -> Refs]
  BY TypeParts DEF IType, EndpointOK, CoreOK, CommandOK, ReaderOK, Commands, Readers, Role
<1>1. CASE link' = link /\ conn' = conn
  BY <1>1 DEF SaysNothing, SameForBob
<1>2. CASE Restricts("alice", link)
  BY <1>0, <1>2, AliceRestricts DEF SaysNothing
<1>3. CASE OwnStep("alice")
  <2>0. conn' = conn
    BY <1>0, <1>3, OwnStepConn
  <2>1. CASE \/ link' = Shut(link, "alice", conn["alice"])
             \/ link' = Shut(link, "alice", cmd["alice"].conn)
             \/ link' = Shut(link, "alice", reader["alice"].conn)
    BY <1>0, <2>0, <2>1, AliceShuts DEF SaysNothing
  <2>2. ASSUME NEW m \in Message, m.type \in {"verify_response", "shutdown"}, CanControl("alice"),
               link' = Put(link, "alice", conn["alice"], m)
        PROVE  \E n \in Message : Says(n)
    BY <1>0, <2>0, <2>2, ControlOK DEF Says, CanControl
  <2>3. CASE Answers("alice")
    <3>1. PICK id \in 1 .. ids, match \in BOOLEAN : Confirm("alice", id, match)
      BY <2>3 DEF Answers
    <3>2. PICK m \in Message : m = Msg("verify_response", id, match) /\ m.type = "verify_response"
      <4>1. id \in 0 .. MaxIds
        BY <1>0, EndpointAssumption DEF EndpointOK, CountOK
      <4> QED BY <4>1, ValuesOK
    <3>3. \/ Restricts("alice", link)
          \/ CanControl("alice") /\ link' = Put(link, "alice", conn["alice"], m)
      BY <3>1, <3>2, Zenon DEF Confirm
    <3> QED BY <1>2, <2>2, <3>2, <3>3
  <2>4. CASE Decide("alice") \/ VerificationEnds("alice")
    BY <1>1, <1>2, <2>0, <2>4 DEF Decide, VerificationEnds, core
  <2>5. CASE AliceStops
    <3>1. PICK m \in Message : m = Notice("shutdown") /\ m.type = "shutdown"
      BY ValuesOK
    <3> QED BY <1>1, <2>0, <2>2, <2>5, <3>1 DEF AliceStops, SendShutdown
  <2>6. CASE AliceDisconnectEnds \/ ConfirmAbandoned("alice") \/ DisconnectAbandoned("alice") \/ StopAbandoned
    BY <1>1, <2>0, <2>1, <2>6
       DEF AliceDisconnectEnds, DisconnectEnds, ConfirmAbandoned, DisconnectAbandoned,
           StopAbandoned, core
  <2>7. CASE LinkFails("alice", conn["alice"]) \/ EndOfStream("alice")
    BY <2>1, <2>7 DEF LinkFails, EndOfStream
  <2>8. CASE ReaderSeesClose("alice") \/ ReaderSent("alice")
    <3>1. CASE ReaderRaises("alice", link)
      BY <1>0, <2>0, <3>1, AliceReaderRaises DEF SaysNothing
    <3> QED BY <1>1, <2>8, <3>1 DEF ReaderSeesClose, ReaderSent, core
  <2>9. CASE AliceReads
    <3>1. PICK m, l : Delivered("alice", m, l) /\ (AliceHandle(m, l) \/ Postpones("alice", l))
      BY <2>9, AliceReadsOne
    <3>2. l \in Links
      BY <1>0, <3>1, DeliveredOK
    <3>3. SameForBob(l, link')
      BY <1>0, <3>1, <3>2, AliceHandles
    <3>4. SameForBob(link, l)
      <4>1. CASE l = link
        BY <4>1 DEF SameForBob
      <4>2. CASE l # link
        <5>1. PICK c : c = reader["alice"].conn
          OBVIOUS
        <5>2. Up("alice", c) /\ link[c].wire["alice"] # <<>> /\ l = Take(link, "alice", c)
          BY <3>1, <4>2, <5>1 DEF Delivered
        <5>3. c \in Conns
          BY <1>0, <5>1, <5>2, EndpointAssumption DEF Up, Refs, Conns
        <5> QED BY <1>0, <5>2, <5>3, AliceTakes
      <4> QED BY <4>1, <4>2
    <3> QED BY <2>0, <3>3, <3>4 DEF SaysNothing, SameForBob
  <2> QED BY <1>3, <2>3, <2>4, <2>5, <2>6, <2>7, <2>8, <2>9
          DEF OwnStep, CommandStep, TabCloses, Timeouts, Reads
<1>4. CASE Measures \/ Replaces
  BY <1>4, OnlyMeasures, MeasureSays, RecoverySays
<1>5. CASE Bursts
  BY <1>0, <1>5 DEF Bursts, BoundOK
<1>6. CASE Connects
  BY <1>0, <1>6 DEF Connects, Connect, SaysNothing, SameForBob
<1>7. CASE Dialled
  <2>1. PICK c \in Conns : Established(c) /\ Connected(c) /\ link' = LinkUp(c)
    BY <1>7 DEF Dialled
  <2>2. /\ LinkUp(c)[c].wire["bob"] = link[c].wire["bob"] /\ \A d \in Conns \ {c} : LinkUp(c)[d] = link[d]
        /\ LinkUp(c)[c].wire["alice"] = link[c].wire["alice"]
    BY <1>0, LinkUpOK, LinkUpElse
  <2>3. conn'["alice"] = c
    BY <1>0, <2>1 DEF Connected
  <2> QED BY <2>1, <2>2, <2>3 DEF Dials
<1>8. CASE DialFails
  BY <1>1, <1>2, <1>8 DEF DialFails, ConnectFails, ConnectAbandoned, core
<1>9. CASE AliceDisconnectBegins
  <2>1. CASE link' = Shut(link, "alice", conn["alice"]) /\ conn' = conn
    BY <1>0, <2>1, AliceShuts DEF SaysNothing
  <2> QED BY <1>1, <1>9, <2>1 DEF AliceDisconnectBegins
<1> QED BY <1>3, <1>4, <1>5, <1>6, <1>7, <1>8, <1>9 DEF AliceStep

-------------------------------------------------------------------------------
(* She is in a recovery, between the proof and ready.                         *)
Silent ==
    /\ task["measure"] \in {"proof", "confirm", "conclude"} /\ approved # 0
    /\ gate["alice"] = "VERIFYING"
(* Alice is not going to send a request before she has sent ready: her gate   *)
(* does not let her, her measurements are over, or she is in a recovery.      *)
Quiet ==
    \/ gate["alice"] \notin {"ACTIVE", "VERIFYING"}
    \/ task["measure"] \in {"off", "failed"}
    \/ Silent

(* She has a comparison pending only while she asks for it.                   *)
AsksOK == dual["alice"] # NoDual => Responding

(* She recovers with an approval.                                             *)
Recovers == task["measure"] \in {"establish", "proof", "confirm"} => approved # 0

(* Her connection after the step has a ready on it that was not there.        *)
SaysReady == link' = Put(link, "alice", conn["alice"], Notice("ready"))

(* A quiet Alice stays so until she sends ready, or has another connection:   *)
(* in measure_loop,                                                           *)
LEMMA MeasureQuiet ==
  ASSUME IType, AsksOK, Quiet, MeasureStep
  PROVE  Quiet' \/ SaysReady
<1>0. /\ CoreOK /\ "alice" \in Role /\ "measure" \in Tasks /\ gate \in [Role -> State]
      /\ task \in [Tasks -> Places] /\ TaskWorks("measure")
  BY TypeParts DEF IType, EndpointOK, AliceOK, Role, Tasks, CoreOK, TaskOK, TaskWorks
<1>1. ASSUME NEW l, Raises("measure", l) PROVE Quiet'
  <2>1. task'["measure"] \in {"off", "failed"}
    BY <1>0, <1>1, RaisesAlice
  <2> QED BY <2>1 DEF Quiet
<1>2. ASSUME gate'["alice"] = gate["alice"], gate["alice"] \notin {"ACTIVE", "VERIFYING"} PROVE Quiet'
  BY <1>2 DEF Quiet
<1>3. CASE GuardFailed
  <2>1. task'["measure"] = "off"
    BY <1>0, <1>3 DEF GuardFailed, Goto
  <2> QED BY <2>1 DEF Quiet
<1>4. CASE task["measure"] \notin {"off", "failed", "proof", "confirm", "conclude"}
  <2>0. gate["alice"] \notin {"ACTIVE", "VERIFYING"}
    BY <1>4 DEF Quiet, Silent
  <2>1. CASE LoopHead \/ Heartbeat \/ PingSent \/ HeartbeatStops \/ AssessRotates \/ RespondTimesOut
    BY <1>1, <1>2, <2>0, <2>1
       DEF LoopHead, Heartbeat, PingSent, HeartbeatStops, AssessRotates, RespondTimesOut, core
  <2>2. CASE AssessKeeps
    <3>1. gate' = gate
      BY <2>0, <2>2 DEF AssessKeeps, Concludes
    <3> QED BY <1>2, <2>0, <3>1
  <2>3. CASE AssessVerifies
    BY <1>1, <2>0, <2>3 DEF AssessVerifies
  <2>4. CASE RequestSent \/ BothDecided
    BY <1>1, <1>2, <2>0, <2>4 DEF RequestSent, BothDecided, core
  <2>5. CASE ResultSent
    BY <1>1, <1>2, <2>0, <2>5 DEF ResultSent
  <2>6. CASE NoticeSent
    <3>1. CASE gate' = [gate EXCEPT !["alice"] = "RECONNECTING"]
      BY <1>0, <3>1 DEF Quiet
    <3> QED BY <1>1, <2>6, <3>1, Zenon DEF NoticeSent
  <2>7. ~GuardFailed /\ ~Conclude
    BY <1>4 DEF GuardFailed, Conclude
  <2> QED BY <2>1, <2>2, <2>3, <2>4, <2>5, <2>6, <2>7 DEF MeasureStep
<1>5. CASE Conclude
  <2>1. task["measure"] = "conclude" /\ dual["alice"] = NoDual
    BY <1>5 DEF Conclude, AsksOK, Responding
  <2>2. CASE gate["alice"] \notin {"ACTIVE", "VERIFYING"}
    <3>1. gate' = gate
      BY <1>5, <2>2 DEF Conclude, Concludes
    <3> QED BY <1>2, <2>2, <3>1
  <2>3. CASE Silent
    <3>1. gate["alice"] = "VERIFYING" /\ approved # 0
      BY <2>3 DEF Silent
    <3>2. CASE conn' = conn /\ Sends("measure", "resume", Notice("ready"), link)
      BY <3>2 DEF Sends, SaysReady
    <3>3. CASE Goto("measure", "off")
      BY <1>0, <3>3 DEF Goto, Quiet
    <3> QED BY <1>5, <2>1, <3>1, <3>2, <3>3 DEF Conclude, Concludes
  <2> QED BY <2>1, <2>2, <2>3 DEF Quiet
<1>6. task["measure"] \in {"off", "failed", "proof", "confirm", "conclude"} => GuardFailed \/ Conclude
  BY DEF MeasureStep, LoopHead, Heartbeat, PingSent, HeartbeatStops, AssessKeeps, AssessRotates,
     AssessVerifies, AtAssess, RequestSent, BothDecided, RespondTimesOut, Responding, ResultSent,
     NoticeSent
<1> QED BY <1>3, <1>4, <1>5, <1>6

(* in recover,                                                                *)
LEMMA RecoveryQuiet ==
  ASSUME IType, NumbersOK, Quiet, conn'["alice"] = conn["alice"],
         \/ RecoveryStep("measure") \/ Redialled("measure") \/ RedialFails("measure")
  PROVE  Quiet'
<1>0. /\ CoreOK /\ CountOK /\ "alice" \in Role /\ "measure" \in Tasks /\ gate \in [Role -> State]
      /\ task \in [Tasks -> Places] /\ conn \in [Role -> Refs] /\ Refs \subseteq Nat
  BY TypeParts, EndpointAssumption
     DEF IType, EndpointOK, AliceOK, Role, Tasks, CoreOK, TaskOK, Refs
<1>1. ASSUME NEW l, Raises("measure", l) PROVE Quiet'
  <2>1. task'["measure"] \in {"off", "failed"}
    BY <1>0, <1>1, RaisesAlice
  <2> QED BY <2>1 DEF Quiet
<1>2. ASSUME gate'["alice"] = gate["alice"], gate["alice"] \notin {"ACTIVE", "VERIFYING"} PROVE Quiet'
  BY <1>2 DEF Quiet
<1>3. CASE RecoverBegins("measure") \/ RedialFails("measure")
  <2>1. task["measure"] \in {"close", "establish"}
    BY <1>3 DEF RecoverBegins, RedialFails, EstablishFails
  <2>2. gate["alice"] \notin {"ACTIVE", "VERIFYING"}
    BY <2>1 DEF Quiet, Silent
  <2> QED BY <1>1, <1>2, <1>3, <2>2 DEF RecoverBegins, RedialFails, EstablishFails, core
<1>4. CASE ProofSent("measure") \/ Recovered("measure")
  <2>1. CASE /\ Goto("measure", "confirm") \/ Goto("measure", "conclude")
             /\ task["measure"] \in {"proof", "confirm"} /\ UNCHANGED <<gate, approved>>
    <3>1. task'["measure"] \in {"confirm", "conclude"}
      BY <1>0, <2>1 DEF Goto
    <3> QED BY <2>1, <3>1 DEF Quiet, Silent
  <2>2. \A l : ~Raises("measure", l) =>
           \/ /\ Goto("measure", "confirm") \/ Goto("measure", "conclude")
              /\ task["measure"] \in {"proof", "confirm"} /\ UNCHANGED <<gate, approved>>
           \/ Raises("measure", link)
    BY <1>4 DEF ProofSent, Recovered, core
  <2> QED BY <1>1, <2>1, <2>2
<1>5. CASE Resumed("measure")
  <2>1. gate["alice"] \notin {"ACTIVE", "VERIFYING"}
    BY <1>5 DEF Resumed, Quiet, Silent
  <2>2. ~CanMove(gate["alice"], "ACTIVE")
    BY <1>0, <2>1 DEF CanMove, TRANSITIONS, State
  <2> QED BY <1>1, <1>5, <2>2 DEF Resumed
<1>6. CASE Redialled("measure")
  <2>1. PICK c \in Conns : Established(c) /\ Reconnected("measure", c, LinkUp(c))
    BY <1>6 DEF Redialled
  <2>2. c = conns + 1 /\ conn["alice"] <= conns /\ conns \in Nat /\ conn["alice"] \in Nat
    BY <1>0, <2>1 DEF Established, NumbersOK, CountOK
  <2>3. conn' # [conn EXCEPT !["alice"] = c]
    BY <1>0, <2>2
  <2> QED BY <1>1, <2>1, <2>3, Zenon DEF Reconnected
<1> QED BY <1>3, <1>4, <1>5, <1>6 DEF RecoveryStep

(* and in every step of hers.                                                 *)
LEMMA AliceQuiet ==
  ASSUME IType, IdleOK, NoBurst, MaxBursts = 0, NumbersOK, AsksOK, Quiet, AliceStep,
         conn'["alice"] = conn["alice"]
  PROVE  Quiet' \/ SaysReady
<1>0. /\ TypeOK /\ SeatOK /\ Wires(link, Spoken) /\ Held(reader, Spoken) /\ "alice" \in Role
      /\ BoundOK /\ CoreOK /\ CountOK /\ gate \in [Role -> State] /\ task \in [Tasks -> Places]
      /\ "measure" \in Tasks /\ conn \in [Role -> Refs] /\ Refs \subseteq Nat
  BY TypeParts, EndpointAssumption
     DEF IType, EndpointOK, AliceOK, Role, Tasks, CoreOK, TaskOK, Refs
<1>1. ASSUME task'["measure"] = task["measure"], approved' = approved,
             gate'["alice"] \in {gate["alice"], "RESTRICTED", "CLOSED", "CONNECTING"}
      PROVE  Quiet'
  BY <1>1 DEF Quiet, Silent
<1>2. CASE OwnStep("alice")
  <2>1. task' = task /\ gate'["alice"] \in {gate["alice"], "RESTRICTED", "CLOSED"}
    BY <1>2, OwnStepAlice
  <2>2. approved' = approved
    <3>1. CASE Answers("alice") \/ (LinkFails("alice", conn["alice"]) /\ OfEither)
      BY <3>1 DEF Answers, Confirm, LinkFails, OfEither, aliceVars
    <3>2. CASE CommandStep("alice") \/ TabCloses("alice") \/ Timeouts("alice")
      BY <3>2 DEF CommandStep, Decide, AliceStops, SendShutdown, AliceDisconnectEnds,
         DisconnectEnds, TabCloses, ConfirmAbandoned, DisconnectAbandoned, StopAbandoned, Timeouts,
         VerificationEnds, OfEither, aliceVars
    <3>3. CASE Reads("alice")
      BY <3>3, AliceReadsOne DEF Reads, ReaderSeesClose, ReaderSent, EndOfStream, LinkFails,
         OfEither, aliceVars
    <3> QED BY <1>2, <3>1, <3>2, <3>3 DEF OwnStep
  <2> QED BY <1>1, <2>1, <2>2
<1>3. CASE Measures \/ Replaces
  BY <1>3, OnlyMeasures, MeasureQuiet, RecoveryQuiet
<1>4. CASE Bursts
  BY <1>0, <1>4 DEF Bursts, BoundOK
<1>5. CASE Connects
  <2>1. UNCHANGED <<task, approved>> /\ gate' = [gate EXCEPT !["alice"] = "CONNECTING"]
    BY <1>5 DEF Connects, Connect, aliceVars
  <2> QED BY <1>0, <1>1, <2>1
<1>6. CASE Dialled
  <2>1. PICK c \in Conns : Established(c) /\ Connected(c)
    BY <1>6 DEF Dialled
  <2>2. conn'["alice"] = conns + 1 /\ conns \in Nat
    BY <1>0, <2>1 DEF Connected, Established, CountOK
  <2>3. conn["alice"] <= conns /\ conn["alice"] \in Nat
    BY <1>0 DEF NumbersOK
  <2> QED BY <2>2, <2>3
<1>7. CASE DialFails
  <2>1. UNCHANGED <<task, approved>>
    BY <1>7 DEF DialFails, ConnectFails, ConnectAbandoned, aliceVars
  <2>2. gate'["alice"] \in {gate["alice"], "RESTRICTED"}
    BY <1>0, <1>7 DEF DialFails, ConnectFails, ConnectAbandoned, Restricts, core
  <2> QED BY <1>1, <2>1, <2>2
<1>8. CASE AliceDisconnectBegins
  <2>1. task'["measure"] = "off"
    BY <1>0, <1>8 DEF AliceDisconnectBegins
  <2> QED BY <2>1 DEF Quiet
<1> QED BY <1>2, <1>3, <1>4, <1>5, <1>6, <1>7, <1>8 DEF AliceStep

-------------------------------------------------------------------------------
(* Where measure_loop takes her: it asks on the connection she has.           *)
LEMMA MeasureGoes ==
  ASSUME IType, MeasureStep
  PROVE  /\ task'["measure"] \notin {"establish", "proof", "confirm"}
         /\ task'["measure"] \in {"request", "ready"} =>
               /\ conn'["alice"] = conn["alice"]
               /\ \/ task["measure"] \in {"request", "ready"}
                  \/ \E m \in Message : link' = Put(link, "alice", conn["alice"], m)
<1> DEFINE Goes ==
       /\ task'["measure"] \notin {"establish", "proof", "confirm"}
       /\ task'["measure"] \in {"request", "ready"} =>
             /\ conn'["alice"] = conn["alice"]
             /\ \/ task["measure"] \in {"request", "ready"}
                \/ \E m \in Message : link' = Put(link, "alice", conn["alice"], m)
<1>0. /\ CoreOK /\ "alice" \in Role /\ "measure" \in Tasks /\ task \in [Tasks -> Places]
      /\ ids \in 0 .. MaxIds /\ 0 .. MaxIds \subseteq Nat
  BY TypeParts, EndpointAssumption
     DEF IType, EndpointOK, AliceOK, Role, Tasks, CoreOK, TaskOK, CountOK
<1>1. ASSUME NEW l, Raises("measure", l) PROVE Goes
  <2>1. task'["measure"] \in {"off", "failed"}
    BY <1>0, <1>1, RaisesAlice
  <2> QED BY <2>1
<1>2. ASSUME NEW pc \in {"off", "loop", "sleep", "pong", "conclude", "close"}, Goto("measure", pc)
      PROVE  Goes
  <2>1. task'["measure"] = pc
    BY <1>0, <1>2 DEF Goto
  <2> QED BY <2>1
<1>3. ASSUME NEW pc \in {"ping", "result", "notice", "resume"}, NEW m, Sends("measure", pc, m, link)
      PROVE  Goes
  <2>1. task'["measure"] = pc
    BY <1>0, <1>3 DEF Goto, Sends
  <2> QED BY <2>1
<1> HIDE DEF Goes
<1>4. ASSUME Concludes PROVE Goes
  BY <1>2, <1>3, <1>4 DEF Concludes
<1>5. ASSUME GuardFailed \/ LoopHead PROVE Goes
  BY <1>2, <1>5 DEF GuardFailed, LoopHead
<1>6. ASSUME Heartbeat \/ PingSent PROVE Goes
  BY <1>1, <1>2, <1>3, <1>6 DEF Heartbeat, PingSent
<1>7. ASSUME HeartbeatStops \/ AssessRotates \/ RespondTimesOut PROVE Goes
  BY <1>1, <1>7 DEF HeartbeatStops, AssessRotates, RespondTimesOut
<1>8. ASSUME Conclude \/ AssessKeeps PROVE Goes
  BY <1>4, <1>8 DEF Conclude, AssessKeeps
<1>9. ASSUME AssessVerifies PROVE Goes
  <2> DEFINE recovery == guard = "verified"
  <2>1. CASE ~Raises("measure", link)
    <3>1. /\ ids < MaxIds /\ conn' = conn
          /\ Sends("measure", "request", Msg("verify_request", ids + 1, recovery), link)
      BY <1>9, <2>1, Zenon DEF AssessVerifies
    <3>2. recovery \in BOOLEAN /\ ids + 1 \in 0 .. MaxIds
      BY <1>0, <3>1, EndpointAssumption
    <3> HIDE DEF recovery
    <3>3. PICK m \in Message : m = Msg("verify_request", ids + 1, recovery)
      BY <3>2, ValuesOK
    <3>4. task'["measure"] = "request" /\ link' = Put(link, "alice", conn["alice"], m)
      BY <1>0, <3>1, <3>3 DEF Sends, Goto
    <3> QED BY <3>1, <3>4 DEF Goes
  <2> QED BY <1>1, <2>1
<1>10. ASSUME RequestSent PROVE Goes
  <2>1. CASE UNCHANGED core /\ Goto("measure", "ready") /\ task["measure"] = "request"
    BY <1>0, <2>1 DEF core, Goto, Goes
  <2> QED BY <1>1, <1>10, <2>1 DEF RequestSent
<1>11. ASSUME BothDecided PROVE Goes
  BY <1>1, <1>3, <1>11 DEF BothDecided
<1>12. ASSUME ResultSent PROVE Goes
  BY <1>1, <1>2, <1>3, <1>12 DEF ResultSent
<1>13. ASSUME NoticeSent PROVE Goes
  BY <1>1, <1>2, <1>13 DEF NoticeSent
<1>14. Goes
  BY <1>5, <1>6, <1>7, <1>8, <1>9, <1>10, <1>11, <1>12, <1>13 DEF MeasureStep
<1> QED BY <1>14 DEF Goes

(* Where recover does                                                         *)
LEMMA RecoveryGoes ==
  ASSUME IType, Recovers, \/ RecoveryStep("measure") \/ Redialled("measure") \/ RedialFails("measure")
  PROVE  task'["measure"] \notin {"request", "ready"} /\ Recovers'
<1>0. /\ CoreOK /\ "alice" \in Role /\ "measure" \in Tasks /\ task \in [Tasks -> Places]
  BY TypeParts DEF IType, EndpointOK, AliceOK, Role, Tasks, CoreOK, TaskOK
<1>1. ASSUME NEW l, Raises("measure", l) PROVE task'["measure"] \notin {"request", "ready"} /\ Recovers'
  <2>1. task'["measure"] \in {"off", "failed"}
    BY <1>0, <1>1, RaisesAlice
  <2> QED BY <2>1 DEF Recovers
<1>2. ASSUME NEW pc \in {"establish", "proof", "confirm"}, task' = [task EXCEPT !["measure"] = pc],
             approved' = approved, approved # 0
      PROVE  task'["measure"] \notin {"request", "ready"} /\ Recovers'
  <2>1. task'["measure"] = pc
    BY <1>0, <1>2
  <2> QED BY <1>2, <2>1 DEF Recovers
<1>3. ASSUME NEW pc \in {"conclude", "resume", "loop"}, task' = [task EXCEPT !["measure"] = pc]
      PROVE  task'["measure"] \notin {"request", "ready"} /\ Recovers'
  <2>1. task'["measure"] = pc
    BY <1>0, <1>3
  <2> QED BY <2>1 DEF Recovers
<1>4. CASE RecoverBegins("measure")
  BY <1>1, <1>2, <1>4 DEF RecoverBegins, Goto
<1>5. CASE ProofSent("measure")
  BY <1>1, <1>2, <1>5 DEF ProofSent, Recovers, Goto
<1>6. CASE Recovered("measure")
  BY <1>1, <1>3, <1>6 DEF Recovered, Goto
<1>7. CASE Resumed("measure")
  BY <1>1, <1>3, <1>7 DEF Resumed, Goto
<1>8. CASE Redialled("measure")
  <2>1. PICK c \in Conns : Reconnected("measure", c, LinkUp(c))
    BY <1>8 DEF Redialled
  <2>2. CASE Sends("measure", "proof", Msg("verification_result", approved, TRUE), LinkUp(c))
    <3>1. task' = [task EXCEPT !["measure"] = "proof"] /\ approved' = approved /\ approved # 0
      BY <2>1, <2>2 DEF Sends, Goto, Reconnected, Recovers
    <3> QED BY <1>2, <3>1
  <2> QED BY <1>1, <2>1, <2>2, Zenon DEF Reconnected
<1>9. CASE RedialFails("measure")
  <2>1. PICK l : EstablishFails("measure", l)
    BY <1>9 DEF RedialFails
  <2>2. CASE task' = task
    BY <2>1, <2>2 DEF EstablishFails, Recovers
  <2> QED BY <1>1, <2>1, <2>2, Zenon DEF EstablishFails
<1> QED BY <1>4, <1>5, <1>6, <1>7, <1>8, <1>9 DEF RecoveryStep

(* What of her place the readers, the commands and the timers leave alone     *)
LEMMA OwnStepPlace ==
  ASSUME IType, OwnStep("alice")
  PROVE  task' = task /\ conn' = conn /\ approved' = approved
<1>0. TypeOK /\ SeatOK /\ Wires(link, Spoken) /\ Held(reader, Spoken) /\ "alice" \in Role
  BY DEF IType, Role
<1>1. task' = task /\ conn' = conn
  BY <1>0, OwnStepConn, OwnStepAlice
<1>2. CASE Answers("alice") \/ (LinkFails("alice", conn["alice"]) /\ OfEither)
  BY <1>1, <1>2 DEF Answers, Confirm, LinkFails, OfEither, aliceVars
<1>3. CASE CommandStep("alice") \/ TabCloses("alice") \/ Timeouts("alice")
  BY <1>1, <1>3 DEF CommandStep, Decide, AliceStops, SendShutdown, AliceDisconnectEnds,
     DisconnectEnds, TabCloses, ConfirmAbandoned, DisconnectAbandoned, StopAbandoned, Timeouts,
     VerificationEnds, OfEither, aliceVars
<1>4. CASE Reads("alice")
  BY <1>1, <1>4, AliceReadsOne DEF Reads, ReaderSeesClose, ReaderSent, EndOfStream, LinkFails,
     OfEither, aliceVars
<1> QED BY <1>2, <1>3, <1>4 DEF OwnStep

(* Every step of hers                                                         *)
LEMMA AliceGoes ==
  ASSUME IType, IdleOK, NoBurst, MaxBursts = 0, Recovers, AliceStep
  PROVE  /\ Recovers'
         /\ task'["measure"] \in {"request", "ready"} =>
               /\ conn'["alice"] = conn["alice"]
               /\ \/ task["measure"] \in {"request", "ready"}
                  \/ \E m \in Message : link' = Put(link, "alice", conn["alice"], m)
<1>0. BoundOK /\ CoreOK /\ "alice" \in Role /\ "measure" \in Tasks /\ task \in [Tasks -> Places]
  BY TypeParts DEF IType, EndpointOK, AliceOK, Role, Tasks, CoreOK, TaskOK
<1>1. CASE UNCHANGED <<task, conn, approved>>
  BY <1>1 DEF Recovers
<1>2. CASE task'["measure"] \in {"off", "assess"}
  BY <1>2 DEF Recovers
<1>3. CASE OwnStep("alice")
  BY <1>1, <1>3, OwnStepPlace
<1>4. CASE MeasureStep
  BY <1>4, MeasureGoes DEF Recovers
<1>5. CASE \/ RecoveryStep("measure") \/ Redialled("measure") \/ RedialFails("measure")
  BY <1>5, RecoveryGoes
<1>6. CASE Bursts
  BY <1>0, <1>6 DEF Bursts, BoundOK
<1>7. CASE Connects
  <2>1. UNCHANGED task /\ (gate["alice"] \in {"LOCKED", "CLOSED"} \/ guard = "none")
    BY <1>7 DEF Connects, Connect, aliceVars
  <2>2. task'["measure"] = "off"
    BY <1>0, <2>1 DEF IdleOK, Idle
  <2> QED BY <1>2, <2>2
<1>8. CASE Dialled
  <2>1. PICK c \in Conns : Connected(c)
    BY <1>8 DEF Dialled
  <2>2. task'["measure"] = "assess"
    BY <1>0, <2>1 DEF Connected, Goto
  <2> QED BY <1>2, <2>2
<1>9. CASE DialFails
  BY <1>1, <1>9 DEF DialFails, ConnectFails, ConnectAbandoned, Restricts, core, aliceVars
<1>10. CASE AliceDisconnectBegins
  BY <1>0, <1>2, <1>10 DEF AliceDisconnectBegins
<1> QED BY <1>3, <1>4, <1>5, <1>6, <1>7, <1>8, <1>9, <1>10, OnlyMeasures DEF AliceStep

(* She has a comparison pending only while she asks for it.                   *)
LEMMA AliceAsksOK ==
  ASSUME IType, AnswersOK, IdleOK, NoBurst, MaxBursts = 0, AsksOK, AliceStep
  PROVE  AsksOK'
<1>0. /\ BoundOK /\ CoreOK /\ "alice" \in Role /\ "measure" \in Tasks /\ task \in [Tasks -> Places]
      /\ dual \in [Role -> Dual]
  BY TypeParts DEF IType, EndpointOK, AliceOK, Role, Tasks, CoreOK, TaskOK
<1>1. CASE OwnStep("alice")
  <2>1. task' = task
    BY <1>1, OwnStepPlace
  <2>2. Kept("alice") \/ PeerCounts("alice") \/ OwnCounts("alice")
    BY <1>0, <1>1, OwnStepDual
  <2>3. OwnCounts("alice") => dual["alice"] # NoDual
    BY <1>0, EndpointAssumption DEF OwnCounts, AnswersOK, HonestCommand, NoDual, Ids
  <2>4. dual'["alice"] # NoDual => dual["alice"] # NoDual
    BY <2>2, <2>3 DEF Kept, PeerCounts
  <2> QED BY <2>1, <2>4 DEF AsksOK, Responding
<1>2. CASE ~OwnStep("alice")
  <2>1. CASE AssessVerifies /\ dual'["alice"] = NewDual(ids + 1, guard = "verified")
    <3>1. ~Raises("measure", link)
      <4>1. dual'["alice"].ready = "waiting"
        BY <2>1 DEF NewDual
      <4> QED BY <1>0, <4>1, RaisesAlice
    <3>2. Sends("measure", "request", Msg("verify_request", ids + 1, guard = "verified"), link)
      BY <2>1, <3>1, Zenon DEF AssessVerifies
    <3>3. task'["measure"] = "request"
      BY <1>0, <3>2 DEF Sends, Goto
    <3> QED BY <3>3 DEF AsksOK, Responding
  <2>2. CASE dual'["alice"] = NoDual
    BY <2>2 DEF AsksOK
  <2>3. CASE Responding /\ dual'["alice"] # NoDual
    <3>1. ASSUME NEW l, Raises("measure", l) PROVE FALSE
      <4>1. dual' = [dual EXCEPT !["alice"] = NoDual]
        BY <3>1 DEF Raises, Restricts
      <4> QED BY <1>0, <2>3, <4>1
    <3>2. ASSUME NEW pc \in {"ready", "result", "notice"}, Goto("measure", pc) PROVE AsksOK'
      <4>1. task'["measure"] = pc
        BY <1>0, <3>2 DEF Goto
      <4> QED BY <4>1 DEF AsksOK, Responding
    <3>3. CASE MeasureStep
      <4>1. RequestSent \/ BothDecided \/ RespondTimesOut \/ ResultSent \/ NoticeSent
        BY <2>3, <3>3 DEF MeasureStep, Responding, GuardFailed, LoopHead, Heartbeat, PingSent,
           HeartbeatStops, Conclude, AssessKeeps, AssessRotates, AssessVerifies, AtAssess
      <4>2. CASE RequestSent \/ BothDecided \/ RespondTimesOut
        BY <3>1, <3>2, <4>2 DEF RequestSent, BothDecided, RespondTimesOut, Sends
      <4>3. CASE ResultSent \/ NoticeSent
        <5>1. CASE dual' = [dual EXCEPT !["alice"] = NoDual]
          BY <1>0, <2>3, <5>1
        <5> QED BY <3>1, <3>2, <4>3, <5>1 DEF ResultSent, NoticeSent, Sends
      <4> QED BY <4>1, <4>2, <4>3
    <3>4. CASE \/ RecoveryStep("measure") \/ Redialled("measure") \/ RedialFails("measure")
      BY <2>3, <3>4 DEF Responding, RecoveryStep, RecoverBegins, ProofSent, Recovered, Resumed,
         Redialled, Reconnected, RedialFails, EstablishFails
    <3>5. CASE Bursts
      BY <1>0, <3>5 DEF Bursts, BoundOK
    <3>6. CASE Connects \/ Dialled \/ DialFails
      <4>1. Idle
        BY <3>6 DEF Idle, Connects, Connect, Dialled, Connected, DialFails, ConnectFails,
           ConnectAbandoned
      <4>2. task["measure"] = "off"
        BY <1>0, <4>1 DEF IdleOK
      <4> QED BY <2>3, <4>2 DEF Responding
    <3>7. CASE AliceDisconnectBegins
      <4>1. dual' = [dual EXCEPT !["alice"] = NoDual]
        BY <2>3, <3>7 DEF AliceDisconnectBegins
      <4> QED BY <1>0, <2>3, <4>1
    <3> QED BY <1>2, <3>3, <3>4, <3>5, <3>6, <3>7, OnlyMeasures DEF AliceStep
  <2>4. Kept("alice") \/ (AssessVerifies /\ dual'["alice"] = NewDual(ids + 1, guard = "verified"))
    BY <1>2, AliceStepDual
  <2> QED BY <2>1, <2>2, <2>3, <2>4 DEF Kept, AsksOK
<1> QED BY <1>1, <1>2

-------------------------------------------------------------------------------
(* Bob is owed a ready: he has the proof of the recovery he reserved.         *)
Owed == resume # NoResume /\ gate["bob"] = "VERIFYING"

(* What is on its way to him                                                  *)
ToBob(c) == link[c].wire["bob"]

(* Connection c has, or brings, the proof.                                    *)
Proven(c) ==
    /\ link[c].up["bob"]
    /\ (Owed /\ c = conn["bob"]) \/ (cand[c].pc # "none" /\ FirstProof(ToBob(c)))

(* What he waits for leaves no room for another comparison.                   *)
WaitsAlone ==
    /\ resume # NoResume => dual["bob"] = NoDual /\ gate["bob"] \in {"RECONNECTING", "VERIFYING"}
    /\ dual["bob"] # NoDual => gate["bob"] \notin {"ACTIVE", "RECONNECTING"}
(* and a request does not wait for the lock meanwhile.                        *)
NotAskedYet == Owed => ~(reader["bob"].pc = "lock" /\ reader["bob"].msg.type = "verify_request")

(* Every connection that has the proof has its ready before any request.      *)
ReadyAhead == \A c \in Conns : Proven(c) => ReadyFirst(ToBob(c))

(* Bob's own steps only lose what was sent to him,                            *)
Loses(l, k) ==
    \A c \in Conns :
       /\ k[c].wire["bob"] \in {l[c].wire["bob"], <<>>}
       /\ k[c].up["bob"] => l[c].up["bob"] /\ k[c].wire["bob"] = l[c].wire["bob"]

(* and end what he waits for,                                                 *)
Gone ==
    gate'["bob"] \in {"RESTRICTED", "CLOSED"} /\ resume' = NoResume /\ dual'["bob"] = NoDual
(* or leave it.                                                               *)
Left ==
    /\ gate'["bob"] = gate["bob"] /\ resume' = resume
    /\ dual["bob"] = NoDual => dual'["bob"] = NoDual

(* So does a close,                                                           *)
LEMMA BobShuts ==
  ASSUME NEW l \in Links, NEW c \in Refs
  PROVE  Loses(l, Shut(l, "bob", c))
<1>1. "bob" \in Role
  BY DEF Role
<1>2. ASSUME NEW d \in Conns
      PROVE  /\ Shut(l, "bob", c)[d].wire["bob"] \in {l[d].wire["bob"], <<>>}
             /\ Shut(l, "bob", c)[d].up["bob"] =>
                   l[d].up["bob"] /\ Shut(l, "bob", c)[d].wire["bob"] = l[d].wire["bob"]
  <2>1. CASE d # c
    <3>1. Shut(l, "bob", c)[d] = l[d]
      BY <1>1, <2>1, ShutElse
    <3> QED BY <3>1
  <2>2. CASE d = c
    <3>1. Shut(l, "bob", c)[d].up["bob"] = FALSE /\ Shut(l, "bob", c)[d].wire["bob"] = <<>>
      BY <1>1, <2>2, ShutElse
    <3> QED BY <3>1
  <2> QED BY <2>1, <2>2
<1> QED BY <1>2 DEF Loses

(* a frame he sends himself,                                                  *)
LEMMA BobPuts ==
  ASSUME NEW l \in Links, NEW c \in Conns, NEW m \in Message
  PROVE  Loses(l, Put(l, "bob", c, m))
<1>1. "bob" \in Role
  BY DEF Role
<1> QED BY <1>1, PutElse DEF Loses

(* restricting,                                                               *)
LEMMA BobRestricts ==
  ASSUME CoreOK, NEW l \in Links, Restricts("bob", l)
  PROVE  Loses(l, link') /\ conn' = conn /\ Gone
<1>1. conn["bob"] \in Refs /\ "bob" \in Role /\ gate \in [Role -> State] /\ dual \in [Role -> Dual]
  BY DEF CoreOK, Role
<1>2. Loses(l, link')
  BY <1>1, BobShuts DEF Restricts
<1>3. Gone
  BY <1>1 DEF Restricts, Gone
<1> QED BY <1>2, <1>3 DEF Restricts

(* and the exception of his reader, which closes its connection at least.     *)
LEMMA BobRaises ==
  ASSUME CoreOK, ReaderOK, NEW l \in Links, ReaderRaises("bob", l)
  PROVE  /\ Loses(l, link') /\ conn' = conn /\ reader'["bob"].pc = "off"
         /\ Gone \/ (/\ Left
                     /\ reader["bob"].conn \in Conns => ~link'[reader["bob"].conn].up["bob"])
<1>1. reader["bob"].conn \in Refs /\ "bob" \in Role /\ reader \in [Role -> Readers]
  BY DEF ReaderOK, Readers, Role
<1>2. reader'["bob"].pc = "off"
  BY <1>1 DEF ReaderRaises, NoReader
<1>3. CASE Restricts("bob", l)
  BY <1>2, <1>3, BobRestricts
<1>4. CASE link' = Shut(l, "bob", reader["bob"].conn) /\ UNCHANGED <<gate, conn, dual, resume>>
  <2>1. Loses(l, link')
    BY <1>1, <1>4, BobShuts
  <2>2. reader["bob"].conn \in Conns => ~link'[reader["bob"].conn].up["bob"]
    <3>1. PICK c \in Refs : c = reader["bob"].conn
      BY <1>1
    <3>2. c \in Conns => Shut(l, "bob", c)[c].up["bob"] = FALSE
      BY <1>1, ShutElse
    <3> QED BY <1>4, <3>1, <3>2, Zenon
  <2> QED BY <1>2, <1>4, <2>1, <2>2 DEF Left
<1> QED BY <1>3, <1>4 DEF ReaderRaises

(* Both keep it so.                                                           *)
LEMMA LeftWaits ==
  ASSUME WaitsAlone, Gone \/ Left
  PROVE  WaitsAlone' /\ (Owed' => Owed)
BY DEF WaitsAlone, Gone, Left, Owed

(* His handlers: only the proof makes him wait for a ready, and a ready never *)
(* leaves him waiting on an open connection.                                  *)
LEMMA BobHandleKeeps ==
  ASSUME IType, WaitsAlone, NEW m \in Message, NEW l \in Links, m.type \notin {"none", "pong"},
         BobHandle(m, l), reader["bob"].conn = conn["bob"], conn["bob"] \in Conns,
         Owed => m.type # "verify_request"
  PROVE  /\ Loses(l, link') /\ conn'["bob"] = conn["bob"] /\ WaitsAlone' /\ (Owed' => Owed)
         /\ m.type = "ready" /\ Owed' => ~link'[conn["bob"]].up["bob"]
<1>0. /\ CoreOK /\ ReaderOK /\ HistOK /\ "bob" \in Role /\ "alice" \in Role /\ gate \in [Role -> State]
      /\ dual \in [Role -> Dual] /\ resume \in Resumes
  BY TypeParts DEF IType, EndpointOK, CoreOK, HistOK, Role
<1>1. CASE Restricts("bob", l)
  <2>1. Loses(l, link') /\ conn' = conn /\ Gone
    BY <1>0, <1>1, BobRestricts
  <2>2. WaitsAlone' /\ (Owed' => Owed)
    BY <2>1, LeftWaits
  <2>3. ~Owed'
    BY <2>1 DEF Gone, Owed
  <2> QED BY <2>1, <2>2, <2>3
<1>2. CASE ReaderRaises("bob", l) \/ Refuse("bob", l)
  <2>1. ReaderRaises("bob", l)
    BY <1>2 DEF Refuse
  <2>2. /\ Loses(l, link') /\ conn' = conn
        /\ Gone \/ (Left /\ ~link'[conn["bob"]].up["bob"])
    BY <1>0, <2>1, BobRaises
  <2>3. WaitsAlone' /\ (Owed' => Owed)
    BY <2>2, LeftWaits
  <2>4. Gone => ~Owed'
    BY DEF Gone, Owed
  <2> QED BY <2>2, <2>3, <2>4
<1>3. Loses(l, l)
  BY DEF Loses
<1>4. CASE link' = l /\ UNCHANGED <<gate, conn, dual, resume>> /\ m.type # "ready"
  <2>1. WaitsAlone' /\ (Owed' => Owed)
    BY <1>4, LeftWaits DEF Left
  <2> QED BY <1>3, <1>4, <2>1
<1>5. CASE m.type = "verify_request" /\ BobVerifyRequest(m, l)
  <2>1. CASE /\ dual["bob"] = NoDual /\ gate["bob"] \in {"ACTIVE", "VERIFYING"}
             /\ BeginVerification("bob", m.id, m.flag) /\ link' = l /\ UNCHANGED <<conn, resume>>
    <3>1. resume = NoResume
      BY <1>5, <2>1 DEF WaitsAlone, Owed
    <3>2. gate'["bob"] = "VERIFYING"
      BY <1>0, <2>1 DEF BeginVerification
    <3> QED BY <1>3, <1>5, <2>1, <3>1, <3>2 DEF WaitsAlone, Owed
  <2> QED BY <1>2, <1>5, <2>1, Zenon DEF BobVerifyRequest
<1>6. CASE m.type = "verify_response" /\ HandleResponse("bob", m, l)
  <2>1. CASE dual["bob"] # NoDual /\ link' = l /\ UNCHANGED <<gate, conn, resume>>
    <3>1. Left
      BY <2>1 DEF Left
    <3>2. WaitsAlone' /\ (Owed' => Owed)
      BY <3>1, LeftWaits
    <3> QED BY <1>3, <1>6, <2>1, <3>2
  <2> QED BY <1>1, <1>2, <1>6, <2>1, Zenon DEF HandleResponse
<1>7. CASE m.type = "verification_result" /\ BobResult(m, l)
  <2>1. CASE ResultAgrees(m) /\ CanMove(gate["bob"], AfterResult(m))
    <3>1. /\ gate' = [gate EXCEPT !["bob"] = AfterResult(m)]
          /\ resume' = IF m.flag THEN [id |-> m.id, confirmed |-> FALSE] ELSE resume
          /\ dual' = [dual EXCEPT !["bob"] = NoDual] /\ conn' = conn /\ link' = l
      BY <1>7, <2>1, Zenon DEF BobResult
    <3>2. gate'["bob"] = (IF m.flag THEN "RECONNECTING" ELSE "ACTIVE") /\ dual'["bob"] = NoDual
      BY <1>0, <3>1 DEF AfterResult
    <3>3. resume = NoResume
      BY <2>1 DEF ResultAgrees, WaitsAlone
    <3>4. ~m.flag => resume' = NoResume
      BY <3>1, <3>3
    <3>5. WaitsAlone' /\ ~Owed'
      BY <3>2, <3>4 DEF WaitsAlone, Owed
    <3> QED BY <1>3, <1>7, <3>1, <3>5
  <2>2. CASE /\ resume # NoResume /\ dual["bob"] = NoDual /\ gate["bob"] = "VERIFYING"
             /\ Proves(conn["bob"], l) /\ UNCHANGED <<gate, conn, dual>>
    <3>1. PICK n \in Message : n = Notice("ready")
      BY ValuesOK
    <3>2. Loses(l, link')
      BY <2>2, <3>1, BobPuts DEF Proves
    <3>3. WaitsAlone' /\ Owed
      BY <2>2 DEF WaitsAlone, Owed
    <3> QED BY <1>7, <2>2, <3>2, <3>3
  <2> QED BY <1>2, <1>7, <2>1, <2>2, Zenon DEF BobResult
<1>8. CASE m.type = "demo_mode" /\ BobBurst(m, l)
  <2>1. CASE /\ gate["bob"] = "ACTIVE" /\ gate' = [gate EXCEPT !["bob"] = "RECONNECTING"]
             /\ link' = l /\ UNCHANGED <<conn, dual>>
    <3>1. gate'["bob"] = "RECONNECTING"
      BY <1>0, <2>1
    <3> QED BY <1>3, <1>8, <2>1, <3>1 DEF WaitsAlone, Owed
  <2> QED BY <1>2, <1>8, <2>1, Zenon DEF BobBurst
<1>9. CASE m.type = "ping" /\ BobPing(l)
  <2>1. CASE link' = Put(l, "bob", conn["bob"], Notice("pong")) /\ UNCHANGED <<gate, conn, dual, resume>>
    <3>1. PICK n \in Message : n = Notice("pong")
      BY ValuesOK
    <3>2. Loses(l, link')
      BY <2>1, <3>1, BobPuts
    <3>3. WaitsAlone' /\ (Owed' => Owed)
      BY <2>1, LeftWaits DEF Left
    <3> QED BY <1>9, <2>1, <3>2, <3>3
  <2> QED BY <1>2, <1>9, <2>1, Zenon DEF BobPing
<1>10. CASE m.type = "reconnect" /\ BobReconnect(l)
  BY <1>2, <1>4, <1>10, Zenon DEF BobReconnect
<1>11. CASE m.type = "ready" /\ BobReady(l)
  <2>1. CASE /\ resume.confirmed /\ gate' = [gate EXCEPT !["bob"] = "ACTIVE"] /\ resume' = NoResume
             /\ link' = l /\ UNCHANGED <<conn, dual>>
    <3>1. gate'["bob"] = "ACTIVE" /\ resume # NoResume
      BY <1>0, <2>1 DEF NoResume
    <3> QED BY <1>3, <2>1, <3>1 DEF WaitsAlone, Owed
  <2> QED BY <1>2, <1>11, <2>1, Zenon DEF BobReady
<1>12. CASE m.type = "shutdown" /\ HandleShutdown("bob", l)
  BY <1>1, <1>12 DEF HandleShutdown
<1> QED BY <1>5, <1>6, <1>7, <1>8, <1>9, <1>10, <1>11, <1>12, BobHandleCases

-------------------------------------------------------------------------------
(* What a step of Bob's does to his end of connection c: it opens no end and  *)
(* adds no frame, leaves a waiting connection alone, proves none by itself,   *)
(* and takes no ready from one that stays proven.                             *)
Serves(c) ==
    /\ ToBob(c) = <<>> => ToBob(c)' = <<>>
    /\ link'[c].up["bob"] => link[c].up["bob"]
    /\ link'[c].up["bob"] /\ cand'[c].pc # "none" => cand[c].pc # "none" /\ ToBob(c)' = ToBob(c)
    /\ Proven(c)' => /\ Proven(c)
                     /\ \/ ToBob(c)' = ToBob(c)
                        \/ /\ ToBob(c) # <<>> /\ Head(ToBob(c)).type # "ready"
                           /\ ToBob(c)' = Tail(ToBob(c))

(* Where he handles nothing                                                   *)
LEMMA RestServes ==
  ASSUME Loses(link, link'), conn'["bob"] = conn["bob"], Owed' => Owed,
         \A c \in Conns : cand'[c].pc # "none" => cand[c].pc # "none"
  PROVE  \A c \in Conns : Serves(c)
<1> SUFFICES ASSUME NEW c \in Conns PROVE Serves(c)
  OBVIOUS
<1>1. /\ ToBob(c)' \in {ToBob(c), <<>>}
      /\ link'[c].up["bob"] => link[c].up["bob"] /\ ToBob(c)' = ToBob(c)
  BY DEF Loses, ToBob
<1>2. Proven(c)' => Proven(c) /\ ToBob(c)' = ToBob(c)
  BY <1>1 DEF Proven
<1> QED BY <1>1, <1>2 DEF Serves

(* His reader handles a frame, or waits with one of a comparison.             *)
LEMMA BobReadsWhat ==
  ASSUME BobReceives \/ BobGetsLock
  PROVE  \E m, l : /\ Delivered("bob", m, l)
                   /\ BobHandle(m, l) \/ (Postpones("bob", l) /\ m.type # "ready")
<1> DEFINE c == reader["bob"].conn
           m == Head(link[c].wire["bob"])
           l == Take(link, "bob", c)
<1>1. CASE BobReceives
  <2>1. Delivered("bob", m, l)
    BY <1>1 DEF BobReceives, Delivered
  <2>2. BobHandle(m, l) \/ (Postpones("bob", l) /\ m.type \in VerifyTypes)
    BY <1>1, Zenon DEF BobReceives, Postpones
  <2>3. m.type \in VerifyTypes => m.type # "ready"
    BY DEF VerifyTypes
  <2> HIDE DEF m, l
  <2> QED BY <2>1, <2>2, <2>3
<1>2. CASE BobGetsLock
  BY <1>2 DEF BobGetsLock, Delivered
<1> QED BY <1>1, <1>2

(* When he reads                                                              *)
LEMMA ReadsServes ==
  ASSUME IType, NumbersOK, WaitsAlone, NotAskedYet, ReadyAhead, [Next]_vars, BobReceives \/ BobGetsLock
  PROVE  WaitsAlone' /\ NotAskedYet' /\ \A c \in Conns : Serves(c)
<1>0. /\ TypeOK /\ SeatOK /\ Wires(link, Spoken) /\ Held(reader, Spoken) /\ EndpointOK /\ CoreOK
      /\ ReaderOK /\ "bob" \in Role /\ link \in Links
  BY TypeParts DEF IType, EndpointOK, CoreOK, Role
<1>1. PICK m, l : /\ Delivered("bob", m, l)
                  /\ BobHandle(m, l) \/ (Postpones("bob", l) /\ m.type # "ready")
  BY BobReadsWhat
<1>2. m \in Message /\ l \in Links /\ m.type \notin {"none", "pong"}
  BY <1>1, DeliveredSpoken
<1>3. PICK b : b = conn["bob"]
  OBVIOUS
<1>4. reader["bob"].pc # "off" /\ b \in Conns /\ reader["bob"].conn = b
  BY <1>0, <1>1, <1>3 DEF Delivered, SeatOK
<1>5. /\ reader["bob"].pc = "recv" => /\ link[b].up["bob"] /\ ToBob(b) # <<>>
                                      /\ m = Head(ToBob(b)) /\ l = Take(link, "bob", b)
      /\ reader["bob"].pc # "recv" => reader["bob"].pc = "lock" /\ m = reader["bob"].msg /\ l = link
  BY <1>1, <1>4 DEF Delivered, Up, ToBob
<1>6. Owed => m.type # "verify_request"
  <2>1. ToBob(b) \in Seq(Message)
    BY <1>0, <1>4 DEF ToBob, Links, Ends
  <2>2. Owed /\ link[b].up["bob"] => ReadyFirst(ToBob(b))
    BY <1>3, <1>4 DEF ReadyAhead, Proven
  <2>3. Owed /\ reader["bob"].pc = "recv" => m.type # "verify_request"
    BY <1>5, <2>1, <2>2, TailReady
  <2> QED BY <1>5, <2>3 DEF NotAskedYet
<1>7. /\ Loses(l, link') /\ conn'["bob"] = b /\ WaitsAlone' /\ (Owed' => Owed)
      /\ m.type = "ready" /\ Owed' => ~link'[b].up["bob"]
  <2>1. CASE BobHandle(m, l)
    BY <1>2, <1>3, <1>4, <1>6, <2>1, BobHandleKeeps
  <2>2. CASE Postpones("bob", l) /\ m.type # "ready"
    <3>1. link' = l /\ UNCHANGED <<gate, conn, dual, resume>>
      BY <2>2 DEF Postpones
    <3>2. WaitsAlone' /\ (Owed' => Owed)
      BY <3>1, LeftWaits DEF Left
    <3>3. Loses(l, link')
      BY <3>1 DEF Loses
    <3> QED BY <1>3, <2>2, <3>1, <3>2, <3>3
  <2> QED BY <1>1, <2>1, <2>2
<1>8. NotAskedYet'
  <2>1. CASE BobHandle(m, l)
    <3>1. Stopped("bob") \/ Moved("bob")
      BY <1>0, <1>2, <1>4, <2>1, BobHandleMoves
    <3> QED BY <3>1 DEF Stopped, Moved, NotAskedYet
  <2>2. CASE reader'["bob"] = reader["bob"]
    BY <1>7, <2>2 DEF NotAskedYet
  <2>3. CASE Stopped("bob") \/ Moved("bob") \/ Started("bob")
    BY <2>3 DEF Stopped, Moved, Started, NotAskedYet
  <2>4. CASE Waits("bob")
    <3>1. reader'["bob"].msg = Head(ToBob(b)) /\ reader["bob"].pc = "recv"
      BY <1>4, <2>4 DEF Waits, ToBob
    <3> QED BY <1>5, <1>6, <1>7, <3>1 DEF NotAskedYet
  <2> QED BY <1>0, <2>2, <2>3, <2>4, ReaderMoves
<1>9. cand' = cand
  BY BobReadsOne DEF bobVars
<1>10. ASSUME NEW c \in Conns PROVE Serves(c)
  <2>1. /\ l[c].wire["bob"] # ToBob(c) => /\ c = b /\ ToBob(c) # <<>> /\ m = Head(ToBob(c))
                                          /\ l[c].wire["bob"] = Tail(ToBob(c))
        /\ l[c].up["bob"] = link[c].up["bob"]
    BY <1>0, <1>4, <1>5, TakeElse DEF ToBob
  <2>2. /\ ToBob(c)' \in {l[c].wire["bob"], <<>>}
        /\ link'[c].up["bob"] => l[c].up["bob"] /\ ToBob(c)' = l[c].wire["bob"]
    BY <1>7 DEF Loses, ToBob
  <2>3. CASE l[c].wire["bob"] = ToBob(c)
    <3>1. Proven(c)' => Proven(c) /\ ToBob(c)' = ToBob(c)
      BY <1>3, <1>7, <1>9, <2>1, <2>2, <2>3 DEF Proven
    <3> QED BY <1>9, <2>1, <2>2, <2>3, <3>1 DEF Serves
  <2>4. CASE l[c].wire["bob"] # ToBob(c)
    <3>1. cand[c].pc = "none"
      BY <1>3, <2>1, <2>4 DEF NumbersOK
    <3>2. Proven(c)' => Owed' /\ link'[c].up["bob"]
      BY <1>9, <3>1 DEF Proven
    <3>3. Proven(c)' => Proven(c) /\ Head(ToBob(c)).type # "ready" /\ ToBob(c)' = Tail(ToBob(c))
      BY <1>3, <1>7, <2>1, <2>2, <2>4, <3>2 DEF Proven
    <3> QED BY <1>9, <2>1, <2>2, <2>4, <3>1, <3>3 DEF Serves
  <2> QED BY <2>3, <2>4
<1> QED BY <1>7, <1>8, <1>10

(* His other steps that are about his own role                                *)
LEMMA OwnServes ==
  ASSUME IType, AnswersOK, WaitsAlone, NotAskedYet,
         \/ OwnStep("bob") /\ ~(BobReceives \/ BobGetsLock)
         \/ BobDisconnectBegins
  PROVE  WaitsAlone' /\ NotAskedYet' /\ \A c \in Conns : Serves(c)
<1>0. /\ TypeOK /\ SeatOK /\ Wires(link, Spoken) /\ Held(reader, Spoken) /\ EndpointOK /\ CoreOK
      /\ ReaderOK /\ CommandOK /\ "bob" \in Role /\ link \in Links /\ conn["bob"] \in Refs
      /\ cmd["bob"].conn \in Refs /\ reader["bob"].conn \in Refs /\ dual \in [Role -> Dual]
      /\ reader \in [Role -> Readers] /\ CountOK /\ gate \in [Role -> State]
  BY TypeParts DEF IType, EndpointOK, CoreOK, CommandOK, ReaderOK, Commands, Readers, Role
<1>1. Loses(link, link)
  BY DEF Loses
<1> DEFINE Fine ==
       /\ Loses(link, link') /\ conn'["bob"] = conn["bob"] /\ (Gone \/ Left)
       /\ reader'["bob"] = reader["bob"] \/ reader'["bob"].pc # "lock"
       /\ \A c \in Conns : cand'[c].pc # "none" => cand[c].pc # "none"
<1>2. ASSUME Restricts("bob", link), cand' = cand,
             reader'["bob"] = reader["bob"] \/ reader'["bob"].pc # "lock"
      PROVE  Fine
  BY <1>0, <1>2, BobRestricts
<1>3. ASSUME UNCHANGED <<gate, conn, dual, resume, cand>>, Loses(link, link'),
             reader'["bob"] = reader["bob"] \/ reader'["bob"].pc # "lock"
      PROVE  Fine
  BY <1>3 DEF Left
<1>4. ASSUME NEW m \in Message, CanControl("bob"), link' = Put(link, "bob", conn["bob"], m)
      PROVE  Loses(link, link')
  BY <1>0, <1>4, BobPuts, ControlOK
<1>5. ASSUME NEW c \in {conn["bob"], cmd["bob"].conn, reader["bob"].conn}, link' = Shut(link, "bob", c)
      PROVE  Loses(link, link')
  BY <1>0, <1>5, BobShuts
<1> HIDE DEF Fine
<1>6. ASSUME SendShutdown("bob"), cand' = cand PROVE Fine
  <2>1. PICK m \in Message : m = Notice("shutdown")
    BY ValuesOK
  <2>2. Loses(link, link')
    BY <1>1, <1>4, <1>6, <2>1, Zenon DEF SendShutdown
  <2> QED BY <1>3, <1>6, <2>2 DEF SendShutdown
<1>7. ASSUME Answers("bob") PROVE Fine
  <2>1. PICK id \in 1 .. ids, match \in BOOLEAN : Confirm("bob", id, match)
    BY <1>7 DEF Answers
  <2>2. PICK m \in Message : m = Msg("verify_response", id, match)
    <3>1. id \in 0 .. MaxIds
      BY <1>0, EndpointAssumption DEF CountOK
    <3> QED BY <3>1, ValuesOK
  <2>3. cand' = cand /\ reader' = reader
    BY <1>7, <2>1 DEF Answers, OfEither, bobVars, Confirm
  <2>4. \/ Restricts("bob", link)
        \/ /\ CanControl("bob") /\ link' = Put(link, "bob", conn["bob"], m)
           /\ UNCHANGED <<gate, conn, dual, resume>>
    BY <2>1, <2>2, Zenon DEF Confirm
  <2> QED BY <1>2, <1>3, <1>4, <2>3, <2>4
<1>8. ASSUME Decide("bob"), OwnStep("bob") PROVE Fine
  <2>1. cand' = cand /\ reader' = reader
    <3>1. reader' = reader
      BY <1>8 DEF Decide
    <3>2. CASE BobDisconnectEnds
      BY <1>0, <1>8, <3>2 DEF BobDisconnectEnds, DisconnectEnds, Decide
    <3>3. UNCHANGED bobVars \/ BobDisconnectEnds
      BY <1>8, BobReadsOne DEF OwnStep, Answers, CommandStep, Reads, BobReads, ProofHandled,
         TabCloses, Timeouts, ReservationExpires, OfEither
    <3> QED BY <3>1, <3>2, <3>3 DEF bobVars
  <2>2. CASE UNCHANGED core
    BY <1>1, <1>3, <2>1, <2>2 DEF core
  <2>3. CASE /\ dual' = [dual EXCEPT !["bob"] = Decided(@, "bob", cmd["bob"].match)]
             /\ dual["bob"].id = cmd["bob"].id /\ UNCHANGED <<gate, conn, link, resume>>
    <3>1. dual["bob"] # NoDual
      BY <1>0, <1>8, <2>3, EndpointAssumption DEF Decide, AnswersOK, HonestCommand, NoDual, Ids
    <3>2. Left
      BY <2>3, <3>1 DEF Left
    <3> QED BY <1>1, <2>1, <2>3, <3>2 DEF Fine
  <2> QED BY <1>2, <1>8, <2>1, <2>2, <2>3, Zenon DEF Decide
<1>9. ASSUME BobDisconnectEnds PROVE Fine
  <2>1. AcceptsCancelled \in Links /\ Loses(link, AcceptsCancelled)
    <3>1. ASSUME NEW c \in Conns
          PROVE  /\ AcceptsCancelled[c].wire["bob"] \in {link[c].wire["bob"], <<>>}
                 /\ AcceptsCancelled[c].up["bob"] =>
                       link[c].up["bob"] /\ AcceptsCancelled[c].wire["bob"] = link[c].wire["bob"]
      <4>1. AcceptsCancelled[c] \in {link[c], Shut(link, "bob", c)[c]} /\ c \in Refs
        BY DEF AcceptsCancelled, Conns, Refs
      <4>2. /\ Shut(link, "bob", c)[c].wire["bob"] \in {link[c].wire["bob"], <<>>}
            /\ Shut(link, "bob", c)[c].up["bob"] =>
                  link[c].up["bob"] /\ Shut(link, "bob", c)[c].wire["bob"] = link[c].wire["bob"]
        BY <1>0, <4>1, BobShuts DEF Loses
      <4> QED BY <4>1, <4>2
    <3> QED BY <1>0, <3>1, AcceptsCancelledOK DEF Loses
  <2>2. link' = Shut(AcceptsCancelled, "bob", conn["bob"])
    BY <1>9 DEF BobDisconnectEnds, DisconnectEnds, AcceptsCancelled
  <2>3. Loses(link, link')
    <3>1. PICK l \in Links : l = AcceptsCancelled
      BY <2>1
    <3>2. Loses(l, link')
      BY <1>0, <2>2, <3>1, BobShuts
    <3> QED BY <2>1, <3>1, <3>2 DEF Loses
  <2>4. Gone /\ conn' = conn /\ reader'["bob"].pc = "off"
    BY <1>0, <1>9 DEF BobDisconnectEnds, DisconnectEnds, Gone, NoReader
  <2>5. \A c \in Conns : cand'[c].pc = "none"
    BY <1>9 DEF BobDisconnectEnds, NoCand
  <2> QED BY <2>3, <2>4, <2>5 DEF Fine
<1>10. ASSUME TabCloses("bob") PROVE Fine
  BY <1>3, <1>5, <1>10 DEF TabCloses, ConfirmAbandoned, DisconnectAbandoned, OfEither, bobVars
<1>11. ASSUME Timeouts("bob") PROVE Fine
  BY <1>2, <1>11 DEF Timeouts, VerificationEnds, ReservationExpires, OfEither, bobVars
<1>12. ASSUME LinkFails("bob", conn["bob"]) /\ OfEither PROVE Fine
  BY <1>3, <1>5, <1>12 DEF LinkFails, OfEither, bobVars
<1>13. ASSUME Reads("bob"), ~(BobReceives \/ BobGetsLock) PROVE Fine
  <2>1. CASE EndOfStream("bob") /\ OfEither
    BY <1>3, <1>5, <2>1 DEF EndOfStream, LinkFails, OfEither, bobVars
  <2>2. CASE ReaderRaises("bob", link) /\ cand' = cand
    BY <1>0, <2>2, BobRaises DEF Fine
  <2>3. CASE /\ UNCHANGED core /\ cand' = cand /\ reader["bob"].pc # "off"
             /\ ReaderLoops("bob") \/ reader' = [reader EXCEPT !["bob"] = NoReader]
    <3>1. Stopped("bob") \/ Moved("bob")
      BY <1>0, <2>3, ReaderLoopsMoves
    <3>2. reader'["bob"].pc # "lock"
      BY <3>1 DEF Stopped, Moved
    <3> QED BY <1>1, <1>3, <2>3, <3>2 DEF core
  <2> QED BY <1>13, <2>1, <2>2, <2>3 DEF Reads, BobReads, ProofHandled, ReaderSeesClose, ReaderSent,
       OfEither, bobVars
<1>14. Fine
  <2>1. CASE BobDisconnectBegins
    BY <1>6, <2>1 DEF BobDisconnectBegins, bobVars
  <2> QED BY <1>7, <1>8, <1>9, <1>10, <1>11, <1>12, <1>13, <2>1 DEF OwnStep, CommandStep
<1>15. WaitsAlone' /\ (Owed' => Owed)
  BY <1>14, LeftWaits DEF Fine
<1>16. NotAskedYet'
  BY <1>14, <1>15 DEF NotAskedYet, Fine
<1>17. \A c \in Conns : Serves(c)
  BY <1>14, <1>15, RestServes DEF Fine
<1> QED BY <1>15, <1>16, <1>17

(* A connection that comes to his server                                      *)
LEMMA AdmitsServes ==
  ASSUME IType, BInv, WaitsAlone, NotAskedYet, NEW c \in Conns, Admits(c)
  PROVE  WaitsAlone' /\ NotAskedYet' /\ \A d \in Conns : Serves(d)
<1>0. /\ CoreOK /\ BobTypeOK /\ "bob" \in Role /\ link \in Links /\ gate \in [Role -> State]
      /\ conn \in [Role -> Refs] /\ cand \in [Conns -> Cands] /\ reader \in [Role -> Readers]
      /\ dual' = dual /\ c \in Refs /\ resume \in Resumes /\ ReaderOK
  BY TypeParts DEF IType, EndpointOK, CoreOK, BobTypeOK, Cands, Role, ReaderOK, Admits, Accept,
      Admit,
     CandidateEnds, Conns, Refs
<1>1. /\ cand[c].pc # "none"
      /\ \A d \in Conns \ {c} : cand'[d] = cand[d]
  <2>1. \E k : cand' = [cand EXCEPT ![c] = k]
    BY DEF Admits, Accept, Admit, CandidateEnds, Leave
  <2> QED BY <1>0, <2>1 DEF Admits, Accept, Admit, CandidateEnds
<1>2. ASSUME UNCHANGED <<gate, conn, resume, reader>>, Loses(link, link')
      PROVE  WaitsAlone' /\ NotAskedYet' /\ \A d \in Conns : Serves(d)
  <2>1. WaitsAlone' /\ (Owed' => Owed)
    BY <1>0, <1>2, LeftWaits DEF Left
  <2> QED BY <1>1, <1>2, <2>1, RestServes DEF NotAskedYet
<1>3. CASE Accept(c)
  <2>1. resume' = resume
    BY <1>3 DEF Accept
  <2>2. CASE gate["bob"] = "CONNECTING" /\ Leave(c) /\ AttachBob(c, "recv") /\ link' = link
    <3>1. resume' = NoResume /\ gate'["bob"] = "VERIFYING" /\ cand'[c].pc = "none"
      BY <1>0, <2>1, <2>2 DEF BInv, BobFree, AttachBob, Leave, NoCand
    <3>2. WaitsAlone' /\ ~Owed'
      BY <1>0, <3>1 DEF WaitsAlone, Owed
    <3>3. ASSUME NEW d \in Conns PROVE Serves(d)
      <4>1. Proven(d)' => Proven(d)
        BY <1>1, <2>2, <3>1, <3>2 DEF Proven, ToBob
      <4>2. cand'[d].pc # "none" => cand[d].pc # "none"
        BY <1>1, <3>1
      <4> QED BY <2>2, <4>1, <4>2 DEF Serves, ToBob
    <3> QED BY <3>2, <3>3 DEF NotAskedYet
  <2>3. CASE UNCHANGED <<gate, conn, link, reader>>
    BY <1>2, <2>1, <2>3 DEF Loses
  <2>4. CASE link' = Shut(link, "bob", c) /\ UNCHANGED <<gate, conn, reader>>
    BY <1>0, <1>2, <2>1, <2>4, BobShuts
  <2> QED BY <1>3, <2>2, <2>3, <2>4, Zenon DEF Accept
<1>4. CASE Admit(c)
  <2>1. PICK l \in Links : l = Take(link, "bob", c)
    BY <1>0, <1>4, TakeElse DEF Admit
  <2>2. /\ link[c].up["bob"] /\ ToBob(c) # <<>> /\ l[c].wire["bob"] = Tail(ToBob(c)) /\ cand'[c].pc = "none"
        /\ \A d \in Conns : /\ d # c => l[d].wire["bob"] = ToBob(d)
                            /\ l[d].up["bob"] = link[d].up["bob"]
    BY <1>0, <1>4, <2>1, TakeElse DEF Admit, Up, ToBob, Leave, NoCand
  <2>3. CASE /\ Admissible(c, Head(ToBob(c))) /\ AttachBob(c, "ready") /\ Proves(c, l)
    <3>1. /\ gate["bob"] = "RECONNECTING" /\ Head(ToBob(c)).type = "verification_result"
          /\ gate'["bob"] = "VERIFYING" /\ conn'["bob"] = c /\ reader'["bob"].pc = "ready"
      BY <1>0, <2>3 DEF Admissible, AttachBob
    <3>2. WaitsAlone' /\ NotAskedYet'
      BY <1>0, <3>1 DEF WaitsAlone, NotAskedYet
    <3>3. PICK n \in Message : n = Notice("ready")
      BY ValuesOK
    <3>4. Loses(l, link')
      BY <2>3, <3>3, BobPuts DEF Proves
    <3>5. \A d \in Conns : /\ ToBob(d)' \in {l[d].wire["bob"], <<>>}
                           /\ link'[d].up["bob"] => l[d].up["bob"] /\ ToBob(d)' = l[d].wire["bob"]
      BY <3>4 DEF Loses, ToBob
    <3>6. Serves(c)
      <4>1. Proven(c)
        BY <1>1, <2>2, <3>1 DEF Proven, FirstProof
      <4>2. Proven(c)' => ToBob(c)' = Tail(ToBob(c))
        BY <2>2, <3>5 DEF Proven
      <4> QED BY <2>2, <3>1, <3>5, <4>1, <4>2 DEF Serves
    <3>7. ASSUME NEW d \in Conns, d # c PROVE Serves(d)
      <4>1. Proven(d)' => Proven(d) /\ ToBob(d)' = ToBob(d)
        BY <1>1, <2>2, <3>1, <3>5, <3>7 DEF Proven
      <4> QED BY <1>1, <2>2, <3>5, <3>7, <4>1 DEF Serves
    <3> QED BY <3>2, <3>6, <3>7
  <2>4. CASE link' = Shut(l, "bob", c) /\ UNCHANGED <<gate, conn, reader, resume>>
    <3>1. Loses(link, link')
      <4>1. Loses(l, link')
        BY <1>0, <2>4, BobShuts
      <4>2. link'[c].up["bob"] = FALSE /\ link'[c].wire["bob"] = <<>>
        BY <1>0, <2>4, ShutElse
      <4> QED BY <2>2, <4>1, <4>2 DEF Loses, ToBob
    <3> QED BY <1>2, <2>4, <3>1
  <2> QED BY <1>4, <2>1, <2>3, <2>4, Zenon DEF Admit, ToBob
<1>5. CASE CandidateEnds(c)
  BY <1>0, <1>2, <1>5, BobShuts DEF CandidateEnds
<1> QED BY <1>3, <1>4, <1>5 DEF Admits

(* Every step of his                                                          *)
LEMMA BobServes ==
  ASSUME IType, AnswersOK, BInv, NumbersOK, WaitsAlone, NotAskedYet, ReadyAhead, [Next]_vars, BobStep
  PROVE  WaitsAlone' /\ NotAskedYet' /\ \A c \in Conns : Serves(c)
<1>1. CASE Listens
  <2>1. ~server /\ UNCHANGED <<link, dual, resume, cand>> /\ gate'["bob"] \in {"CONNECTING", "CLOSED"}
    BY <1>1, TypeParts DEF Listens, StartServer, IType, EndpointOK, CoreOK, Role
  <2>2. resume' = NoResume /\ \A c \in Conns : cand'[c].pc = "none"
    BY <2>1 DEF BInv, BobFree, IType, SeatOK
  <2>3. WaitsAlone' /\ ~Owed'
    BY <2>1, <2>2 DEF WaitsAlone, Owed
  <2>4. \A c \in Conns : Serves(c)
    BY <2>1, <2>2, <2>3 DEF Serves, Proven, ToBob
  <2> QED BY <2>3, <2>4 DEF NotAskedYet
<1>2. CASE BobDisconnectBegins \/ (OwnStep("bob") /\ ~(BobReceives \/ BobGetsLock))
  BY <1>2, OwnServes
<1>3. CASE BobReceives \/ BobGetsLock
  BY <1>3, ReadsServes
<1>4. ASSUME NEW c \in Conns, Admission(c)
      PROVE  WaitsAlone' /\ NotAskedYet' /\ \A d \in Conns : Serves(d)
  BY <1>4, AdmitsServes DEF Admission
<1> QED BY <1>1, <1>2, <1>3, <1>4 DEF BobStep

-------------------------------------------------------------------------------
(* Alice has sent ready on a proven connection, or is quiet.                  *)
AliceSays == \A c \in Conns : Proven(c) /\ c = conn["alice"] => HasReady(ToBob(c)) \/ Quiet

(* What she asked on a connection that still waits is ahead of its result.    *)
AskedFirst ==
    \A c \in Conns :
       (/\ c = conn["alice"] /\ cand[c].pc # "none" /\ link[c].up["bob"]
        /\ task["measure"] \in {"request", "ready"})
       => ToBob(c) # <<>>

(* Nothing was sent on connections still to be established.                   *)
FreshWires == \A c \in Conns : c > conns => ToBob(c) = <<>>

(* Her part: what she says comes before what she asks.                        *)
Precedes == AliceSays /\ ReadyAhead /\ AskedFirst /\ FreshWires /\ Recovers /\ AsksOK

(* Bob's steps keep it                                                        *)
LEMMA BobPrecedes ==
  ASSUME IType, AnswersOK, BInv, NumbersOK, WaitsAlone, NotAskedYet, Precedes, [Next]_vars, BobStep
  PROVE  Precedes'
<1>0. /\ TypeOK /\ SeatOK /\ Wires(link, Spoken) /\ Held(reader, Spoken) /\ link \in Links
      /\ \A c \in Conns : ToBob(c) \in Seq(Message)
  BY TypeParts DEF IType, EndpointOK, CoreOK, ToBob, Links, Ends, Role
<1>1. /\ gate'["alice"] = gate["alice"] /\ conn'["alice"] = conn["alice"]
      /\ dual'["alice"] = dual["alice"] /\ conns' = conns /\ UNCHANGED aliceVars
  BY <1>0, BobStepStill DEF Still, CoreStill
<1>2. task' = task /\ approved' = approved
  BY <1>1 DEF aliceVars
<1>3. Quiet' = Quiet /\ Recovers' /\ AsksOK'
  BY <1>1, <1>2 DEF Precedes, Quiet, Silent, Recovers, AsksOK, Responding
<1>4. \A c \in Conns : Serves(c)
  BY BobServes DEF Precedes
<1>5. ASSUME NEW c \in Conns, Proven(c)'
      PROVE  /\ Proven(c) /\ ReadyFirst(ToBob(c)')
             /\ HasReady(ToBob(c)) => HasReady(ToBob(c)')
  <2>1. /\ Proven(c)
        /\ \/ ToBob(c)' = ToBob(c)
           \/ /\ ToBob(c) # <<>> /\ Head(ToBob(c)).type # "ready"
              /\ ToBob(c)' = Tail(ToBob(c))
    BY <1>4, <1>5 DEF Serves
  <2>2. ReadyFirst(ToBob(c)) /\ ToBob(c) \in Seq(Message)
    BY <1>0, <2>1 DEF Precedes, ReadyAhead
  <2> QED BY <2>1, <2>2, TailReady
<1>6. AliceSays'
  BY <1>1, <1>3, <1>5 DEF Precedes, AliceSays
<1>7. ReadyAhead'
  BY <1>5 DEF ReadyAhead
<1>8. AskedFirst'
  BY <1>1, <1>2, <1>4 DEF Precedes, AskedFirst, Serves
<1>9. FreshWires'
  BY <1>1, <1>4 DEF Precedes, FreshWires, Serves
<1> QED BY <1>3, <1>6, <1>7, <1>8, <1>9 DEF Precedes

(* and so do hers.                                                            *)
LEMMA AlicePrecedes ==
  ASSUME IType, AnswersOK, IdleOK, NoBurst, MaxBursts = 0, NumbersOK, Precedes, AliceStep
  PROVE  Precedes'
<1>0. /\ TypeOK /\ SeatOK /\ Wires(link, Spoken) /\ Held(reader, Spoken) /\ link \in Links
      /\ "alice" \in Role /\ "bob" \in Role /\ conns \in Nat /\ conn["alice"] \in Nat
      /\ cand \in [Conns -> Cands] /\ conn["bob"] \in Nat /\ CoreOK
      /\ \A c \in Conns : c \in Nat \ {0} /\ ToBob(c) \in Seq(Message)
  <2>1. EndpointOK /\ CoreOK /\ CountOK /\ BobTypeOK /\ "alice" \in Role /\ "bob" \in Role
    BY TypeParts DEF IType, EndpointOK, Role
  <2>2. \A c \in Conns : c \in Nat \ {0} /\ ToBob(c) \in Seq(Message)
    BY <2>1, EndpointAssumption DEF CoreOK, ToBob, Links, Ends, Conns
  <2>3. conns \in Nat /\ conn["alice"] \in Nat /\ conn["bob"] \in Nat
    BY <2>1, EndpointAssumption DEF CoreOK, CountOK, Refs
  <2>4. cand \in [Conns -> Cands]
    BY <2>1 DEF BobTypeOK, Cands
  <2> QED BY <2>1, <2>2, <2>3, <2>4 DEF IType, CoreOK
<1>1. /\ gate'["bob"] = gate["bob"] /\ conn'["bob"] = conn["bob"] /\ resume' = resume
      /\ UNCHANGED bobVars \/ \E c \in Conns : Established(c)
  BY <1>0, AliceStepStill DEF Still, CoreStill
<1>2. Owed' = Owed
  BY <1>1 DEF Owed
<1>3. Recovers' /\ AsksOK'
  BY AliceGoes, AliceAsksOK DEF Precedes
<1>4. conn'["alice"] = conn["alice"] => (Quiet /\ ~SaysReady => Quiet')
  BY AliceQuiet DEF Precedes
<1>5. /\ \A c \in Conns : cand'[c] = cand[c] \/ c = conns + 1
      /\ \A c \in Conns : c = conn["alice"] \/ c = conn["bob"] => c # conns + 1
  <2>1. \A c \in Conns : cand'[c] = cand[c] \/ c = conns + 1
    BY <1>0, <1>1 DEF bobVars, Established, Arrives
  <2>2. conn["alice"] <= conns /\ conn["bob"] <= conns
    BY <1>0 DEF NumbersOK
  <2> QED BY <1>0, <2>1, <2>2
<1>6. conns' \in {conns, conns + 1}
  BY AliceCounted DEF Counted
(* What becomes of a connection                                               *)
<1> DEFINE Same(c) == ToBob(c)' = ToBob(c) /\ link'[c].up["bob"] = link[c].up["bob"]
           Sent(c, m) == /\ c = conn["alice"] /\ conn'["alice"] = c /\ Says(m)
                         /\ link'[c].up["bob"] = link[c].up["bob"]
                         /\ ToBob(c)' = Append(ToBob(c), m)
           Dialled2(c) == /\ c = conns + 1 /\ conns' = c
                          /\ \/ ToBob(c)' = ToBob(c)
                             \/ /\ ToBob(c)' = Append(ToBob(c), Msg("verification_result", approved, TRUE))
                                /\ conn'["alice"] = c => Quiet'
<1>7. \A c \in Conns : Same(c) \/ (\E m \in Message : Sent(c, m)) \/ Dialled2(c)
  <2>1. CASE SaysNothing
    BY <2>1 DEF SaysNothing, SameForBob, ToBob
  <2>2. ASSUME NEW m \in Message, Says(m), NEW c \in Conns PROVE Same(c) \/ Sent(c, m)
    <3>1. PICK a \in Conns : a = conn["alice"]
      BY <2>2 DEF Says
    <3>2. link' = Put(link, "alice", a, m)
      BY <2>2, <3>1 DEF Says
    <3>3. /\ link[a].up["bob"] => link'[a].wire["bob"] = Append(link[a].wire["bob"], m)
          /\ c # a => link'[c].wire["bob"] = link[c].wire["bob"]
          /\ link'[c].up["bob"] = link[c].up["bob"]
      <4>1. /\ link[a].up["bob"] =>
                  Put(link, "alice", a, m)[a].wire["bob"] = Append(link[a].wire["bob"], m)
            /\ \A d \in Conns :
                  /\ d # a => Put(link, "alice", a, m)[d].wire["bob"] = link[d].wire["bob"]
                  /\ Put(link, "alice", a, m)[d].up["bob"] = link[d].up["bob"]
        BY <1>0, AlicePuts, Zenon
      <4> QED BY <2>2, <3>2, <4>1, Zenon
    <3>4. ~link[a].up["bob"] => link' = link
      BY <3>2 DEF Put, Peer
    <3> QED BY <2>2, <3>1, <3>3, <3>4 DEF Says, ToBob
  <2>3. ASSUME NEW d \in Conns, Dials(d), NEW c \in Conns PROVE Same(c) \/ Dialled2(c)
    <3>1. CASE c # d
      BY <2>3, <3>1 DEF Dials, ToBob
    <3>2. CASE c = d
      <4>1. c = conns + 1 /\ conns' = c
        BY <2>3, <3>2 DEF Dials, Established
      <4>2. CASE link'[c].wire["bob"] = link[c].wire["bob"]
        BY <4>1, <4>2 DEF ToBob
      <4>3. CASE /\ link'[c].wire["bob"] = Append(link[c].wire["bob"], Msg("verification_result", approved, TRUE))
                 /\ approved' = approved /\ task'["measure"] = "proof" /\ gate'["alice"] = "VERIFYING"
        BY <1>3, <4>1, <4>3 DEF ToBob, Quiet, Silent, Recovers
      <4> QED BY <2>3, <3>2, <4>2, <4>3 DEF Dials
    <3> QED BY <3>1, <3>2
  <2> QED BY <2>1, <2>2, <2>3, AliceSpeaks
<1> HIDE DEF Same, Sent, Dialled2
(* A connection is only proven by the first frame of a dialled one.           *)
<1>8. ASSUME NEW c \in Conns, Proven(c)'
      PROVE  \/ Proven(c) /\ Same(c)
             \/ Proven(c) /\ \E m \in Message : Sent(c, m)
             \/ /\ ToBob(c) = <<>> /\ (conn'["alice"] = c => Quiet')
                /\ ToBob(c)' = Append(ToBob(c), Msg("verification_result", approved, TRUE))
  <2>0. c = conns + 1 => ToBob(c) = <<>>
    BY <1>0 DEF Precedes, FreshWires
  <2>1. /\ link'[c].up["bob"]
        /\ (Owed /\ c = conn["bob"]) \/ (cand'[c].pc # "none" /\ FirstProof(ToBob(c)'))
    BY <1>1, <1>2, <1>8 DEF Proven
  <2>2. ToBob(c)' = ToBob(c) => c # conns + 1
    BY <1>5, <2>0, <2>1 DEF FirstProof
  <2>3. CASE Same(c)
    BY <1>5, <2>1, <2>2, <2>3 DEF Proven, Same
  <2>4. ASSUME NEW m \in Message, Sent(c, m) PROVE Proven(c)
    <3>1. /\ c = conn["alice"] /\ Says(m) /\ link[c].up["bob"] /\ cand'[c] = cand[c]
          /\ ToBob(c)' = Append(ToBob(c), m)
      BY <1>5, <2>1, <2>4 DEF Sent
    <3>2. CASE cand[c].pc # "none" /\ FirstProof(ToBob(c)')
      <4>1. CASE ToBob(c) # <<>>
        BY <1>0, <3>1, <3>2, <4>1, AppendReady DEF Proven
      <4>2. CASE ToBob(c) = <<>>
        <5>1. Head(ToBob(c)') = m
          BY <3>1, <4>2
        <5>2. task["measure"] = "ready"
          BY <3>1, <3>2, <5>1 DEF FirstProof, Says
        <5> QED BY <3>1, <3>2, <4>2, <5>2 DEF Precedes, AskedFirst
      <4> QED BY <4>1, <4>2
    <3> QED BY <2>1, <3>1, <3>2 DEF Proven
  <2>5. CASE Dialled2(c)
    BY <2>0, <2>2, <2>5 DEF Dialled2
  <2> QED BY <1>7, <2>3, <2>4, <2>5
<1>9. AliceSays'
  <2> SUFFICES ASSUME NEW c \in Conns, Proven(c)', c = conn'["alice"]
               PROVE  HasReady(ToBob(c)') \/ Quiet'
    BY DEF AliceSays
  <2>1. CASE conn["alice"] = c /\ Proven(c)
    <3>1. HasReady(ToBob(c)) \/ Quiet
      BY <2>1 DEF Precedes, AliceSays
    <3>2. HasReady(ToBob(c)) => HasReady(ToBob(c)')
      BY <1>0, <1>5, <1>7, <2>1, AppendReady DEF Same, Sent, Dialled2
    <3>3. Quiet => HasReady(ToBob(c)') \/ Quiet'
      <4>1. CASE SaysReady
        <5>1. PICK n \in Message : n = Notice("ready") /\ n.type = "ready"
          BY ValuesOK
        <5>2. link' = Put(link, "alice", c, n) /\ link[c].up["bob"]
          BY <2>1, <4>1, <5>1 DEF SaysReady, Proven
        <5>3. link'[c].wire["bob"] = Append(link[c].wire["bob"], n)
          <6>1. link[c].up["bob"] =>
                    Put(link, "alice", c, n)[c].wire["bob"] = Append(link[c].wire["bob"], n)
            <7>1. \A l \in Links, d \in Conns, m \in Message :
                     l[d].up["bob"] =>
                        Put(l, "alice", d, m)[d].wire["bob"] = Append(l[d].wire["bob"], m)
              BY AlicePuts, Zenon
            <7> QED BY <1>0, <7>1
          <6> QED BY <5>2, <6>1, Zenon
        <5>4. HasReady(Append(link[c].wire["bob"], n))
          BY <1>0, <5>1, AppendReady DEF ToBob
        <5> QED BY <5>3, <5>4 DEF ToBob
      <4> QED BY <1>4, <2>1, <4>1
    <3> QED BY <3>1, <3>2, <3>3
  <2>2. CASE conn["alice"] # c
    <3>1. c = conns + 1
      BY <1>0, <2>2, AliceCounted DEF Counted
    <3>2. ToBob(c) = <<>> /\ c # conn["bob"]
      BY <1>0, <1>5, <3>1 DEF Precedes, FreshWires
    <3>3. ~Proven(c) \/ (cand[c].pc # "none" /\ FirstProof(<<>>))
      BY <3>2 DEF Proven
    <3> QED BY <1>8, <3>3 DEF FirstProof
  <2>3. CASE conn["alice"] = c /\ ~Proven(c)
    BY <1>8, <2>3
  <2> QED BY <2>1, <2>2, <2>3
<1>10. ReadyAhead'
  <2> SUFFICES ASSUME NEW c \in Conns, Proven(c)' PROVE ReadyFirst(ToBob(c)')
    BY DEF ReadyAhead
  <2>1. CASE Proven(c) /\ Same(c)
    BY <2>1 DEF Same, Precedes, ReadyAhead
  <2>2. ASSUME Proven(c), NEW m \in Message, Sent(c, m) PROVE ReadyFirst(ToBob(c)')
    <3>1. ReadyFirst(ToBob(c)) /\ c = conn["alice"] /\ Says(m) /\ ToBob(c)' = Append(ToBob(c), m)
      BY <2>2 DEF Sent, Precedes, ReadyAhead
    <3>2. HasReady(ToBob(c)) \/ Quiet
      BY <2>2, <3>1 DEF Precedes, AliceSays
    <3>3. m.type = "verify_request" => ~Quiet
      BY <3>1 DEF Says, AtAssess, Quiet, Silent
    <3> QED BY <1>0, <3>1, <3>2, <3>3, AppendReady
  <2>3. CASE /\ ToBob(c) = <<>>
             /\ ToBob(c)' = Append(ToBob(c), Msg("verification_result", approved, TRUE))
    <3>1. approved \in 0 .. MaxIds
      BY TypeParts DEF IType, AliceOK, RetryOK
    <3>2. PICK m \in Message : m = Msg("verification_result", approved, TRUE)
      BY <3>1, ValuesOK
    <3>3. ReadyFirst(<<>>) /\ m.type = "verification_result"
      BY <3>2 DEF ReadyFirst, Msg
    <3> QED BY <1>0, <2>3, <3>2, <3>3, AppendReady
  <2> QED BY <1>8, <2>1, <2>2, <2>3
<1>11. ASSUME NEW c \in Conns, NEW m \in Message, link' = Put(link, "alice", c, m), link'[c].up["bob"]
      PROVE  ToBob(c)' # <<>>
  <2>1. /\ link[c].up["bob"] =>
              Put(link, "alice", c, m)[c].wire["bob"] = Append(link[c].wire["bob"], m)
        /\ \A d \in Conns :
              /\ d # c => Put(link, "alice", c, m)[d].wire["bob"] = link[d].wire["bob"]
              /\ Put(link, "alice", c, m)[d].up["bob"] = link[d].up["bob"]
    BY <1>0, AlicePuts
  <2>2. link[c].up["bob"] /\ ToBob(c)' = Append(ToBob(c), m)
    BY <1>11, <2>1 DEF ToBob
  <2> QED BY <1>0, <2>2, AppendReady
<1>12. AskedFirst'
  <2> SUFFICES ASSUME NEW c \in Conns, c = conn'["alice"], cand'[c].pc # "none", link'[c].up["bob"],
                      task'["measure"] \in {"request", "ready"}
               PROVE  ToBob(c)' # <<>>
    BY DEF AskedFirst, ToBob
  <2>1. /\ c = conn["alice"]
        /\ \/ task["measure"] \in {"request", "ready"}
           \/ \E m \in Message : link' = Put(link, "alice", c, m)
    BY AliceGoes DEF Precedes
  <2>3. CASE task["measure"] \in {"request", "ready"}
    <3>1. cand[c].pc # "none" /\ c # conns + 1
      BY <1>5, <2>1
    <3>2. Same(c) \/ \E m \in Message : Sent(c, m)
      BY <1>7, <3>1 DEF Dialled2
    <3>3. ToBob(c) # <<>>
      BY <2>1, <2>3, <3>1, <3>2 DEF Precedes, AskedFirst, Same, Sent
    <3> QED BY <1>0, <3>2, <3>3, AppendReady DEF Same, Sent
  <2> QED BY <1>11, <2>1, <2>3
<1>13. FreshWires'
  <2> SUFFICES ASSUME NEW c \in Conns, c > conns' PROVE ToBob(c)' = <<>>
    BY DEF FreshWires
  <2>1. c > conns /\ c # conn["alice"] /\ c # conns'
    <3>1. conn["alice"] <= conns
      BY <1>0 DEF NumbersOK
    <3> QED BY <1>0, <1>6, <3>1
  <2>2. Same(c)
    BY <1>7, <2>1 DEF Sent, Dialled2
  <2> QED BY <2>1, <2>2 DEF Same, Precedes, FreshWires
<1> QED BY <1>3, <1>9, <1>10, <1>12, <1>13 DEF Precedes

-------------------------------------------------------------------------------
(* The inductive invariant                                                    *)
IPend == IFresh /\ WaitsAlone /\ NotAskedYet /\ Precedes

(* It holds before anything has happened.                                     *)
LEMMA InitIPend == Init => IPend
<1> SUFFICES ASSUME Init PROVE IPend
  OBVIOUS
<1>1. "alice" \in Role /\ "bob" \in Role /\ "measure" \in Tasks
  BY DEF Role, Tasks
<1>2. /\ resume = NoResume /\ dual["alice"] = NoDual /\ dual["bob"] = NoDual
      /\ task["measure"] = "off"
      /\ \A c \in Conns : link[c].up["bob"] = FALSE /\ ToBob(c) = <<>> /\ cand[c].pc = "none"
  BY <1>1 DEF Init, EndpointInit, AliceInit, BobInit, ToBob, NoCand
<1>3. WaitsAlone /\ NotAskedYet
  BY <1>2 DEF WaitsAlone, NotAskedYet, Owed
<1>4. Precedes
  BY <1>2 DEF Precedes, AliceSays, ReadyAhead, Proven, AskedFirst, FreshWires, Recovers, AsksOK
<1> QED BY <1>3, <1>4, InitIFresh DEF IPend

(* Every step keeps it.                                                       *)
LEMMA NextIPend ==
  ASSUME MaxBursts = 0, IPend, [Next]_vars
  PROVE  IPend'
<1>0. /\ IType /\ AnswersOK /\ IdleOK /\ BInv /\ NoBurst /\ NumbersOK /\ IFresh
      /\ WaitsAlone /\ NotAskedYet /\ Precedes
  BY DEF IPend, IFresh, IBoth, AInv
<1>1. IFresh'
  BY <1>0, NextIFresh
<1>2. CASE BobStep
  BY <1>0, <1>1, <1>2, BobServes, BobPrecedes DEF IPend, Precedes
<1>3. CASE AliceStep
  <2>1. /\ gate'["bob"] = gate["bob"] /\ dual'["bob"] = dual["bob"] /\ resume' = resume
        /\ reader'["bob"] = reader["bob"]
    BY <1>0, <1>3, AliceStepStill DEF IType, Still, CoreStill, RestStill
  <2>2. WaitsAlone' /\ NotAskedYet'
    BY <1>0, <2>1 DEF WaitsAlone, NotAskedYet, Owed
  <2> QED BY <1>0, <1>1, <1>3, <2>2, AlicePrecedes DEF IPend
<1>4. CASE UNCHANGED vars
  <2>1. UNCHANGED <<gate, conn, link, dual, resume, reader, cand, task, approved, conns>>
    BY <1>4 DEF vars, endpointVars, core, aliceVars, bobVars
  <2>2. WaitsAlone' /\ NotAskedYet'
    BY <1>0, <2>1 DEF WaitsAlone, NotAskedYet, Owed
  <2>3. Precedes'
    BY <1>0, <2>1 DEF Precedes, AliceSays, ReadyAhead, Proven, Owed, ToBob, Quiet, Silent,
        AskedFirst,
       FreshWires, Recovers, AsksOK, Responding
  <2> QED BY <1>1, <2>2, <2>3 DEF IPend
<1> QED BY <1>2, <1>3, <1>4, NextIsOf

(* While a comparison is pending at an endpoint, its chat gate is closed, in  *)
(* any run of two honest runtimes that never start a reconnect burst: a       *)
(* verification on a recovered connection never overtakes the ready that      *)
(* opens it.                                                                  *)
THEOREM PendingPauses == MaxBursts = 0 => (Spec => []PendingComparisonPauses)
<1>1. SUFFICES ASSUME MaxBursts = 0 PROVE Spec => []PendingComparisonPauses
  OBVIOUS
<1>2. IPend /\ [Next]_vars => IPend'
  BY <1>1, NextIPend
<1>3. IPend => PendingComparisonPauses
  <2> SUFFICES ASSUME IPend, NEW r \in Role, dual[r] # NoDual PROVE gate[r] # "ACTIVE"
    BY DEF PendingComparisonPauses
  <2>1. r = "alice" => gate[r] # "ACTIVE"
    BY DEF IPend, IFresh, Precedes, AsksOK, Responding, AliceFresh, Pausing
  <2>2. r = "bob" => gate[r] # "ACTIVE"
    BY DEF IPend, WaitsAlone
  <2> QED BY <2>1, <2>2 DEF Role
<1> QED BY <1>2, <1>3, InitIPend, PTL DEF Spec
===============================================================================
