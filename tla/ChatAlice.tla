------------------------------- MODULE ChatAlice -------------------------------
(***************************************************************************)
(* Alice's process (chat/alice.py AliceRuntime, verification/              *)
(* session_guard.py SessionGuard.assess).  Two of her coroutines move the  *)
(* gate: measure_loop, whose assessments may demand a verification and     *)
(* recover the session on a fresh TLS connection, and reconnect_burst,     *)
(* which the user starts and which replaces the connection on its own      *)
(* authority.  What a trust score is worth is not modelled: an assessment  *)
(* demands a verification or does not.                                     *)
(***************************************************************************)
EXTENDS ChatEndpoint

Tasks == {"measure", "burst"}

VARIABLES
    task,             \* where each of the two coroutines is
    via,              \* the connection it is sending on
    asked,            \* the request that respond is about
    tries,            \* connection attempts left to recover
    left,             \* iterations left to reconnect_burst
    approved,         \* approved_recovery: the request id, 0 is None
    ping,             \* none, sent, done: the heartbeat's future
    recovered         \* recovery_ready: none, waiting, done

aliceVars == <<task, via, asked, tries, left, approved, ping, recovered>>

NotAsked == [id |-> 0, recovery |-> FALSE]

AliceTypeOK ==
    /\ task \in [Tasks -> {"off", "loop", "sleep", "ping", "pong", "assess",
                           "request", "ready", "result", "notice", "close",
                           "establish", "proof", "confirm", "conclude", "resume",
                           "failed", "wait", "next", "demo"}]
    /\ via \in [Tasks -> 0 .. MaxConns]
    /\ asked \in [id : 0 .. MaxIds, recovery : BOOLEAN]
    /\ tries \in 0 .. Attempts /\ left \in 0 .. Attempts
    /\ approved \in 0 .. MaxIds
    /\ ping \in {"none", "sent", "done"}
    /\ recovered \in {"none", "waiting", "done"}

AliceInit ==
    /\ task = [t \in Tasks |-> "off"] /\ via = [t \in Tasks |-> 0]
    /\ asked = NotAsked /\ tries = 0 /\ left = 0 /\ approved = 0
    /\ ping = "none" /\ recovered = "none"

Goto(t, pc) == task' = [task EXCEPT ![t] = pc]

(* A task calls Coordinator.control on a usable connection, and waits.        *)
Sends(t, pc, m, l) ==
    /\ link' = Put(l, "alice", conn'["alice"], m)
    /\ via' = [via EXCEPT ![t] = conn'["alice"]]
    /\ Goto(t, pc)

(* A send can come back with an exception: its connection closed meanwhile.   *)
SendLost(t) == ~Up("alice", via[t])

(* respond is running; guard.assess is, and holds its lock.                   *)
Responding == task["measure"] \in {"request", "ready", "result", "notice"}
Guarding == Responding \/ task["measure"] \in {"close", "establish", "proof", "confirm",
                                              "conclude", "failed"}

(* guard.assess begins: the first one of a session, or at a pong, with no     *)
(* await in between.                                                          *)
AtAssess == task["measure"] = "assess" \/ (task["measure"] = "pong" /\ ping = "done")

(* An exception in a task.  Inside guard.assess, SessionGuard.restrict comes  *)
(* first: it closes the connection, and assess restricts once it is closed.   *)
(* respond's finally clause drops the pending comparison.                     *)
Raises(t, l) ==
    /\ via' = [via EXCEPT ![t] = 0]
    /\ asked' = IF t = "measure" THEN NotAsked ELSE asked
    /\ IF t = "measure" /\ (Guarding \/ AtAssess)
       THEN /\ Goto(t, "failed")
            /\ guard' = "unverified"
            /\ link' = Shut(l, "alice", conn["alice"])
            /\ dual' = [dual EXCEPT !["alice"] = NoDual]
            /\ UNCHANGED <<gate, conn, resume>>
       ELSE Goto(t, "off") /\ Restricts("alice", l)

(* assess after a failure in guard.assess                                     *)
GuardFailed ==
    /\ task["measure"] = "failed"
    /\ Goto("measure", "off")
    /\ Restricts("alice", link)
    /\ UNCHANGED <<reader, cmd, closing, conns, ids, hist, via, asked, tries, left,
                   approved, ping, recovered>>

-------------------------------------------------------------------------------
(* connect                                                                    *)

(* _connect up to the await in establish.  (With a SessionGuard it starts     *)
(* with a disconnect, which is that command.)                                 *)
Connect ==
    /\ cmd["alice"].pc = "idle"
    /\ gate["alice"] \in {"LOCKED", "CLOSED"}
       \/ (gate["alice"] = "RESTRICTED" /\ guard = "none")
    /\ cmd' = [cmd EXCEPT !["alice"].pc = "connecting"]
    /\ gate' = [gate EXCEPT !["alice"] = "CONNECTING"]
    /\ conn' = [conn EXCEPT !["alice"] = 0]
    /\ UNCHANGED <<link, dual, resume, guard, reader, closing, conns, ids, hist,
                   aliceVars>>

(* A SessionGuard starts verified if the database says that its relationship  *)
(* was; the runtime then takes that back.                                     *)
RememberedGuard == IF guard = "verified" THEN "verified" ELSE "unverified"

NewGuard == "unverified"

(* attach, a new SessionGuard that is not verified, reader and measurements   *)
Connected(c) ==
    /\ cmd["alice"].pc = "connecting"
    /\ gate' = [gate EXCEPT !["alice"] = "VERIFYING"]
    /\ conn' = [conn EXCEPT !["alice"] = c]
    /\ guard' = NewGuard
    /\ reader' = [reader EXCEPT !["alice"] = [pc |-> "recv", conn |-> c, msg |-> NoMsg]]
    /\ cmd' = [cmd EXCEPT !["alice"] = NoCommand]
    /\ Goto("measure", "assess")
    /\ basis' = [basis EXCEPT !["alice"] = NoBasis]
    /\ UNCHANGED <<dual, resume, closing, ids, matched, refused, via, asked, tries, left,
                   approved, ping, recovered>>

ConnectFails ==
    /\ cmd["alice"].pc = "connecting"
    /\ Restricts("alice", link)
    /\ cmd' = [cmd EXCEPT !["alice"] = NoCommand]
    /\ UNCHANGED <<reader, closing, ids, hist, aliceVars>>

(* The browser socket is lost while connecting: nothing but the command ends. *)
ConnectAbandoned ==
    /\ cmd["alice"].pc = "connecting"
    /\ cmd' = [cmd EXCEPT !["alice"] = NoCommand]
    /\ UNCHANGED <<core, reader, closing, ids, hist, aliceVars>>

-------------------------------------------------------------------------------
(* measure_loop: heartbeat, then an assessment.                               *)

(* What no step of a task changes                                             *)
TaskStep == UNCHANGED <<cmd, closing, conns, matched, refused>>

(* The head of the loop: it ends with the session and waits for a burst.      *)
LoopHead ==
    /\ task["measure"] = "loop"
    /\ IF gate["alice"] \in {"CLOSED", "RESTRICTED"}
       THEN Goto("measure", "off")
       ELSE task["burst"] = "off" /\ Goto("measure", "sleep")
    /\ TaskStep
    /\ UNCHANGED <<core, reader, ids, basis, via, asked, tries, left, approved, ping,
                   recovered>>

(* The heartbeat interval is over.                                            *)
Heartbeat ==
    /\ task["measure"] = "sleep"
    /\ IF gate["alice"] # "ACTIVE"
       THEN Goto("measure", "loop") /\ UNCHANGED <<core, via, asked, ping>>
       ELSE /\ ping' = "sent"
            /\ IF CanControl("alice")
               THEN /\ UNCHANGED <<gate, conn, dual, resume, guard, asked>>
                    /\ Sends("measure", "ping", Notice("ping"), link)
               ELSE Raises("measure", link)
    /\ TaskStep
    /\ UNCHANGED <<reader, ids, basis, tries, left, approved, recovered>>

PingSent ==
    /\ task["measure"] = "ping"
    /\ \/ Goto("measure", "pong") /\ UNCHANGED <<core, via, asked>>
       \/ SendLost("measure") /\ Raises("measure", link)
    /\ TaskStep
    /\ UNCHANGED <<reader, ids, basis, tries, left, approved, ping, recovered>>

(* No pong for eight seconds                                                  *)
HeartbeatStops ==
    /\ task["measure"] = "pong" /\ ping = "sent"
    /\ Raises("measure", link)
    /\ TaskStep
    /\ UNCHANGED <<reader, ids, basis, tries, left, approved, ping, recovered>>

Assessed == ping' = IF task["measure"] = "pong" THEN "none" ELSE ping

(* The end of assess once guard.assess has returned: a session it verified or *)
(* recovered opens, with a word to Bob if a recovery was approved.            *)
Concludes ==
    /\ UNCHANGED <<conn, asked>>
    /\ IF gate["alice"] # "VERIFYING" \/ dual["alice"] # NoDual
       THEN Goto("measure", "loop") /\ UNCHANGED <<gate, link, dual, resume, guard, via>>
       ELSE IF approved = 0
       THEN /\ gate' = [gate EXCEPT !["alice"] = "ACTIVE"]
            /\ Goto("measure", "loop") /\ UNCHANGED <<link, dual, resume, guard, via>>
       ELSE IF CanControl("alice")
       THEN /\ UNCHANGED <<gate, dual, resume, guard>>
            /\ Sends("measure", "resume", Notice("ready"), link)
       ELSE Restricts("alice", link) /\ Goto("measure", "off") /\ UNCHANGED via

Conclude ==
    /\ task["measure"] = "conclude"
    /\ Concludes
    /\ TaskStep
    /\ UNCHANGED <<reader, ids, basis, tries, left, approved, ping, recovered>>

(* The assessment finds nothing to verify.                                    *)
AssessKeeps ==
    /\ AtAssess /\ guard = "verified"
    /\ Concludes /\ Assessed
    /\ TaskStep
    /\ UNCHANGED <<reader, ids, basis, tries, left, approved, recovered>>

(* The rotation interval ends between the two readings of the clock: the key  *)
(* is to be replaced, the connection closes, and recover finds no approval.   *)
AssessRotates ==
    /\ AtAssess /\ guard = "verified"
    /\ Raises("measure", link) /\ Assessed
    /\ TaskStep
    /\ UNCHANGED <<reader, ids, basis, tries, left, approved, recovered>>

(* A verification is due: the gate pauses, respond begins the comparison and  *)
(* asks Bob for his.                                                          *)
AssessVerifies ==
    /\ AtAssess /\ Assessed
    /\ LET recovery == guard = "verified" IN
       IF gate["alice"] \in {"ACTIVE", "VERIFYING"} /\ Up("alice", conn["alice"])
       THEN /\ ids < MaxIds
            /\ BeginVerification("alice", ids + 1, recovery)
            /\ ids' = ids + 1
            /\ asked' = [id |-> ids + 1, recovery |-> recovery]
            /\ UNCHANGED <<conn, resume, guard>>
            /\ Sends("measure", "request", Msg("verify_request", ids + 1, recovery), link)
       ELSE Raises("measure", link) /\ UNCHANGED ids
    /\ TaskStep
    /\ UNCHANGED <<reader, basis, tries, left, approved, recovered>>

RequestSent ==
    /\ task["measure"] = "request"
    /\ \/ Goto("measure", "ready") /\ UNCHANGED <<core, via, asked>>
       \/ SendLost("measure") /\ Raises("measure", link)
    /\ TaskStep
    /\ UNCHANGED <<reader, ids, basis, tries, left, approved, ping, recovered>>

(* respond once the comparison is decided, or was cleared                     *)
BothDecided ==
    /\ task["measure"] = "ready" /\ dual["alice"].ready # "waiting"
    /\ IF dual["alice"].ready = "yes" /\ gate["alice"] = "VERIFYING"
          /\ CanControl("alice")
       THEN /\ UNCHANGED <<gate, conn, dual, resume, guard, asked>>
            /\ Sends("measure", "result",
                     Msg("verification_result", asked.id, asked.recovery), link)
       ELSE Raises("measure", link)
    /\ TaskStep
    /\ UNCHANGED <<reader, ids, basis, tries, left, approved, ping, recovered>>

(* verify's own timeout cancels respond, wherever it is.                      *)
RespondTimesOut ==
    /\ Responding
    /\ Raises("measure", link)
    /\ TaskStep
    /\ UNCHANGED <<reader, ids, basis, tries, left, approved, ping, recovered>>

(* respond after the result is sent.  The first comparison of a session is    *)
(* done; a later one goes on to announce a reconnection.                      *)
ResultSent ==
    /\ task["measure"] = "result"
    /\ \/ /\ basis' = [basis EXCEPT !["alice"] =
                [id |-> asked.id, on |-> via["measure"], recovery |-> asked.recovery]]
          /\ approved' = IF asked.recovery THEN asked.id ELSE approved
          /\ IF ~asked.recovery
             THEN /\ dual' = [dual EXCEPT !["alice"] = NoDual]
                  /\ guard' = "verified" /\ asked' = NotAsked
                  /\ Goto("measure", "conclude")
                  /\ UNCHANGED <<gate, conn, link, resume, via>>
             ELSE IF CanControl("alice")
             THEN /\ UNCHANGED <<gate, conn, dual, resume, guard, asked>>
                  /\ Sends("measure", "notice", Notice("reconnect"), link)
             ELSE Raises("measure", link)
       \/ SendLost("measure") /\ Raises("measure", link) /\ UNCHANGED <<basis, approved>>
    /\ TaskStep
    /\ UNCHANGED <<reader, ids, tries, left, ping, recovered>>

(* respond returns: Alice reconnects, and reestablish closes the connection.  *)
NoticeSent ==
    /\ task["measure"] = "notice"
    /\ \/ /\ CanMove(gate["alice"], "RECONNECTING")
          /\ gate' = [gate EXCEPT !["alice"] = "RECONNECTING"]
          /\ dual' = [dual EXCEPT !["alice"] = NoDual]
          /\ guard' = "verified" /\ asked' = NotAsked
          /\ link' = Shut(link, "alice", conn["alice"])
          /\ Goto("measure", "close")
          /\ UNCHANGED <<conn, resume, via>>
       \/ /\ ~CanMove(gate["alice"], "RECONNECTING") \/ SendLost("measure")
          /\ Raises("measure", link)
    /\ TaskStep
    /\ UNCHANGED <<reader, ids, basis, tries, left, approved, ping, recovered>>

-------------------------------------------------------------------------------
(* recover, on behalf of either task                                          *)

(* The old connection is closed: recover cancels its reader.                  *)
RecoverBegins(t) ==
    /\ task[t] = "close"
    /\ IF approved # 0 /\ gate["alice"] = "RECONNECTING"
       THEN /\ reader' = [reader EXCEPT !["alice"] = NoReader]
            /\ tries' = Attempts
            /\ Goto(t, "establish")
            /\ UNCHANGED <<core, via, asked>>
       ELSE Raises(t, link) /\ UNCHANGED <<reader, tries>>
    /\ TaskStep
    /\ UNCHANGED <<ids, basis, left, approved, ping, recovered>>

(* The fresh connection c: attach, a new reader, and the proof that this is   *)
(* the recovery both agreed on.  attach raises if the gate has moved on; the  *)
(* connection then stays behind.                                              *)
Reconnected(t, c, l) ==
    /\ task[t] = "establish"
    /\ IF gate["alice"] = "RECONNECTING"
       THEN /\ gate' = [gate EXCEPT !["alice"] = "VERIFYING"]
            /\ conn' = [conn EXCEPT !["alice"] = c]
            /\ reader' = [reader EXCEPT !["alice"] =
                              [pc |-> "recv", conn |-> c, msg |-> NoMsg]]
            /\ recovered' = "waiting"
            /\ Sends(t, "proof", Msg("verification_result", approved, TRUE), l)
            /\ UNCHANGED <<dual, resume, guard, asked>>
       ELSE Raises(t, l) /\ UNCHANGED <<reader, recovered>>
    /\ UNCHANGED <<cmd, closing, ids, hist, tries, left, approved, ping>>

(* An attempt fails; l is what it leaves behind at Bob's end.                 *)
TriesAgainOnceMore == tries >= 0

TriesAgain == tries > 1

EstablishFails(t, l) ==
    /\ task[t] = "establish"
    /\ IF TriesAgain
       THEN /\ tries' = tries - 1 /\ link' = l
            /\ UNCHANGED <<gate, conn, dual, resume, guard, task, via, asked>>
       ELSE Raises(t, l) /\ UNCHANGED tries
    /\ UNCHANGED <<reader, cmd, closing, ids, hist, left, approved, ping, recovered>>

ProofSent(t) ==
    /\ task[t] = "proof"
    /\ \/ Goto(t, "confirm") /\ UNCHANGED <<core, via, asked, recovered>>
       \/ SendLost(t) /\ Raises(t, link) /\ recovered' = "none"
    /\ TaskStep
    /\ UNCHANGED <<reader, ids, basis, tries, left, approved, ping>>

(* recover returns when Bob is ready, and fails when he is not in time.  The  *)
(* burst tells Bob at once; assess does when guard.assess has returned.       *)
Recovered(t) ==
    /\ task[t] = "confirm" /\ recovered' = "none"
    /\ IF recovered = "done" /\ t = "measure"
       THEN Goto(t, "conclude") /\ UNCHANGED <<core, via, asked>>
       ELSE IF recovered = "done" /\ CanControl("alice")
       THEN /\ UNCHANGED <<gate, conn, dual, resume, guard, asked>>
            /\ Sends(t, "resume", Notice("ready"), link)
       ELSE Raises(t, link)
    /\ TaskStep
    /\ UNCHANGED <<reader, ids, basis, tries, left, approved, ping>>

(* The gate opens again.                                                      *)
Resumed(t) ==
    /\ task[t] = "resume"
    /\ \/ /\ CanMove(gate["alice"], "ACTIVE")
          /\ gate' = [gate EXCEPT !["alice"] = "ACTIVE"]
          /\ approved' = 0
          /\ Goto(t, IF t = "burst" THEN "next" ELSE "loop")
          /\ UNCHANGED <<conn, link, dual, resume, guard, via, asked>>
       \/ /\ ~CanMove(gate["alice"], "ACTIVE")
          /\ approved' = 0
          /\ Raises(t, link)
       \/ /\ SendLost(t)
          /\ Raises(t, link) /\ UNCHANGED approved
    /\ TaskStep
    /\ UNCHANGED <<reader, ids, basis, tries, left, ping, recovered>>

-------------------------------------------------------------------------------
(* reconnect_burst                                                            *)

(* set_demo_mode("reconnect_burst")                                           *)
StartBurst ==
    /\ cmd["alice"].pc = "idle" /\ gate["alice"] = "ACTIVE"
    /\ task["burst"] = "off"
    /\ Goto("burst", "wait") /\ left' = Attempts
    /\ UNCHANGED <<endpointVars, via, asked, tries, approved, ping, recovered>>

(* It lets a heartbeat or an assessment finish first, and then replaces the   *)
(* connection a bounded number of times.                                      *)
BurstNext ==
    /\ \/ task["burst"] = "wait" /\ ping = "none" /\ ~Guarding
       \/ task["burst"] = "next"
    /\ IF left = 0
       THEN Goto("burst", "off") /\ UNCHANGED <<core, ids, left, approved, via, asked>>
       ELSE IF gate["alice"] = "ACTIVE"
       THEN /\ ids < MaxIds
            /\ ids' = ids + 1 /\ approved' = ids + 1 /\ left' = left - 1
            /\ IF CanControl("alice")
               THEN /\ UNCHANGED <<gate, conn, dual, resume, guard, asked>>
                    /\ Sends("burst", "demo", Msg("demo_mode", ids + 1, FALSE), link)
               ELSE Raises("burst", link)
       ELSE Raises("burst", link) /\ UNCHANGED <<ids, left, approved>>
    /\ TaskStep
    /\ UNCHANGED <<reader, basis, tries, ping, recovered>>

BurstReconnects ==
    /\ task["burst"] = "demo"
    /\ \/ /\ CanMove(gate["alice"], "RECONNECTING")
          /\ gate' = [gate EXCEPT !["alice"] = "RECONNECTING"]
          /\ link' = Shut(link, "alice", conn["alice"])
          /\ Goto("burst", "close")
          /\ UNCHANGED <<conn, dual, resume, guard, via, asked>>
       \/ /\ ~CanMove(gate["alice"], "RECONNECTING") \/ SendLost("burst")
          /\ Raises("burst", link)
    /\ TaskStep
    /\ UNCHANGED <<reader, ids, basis, tries, left, approved, ping, recovered>>

-------------------------------------------------------------------------------
(* Alice's handle, and her reader                                             *)

AliceHandle(m, l) ==
    CASE m.type = "ready" /\ recovered = "waiting" ->
            /\ recovered' = "done" /\ link' = l /\ UNCHANGED <<gate, conn, dual, resume,
                 guard, ping, hist>> /\ ReaderLoops("alice")
      [] m.type = "pong" /\ ping = "sent" ->
            /\ ping' = "done" /\ link' = l /\ UNCHANGED <<gate, conn, dual, resume,
                 guard, recovered, hist>> /\ ReaderLoops("alice")
      [] m.type = "verify_response" ->
            HandleResponse("alice", m, l) /\ UNCHANGED <<ping, recovered>>
      [] m.type = "shutdown" -> HandleShutdown("alice", l) /\ UNCHANGED <<ping, recovered>>
      [] OTHER -> Refuse("alice", l) /\ UNCHANGED <<ping, recovered>>

AliceReceives ==
    LET c == reader["alice"].conn IN
    /\ reader["alice"].pc = "recv" /\ Up("alice", c) /\ link[c].wire["alice"] # <<>>
    /\ LET m == Head(link[c].wire["alice"])
           l == Take(link, "alice", c)
       IN IF m.type \in VerifyTypes /\ ~LockFree("alice")
          THEN /\ link' = l
               /\ reader' = [reader EXCEPT !["alice"].pc = "lock", !["alice"].msg = m]
               /\ UNCHANGED <<gate, conn, dual, resume, guard, ping, recovered, hist>>
          ELSE AliceHandle(m, l)
    /\ UNCHANGED <<cmd, closing, conns, ids, task, via, asked, tries, left, approved>>

AliceGetsLock ==
    /\ reader["alice"].pc = "lock" /\ LockFree("alice")
    /\ AliceHandle(reader["alice"].msg, link)
    /\ UNCHANGED <<cmd, closing, conns, ids, task, via, asked, tries, left, approved>>

-------------------------------------------------------------------------------
(* disconnect cancels both tasks first.  A cancelled send closes the          *)
(* connection, and so does SessionGuard.restrict if assess was under way.     *)
AliceDisconnectBegins ==
    /\ cmd["alice"].pc = "idle" /\ gate["alice"] \notin {"LOCKED", "CLOSED"}
    /\ cmd' = [cmd EXCEPT !["alice"] = [NoCommand EXCEPT !.pc = "stopping"]]
    /\ task' = [t \in Tasks |-> "off"] /\ via' = [t \in Tasks |-> 0]
    /\ asked' = NotAsked /\ recovered' = "none"
    /\ IF Guarding \/ \E t \in Tasks : task[t] \in {"ping", "demo", "resume", "proof"}
       THEN link' = Shut(link, "alice", conn["alice"])
       ELSE UNCHANGED link
    /\ guard' = IF Guarding THEN "unverified" ELSE guard
    /\ dual' = IF Responding THEN [dual EXCEPT !["alice"] = NoDual] ELSE dual
    /\ UNCHANGED <<gate, conn, resume, reader, closing, conns, ids, hist, tries, left,
                   approved, ping>>

AliceStops ==
    /\ cmd["alice"].pc = "stopping"
    /\ SendShutdown("alice")
    /\ UNCHANGED aliceVars

(* The browser socket is lost while the tasks are ending.                     *)
StopAbandoned ==
    /\ cmd["alice"].pc = "stopping"
    /\ cmd' = [cmd EXCEPT !["alice"] = NoCommand]
    /\ UNCHANGED <<core, reader, closing, conns, ids, hist, aliceVars>>

AliceDisconnectEnds == DisconnectEnds("alice", link) /\ UNCHANGED aliceVars

(* measure_loop, but for what takes both processes                            *)
MeasureStep ==
    \/ GuardFailed \/ LoopHead \/ Heartbeat \/ PingSent \/ HeartbeatStops
    \/ Conclude \/ AssessKeeps \/ AssessRotates \/ AssessVerifies
    \/ RequestSent \/ BothDecided \/ RespondTimesOut \/ ResultSent \/ NoticeSent

BurstStep == BurstNext \/ BurstReconnects

RecoveryStep(t) == RecoverBegins(t) \/ ProofSent(t) \/ Recovered(t) \/ Resumed(t)

AliceReads == AliceReceives \/ AliceGetsLock
===============================================================================
