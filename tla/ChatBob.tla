-------------------------------- MODULE ChatBob --------------------------------
(***************************************************************************)
(* Bob's process (chat/runtime.py BobRuntime): the TLS listener, admission *)
(* of connections to the one chat slot, and Bob's side of verification and *)
(* recovery.  The modes that delay or relabel measurements are left out;   *)
(* of set_demo_mode only the reconnect burst reaches this protocol.        *)
(***************************************************************************)
EXTENDS ChatEndpoint

VARIABLES
    server,           \* the SecureServer is listening
    cand              \* connections in accept, and the reservation each read

bobVars == <<server, cand>>

NoCand == [pc |-> "none", id |-> 0]

BobTypeOK ==
    /\ server \in BOOLEAN
    /\ cand \in [Conns -> [pc : {"none", "arrived", "proof"}, id : 0 .. MaxIds]]

BobInit == server = FALSE /\ cand = [c \in Conns |-> NoCand]

(* occupied is set where read_loop is about to start and reset when it ends.  *)
Occupied == reader["bob"].pc # "off"

Leave(c) == cand' = [cand EXCEPT ![c] = NoCand]

(* start_server; a listener that cannot start leaves the gate CLOSED          *)
StartServer ==
    /\ ~server /\ cmd["bob"].pc = "idle"
    /\ conn' = [conn EXCEPT !["bob"] = 0]
    /\ \/ server' = TRUE /\ gate' = [gate EXCEPT !["bob"] = "CONNECTING"]
       \/ server' = FALSE /\ gate' = [gate EXCEPT !["bob"] = "CLOSED"]
    /\ UNCHANGED <<link, dual, resume, guard, reader, cmd, closing, conns, ids,
                   hist, cand>>

(* Coordinator.attach and the start of read_loop                              *)
AttachBob(c, pc) ==
    /\ gate' = [gate EXCEPT !["bob"] = "VERIFYING"]
    /\ conn' = [conn EXCEPT !["bob"] = c]
    /\ reader' = [reader EXCEPT !["bob"] = [pc |-> pc, conn |-> c, msg |-> NoMsg]]

(* accept up to the await of the recovery proof                               *)
Accept(c) ==
    /\ cand[c].pc = "arrived"
    /\ \/ /\ ~Occupied /\ gate["bob"] = "CONNECTING"
          /\ Leave(c) /\ AttachBob(c, "recv")
          /\ basis' = [basis EXCEPT !["bob"] = NoBasis]
          /\ UNCHANGED link
       \/ /\ ~Occupied /\ gate["bob"] = "RECONNECTING" /\ resume # NoResume
          /\ cand' = [cand EXCEPT ![c] = [pc |-> "proof", id |-> resume.id]]
          /\ UNCHANGED <<gate, conn, link, reader, basis>>
       \/ /\ \/ Occupied \/ gate["bob"] \notin {"CONNECTING", "RECONNECTING"}
             \/ gate["bob"] = "RECONNECTING" /\ resume = NoResume
          /\ Leave(c) /\ link' = Shut(link, "bob", c)
          /\ UNCHANGED <<gate, conn, reader, basis>>
    /\ UNCHANGED <<dual, resume, guard, cmd, closing, conns, ids, matched, refused,
                   server>>

(* The final admission check of accept                                        *)
Admissible(c, m) ==
    /\ m.type = "verification_result" /\ m.id = cand[c].id /\ m.flag
    /\ resume.id = cand[c].id /\ ~Occupied /\ ~closing["bob"]
    /\ gate["bob"] = "RECONNECTING"

(* handle of the proof of a recovery, down to the await in control(ready)     *)
ProvesSilently(c, l) ==
    resume' = [resume EXCEPT !.confirmed = TRUE] /\ link' = l

Proves(c, l) ==
    /\ resume' = [resume EXCEPT !.confirmed = TRUE]
    /\ link' = Put(l, "bob", c, Notice("ready"))

(* accept after the proof: the slot is claimed and the proof handled down to  *)
(* the await in control(ready).  verification_lock is free, because no        *)
(* decision is under way while Bob is reconnecting.                           *)
Admit(c) ==
    /\ cand[c].pc = "proof" /\ Up("bob", c) /\ link[c].wire["bob"] # <<>>
    /\ Leave(c)
    /\ LET m == Head(link[c].wire["bob"])
           l == Take(link, "bob", c)
       IN IF Admissible(c, m)
          THEN AttachBob(c, "ready") /\ Proves(c, l)
          ELSE /\ link' = Shut(l, "bob", c)
               /\ UNCHANGED <<gate, conn, reader, resume>>
    /\ UNCHANGED <<dual, guard, cmd, closing, conns, ids, hist, server>>

(* A silent candidate runs into its two seconds, or its connection fails.     *)
CandidateEnds(c) ==
    /\ cand[c].pc = "proof"
    /\ Leave(c) /\ link' = Shut(link, "bob", c)
    /\ UNCHANGED <<gate, conn, dual, resume, guard, reader, cmd, closing, conns,
                   ids, hist, server>>

(* handle(proof) returns; its exception ends accept without restrict.         *)
ProofHandled ==
    /\ reader["bob"].pc = "ready"
    /\ UNCHANGED <<core, cmd, closing, conns, ids, hist, bobVars>>
    /\ \/ ReaderLoops("bob")
       \/ ~Up("bob", reader["bob"].conn) /\ reader' = [reader EXCEPT !["bob"] = NoReader]

-------------------------------------------------------------------------------
(* Bob's handle, one message at a time; l is the links without the message.   *)

(* begin_verification                                                         *)
BobVerifyRequest(m, l) ==
    IF dual["bob"] = NoDual /\ gate["bob"] \in {"ACTIVE", "VERIFYING"}
    THEN /\ BeginVerification("bob", m.id, m.flag)
         /\ link' = l
         /\ UNCHANGED <<conn, resume, guard>> /\ UNCHANGED hist
         /\ ReaderLoops("bob")
    ELSE Refuse("bob", l)

(* Alice's result is accepted only if both decisions are already in.          *)
ResultAgrees(m) ==
    /\ dual["bob"] # NoDual
    /\ m.id = dual["bob"].id /\ m.flag = dual["bob"].recovery
    /\ \A r \in Role : dual["bob"].decisions[r] = "MATCH"

(* Where a result takes the gate: after a recovery, not to the same connection*)
AfterAnyResult(m) == "ACTIVE"

AfterResult(m) == IF m.flag THEN "RECONNECTING" ELSE "ACTIVE"

BobResult(m, l) ==
    LET next == AfterResult(m) IN
    IF ResultAgrees(m) /\ CanMove(gate["bob"], next)
    THEN /\ gate' = [gate EXCEPT !["bob"] = next]
         /\ resume' = IF m.flag THEN [id |-> m.id, confirmed |-> FALSE] ELSE resume
         /\ dual' = [dual EXCEPT !["bob"] = NoDual]
         /\ link' = l
         /\ basis' = [basis EXCEPT !["bob"] =
               [id |-> m.id, on |-> conn["bob"], recovery |-> m.flag]]
         /\ UNCHANGED <<conn, guard, matched, refused>>
         /\ ReaderLoops("bob")
    ELSE IF /\ resume # NoResume /\ dual["bob"] = NoDual
            /\ gate["bob"] = "VERIFYING" /\ m.id = resume.id /\ m.flag
    THEN /\ Proves(conn["bob"], l)
         /\ reader' = [reader EXCEPT !["bob"].pc = "ready"]
         /\ UNCHANGED <<gate, conn, dual, guard>> /\ UNCHANGED hist
    ELSE Refuse("bob", l)

(* demo_mode of a reconnect burst                                             *)
BobBurst(m, l) ==
    IF gate["bob"] = "ACTIVE"
    THEN /\ gate' = [gate EXCEPT !["bob"] = "RECONNECTING"]
         /\ resume' = [id |-> m.id, confirmed |-> FALSE]
         /\ link' = l
         /\ UNCHANGED <<conn, dual, guard>> /\ UNCHANGED hist
         /\ ReaderLoops("bob")
    ELSE Refuse("bob", l)

BobPing(l) ==
    IF gate["bob"] \notin ControlRefused
    THEN /\ link' = Put(l, "bob", conn["bob"], Notice("pong"))
         /\ reader' = [reader EXCEPT !["bob"].pc = "pong"]
         /\ UNCHANGED <<gate, conn, dual, resume, guard>> /\ UNCHANGED hist
    ELSE ReaderRaises("bob", l) /\ UNCHANGED hist

BobReconnect(l) ==
    IF resume # NoResume /\ gate["bob"] = "RECONNECTING"
    THEN /\ link' = l
         /\ UNCHANGED <<gate, conn, dual, resume, guard>> /\ UNCHANGED hist
         /\ ReaderLoops("bob")
    ELSE Refuse("bob", l)

BobReady(l) ==
    IF resume.confirmed /\ gate["bob"] = "VERIFYING"
    THEN /\ gate' = [gate EXCEPT !["bob"] = "ACTIVE"]
         /\ resume' = NoResume
         /\ link' = l
         /\ UNCHANGED <<conn, dual, guard>> /\ UNCHANGED hist
         /\ ReaderLoops("bob")
    ELSE Refuse("bob", l)

BobHandle(m, l) ==
    CASE m.type = "verify_request" -> BobVerifyRequest(m, l)
      [] m.type = "verify_response" -> HandleResponse("bob", m, l)
      [] m.type = "verification_result" -> BobResult(m, l)
      [] m.type = "demo_mode" -> BobBurst(m, l)
      [] m.type = "ping" -> BobPing(l)
      [] m.type = "reconnect" -> BobReconnect(l)
      [] m.type = "ready" -> BobReady(l)
      [] m.type = "shutdown" -> HandleShutdown("bob", l)

(* receive, and handle unless it must first wait for verification_lock        *)
BobReceives ==
    LET c == reader["bob"].conn IN
    /\ reader["bob"].pc = "recv" /\ Up("bob", c) /\ link[c].wire["bob"] # <<>>
    /\ LET m == Head(link[c].wire["bob"])
           l == Take(link, "bob", c)
       IN IF m.type \in VerifyTypes /\ ~LockFree("bob")
          THEN /\ link' = l
               /\ reader' = [reader EXCEPT !["bob"].pc = "lock", !["bob"].msg = m]
               /\ UNCHANGED <<gate, conn, dual, resume, guard>> /\ UNCHANGED hist
          ELSE BobHandle(m, l)
    /\ UNCHANGED <<cmd, closing, conns, ids, bobVars>>

BobGetsLock ==
    /\ reader["bob"].pc = "lock" /\ LockFree("bob")
    /\ BobHandle(reader["bob"].msg, link)
    /\ UNCHANGED <<cmd, closing, conns, ids, bobVars>>

(* The reservation's timer                                                    *)
ReservationForgotten == FALSE

ReservationExpires ==
    /\ resume # NoResume
    /\ Restricts("bob", link)
    /\ UNCHANGED <<reader, cmd, closing, conns, ids, hist, bobVars>>

-------------------------------------------------------------------------------
BobDisconnectBegins ==
    /\ cmd["bob"].pc = "idle" /\ gate["bob"] \notin {"LOCKED", "CLOSED"}
    /\ SendShutdown("bob")
    /\ UNCHANGED bobVars

(* Closing the listener cancels every accept, which closes its connection.    *)
BobDisconnectEnds ==
    /\ DisconnectEnds("bob",
          [c \in Conns |-> IF cand[c].pc # "none" THEN Shut(link, "bob", c)[c]
                                                  ELSE link[c]])
    /\ server' = FALSE
    /\ cand' = [c \in Conns |-> NoCand]

BobReads == BobReceives \/ BobGetsLock \/ ProofHandled

Admits(c) == Accept(c) \/ Admit(c) \/ CandidateEnds(c)
===============================================================================
