------------------------------ MODULE ChatEndpoint ------------------------------
(***************************************************************************)
(* What the two chat processes have in common (chat/runtime.py Endpoint,   *)
(* chat/verification.py, network/connection.py) and the TLS connections    *)
(* between them.  Alice's and Bob's own parts are in ChatAlice, ChatBob;   *)
(* ChatSession puts the three together.                                    *)
(*                                                                         *)
(* Each process is one event loop: a step is the code between two awaits.  *)
(* A coroutine that sends hands its frame over and resumes in a later step;*)
(* a frame still unsent when its connection closes is lost like one in     *)
(* flight.  There is one relationship, so its identifier is left out, and  *)
(* MISMATCH and CANCEL are both "not MATCH".                               *)
(***************************************************************************)
EXTENDS ChatStates, Naturals, Sequences, FiniteSets

CONSTANTS MaxConns,    \* TLS connections over the whole run
          MaxIds,      \* verification requests and reconnect bursts
          Attempts     \* ChatConfig.reconnect_attempts

ASSUME EndpointAssumption ==
    MaxConns \in Nat /\ MaxIds \in Nat /\ Attempts \in Nat \ {0}

Role == {"alice", "bob"}
Peer(r) == IF r = "alice" THEN "bob" ELSE "alice"
Conns == 1 .. MaxConns
Ids == 1 .. MaxIds

Message == [type : {"verify_request", "verify_response", "verification_result",
                    "demo_mode", "ping", "pong", "reconnect", "ready",
                    "shutdown", "none"},
            id : 0 .. MaxIds,
            flag : BOOLEAN]     \* recovery, or the decision is MATCH
Msg(type, id, flag) == [type |-> type, id |-> id, flag |-> flag]
Notice(type) == Msg(type, 0, FALSE)
NoMsg == Notice("none")
VerifyTypes == {"verify_request", "verify_response", "verification_result"}

Dual == [id : 0 .. MaxIds, recovery : BOOLEAN,
         decisions : [Role -> {"none", "MATCH", "other"}],
         ready : {"waiting", "yes", "no"}]
NoDual == [id |-> 0, recovery |-> FALSE, decisions |-> [r \in Role |-> "none"],
           ready |-> "no"]
NoResume == [id |-> 0, confirmed |-> FALSE]

VARIABLES
    gate, conn,       \* Coordinator.state and .connection of each role; 0 is None
    link,             \* per connection: which ends are open, frames towards each
    dual, resume,     \* DualVerification; the recovery Bob has reserved
    guard,            \* Alice's SessionGuard: none, unverified, verified
    reader,           \* read_loop of each role, with a message it is handling
    cmd,              \* the command holding _command_lock
    closing,          \* _closing
    conns, ids,       \* connections and identifiers used so far
    matched,          \* history: requests this human answered MATCH
    basis,            \* history: the comparison that last opened this gate
    refused           \* history: roles that refused a frame of their peer

core == <<gate, conn, link, dual, resume, guard>>
hist == <<matched, basis, refused>>
endpointVars == <<core, reader, cmd, closing, conns, ids, hist>>

NoBasis == [id |-> 0, on |-> 0, recovery |-> FALSE]
NoReader == [pc |-> "off", conn |-> 0, msg |-> NoMsg]
NoCommand == [pc |-> "idle", conn |-> 0, id |-> 0, match |-> FALSE]

EndpointTypeOK ==
    /\ gate \in [Role -> State] /\ conn \in [Role -> 0 .. MaxConns]
    /\ link \in [Conns -> [up : [Role -> BOOLEAN], wire : [Role -> Seq(Message)]]]
    /\ dual \in [Role -> Dual]
    /\ resume \in [id : 0 .. MaxIds, confirmed : BOOLEAN]
    /\ guard \in {"none", "unverified", "verified"}
    /\ reader \in [Role -> [pc : {"off", "recv", "lock", "pong", "ready"},
                            conn : 0 .. MaxConns, msg : Message]]
    /\ cmd \in [Role -> [pc : {"idle", "deciding", "connecting", "stopping", "notice"},
                         conn : 0 .. MaxConns, id : 0 .. MaxIds, match : BOOLEAN]]
    /\ closing \in [Role -> BOOLEAN]
    /\ conns \in 0 .. MaxConns /\ ids \in 0 .. MaxIds
    /\ matched \in [Role -> SUBSET Ids]
    /\ basis \in [Role -> [id : 0 .. MaxIds, on : 0 .. MaxConns, recovery : BOOLEAN]]
    /\ refused \in SUBSET Role

EndpointInit ==
    /\ gate = [r \in Role |-> "LOCKED"] /\ conn = [r \in Role |-> 0]
    /\ link = [c \in Conns |-> [up |-> [r \in Role |-> FALSE],
                                wire |-> [r \in Role |-> <<>>]]]
    /\ dual = [r \in Role |-> NoDual] /\ resume = NoResume /\ guard = "none"
    /\ reader = [r \in Role |-> NoReader] /\ cmd = [r \in Role |-> NoCommand]
    /\ closing = [r \in Role |-> FALSE]
    /\ conns = 0 /\ ids = 0
    /\ matched = [r \in Role |-> {}] /\ basis = [r \in Role |-> NoBasis]
    /\ refused = {}

-------------------------------------------------------------------------------
(* The TLS connections.  Each operator maps the links to the links after it.  *)

Up(r, c) == c # 0 /\ link[c].up[r]

(* FramedConnection.close: unread frames are gone with the end.               *)
Shut(l, r, c) ==
    IF c = 0 THEN l
    ELSE [l EXCEPT ![c].up[r] = FALSE, ![c].wire[r] = <<>>]

(* FramedConnection.send on an open end; a closed peer reads nothing.         *)
Put(l, r, c, m) ==
    IF l[c].up[Peer(r)] THEN [l EXCEPT ![c].wire[Peer(r)] = Append(@, m)] ELSE l

Take(l, r, c) == [l EXCEPT ![c].wire[r] = Tail(@)]

(* Coordinator.control does not raise.                                        *)
CanControl(r) == gate[r] \notin ControlRefused /\ Up(r, conn[r])

(* The network loses the connection, or io_timeout expires: the end closes.   *)
LinkFails(r, c) ==
    /\ Up(r, c)
    /\ link' = Shut(link, r, c)
    /\ UNCHANGED <<gate, conn, dual, resume, guard, reader, cmd, closing, conns,
                   ids, hist>>

(* The reader finds the end of stream, or a reset discards what is in flight. *)
EndOfStream(r) ==
    /\ reader[r].pc = "recv" /\ ~link[reader[r].conn].up[Peer(r)]
    /\ LinkFails(r, reader[r].conn)

-------------------------------------------------------------------------------
(* Shared handlers.                                                           *)

(* Endpoint.restrict with Alice's addition: the gate closes, the pending      *)
(* comparison and the reservation go, the connection closes.                  *)
Restricts(r, l) ==
    /\ gate' = [gate EXCEPT ![r] = IF @ \in {"RESTRICTED", "CLOSED"} THEN @
                                   ELSE "RESTRICTED"]
    /\ dual' = [dual EXCEPT ![r] = NoDual]
    /\ resume' = IF r = "bob" THEN NoResume ELSE resume
    /\ guard' = IF r = "alice" /\ guard # "none" THEN "unverified" ELSE guard
    /\ link' = Shut(l, r, conn[r])
    /\ UNCHANGED conn

(* DualVerification.decide when it does not raise; the mutant does not count  *)
(* the decisions.                                                             *)
DecidedByEither(d, r, match) ==
    [d EXCEPT !.decisions[r] = IF match THEN "MATCH" ELSE "other",
              !.ready = IF d.ready # "waiting" THEN d.ready
                        ELSE IF match THEN "yes" ELSE "no"]

Decided(d, r, match) ==
    [d EXCEPT !.decisions[r] = IF match THEN "MATCH" ELSE "other",
              !.ready = IF d.ready # "waiting" THEN d.ready
                        ELSE IF ~match THEN "no"
                        ELSE IF d.decisions[Peer(r)] # "none" THEN "yes"
                        ELSE "waiting"]

NewDual(id, recovery) ==
    [id |-> id, recovery |-> recovery, decisions |-> [r \in Role |-> "none"],
     ready |-> "waiting"]

(* begin_verification, its guard apart; the mutant lets the gate be.          *)
BeginWithoutPause(r, id, recovery) ==
    dual' = [dual EXCEPT ![r] = NewDual(id, recovery)] /\ UNCHANGED gate

BeginVerification(r, id, recovery) ==
    /\ dual' = [dual EXCEPT ![r] = NewDual(id, recovery)]
    /\ gate' = [gate EXCEPT ![r] = "VERIFYING"]

(* verification_lock is held across confirm's send, and across Bob's send of  *)
(* ready when a proof arrives; the mutant has no lock.                        *)
NoLock(r) == TRUE

LockFree(r) == cmd[r].pc # "deciding" /\ reader[r].pc # "ready"

(* The condition of read_loop after a message, then the next receive.         *)
ReaderLoops(r) ==
    reader' = [reader EXCEPT ![r] =
        IF ~closing[r] /\ reader[r].conn = conn'[r] /\ link'[reader[r].conn].up[r]
        THEN [@ EXCEPT !.pc = "recv", !.msg = NoMsg] ELSE NoReader]

(* The except clause of read_loop.  Bob's server closes the connection once   *)
(* its handler has returned; Alice's is closed by whoever replaces it.        *)
ReaderRaises(r, l) ==
    /\ reader' = [reader EXCEPT ![r] = NoReader]
    /\ IF ~closing[r] /\ reader[r].conn = conn[r] /\ gate[r] # "RECONNECTING"
       THEN Restricts(r, l)
       ELSE /\ link' = IF r = "bob" THEN Shut(l, r, reader[r].conn) ELSE l
            /\ UNCHANGED <<gate, conn, dual, resume, guard>>

(* A message its handler refuses with ChatProtocolError; it counts as refused *)
(* if this end of its connection was still open.                              *)
Refuse(r, l) ==
    /\ ReaderRaises(r, l)
    /\ refused' = IF Up(r, reader[r].conn) THEN refused \cup {r} ELSE refused
    /\ UNCHANGED <<matched, basis>>

ReaderSeesClose(r) ==
    /\ reader[r].pc = "recv" /\ ~Up(r, reader[r].conn)
    /\ ReaderRaises(r, link)
    /\ UNCHANGED <<cmd, closing, conns, ids, hist>>

(* A send in the reader comes back: with an exception if the connection has   *)
(* closed meanwhile and the frame was not drained.                            *)
ReaderSent(r) ==
    /\ reader[r].pc = "pong"
    /\ \/ UNCHANGED core /\ ReaderLoops(r)
       \/ ~Up(r, reader[r].conn) /\ ReaderRaises(r, link)
    /\ UNCHANGED <<cmd, closing, conns, ids, hist>>

(* handle of verify_response, under the lock                                  *)
HandleResponse(r, m, l) ==
    LET d == dual[r] IN
    IF d = NoDual \/ m.id # d.id \/ d.decisions[Peer(r)] # "none"
    THEN Refuse(r, l)
    ELSE /\ IF ~m.flag /\ r = "bob"
            THEN Restricts(r, l)
            ELSE /\ dual' = [dual EXCEPT ![r] = Decided(d, Peer(r), m.flag)]
                 /\ link' = l
                 /\ UNCHANGED <<gate, conn, resume, guard>>
         /\ ReaderLoops(r)
         /\ UNCHANGED hist

HandleShutdown(r, l) ==
    Restricts(r, l) /\ ReaderLoops(r) /\ UNCHANGED hist

(* The verification timer of begin_verification, or the browser is lost while *)
(* a comparison is pending.                                                   *)
VerificationEnds(r) ==
    /\ dual[r] # NoDual
    /\ Restricts(r, link)
    /\ UNCHANGED <<reader, cmd, closing, conns, ids, hist>>

-------------------------------------------------------------------------------
(* Commands of the local user.                                                *)

(* confirm up to the await in control.  A click on a request that is not the  *)
(* pending one, or a second click, restricts.                                 *)
Confirm(r, id, match) ==
    /\ cmd[r].pc = "idle" /\ LockFree(r) /\ gate[r] # "LOCKED"
    /\ IF /\ dual[r] # NoDual /\ gate[r] = "VERIFYING" /\ id = dual[r].id
          /\ dual[r].decisions[r] = "none" /\ CanControl(r)
       THEN /\ link' = Put(link, r, conn[r], Msg("verify_response", id, match))
            /\ cmd' = [cmd EXCEPT ![r] = [pc |-> "deciding", conn |-> conn[r],
                                          id |-> id, match |-> match]]
            /\ matched' = IF match THEN [matched EXCEPT ![r] = @ \cup {id}] ELSE matched
            /\ UNCHANGED <<gate, conn, dual, resume, guard>>
       ELSE Restricts(r, link) /\ UNCHANGED <<cmd, matched>>
    /\ UNCHANGED <<reader, closing, conns, ids, basis, refused>>

(* confirm after the send: the decision counts locally too.  A comparison     *)
(* that ended meanwhile is decided without effect.                            *)
Decide(r) ==
    /\ cmd[r].pc = "deciding"
    /\ cmd' = [cmd EXCEPT ![r] = NoCommand]
    /\ \/ IF dual[r].id # cmd[r].id
          THEN UNCHANGED core
          ELSE IF ~cmd[r].match /\ r = "bob"
          THEN Restricts(r, link)
          ELSE /\ dual' = [dual EXCEPT ![r] = Decided(@, r, cmd[r].match)]
               /\ UNCHANGED <<gate, conn, link, resume, guard>>
       \/ ~Up(r, cmd[r].conn) /\ Restricts(r, link)
    /\ UNCHANGED <<reader, closing, conns, ids, hist>>

(* The browser socket that sent the decision is lost during the send: the     *)
(* cancelled send closes the connection and confirm restricts nothing.        *)
ConfirmAbandoned(r) ==
    /\ cmd[r].pc = "deciding"
    /\ cmd' = [cmd EXCEPT ![r] = NoCommand]
    /\ link' = Shut(link, r, cmd[r].conn)
    /\ UNCHANGED <<gate, conn, dual, resume, guard, reader, closing, conns, ids, hist>>

(* disconnect: the shutdown notice, if it can be sent                         *)
SendShutdown(r) ==
    /\ closing' = [closing EXCEPT ![r] = TRUE]
    /\ cmd' = [cmd EXCEPT ![r] = [NoCommand EXCEPT !.pc = "notice"]]
    /\ link' = IF CanControl(r) THEN Put(link, r, conn[r], Notice("shutdown")) ELSE link
    /\ UNCHANGED <<gate, conn, dual, resume, guard, reader, conns, ids, hist>>

(* The browser socket is lost during that send: the connection closes, and    *)
(* nothing else of disconnect happens.                                        *)
DisconnectAbandoned(r) ==
    /\ cmd[r].pc = "notice" /\ CanControl(r)
    /\ cmd' = [cmd EXCEPT ![r] = NoCommand]
    /\ closing' = [closing EXCEPT ![r] = FALSE]
    /\ link' = Shut(link, r, conn[r])
    /\ UNCHANGED <<gate, conn, dual, resume, guard, reader, conns, ids, hist>>

(* The rest of disconnect; l is link without what the role closes besides     *)
DisconnectEnds(r, l) ==
    /\ cmd[r].pc = "notice"
    /\ cmd' = [cmd EXCEPT ![r] = NoCommand]
    /\ closing' = [closing EXCEPT ![r] = FALSE]
    /\ reader' = [reader EXCEPT ![r] = NoReader]
    /\ gate' = [gate EXCEPT ![r] = "CLOSED"]
    /\ dual' = [dual EXCEPT ![r] = NoDual]
    /\ resume' = IF r = "bob" THEN NoResume ELSE resume
    /\ link' = Shut(l, r, conn[r])
    /\ UNCHANGED <<conn, guard, conns, ids, hist>>
===============================================================================
