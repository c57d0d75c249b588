------------------------------ MODULE ChatSession ------------------------------
(***************************************************************************)
(* Alice and Bob together: the two chat processes over authenticated TLS.  *)
(* This module adds what both take part in, establishing a connection, and *)
(* the people at the two keyboards.                                        *)
(*                                                                         *)
(* A run is bounded by MaxConns connections, MaxIds verification requests  *)
(* and burst messages, MaxSessions sessions of each role and MaxBursts     *)
(* bursts.                                                                 *)
(***************************************************************************)
EXTENDS ChatAlice, ChatBob

CONSTANTS MaxSessions, MaxBursts,
          TabsClose    \* a browser socket may be lost while its command runs

ASSUME SessionAssumption ==
    MaxSessions \in Nat /\ MaxBursts \in Nat /\ TabsClose \in BOOLEAN

VARIABLES
    sessions,         \* Coordinators of each role that had a connection
    bursts            \* reconnect bursts so far

bounds == <<sessions, bursts>>
vars == <<endpointVars, aliceVars, bobVars, bounds>>

Init ==
    /\ EndpointInit /\ AliceInit /\ BobInit
    /\ sessions = [r \in Role |-> 0] /\ bursts = 0

-------------------------------------------------------------------------------
(* establish, from both ends: the handshake completes and Bob's server hands  *)
(* the connection to accept; if it fails at Alice's end only, Bob is left     *)
(* with the connection.                                                       *)

Arrives(c) == cand' = [cand EXCEPT ![c].pc = "arrived"] /\ UNCHANGED server

Established(c) ==
    server /\ conns < MaxConns /\ c = conns + 1 /\ conns' = c /\ Arrives(c)

LinkUp(c) == [link EXCEPT ![c].up = [r \in Role |-> TRUE]]

(* MaxSessions bounds the sessions that had a connection, not the attempts.   *)
CountSession(r) == sessions' = [sessions EXCEPT ![r] = @ + 1] /\ UNCHANGED bursts

Dialled ==
    /\ \E c \in Conns : Established(c) /\ Connected(c) /\ link' = LinkUp(c)
    /\ CountSession("alice")

DialFails ==
    /\ ConnectFails \/ (TabsClose /\ ConnectAbandoned)
    /\ UNCHANGED <<conns, bobVars, bounds>>

(* A handshake takes network round trips: a task that could run before it     *)
(* began, because what it awaits is there or its connection is closed, is not *)
(* still waiting when it ends.                                                *)
CanRun(t) ==
    \/ task[t] = "pong" /\ ping = "done"
    \/ task[t] = "ready" /\ dual["alice"].ready # "waiting"
    \/ task[t] \in {"ping", "request", "result", "notice"} /\ SendLost(t)

Redialled(t) ==
    /\ \A u \in Tasks \ {t} : ~CanRun(u)
    /\ \E c \in Conns : Established(c) /\ Reconnected(t, c, LinkUp(c))
    /\ UNCHANGED bounds

RedialFails(t) ==
    /\ \/ EstablishFails(t, link) /\ UNCHANGED <<conns, bobVars>>
       \/ \E c \in Conns :
             Established(c) /\ EstablishFails(t, [link EXCEPT ![c].up["bob"] = TRUE])
    /\ UNCHANGED bounds

-------------------------------------------------------------------------------
(* The steps of each process in the whole system                              *)

Connects == sessions["alice"] < MaxSessions /\ Connect /\ UNCHANGED <<bobVars, bounds>>

Listens == sessions["bob"] < MaxSessions /\ StartServer /\ UNCHANGED <<aliceVars, bounds>>

Bursts ==
    /\ bursts < MaxBursts /\ bursts' = bursts + 1
    /\ StartBurst
    /\ UNCHANGED <<bobVars, sessions>>

OfAlice == UNCHANGED <<bobVars, bounds>>
OfBob == UNCHANGED <<aliceVars, bounds>>
OfEither == UNCHANGED <<aliceVars, bobVars, bounds>>

Measures ==
    \/ MeasureStep /\ OfAlice
    \/ RecoveryStep("measure") /\ OfAlice
    \/ Redialled("measure") \/ RedialFails("measure")

Replaces ==
    \/ BurstStep /\ OfAlice
    \/ RecoveryStep("burst") /\ OfAlice
    \/ Redialled("burst") \/ RedialFails("burst")

Reads(r) ==
    \/ r = "alice" /\ AliceReads /\ OfAlice
    \/ r = "bob" /\ BobReads /\ OfBob
    \/ (ReaderSeesClose(r) \/ ReaderSent(r) \/ EndOfStream(r)) /\ OfEither

Admission(c) ==
    /\ Admits(c) /\ UNCHANGED aliceVars
    /\ IF gate["bob"] = "CONNECTING" /\ gate'["bob"] = "VERIFYING"
       THEN CountSession("bob") ELSE UNCHANGED bounds

(* A person answers a request on the screen, which may have gone meanwhile.   *)
Answers(r) ==
    (\E id \in 1 .. ids, match \in BOOLEAN : Confirm(r, id, match)) /\ OfEither

(* What a command does after its first await                                  *)
CommandStep(r) ==
    \/ Decide(r) /\ OfEither
    \/ r = "alice" /\ (AliceStops \/ AliceDisconnectEnds) /\ OfAlice
    \/ r = "bob" /\ BobDisconnectEnds /\ OfBob

TabCloses(r) ==
    /\ TabsClose
    /\ \/ (ConfirmAbandoned(r) \/ DisconnectAbandoned(r)) /\ OfEither
       \/ r = "alice" /\ StopAbandoned /\ OfAlice

Disconnects ==
    \/ AliceDisconnectBegins /\ OfAlice
    \/ BobDisconnectBegins /\ OfBob

Timeouts(r) ==
    \/ VerificationEnds(r) /\ OfEither
    \/ r = "bob" /\ ReservationExpires /\ OfBob

Next ==
    \/ Connects \/ Listens \/ Bursts \/ Dialled \/ DialFails
    \/ Measures \/ Replaces \/ Disconnects
    \/ \E c \in Conns : Admission(c)
    \/ \E r \in Role :
          \/ Answers(r) \/ CommandStep(r) \/ Reads(r) \/ TabCloses(r) \/ Timeouts(r)
          \/ LinkFails(r, conn[r]) /\ OfEither

Spec == Init /\ [][Next]_vars

(* The event loops run every coroutine that can run, and every timer fires.   *)
Fairness ==
    /\ WF_vars(Measures) /\ WF_vars(Replaces) /\ WF_vars(Dialled \/ DialFails)
    /\ \A c \in Conns : WF_vars(Admission(c))
    /\ \A r \in Role : WF_vars(CommandStep(r)) /\ WF_vars(Reads(r)) /\ WF_vars(Timeouts(r))

FairSpec == Spec /\ Fairness

-------------------------------------------------------------------------------
TypeOK ==
    /\ EndpointTypeOK /\ AliceTypeOK /\ BobTypeOK
    /\ sessions \in [Role -> 0 .. MaxSessions] /\ bursts \in 0 .. MaxBursts

(* A gate is open only on a request of this session that both people answered *)
(* MATCH: nothing in the protocol, a recovery or a stale approval included,   *)
(* opens the chat on one person's word.                                       *)
BothPeopleMatched ==
    \A r \in Role : gate[r] = "ACTIVE" =>
        basis[r].id \in matched["alice"] \cap matched["bob"]

(* After a comparison that was to be followed by fresh TLS, a gate is never   *)
(* open on the connection the comparison was made on.                         *)
RecoveredOnFreshTLS ==
    \A r \in Role : gate[r] = "ACTIVE" /\ basis[r].recovery => conn[r] > basis[r].on

(* Neither runtime refuses a frame of the other: whatever the two people      *)
(* click and whenever, the frames of an honest peer arrive in an order its    *)
(* handlers expect.  (verification_lock is there for this.)  Holds without    *)
(* bursts and within the first session of each role: see                      *)
(* OpenSessionSurvivesItsPeer for what a failed recovery leaves to the next.  *)
HonestPeerNotRefused == (\A r \in Role : sessions[r] <= 1) => refused = {}

(* While a comparison is pending at an endpoint, its chat gate is closed.     *)
(* README.md:17: "If connection behavior triggers another verification,       *)
(* messaging pauses."  Holds without bursts.                                  *)
PendingComparisonPauses == \A r \in Role : dual[r] # NoDual => gate[r] # "ACTIVE"

(* A frame of the honest peer never ends a session that both people approved  *)
(* and that is open: after a failure they only have to compare again.         *)
(* docs/two-device-operation.md:67: "Alice explicitly reconnects and both     *)
(* compare again."                                                            *)
OpenSessionSurvivesItsPeer ==
    [][\A r \in Role : r \in refused' \ refused => gate[r] # "ACTIVE"]_vars

(* No endpoint stays in a state it shows as transient: a comparison or a      *)
(* recovery always ends, opened, restricted or closed.                        *)
TransientStatesEnd ==
    \A r \in Role : \A s \in {"VERIFYING", "RECONNECTING"} :
        gate[r] = s ~> gate[r] # s
===============================================================================
