------------------------------- MODULE ChatGate -------------------------------
(***************************************************************************)
(* One endpoint's chat gate: the coordinator's state and generation, the   *)
(* framed connection with its FIFO send lock, the send_chat command with   *)
(* its delivery bookkeeping, and the reader task.  Every coroutine runs on *)
(* one event loop, so a step is the code between two awaits.               *)
(*                                                                         *)
(* The handlers that move the gate (verification, recovery, timers) are    *)
(* modelled in full by ChatSession; here each is the transition it makes,  *)
(* at any moment it is legal.  The peer shows and acknowledges a chat or,  *)
(* when its own gate is closed, drops it.                                  *)
(***************************************************************************)
EXTENDS ChatStates, Naturals, Sequences, FiniteSets

CONSTANTS MaxChats,      \* chats this endpoint's user submits
          QueueSize,     \* ChatConfig.queue_size
          MaxConns,      \* TLS connections over the whole run
          MaxSessions,   \* Coordinator objects (start_server or _connect)
          MaxApprovals,  \* times the gate is opened
          MaxPeerChats,  \* chats the peer writes
          MaxCancels     \* commands cancelled with their browser socket

ASSUME BoundsAssumption ==
    /\ MaxChats \in Nat /\ QueueSize \in Nat /\ MaxConns \in Nat
    /\ MaxSessions \in Nat /\ MaxApprovals \in Nat
    /\ MaxPeerChats \in Nat /\ MaxCancels \in Nat

Chats == 1 .. MaxChats
Conns == 1 .. MaxConns
PeerChat == 0                            \* a chat frame among incoming acks
Writers == {"chat", "reader", "task"}    \* coroutines inside connection.send
Status == {"none", "sending", "sent", "delivered", "delivery unconfirmed",
           "not delivered"}

VARIABLES
    state, generation, connection,  \* Coordinator; connection 0 is None
    session, conns,                 \* Coordinators, connections made so far
    closing,                        \* progress of disconnect()
    open,                           \* FramedConnection._closed, negated
    ahead,                          \* who is before whom for a _send_lock
    writer, wconn,                  \* each coroutine's place in send()
    ticket,                         \* what flush_one captured for permitted
    reader,                         \* read_loop and what receive() captured
    submitted, status,              \* messages shown to the local browser
    deliveries, slotGen,            \* Endpoint.deliveries
    buffer, inbox,                  \* chat frames out, frames in
    peerChats, shown,               \* the peer's chats, and what it displayed
    cancels,
    approval, born, written, badAck  \* history, read by properties only

gateVars == <<state, generation, connection, session, conns, closing>>
sendVars == <<ahead, writer, wconn, ticket>>
logVars == <<submitted, status, deliveries, slotGen>>
peerVars == <<buffer, inbox, peerChats, shown>>
histVars == <<approval, born, written, badAck>>
vars == <<gateVars, open, sendVars, reader, logVars, peerVars, cancels, histVars>>

NoTicket == [msg |-> 0, gen |-> 0, session |-> 0]
NoReader == [on |-> FALSE, conn |-> 0, gen |-> 0]

GateTypeOK ==
    /\ state \in State /\ generation \in Nat /\ connection \in 0 .. MaxConns
    /\ session \in Nat /\ conns \in 0 .. MaxConns
    /\ closing \in {"no", "notice", "closed"}
    /\ open \in [Conns -> BOOLEAN]

SendTypeOK ==
    /\ ahead \in SUBSET (Writers \X Writers)
    /\ writer \in [Writers -> {"idle", "waiting", "draining"}]
    /\ wconn \in [Writers -> 0 .. MaxConns]
    /\ ticket \in [msg : 0 .. MaxChats, gen : Nat, session : Nat]
    /\ reader \in [on : BOOLEAN, conn : 0 .. MaxConns, gen : Nat]

LogTypeOK ==
    /\ submitted \in 0 .. MaxChats /\ status \in [Chats -> Status]
    /\ deliveries \in SUBSET Chats /\ slotGen \in [Chats -> Nat]

PeerTypeOK ==
    /\ buffer \in [Conns -> Seq(Chats)]
    /\ inbox \in [Conns -> Seq(0 .. MaxChats)]
    /\ peerChats \in Nat /\ shown \in SUBSET Chats /\ cancels \in Nat

HistTypeOK ==
    /\ approval \in Nat /\ born \in [Chats -> Nat]
    /\ written \in SUBSET (Chats \X Nat) /\ badAck \in BOOLEAN

TypeOK == GateTypeOK /\ SendTypeOK /\ LogTypeOK /\ PeerTypeOK /\ HistTypeOK

Init ==
    /\ state = "LOCKED" /\ generation = 0 /\ connection = 0
    /\ session = 0 /\ conns = 0 /\ closing = "no"
    /\ open = [c \in Conns |-> FALSE]
    /\ ahead = {}
    /\ writer = [w \in Writers |-> "idle"] /\ wconn = [w \in Writers |-> 0]
    /\ ticket = NoTicket
    /\ reader = NoReader
    /\ submitted = 0 /\ status = [m \in Chats |-> "none"]
    /\ deliveries = {} /\ slotGen = [m \in Chats |-> 0]
    /\ buffer = [c \in Conns |-> <<>>] /\ inbox = [c \in Conns |-> <<>>]
    /\ peerChats = 0 /\ shown = {} /\ cancels = 0
    /\ approval = 0 /\ born = [m \in Chats |-> 0]
    /\ written = {} /\ badAck = FALSE

-------------------------------------------------------------------------------
(* Effects shared by several handlers.                                        *)

(* Coordinator.transition *)
Transition(to) ==
    /\ CanMove(state, to)
    /\ state' = to
    /\ generation' = Generation(state, to, generation)

(* Mutant: a status the browser does not know.                                *)
FailDeliveriesMisspelt ==
    /\ status' = [m \in Chats |->
                     IF m \in deliveries THEN "undelivered" ELSE status[m]]
    /\ deliveries' = {}

(* Endpoint.fail_deliveries *)
FailDeliveries ==
    /\ status' = [m \in Chats |->
                     IF m \in deliveries THEN "not delivered" ELSE status[m]]
    /\ deliveries' = {}

(* FramedConnection.close of the gate's connection, if it has one *)
CloseConnection(links) ==
    IF connection = 0 THEN links ELSE [links EXCEPT ![connection] = FALSE]

(* Endpoint.restrict, up to the await of the close *)
Restriction(links) ==
    /\ IF state \in {"RESTRICTED", "CLOSED"}
       THEN UNCHANGED <<state, generation>>
       ELSE Transition("RESTRICTED")
    /\ FailDeliveries
    /\ open' = CloseConnection(links)

(* A coroutine enters connection.send, or leaves it and its locals are gone.  *)
JoinSend(w, c) ==
    /\ writer' = [writer EXCEPT ![w] = "waiting"]
    /\ wconn' = [wconn EXCEPT ![w] = c]
    /\ ahead' = ahead \cup
         {<<v, w>> : v \in {x \in Writers : writer[x] # "idle" /\ wconn[x] = c}}

LeaveSend(ws) ==
    /\ writer' = [w \in Writers |-> IF w \in ws THEN "idle" ELSE writer[w]]
    /\ wconn' = [w \in Writers |-> IF w \in ws THEN 0 ELSE wconn[w]]
    /\ ahead' = {p \in ahead : p[1] \notin ws /\ p[2] \notin ws}
    /\ ticket' = IF "chat" \in ws THEN NoTicket ELSE ticket

(* The except clause of read_loop: the exception restricts the session unless *)
(* the endpoint is closing, reconnecting, or reading a replaced connection.   *)
ReaderRaises(links) ==
    /\ reader' = NoReader
    /\ IF closing = "no" /\ reader.conn = connection /\ state # "RECONNECTING"
       THEN Restriction(links)
       ELSE /\ open' = links
            /\ UNCHANGED <<state, generation, status, deliveries>>

(* The while condition of read_loop, then the start of the next receive().    *)
ReaderLoops ==
    reader' =
        IF closing = "no" /\ reader.conn = connection /\ open[reader.conn]
        THEN [reader EXCEPT !.gen = generation]
        ELSE NoReader

-------------------------------------------------------------------------------
(* send_chat and the write boundary.                                          *)

(* send_chat, queue_chat and flush_one up to the await in connection.send.    *)
(* A refused command (gate closed, 128 chats unacknowledged) changes nothing. *)
SendChat ==
    /\ submitted < MaxChats /\ writer["chat"] = "idle" /\ closing = "no"
    /\ Cardinality(deliveries) < QueueSize
    /\ state = "ACTIVE"
    /\ LET m == submitted + 1 IN
       /\ submitted' = m
       /\ born' = [born EXCEPT ![m] = approval]
       /\ slotGen' = [slotGen EXCEPT ![m] = generation]
       /\ \/ /\ open[connection]
             /\ status' = [status EXCEPT ![m] = "sending"]
             /\ deliveries' = deliveries \cup {m}
             /\ ticket' = [msg |-> m, gen |-> generation, session |-> session]
             /\ JoinSend("chat", connection)
          \/ /\ ~open[connection]
             /\ status' = [status EXCEPT ![m] = "not delivered"]
             /\ UNCHANGED <<deliveries, sendVars>>
    /\ UNCHANGED <<gateVars, open, reader, peerVars, cancels, approval,
                   written, badAck>>

(* Any other coroutine's Coordinator.control: a heartbeat, a decision, ...    *)
SendControl ==
    /\ writer["task"] = "idle" /\ connection # 0
    /\ state \notin ControlRefused /\ open[connection]
    /\ JoinSend("task", connection)
    /\ UNCHANGED <<gateVars, open, ticket, reader, logVars, peerVars, cancels,
                   histVars>>

(* Mutant: permitted looks only at the state, as the first check does.        *)
PermittedByState ==
    ticket.session = session /\ state = "ACTIVE" /\ wconn["chat"] = connection

(* flush_one's permitted predicate.  It belongs to the Coordinator the chat   *)
(* was queued on; a replaced one was ended first, so it no longer permits.    *)
Permitted ==
    /\ ticket.session = session /\ state = "ACTIVE"
    /\ ticket.gen = generation /\ wconn["chat"] = connection

(* asyncio.Lock is first come, first served.                                  *)
HasLock(w) == \A v \in Writers : <<v, w>> \notin ahead

MayWrite(w) == open[wconn[w]] /\ (w = "chat" => Permitted)

(* write() with the lock held: the checks and the write, then await drain.    *)
WriteFrame(w) ==
    /\ writer[w] = "waiting" /\ HasLock(w) /\ MayWrite(w)
    /\ writer' = [writer EXCEPT ![w] = "draining"]
    /\ IF w = "chat"
       THEN /\ buffer' = [buffer EXCEPT ![wconn[w]] = Append(@, ticket.msg)]
            /\ written' = written \cup
                 {<<ticket.msg, IF state = "ACTIVE" THEN approval ELSE 0>>}
       ELSE UNCHANGED <<buffer, written>>
    /\ UNCHANGED <<gateVars, open, ahead, wconn, ticket, reader, logVars, inbox,
                   peerChats, shown, cancels, approval, born, badAck>>

(* Mutants: the status after send is written whatever it is by now; a send    *)
(* that returned counts as delivery; the status is left to the peer's answer. *)
SentOverwrites(m) == "sent"
SentIsDelivered(m) == "delivered"
SentForgotten(m) == status[m]

(* send_chat after a send that returned                                       *)
Sent(m) == IF status[m] = "sending" THEN "sent" ELSE status[m]

(* What an exception from send does to its caller: send_chat marks the chat, *)
(* the reader's loop ends, and every other caller restricts the session.      *)
SendRaises(w, links) ==
    /\ LeaveSend({w})
    /\ CASE w = "chat" ->
              /\ status' = [status EXCEPT ![ticket.msg] = "not delivered"]
              /\ deliveries' = deliveries \ {ticket.msg}
              /\ open' = links
              /\ UNCHANGED <<state, generation, reader>>
         [] w = "reader" -> ReaderRaises(links)
         [] w = "task" -> Restriction(links) /\ UNCHANGED reader
    /\ UNCHANGED <<connection, session, conns, closing, submitted,
                   slotGen, peerVars, cancels, histVars>>

(* _check_open or permitted fails at the write boundary.                      *)
RefuseWrite(w) ==
    /\ writer[w] = "waiting" /\ HasLock(w) /\ ~MayWrite(w)
    /\ SendRaises(w, open)

(* The drain fails or io_timeout expires, waiting for the lock included.  A   *)
(* drain waits only for bytes the network has not taken yet.                  *)
SendAborts(w) ==
    /\ writer[w] # "idle"
    /\ w = "chat" /\ writer[w] = "draining" =>
         \E i \in 1 .. Len(buffer[wconn[w]]) : buffer[wconn[w]][i] = ticket.msg
    /\ SendRaises(w, [open EXCEPT ![wconn[w]] = FALSE])

DrainDone(w) ==
    /\ writer[w] = "draining"
    /\ LeaveSend({w})
    /\ status' = IF w = "chat" THEN [status EXCEPT ![ticket.msg] = Sent(ticket.msg)]
                               ELSE status
    /\ IF w = "reader" THEN ReaderLoops ELSE UNCHANGED reader
    /\ UNCHANGED <<gateVars, open, submitted, deliveries, slotGen,
                   peerVars, cancels, histVars>>

(* The browser socket goes away: its command task is cancelled inside send,  *)
(* which closes the connection.  send_chat catches only Exception.            *)
CancelChat ==
    /\ cancels < MaxCancels /\ writer["chat"] # "idle"
    /\ cancels' = cancels + 1
    /\ open' = [open EXCEPT ![wconn["chat"]] = FALSE]
    /\ LeaveSend({"chat"})
    /\ UNCHANGED <<gateVars, reader, logVars, peerVars, histVars>>

-------------------------------------------------------------------------------
(* The peer, and the reader task.                                             *)

(* The peer reads a chat: it shows and acknowledges it, or drops it because   *)
(* its own gate is closed.                                                    *)
PeerReads(c) ==
    /\ buffer[c] # <<>>
    /\ buffer' = [buffer EXCEPT ![c] = Tail(@)]
    /\ \/ /\ shown' = shown \cup {Head(buffer[c])}
          /\ inbox' = [inbox EXCEPT ![c] = Append(@, Head(buffer[c]))]
       \/ UNCHANGED <<shown, inbox>>
    /\ UNCHANGED <<gateVars, open, sendVars, reader, logVars, peerChats, cancels,
                   histVars>>

PeerWrites(c) ==
    /\ peerChats < MaxPeerChats /\ open[c]
    /\ peerChats' = peerChats + 1
    /\ inbox' = [inbox EXCEPT ![c] = Append(@, PeerChat)]
    /\ UNCHANGED <<gateVars, open, sendVars, reader, logVars, buffer, shown,
                   cancels, histVars>>

Reading == reader.on /\ writer["reader"] = "idle"

(* Mutant: the generation of the slot is not compared.                        *)
AcknowledgedAlways(m) == "delivered"

(* handle of chat_ack *)
Acknowledged(m) ==
    IF slotGen[m] = generation THEN "delivered" ELSE "delivery unconfirmed"

HandleAck(m) ==
    /\ m \in deliveries
    /\ deliveries' = deliveries \ {m}
    /\ status' = [status EXCEPT ![m] = Acknowledged(m)]
    /\ ReaderLoops
    /\ UNCHANGED <<state, generation, open, sendVars, badAck>>

HandleUnknownAck(m) ==
    /\ m \notin deliveries
    /\ badAck' = (badAck \/ state # "RECONNECTING")
    /\ ReaderRaises(open)
    /\ UNCHANGED sendVars

(* receive's staleness test, then handle of chat with its acknowledgement     *)
HandleChat ==
    /\ IF state # "ACTIVE" \/ reader.gen # generation
       THEN ReaderLoops /\ UNCHANGED sendVars
       ELSE /\ JoinSend("reader", reader.conn)
            /\ UNCHANGED <<reader, ticket>>
    /\ UNCHANGED <<state, generation, status, deliveries, open, badAck>>

Receive ==
    /\ Reading /\ open[reader.conn] /\ inbox[reader.conn] # <<>>
    /\ inbox' = [inbox EXCEPT ![reader.conn] = Tail(@)]
    /\ LET m == Head(inbox[reader.conn]) IN
       IF m = PeerChat THEN HandleChat ELSE HandleAck(m) \/ HandleUnknownAck(m)
    /\ UNCHANGED <<connection, session, conns, closing, submitted, slotGen,
                   buffer, peerChats, shown, cancels, approval, born, written>>

(* End of stream, a read error or io_timeout: receive closes the connection.  *)
ReceiveFails ==
    /\ Reading /\ open[reader.conn]
    /\ open' = [open EXCEPT ![reader.conn] = FALSE]
    /\ UNCHANGED <<gateVars, sendVars, reader, logVars, peerVars, cancels, histVars>>

(* receive on a closed connection raises into read_loop.                      *)
ReaderSeesClose ==
    /\ Reading /\ ~open[reader.conn]
    /\ ReaderRaises(open)
    /\ UNCHANGED <<connection, session, conns, closing, sendVars, submitted,
                   slotGen, peerVars, cancels, histVars>>

(* recover cancels the reader of the connection it is about to replace; a     *)
(* cancelled receive or send closes it.                                       *)
CancelReader ==
    /\ state = "RECONNECTING" /\ reader.on
    /\ reader' = NoReader
    /\ open' = [open EXCEPT ![reader.conn] = FALSE]
    /\ LeaveSend({"reader"})
    /\ UNCHANGED <<gateVars, logVars, peerVars, cancels, histVars>>

-------------------------------------------------------------------------------
(* The handlers that move the gate.                                           *)

OnlyGateMoves == UNCHANGED <<connection, session, conns, closing, sendVars,
                             reader, submitted, slotGen, peerVars, cancels>>

(* start_server or _connect: a new Coordinator, moved to CONNECTING.          *)
NewSession ==
    /\ session < MaxSessions /\ closing = "no" /\ writer["chat"] = "idle"
    /\ state \in {"LOCKED", "CLOSED"} \/ (state = "RESTRICTED" /\ ~reader.on)
    /\ session' = session + 1
    /\ state' = "CONNECTING" /\ generation' = 1 /\ connection' = 0
    /\ UNCHANGED <<conns, closing, open, sendVars, reader, logVars, peerVars,
                   cancels, histVars>>

(* Coordinator.attach, and the read_loop started on the connection.           *)
Attach ==
    /\ state \in {"CONNECTING", "RECONNECTING"} /\ conns < MaxConns
    /\ ~reader.on /\ (closing = "no" \/ state = "CONNECTING")
    /\ conns' = conns + 1 /\ connection' = conns + 1
    /\ Transition("VERIFYING")
    /\ open' = [open EXCEPT ![conns + 1] = TRUE]
    /\ reader' = [on |-> TRUE, conn |-> conns + 1, gen |-> generation + 1]
    /\ UNCHANGED <<session, closing, sendVars, logVars, peerVars, cancels, histVars>>

(* Both humans matched, or the recovered session is ready.                    *)
Approve ==
    /\ state = "VERIFYING" /\ approval < MaxApprovals
    /\ Transition("ACTIVE")
    /\ approval' = approval + 1
    /\ UNCHANGED <<open, status, deliveries, born, written, badAck>> /\ OnlyGateMoves

(* Mutant: verification drops the delivery table as recovery does.            *)
ReverifyFailing ==
    /\ state = "ACTIVE"
    /\ Transition("VERIFYING") /\ FailDeliveries
    /\ UNCHANGED <<open, histVars>> /\ OnlyGateMoves

(* begin_verification, or GuardAdapter.require_verification(True)             *)
Reverify ==
    /\ state = "ACTIVE"
    /\ Transition("VERIFYING")
    /\ UNCHANGED <<open, status, deliveries, histVars>> /\ OnlyGateMoves

(* Mutant: recovery keeps the delivery table.                                 *)
ReserveKeepingSlots ==
    /\ state \in {"ACTIVE", "VERIFYING"}
    /\ Transition("RECONNECTING")
    /\ UNCHANGED <<open, status, deliveries, histVars>> /\ OnlyGateMoves

(* reserve_recovery on Bob; respond and reconnect_burst on Alice.             *)
ReserveRecovery ==
    /\ state \in {"ACTIVE", "VERIFYING"}
    /\ Transition("RECONNECTING")
    /\ FailDeliveries
    /\ UNCHANGED <<open, histVars>> /\ OnlyGateMoves

(* Alice closes the connection she is replacing.                              *)
CloseForRecovery ==
    /\ state = "RECONNECTING" /\ open # CloseConnection(open)
    /\ open' = CloseConnection(open)
    /\ UNCHANGED <<state, generation, status, deliveries, histVars>> /\ OnlyGateMoves

(* Every other call of restrict: a mismatch, a timeout, an error of a handler. *)
(* The peer here is honest: of the frames that do not decode, repeat an id or *)
(* name a wrong sender, at which Coordinator.receive sets RESTRICTED and      *)
(* awaits close() before restrict is called, none is received.                *)
RestrictSession ==
    /\ state \notin {"LOCKED", "RESTRICTED", "CLOSED"}
    /\ Restriction(open)
    /\ UNCHANGED histVars /\ OnlyGateMoves

(* disconnect, from its first line to the await of the shutdown notice.       *)
DisconnectBegins ==
    /\ closing = "no" /\ state # "CLOSED"
    /\ closing' = "notice"
    /\ UNCHANGED <<state, generation, connection, session, conns, open, sendVars,
                   reader, logVars, peerVars, cancels, histVars>>

DisconnectCloses ==
    /\ closing = "notice"
    /\ closing' = "closed"
    /\ open' = CloseConnection(open)
    /\ UNCHANGED <<state, generation, connection, session, conns, sendVars,
                   reader, logVars, peerVars, cancels, histVars>>

(* Reader, measurement task and server are cancelled, then no more awaits.    *)
DisconnectEnds ==
    /\ closing = "closed"
    /\ closing' = "no"
    /\ Transition("CLOSED") /\ FailDeliveries
    /\ open' = CloseConnection(open)
    /\ reader' = NoReader
    /\ LeaveSend({"reader", "task"})
    /\ UNCHANGED <<connection, session, conns, submitted, slotGen,
                   peerVars, cancels, histVars>>

(* The browser socket that asked for the disconnect goes away first: its      *)
(* cancellation reaches the send or the close in progress.                    *)
DisconnectAbandoned ==
    /\ closing # "no" /\ cancels < MaxCancels
    /\ cancels' = cancels + 1 /\ closing' = "no"
    /\ open' = CloseConnection(open)
    /\ UNCHANGED <<state, generation, connection, session, conns, sendVars,
                   reader, logVars, peerVars, histVars>>

-------------------------------------------------------------------------------
Next ==
    \/ SendChat \/ SendControl \/ CancelChat
    \/ \E w \in Writers : WriteFrame(w) \/ RefuseWrite(w) \/ SendAborts(w)
                            \/ DrainDone(w)
    \/ \E c \in Conns : PeerReads(c) \/ PeerWrites(c)
    \/ Receive \/ ReceiveFails \/ ReaderSeesClose \/ CancelReader
    \/ NewSession \/ Attach \/ Approve \/ Reverify
    \/ ReserveRecovery \/ CloseForRecovery \/ RestrictSession
    \/ DisconnectBegins \/ DisconnectCloses \/ DisconnectEnds
    \/ DisconnectAbandoned

(* The event loop runs every coroutine that can run, io_timeout bounds every  *)
(* send, and a disconnect in progress is carried on.                          *)
Fairness ==
    /\ \A w \in Writers : /\ WF_vars(WriteFrame(w) \/ RefuseWrite(w))
                          /\ WF_vars(DrainDone(w) \/ SendAborts(w))
    /\ WF_vars(ReaderSeesClose)
    /\ WF_vars(DisconnectCloses) /\ WF_vars(DisconnectEnds)

Spec == Init /\ [][Next]_vars
FairSpec == Spec /\ Fairness

-------------------------------------------------------------------------------
(* A chat frame leaves only under the approval it was submitted under: the    *)
(* two humans' comparison that had opened the gate when the user pressed send.*)
(* Between the two lie the queue for the send lock and any number of gate     *)
(* moves (flush_one's permitted predicate, the generation counter).           *)
WrittenUnderItsApproval ==
    \A p \in written : p[2] # 0 /\ p[2] = born[p[1]]

(* The browser is told "delivered" or "delivery unconfirmed" only of a chat   *)
(* the peer did display.                                                      *)
DeliveredWasShown ==
    \A m \in Chats : status[m] \in {"delivered", "delivery unconfirmed"} => m \in shown

(* A peer that acknowledges only what it read never provokes the protocol     *)
(* error for an unknown acknowledgement, except while reconnecting, where     *)
(* read_loop swallows it (handle of chat_ack, fail_deliveries, send_chat).    *)
HonestAckKnown == ~badAck

(* Slots of the delivery table never outlive the session that made them, so   *)
(* comparing a slot's generation with the current gate compares like with     *)
(* like although a new Coordinator counts from zero again.                    *)
SlotsAreOfThisGate ==
    deliveries # {} => state \in {"ACTIVE", "VERIFYING"}

(* What the browser was told of a chat is never taken back.                   *)
FinalStatusStays ==
    [][\A m \in Chats :
         status[m] \in {"delivered", "delivery unconfirmed", "not delivered"}
           => status'[m] = status[m]]_vars

(* "delivered" is announced only while the approval the chat was sent under   *)
(* still holds the gate open; an acknowledgement that arrives later is        *)
(* "delivery unconfirmed".                                                    *)
DeliveredUnderItsApproval ==
    [][\A m \in Chats :
         status'[m] = "delivered" /\ status[m] # "delivered"
           => state = "ACTIVE" /\ approval = born[m]]_vars

(* A submitted chat never stays "sending" for ever.                           *)
ChatSettles ==
    \A m \in Chats : (status[m] = "sending") ~> (status[m] # "sending")
===============================================================================
